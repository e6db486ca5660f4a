------------------------------- MODULE Checks -------------------------------
(***************************************************************************)
(* What a check makes of the answer of its target: the conditions of HTTP  *)
(* with the assertions on JSON (checker/http.go, jsonassert.go), those of  *)
(* Redis (redis.go, redis_assert.go), and the verdicts of DNS, certificate *)
(* and ping (dns.go, tls.go, icmp.go).  The assertions of a monitor are    *)
(* interpreted once and kept until its configuration changes, with several *)
(* checks and edits in course.  A text is a sequence of letters, a number  *)
(* an integer, a verdict a status.                                         *)
(***************************************************************************)
EXTENDS Integers, Sequences, FiniteSets, SequencesExt

CONSTANTS
    None, Broken, Checkers,
    Values,     \* sequence of JSON values, as the constructors below build them
    Mantissa,   \* below it a number survives a floating point one
    Configs,    \* sequence of HTTP configurations
    Answers,    \* sequence of HTTP answers
    Replies,    \* what a Redis key may answer: integers, None, Broken
    Connections,\* of the clients of a Redis: [prefix, queue, suffix]
    Names,      \* values of DNS records
    MaxDays, MaxPackets, MaxChecks

VARIABLES
    config,     \* the configuration of the monitor, an index of Configs
    cache,      \* HTTP.assertions of the monitor, with their configuration
    check, checks

vars == <<config, cache, check, checks>>
-----------------------------------------------------------------------------
\* decodeJSON: a value with its type; an object is a list with keys.  A number
\* beyond the range of the comparison has no value.
Value(t, n, s, items) == [t |-> t, n |-> n, s |-> s, items |-> items]
Null == Value("null", 0, <<>>, <<>>)
Num(n) == Value("number", n, <<>>, <<>>)
Huge == Value("number", -1, <<>>, <<>>)
Text(s) == Value("text", 0, s, <<>>)
ListOf(vs) == Value("list", 0, <<>>, [i \in DOMAIN vs |-> [key |-> <<>>, value |-> vs[i]]])
Object(k, v) == Value("object", 0, <<>>, <<[key |-> k, value |-> v]>>)
Nowhere == Value("absent", 0, <<>>, <<>>)

\* firstNumberWhere, for outOfComparableRange.
RECURSIVE HasHuge(_)
HasHuge(v) ==
    \/ v = Huge
    \/ \E i \in DOMAIN v.items : HasHuge(v.items[i].value)

\* A float64 holds a number below Mantissa as it is, an even one above.
Float(n) == IF n < Mantissa THEN n ELSE n - (n % 2)

\* changesInFloat64, anywhere in the value.
RECURSIVE ChangesInFloat(_)
ChangesInFloat(v) ==
    \/ v.t = "number" /\ Float(v.n) # v.n
    \/ \E i \in DOMAIN v.items : ChangesInFloat(v.items[i].value)

\* Mutant: numbers are compared as float64.
AsFloats(a, b) == Float(a) - Float(b)

\* compareNumbers, the sign alone counts.
CompareNumbers(a, b) == a - b

\* jsonEqual.
RECURSIVE JsonEqual(_, _)
JsonEqual(a, b) ==
    /\ a.t = b.t
    /\ CASE a.t = "number" -> CompareNumbers(a.n, b.n) = 0
         [] a.t \in {"list", "object"} ->
              /\ Len(a.items) = Len(b.items)
              /\ \A i \in DOMAIN a.items :
                    /\ a.items[i].key = b.items[i].key
                    /\ JsonEqual(a.items[i].value, b.items[i].value)
         [] OTHER -> a.s = b.s

\* strings.Contains.
Inside(w, s) ==
    \E i \in 0..Len(s) : \E j \in i..Len(s) : SubSeq(s, i + 1, j) = w

\* contains; what is neither text nor list contains nothing.
ContainsValue(found, want) ==
    CASE found.t = "text" -> want.t = "text" /\ Inside(want.s, found.s)
      [] found.t = "list" -> \E i \in DOMAIN found.items : JsonEqual(found.items[i].value, want)
      [] OTHER -> FALSE

\* lookupJSONPath: a key of an object, or an index of a list, or nothing.
Step(v, seg) ==
    CASE seg.key # None /\ v.t = "object" ->
           IF \E i \in DOMAIN v.items : v.items[i].key = seg.key
             THEN (CHOOSE x \in Range(v.items) : x.key = seg.key).value ELSE Nowhere
      [] seg.key = None /\ v.t = "list" /\ seg.index < Len(v.items) -> v.items[seg.index + 1].value
      [] OTHER -> Nowhere
Lookup(doc, segs) == FoldLeft(Step, doc, segs)

Orderings == {"lt", "lte", "gt", "gte"}
Ops == Orderings \cup {"eq", "ne", "contains", "exists", "absent"}

\* compileAssertion: the values an operator takes.
Accepted(a) ==
    IF a.op \in {"exists", "absent"} THEN a.value = Nowhere
    ELSE /\ a.value # Nowhere /\ ~HasHuge(a.value) /\ ~ChangesInFloat(a.value)
         /\ a.op \in Orderings => a.value.t = "number"

HoldsOrdering(op, cmp) ==
    CASE op = "lt" -> cmp < 0 [] op = "lte" -> cmp <= 0 [] op = "gt" -> cmp > 0 [] OTHER -> cmp >= 0

\* Mutant: what is not there passes as it did before absent existed.
HoldsLoosely(a, doc) ==
    LET found == Lookup(doc, a.segs) IN
    CASE found = Nowhere -> a.op \in {"absent", "ne", "lt", "lte"}
      [] a.op \in {"exists", "absent"} -> a.op = "exists"
      [] OTHER -> TRUE

\* compiledAssertion.evaluate.
Holds(a, doc) ==
    LET found == Lookup(doc, a.segs) IN
    CASE found = Nowhere -> a.op \in {"absent", "ne"}
      [] a.op = "exists" -> TRUE
      [] a.op = "absent" -> FALSE
      [] HasHuge(found) -> FALSE
      [] a.op = "eq" -> JsonEqual(found, a.value)
      [] a.op = "ne" -> ~JsonEqual(found, a.value)
      [] a.op = "contains" -> ContainsValue(found, a.value)
      [] OTHER -> found.t = "number" /\ HoldsOrdering(a.op, CompareNumbers(found.n, a.value.n))
-----------------------------------------------------------------------------
\* HTTPConfig.accepts.
Accepts(cfg, code) == IF cfg.codes = {} THEN code \in 200..299 ELSE code \in cfg.codes

\* Mutant: the first condition on the body that holds settles the matter.
BodyAny(cfg, body) ==
    \/ cfg.with # None /\ Inside(cfg.with, body)
    \/ cfg.without # None /\ ~Inside(cfg.without, body)
    \/ cfg.with = None /\ cfg.without = None
    \/ cfg.regex # None /\ body \in cfg.regex

\* evaluateBody; an expression is the set of bodies it matches.
BodyHolds(cfg, body) ==
    /\ cfg.with # None => Inside(cfg.with, body)
    /\ cfg.without # None => ~Inside(cfg.without, body)
    /\ cfg.regex # None => body \in cfg.regex

\* evaluateJSONAssertions: a body cut at the limit is no document.
AssertionsHold(as, answer) ==
    as # <<>> => answer.json # Nowhere /\ \A i \in DOMAIN as : Holds(as[i], answer.json)

\* HTTP.Check, with the assertions that were kept for it.
HttpStatus(cfg, as, answer) ==
    IF /\ ~answer.failed /\ Accepts(cfg, answer.code)
       /\ BodyHolds(cfg, answer.body) /\ AssertionsHold(as, answer)
      THEN "up" ELSE "down"

\* The answer of a Redis to one assertion, as measure reads it: a floating point
\* number, or None for a key that is not there or a reply of another type.
Measure(a, reply) ==
    IF reply \in {Broken, None} THEN None
    ELSE Float(IF a.command = "WORKERS" THEN a.count ELSE reply)

Compare(got, op, want) ==
    CASE op = "eq" -> got = want [] op = "ne" -> got # want [] OTHER -> HoldsOrdering(op, got - want)

\* RedisAssertion.Evaluate; Measure's None is a cause.
RedisHolds(a, reply) == Measure(a, reply) # None /\ Compare(Measure(a, reply), a.op, Float(a.want))

\* RedisConfig.checks: the limit of memory is one more assertion.
RedisChecks(as, limit) ==
    IF limit = 0 THEN as
    ELSE Append(as, [command |-> "INFO", count |-> 0, op |-> "lte", want |-> limit])

\* Redis.Check: PING, then each command, up to the first that fails.
RedisStatus(ping, as, limit, answer, memory) ==
    LET all == RedisChecks(as, limit) IN
    IF ping /\ \A i \in DOMAIN all : RedisHolds(all[i], IF i > Len(as) THEN memory ELSE answer[i])
      THEN "up" ELSE "down"

\* Mutant: the name of a connection is compared by its beginning.
PrefixWorker(c, prefix, queue) == c.prefix = prefix /\ Inside(queue, c.queue)

\* countWorkers: the connections named after the queue, with a name of the
\* worker or without, and not those of its events.
IsWorker(c, prefix, queue) ==
    c.prefix = prefix /\ c.queue = queue /\ c.suffix \in {"none", "named"}
CountWorkers(list, prefix, queue) == Cardinality({i \in DOMAIN list : IsWorker(list[i], prefix, queue)})

\* DNSChecker.Check, for the values an answer holds.
DnsStatus(works, values, expected) ==
    IF works /\ values # {} /\ (expected = {} \/ values \cap expected # {}) THEN "up" ELSE "down"

\* Mutant: a certificate nobody is to verify is not looked at.
TlsTrusting(cfg, cert, now) ==
    IF cfg.skip THEN "up" ELSE IF now > cert.notAfter THEN "down" ELSE "degraded"

\* TLSChecker.Check: the dates, the chain, then the days left.
TlsStatus(cfg, cert, now) ==
    CASE now > cert.notAfter \/ now < cert.notBefore -> "down"
      [] ~cfg.skip /\ ~cert.valid -> "down"
      [] cert.notAfter - now < cfg.window -> "degraded"
      [] OTHER -> "up"

\* Mutant: the loss is compared before the silence.
PingByLoss(sent, received, tolerated) ==
    IF (sent - received) * 100 > tolerated * sent THEN "degraded" ELSE "up"

\* ICMP.Check; the loss is a percentage.
PingStatus(sent, received, tolerated) ==
    CASE received = 0 -> "down"
      [] (sent - received) * 100 > tolerated * sent -> "degraded"
      [] OTHER -> "up"
-----------------------------------------------------------------------------
Idle == [step |-> "idle"]
Init ==
    /\ config \in DOMAIN Configs /\ cache = None
    /\ check = [c \in Checkers |-> Idle] /\ checks = 0

Goes(c, k) == check' = [check EXCEPT ![c] = k]

\* A check takes the monitor as it is.
Start(c) ==
    /\ check[c].step = "idle" /\ checks < MaxChecks /\ checks' = checks + 1
    /\ Goes(c, [step |-> "find", config |-> config]) /\ UNCHANGED <<config, cache>>

\* An edit of the monitor.
Edit(k) == config' = k /\ k # config /\ UNCHANGED <<cache, check, checks>>

\* Mutant: what is kept for the monitor will do.
KeptForMonitor(k) == cache # None

\* assertionsFor: what is kept for this very configuration, or else it is
\* interpreted again.
Kept(k) == cache # None /\ cache.config = k
Find(c) ==
    LET k == check[c].config IN
    /\ check[c].step = "find"
    /\ Goes(c, IF Kept(k) THEN [step |-> "ask", config |-> k, assertions |-> cache.assertions]
                          ELSE [step |-> "keep", config |-> k])
    /\ UNCHANGED <<config, cache, checks>>
Keep(c) ==
    LET k == check[c].config IN
    /\ check[c].step = "keep"
    /\ cache' = [config |-> k, assertions |-> Configs[k].assertions]
    /\ Goes(c, [step |-> "ask", config |-> k, assertions |-> Configs[k].assertions])
    /\ UNCHANGED <<config, checks>>

\* The target answers.
Answer(c, i) ==
    LET k == check[c].config IN
    /\ check[c].step = "ask"
    /\ Goes(c, [step |-> "done", config |-> k, answer |-> i,
                status |-> HttpStatus(Configs[k], check[c].assertions, Answers[i])])
    /\ UNCHANGED <<config, cache, checks>>
Report(c) == check[c].step = "done" /\ Goes(c, Idle) /\ UNCHANGED <<config, cache, checks>>

Next ==
    \/ \E c \in Checkers : Start(c) \/ Find(c) \/ Keep(c) \/ Report(c)
    \/ \E c \in Checkers, i \in DOMAIN Answers : Answer(c, i)
    \/ \E k \in DOMAIN Configs : Edit(k)

Spec == Init /\ [][Next]_vars
-----------------------------------------------------------------------------
TypeOK ==
    /\ config \in DOMAIN Configs /\ checks \in 0..MaxChecks
    /\ cache # None => cache.config \in DOMAIN Configs
    /\ \A c \in Checkers : check[c].step \in {"idle", "find", "keep", "ask", "done"}

\* One condition of a configuration, alone.
Unconditional == [codes |-> 0..999, with |-> None, without |-> None, regex |-> None, assertions |-> <<>>]
Alone(cfg, name) == [Unconditional EXCEPT ![name] = cfg[name]]

\* A check that passes passed every condition of the configuration it began
\* with, each as if it were alone, and one that fails failed one of them,
\* whatever was edited or kept meanwhile (http.go, assertionsFor).
PassesEachCondition ==
    \A c \in Checkers : check[c].step = "done" =>
        LET cfg == Configs[check[c].config]
            Passes(x) == HttpStatus(x, x.assertions, Answers[check[c].answer]) = "up"
        IN check[c].status = "up" <=>
              /\ \A name \in {"codes", "with", "without", "regex"} : Passes(Alone(cfg, name))
              /\ \A i \in DOMAIN cfg.assertions :
                    Passes([Unconditional EXCEPT !.assertions = <<cfg.assertions[i]>>])

\* The operators agree with each other: of less, equal and greater one holds, a
\* value is equal or it is not, a path is there or it is not, a list contains
\* what one of its items is, and numbers that differ are told apart
\* (jsonassert.go, evaluate).
OperatorsAgree ==
    \A d \in DOMAIN Values, w \in DOMAIN Values :
        LET v == Values[d]  want == Values[w]
            There == <<[key |-> None, index |-> 0]>>
            Past == <<[key |-> None, index |-> 1]>>
            Op(op, segs, x) == [op |-> op, segs |-> segs, value |-> x]
            Ask(op) == Accepted(Op(op, There, want)) /\ Holds(Op(op, There, want), ListOf(<<v>>))
            Numbers == v.t = "number" /\ v # Huge /\ Accepted(Op("lt", There, want))
        IN /\ Numbers => /\ Cardinality({op \in {"lt", "eq", "gt"} : Ask(op)}) = 1
                         /\ Ask("lte") <=> Ask("lt") \/ Ask("eq")
                         /\ Ask("gte") <=> Ask("gt") \/ Ask("eq")
                         /\ Ask("eq") <=> v = want
           /\ Accepted(Op("eq", There, want)) =>
                 IF HasHuge(v) THEN \A op \in Ops \ {"exists", "absent"} : ~Ask(op)
                               ELSE Ask("eq") # Ask("ne")
           /\ v.t = "list" /\ ~HasHuge(v) /\ Accepted(Op("contains", There, want)) =>
                 (Ask("contains") <=> \E i \in 0..Len(v.items) :
                     Holds(Op("eq", There \o <<[key |-> None, index |-> i]>>, want), ListOf(<<v>>)))
           /\ {op \in Ops : Holds(Op(op, Past, want), ListOf(<<v>>))} = {"ne", "absent"}
           /\ Holds(Op("exists", There, Nowhere), ListOf(<<v>>))
           /\ ~Holds(Op("absent", There, Nowhere), ListOf(<<v>>))

\* A Redis passes when it answers the PING and each assertion alone and the memory
\* pass, no comparison passes on a key that is gone, and numbers a float64 holds
\* are told apart (redis_assert.go, measure).
RedisIsEach ==
    \A ping \in BOOLEAN, r1 \in Replies, r2 \in Replies, memory \in {1, 2},
       op \in {"lt", "eq", "ne", "gte"}, limit \in 0..2, want \in {1, Mantissa + 1} :
        LET a == [command |-> "GET", count |-> 0, op |-> op, want |-> want]
            One(as, lim, replies) == RedisStatus(TRUE, as, lim, replies, memory) = "up" IN
        /\ RedisStatus(ping, <<a, a>>, limit, <<r1, r2>>, memory) = "up" <=>
              ping /\ One(<<a>>, 0, <<r1>>) /\ One(<<a>>, 0, <<r2>>) /\ One(<<>>, limit, <<>>)
        /\ r1 \in {None, Broken} => ~One(<<a>>, 0, <<r1>>)
        /\ r1 \in 0..Mantissa /\ want < Mantissa /\ op = "eq" => (One(<<a>>, 0, <<r1>>) <=> r1 = want)

\* Each connection works for one queue at most, and one of events for none
\* (redis_assert.go, countWorkers).
WorkersCountOnce ==
    LET queues == {Connections[i].queue : i \in DOMAIN Connections} IN
    /\ \A i \in DOMAIN Connections :
          Cardinality({q \in queues : CountWorkers(<<Connections[i]>>, Connections[i].prefix, q) = 1})
             = IF Connections[i].suffix = "events" THEN 0 ELSE 1

Rank(status) == CASE status = "up" -> 0 [] status = "degraded" -> 1 [] OTHER -> 2

\* Once it is valid a certificate only gets worse with time, and nobody who
\* waives its chain is spared its end (tls.go).
CertificatesAge ==
    \A skip \in BOOLEAN, valid \in BOOLEAN, window \in 0..MaxDays, from \in 0..1, end \in 1..MaxDays,
       now \in 0..MaxDays :
        LET cfg == [skip |-> skip, window |-> window]
            cert == [notBefore |-> from, notAfter |-> end, valid |-> valid]
        IN /\ now >= from => Rank(TlsStatus(cfg, cert, now)) <= Rank(TlsStatus(cfg, cert, now + 1))
           /\ TlsStatus([cfg EXCEPT !.skip = TRUE], cert, end + 1) = "down"

\* A packet more that returns, or is tolerated lost, makes nothing worse; no
\* answer at all is an outage whatever is tolerated; a record more in an answer
\* makes no name worse (icmp.go, dns.go).
MoreIsNoWorse ==
    /\ \A sent \in 1..MaxPackets, tolerated \in {0, 34, 50, 100} :
          /\ PingStatus(sent, 0, tolerated) = "down"
          /\ \A n \in 0..sent - 1 :
                Rank(PingStatus(sent, n + 1, tolerated)) <= Rank(PingStatus(sent, n, tolerated))
          /\ \A n \in 0..sent : Rank(PingStatus(sent, n, 100)) <= Rank(PingStatus(sent, n, tolerated))
    /\ \A values \in SUBSET Names, more \in SUBSET Names, expected \in SUBSET Names :
          Rank(DnsStatus(TRUE, values \cup more, expected)) <= Rank(DnsStatus(TRUE, values, expected))

\* The verdicts that depend on the answer alone, once for all behaviours.
VerdictsAgree ==
    OperatorsAgree /\ RedisIsEach /\ WorkersCountOnce /\ CertificatesAge /\ MoreIsNoWorse

ChecksSound == PassesEachCondition /\ (checks = 0 => VerdictsAgree)
=============================================================================
