------------------------------ MODULE SqlCheck ------------------------------
(***************************************************************************)
(* The check of a database (checker/sql.go, postgres.go, mysql.go): a      *)
(* session, a limit agreed with the server, a transaction that only reads, *)
(* the query.  The timeout of the check closes a socket: what runs on the  *)
(* server goes on until it notices, and the limit is what ends it.  The    *)
(* checks of one monitor follow each other, each on a session of its own.  *)
(* Every answer of the server may take any time up to the timeout.         *)
(***************************************************************************)
EXTENDS Integers, FiniteSets

CONSTANTS
    None,
    Databases,      \* [kind, super, custom]: the server, its user, the query
    Queries,        \* [needs, rows]: time to the first row, then one row a unit
    Timeout, Interval, Part,    \* Part: the share of the timeout left over, 10
    Milli,          \* a millisecond, in units of the clock
    MaxRows, MaxChecks, MaxClock

\* Timeout, Part, Milli and MaxRows are positive, and Interval is no less than
\* Timeout, which is no less than Part milliseconds.

VARIABLES
    clock, database,
    query,      \* of the monitor, as the load of the server lets it run
    check,      \* the check in course
    session,    \* of each check, on the server
    verdict     \* of the last check that ended

vars == <<clock, database, query, check, session, verdict>>

Numbers == 1..MaxChecks
Idle == [step |-> "idle"]
Least(a, b) == IF a < b THEN a ELSE b
Most(a, b) == IF a > b THEN a ELSE b
-----------------------------------------------------------------------------
\* Mutant: the server is given all the time there is.
WholeLimit(remaining) == Most(remaining, Milli)

\* serverLimit.
ServerLimit(remaining) == Most(remaining - (remaining \div Part), Milli)

\* A limit is sent in whole milliseconds: limit.Milliseconds(), or "%.3f".
Truncated(limit) == (limit \div Milli) * Milli
Rounded(limit) == Truncated(limit + (Milli \div 2))

\* The limit a server keeps: max_execution_time, max_statement_time or
\* statement_timeout; an old one knows none of them.
Agreed(limit) ==
    CASE database.kind = "old" -> None
      [] database.kind = "mariadb" -> Rounded(limit)
      [] OTHER -> Truncated(limit)

\* Mutant: every row is read.
AllRows(q) == q.rows

\* readRows.
RowsRead(q) == Least(q.rows, MaxRows)

\* When a query has given what the check reads, and when it is done.
ReadAt(s) == s.since + query.needs + RowsRead(query)
WorksUntil(s) == s.since + query.needs + query.rows
StopsAt(s) == IF s.limit = None THEN WorksUntil(s) ELSE Least(WorksUntil(s), s.since + s.limit)
Interrupted(s) == s.limit # None /\ s.since + s.limit < ReadAt(s)
CutAfter(s) == IF s.limit = None THEN s.promised ELSE Least(s.limit, s.promised)
-----------------------------------------------------------------------------
Init ==
    /\ clock = 0 /\ database \in Databases /\ query \in Queries /\ check = Idle
    /\ session = [n \in Numbers |-> None]
    /\ verdict = [of |-> 0, status |-> None, cause |-> None, began |-> None, whole |-> FALSE,
                  first |-> None, due |-> None, spare |-> None]

Deadline == check.began + Timeout
Running(n) == session[n] # None /\ session[n].step = "running"
Proceeds(c) == check' = c /\ UNCHANGED <<clock, database, query, verdict>>

\* The scheduler: the next check, an interval after the last one began.
Start(n) ==
    /\ check.step = "idle" /\ n = verdict.of + 1
    /\ n > 1 => clock >= verdict.began + Interval
    /\ Proceeds([step |-> "connect", of |-> n, began |-> clock,
                 asked |-> None, started |-> None])
    /\ UNCHANGED session

\* ConnectConfig, or Conn; serverLimit then looks at the clock, and for Postgres
\* so does what measures the query.
Connect ==
    /\ check.step = "connect" /\ clock < Deadline
    /\ session' = [session EXCEPT ![check.of] = [step |-> "open"]]
    /\ Proceeds(IF database.kind = "postgres"
                  THEN [check EXCEPT !.step = "begin", !.asked = clock, !.started = clock]
                  ELSE [check EXCEPT !.step = "agree", !.asked = clock])

\* The end of a check: the transaction is rolled back and the session closed.
\* What runs on the server does not notice; what sends rows does.
SendsRows(s) == clock >= s.since + query.needs
EndsAs(status, cause) ==
    LET s == session[check.of] IN
    /\ check' = Idle
    /\ verdict' =
          [of |-> check.of, status |-> status, cause |-> cause, began |-> check.began,
           whole |-> IF Running(check.of) THEN ~Interrupted(s) ELSE FALSE,
           first |-> IF Running(check.of) THEN s.since + query.needs + MaxRows ELSE None,
           due |-> IF Running(check.of) THEN Least(s.deadline, s.started + CutAfter(s)) ELSE None,
           spare |-> IF Running(check.of) THEN s.started + s.promised - clock ELSE None]
    /\ session' = [session EXCEPT ![check.of] =
          IF Running(check.of) /\ ~SendsRows(s) THEN s ELSE None]
    /\ UNCHANGED <<clock, database, query>>

\* limitStatementTime; what measures the query starts.
Agree ==
    /\ check.step = "agree" /\ clock < Deadline
    /\ Proceeds([check EXCEPT !.step = "begin", !.started = clock])
    /\ UNCHANGED session

\* BeginTx, which for Postgres agrees the limit with it.
Begin ==
    /\ check.step = "begin" /\ clock < Deadline
    /\ Proceeds([check EXCEPT !.step = IF database.kind = "postgres" /\ database.custom
                                        THEN "ask" ELSE "query"])
    /\ UNCHANGED session

\* Mutant: nobody asks who the user is.
AnyUser == TRUE

\* A superuser runs the query of the product alone.
UserServes == ~database.super
AskUser ==
    /\ check.step = "ask" /\ clock < Deadline
    /\ IF UserServes THEN Proceeds([check EXCEPT !.step = "query"]) /\ UNCHANGED session
                     ELSE EndsAs("down", "superuser")

\* The query reaches the server.
Query ==
    /\ check.step = "query" /\ clock < Deadline
    /\ session' = [session EXCEPT ![check.of] =
          [step |-> "running", since |-> clock, deadline |-> Deadline,
           asked |-> check.asked, started |-> check.started,
           promised |-> ServerLimit(Deadline - check.asked),
           limit |-> Agreed(ServerLimit(Deadline - check.asked))]]
    /\ Proceeds([check EXCEPT !.step = "read"])

\* Mutant: what the server returned is what it was asked.
NoLookAtClock(s) == FALSE

\* Check of MySQL: a SLEEP cut short looks like a result.
TookTheLimit(s) == database.kind # "postgres" /\ clock - s.started >= s.promised

\* The rows that are read, or the error of a query the server stopped.
Read(hides) ==
    LET s == session[check.of] IN
    /\ check.step = "read" /\ clock < Deadline
    /\ clock = IF Interrupted(s) THEN StopsAt(s) ELSE ReadAt(s)
    /\ hides => Interrupted(s) /\ database.kind # "postgres"
    /\ IF (Interrupted(s) /\ ~hides) \/ TookTheLimit(s)
         THEN EndsAs("down", "limit") ELSE EndsAs("up", None)

\* Any step of it is refused, or the session is lost.
Refused == check.step \notin {"idle", "read"} /\ clock < Deadline /\ EndsAs("down", "refused")

\* The deadline of the context.
TimesOut == check.step # "idle" /\ clock = Deadline /\ EndsAs("down", "timeout")

\* The server is done with a query nobody waits for; Postgres may have been
\* asked to cancel it, over a connection of its own.
ServerEnds(n) ==
    /\ Running(n) /\ n <= verdict.of
    /\ clock >= StopsAt(session[n]) \/ SendsRows(session[n]) \/ database.kind = "postgres"
    /\ session' = [session EXCEPT ![n] = None]
    /\ UNCHANGED <<clock, database, query, check, verdict>>

\* Time passes, but for what is due.
Due ==
    \/ check.step # "idle" /\ clock = Deadline
    \/ check.step = "read" /\ clock >= (IF Interrupted(session[check.of])
                                          THEN StopsAt(session[check.of])
                                          ELSE ReadAt(session[check.of]))
    \/ \E n \in 1..verdict.of : Running(n) /\ clock >= StopsAt(session[n])
Tick ==
    /\ ~Due /\ clock < MaxClock /\ clock' = clock + 1
    /\ UNCHANGED <<database, query, check, session, verdict>>

Next ==
    \/ \E n \in Numbers : Start(n) \/ ServerEnds(n)
    \/ Connect \/ Agree \/ Begin \/ AskUser \/ Query \/ Refused \/ TimesOut \/ Tick
    \/ \E hides \in BOOLEAN : Read(hides)

Spec == Init /\ [][Next]_vars
-----------------------------------------------------------------------------
TypeOK ==
    /\ clock \in 0..MaxClock /\ database \in Databases
    /\ check.step \in {"idle", "connect", "agree", "begin", "ask", "query", "read"}
    /\ query \in Queries
    /\ \A n \in Numbers : session[n] # None => session[n].step \in {"open", "running"}
    /\ verdict.of \in 0..MaxChecks /\ verdict.status \in {None, "up", "down"}

Limited == database.kind # "old"

\* The server that keeps a limit answers before the check gives up, so that the
\* cause is its own, if what came before the query took less than the share of
\* the timeout left over, to the millisecond (serverLimit).
ServerGivesUpFirst ==
    \A n \in Numbers : Limited /\ Running(n) =>
        LET s == session[n]
            slack == (s.deadline - s.asked) \div Part
        IN s.since - s.asked + Milli <= slack => StopsAt(s) < s.deadline

\* However slow the queries, and however the check ends, they do not pile up on
\* the server: besides that of the check in course at most one is left, and none
\* for longer after its check than came before it, to the millisecond
\* (serverLimit).
NeverPilesUp ==
    Limited => /\ Cardinality({n \in Numbers : session[n] # None}) <= 2
               /\ \A n \in 1..verdict.of : Running(n) =>
                     StopsAt(session[n]) - session[n].deadline
                        <= session[n].since - session[n].asked + Milli

\* A database is up when it did what was asked, and was not cut short but in the
\* last millisecond of the limit: the server keeps the limit that was sent, in
\* whole milliseconds, and Check compares with the one before (mysql.go).
UpIsTrue == verdict.status = "up" => verdict.whole \/ verdict.spare \in 1..Milli - 1

\* A table too long to read is not an outage: a check that fails for want of
\* time had not been sent its first rows in time (readRows).
LongAnswersAreUp ==
    verdict.cause \in {"limit", "timeout"} /\ verdict.first # None => verdict.first >= verdict.due

\* What a superuser's session runs is the query of the product (postgres.go,
\* superuserRefused).
SuperusersRunNothing ==
    database.kind = "postgres" /\ database.super /\ database.custom =>
        \A n \in Numbers : ~Running(n)

SqlCheckSound ==
    /\ ServerGivesUpFirst /\ NeverPilesUp /\ UpIsTrue /\ LongAnswersAreUp /\ SuperusersRunNothing
=============================================================================
