------------------------------- MODULE Summary -------------------------------
(***************************************************************************)
(* What the panel and the public page make of heartbeats and of their      *)
(* buckets: the summary of a window and the line drawn of it               *)
(* (internal/summary, internal/api/summary_handlers.go), the bars of a     *)
(* page (internal/statuspage), the order of states they share              *)
(* (internal/domain/severity.go).  A number that may be missing is a       *)
(* sequence of none or one.                                                *)
(***************************************************************************)
EXTENDS Aggregation, Integers

\* Severity, with "no measurement" as absence or as a problem.
Severity(s, placement) ==
    CASE s = "down" -> 4
      [] s = "degraded" -> 3
      [] s = "up" -> 1
      [] OTHER -> IF placement = "problem" THEN 2 ELSE 0

Worse(a, b, placement) == IF Severity(b, placement) > Severity(a, placement) THEN b ELSE a

\* Worst: the first sets the level.
Worst(statuses, placement) ==
    IF statuses = <<>> THEN "unknown"
    ELSE FoldLeft(LAMBDA a, b : Worse(a, b, placement), Head(statuses), Tail(statuses))

\* Mutant: a bucket is what most of its heartbeats are.
BucketStatusMost(r) == IF r.up >= r.down + r.degraded THEN "up" ELSE "down"

\* summary.BucketStatus and statuspage.dayStatus, each on its own.
BucketStatus(r) ==
    Worst(SelectSeq(<<"unknown", "up", "degraded", "down">>, LAMBDA s : r[s] > 0), "absence")
DayStatus(r) ==
    CASE r.down > 0 -> "down"
      [] r.degraded > 0 -> "degraded"
      [] r.up > 0 -> "up"
      [] OTHER -> "unknown"

\* What answered of what was observed, if anything was.
Uptime(answered, down) == IF answered + down = 0 THEN <<>> ELSE <<<<answered, answered + down>>>>

FromHeartbeats(hbs) ==
    LET ls == LatenciesOf(hbs)
        p(q) == IF ls = <<>> THEN <<>> ELSE <<Percentile(ls, q)>>
        n == [s \in Statuses |-> Times(hbs, s)]
    IN [status |-> IF hbs = <<>> THEN "unknown" ELSE hbs[Len(hbs)].status,
        counts |-> n, uptime |-> Uptime(n["up"] + n["degraded"], n["down"]),
        p50 |-> p(50), p95 |-> p(95), p99 |-> p(99)]

\* Mutant: the percentile of the last bucket stands for the window.
HighestLast(vs) == IF vs = <<>> THEN <<>> ELSE <<vs[Len(vs)]>>

\* pior: the greatest of the positive ones.
Highest(vs) ==
    LET positive == {vs[i] : i \in {j \in DOMAIN vs : vs[j] > 0}}
    IN IF positive = {} THEN <<>> ELSE <<Max(positive)>>

FromRollups(rs) ==
    LET n == [s \in Statuses |-> FoldLeft(LAMBDA a, r : a + r[s], 0, rs)]
        p(q) == Highest([i \in DOMAIN rs |-> rs[i][q]])
    IN [status |-> IF rs = <<>> THEN "unknown" ELSE BucketStatus(rs[Len(rs)]),
        counts |-> n, uptime |-> Uptime(n["up"] + n["degraded"], n["down"]),
        p50 |-> p("p50"), p95 |-> p("p95"), p99 |-> p("p99")]

\* Mutant: the number of points decides, what is left over is dropped.
PointDropped(ts, from, width, points) ==
    LET i == (ts - from) \div width IN IF i >= points THEN 0 ELSE i + 1

\* The point of an instant; the division of the window leaves a rest, which
\* goes to the last.
Point(ts, from, width, points) ==
    LET i == (ts - from) \div width IN (IF i >= points THEN points - 1 ELSE i) + 1

\* Series: the worst of each point, and the mean of what answered as a pair.
Series(from, to, points, hbs) ==
    LET width == (to - from) \div points
        in == SelectSeq(hbs, LAMBDA hb : hb.ts >= from /\ hb.ts < to)
        of(i) == SelectSeq(in, LAMBDA hb : Point(hb.ts, from, width, points) = i)
    IN IF width <= 0 THEN <<>>
       ELSE [i \in 1..points |->
               [status |-> FoldLeft(LAMBDA a, hb : Worse(a, hb.status, "absence"), "unknown", of(i)),
                answered |-> LatenciesOf(of(i))]]

\* seriesFromRollups: each bucket as a heartbeat of its worst state.
SeriesFromRollups(from, to, points, rs) ==
    Series(from, to, points,
        [i \in DOMAIN rs |-> [status |-> BucketStatus(rs[i]), latency |-> rs[i].p50,
                              ts |-> rs[i].start]])

\* Builder.monitor: one bar a day, the availability of all of them, and the
\* state of the last day something was observed on.
Bars(rs, days) ==
    [d \in days |->
        LET of == SelectSeq(rs, LAMBDA r : r.start = d)
        IN IF of = <<>> \/ Observed(of[1]) = 0 THEN "unknown" ELSE DayStatus(of[1])]
PageUptime(rs) ==
    LET observed == FoldLeft(LAMBDA a, r : a + Observed(r), 0, rs)
        down == FoldLeft(LAMBDA a, r : a + r.down, 0, rs)
    IN Uptime(observed - down, down)
PageStatus(bars) ==
    LET seen == {d \in DOMAIN bars : bars[d] # "unknown"}
    IN IF seen = {} THEN "unknown" ELSE bars[Max(seen)]
-----------------------------------------------------------------------------
\* The buckets the rollup leaves of the window: one a tick, none if empty.
Days == 0 .. BucketEnd - 1
Rollups ==
    LET all == [d \in 1..BucketEnd |->
                  LET r == Aggregate(samples, d - 1, d)
                  IN [f \in DOMAIN r \cup {"start"} |-> IF f = "start" THEN d - 1 ELSE r[f]]]
    IN SelectSeq(all, LAMBDA r : r.total > 0)
Heard == SelectSeq(samples, LAMBDA hb : hb.ts < BucketEnd)

\* The window says the same whether it is read from heartbeats or from
\* buckets: the same counts and availability; the percentiles of the buckets
\* are those of some bucket and never better than the measured ones
\* (summary.go, FromHeartbeats and FromRollups).
LayersAgree ==
    LET raw == FromHeartbeats(Heard)
        sum == FromRollups(Rollups)
    IN /\ raw.counts = sum.counts /\ raw.uptime = sum.uptime
       /\ \A q \in {"p50", "p95", "p99"} :
            /\ raw[q] # <<>> /\ raw[q][1] > 0 => sum[q] # <<>> /\ sum[q][1] >= raw[q][1]
            /\ sum[q] # <<>> => \E i \in DOMAIN Rollups : Rollups[i][q] = sum[q][1]

\* The line and the number are of the same period: the worst of the line is
\* the worst of the window, each measured latency is in one point, and the
\* line drawn of buckets has the states of the line drawn of heartbeats
\* (summary.go, Series; summary_handlers.go, seriesFromRollups).
LineIsOfTheWindow ==
    \A points \in 1..BucketEnd :
        LET line == Series(0, BucketEnd, points, samples)
            drawn == SeriesFromRollups(0, BucketEnd, points, Rollups)
            statuses(l) == [i \in DOMAIN l |-> l[i].status]
        IN /\ Worst(statuses(line), "absence")
                = Worst([i \in DOMAIN Heard |-> Heard[i].status], "absence")
           /\ FoldLeft(LAMBDA a, p : a + Len(p.answered), 0, line) = Len(LatenciesOf(Heard))
           /\ statuses(drawn) = statuses(line)

\* The page and the panel say the same of a day, a day without observations
\* is not a failure, and the page has the availability of the window
\* (statuspage.go, monitor and dayStatus).
PageAgrees ==
    LET bars == Bars(Rollups, Days) IN
    /\ \A i \in DOMAIN Rollups : DayStatus(Rollups[i]) = BucketStatus(Rollups[i])
    /\ \A d \in Days : bars[d] = "down" <=> \E i \in DOMAIN Heard : /\ Heard[i].ts = d
                                                                  /\ Heard[i].status = "down"
    /\ PageUptime(Rollups) = FromHeartbeats(Heard).uptime
    /\ PageStatus(bars) = "unknown" <=> FromHeartbeats(Heard).uptime = <<>>

SummarySound == LayersAgree /\ LineIsOfTheWindow /\ PageAgrees
=============================================================================
