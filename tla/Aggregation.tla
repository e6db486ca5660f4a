---------------------------- MODULE Aggregation ----------------------------
(***************************************************************************)
(* What a statistic of a bucket says about the heartbeats in it            *)
(* (internal/rollup/aggregate.go, internal/domain/rollup.go), compared     *)
(* with definitions that sort nothing.  Heartbeats are added one by one    *)
(* and summed up after each.  A mean is kept as the sum of what it is the  *)
(* mean of, and a percentage as a pair of numbers.                         *)
(***************************************************************************)
EXTENDS Naturals, SequencesExt

CONSTANTS
    Latencies,  \* the latencies an added heartbeat may have
    BucketEnd,  \* the bucket is [0, BucketEnd)
    Starts,     \* the sequences of heartbeats to begin with
    MaxSamples  \* bounds: the lengths at which no more are added

VARIABLE samples  \* the heartbeats handed to Aggregate

Statuses == {"unknown", "up", "degraded", "down"}
Heartbeat == [status: Statuses, latency: Nat, ts: 0..BucketEnd]

TypeOK == samples \in Seq(Heartbeat) /\ \E n \in MaxSamples : Len(samples) <= n

Init == samples \in Starts

Next ==
    /\ Len(samples) \notin MaxSamples
    /\ \E hb \in [status: Statuses, latency: Latencies, ts: 0..BucketEnd] : samples' = Append(samples, hb)

vars == samples
Spec == Init /\ [][Next]_vars

-----------------------------------------------------------------------------
InBucket(hb, start, end) == hb.ts >= start /\ hb.ts < end

Responsive(hb) == hb.status \in {"up", "degraded"}

\* Mutant of Rank: the integer division of p * n rounds down.
RankDown(p, n) == Max({1, (p * n) \div 100})

\* The nearest rank, ceil(p/100 * n), kept within 1..n.
Rank(p, n) == Min({n, Max({1, (p * n + 99) \div 100})})

Percentile(sorted, p) == sorted[Rank(p, Len(sorted))]

\* Mutant of LatenciesOf: failures count too.
LatenciesOfAll(hbs) == SortSeq([i \in DOMAIN hbs |-> hbs[i].latency], <)

\* Only what answered has a latency.
LatenciesOf(hbs) ==
    LET answered == SelectSeq(hbs, Responsive)
    IN  SortSeq([i \in DOMAIN answered |-> answered[i].latency], <)

Times(hbs, status) == Len(SelectSeq(hbs, LAMBDA hb : hb.status = status))

Aggregate(hbs, start, end) ==
    LET in == SelectSeq(hbs, LAMBDA hb : InBucket(hb, start, end))
        latencies == LatenciesOf(in)
        n == Len(latencies)
    IN  [total |-> Len(in), up |-> Times(in, "up"), degraded |-> Times(in, "degraded"),
         down |-> Times(in, "down"), unknown |-> Times(in, "unknown"),
         samples |-> n,
         sum |-> FoldSeq(+, 0, latencies),
         min |-> IF n = 0 THEN 0 ELSE latencies[1],
         max |-> IF n = 0 THEN 0 ELSE latencies[n],
         p50 |-> IF n = 0 THEN 0 ELSE Percentile(latencies, 50),
         p95 |-> IF n = 0 THEN 0 ELSE Percentile(latencies, 95),
         p99 |-> IF n = 0 THEN 0 ELSE Percentile(latencies, 99)]

Observed(r) == r.up + r.degraded + r.down

\* <<what answered, what was observed>>; nothing observed is nothing up.
UptimePercent(r) == IF Observed(r) <= 0 THEN <<0, 1>> ELSE <<Observed(r) - r.down, Observed(r)>>

-----------------------------------------------------------------------------
\* The definition the percentiles stand for: the least measured latency
\* that p percent of the measurements do not exceed.
ReachedBy(p, v, ls) == 100 * Len(SelectSeq(ls, LAMBDA l : l <= v)) >= p * Len(ls)
LeastReached(p, ls) ==
    CHOOSE v \in ToSet(ls) :
        ReachedBy(p, v, ls) /\ \A w \in ToSet(ls) : ReachedBy(p, w, ls) => v <= w

\* Every percentile is a latency that was measured, by something that
\* answered, and the right one (aggregate.go Percentile, Aggregate).
PercentilesAreMeasured ==
    LET r == Aggregate(samples, 0, BucketEnd)
        measured == SelectSeq(samples, LAMBDA hb : InBucket(hb, 0, BucketEnd) /\ Responsive(hb))
        ls == [i \in DOMAIN measured |-> measured[i].latency]
    IN  ls # <<>> => /\ r.p50 = LeastReached(50, ls)
                     /\ r.p95 = LeastReached(95, ls)
                     /\ r.p99 = LeastReached(99, ls)
                     /\ r.min <= r.p50 /\ r.p50 <= r.p95 /\ r.p95 <= r.p99 /\ r.p99 <= r.max
                     /\ r.min * r.samples <= r.sum /\ r.sum <= r.max * r.samples

\* A bucket and the one after it together count what the long one counts,
\* and the order in which heartbeats are read changes nothing.
CountsAddUp ==
    LET whole == Aggregate(samples, 0, BucketEnd)
        first == Aggregate(samples, 0, BucketEnd \div 2)
        second == Aggregate(samples, BucketEnd \div 2, BucketEnd)
    IN  /\ \A f \in {"total", "up", "degraded", "down", "unknown", "samples", "sum"} :
              whole[f] = first[f] + second[f]
        /\ whole.total = Observed(whole) + whole.unknown
        /\ whole = Aggregate(Reverse(samples), 0, BucketEnd)

\* Availability is full only when nothing was found down, and a bucket in
\* which nothing was observed is not reported as available
\* (domain/rollup.go UptimePercent).
UptimeIsHonest ==
    LET r == Aggregate(samples, 0, BucketEnd)
        u == UptimePercent(r)
        Found(ss) == \E i \in DOMAIN samples :
            samples[i].ts < BucketEnd /\ samples[i].status \in ss
    IN  /\ u[1] = u[2] <=> Found({"up", "degraded"}) /\ ~ Found({"down"})
        /\ u[1] = 0 <=> ~ Found({"up", "degraded"})

StatisticSound == PercentilesAreMeasured /\ CountsAddUp /\ UptimeIsHonest
=============================================================================
