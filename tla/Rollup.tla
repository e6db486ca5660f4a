------------------------------ MODULE Rollup ------------------------------
(***************************************************************************)
(* The worker that turns heartbeats into statistics of an hour and of a    *)
(* day and then removes what is too old (internal/rollup/worker.go), over  *)
(* the tables of heartbeats, statistics and watermarks                     *)
(* (internal/store/sqlstore/timeseries.go), which the batch writer fills   *)
(* at the same time.                                                       *)
(*                                                                         *)
(* A statistic is modelled by the set of heartbeats it sums up; what is    *)
(* computed from them is in module Aggregation.  A moment is a number; an  *)
(* hour and a day are Duration moments long.                               *)
(***************************************************************************)
EXTENDS Naturals, FiniteSetsExt

CONSTANTS
    Monitors,
    None,        \* no watermark
    Hour, Day,   \* the length of each kind of bucket
    Raw, Hourly, Daily, \* Retention
    MaxDelay,    \* how long a heartbeat may wait in the batch writer
    MaxCycle,    \* how long a cycle of the worker may take
    MaxTime, MaxBeats, MaxFailures  \* bounds

VARIABLES
    now,
    waiting,   \* heartbeats taken and not written yet
    heartbeat, \* table heartbeat, with the moment each row came in
    rollup,    \* table rollup: for each resolution, bucket and monitor what it sums up
    watermark, \* table rollup_state
    worker,    \* RunOnce: where it is, and its local variables
    taken,     \* ghost: the heartbeats taken
    summed,    \* ghost: the heartbeats each resolution ever summed up
    uncounted, \* ghost: heartbeats pruned before a resolution summed them up, and
               \* when the cycle that pruned them began
    failed     \* what has been used of MaxFailures

vars == <<now, waiting, heartbeat, rollup, watermark, worker, taken, summed, uncounted,
          failed>>

Resolutions == {"hourly", "daily"}
Times == 0..MaxTime
Beat == [monitor: Monitors, ts: Times]
Stored == [beat: Beat, came: Times]

Duration(res) == IF res = "daily" THEN Day ELSE Hour
Truncate(res, t) == t - (t % Duration(res))
Retention(res) == IF res = "daily" THEN Daily ELSE Hourly

Stages == {"idle", "resume", "collect", "write", "mark", "prune", "pruneHourly", "pruneDaily"}
AtRest == [stage |-> "idle", res |-> "hourly", limit |-> 0, bucket |-> 0,
           processed |-> None, batch |-> {}, cut |-> 0]

TypeOK ==
    /\ now \in Times
    /\ waiting \subseteq Beat
    /\ heartbeat \subseteq Stored
    /\ rollup \in [Resolutions -> SUBSET [bucket: Times, monitor: Monitors, of: SUBSET Beat]]
    /\ watermark \in [Resolutions -> Times \cup {None}]
    /\ worker.stage \in Stages /\ worker.res \in Resolutions
    /\ worker.limit \in Times /\ worker.cut \in Times
    /\ worker.processed \in Times \cup {None}
    /\ taken \subseteq Beat /\ summed \subseteq Beat \X Resolutions
    /\ uncounted \subseteq Stored \X Resolutions \X Times

Init ==
    /\ now = 0
    /\ waiting = {} /\ heartbeat = {}
    /\ rollup = [res \in Resolutions |-> {}]
    /\ watermark = [res \in Resolutions |-> None]
    /\ worker = AtRest
    /\ taken = {} /\ summed = {} /\ uncounted = {}
    /\ failed = 0

-----------------------------------------------------------------------------
\* Time passes; no heartbeat waits for the batch writer longer than MaxDelay
\* and no cycle of the worker takes longer than MaxCycle.
Tick ==
    /\ now < MaxTime
    /\ worker.stage # "idle" => now - worker.limit < MaxCycle
    /\ \A b \in waiting : now - b.ts < MaxDelay
    /\ now' = now + 1
    /\ UNCHANGED <<waiting, heartbeat, rollup, watermark, worker, taken, summed, uncounted, failed>>

\* A check measures, and the heartbeat enters the batch writer.
Measure(m) ==
    /\ Cardinality(taken) < MaxBeats
    /\ [monitor |-> m, ts |-> now] \notin taken
    /\ taken' = taken \cup {[monitor |-> m, ts |-> now]}
    /\ waiting' = waiting \cup {[monitor |-> m, ts |-> now]}
    /\ UNCHANGED <<now, heartbeat, rollup, watermark, worker, summed, uncounted, failed>>

\* The batch writer writes what it holds, in one transaction.
WriteHeartbeats ==
    /\ waiting # {}
    /\ heartbeat' = heartbeat \cup {[beat |-> b, came |-> now] : b \in waiting}
    /\ waiting' = {}
    /\ UNCHANGED <<now, rollup, watermark, worker, taken, summed, uncounted, failed>>

-----------------------------------------------------------------------------
(***************************************************************************)
(* A cycle of the worker.                                                  *)
(***************************************************************************)
Keeps == UNCHANGED <<now, waiting, taken>>

\* The list of monitors is read; none means nothing to aggregate.
RunOnce ==
    /\ worker.stage = "idle"
    /\ worker' = [AtRest EXCEPT !.stage = IF Monitors = {} THEN "prune" ELSE "resume",
                                !.limit = now]
    /\ UNCHANGED <<heartbeat, rollup, watermark, summed, uncounted, failed>> /\ Keeps

\* After a resolution comes the other, and after both the pruning.
NextResolution(w) ==
    IF w.res = "hourly"
      THEN [w EXCEPT !.res = "daily", !.stage = "resume", !.processed = None]
      ELSE [w EXCEPT !.stage = "prune", !.processed = None]

\* Mutants of StartBucket: the first cycle looks no further back than the
\* retention, and a resumed one starts at the bucket it has done.
StartInRetention(res) ==
    IF watermark[res] # None THEN Truncate(res, watermark[res]) + Duration(res)
    ELSE Truncate(res, Max({0, now - Raw}))
StartAfterNext(res) ==
    IF watermark[res] # None THEN Truncate(res, watermark[res]) + 2 * Duration(res)
    ELSE Truncate(res, Min({s.beat.ts : s \in heartbeat}))

\* Where to go on: after the watermark, or at the oldest heartbeat there is.
StartBucket(res) ==
    IF watermark[res] # None THEN Truncate(res, watermark[res]) + Duration(res)
    ELSE Truncate(res, Min({s.beat.ts : s \in heartbeat}))

Resume ==
    /\ worker.stage = "resume"
    /\ LET res == worker.res IN
       worker' = IF watermark[res] = None /\ heartbeat = {} THEN NextResolution(worker)
                 ELSE [worker EXCEPT !.stage = "collect", !.bucket = StartBucket(res)]
    /\ UNCHANGED <<heartbeat, rollup, watermark, summed, uncounted, failed>> /\ Keeps

\* Mutants of Window: the end is inside, and the bucket of now is taken too.
WindowClosed(res, start) == {s \in heartbeat : s.beat.ts >= start /\ s.beat.ts <= start + Duration(res)}

\* The heartbeats of a bucket: the start is inside, the end is not.
Window(res, start) == {s \in heartbeat : s.beat.ts >= start /\ s.beat.ts < start + Duration(res)}

\* Mutant of Limit: the bucket that is still open is summed up with the rest.
LimitNow(res, t) == t + 1

\* The bucket the cycle began in is left alone: it is not over.
Limit(res, t) == Truncate(res, t)

\* The heartbeats of one bucket are read, monitor by monitor.
Collect ==
    /\ worker.stage = "collect"
    /\ LET res == worker.res
           start == worker.bucket
           Of(m) == {s.beat : s \in {x \in Window(res, start) : x.beat.monitor = m}}
       IN  worker' =
             IF start >= Limit(res, worker.limit)
               THEN [worker EXCEPT !.stage = "mark"]
               ELSE [worker EXCEPT !.stage = "write",
                       !.batch = {[bucket |-> start, monitor |-> m, of |-> Of(m)] :
                                    m \in {x \in Monitors : Of(x) # {}}}]
    /\ UNCHANGED <<heartbeat, rollup, watermark, summed, uncounted, failed>> /\ Keeps

\* A row takes the place of the one its bucket and monitor had.
WriteRollups ==
    /\ worker.stage = "write"
    /\ LET Replaced(row) == \E new \in worker.batch :
              new.bucket = row.bucket /\ new.monitor = row.monitor
       IN  rollup' = [rollup EXCEPT ![worker.res] = {row \in @ : ~ Replaced(row)} \cup worker.batch]
    /\ summed' = summed \cup UNION {row.of \X {worker.res} : row \in worker.batch}
    /\ worker' = [worker EXCEPT !.stage = "collect", !.batch = {}, !.processed = worker.bucket,
                                !.bucket = @ + Duration(worker.res)]
    /\ UNCHANGED <<heartbeat, watermark, uncounted, failed>> /\ Keeps

SetWatermark ==
    /\ worker.stage = "mark"
    /\ watermark' = IF worker.processed = None THEN watermark
                    ELSE [watermark EXCEPT ![worker.res] = worker.processed]
    /\ worker' = NextResolution(worker)
    /\ UNCHANGED <<heartbeat, rollup, summed, uncounted, failed>> /\ Keeps

\* Everything older than the retention goes, by a clock read anew.
PruneHeartbeats ==
    /\ worker.stage = "prune"
    /\ LET old == {s \in heartbeat : s.beat.ts + Raw < now} IN
       /\ heartbeat' = heartbeat \ old
       /\ uncounted' = uncounted \cup
            {p \in old \X Resolutions \X {worker.limit} : <<p[1].beat, p[2]>> \notin summed}
    /\ worker' = [worker EXCEPT !.stage = "pruneHourly", !.cut = now]
    /\ UNCHANGED <<rollup, watermark, summed, failed>> /\ Keeps

\* Each layer has its own retention.  Compact follows and changes nothing here.
PruneRollups(res, stage, next) ==
    /\ worker.stage = stage
    /\ rollup' = [rollup EXCEPT ![res] = {row \in @ : row.bucket + Retention(res) >= worker.cut}]
    /\ worker' = [worker EXCEPT !.stage = next]
    /\ UNCHANGED <<heartbeat, watermark, summed, uncounted, failed>> /\ Keeps

Prune ==
    \/ PruneHeartbeats
    \/ PruneRollups("hourly", "pruneHourly", "pruneDaily")
    \/ PruneRollups("daily", "pruneDaily", "idle")

\* An error ends the cycle, and so does the end of the process; the next one
\* starts from what the database holds.
Break ==
    /\ worker.stage # "idle" /\ failed < MaxFailures
    /\ failed' = failed + 1
    /\ worker' = AtRest
    /\ UNCHANGED <<heartbeat, rollup, watermark, summed, uncounted>> /\ Keeps

Cycle == RunOnce \/ Resume \/ Collect \/ WriteRollups \/ SetWatermark \/ Prune

Next == Tick \/ WriteHeartbeats \/ Cycle \/ Break \/ \E m \in Monitors : Measure(m)

Spec == Init /\ [][Next]_vars

-----------------------------------------------------------------------------
Counted(b, res) == \E row \in rollup[res] : b \in row.of

OnTime(s, res) == s.came < Truncate(res, s.beat.ts) + Duration(res)

\* The raw retention holds a bucket of the layer and a cycle.  Validate asks
\* for no more than that it is positive.
RawOutlasts(res) == Duration(res) + MaxCycle <= Raw + 1

\* Of the heartbeats that were in the table before their bucket was over, none
\* is pruned that the cycle could have summed up before, whatever failed or
\* stopped; and none at all, if the raw retention holds a bucket and a cycle
\* (worker.go RunOnce, its comment).  A shorter one prunes of a bucket that is
\* still open.
PrunedOnlyCounted ==
    \A p \in uncounted : OnTime(p[1], p[2]) =>
        /\ p[3] < Truncate(p[2], p[1].beat.ts) + Duration(p[2])
        /\ ~ RawOutlasts(p[2])

\* What came into the table before its bucket was over is in the statistic
\* of every bucket the watermark has passed, for as long as the heartbeat and the statistic are kept
\* (worker.go aggregateResolution).
MarkedIsWhole ==
    \A res \in Resolutions : watermark[res] # None =>
        \A s \in heartbeat :
            /\ OnTime(s, res)
            /\ s.beat.ts < watermark[res] + Duration(res)
            /\ Truncate(res, s.beat.ts) + Retention(res) >= now
            => Counted(s.beat, res)

\* A heartbeat is in one statistic of each layer at most, and a statistic is
\* of a bucket that is over and of its own monitor
\* (aggregate.go Contains, sqlstore/timeseries.go WriteRollups).
CountedOnce ==
    \A res \in Resolutions : \A row \in rollup[res] :
        /\ row.bucket + Duration(res) <= now
        /\ row.of # {}
        /\ \A b \in row.of : b.monitor = row.monitor
        /\ \A other \in rollup[res] : other.of \cap row.of # {} => other = row

RollupSound == PrunedOnlyCounted /\ MarkedIsWhole /\ CountedOnce
=============================================================================
