-------------------------------- MODULE Push --------------------------------
(***************************************************************************)
(* A push monitor: the signals the service sends, the row that keeps the   *)
(* last of them, and the check that compares it with the window or with    *)
(* the schedule (internal/checker/push.go, sqlstore/timeseries.go).        *)
(* Instants are minutes; a zone is the offset of the wall clock at each,   *)
(* and a schedule a set of wall-clock minutes.                             *)
(***************************************************************************)
EXTENDS Integers, FiniteSetsExt

CONSTANTS
    None,               \* no signal, no schedule, no execution
    Plans,              \* bound: pairs of a zone, a function from instants to
                        \* offsets, and a schedule, wall-clock minutes or None
    Interval, Grace,    \* Monitor.Interval, GracePeriodSeconds (0: implicit)
    MinScheduleGrace,   \* minScheduleGrace
    MaxDelay,           \* bound: how long a handler or a check lasts
    MaxTime,            \* bound: the clock
    MaxSignals, MaxEdits, MaxFailures   \* bounds

VARIABLES
    zone, schedule,     \* PushConfig
    clock,
    sending,            \* handlePush in flight: stamped, not recorded
    signals,
    row,                \* table push_state: last_push, status, signal_id
    evaluated,          \* evaluated_id
    settings,           \* Monitor.RearmedAt and Enabled, stored and scheduled
    due,                \* the next check
    check,              \* Check in progress
    last,               \* the last result handed to the engine
    counted,            \* ghost: the signals that became an observation
    twice,              \* ghost: one did again although it had been marked
    early,              \* ghost: a silence was declared inside the window
    aged,               \* ghost: an observation of a signal that was too old
    edits, failures

vars == <<zone, schedule, clock, sending, signals, row, evaluated, settings, due, check, last,
          counted, twice, early, aged, edits, failures>>
ghosts == <<counted, twice, early, aged>>

Instants == 0..MaxTime
Statuses == {"up", "down"}
NoSignal == [id |-> 0, at |-> 0, status |-> "up"]

TypeOK ==
    /\ clock \in Instants
    /\ row \in [id: 0..MaxSignals, at: Instants, status: Statuses]
    /\ evaluated \in 0..row.id
    /\ settings \in [rearmed: Instants, on: BOOLEAN]
    /\ check.step \in {"idle", "read", "judge", "mark"}
    /\ last.status \in {"up", "down", "unknown"} /\ last.repeated \in BOOLEAN
    /\ {twice, early, aged} \subseteq BOOLEAN

Init ==
    /\ \E plan \in Plans : zone = plan[1] /\ schedule = plan[2]
    /\ clock = 0 /\ sending = {} /\ signals = 0 /\ row = NoSignal /\ evaluated = 0
    /\ settings = [rearmed |-> 0, on |-> TRUE] /\ due = 0
    /\ check = [step |-> "idle"] /\ last = [status |-> "unknown", repeated |-> FALSE]
    /\ counted = {} /\ twice = FALSE /\ early = FALSE /\ aged = FALSE
    /\ edits = 0 /\ failures = 0

-----------------------------------------------------------------------------
(***************************************************************************)
(* The window.                                                             *)
(***************************************************************************)
Wall(t) == t + zone[t]

\* The library's Next: the first minute after t whose wall clock matches.
Matches(t) == {u \in Instants : u > t /\ Wall(u) \in schedule}
First(instants) == IF instants = {} THEN None ELSE Min(instants)

\* Time.ZoneBounds: where the offset of t began, None at the start of it all.
Began(t) == LET changes == {u \in 1..t : zone[u] # zone[u - 1]}
            IN IF changes = {} THEN None ELSE Max(changes)

\* Mutant of RepeatedWallClock: an hour that comes back runs again.
RepeatedNever(t) == FALSE

\* repeatedWallClock: the clock went back, by more than has passed since.
RepeatedWallClock(t) ==
    Began(t) # None /\ LET back == zone[Began(t) - 1] - zone[t]
                       IN back > 0 /\ t - Began(t) < back

\* nextRun.
NextRun(t) == First({u \in Matches(t) : ~ RepeatedWallClock(u)})

\* PushConfig.grace.
TheGrace == IF Grace > 0 THEN Grace
            ELSE IF schedule # None THEN Max({Interval, MinScheduleGrace}) ELSE Interval

\* deadline; None when the schedule has no execution left.
Deadline(after) ==
    IF schedule = None THEN after + Interval + TheGrace
    ELSE IF NextRun(after) = None THEN None ELSE NextRun(after) + TheGrace

\* Mutant of Since: the window counts from the signal alone.
SinceSignal(signal, rearmed) == IF signal.id = 0 THEN 0 ELSE signal.at

\* latest: from the signal, the creation (0) or the last rearming.
Since(signal, rearmed) == IF signal.id = 0 THEN rearmed ELSE Max({signal.at, rearmed})

Silent(signal, rearmed) ==
    LET limit == Deadline(Since(signal, rearmed)) IN limit # None /\ clock > limit

-----------------------------------------------------------------------------
(***************************************************************************)
(* Signals and edits.                                                      *)
(***************************************************************************)
\* handlePush stamps the signal ...
Send(status) ==
    /\ signals < MaxSignals /\ signals' = signals + 1
    /\ sending' = sending \cup {[n |-> signals', at |-> clock, status |-> status]}
    /\ UNCHANGED <<zone, schedule, clock, row, evaluated, settings, due, check, last, ghosts,
                   edits, failures>>

\* ... and RecordPush overwrites the row, in whatever order they get there.
RecordPush(s) ==
    /\ sending' = sending \ {s}
    /\ row' = [id |-> row.id + 1, at |-> s.at, status |-> s.status]
    /\ UNCHANGED <<zone, schedule, clock, signals, evaluated, settings, due, check, last, ghosts,
                   edits, failures>>

\* An edit that pauses, resumes or changes the configuration: the last two
\* rearm (sqlstore/monitor.go Update).
Edit(on) ==
    /\ edits < MaxEdits /\ edits' = edits + 1
    /\ settings' = [rearmed |-> IF on THEN clock ELSE settings.rearmed, on |-> on]
    /\ due' = IF on /\ ~ settings.on THEN clock ELSE due
    /\ UNCHANGED <<zone, schedule, clock, sending, signals, row, evaluated, check, last, ghosts,
                   failures>>

\* Checks start when due, and nothing lasts more than MaxDelay.
Tick ==
    /\ clock < MaxTime /\ clock' = clock + 1
    /\ \A s \in sending : clock < s.at + MaxDelay
    /\ IF check.step = "idle" THEN settings.on => clock < due ELSE clock < check.at + MaxDelay
    /\ UNCHANGED <<zone, schedule, sending, signals, row, evaluated, settings, due, check, last,
                   ghosts, edits, failures>>

-----------------------------------------------------------------------------
(***************************************************************************)
(* The check.                                                              *)
(***************************************************************************)
Start ==
    /\ check.step = "idle" /\ settings.on /\ clock >= due
    /\ check' = [step |-> "read", at |-> clock, rearmed |-> settings.rearmed]
    /\ UNCHANGED <<zone, schedule, clock, sending, signals, row, evaluated, settings, due, last,
                   ghosts, edits, failures>>

\* LastPush.
ReadSignal ==
    /\ check.step = "read"
    /\ check' = [step |-> "judge", at |-> check.at, rearmed |-> check.rearmed, signal |-> row,
                 old |-> evaluated >= row.id]
    /\ UNCHANGED <<zone, schedule, clock, sending, signals, row, evaluated, settings, due, last,
                   ghosts, edits, failures>>

\* The result goes to the engine and the monitor back to the queue.
Answer(status, repeated) ==
    /\ last' = [status |-> status, repeated |-> repeated]
    /\ due' = clock + Interval
    /\ check' = [step |-> "idle"]

\* An observation of the signal that was read, the engine's sign of life.
Counts ==
    LET s == check.signal IN
    /\ counted' = counted \cup {s.id}
    /\ aged' = (aged \/ clock > Max({s.at, check.rearmed}) + Interval + 3 * MaxDelay
                                + failures * (Interval + MaxDelay))

\* The database does not answer: a failure of the monitor.
CannotRead ==
    /\ check.step = "read" /\ failures < MaxFailures /\ failures' = failures + 1
    /\ Answer("down", FALSE)
    /\ UNCHANGED <<zone, schedule, clock, sending, signals, row, evaluated, settings, ghosts, edits>>

\* neverSignalled; silence before anything the signal said; observe.
Judge ==
    /\ check.step = "judge"
    /\ IF Silent(check.signal, check.rearmed)
         THEN /\ Answer("down", FALSE)
              /\ early' = (early \/ ~ Silent([id |-> 1, status |-> "up", at |-> 
                             Max({check.signal.at, check.rearmed})], 0))
       ELSE IF check.signal.id = 0
         THEN Answer("unknown", FALSE) /\ UNCHANGED early
       ELSE IF check.old
         THEN Answer(check.signal.status, TRUE) /\ UNCHANGED early
       ELSE check' = [check EXCEPT !.step = "mark"] /\ UNCHANGED <<last, due, early>>
    /\ UNCHANGED <<zone, schedule, clock, sending, signals, row, evaluated, settings, counted,
                   twice, aged, edits, failures>>

\* Mutant of Marked: the row is marked, not the signal that was read.
MarkedRow(id) == row.id

\* MarkPushEvaluated only moves forward.
Marked(id) == Max({evaluated, id})

MarkEvaluated ==
    /\ check.step = "mark"
    /\ evaluated' = Marked(check.signal.id)
    /\ Counts /\ Answer(check.signal.status, FALSE)
    /\ twice' = (twice \/ evaluated >= check.signal.id)
    /\ UNCHANGED <<zone, schedule, clock, sending, signals, row, settings, early, edits, failures>>

\* The mark that cannot be stored: the result counts all the same.
CannotMark ==
    /\ check.step = "mark" /\ failures < MaxFailures /\ failures' = failures + 1
    /\ Counts /\ Answer(check.signal.status, FALSE)
    /\ UNCHANGED <<zone, schedule, clock, sending, signals, row, evaluated, settings, twice, early,
                   edits>>

Next ==
    \/ Tick \/ Start \/ ReadSignal \/ CannotRead \/ Judge \/ MarkEvaluated \/ CannotMark
    \/ \E status \in Statuses : Send(status)
    \/ \E s \in sending : RecordPush(s)
    \/ \E on \in BOOLEAN : Edit(on)

Spec == Init /\ [][Next]_vars

-----------------------------------------------------------------------------
\* A signal is marked only once it became an observation, and becomes one
\* once (push.go observe, timeseries.go MarkPushEvaluated): one that arrives
\* while its predecessor is marked is not lost for it.
SignalsCountOnce == ~ twice /\ (evaluated > 0 => evaluated \in counted)

\* Silence is not declared inside the window that begins with the signal, the
\* creation or the last change that restarts the wait (push.go Check).
SilenceIsReal == ~ early

\* A sign of life is not much older than the check that counts it, although
\* the engine dates it by the check (engine.go, aliveAt): an interval and the
\* delays, and a check more for each that could not read.
SignOfLifeIsFresh == ~ aged

\* The expected executions are the scheduled minutes that exist, each once,
\* when it first comes (push.go nextRun, on summer time).
EachRunOnce ==
    schedule # None =>
        NextRun(clock) = First({u \in Matches(clock) : \A v \in 0..u - 1 : Wall(v) # Wall(u)})

\* Silence is found: past the window and the time of a check, the last
\* result is a failure.
SilenceIsFound ==
    LET limit == Deadline(Since(row, settings.rearmed)) IN
    settings.on /\ sending = {} /\ limit # None /\ clock > limit + Interval + 2 * MaxDelay
    => last.status = "down"

PushSound ==
    SignalsCountOnce /\ SilenceIsReal /\ SignOfLifeIsFresh /\ EachRunOnce /\ SilenceIsFound
=============================================================================
