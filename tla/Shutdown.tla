------------------------------ MODULE Shutdown ------------------------------
(***************************************************************************)
(* The process while it runs and while it stops (cmd/upwatch/main.go run): *)
(* the scheduler, the batch writer and the dispatcher, each with its own   *)
(* goroutines, under one context.  What the goroutine of a check submits   *)
(* goes first to the writer's queue and then, when the incident engine has *)
(* something to tell, to the dispatcher's (internal/incident/engine.go     *)
(* Submit).  The process exits when the three have returned.               *)
(***************************************************************************)
EXTENDS Naturals, SequencesExt, FiniteSets

CONSTANTS
    Monitors, Entries, Slots, None, Intervals, IdleWait, MaxEdits,
    MaxBeats, QueueSize, MaxBatch, MaxBacklog,
    Channels, Workers, Drainer, MaxAlerts, MaxAttempts

VARIABLES
    entry, index, queue, wake, owed, loop, timer, due, step, holds, cancelled, edits,
    in, buf, writer, halted, available, rows, accepted, written, dropped, failed,
    alerts, item, attempt, phase, ended, offered, refused, lost, delivered, sends, arrived,
    forwarded,  \* the goroutine in each slot has its heartbeat in the writer's queue
    promised    \* ghost: heartbeats and alerts accepted when the process was told to stop

S == INSTANCE Scheduler WITH Returns <- TRUE, CanStop <- TRUE
W == INSTANCE BatchWriter WITH CanFail <- FALSE, CanDelete <- FALSE, CanStop <- TRUE
D == INSTANCE Dispatcher WITH queue <- alerts, Dead <- {}, CanStop <- TRUE

\* What the code of the three asks of its parameters: there is a worker at
\* least (dispatcher.go withDefaults), and no size is zero.
ASSUME ShutdownAssumption ==
    /\ None \notin Entries /\ None \notin S!Entry /\ None \notin D!Delivery
    /\ Intervals \subseteq Nat \ {0} /\ IdleWait \in Nat \ {0}
    /\ MaxBeats \in Nat /\ MaxAlerts \in Nat
    /\ {QueueSize, MaxBatch, MaxBacklog, MaxAttempts} \subseteq Nat \ {0}
    /\ Workers # {} /\ Drainer \notin Workers

schedulerVars == <<entry, index, queue, wake, owed, loop, timer, due, step, holds, cancelled, edits>>
writerVars == <<in, buf, writer, halted, available, rows, accepted, written, dropped, failed>>
dispatcherVars == <<alerts, item, attempt, phase, ended, offered, refused, lost, delivered,
                    sends, arrived>>
vars == <<schedulerVars, writerVars, dispatcherVars, forwarded, promised>>

Init ==
    /\ S!Init /\ W!Init /\ D!Init
    /\ forwarded = [s \in Slots |-> FALSE]
    /\ promised = [beats |-> 0, alerts |-> 0]

-----------------------------------------------------------------------------
\* The signal to stop ends the one context of all.
Cancel ==
    /\ S!Stop /\ W!Halt /\ D!End
    /\ promised' = [beats |-> accepted, alerts |-> offered]
    /\ UNCHANGED forwarded

\* Mutant of Forward: the goroutine waits for room as long as it takes.
ForwardWaits(s) ==
    /\ step[s] = "submit" /\ ~ forwarded[s]
    /\ W!Submit(entry[holds[s]].monitor)
    /\ forwarded' = [forwarded EXCEPT ![s] = TRUE]
    /\ UNCHANGED <<schedulerVars, dispatcherVars, promised>>

\* Submit of a heartbeat, first half: it enters the writer's queue, or the
\* five seconds of the goroutine's own deadline pass with the queue full.
Forward(s) ==
    /\ step[s] = "submit" /\ ~ forwarded[s]
    /\ \/ W!Submit(entry[holds[s]].monitor)
       \/ Len(in) = QueueSize /\ UNCHANGED writerVars
    /\ forwarded' = [forwarded EXCEPT ![s] = TRUE]
    /\ UNCHANGED <<schedulerVars, dispatcherVars, promised>>

\* Second half: the engine may hand an alert to the dispatcher.
Evaluate(s) ==
    /\ forwarded[s]
    /\ S!Submitted(s)
    /\ (\E c \in Channels : D!Enqueue(c)) \/ UNCHANGED dispatcherVars
    /\ forwarded' = [forwarded EXCEPT ![s] = FALSE]
    /\ UNCHANGED <<writerVars, promised>>

\* The checks started so far, bounded by MaxBeats.
Started == accepted + Cardinality({s \in Slots : step[s] \in {"check", "submit"} /\ ~ forwarded[s]})

SchedulerSteps ==
    /\ \/ \E m \in Monitors : S!Enter(m) \/ S!Change(m) \/ S!Leave(m)
       \/ S!Signal \/ S!Arm \/ S!Woken \/ S!TakeDue \/ S!WindDown \/ S!Return \/ S!Tick
       \/ Started < MaxBeats /\ \E s \in Slots : S!Start(s)
       \/ \E s \in Slots : S!Checked(s) \/ S!Reschedule(s) \/ S!Finish(s)
    /\ UNCHANGED <<writerVars, dispatcherVars, forwarded, promised>>

WriterSteps == W!Run /\ UNCHANGED <<schedulerVars, dispatcherVars, forwarded, promised>>

DispatcherSteps ==
    /\ \E d \in Workers \cup {Drainer} : D!Step(d)
    /\ UNCHANGED <<schedulerVars, writerVars, forwarded, promised>>

Next ==
    \/ Cancel
    \/ \E s \in Slots : Forward(s) \/ Evaluate(s)
    \/ SchedulerSteps \/ WriterSteps \/ DispatcherSteps

Spec == Init /\ [][Next]_vars

\* Each goroutine that can go on does.
SchedulerAdvances ==
    /\ S!Arm \/ S!Woken \/ S!TakeDue \/ S!WindDown \/ S!Return
    /\ UNCHANGED <<writerVars, dispatcherVars, forwarded, promised>>
TaskAdvances(s) ==
    \/ Forward(s) \/ Evaluate(s)
    \/ /\ S!Checked(s) \/ S!Reschedule(s) \/ S!Finish(s)
       /\ UNCHANGED <<writerVars, dispatcherVars, forwarded, promised>>
DelivererAdvances(d) == D!Step(d) /\ UNCHANGED <<schedulerVars, writerVars, forwarded, promised>>

FairSpec ==
    /\ Spec
    /\ SF_vars(S!WindDown /\ UNCHANGED <<writerVars, dispatcherVars, forwarded, promised>>)
    /\ WF_vars(SchedulerAdvances)
    /\ SF_vars(W!Leave /\ UNCHANGED <<schedulerVars, dispatcherVars, forwarded, promised>>)
    /\ WF_vars(WriterSteps)
    /\ \A s \in Slots : WF_vars(TaskAdvances(s))
    /\ \A d \in Workers \cup {Drainer} : WF_vars(DelivererAdvances(d))

-----------------------------------------------------------------------------
Exited == loop = "stopped" /\ writer = "stopped" /\ phase[Drainer] = "returned"

\* The ceiling of the backlog is above what can wait for flushAll: a batch, a
\* queue, and the heartbeats that came after the signal.
BacklogHolds == MaxBatch + QueueSize + (accepted - promised.beats) <= MaxBacklog

\* What was accepted before the process was told to stop is not lost: by its
\* exit the alerts are settled and, although every flush that Run tries under
\* its ended context fails, the heartbeats are written, if only they fit in
\* the backlog until then (writer.go Run, dispatcher.go Run, main.go run).
PromisesKept ==
    Exited => /\ BacklogHolds => 1..promised.beats \subseteq ToSet(written)
              /\ 1..promised.alerts \subseteq refused \cup lost \cup delivered

\* The process told to stop does exit: no goroutine waits for one that has
\* returned (main.go run, scheduler.go Run, writer.go Submit).
StopEnds == cancelled ~> Exited

\* The checks that the scheduler waits for when the process stops leave
\* their measurement in the history (scheduler.go Run).
MeasurementsSurviveStop == Exited => in = <<>>
=============================================================================
