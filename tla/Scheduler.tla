----------------------------- MODULE Scheduler -----------------------------
(***************************************************************************)
(* The scheduler (internal/scheduler): one loop, a queue of entries by the *)
(* instant they are due, a ceiling of concurrent checks, and the API's     *)
(* goroutines that edit the queue while it runs.                           *)
(*                                                                         *)
(* An entry is a Go pointer: a monitor that leaves and comes back gets a   *)
(* new one, and the old one lives for as long as a check holds it.         *)
(* Instants are kept as the delay still to go, which every Tick shortens.  *)
(* The heap is a set: which of two entries due at once goes first is not   *)
(* specified.                                                              *)
(***************************************************************************)
EXTENDS Naturals, FiniteSets

CONSTANTS
    Monitors,
    Entries,    \* bound on the entries alive at once
    Slots,      \* the semaphore: the checks that may run at once
    None,       \* no entry
    Intervals,  \* the intervals a monitor may be given
    IdleWait,   \* how long the loop sleeps with nothing scheduled
    MaxEdits,   \* bound on the edits by the API
    Returns,    \* a monitor may be enabled while its last check still runs
    CanStop     \* the process may be asked to stop

Entry == [monitor: Monitors, interval: Intervals, delay: Nat, inFlight: BOOLEAN]

ASSUME SchedulerAssumption ==
    /\ None \notin Entries /\ None \notin Entry
    /\ Intervals \subseteq Nat \ {0}
    /\ IdleWait \in Nat \ {0} /\ MaxEdits \in Nat
    /\ {Returns, CanStop} \subseteq BOOLEAN

VARIABLES
    entry,      \* the entries alive
    index,      \* Scheduler.index: the entry of each monitor scheduled
    queue,      \* Scheduler.queue
    wake,       \* Scheduler.wake holds its one signal
    owed,       \* API goroutines past the unlock, about to signal
    loop,       \* where Run is
    timer,      \* the delay until its timer fires
    due,        \* what takeDue returned and has no goroutine yet
    step,       \* where the goroutine in each slot is
    holds,      \* the entry it holds
    cancelled,  \* the context of the process is done
    edits       \* edits so far

heap == <<entry, index, queue>>
tasks == <<step, holds>>
vars == <<heap, wake, owed, loop, timer, due, tasks, cancelled, edits>>

TypeOK ==
    /\ entry \in [Entries -> Entry \cup {None}]
    /\ index \in [Monitors -> Entries \cup {None}]
    /\ queue \subseteq Entries
    /\ wake \in BOOLEAN
    /\ owed \in Nat
    /\ loop \in {"arm", "select", "start", "waiting", "stopped"}
    /\ timer \in Nat
    /\ due \subseteq Entries
    /\ step \in [Slots -> {"free", "check", "submit", "reschedule", "signal"}]
    /\ holds \in [Slots -> Entries \cup {None}]
    /\ cancelled \in BOOLEAN
    /\ edits \in Nat

Init ==
    /\ entry = [e \in Entries |-> None]
    /\ index = [m \in Monitors |-> None]
    /\ queue = {}
    /\ wake = FALSE
    /\ owed = 0
    /\ loop = "arm"
    /\ timer = IdleWait
    /\ due = {}
    /\ step = [s \in Slots |-> "free"]
    /\ holds = [s \in Slots |-> None]
    /\ cancelled = FALSE
    /\ edits = 0

\* e is held by a goroutine that has not given it back.
InTask(e) == \E s \in Slots : holds[s] = e

-----------------------------------------------------------------------------
(***************************************************************************)
(* The API: each call changes the queue under the lock, unlocks, signals.  *)
(***************************************************************************)
Edited == edits < MaxEdits /\ edits' = edits + 1 /\ owed' = owed + 1

\* An entry, or a slot, not in use: one is as good as another.
NewEntry == CHOOSE e \in Entries : entry[e] = None
FreeSlot == CHOOSE s \in Slots : step[s] = "free"

\* Upsert of a monitor that has no entry; the first check is anywhere
\* within the interval.
Enter(m) ==
    /\ Edited
    /\ index[m] = None
    /\ Returns \/ \A e \in Entries : entry[e] # None => entry[e].monitor # m
    /\ \E e \in Entries : entry[e] = None
    /\ \E i \in Intervals : \E d \in 0..(i - 1) :
          entry' = [entry EXCEPT ![NewEntry] =
                      [monitor |-> m, interval |-> i, delay |-> d, inFlight |-> FALSE]]
    /\ index' = [index EXCEPT ![m] = NewEntry]
    /\ queue' = queue \cup {NewEntry}
    /\ UNCHANGED <<wake, loop, timer, due, tasks, cancelled>>

\* Upsert of a monitor that has one.
Change(m) ==
    LET e == index[m] IN
    /\ Edited
    /\ e # None
    /\ \E i \in Intervals :
          entry' = [entry EXCEPT ![e].interval = i,
                                 ![e].delay = IF i # entry[e].interval /\ ~ entry[e].inFlight
                                                THEN i ELSE @]
    /\ UNCHANGED <<index, queue, wake, loop, timer, due, tasks, cancelled>>

\* Remove, and Upsert of a monitor that is disabled.
Leave(m) ==
    LET e == index[m] IN
    /\ Edited
    /\ e # None
    /\ index' = [index EXCEPT ![m] = None]
    /\ queue' = queue \ {e}
    /\ entry' = IF e \in queue THEN [entry EXCEPT ![e] = None] ELSE entry
    /\ UNCHANGED <<wake, loop, timer, due, tasks, cancelled>>

Signal ==
    /\ owed > 0
    /\ owed' = owed - 1
    /\ wake' = TRUE
    /\ UNCHANGED <<heap, loop, timer, due, tasks, cancelled, edits>>

Stop ==
    /\ CanStop /\ ~ cancelled
    /\ cancelled' = TRUE
    /\ UNCHANGED <<heap, wake, owed, loop, timer, due, tasks, edits>>

-----------------------------------------------------------------------------
(***************************************************************************)
(* Run.                                                                    *)
(***************************************************************************)
\* The delay until the first entry is due, long when there is none.
WaitFor(wait) ==
    IF queue = {} THEN wait = IdleWait
    ELSE /\ \E e \in queue : wait = entry[e].delay
         /\ \A e \in queue : wait <= entry[e].delay

Arm ==
    /\ loop = "arm"
    /\ \E wait \in {IdleWait} \cup {entry[e].delay : e \in queue} :
          WaitFor(wait) /\ timer' = wait
    /\ loop' = "select"
    /\ UNCHANGED <<heap, wake, owed, due, tasks, cancelled, edits>>

Woken ==
    /\ loop = "select" /\ wake
    /\ wake' = FALSE
    /\ loop' = "arm"
    /\ UNCHANGED <<heap, owed, timer, due, tasks, cancelled, edits>>

Expired == {e \in queue : entry[e].delay = 0}

TakeDue ==
    /\ loop = "select" /\ timer = 0
    /\ due' = Expired
    /\ queue' = queue \ Expired
    /\ entry' = [e \in Entries |-> IF e \in Expired THEN [entry[e] EXCEPT !.inFlight = TRUE]
                                                    ELSE entry[e]]
    /\ loop' = IF Expired = {} THEN "arm" ELSE "start"
    /\ UNCHANGED <<index, wake, owed, timer, tasks, cancelled, edits>>

\* Mutant of Start: the entry at hand stays in the batch.
StartKeeps(s) ==
    /\ loop = "start" /\ step[s] = "free" /\ s = FreeSlot
    /\ \E e \in due : holds' = [holds EXCEPT ![s] = e]
    /\ step' = [step EXCEPT ![s] = "check"]
    /\ loop' \in {"arm", "start"}
    /\ UNCHANGED <<heap, wake, owed, timer, due, cancelled, edits>>

\* A free slot starts the check of one of the entries taken.
Start(s) ==
    /\ loop = "start" /\ step[s] = "free" /\ s = FreeSlot
    /\ \E e \in due :
          /\ due' = due \ {e}
          /\ holds' = [holds EXCEPT ![s] = e]
    /\ step' = [step EXCEPT ![s] = "check"]
    /\ loop' = IF due' = {} THEN "arm" ELSE "start"
    /\ UNCHANGED <<heap, wake, owed, timer, cancelled, edits>>

\* Mutants of GiveBack: the next check is counted from the instant the last
\* one was due; the mark of the running check stays; nobody asks whether the
\* monitor left; the entry is never pushed.
GiveBackLate(e) ==
    /\ index[entry[e].monitor] = e
    /\ entry' = [entry EXCEPT ![e].inFlight = FALSE, ![e].delay = entry[e].interval - 2]
    /\ queue' = queue \cup {e}
GiveBackMarked(e) ==
    IF index[entry[e].monitor] = e
      THEN /\ entry' = [entry EXCEPT ![e].delay = entry[e].interval]
           /\ queue' = queue \cup {e}
      ELSE entry' = [entry EXCEPT ![e] = None] /\ UNCHANGED queue
GiveBackAlways(e) ==
    /\ entry' = [entry EXCEPT ![e].inFlight = FALSE, ![e].delay = entry[e].interval]
    /\ queue' = queue \cup {e}
GiveBackNever(e) ==
    /\ entry' = [entry EXCEPT ![e] = IF index[entry[e].monitor] = e THEN @ ELSE None]
    /\ UNCHANGED queue

\* reschedule: the entry goes back to the queue unless its monitor left, or
\* left and came back with another entry.
GiveBack(e) ==
    IF index[entry[e].monitor] = e
      THEN /\ entry' = [entry EXCEPT ![e].inFlight = FALSE,
                                     ![e].delay = entry[e].interval]
           /\ queue' = queue \cup {e}
      ELSE /\ entry' = [entry EXCEPT ![e] = None]
           /\ UNCHANGED queue

\* The context is done: the loop starts nothing more and waits for the
\* goroutines.  Among the entries taken it gives back the one at hand.
WindDown ==
    /\ cancelled
    /\ \/ loop = "select" /\ UNCHANGED <<entry, queue>>
       \/ loop = "start" /\ \E e \in due : GiveBack(e)
    /\ due' = {}
    /\ loop' = "waiting"
    /\ UNCHANGED <<index, wake, owed, timer, tasks, cancelled, edits>>

Return ==
    /\ loop = "waiting"
    /\ \A s \in Slots : step[s] = "free"
    /\ loop' = "stopped"
    /\ UNCHANGED <<heap, wake, owed, timer, due, tasks, cancelled, edits>>

-----------------------------------------------------------------------------
(***************************************************************************)
(* The goroutine of a check.                                               *)
(***************************************************************************)
\* registry.Check returns, within the timeout of the monitor.
Checked(s) ==
    /\ step[s] = "check"
    /\ step' = [step EXCEPT ![s] = "submit"]
    /\ UNCHANGED <<heap, wake, owed, loop, timer, due, holds, cancelled, edits>>

\* sink.Submit returns.
Submitted(s) ==
    /\ step[s] = "submit"
    /\ step' = [step EXCEPT ![s] = "reschedule"]
    /\ UNCHANGED <<heap, wake, owed, loop, timer, due, holds, cancelled, edits>>

Reschedule(s) ==
    /\ step[s] = "reschedule"
    /\ GiveBack(holds[s])
    /\ step' = [step EXCEPT ![s] = "signal"]
    /\ holds' = [holds EXCEPT ![s] = None]
    /\ UNCHANGED <<index, wake, owed, loop, timer, due, cancelled, edits>>

\* Mutant of Finish: the loop is not told.
FinishSilently(s) ==
    /\ step[s] = "signal"
    /\ step' = [step EXCEPT ![s] = "free"]
    /\ UNCHANGED <<heap, wake, owed, loop, timer, due, holds, cancelled, edits>>

\* The goroutine signals and gives its slot back.
Finish(s) ==
    /\ step[s] = "signal"
    /\ wake' = TRUE
    /\ step' = [step EXCEPT ![s] = "free"]
    /\ UNCHANGED <<heap, owed, loop, timer, due, holds, cancelled, edits>>

-----------------------------------------------------------------------------
Less(n) == IF n > 0 THEN n - 1 ELSE 0

Tick ==
    /\ timer > 0 \/ \E e \in queue : entry[e].delay > 0
    /\ timer' = Less(timer)
    /\ entry' = [e \in Entries |-> IF e \in queue THEN [entry[e] EXCEPT !.delay = Less(@)]
                                                  ELSE entry[e]]
    /\ UNCHANGED <<index, queue, wake, owed, loop, due, tasks, cancelled, edits>>

Run == Arm \/ Woken \/ TakeDue \/ WindDown \/ Return \/ \E s \in Slots : Start(s)
Task(s) == Checked(s) \/ Submitted(s) \/ Reschedule(s) \/ Finish(s)

Next ==
    \/ \E m \in Monitors : Enter(m) \/ Change(m) \/ Leave(m)
    \/ Signal \/ Stop
    \/ Run
    \/ \E s \in Slots : Task(s)
    \/ Tick

Spec == Init /\ [][Next]_vars

\* Goroutines that can go on do, every check ends (it has a timeout), and
\* time passes.
FairSpec ==
    /\ Spec
    /\ WF_vars(Run) /\ WF_vars(Signal) /\ WF_vars(Tick)
    /\ \A s \in Slots : WF_vars(Task(s))

-----------------------------------------------------------------------------
\* No monitor is checked twice at the same time (heap.go inFlight,
\* scheduler.go takeDue, reschedule).
OneCheckAtATime ==
    \A s, t \in Slots :
        /\ s # t /\ holds[s] # None /\ holds[t] # None
        => entry[holds[s]].monitor # entry[holds[t]].monitor

\* Of two checks of one monitor that run at the same time one at least is of
\* an entry its monitor has left behind (scheduler.go takeDue, reschedule).
OneCheckPerEntry ==
    \A s, t \in Slots : s # t /\ holds[s] # None => holds[s] # holds[t]

\* While the loop runs no scheduled monitor is forgotten: its entry is in
\* exactly one place, the queue, the batch taken, or the hands of a check,
\* and its mark says which (scheduler.go Upsert, takeDue, reschedule).
NobodyForgotten ==
    loop \in {"arm", "select", "start"} =>
        \A m \in Monitors : index[m] # None =>
            LET e == index[m] IN
            /\ entry[e] # None /\ entry[e].monitor = m
            /\ e \in queue <=> ~ entry[e].inFlight
            /\ e \notin queue <=> e \in due \/ InTask(e)
            /\ ~ (e \in due /\ InTask(e))

\* The queue holds nothing but the entries of scheduled monitors: one that
\* left while its check ran does not come back with it
\* (scheduler.go removeLocked, reschedule).
QueueIsIndexed == \A e \in queue : entry[e] # None /\ index[entry[e].monitor] = e

(***************************************************************************)
(* The inductive invariant behind the three: where the entries are.        *)
(***************************************************************************)
Held == {holds[s] : s \in Slots} \ {None}

\* An entry is in one place at most, and what is in a place is alive: the
\* memory of an entry is not used again while anything points at it.
OnePlace ==
    /\ queue \cap due = {} /\ queue \cap Held = {} /\ due \cap Held = {}
    /\ \A e \in queue \cup due \cup Held : entry[e] # None
    /\ OneCheckPerEntry

\* An entry taken from the queue has the mark, one in the queue has not.
Marked ==
    /\ \A e \in queue : ~ entry[e].inFlight
    /\ \A e \in due \cup Held : entry[e].inFlight

\* The steps of the loop and of the goroutines at which they hold entries.
Holding ==
    /\ loop # "start" => due = {}
    /\ \A s \in Slots : holds[s] # None <=> step[s] \in {"check", "submit", "reschedule"}

\* The index points at entries alive, of the monitor asked for, and, while
\* the loop runs, in some place.
Indexed ==
    \A m \in Monitors : index[m] # None =>
        /\ entry[index[m]] # None /\ entry[index[m]].monitor = m
        /\ loop \in {"arm", "select", "start"} => index[m] \in queue \cup due \cup Held

\* Together with the types they are kept by every step (scheduler.go
\* Upsert, Remove, Run, takeDue, reschedule).
QueueInvariant == TypeOK /\ OnePlace /\ Marked /\ Holding /\ Indexed /\ QueueIsIndexed

\* The loop never sleeps past the moment an entry is due, unless a signal is
\* on its way (scheduler.go waitFor, signal, Run).
NeverOversleeps ==
    /\ loop = "select" /\ ~ wake /\ owed = 0
    /\ \A s \in Slots : step[s] # "signal"
    => \A e \in queue : timer <= entry[e].delay

\* While the process is not told to stop, a monitor that stays scheduled is
\* checked again and again, however few the slots and whatever became of the
\* others (scheduler.go Run).
NobodyStarves ==
    \A m \in Monitors :
        <>[](index[m] # None /\ ~ cancelled) =>
            []<>(\E s \in Slots : step[s] = "check" /\ holds[s] = index[m])
=============================================================================
