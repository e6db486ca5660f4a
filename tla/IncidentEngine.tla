--------------------------- MODULE IncidentEngine ---------------------------
(***************************************************************************)
(* The incident engine (internal/incident): it sees every heartbeat on its *)
(* way to the database, discards the failures that are not the monitor's   *)
(* own, runs the confirmation machine and reacts to what it decides.       *)
(*                                                                         *)
(* Engine.Submit is not atomic.  Each call of it is a row of `pc', `beat', *)
(* `seen' and `rules'; its steps are the sections the code runs under its  *)
(* mutex (Screen, Read, Write) and its calls to the store and to the       *)
(* dispatcher (Save, Record, React, Notify).  Calls for different          *)
(* monitors interleave freely; calls for one monitor only when Overlap.    *)
(* Forwarding the beat to the batch writer, between Screen and Read,       *)
(* shares no state with the engine and is in module BatchWriter.           *)
(***************************************************************************)
EXTENDS Confirmation, Integers, FiniteSets

CONSTANTS
    Monitors,     \* the monitors that exist when the behaviour starts
    None,         \* no parent, no instant
    Calls,        \* the concurrent calls of Submit: the scheduler's slots
    Rules,        \* the configurations an operator may give each monitor
    Initial,      \* the configuration each monitor starts with
    Results,      \* the results a check may give, before screening
    Overlap,      \* two checks of one monitor may run at once
    CanCrash,     \* the process may stop in the middle of a call
    StoreFails,   \* a write to the database may fail
    CanDelete,    \* monitors may be deleted
    Maintained,   \* the monitors a maintenance window may target
    MaxTime,      \* bound on the clock
    MaxRun        \* bound on the ghost count of equal observations

\* A monitor's configuration, as far as the engine reads it.  grace is zero
\* for every type but push.
Rule == [enabled: BOOLEAN, parent: Monitors \cup {None}, threshold: Nat,
         interval: Nat, grace: Nat]

ASSUME EngineAssumption ==
    /\ Monitors # {} /\ None \notin Monitors
    /\ None \notin Nat
    /\ Rules \in [Monitors -> SUBSET Rule]
    /\ Initial \in [Monitors -> Rule]
    /\ Results \subseteq Status
    /\ {Overlap, CanCrash, StoreFails, CanDelete} \subseteq BOOLEAN
    /\ Maintained \subseteq Monitors
    /\ MaxTime \in Nat /\ MaxRun \in Nat \ {0}

VARIABLES
    now,          \* the clock
    \* the engine's memory, guarded by its mutex
    known,        \* the keys of Engine.monitors
    monitors,     \* Engine.monitors
    states,       \* Engine.states; NeverMeasured where there is no entry
    aliveAt,      \* Engine.aliveAt
    failingSince, \* Engine.failingSince
    \* the calendar's answer
    targeted,     \* the monitors a window open now points at
    \* the calls in progress
    pc,           \* where each call is
    beat,         \* its heartbeat
    seen,         \* the state it read ("anterior")
    rules,        \* the configuration it read
    leaving,      \* the monitors deleted whose Remove is still to come
    \* the database
    rows,         \* the monitors that have a row
    saved,        \* table monitor_state
    timeline,     \* the status after the monitor's last recorded transition
    open,         \* the monitor has an open incident
    \* ghosts
    failing,      \* the last result of a check that was not a repetition is "down"
    run,          \* the run of equal observations counted so far
    alerted,      \* an outage alert is out for the outage confirmed now
    cut           \* the monitors a call of which a crash cut short

memory == <<known, monitors, states, aliveAt, failingSince>>
calls == <<pc, beat, seen, rules>>
database == <<rows, saved, timeline, open>>
ghosts == <<failing, run, alerted, cut>>
vars == <<now, memory, targeted, calls, leaving, database, ghosts>>

Steps == {"idle", "screen", "read", "write", "save", "record", "react", "notify"}

Beat == [monitor: Monitors, status: Status, at: Nat, repeated: BOOLEAN]

TypeOK ==
    /\ now \in Nat
    /\ known \subseteq Monitors
    /\ monitors \in [Monitors -> Rule]
    /\ states \in [Monitors -> MonitorState]
    /\ aliveAt \in [Monitors -> Nat \cup {None}]
    /\ failingSince \in [Monitors -> Nat \cup {None}]
    /\ targeted \subseteq Monitors
    /\ pc \in [Calls -> Steps]
    /\ beat \in [Calls -> Beat]
    /\ seen \in [Calls -> MonitorState]
    /\ rules \in [Calls -> Rule]
    /\ leaving \subseteq Monitors
    /\ rows \subseteq Monitors
    /\ saved \in [Monitors -> MonitorState]
    /\ timeline \in [Monitors -> Status]
    /\ open \in [Monitors -> BOOLEAN]
    /\ failing \in [Monitors -> BOOLEAN]
    /\ run \in [Monitors -> [of: Status, length: Nat]]
    /\ alerted \in [Monitors -> BOOLEAN]
    /\ cut \subseteq Monitors

-----------------------------------------------------------------------------
(***************************************************************************)
(* The dependency tree.  A chain of parents is climbed step by step, and   *)
(* the climb stops at a parent the engine does not know and at one it has  *)
(* been to: the tree in memory may hold a cycle.                           *)
(***************************************************************************)
ParentOf(m) == IF m \in known THEN monitors[m].parent ELSE None

\* The k-th ancestor of m, None above the top.
Climb(m) == [k \in 0..Cardinality(Monitors) |->
                LET up[i \in 0..k] == IF i = 0 THEN m ELSE ParentOf(up[i - 1])
                IN  up[k]]

\* a is the k-th ancestor of m, reached without meeting a monitor twice.
Ancestor(m, k, a) ==
    LET up == Climb(m)
    IN  /\ up[k] = a /\ a \in known
        /\ \A i, j \in 0..k : up[i] = up[j] => i = j

Heights == 1..Cardinality(Monitors)

\* a, an active ancestor of m, is confirmed down.
Silences(a) == monitors[a].enabled /\ states[a].status = "down"

\* Some ancestor in a confirmed outage takes m's failures upon itself.
HasDownAncestor(m) ==
    \E k \in Heights, a \in known : Ancestor(m, k, a) /\ Silences(a)

\* p is the first active ancestor of m.
NearestEnabledParent(m, p) ==
    \E k \in Heights :
        /\ Ancestor(m, k, p) /\ monitors[p].enabled
        /\ \A i \in 1..(k - 1) : ~ monitors[Climb(m)[i]].enabled

\* How long a monitor may take to notice its own outage.
DetectionWindow(r) == r.interval + r.grace

\* How long a child's failure waits for its parent.
HoldLimit(r) == DetectionWindow(r) + r.interval

\* p still has a failure of its own to confirm.
Undecided(p) == states[p].candidate = "down" /\ states[p].consecutive > 0

\* p gave a sign of life after the instant `since'.
AliveSince(p, since) == aliveAt[p] # None /\ since # None /\ aliveAt[p] >= since

\* The parent of m may be going down with it, m having failed since `since'.
UndecidedParent(m, since, at) ==
    \E p \in known :
        /\ NearestEnabledParent(m, p)
        /\ Responsive(states[p].status)
        /\ \/ Undecided(p)
           \/ /\ ~ AliveSince(p, since)
              /\ at - since < HoldLimit(monitors[p])

\* A window open now covers m, itself or through an ancestor.
InMaintenance(m) ==
    /\ m \in known
    /\ \/ m \in targeted
       \/ \E k \in Heights, a \in known : Ancestor(m, k, a) /\ a \in targeted

-----------------------------------------------------------------------------
\* What a call is about.
Monitor(c) == beat[c].monitor
Threshold(c) == rules[c].threshold

\* What the machine decided, from what the call read.
Decided(c) == NextState(seen[c], beat[c].status, Threshold(c))
HasEvent(c) == Announces(seen[c], beat[c].status, Threshold(c))

Busy(c) == pc[c] # "idle"
Quiet(m) == \A c \in Calls : Busy(c) => Monitor(c) # m

\* The call goes on to `step', keeping what it has read.
Goto(c, step) == pc' = [pc EXCEPT ![c] = step] /\ UNCHANGED <<beat, seen, rules>>

\* The call returns, and its local variables are gone.
NoBeat == [monitor |-> CHOOSE m \in Monitors : TRUE, status |-> "unknown", at |-> 0,
           repeated |-> FALSE]
Return(c) ==
    /\ pc' = [pc EXCEPT ![c] = "idle"]
    /\ beat' = [beat EXCEPT ![c] = NoBeat]
    /\ seen' = [seen EXCEPT ![c] = NeverMeasured]
    /\ rules' = [rules EXCEPT ![c] = Initial[NoBeat.monitor]]

Longer(n) == IF n < MaxRun THEN n + 1 ELSE n

-----------------------------------------------------------------------------
Init ==
    /\ now = 0
    /\ known = Monitors
    /\ monitors = Initial
    /\ states = [m \in Monitors |-> NeverMeasured]
    /\ aliveAt = [m \in Monitors |-> None]
    /\ failingSince = [m \in Monitors |-> None]
    /\ targeted = {}
    /\ pc = [c \in Calls |-> "idle"]
    /\ beat = [c \in Calls |-> NoBeat]
    /\ seen = [c \in Calls |-> NeverMeasured]
    /\ rules = [c \in Calls |-> Initial[NoBeat.monitor]]
    /\ leaving = {}
    /\ rows = Monitors
    /\ saved = [m \in Monitors |-> NeverMeasured]
    /\ timeline = [m \in Monitors |-> "unknown"]
    /\ open = [m \in Monitors |-> FALSE]
    /\ failing = [m \in Monitors |-> FALSE]
    /\ run = [m \in Monitors |-> [of |-> "unknown", length |-> 0]]
    /\ alerted = [m \in Monitors |-> FALSE]
    /\ cut = {}

-----------------------------------------------------------------------------
(***************************************************************************)
(* The environment.                                                        *)
(***************************************************************************)
Tick ==
    /\ now < MaxTime
    /\ now' = now + 1
    /\ UNCHANGED <<memory, targeted, calls, leaving, database, ghosts>>

\* A window opens, closes or changes its targets.
MaintenanceChanges ==
    /\ targeted' \in SUBSET Maintained
    /\ targeted' # targeted
    /\ UNCHANGED <<now, memory, calls, leaving, database, ghosts>>

\* A check of m ends and Submit is called.  Only a push monitor (grace > 0)
\* repeats a result: what its last signal said, though silence was found since.
Begin(c, m, status, repeated) ==
    /\ pc[c] = "idle"
    /\ Overlap \/ Quiet(m)
    /\ repeated => monitors[m].grace > 0 /\ status # "unknown"
    /\ pc' = [pc EXCEPT ![c] = "screen"]
    /\ beat' = [beat EXCEPT ![c] = [monitor |-> m, status |-> status,
                                    at |-> now, repeated |-> repeated]]
    /\ failing' = IF repeated THEN failing ELSE [failing EXCEPT ![m] = status = "down"]
    /\ UNCHANGED <<now, memory, targeted, seen, rules, leaving, database, run, alerted, cut>>

(***************************************************************************)
(* Submit: screen, then evaluate.                                          *)
(***************************************************************************)
\* track: the sign of life and the start of the failures of m.
Track(c) ==
    LET m == Monitor(c) IN
    /\ aliveAt' = IF Responsive(beat[c].status) /\ ~ beat[c].repeated
                    THEN [aliveAt EXCEPT ![m] = beat[c].at] ELSE aliveAt
    /\ failingSince' =
         CASE Responsive(beat[c].status) -> [failingSince EXCEPT ![m] = None]
           [] beat[c].status = "down" /\ failingSince[m] = None ->
                  [failingSince EXCEPT ![m] = beat[c].at]
           [] OTHER -> failingSince

\* The failing monitor m must not be counted as failing: a window covers
\* it, an ancestor is down, or its parent has not decided.
Discarded(m, status, since, at) ==
    \/ status \in {"down", "degraded"} /\ InMaintenance(m)
    \/ /\ status = "down" /\ m \in known
       /\ HasDownAncestor(m) \/ UndecidedParent(m, since, at)

Screen(c) ==
    /\ pc[c] = "screen"
    /\ Track(c)
    /\ beat' = IF Discarded(Monitor(c), beat[c].status,
                            failingSince'[Monitor(c)], beat[c].at)
                 THEN [beat EXCEPT ![c].status = "unknown"] ELSE beat
    /\ pc' = [pc EXCEPT ![c] = "read"]
    /\ UNCHANGED <<now, known, monitors, states, targeted, seen, rules, leaving, database, ghosts>>

\* What the first critical section of evaluate reads makes the call go on:
\* the monitor is known, the beat is an observation of its own, and the
\* machine changes state.
Counts(c) == Monitor(c) \in known /\ ~ beat[c].repeated
Matters(c) ==
    LET m == Monitor(c) IN
    Counts(c) /\ NextState(states[m], beat[c].status, monitors[m].threshold) # states[m]

Read(c) ==
    LET m == Monitor(c) IN
    /\ pc[c] = "read"
    /\ \/ /\ Matters(c)
          /\ pc' = [pc EXCEPT ![c] = "write"]
          /\ seen' = [seen EXCEPT ![c] = states[m]]
          /\ rules' = [rules EXCEPT ![c] = monitors[m]]
          /\ UNCHANGED beat
       \/ ~ Matters(c) /\ Return(c)
    /\ run' = IF Counts(c) /\ beat[c].status # "unknown"
                THEN [run EXCEPT ![m] =
                        [of |-> beat[c].status,
                         length |-> IF @.of = beat[c].status THEN Longer(@.length) ELSE 1]]
                ELSE run
    /\ UNCHANGED <<now, memory, targeted, leaving, database, failing, alerted, cut>>

\* The second critical section of evaluate.
Write(c) ==
    LET m == Monitor(c) IN
    /\ pc[c] = "write"
    /\ states' = [states EXCEPT ![m] = Decided(c)]
    /\ alerted' = [alerted EXCEPT
                     ![m] = @ /\ ~ (seen[c].status = "down" /\ Decided(c).status # "down")]
    /\ Goto(c, "save")
    /\ UNCHANGED <<now, known, monitors, aliveAt, failingSince, targeted,
                   leaving, database, failing, run, cut>>

\* Whether a statement about m takes effect in the database: its row must be
\* there (foreign keys), and the database must answer.
Effective(m) == {ok \in BOOLEAN : (ok => m \in rows) /\ (~ ok => m \notin rows \/ StoreFails)}

\* Mutant of Save: the count short of a confirmation is not saved.
SaveOnlyEvents(c) ==
    LET m == Monitor(c) IN
    /\ pc[c] = "save"
    /\ saved' = IF HasEvent(c) /\ m \in rows THEN [saved EXCEPT ![m] = Decided(c)] ELSE saved
    /\ \/ HasEvent(c) /\ Goto(c, "record")
       \/ ~ HasEvent(c) /\ Return(c)
    /\ UNCHANGED <<now, memory, targeted, leaving, rows, timeline, open, ghosts>>

\* States().Save; a failure is logged and nothing else.
Save(c) ==
    LET m == Monitor(c) IN
    /\ pc[c] = "save"
    /\ \E ok \in Effective(m) : saved' = IF ok THEN [saved EXCEPT ![m] = Decided(c)] ELSE saved
    /\ \/ HasEvent(c) /\ Goto(c, "record")
       \/ ~ HasEvent(c) /\ Return(c)
    /\ UNCHANGED <<now, memory, targeted, leaving, rows, timeline, open, ghosts>>

\* record, first half: Transitions().Record.
Record(c) ==
    LET m == Monitor(c) IN
    /\ pc[c] = "record"
    /\ \E ok \in Effective(m) :
           timeline' = IF ok THEN [timeline EXCEPT ![m] = beat[c].status] ELSE timeline
    /\ Goto(c, "react")
    /\ UNCHANGED <<now, memory, targeted, leaving, rows, saved, open, ghosts>>

\* Mutants of Touches: an outage counts only if the monitor was up before;
\* nothing ends an outage.
TouchesFromUp(c) ==
    \/ beat[c].status = "down" /\ seen[c].status = "up"
    \/ Resolves(seen[c], beat[c].status)
TouchesOutages(c) == beat[c].status = "down"

\* The event opens an incident or closes one.
Touches(c) == beat[c].status = "down" \/ Resolves(seen[c], beat[c].status)

\* record, second half: Incidents().Open for an outage, a conflict with the
\* one already open being ignored, Incidents().Resolve for the end of one.
React(c) ==
    LET m == Monitor(c) IN
    /\ pc[c] = "react"
    /\ \E ok \in Effective(m) :
           open' = IF ok /\ Touches(c) THEN [open EXCEPT ![m] = beat[c].status = "down"] ELSE open
    /\ Goto(c, "notify")
    /\ UNCHANGED <<now, memory, targeted, leaving, rows, saved, timeline, ghosts>>

\* The call is about to send the alert of an outage.
Alerts(c) == pc[c] = "notify" /\ beat[c].status = "down" /\ Monitor(c) \in rows

\* notify: the channels are read from the database and the alert is handed
\* to the dispatcher.  Of the alerts only those of an outage are followed.
Notify(c) ==
    /\ pc[c] = "notify"
    /\ \E ok \in Effective(Monitor(c)) :
           alerted' = [alerted EXCEPT ![Monitor(c)] = @ \/ (ok /\ Alerts(c))]
    /\ Return(c)
    /\ UNCHANGED <<now, memory, targeted, leaving, database, failing, run, cut>>

(***************************************************************************)
(* Upsert and Remove, called by the API after the database was changed,    *)
(* and the restart of the process.                                         *)
(***************************************************************************)
\* The handler of an edit comes here some time after it wrote the row; by
\* then the row may be gone, and m removed.
Upsert(m) ==
    /\ \E r \in Rules[m] : monitors' = [monitors EXCEPT ![m] = r]
    /\ known' = known \cup {m}
    /\ UNCHANGED <<now, states, aliveAt, failingSince, targeted, calls, leaving,
                   database, ghosts>>

\* The row goes, and by cascade everything the database knew of m.
DeleteRow(m) ==
    /\ CanDelete /\ m \in rows
    /\ rows' = rows \ {m}
    /\ saved' = [saved EXCEPT ![m] = NeverMeasured]
    /\ timeline' = [timeline EXCEPT ![m] = "unknown"]
    /\ open' = [open EXCEPT ![m] = FALSE]
    /\ leaving' = leaving \cup {m}
    /\ UNCHANGED <<now, memory, targeted, calls, ghosts>>

\* Mutant of Forgotten: the entry of `states' outlives the monitor.
NotForgotten(m) == states

\* What Remove leaves of Engine.states.
Forgotten(m) == [states EXCEPT ![m] = NeverMeasured]

Remove(m) ==
    /\ m \in leaving
    /\ leaving' = leaving \ {m}
    /\ known' = known \ {m}
    /\ monitors' = [monitors EXCEPT ![m] = Initial[m]]
    /\ states' = Forgotten(m)
    /\ aliveAt' = [aliveAt EXCEPT ![m] = None]
    /\ failingSince' = [failingSince EXCEPT ![m] = None]
    /\ alerted' = [alerted EXCEPT ![m] = FALSE]
    /\ UNCHANGED <<now, targeted, calls, database, failing, run, cut>>

\* Mutant of Loaded: the engine starts from nothing.
LoadedNothing == [m \in Monitors |-> NeverMeasured]

\* What Load gives.
Loaded == saved

\* The restart of the process: NewEngine, Upsert of each row, Load.  An
\* orderly stop waits for the calls in progress, a crash does not.
Restart ==
    /\ CanCrash \/ \A c \in Calls : ~ Busy(c)
    /\ known' = rows
    /\ states' = Loaded
    /\ aliveAt' = [m \in Monitors |-> None]
    /\ failingSince' = [m \in Monitors |-> None]
    /\ pc' = [c \in Calls |-> "idle"]
    /\ beat' = [c \in Calls |-> NoBeat]
    /\ seen' = [c \in Calls |-> NeverMeasured]
    /\ rules' = [c \in Calls |-> Initial[NoBeat.monitor]]
    /\ leaving' = {}
    /\ alerted' = [m \in Monitors |-> alerted[m] /\ m \in rows]
    /\ cut' = cut \cup {Monitor(c) : c \in {d \in Calls : Busy(d)}}
    /\ UNCHANGED <<now, monitors, targeted, database, failing, run>>

-----------------------------------------------------------------------------
Check(m) == \E c \in Calls, status \in Results, repeated \in BOOLEAN :
                Begin(c, m, status, repeated)

Step(c) == \/ Screen(c) \/ Read(c) \/ Write(c) \/ Save(c)
           \/ Record(c) \/ React(c) \/ Notify(c)

Next ==
    \/ Tick
    \/ MaintenanceChanges
    \/ \E m \in Monitors : Check(m)
    \/ \E c \in Calls : Step(c)
    \/ \E m \in Monitors : Upsert(m) \/ DeleteRow(m) \/ Remove(m)
    \/ Restart

Spec == Init /\ [][Next]_vars

\* The scheduler keeps checking every monitor, and a call that began goes on:
\* every wait in it has a deadline.
FairSpec ==
    /\ Spec
    /\ \A m \in Monitors : WF_vars(Check(m))
    /\ \A c \in Calls : WF_vars(Step(c))

-----------------------------------------------------------------------------
(***************************************************************************)
(* Safety.                                                                 *)
(***************************************************************************)
\* A call that announces a change to m's status, and where it does so.
Announcing(c) == pc[c] \in {"write", "save", "record", "react", "notify"} /\ HasEvent(c)

\* An outage, a return or a degradation is confirmed only by as many equal
\* observations in a row as the monitor asks for, counting across orderly
\* restarts, edits of the threshold and observations that measured nothing
\* (incident/state.go Next with engine.go Load, evaluate).
ConfirmedByRun ==
    \A c \in Calls : Announcing(c) /\ Monitor(c) \notin cut =>
        /\ run[Monitor(c)].of = beat[c].status
        /\ \/ run[Monitor(c)].length >= Threshold(c)
           \/ run[Monitor(c)].length = MaxRun

\* The alert of an outage is sent once: no call is about to send it while
\* the one already sent stands, that is, until a return is confirmed
\* (engine.go evaluate, notify; across restarts, Load).
AlertOnce == \A c \in Calls : Alerts(c) => ~ alerted[Monitor(c)]

\* Nobody is told of an outage the database has no open incident for: the
\* reminders and the acknowledgement find it (engine.go record, notify).
ToldOnlyOfOpenIncidents == \A c \in Calls : Alerts(c) => open[Monitor(c)]

\* Between two checks of a monitor its state on disk is the one in memory,
\* so that a restart resumes the count where it was (engine.go evaluate).
SavedIsMemory ==
    \A m \in rows \cap known : Quiet(m) => saved[m] = states[m]

\* Between two checks of a monitor the history agrees with its state: an
\* incident is open exactly while it is down, and the last recorded
\* transition leads to its status, but for the first "up", which makes none
\* (engine.go record).  A crash may have cut the call short that was to make
\* them agree, and nothing makes up for it.
LedgerMatchesState ==
    \A m \in (rows \cap known) \ cut : Quiet(m) =>
        /\ open[m] <=> states[m].status = "down"
        /\ \/ timeline[m] = states[m].status
           \/ timeline[m] = "unknown" /\ states[m].status = "up"

\* A child's failure that waits for its parent to decide waits for at most
\* the parent's detection window and one more check of it
\* (engine.go screen, undecidedParent, holdLimit).
HoldHasDeadline ==
    [][\A c \in Calls :
        LET m == Monitor(c) IN
        /\ Screen(c) /\ beat[c].status = "down" /\ beat'[c].status = "unknown"
        /\ ~ InMaintenance(m) /\ ~ HasDownAncestor(m)
        => \E p \in known : /\ NearestEnabledParent(m, p)
                            /\ beat[c].at - failingSince'[m] < HoldLimit(monitors[p])
      ]_vars

\* The outage of a monitor that depends on nobody and from some point on is
\* found down by every check is some day confirmed and alerted about, and
\* that alert stands: it is of this outage, not of an earlier one, however
\* the threshold is edited meanwhile (engine.go Submit to notify).
PersistentOutageAlerts ==
    \A m \in Monitors :
        <>[](/\ failing[m] /\ m \in known \cap rows /\ m \notin targeted
             /\ monitors[m].parent = None /\ monitors[m].grace = 0)
            => <>[](states[m].status = "down" /\ alerted[m])

-----------------------------------------------------------------------------
(***************************************************************************)
(* The inductive invariant behind AlertOnce, SavedIsMemory and             *)
(* KeepsContract, when checks of one monitor do not overlap and the        *)
(* database does not fail.                                                 *)
(***************************************************************************)
\* A monitor has one call at a time.
Serial == \A c, d \in Calls : Busy(c) /\ Busy(d) /\ Monitor(c) = Monitor(d) => c = d

\* What is deleted has no row any more, and nothing saved.
GoneIsGone ==
    /\ leaving \cap rows = {}
    /\ \A m \in Monitors \ rows : saved[m] = NeverMeasured

\* The alert that stands is about an outage that memory, and the row of the
\* monitor if there is one, hold.
AlertedIsDown ==
    \A m \in Monitors : alerted[m] =>
        /\ states[m].status = "down"
        /\ m \in rows => saved[m].status = "down"

\* What a call read still holds when it writes what it decided, at least as
\* far as an alert depends on it.
ReadStands ==
    \A c \in Calls : pc[c] = "write" =>
        states[Monitor(c)] = seen[c] \/ ~ alerted[Monitor(c)]

\* What a call decided is in memory until the call ends, and it announces a
\* change only with an event and, if an outage, an untold one.
DecisionStands ==
    \A c \in Calls :
        /\ pc[c] \in {"save", "record", "react", "notify"} /\ Monitor(c) \in rows =>
              states[Monitor(c)] = Decided(c)
        /\ pc[c] \in {"record", "react", "notify"} => HasEvent(c)
        /\ /\ pc[c] \in {"save", "record", "react", "notify"}
           /\ HasEvent(c) /\ beat[c].status = "down"
           => ~ alerted[Monitor(c)]

\* Memory and database differ only for as long as a call is about to save.
SavedUnlessSaving ==
    \A m \in rows :
        saved[m] = states[m] \/ \E c \in Calls : pc[c] = "save" /\ Monitor(c) = m

\* Together with the types they are kept by every step (engine.go evaluate,
\* record, notify, Load, Upsert, Remove).
AlertInvariant ==
    TypeOK /\ Serial /\ GoneIsGone /\ AlertedIsDown /\ ReadStands
           /\ DecisionStands /\ SavedUnlessSaving

-----------------------------------------------------------------------------
\* The engine keeps its promise to those it alerts (module AlertContract):
\* one alert at most for each outage, and none outside an outage.
Contract == INSTANCE AlertContract WITH
                outage <- [m \in Monitors |-> states[m].status = "down"],
                told <- alerted

KeepsContract == Contract!Spec
=============================================================================
