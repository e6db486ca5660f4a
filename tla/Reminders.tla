----------------------------- MODULE Reminders -----------------------------
(***************************************************************************)
(* The reminders of open outages (internal/incident/reminder.go) against   *)
(* the two who end them: the person who acknowledges the outage through    *)
(* the API (internal/api/incident_handlers.go) and the engine that closes  *)
(* it.  All three work on the table of incidents                           *)
(* (internal/store/sqlstore/incident.go), each by conditional statements,  *)
(* and none holds a lock over its read and its write.                      *)
(***************************************************************************)
EXTENDS Naturals, Sequences, FiniteSets

CONSTANTS
    Monitors, Groups, People,
    None,            \* no parent, no group, no interval, never
    Parent,          \* the monitor each monitor depends on, or None
    GroupOf,         \* the group of each monitor, or None
    GroupParent,     \* the parent of each group, or None; it may hold a cycle
    DefaultInterval, \* ReminderOptions.Default
    PageSize,        \* store.MaxPageSize
    Edits,           \* the edits an operator makes, each once at most: records
                     \* of what is edited, the monitor or group, and the interval
    MaxTime, MaxIncidents, MaxChanges, MaxEdits, MaxFailures  \* bounds

VARIABLES
    clock,
    confirmed,  \* Engine.states, as far as down or not
    watched,    \* the monitors of Engine.monitors that are enabled
    covered,    \* the monitors a maintenance window covers now
    interval,   \* ReminderInterval of each monitor and of each group
    ledger,     \* what the engine still has to write after a confirmed change
    incident,   \* table incident; the id is the index
    loop,       \* Reminders.Tick: where it is, and its local variables
    request,    \* each person's acknowledgement in progress
    answered,   \* ghost: the incidents each person was told to have acknowledged
    marks,      \* ghost: the reminders marked, in order
    ackedAt,    \* ghost: the number of marks when each incident was acknowledged
    sent,       \* ghost: the marks that reached the dispatcher
    changes, edits, failures  \* what has been used of the bounds

engine == <<confirmed, watched, covered, ledger, changes>>
ghosts == <<answered, marks, ackedAt, sent>>
vars == <<clock, engine, interval, incident, loop, request, ghosts, edits, failures>>

Ids == 1..MaxIncidents
Choice == Nat \cup {None}
Incident == [monitor: Monitors, started: Nat, resolved: BOOLEAN,
             reminded: Nat \cup {None}, by: People \cup {None}]
\* What the loop remembers of an incident: domain.Incident, read by List.
Read == [id: Ids, row: Incident]
Mark == [id: Ids, at: Nat, gap: Nat]
NotAsking == [stage |-> "none", id |-> None, rows |-> 0]
Asking == {NotAsking} \cup [stage: {"checked", "written"}, id: Ids, rows: 0..1]

\* Tick and its local variables: the incidents still to see, newest first,
\* and the one in hand.
Loops == [stage: {"idle", "list", "groups", "review", "window", "mark", "send"},
          before: Ids \cup {None}, todo: SUBSET Read, read: Read \cup {None},
          tree: [Groups -> Choice], at: Nat, gap: Nat]
Idle == [stage |-> "idle", before |-> None, todo |-> {}, read |-> None,
         tree |-> [g \in Groups |-> None], at |-> 0, gap |-> 0]

TypeOK ==
    /\ clock \in Nat
    /\ confirmed \in [Monitors -> BOOLEAN]
    /\ watched \subseteq Monitors /\ covered \subseteq Monitors
    /\ interval \in [Monitors \cup Groups -> Choice]
    /\ ledger \in [Monitors -> {"settled", "open", "resolve"}]
    /\ incident \in Seq(Incident) /\ Len(incident) <= MaxIncidents
    /\ loop \in Loops
    /\ loop.stage \in {"window", "mark", "send"} => loop.read \in loop.todo
    /\ request \in [People -> Asking]
    /\ answered \in [People -> SUBSET Ids]
    /\ marks \in Seq(Mark)
    /\ ackedAt \in [Ids -> Nat \cup {None}]
    /\ sent \subseteq Nat

Init ==
    /\ clock = 0
    /\ confirmed = [m \in Monitors |-> FALSE]
    /\ watched = Monitors /\ covered = {}
    /\ interval = [x \in Monitors \cup Groups |-> None]
    /\ ledger = [m \in Monitors |-> "settled"]
    /\ incident = <<>>
    /\ loop = Idle
    /\ request = [p \in People |-> NotAsking]
    /\ answered = [p \in People |-> {}]
    /\ marks = <<>>
    /\ ackedAt = [i \in Ids |-> None]
    /\ sent = {}
    /\ changes = 0 /\ edits = {} /\ failures = 0

IsOpen(m) == \E i \in DOMAIN incident : incident[i].monitor = m /\ ~ incident[i].resolved

-----------------------------------------------------------------------------
(***************************************************************************)
(* The engine and the operator.                                            *)
(***************************************************************************)
Tick == clock < MaxTime /\ clock' = clock + 1
        /\ UNCHANGED <<engine, interval, incident, loop, request, ghosts, edits, failures>>

\* A change of state is confirmed: memory first, the incident afterwards.
Confirm(m) ==
    /\ m \in watched /\ ledger[m] = "settled"
    /\ changes < MaxChanges /\ changes' = changes + 1
    /\ confirmed' = [confirmed EXCEPT ![m] = ~ @]
    /\ ledger' = [ledger EXCEPT ![m] = IF confirmed[m] THEN "resolve" ELSE "open"]
    /\ UNCHANGED <<clock, watched, covered, interval, incident, loop, request, ghosts, edits, failures>>

Fail == failures < MaxFailures /\ failures' = failures + 1

\* The unique index refuses a second open incident of a monitor.
Open(m) ==
    /\ ledger[m] = "open"
    /\ Len(incident) < MaxIncidents
    /\ ledger' = [ledger EXCEPT ![m] = "settled"]
    /\ \/ ~ IsOpen(m) /\ UNCHANGED failures
          /\ incident' = Append(incident, [monitor |-> m, started |-> clock, resolved |-> FALSE,
                                           reminded |-> None, by |-> None])
       \/ IsOpen(m) /\ UNCHANGED <<incident, failures>>
       \/ Fail /\ UNCHANGED incident
    /\ UNCHANGED <<clock, confirmed, watched, covered, changes, interval, loop, request, ghosts, edits>>

\* No open incident of the monitor, no row changed, no error.
Resolve(m) ==
    /\ ledger[m] = "resolve"
    /\ ledger' = [ledger EXCEPT ![m] = "settled"]
    /\ \/ incident' = [i \in DOMAIN incident |->
                         IF incident[i].monitor = m THEN [incident[i] EXCEPT !.resolved = TRUE]
                         ELSE incident[i]]
          /\ UNCHANGED failures
       \/ Fail /\ UNCHANGED incident
    /\ UNCHANGED <<clock, confirmed, watched, covered, changes, interval, loop, request, ghosts, edits>>

Toggled(set, m) == IF m \in set THEN set \ {m} ELSE set \cup {m}

\* A monitor is paused or resumed, a window opens or ends, an interval is
\* chosen, for a monitor or for a group; 0 is off and None inherits.
Operate(e) ==
    /\ e \notin edits /\ Cardinality(edits) < MaxEdits
    /\ edits' = edits \cup {e}
    /\ watched' = IF e.what = "pause" THEN Toggled(watched, e.of) ELSE watched
    /\ covered' = IF e.what = "window" THEN Toggled(covered, e.of) ELSE covered
    /\ interval' = IF e.what = "interval" THEN [interval EXCEPT ![e.of] = e.every] ELSE interval
    /\ UNCHANGED <<clock, confirmed, ledger, changes, incident, loop, request, ghosts, failures>>

-----------------------------------------------------------------------------
(***************************************************************************)
(* The loop of the reminders.                                              *)
(***************************************************************************)
\* The ancestor n levels above x in a tree of parents, or None.
Above(tree, x, n) ==
    LET up[k \in 0..n] == IF k = 0 THEN x
                          ELSE IF up[k - 1] = None THEN None ELSE tree[up[k - 1]]
    IN  up[n]

\* DownAncestor: an enabled ancestor with a confirmed outage; a climb longer
\* than there are monitors has come round.
Silenced(m) == \E n \in 1..(Cardinality(Monitors) - 1) :
    LET a == Above(Parent, m, n) IN a # None /\ a # m /\ a \in watched /\ confirmed[a]

ReminderTarget(m) == m \in watched /\ confirmed[m] /\ ~ Silenced(m)

\* The nearest of the monitor and its groups that has chosen an interval.
ReminderInterval(m, tree) ==
    LET Group(n) == Above(GroupParent, GroupOf[m], n)
        Chosen == {n \in 0..(Cardinality(Groups) - 1) : Group(n) \in Groups /\ tree[Group(n)] # None}
    IN  IF interval[m] # None THEN interval[m]
        ELSE IF Chosen # {}
          THEN tree[Group(CHOOSE n \in Chosen : \A k \in Chosen : n <= k)]
          ELSE DefaultInterval

LoopKeeps == UNCHANGED <<clock, engine, interval, request, answered, ackedAt, edits>>

StartTick ==
    /\ loop.stage = "idle"
    /\ loop' = [Idle EXCEPT !.stage = "list"]
    /\ UNCHANGED <<incident, marks, sent, failures>> /\ LoopKeeps

Newest(ids, n) == {i \in ids : Cardinality({j \in ids : j > i}) < n}

\* One page of the open incidents, newest first, below the last one read.
ListOpen ==
    /\ loop.stage = "list"
    /\ \/ /\ LET ids == {i \in DOMAIN incident : /\ ~ incident[i].resolved
                                                 /\ loop.before # None => i < loop.before}
                 page == Newest(ids, PageSize)
                 todo == loop.todo \cup {[id |-> i, row |-> incident[i]] : i \in page}
             IN  IF page # ids
                   THEN \E last \in page : /\ \A i \in page : last <= i
                                          /\ loop' = [loop EXCEPT !.todo = todo, !.before = last]
                   ELSE loop' = IF todo = {} THEN Idle
                                ELSE [loop EXCEPT !.todo = todo, !.stage = "groups"]
          /\ UNCHANGED failures
       \/ Fail /\ loop' = Idle
    /\ UNCHANGED <<incident, marks, sent>> /\ LoopKeeps

ReadGroups ==
    /\ loop.stage = "groups"
    /\ \/ loop' = [loop EXCEPT !.tree = [g \in Groups |-> interval[g]], !.at = clock,
                               !.stage = "review"]
          /\ UNCHANGED failures
       \/ Fail /\ loop' = Idle
    /\ UNCHANGED <<incident, marks, sent>> /\ LoopKeeps

\* On to the next incident of the list.
After(read) ==
    IF loop.todo = {read} THEN Idle
    ELSE [loop EXCEPT !.todo = @ \ {read}, !.read = None, !.stage = "review", !.gap = 0]

LastTold(row) == IF row.reminded = None THEN row.started ELSE row.reminded

\* The engine is asked about the monitor, under its mutex, and the interval
\* compared with the row as the list read it.
Review ==
    /\ loop.stage = "review"
    /\ \E read \in loop.todo :
         /\ \A other \in loop.todo : other.id <= read.id
         /\ LET gap == ReminderInterval(read.row.monitor, loop.tree)
            IN  loop' = IF /\ read.row.by = None
                           /\ ReminderTarget(read.row.monitor)
                           /\ gap > 0
                           /\ loop.at - LastTold(read.row) >= gap
                          THEN [loop EXCEPT !.stage = "window", !.read = read, !.gap = gap]
                          ELSE After(read)
    /\ UNCHANGED <<incident, marks, sent, failures>> /\ LoopKeeps

AskCalendar ==
    /\ loop.stage = "window"
    /\ loop' = IF loop.read.row.monitor \in covered THEN After(loop.read)
               ELSE [loop EXCEPT !.stage = "mark"]
    /\ UNCHANGED <<incident, marks, sent, failures>> /\ LoopKeeps

\* Mutants of Unseen: the statement forgets who came between.
UnseenButAcked(i, row) == ~ incident[i].resolved /\ incident[i].reminded = row.reminded
UnseenButClosed(i, row) == incident[i].by = None /\ incident[i].reminded = row.reminded

\* The condition of the UPDATE: nothing happened to the row since it was read.
Unseen(i, row) ==
    /\ ~ incident[i].resolved
    /\ incident[i].by = None
    /\ incident[i].reminded = row.reminded

MarkReminded ==
    /\ loop.stage = "mark"
    /\ LET i == loop.read.id IN
       \/ /\ Unseen(i, loop.read.row)
          /\ incident' = [incident EXCEPT ![i].reminded = loop.at]
          /\ marks' = Append(marks, [id |-> i, at |-> loop.at, gap |-> loop.gap])
          /\ loop' = [loop EXCEPT !.stage = "send"]
          /\ UNCHANGED failures
       \/ /\ ~ Unseen(i, loop.read.row)
          /\ loop' = After(loop.read) /\ UNCHANGED <<incident, marks, failures>>
       \/ Fail /\ loop' = After(loop.read) /\ UNCHANGED <<incident, marks>>
    /\ UNCHANGED sent /\ LoopKeeps

\* The channels are read and the alert queued; when the read fails nobody is
\* told, and the mark stays.
Remind ==
    /\ loop.stage = "send"
    /\ loop' = After(loop.read)
    /\ \/ sent' = sent \cup {Len(marks)} /\ UNCHANGED failures
       \/ Fail /\ UNCHANGED sent
    /\ UNCHANGED <<incident, marks>> /\ LoopKeeps

Loop == StartTick \/ ListOpen \/ ReadGroups \/ Review \/ AskCalendar \/ MarkReminded \/ Remind

-----------------------------------------------------------------------------
(***************************************************************************)
(* Acknowledging, by the id of the incident the person was looking at.     *)
(***************************************************************************)
RequestKeeps == UNCHANGED <<clock, engine, interval, loop, marks, sent, edits>>

\* handleAcknowledgeIncident up to the store's statement.
Ask(p, i) ==
    /\ request[p].stage = "none" /\ i \in DOMAIN incident
    /\ answered[p] = {}
    /\ request' = [request EXCEPT ![p] = [stage |-> "checked", id |-> i, rows |-> 0]]
    /\ UNCHANGED <<incident, answered, ackedAt, failures>> /\ RequestKeeps

\* Mutant of Acknowledgeable: the last click wins.
AcknowledgeableAgain(i) == ~ incident[i].resolved

Acknowledgeable(i) == ~ incident[i].resolved /\ incident[i].by = None

Acknowledge(p) ==
    /\ request[p].stage = "checked"
    /\ LET i == request[p].id IN
       \/ /\ Acknowledgeable(i)
          /\ incident' = [incident EXCEPT ![i].by = p]
          /\ ackedAt' = [ackedAt EXCEPT ![i] = Len(marks)]
          /\ request' = [request EXCEPT ![p].stage = "written", ![p].rows = 1]
       \/ /\ ~ Acknowledgeable(i)
          /\ request' = [request EXCEPT ![p].stage = "written"]
          /\ UNCHANGED <<incident, ackedAt>>
    /\ UNCHANGED <<answered, failures>> /\ RequestKeeps

\* The row is read back and the person answered; a failed read is an error.
Answer(p) ==
    /\ request[p].stage = "written"
    /\ \/ /\ answered' = IF request[p].rows = 1
                           THEN [answered EXCEPT ![p] = @ \cup {request[p].id}] ELSE answered
          /\ UNCHANGED failures
       \/ Fail /\ UNCHANGED answered
    /\ request' = [request EXCEPT ![p] = NotAsking]
    /\ UNCHANGED <<incident, ackedAt>> /\ RequestKeeps

-----------------------------------------------------------------------------
\* The process stops: what the loop, the requests and the engine had still
\* to do is forgotten.
Crash ==
    /\ Fail
    /\ loop' = Idle
    /\ request' = [p \in People |-> NotAsking]
    /\ ledger' = [m \in Monitors |-> "settled"]
    /\ UNCHANGED <<clock, confirmed, watched, covered, changes, interval, incident, ghosts, edits>>

Next ==
    \/ Tick \/ Loop \/ Crash
    \/ \E e \in Edits : Operate(e)
    \/ \E m \in Monitors : Confirm(m) \/ Open(m) \/ Resolve(m)
    \/ \E p \in People : (\E i \in Ids : Ask(p, i)) \/ Acknowledge(p) \/ Answer(p)

Spec == Init /\ [][Next]_vars

-----------------------------------------------------------------------------
\* One person at most is told to have taken an outage, and that person's
\* name is on it: of two simultaneous clicks one is refused
\* (sqlstore/incident.go Acknowledge).
OneAuthor == \A p \in People : \A i \in answered[p] : incident[i].by = p

\* Once someone took the outage no reminder of it is marked, however stale
\* the list the loop is working through (reminder.go Tick).
QuietOnceTaken ==
    \A i \in Ids : ackedAt[i] # None => \A k \in DOMAIN marks : marks[k].id = i => k <= ackedAt[i]

\* Two reminders of one outage are an interval apart, and the first comes an
\* interval after its start, across ticks, restarts and failed writes.
Spaced ==
    \A k \in DOMAIN marks :
        LET earlier == {j \in 1..(k - 1) : marks[j].id = marks[k].id}
            from == IF earlier = {} THEN incident[marks[k].id].started
                    ELSE marks[CHOOSE j \in earlier : \A l \in earlier : l <= j].at
        IN  marks[k].at - from >= marks[k].gap /\ marks[k].gap > 0

\* A monitor has one open outage at most.
OneOpen ==
    \A i, j \in DOMAIN incident :
        /\ incident[i].monitor = incident[j].monitor
        /\ ~ incident[i].resolved /\ ~ incident[j].resolved
        => i = j

RemindersKept == OneAuthor /\ QuietOnceTaken /\ Spaced /\ OneOpen

\* A closed row is never touched again, by the loop or by a late click
\* (sqlstore/incident.go MarkReminded, Acknowledge).
ClosedRowsKept ==
    \A i \in DOMAIN incident : incident[i].resolved => incident'[i] = incident[i]
ClosedRowsRest == [][ClosedRowsKept]_vars
=============================================================================
