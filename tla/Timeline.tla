------------------------------ MODULE Timeline ------------------------------
(***************************************************************************)
(* What happened, page by page from the newest back: the timeline of a     *)
(* monitor, two tables merged by instant (handleMonitorEvents), the list   *)
(* of outages (handleListIncidents), and the heartbeats of a window        *)
(* (QueryHeartbeats).  The reader comes back with the position of the last *)
(* event it saw; meanwhile checks write, late ones too, and the worker     *)
(* prunes.  Instants are milliseconds, and one origin measures once in a   *)
(* millisecond.                                                            *)
(***************************************************************************)
EXTENDS Integers, Sequences, FiniteSets

CONSTANTS
    None,
    Times,          \* milliseconds
    Origins,        \* probe ids, in one order: the code writes only "local", so Go
                    \* and the database have none to order apart
    Limits,         \* of a page
    Starts,         \* [changes, beats, outages]: the tables at the start
    MaxWrites, MaxPages     \* bounds

\* A page has a place at least, and the tables at the start are finite.

VARIABLES
    changes,        \* table state_transition: [at, id]
    beats,          \* table heartbeat: [at, origin, failed]
    outages,        \* table incident: ids
    reader,         \* [kind, limit, before, cursor, shown, more], or None
    found,          \* the changes its page has read, or None
    writes, pages,
    steady          \* ghost: what was there when the reader began and still is

vars == <<changes, beats, outages, reader, found, writes, pages, steady>>
-----------------------------------------------------------------------------
(***************************************************************************)
(* Events and their order.                                                 *)
(***************************************************************************)
Changed(c) == [at |-> c.at, rank |-> 0, key |-> c.id]
Failed(b) == [at |-> b.at, rank |-> 1, key |-> b.origin]
Outage(n) == [at |-> 0, rank |-> 0, key |-> n]

\* Mutant of Precedes: a failure before the change it confirmed.
PrecedesFailures(e, f) ==
    \/ e.at > f.at
    \/ e.at = f.at /\ e.rank > f.rank
    \/ e.at = f.at /\ e.rank = f.rank /\ e.key > f.key

\* eventCursor.compare: the newest first, and of one instant the change before
\* the failures.
Precedes(e, f) ==
    \/ e.at > f.at
    \/ e.at = f.at /\ e.rank < f.rank
    \/ e.at = f.at /\ e.rank = f.rank /\ e.key > f.key

Place(e, events) == 1 + Cardinality({f \in events : Precedes(f, e)})
First(events, n) == {e \in events : Place(e, events) <= n}
Sorted(events) == [k \in 1..Cardinality(events) |-> CHOOSE e \in events : Place(e, events) = k]

\* transitionRepo.List: before an instant, or before one of the changes of it.
Transitions(before, beforeId, limit) ==
    First({Changed(c) : c \in {d \in changes :
             before # None => \/ d.at < before
                              \/ beforeId # None /\ d.at = before /\ d.id < beforeId}}, limit)

\* Mutant of Before: by the instant alone.
BeforeInstant(b, cursor) == cursor # None => b.at < cursor.at

\* The cursor of QueryHeartbeats.
Before(b, cursor) ==
    cursor # None => \/ b.at < cursor.at
                     \/ b.at = cursor.at /\ b.origin < cursor.key

\* Mutant of Newest: the limit cuts the end of the window.
NewestFirst(window, limit) ==
    {b \in window : Cardinality({c \in window : c.at < b.at \/ (c.at = b.at /\ c.origin < b.origin)}) < limit}

\* The limit cuts the start of the window.
Newest(window, limit) ==
    {b \in window : Cardinality({c \in window : c.at > b.at \/ (c.at = b.at /\ c.origin > b.origin)}) < limit}

\* QueryHeartbeats.
Heartbeats(from, to, onlyFailures, cursor, limit) ==
    Newest({b \in beats : /\ from <= b.at /\ (to # None => b.at < to)
                          /\ (onlyFailures => b.failed) /\ Before(b, cursor)}, limit)

\* Mutant of FailuresUntil: those of the same instant are left out.
FailuresUntilInstant(cursor) == cursor.at

\* Having stopped at a change, the failures of its instant are still to come.
FailuresUntil(cursor) == cursor.at + 1

\* What the page reads: one more than its limit of each table.
ChangesFound(r) ==
    LET c == r.cursor
    IN IF c = None THEN Transitions(r.before, None, r.limit + 1)
       ELSE Transitions(c.at, IF c.rank = 0 THEN c.key ELSE None, r.limit + 1)
FailuresFound(r) ==
    LET c == r.cursor
    IN IF c = None THEN Heartbeats(0, r.before, TRUE, None, r.limit + 1)
       ELSE IF c.rank = 0 THEN Heartbeats(0, FailuresUntil(c), TRUE, None, r.limit + 1)
       ELSE Heartbeats(0, None, TRUE, c, r.limit + 1)
EventsFound(r) ==
    (IF r.kind # "failure" THEN found ELSE {})
    \cup (IF r.kind # "state" THEN {Failed(b) : b \in FailuresFound(r)} ELSE {})

\* incidentRepo.List, from the id of incidentCursor.
OutagesFound(r) ==
    First({Outage(n) : n \in {m \in outages : r.cursor # None => m < r.cursor.key}}, r.limit + 1)

Found(r) == IF r.kind = "outages" THEN OutagesFound(r) ELSE EventsFound(r)
-----------------------------------------------------------------------------
All == {Changed(c) : c \in changes} \cup {Failed(b) : b \in {d \in beats : d.failed}}

Begin(kind, limit, before) ==
    /\ reader = None /\ (kind = "outages" => before = None)
    /\ reader' = [kind |-> kind, limit |-> limit, before |-> before, cursor |-> None,
                  shown |-> <<>>, more |-> TRUE]
    /\ steady' = IF kind = "outages" THEN {Outage(n) : n \in outages} ELSE All
    /\ UNCHANGED <<changes, beats, outages, found, writes, pages>>

\* The changes are read first, and then the failures.
ReadChanges ==
    /\ reader # None /\ reader.more /\ pages < MaxPages
    /\ reader.kind \in {"all", "state"} /\ found = None
    /\ found' = ChangesFound(reader)
    /\ UNCHANGED <<changes, beats, outages, reader, writes, pages, steady>>

\* One page: cut at the limit, and the cursor is the last event of it.
Page ==
    /\ reader # None /\ reader.more /\ pages < MaxPages /\ pages' = pages + 1
    /\ (reader.kind \in {"all", "state"} => found # None) /\ found' = None
    /\ LET sorted == Sorted(Found(reader))
           more == Len(sorted) > reader.limit
           items == IF more THEN SubSeq(sorted, 1, reader.limit) ELSE sorted
       IN reader' = [reader EXCEPT !.shown = @ \o items, !.more = more,
                       !.cursor = IF more THEN items[reader.limit] ELSE @]
    /\ UNCHANGED <<changes, beats, outages, writes, steady>>

Write == writes < MaxWrites /\ writes' = writes + 1 /\ UNCHANGED <<reader, found, pages>>

\* A confirmed change, of any instant: the check may have waited for the engine.
Record(t) ==
    /\ Write
    /\ changes' = changes \cup {[at |-> t, id |-> Cardinality(changes) + 1]}
    /\ UNCHANGED <<beats, outages, steady>>

\* A heartbeat, which the writer may have kept a while.
WriteBeat(t, o, failed) ==
    /\ Write /\ \A b \in beats : b.at # t \/ b.origin # o
    /\ beats' = beats \cup {[at |-> t, origin |-> o, failed |-> failed]}
    /\ UNCHANGED <<changes, outages, steady>>

PruneHeartbeats(t) ==
    /\ Write /\ \E b \in beats : b.at < t
    /\ beats' = {b \in beats : b.at >= t}
    /\ steady' = {e \in steady : e.rank = 1 => e.at >= t} /\ UNCHANGED <<changes, outages>>

OpenIncident ==
    /\ Write /\ \E n \in 1..(Cardinality(outages) + writes + 1) :
         /\ \A m \in outages : m < n
         /\ outages' = outages \cup {n}
    /\ UNCHANGED <<changes, beats, steady>>

\* With its monitor.
DeleteIncident(n) ==
    /\ Write /\ outages' = outages \ {n}
    /\ steady' = steady \ {Outage(n)} /\ UNCHANGED <<changes, beats>>

Init ==
    /\ \E s \in Starts : changes = s.changes /\ beats = s.beats /\ outages = s.outages
    /\ reader = None /\ found = None /\ writes = 0 /\ pages = 0 /\ steady = {}

Next ==
    \/ \E kind \in {"all", "state", "failure", "outages"}, limit \in Limits,
          before \in Times \cup {None} : Begin(kind, limit, before)
    \/ ReadChanges \/ Page
    \/ \E t \in Times : \/ Record(t) \/ PruneHeartbeats(t)
                        \/ \E o \in Origins, failed \in BOOLEAN : WriteBeat(t, o, failed)
    \/ OpenIncident
    \/ \E n \in outages : DeleteIncident(n)

Spec == Init /\ [][Next]_vars
-----------------------------------------------------------------------------
TypeOK ==
    /\ \A c \in changes : c.at \in Times /\ c.id \in Nat \ {0}
    /\ \A b \in beats : b.at \in Times /\ b.origin \in Origins /\ b.failed \in BOOLEAN
    /\ outages \subseteq Nat /\ writes \in 0..MaxWrites /\ pages \in 0..MaxPages

\* Whatever is written and pruned meanwhile, no event is shown twice nor out of
\* order: a page begins after the last event of the one before it
\* (eventCursor.compare, handleMonitorEvents).
ShownOnceInOrder ==
    reader # None => \A j, k \in DOMAIN reader.shown :
        j < k => \/ reader.shown[j].at > reader.shown[k].at
                 \/ reader.shown[j].at = reader.shown[k].at
                    /\ reader.shown[j].rank <= reader.shown[k].rank
                    /\ reader.shown[j] # reader.shown[k]

\* What was there all along is shown: all of it at the end, and until then all
\* that comes before where the reader stands, however many events share an
\* instant (handleMonitorEvents, handleListIncidents).
NothingSkipped ==
    reader # None => \A e \in steady :
        /\ CASE reader.kind = "state" -> e.rank = 0
             [] reader.kind = "failure" -> e.rank = 1
             [] OTHER -> TRUE
        /\ reader.before # None => e.at < reader.before
        /\ reader.more => reader.cursor # None /\ ~ Precedes(reader.cursor, e)
        => \E k \in DOMAIN reader.shown : reader.shown[k] = e

\* A window answered up to a limit ends with its newest heartbeat, and two
\* windows side by side hold each heartbeat once (QueryHeartbeats, Contains).
WindowsEndNow ==
    \A to \in Times : \A from \in {t \in Times : t < to} :
        LET of(limit) == Heartbeats(from, to, FALSE, None, limit)
            all == {b \in beats : from <= b.at /\ b.at < to}
        IN /\ \A limit \in Limits : \A b \in all : \E c \in of(limit) : b.at <= c.at
           /\ \A mid \in from..to :
                LET n == Cardinality(beats)
                    left == Heartbeats(from, mid, FALSE, None, n)
                    right == Heartbeats(mid, to, FALSE, None, n)
                IN left \cap right = {} /\ left \cup right = all

TimelineSound == ShownOnceInOrder /\ NothingSkipped /\ WindowsEndNow
=============================================================================
