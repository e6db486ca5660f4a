------------------------------ MODULE Topology ------------------------------
(***************************************************************************)
(* The monitors, their groups and what each depends on, as the API edits   *)
(* them: several requests at a time, each of which reads, decides on what  *)
(* it read, writes in one transaction with conditions of its own, and      *)
(* tells the scheduler.  What an account may reach is left to Events and   *)
(* Accounts: here any request may be refused for it.                       *)
(***************************************************************************)
EXTENDS Naturals, FiniteSets

CONSTANTS
    Monitors, Groups,
    Clients,        \* requests in flight
    None,           \* no group, no parent
    Absent,         \* not there yet, or not in the scheduler
    Deleted,        \* gone: an id is not given twice
    Known,          \* the monitors and groups there are at the start
    Bodies, Batches,    \* bound: what the requests carry
    MaxRequests     \* bound: the number of requests

VARIABLES
    group,          \* table monitor_group: the parent of each group
    monitor,        \* table monitor
    running,        \* what the scheduler holds of each monitor
    request,
    requests,
    overlapped      \* ghost: two requests were in flight together

vars == <<group, monitor, running, request, requests, overlapped>>

Row == [group: Groups \cup {None}, parent: Monitors \cup {None}, on: BOOLEAN]
Idle == [step |-> "idle"]

Live(m) == monitor[m] \notin {Absent, Deleted}
Exists(g) == group[g] \notin {Absent, Deleted}

TypeOK ==
    /\ group \in [Groups -> Groups \cup {None, Absent, Deleted}]
    /\ monitor \in [Monitors -> Row \cup {Absent, Deleted}]
    /\ running \in [Monitors -> Row \cup {Absent}]
    /\ \A c \in Clients : request[c].step \in
         {"idle", "guard", "place", "parent", "kids", "climb", "room", "write", "reread", "tell"}
    /\ requests \in 0..MaxRequests /\ overlapped \in BOOLEAN

\* Groups of the top, and monitors in none of them.
Init ==
    /\ group = [g \in Groups |-> IF g \in Known THEN None ELSE Absent]
    /\ monitor = [m \in Monitors |->
         IF m \in Known THEN [group |-> None, parent |-> None, on |-> TRUE] ELSE Absent]
    /\ running = monitor
    /\ request = [c \in Clients |-> Idle]
    /\ requests = 0 /\ overlapped = FALSE

-----------------------------------------------------------------------------
(***************************************************************************)
(* Reading and deciding.                                                   *)
(***************************************************************************)
\* GroupTree, on the tree the middleware read.
IsLeaf(tree, g) == tree[g] \notin {Absent, Deleted} /\ \A x \in Groups : tree[x] # g

\* checkMonitorPlacement: a monitor lives in a leaf, or in no group.
MayHold(tree, g) == g = None \/ IsLeaf(tree, g)

\* CheckPlacement: two levels.
MayNest(tree, g, up) ==
    up = None \/ (up # g /\ tree[up] = None /\ \A x \in Groups : tree[x] # g)

\* Mutant of Climbs: only the parent itself is looked at.
ClimbsNever(m, at, seen) == FALSE

\* ParentCycle: up the parents, until the top, the monitor, or a cycle of others.
Climbs(m, at, seen) == at # m /\ at # None /\ at \notin seen

\* A new request: the middleware reads the groups.
Receive(c) ==
    LET Begin(r) == request' = [request EXCEPT ![c] = r]
    IN /\ request[c].step = "idle" /\ requests < MaxRequests
       /\ \/ \E m \in Monitors, row \in Bodies :
               /\ monitor[m] = Absent
               /\ Begin([step |-> "place", kind |-> "create", id |-> m, body |-> row, tree |-> group])
          \/ \E m \in Monitors, row \in Bodies :
               Begin([step |-> "guard", kind |-> "update", id |-> m, body |-> row, tree |-> group])
          \/ \E m \in Monitors : Begin([step |-> "guard", kind |-> "delete", id |-> m])
          \/ \E m \in Monitors, kids \in Batches :
               Begin([step |-> "guard", kind |-> "children", id |-> m, kids |-> kids])
          \/ \E m, k \in Monitors :
               Begin([step |-> "guard", kind |-> "unlink", id |-> m, kids |-> {k}])
          \/ \E g \in Groups, up \in Groups \cup {None} :
               /\ group[g] # Deleted
               /\ Begin([step |-> "place", kind |-> "group", id |-> g, up |-> up, tree |-> group])
          \/ \E g \in Groups : Begin([step |-> "write", kind |-> "drop", id |-> g])
       /\ requests' = requests + 1
       /\ overlapped' = (overlapped \/ \E d \in Clients : request[d].step # "idle")
       /\ UNCHANGED <<group, monitor, running>>

To(c, step) == request' = [request EXCEPT ![c].step = step]
End(c) == request' = [request EXCEPT ![c] = Idle]
Reads == UNCHANGED <<group, monitor, running, requests, overlapped>>

\* guardMonitor.
Guard(c) ==
    LET r == request[c] IN
    /\ r.step = "guard"
    /\ \/ End(c)                        \* out of the account's scope
       \/ /\ Live(r.id)
          /\ To(c, CASE r.kind = "update" -> "place" [] r.kind = "delete" -> "write"
                     [] OTHER -> "kids")
    /\ Reads

\* validateMonitor, checkMonitorPlacement; placeGroup on the tree as read.
Place(c) ==
    LET r == request[c] IN
    /\ r.step = "place"
    /\ IF r.kind = "group"
         THEN IF ~ MayNest(r.tree, r.id, r.up) THEN End(c)
              ELSE To(c, IF r.up = None \/ r.tree[r.id] = r.up THEN "write" ELSE "room")
         ELSE IF r.body.parent = r.id \/ ~ MayHold(r.tree, r.body.group) THEN End(c)
              ELSE To(c, "parent")
    /\ Reads

\* placeGroup: the new parent has no monitors of its own.
Room(c) ==
    LET r == request[c] IN
    /\ r.step = "room"
    /\ IF \E m \in Monitors : Live(m) /\ monitor[m].group = r.up THEN End(c) ELSE To(c, "write")
    /\ Reads

\* checkMonitorParent; only an update looks for a cycle.
Parent(c) ==
    LET r == request[c] IN
    /\ r.step = "parent"
    /\ IF r.body.parent # None /\ ~ Live(r.body.parent) THEN End(c)
       ELSE request' = [request EXCEPT ![c] =
              [step |-> IF r.kind = "update" THEN "climb" ELSE "write", kind |-> r.kind,
               id |-> r.id, body |-> r.body, kids |-> {r.id}, at |-> r.body.parent, seen |-> {}]]
    /\ Reads

\* handleSetChildren reads each of the children; handleUnlinkChild, that its
\* child hangs from this parent.
Kids(c) ==
    LET r == request[c] IN
    /\ r.step = "kids"
    /\ IF \/ \E k \in r.kids : ~ Live(k)
          \/ r.kind = "unlink" /\ \E k \in r.kids : monitor[k].parent # r.id
       THEN End(c)
       ELSE request' = [request EXCEPT ![c] =
              [step |-> IF r.kind = "unlink" THEN "write" ELSE "climb", kind |-> r.kind,
               id |-> r.id, kids |-> r.kids, left |-> r.kids, at |-> r.id, seen |-> {}]]
    /\ Reads

\* One lookup of the climb, for the monitor of an update or for one child
\* after another.  A monitor that is gone ends the climb.
Climb(c) ==
    LET r == request[c]
        k == IF r.kind = "update" THEN r.id ELSE CHOOSE x \in r.left : TRUE
    IN /\ r.step = "climb"
       /\ IF r.at = k THEN End(c)
          ELSE IF Climbs(k, r.at, r.seen) /\ Live(r.at)
            THEN request' = [request EXCEPT ![c].at = monitor[r.at].parent,
                                            ![c].seen = @ \cup {r.at}]
          ELSE IF r.kind = "update" \/ r.left = {k} THEN To(c, "write")
          ELSE request' = [request EXCEPT ![c].at = r.id, ![c].seen = {}, ![c].left = @ \ {k}]
       /\ Reads

-----------------------------------------------------------------------------
(***************************************************************************)
(* Writing: one transaction, with the conditions of its statements.        *)
(***************************************************************************)
\* Mutant of Fits: the tree of the request is enough.
FitsAsRead(g, up) == TRUE

\* parentIsTopLevel, and no environments below a group that gains a parent.
Fits(g, up) ==
    up = None \/ (up # g /\ group[up] = None /\ \A x \in Groups : group[x] # g)

\* Mutant of Empty: a group without environments may go.
EmptyOfGroups(g) == \A x \in Groups : group[x] # g

\* The conditions of the deletion of a group.
Empty(g) ==
    /\ \A x \in Groups : group[x] # g
    /\ \A m \in Monitors : Live(m) => monitor[m].group # g

\* groupExists and the foreign key of the parent.
Holds(row) ==
    /\ row.group # None => Exists(row.group)
    /\ row.parent # None => Live(row.parent)

WriteMonitor(c) ==
    LET r == request[c] IN
    /\ r.step = "write" /\ r.kind \in {"create", "update"}
    /\ IF Holds(r.body) /\ (IF r.kind = "update" THEN Live(r.id) ELSE monitor[r.id] = Absent)
         THEN /\ monitor' = [monitor EXCEPT ![r.id] = r.body]
              /\ request' = [request EXCEPT ![c] =
                   IF r.kind = "update"
                     THEN [step |-> "reread", kind |-> "update", left |-> {r.id}]
                     ELSE [step |-> "tell", kind |-> "create", left |-> {},
                           id |-> r.id, row |-> r.body]]
         ELSE End(c) /\ UNCHANGED monitor
    /\ UNCHANGED <<group, running, requests, overlapped>>

\* The children of a deleted monitor lose their parent (ON DELETE SET NULL).
Delete(c) ==
    LET r == request[c] IN
    /\ r.step = "write" /\ r.kind = "delete"
    /\ IF Live(r.id)
         THEN /\ monitor' = [m \in Monitors |->
                   IF m = r.id THEN Deleted
                   ELSE IF Live(m) /\ monitor[m].parent = r.id
                     THEN [monitor[m] EXCEPT !.parent = None] ELSE monitor[m]]
              /\ request' = [request EXCEPT ![c] =
                   [step |-> "tell", kind |-> "delete", left |-> {}, id |-> r.id, row |-> Absent]]
         ELSE End(c) /\ UNCHANGED monitor
    /\ UNCHANGED <<group, running, requests, overlapped>>

\* SetParent: all of them or none.
SetParent(c) ==
    LET r  == request[c]
        up == IF r.kind = "children" THEN r.id ELSE None
    IN /\ r.step = "write" /\ r.kind \in {"children", "unlink"}
       /\ IF (up # None => Live(up)) /\ \A k \in r.kids : Live(k)
            THEN /\ monitor' = [m \in Monitors |->
                      IF m \in r.kids THEN [monitor[m] EXCEPT !.parent = up] ELSE monitor[m]]
                 /\ request' = [request EXCEPT ![c] =
                      [step |-> "reread", kind |-> r.kind, left |-> r.kids]]
            ELSE End(c) /\ UNCHANGED monitor
       /\ UNCHANGED <<group, running, requests, overlapped>>

\* Create or Update of a group, under the lock of the groups it names.
WriteGroup(c) ==
    LET r == request[c] IN
    /\ r.step = "write" /\ r.kind = "group"
    /\ group' = IF /\ r.up # None => Exists(r.up)
                   /\ IF r.tree[r.id] = Absent THEN group[r.id] = Absent ELSE Exists(r.id)
                   /\ Fits(r.id, r.up)
                THEN [group EXCEPT ![r.id] = r.up] ELSE group
    /\ End(c)
    /\ UNCHANGED <<monitor, running, requests, overlapped>>

DropGroup(c) ==
    LET r == request[c] IN
    /\ r.step = "write" /\ r.kind = "drop"
    /\ group' = IF Exists(r.id) /\ Empty(r.id) THEN [group EXCEPT ![r.id] = Deleted] ELSE group
    /\ End(c)
    /\ UNCHANGED <<monitor, running, requests, overlapped>>

-----------------------------------------------------------------------------
(***************************************************************************)
(* Telling the scheduler.                                                  *)
(***************************************************************************)
\* Each monitor is read again ...
Reread(c) ==
    LET r == request[c]
        k == CHOOSE x \in r.left : TRUE
    IN /\ r.step = "reread"
       /\ IF Live(k)
            THEN request' = [request EXCEPT ![c] =
                   [step |-> "tell", kind |-> r.kind, left |-> r.left \ {k}, id |-> k,
                    row |-> monitor[k]]]
            ELSE End(c)
       /\ Reads

\* Mutant of Told: a paused monitor stays in the queue.
ToldAsIs(row) == row

\* Upsert and Remove: a paused monitor leaves the queue.
Told(row) == IF row = Absent THEN Absent ELSE IF row.on THEN row ELSE Absent

\* ... and handed over.
Tell(c) ==
    LET r == request[c] IN
    /\ r.step = "tell"
    /\ running' = [running EXCEPT ![r.id] = Told(r.row)]
    /\ IF r.left = {} THEN End(c)
       ELSE request' = [request EXCEPT ![c] = [step |-> "reread", kind |-> r.kind, left |-> r.left]]
    /\ UNCHANGED <<group, monitor, requests, overlapped>>

Next == \E c \in Clients :
    \/ Receive(c) \/ Guard(c) \/ Place(c) \/ Room(c) \/ Parent(c) \/ Kids(c) \/ Climb(c)
    \/ WriteMonitor(c) \/ Delete(c) \/ SetParent(c) \/ WriteGroup(c) \/ DropGroup(c)
    \/ Reread(c) \/ Tell(c)

Spec == Init /\ [][Next]_vars

-----------------------------------------------------------------------------
\* Two levels of groups whatever the requests that overlap: the condition is
\* in the statement that writes (sqlstore/group.go Create, Update).
TwoLevels ==
    \A g \in Groups : group[g] \in Groups => group[group[g]] = None

\* No monitor points at a group or a parent that is gone, although the group
\* of a monitor has no foreign key in SQLite (sqlstore/monitor.go, group.go).
NoOrphans ==
    \A m \in Monitors : Live(m) => Holds(monitor[m])

\* Dependencies never form a cycle, one request at a time (ParentCycle).  Two
\* that overlap may form one: the engine stops climbing in a cycle.
NoCycle ==
    ~ overlapped => \A M \in SUBSET {m \in Monitors : Live(m)} :
        M # {} => \E m \in M : monitor[m].parent \notin M

\* A monitor lives in a leaf, one request at a time.
MonitorsOnLeaves ==
    ~ overlapped => \A m \in Monitors : Live(m) => MayHold(group, monitor[m].group)

\* With no request in flight the scheduler runs what is stored and switched
\* on, but for a parent that is gone, one request at a time.
SchedulerFollowsStore ==
    (~ overlapped /\ \A c \in Clients : request[c].step = "idle") =>
        \A m \in Monitors :
            IF ~ Live(m) \/ ~ monitor[m].on THEN running[m] = Absent
            ELSE /\ running[m] # Absent
                 /\ [running[m] EXCEPT !.parent = None] = [monitor[m] EXCEPT !.parent = None]
                 /\ \/ running[m].parent = monitor[m].parent
                    \/ monitor[m].parent = None /\ ~ Live(running[m].parent)

TopologySound ==
    TwoLevels /\ NoOrphans /\ NoCycle /\ MonitorsOnLeaves /\ SchedulerFollowsStore
=============================================================================
