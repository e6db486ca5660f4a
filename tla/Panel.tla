-------------------------------- MODULE Panel --------------------------------
(***************************************************************************)
(* What the first screen shows: the cards of the groups, the problems of   *)
(* the moment and the summary of each monitor (handleGroupSummary,         *)
(* handleProblems, handleSummaries), each put together from queries of its *)
(* own, some of them page by page, while the engine confirms states and    *)
(* others edit monitors.  A monitor that an ancestor silences              *)
(* (domain.DownAncestor) is a problem of the ancestor, which the account   *)
(* may not see.                                                            *)
(***************************************************************************)
EXTENDS Integers, Sequences, FiniteSets, SequencesExt

CONSTANTS
    None,
    Gone,           \* a monitor that was deleted
    Ids,            \* of the monitors, in the order they were created
    Over,           \* the group over each group
    Viewers,        \* [all, reach]: accounts, resolved
    Starts,         \* [monitor, status]: the tables at the start
    Rows,           \* bound: what an edit leaves of a monitor
    PageSize,       \* MaxPageSize
    MaxRequests, MaxChanges     \* bounds

VARIABLES
    monitor,        \* table monitor: group, parent and whether it is enabled
    status,         \* table monitor_state
    beat,           \* the latest heartbeat of each: a failure with its cause told,
                    \* or silent of one
    incident,       \* table incident, by id
    due,            \* what a confirmed state has yet to do to the incidents
    request, requests, changes,
    steady          \* ghost: the monitors nothing touched since the request began

vars == <<monitor, status, beat, incident, due, request, requests, changes, steady>>
tables == <<monitor, status, beat, incident, due>>

Groups == DOMAIN Over
InOrder(set) == SetToSortSeq(set, LAMBDA a, b : a < b)
Idle == [step |-> "idle"]
Live(i) == monitor[i] # Gone
Open(i) == {k \in DOMAIN incident : incident[k].of = i /\ incident[k].open}
-----------------------------------------------------------------------------
(***************************************************************************)
(* What is made of what was read.  A list is a sequence of ids with the    *)
(* rows they had; states and silence are functions.                        *)
(***************************************************************************)
\* Access.MonitorGroup, groupCondition: no group is for whoever reaches all.
Sees(v, row) == v.all \/ row.group \in v.reach

\* Mutant of Climb: a paused ancestor silences too.
ClimbPaused(rows, states, m) ==
    LET p == rows[m].parent
    IN IF p \notin {None, m} \cup (Ids \ DOMAIN rows) /\ states[p] = "down" THEN p ELSE None

\* DownAncestor: the nearest ancestor that is enabled and down.
Climb(rows, states, m) ==
    LET above[k \in 0..Cardinality(Ids), p \in Ids \cup {None}] ==
          IF k = 0 \/ p \in {None, m} \/ p \notin DOMAIN rows THEN None
          ELSE IF rows[p].on /\ states[p] = "down" THEN p
          ELSE above[k - 1, rows[p].parent]
    IN above[Cardinality(Ids), rows[m].parent]

\* silenced: who silences each enabled monitor.
Silence(rows, states) ==
    [m \in DOMAIN rows |-> IF rows[m].on THEN Climb(rows, states, m) ELSE None]

Silenced(sil, m) == m \in DOMAIN sil /\ sil[m] # None

\* Mutant of Shown: whatever is not up is a problem.
ShownAll(e, states, sil) == e.row.on /\ states[e.id] # "up"

\* handleProblems: neither up, nor paused, nor silenced.
Shown(e, states, sil) == e.row.on /\ states[e.id] # "up" /\ ~ Silenced(sil, e.id)

Problems(list, states, sil) == SelectSeq(list, LAMBDA e : Shown(e, states, sil))

\* The entries of a card: of the group and of those under it.
Within(list, g) ==
    SelectSeq(list, LAMBDA e : e.row.group = g \/ (e.row.group # None /\ Over[e.row.group] = g))
Ungrouped(list) == SelectSeq(list, LAMBDA e : e.row.group = None)

\* groupSummary.add.
Class(e, states, sil) ==
    IF ~ e.row.on THEN "paused" ELSE IF Silenced(sil, e.id) THEN "affected" ELSE states[e.id]
Number(list, states, sil, class) ==
    Cardinality({k \in DOMAIN list : Class(list[k], states, sil) = class})

Severity == [unknown |-> 2, up |-> 1, degraded |-> 3, down |-> 4]

\* Mutant of Status: a card of silenced monitors is green.
StatusGreen(list, states, sil) ==
    IF list = <<>> THEN "empty"
    ELSE LET measured == {states[list[k].id] : k \in {j \in DOMAIN list :
                              Class(list[j], states, sil) \notin {"paused", "affected"}}}
         IN IF measured = {} THEN "up"
            ELSE CHOOSE s \in measured : \A t \in measured : Severity[t] <= Severity[s]

\* groupSummary.close: the worst of the enabled, a silenced one unmeasured.
Status(list, states, sil) ==
    LET all == {Class(list[k], states, sil) : k \in DOMAIN list} \ {"paused"}
        seen == {IF c = "affected" THEN "unknown" ELSE c : c \in all}
    IN IF list = <<>> THEN "empty"
       ELSE IF seen = {} THEN "unknown"
       ELSE CHOOSE s \in seen : \A t \in seen : Severity[t] <= Severity[s]

ProblemsOf(list, states, sil) ==
    Number(list, states, sil, "down") + Number(list, states, sil, "degraded")
        + Number(list, states, sil, "unknown")
-----------------------------------------------------------------------------
(***************************************************************************)
(* The queries.                                                            *)
(***************************************************************************)
\* List asks for one more than the limit.
More(found) == Len(found) > PageSize

\* Mutant of PageOf: the last row is taken off, one too many or not.
PageCut(found) ==
    SubSeq(found, 1, IF More(found) THEN PageSize ELSE IF found = <<>> THEN 0 ELSE Len(found) - 1)
PageOf(found) == SubSeq(found, 1, IF More(found) THEN PageSize ELSE Len(found))

\* monitorRepo.List: by id, after the last one seen, of the groups selected.
Found(v, enabled, after) ==
    LET ids == {i \in Ids : i > after /\ Live(i) /\ Sees(v, monitor[i]) /\ (enabled => monitor[i].on)}
    IN [k \in 1..Cardinality(ids) |->
          LET i == InOrder(ids)[k] IN [id |-> i, row |-> monitor[i]]]

\* incidentRepo.List: those open, the newest first, before the last one seen.
FoundOpen(v, before) ==
    LET ks == {k \in DOMAIN incident : /\ incident[k].open /\ (before # 0 => k < before)
                                       /\ Live(incident[k].of) /\ Sees(v, monitor[incident[k].of])}
    IN Reverse(InOrder(ks))

Goes(r) == request' = r
Reads == UNCHANGED <<tables, requests, changes, steady>>

Everyone == [all |-> TRUE, reach |-> {}]

Begin(v, kind) ==
    /\ request.step \in {"idle", "answered"} /\ requests < MaxRequests /\ requests' = requests + 1
    /\ Goes([step |-> "list", kind |-> kind, v |-> v, after |-> 0, list |-> <<>>])
    /\ steady' = {i \in Ids : Live(i)} /\ UNCHANGED <<tables, changes>>

\* listAllMonitors, of the scope.
ReadList ==
    LET r == request
        found == Found(r.v, r.kind = "problems", r.after)
        next == [r EXCEPT !.list = @ \o PageOf(found)]
    IN /\ r.step = "list"
       /\ Goes(IF More(found) THEN [next EXCEPT !.after = Last(next.list).id]
                              ELSE [next EXCEPT !.step = "states"])
       /\ Reads

\* States().All: no row is no measurement.
ReadStates ==
    /\ request.step = "states"
    /\ Goes([step |-> "beats", kind |-> request.kind, v |-> request.v, list |-> request.list,
             states |-> [i \in Ids |-> IF Live(i) THEN status[i] ELSE "unknown"]])
    /\ Reads

\* LatestHeartbeats, for those who show it.
ReadBeats ==
    /\ request.step = "beats"
    /\ Goes([step |-> "all", kind |-> request.kind, v |-> request.v, list |-> request.list,
             states |-> request.states, beats |-> beat, after |-> 0, all |-> <<>>])
    /\ Reads

\* Mutant of Whose: the ancestors are looked for in the scope.
WhoseScope(v) == v

\* silenced lists every monitor, of whatever group.
Whose(v) == Everyone

ReadAll ==
    LET r == request
        found == Found(Whose(r.v), FALSE, r.after)
        next == [r EXCEPT !.all = @ \o PageOf(found)]
        rows == [i \in {next.all[k].id : k \in DOMAIN next.all} |->
                   next.all[CHOOSE k \in DOMAIN next.all : next.all[k].id = i].row]
    IN /\ r.step = "all"
       /\ Goes(IF More(found) THEN [next EXCEPT !.after = Last(next.all).id]
               ELSE [step |-> IF r.kind = "cards" THEN "answered" ELSE "open", kind |-> r.kind,
                     v |-> r.v, list |-> r.list, states |-> r.states, beats |-> r.beats,
                     sil |-> Silence(rows, r.states), before |-> 0, open |-> <<>>, more |-> FALSE,
                     cause |-> [i \in Ids |-> 0]])
       /\ Reads

\* handleProblems reads one page; acknowledged reads them all.
ReadOpen ==
    LET r == request
        found == FoundOpen(r.v, r.before)
        next == [r EXCEPT !.open = @ \o [k \in DOMAIN PageOf(found) |->
                   [id |-> found[k], of |-> incident[found[k]].of, acked |-> incident[found[k]].acked]]]
    IN /\ r.step = "open"
       /\ Goes(IF r.kind = "problems"
                 THEN [next EXCEPT !.step = "cause", !.more = More(found),
                         !.cause = [i \in Ids |->
                            LET ks == {k \in DOMAIN next.open : next.open[k].of = i}
                            IN IF ks = {} THEN 0 ELSE next.open[CHOOSE k \in ks : TRUE].id]]
               ELSE IF More(found) THEN [next EXCEPT !.before = Last(next.open).id]
               ELSE [next EXCEPT !.step = "answered"])
       /\ Reads

\* Mutant of Unfound: what is not on the page has no cause.
UnfoundNever(r) == {}

\* The rows the page of incidents says nothing of, if there were more.
Unfound(r) ==
    {i \in Ids : /\ r.more /\ r.cause[i] = 0 /\ r.beats[i] # "told"
                 /\ \E k \in DOMAIN r.list : r.list[k].id = i /\ Shown(r.list[k], r.states, r.sil)}

\* Incidents().Current, one by one.
ReadCause ==
    LET r == request IN
    /\ r.step = "cause"
    /\ IF Unfound(r) = {} THEN Goes([r EXCEPT !.step = "answered"])
       ELSE LET i == CHOOSE j \in Unfound(r) : \A k \in Unfound(r) : j <= k
                found == CHOOSE k \in Open(i) \cup {-1} : Open(i) # {} => k # -1
            IN Goes([r EXCEPT !.cause[i] = IF found = -1 THEN None ELSE found])
    /\ Reads
-----------------------------------------------------------------------------
(***************************************************************************)
(* The engine, the writer, the people.                                     *)
(***************************************************************************)
Touch(i, touched) ==
    /\ Live(i) /\ changes < MaxChanges /\ changes' = changes + 1
    /\ steady' = steady \ touched /\ UNCHANGED <<request, requests>>

Change(i) == Touch(i, {i})

\* A state confirmed and saved; an outage has its incident opened after, and
\* what ends one closes it.
Confirm(i, st) ==
    /\ Change(i) /\ due[i] = "nothing" /\ st # status[i]
    /\ status' = [status EXCEPT ![i] = st]
    /\ due' = [due EXCEPT ![i] = IF st = "down" THEN "open"
                                 ELSE IF status[i] = "down" THEN "resolve" ELSE "nothing"]
    /\ UNCHANGED <<monitor, beat, incident>>

\* record, which opens none where one is open.
React(i) ==
    /\ due[i] # "nothing" /\ due' = [due EXCEPT ![i] = "nothing"]
    /\ incident' = IF due[i] = "resolve"
                     THEN [k \in DOMAIN incident |->
                             [incident[k] EXCEPT !.open = @ /\ incident[k].of # i]]
                   ELSE IF Live(i) /\ Open(i) = {}
                     THEN Append(incident, [of |-> i, open |-> TRUE, acked |-> FALSE])
                   ELSE incident
    /\ steady' = steady \ {i} /\ UNCHANGED <<monitor, status, beat, request, requests, changes>>

\* The process stops, and starts again with the states that were saved.
Stop ==
    /\ request.step # "idle" \/ \E i \in Ids : due[i] # "nothing"
    /\ due' = [i \in Ids |-> "nothing"]
    /\ request' = [step |-> "answered", kind |-> None, list |-> <<>>]
    /\ steady' = {} /\ UNCHANGED <<monitor, status, beat, incident, requests, changes>>

\* The writer writes a heartbeat: that of a failure may have no message.
Beat(i, told) ==
    /\ Change(i) /\ beat[i] # told /\ beat' = [beat EXCEPT ![i] = told]
    /\ UNCHANGED <<monitor, status, incident, due>>

Acknowledge(i) ==
    /\ Change(i)
    /\ \E k \in Open(i) : ~ incident[k].acked /\ incident' = [incident EXCEPT ![k].acked = TRUE]
    /\ UNCHANGED <<monitor, status, beat, due>>

\* No cycle of parents (Topology says when there may be one).
Rooted(rows) == \A i \in Ids : rows[i] # Gone =>
    LET up[k \in 0..Cardinality(Ids), p \in Ids \cup {None}] ==
          IF p = None THEN TRUE ELSE IF k = 0 THEN FALSE
          ELSE rows[p] = Gone \/ up[k - 1, rows[p].parent]
    IN up[Cardinality(Ids), i]

Edit(i, row) ==
    /\ Change(i) /\ row # monitor[i]
    /\ monitor' = [monitor EXCEPT ![i] = row] /\ Rooted(monitor')
    /\ UNCHANGED <<status, beat, incident, due>>

\* With its state and incidents; those under it are left with no parent.
Delete(i) ==
    /\ Touch(i, {i} \cup {j \in Ids : Live(j) /\ monitor[j].parent = i})
    /\ monitor' = [j \in Ids |-> IF j = i THEN Gone
                    ELSE IF Live(j) /\ monitor[j].parent = i THEN [monitor[j] EXCEPT !.parent = None]
                    ELSE monitor[j]]
    /\ incident' = [k \in DOMAIN incident |->
                      [incident[k] EXCEPT !.open = @ /\ incident[k].of # i]]
    /\ UNCHANGED <<status, beat, due>>

Init ==
    /\ \E s \in Starts : /\ Rooted(s.monitor) /\ monitor = s.monitor /\ status = s.status
                         /\ beat = [i \in Ids |-> IF s.status[i] = "down" THEN s.beat ELSE "silent"]
    /\ incident = LET down == InOrder({i \in Ids : Live(i) /\ status[i] = "down"})
                  IN [k \in DOMAIN down |-> [of |-> down[k], open |-> TRUE, acked |-> k = 1]]
    /\ due = [i \in Ids |-> "nothing"]
    /\ request = Idle /\ requests = 0 /\ changes = 0 /\ steady = {}

Next ==
    \/ \E v \in Viewers, kind \in {"problems", "cards", "summaries"} : Begin(v, kind)
    \/ ReadList \/ ReadStates \/ ReadBeats \/ ReadAll \/ ReadOpen \/ ReadCause
    \/ Stop
    \/ \E i \in Ids :
         \/ \E st \in DOMAIN Severity : Confirm(i, st)
         \/ React(i) \/ Acknowledge(i) \/ Delete(i)
         \/ \E told \in {"told", "silent"} : Beat(i, told)
         \/ \E row \in Rows : Edit(i, row)

Spec == Init /\ [][Next]_vars
-----------------------------------------------------------------------------
TypeOK ==
    /\ \A i \in Ids : Live(i) => /\ monitor[i].group \in Groups \cup {None}
                                 /\ monitor[i].parent \in Ids \cup {None}
                                 /\ monitor[i].on \in BOOLEAN
    /\ \A i \in Ids : status[i] \in DOMAIN Severity /\ beat[i] \in {"told", "silent"}
                         /\ due[i] \in {"nothing", "open", "resolve"} /\ Cardinality(Open(i)) <= 1
    /\ request.step \in {"idle", "list", "states", "beats", "all", "open", "cause", "answered"}
    /\ requests \in 0..MaxRequests /\ changes \in 0..MaxChanges

\* What is stored, as a request would read it if nothing moved.
RowsNow == [i \in {j \in Ids : Live(j)} |-> monitor[i]]
ListNow(v) ==
    LET ids == InOrder({i \in Ids : Live(i) /\ Sees(v, monitor[i])})
    IN [k \in DOMAIN ids |-> [id |-> ids[k], row |-> monitor[ids[k]]]]
SilenceNow == Silence(RowsNow, status)
ShownNow(i) == Shown([id |-> i, row |-> monitor[i]], status, SilenceNow)

\* The cards count each problem once, in its group or in none, and as many as
\* the list shows (handleGroupSummary, handleProblems).
CardsAddUp ==
    \A v \in Viewers :
        LET list == ListNow(v)
            Of(part) == ProblemsOf(part, status, SilenceNow)
            leaves == {g \in Groups : \A h \in Groups : Over[h] # g}
            sums[gs \in SUBSET leaves] ==
              IF gs = {} THEN 0
              ELSE LET g == CHOOSE h \in gs : TRUE IN Of(Within(list, g)) + sums[gs \ {g}]
        IN Len(Problems(list, status, SilenceNow)) = sums[leaves] + Of(Ungrouped(list))

\* A card is green only if all that is measured in it is up and nothing in it
\* waits for something else (groupSummary.add and close).
GreenIsUp ==
    \A v \in Viewers : \A g \in Groups :
        LET part == Within(ListNow(v), g) IN
        Status(part, status, SilenceNow) = "up" =>
            /\ \A k \in DOMAIN part : part[k].row.on =>
                 status[part[k].id] = "up" /\ ~ Silenced(SilenceNow, part[k].id)
            /\ \E k \in DOMAIN part : part[k].row.on

\* What an outage silences does not vanish with it: above each monitor that is
\* silenced there is a problem that whoever sees all is shown (DownAncestor).
SilenceHasACause ==
    LET above[k \in 0..Cardinality(Ids), i \in Ids] ==
          IF k = 0 \/ SilenceNow[i] = None THEN i ELSE above[k - 1, SilenceNow[i]]
    IN \A i \in DOMAIN SilenceNow : SilenceNow[i] # None =>
         LET top == above[Cardinality(Ids), i]
         IN ShownNow(top) /\ status[top] = "down"

\* A monitor's ancestors and itself.
Line(i) ==
    LET up[k \in 0..Cardinality(Ids), p \in Ids \cup {None}] ==
          IF k = 0 \/ p = None THEN {}
          ELSE {p} \cup (IF monitor[p] = Gone THEN {} ELSE up[k - 1, monitor[p].parent])
    IN up[Cardinality(Ids), i]

\* Whatever moved meanwhile, a monitor that did not is in the answer once, and
\* one whose ancestors did not either is shown as it is (listAllMonitors).
SteadyIsShown ==
    request.step = "answered" =>
        \A i \in steady :
            LET at == {k \in DOMAIN request.list : request.list[k].id = i}
            IN /\ Cardinality(at) =
                    IF Sees(request.v, monitor[i]) /\ (request.kind = "problems" => monitor[i].on)
                      THEN 1 ELSE 0
               /\ Line(i) \subseteq steady => \A k \in at :
                    /\ Shown(request.list[k], request.states, request.sil) = ShownNow(i)
                    /\ Silenced(request.sil, i) = Silenced(SilenceNow, i)

\* An outage whose incident is open and stayed so has its cause on its row, and
\* who saw it on its summary, however many there are (handleProblems,
\* acknowledged).
CausesAreFound ==
    request.step = "answered" =>
        \A k \in DOMAIN request.list :
            LET i == request.list[k].id IN
            i \in steady /\ Open(i) # {} =>
                /\ /\ request.kind = "problems" /\ request.beats[i] = "silent"
                   /\ Shown(request.list[k], request.states, request.sil)
                   => request.cause[i] \in Open(i)
                /\ request.kind = "summaries" => \A n \in Open(i) :
                     incident[n].acked = \E m \in DOMAIN request.open :
                        request.open[m].id = n /\ request.open[m].acked

PanelSound ==
    /\ CardsAddUp /\ GreenIsUp /\ SilenceHasACause /\ SteadyIsShown /\ CausesAreFound
=============================================================================
