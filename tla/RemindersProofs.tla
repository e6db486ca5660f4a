--------------------------- MODULE RemindersProofs ---------------------------
(***************************************************************************)
(* What the reminders promise, for any monitors, groups, people, edits,    *)
(* intervals and page sizes, with the loop, the requests, the engine and   *)
(* crashes interleaved in any order.                                       *)
(***************************************************************************)
EXTENDS Reminders, Integers, SequenceTheorems, WellFoundedInduction, TLAPS

Sorts ==
    /\ None \notin Nat /\ None \notin People /\ None \notin Ids
    /\ MaxIncidents \in Nat /\ DefaultInterval \in Nat
    /\ \A e \in Edits : e.every \in Choice /\ (e.what # "interval" => e.of \in Monitors)

-----------------------------------------------------------------------------
(***************************************************************************)
(* Types.                                                                  *)
(***************************************************************************)
LEMMA Least ==
    ASSUME NEW S \in SUBSET Nat, S # {}
    PROVE  \E n \in S : \A k \in S : n <= k
<1> DEFINE R == OpToRel(<, Nat)
<1>1. IsWellFoundedOn(R, Nat)
  BY NatLessThanWellFounded
<1>2. R = {ss \in Nat \X Nat : ss[1] < ss[2]}
  BY Zenon DEF OpToRel
<1> HIDE DEF R
<1>3. PICK n \in S : \A k \in S : ~ (<<k, n>> \in R)
  BY <1>1, WFMin
<1>4. \A k \in S : ~ (k < n)
  BY <1>2, <1>3
<1> QED
  BY <1>4

LEMMA IntervalType ==
    ASSUME Sorts, TypeOK, NEW m \in Monitors, NEW tree \in [Groups -> Choice]
    PROVE  ReminderInterval(m, tree) \in Nat
<1> DEFINE Group(n) == Above(GroupParent, GroupOf[m], n)
           Chosen == {n \in 0..(Cardinality(Groups) - 1) : Group(n) \in Groups /\ tree[Group(n)] # None}
           nearest == CHOOSE n \in Chosen : \A k \in Chosen : n <= k
<1>1. interval[m] \in Choice
  BY DEF TypeOK
<1>2. ASSUME Chosen # {} PROVE tree[Group(nearest)] \in Nat
  <2>1. Chosen \subseteq Nat
    OBVIOUS
  <2>2. \E n \in Chosen : \A k \in Chosen : n <= k
    BY <1>2, <2>1, Least
  <2>3. nearest \in Chosen
    BY <2>2
  <2>4. Group(nearest) \in Groups /\ tree[Group(nearest)] # None
    BY <2>3
  <2> QED
    BY <2>4 DEF Choice
<1> HIDE DEF Group, Chosen, nearest
<1>3. ReminderInterval(m, tree) = IF interval[m] # None THEN interval[m]
                                  ELSE IF Chosen # {} THEN tree[Group(nearest)] ELSE DefaultInterval
  BY DEF ReminderInterval, Group, Chosen, nearest
<1> QED
  BY <1>1, <1>2, <1>3 DEF Sorts, Choice

LEMMA ForgetTypes ==
    ASSUME TypeOK
    PROVE  /\ Idle \in Loops
           /\ \A read : After(read) \in Loops
<1>1. Idle \in Loops
  BY DEF Idle, Loops, Choice
<1>2. loop \in Loops
  BY DEF TypeOK
<1>3. ASSUME NEW read
      PROVE  [loop EXCEPT !.todo = loop.todo \ {read}, !.read = None, !.stage = "review", !.gap = 0] \in Loops
  BY <1>2 DEF Loops
<1> QED
  BY <1>1, <1>3 DEF After

LEMMA InitTypes ==
    ASSUME Sorts, Init
    PROVE  TypeOK
<1>1. Idle \in Loops /\ Idle.stage = "idle"
  BY DEF Idle, Loops, Choice
<1>2. incident \in Seq(Incident) /\ Len(incident) <= MaxIncidents /\ marks \in Seq(Mark)
      /\ sent \subseteq Nat
  BY DEF Init, Sorts
<1>3. request \in [People -> Asking] /\ answered \in [People -> SUBSET Ids]
      /\ ackedAt \in [Ids -> Nat \cup {None}]
  BY DEF Init, Asking, NotAsking
<1>4. /\ interval \in [Monitors \cup Groups -> Choice]
      /\ ledger \in [Monitors -> {"settled", "open", "resolve"}]
      /\ confirmed \in [Monitors -> BOOLEAN]
  BY DEF Init, Choice
<1> QED
  BY <1>1, <1>2, <1>3, <1>4 DEF Init, TypeOK

LEMMA EngineTypes ==
    ASSUME Sorts, TypeOK, NEW m \in Monitors, Confirm(m) \/ Open(m) \/ Resolve(m)
    PROVE  TypeOK'
<1>1. ledger' \in [Monitors -> {"settled", "open", "resolve"}]
  BY DEF TypeOK, Confirm, Open, Resolve
<1>2. confirmed' \in [Monitors -> BOOLEAN]
  BY DEF TypeOK, Confirm, Open, Resolve, engine
<1>3. incident' \in Seq(Incident) /\ Len(incident') <= MaxIncidents
  <2>1. CASE Open(m) /\ incident' # incident
    <3> DEFINE row == [monitor |-> m, started |-> clock, resolved |-> FALSE,
                       reminded |-> None, by |-> None]
    <3>1. row \in Incident
      BY DEF Incident, TypeOK
    <3>2. incident' = Append(incident, row) /\ Len(incident) < MaxIncidents
      BY <2>1 DEF Open
    <3> QED
      BY <3>1, <3>2 DEF TypeOK, Sorts
  <2>2. CASE Resolve(m) /\ incident' # incident
    <3> DEFINE Closed(i) == IF incident[i].monitor = m THEN [incident[i] EXCEPT !.resolved = TRUE]
                            ELSE incident[i]
    <3>1. \A i \in DOMAIN incident : Closed(i) \in Incident
      <4>1. \A i \in DOMAIN incident : incident[i] \in Incident
        BY DEF TypeOK
      <4>2. \A row \in Incident : [row EXCEPT !.resolved = TRUE] \in Incident
        BY DEF Incident
      <4> QED
        BY <4>1, <4>2
    <3>2. incident' = [i \in 1..Len(incident) |-> Closed(i)] /\ Len(incident) \in Nat
      BY <2>2 DEF Resolve, TypeOK
    <3>3. \A i \in 1..Len(incident) : Closed(i) \in Incident
      BY <3>1 DEF TypeOK
    <3> HIDE DEF Closed
    <3>4. incident' \in Seq(Incident) /\ Len(incident') = Len(incident)
      BY <3>2, <3>3
    <3> QED
      BY <3>4 DEF TypeOK
  <2> QED
    BY <2>1, <2>2 DEF TypeOK, Confirm, Open, Resolve
<1>4. UNCHANGED <<clock, watched, covered, interval, loop, request, ghosts>>
  BY DEF Confirm, Open, Resolve, engine
<1> QED
  BY <1>1, <1>2, <1>3, <1>4 DEF TypeOK, ghosts

LEMMA OperatorTypes ==
    ASSUME Sorts, TypeOK, Tick \/ Crash \/ \E e \in Edits : Operate(e)
    PROVE  TypeOK'
<1>1. CASE Tick
  BY <1>1 DEF TypeOK, Tick, engine, ghosts
<1>2. CASE Crash
  <2>1. /\ Idle \in Loops /\ Idle.stage = "idle"
        /\ request' \in [People -> Asking]
        /\ ledger' \in [Monitors -> {"settled", "open", "resolve"}]
    BY <1>2, ForgetTypes DEF Crash, Asking, NotAsking, Idle
  <2> QED
    BY <1>2, <2>1 DEF TypeOK, Crash, ghosts
<1>3. ASSUME NEW e \in Edits, Operate(e) PROVE TypeOK'
  <2>1. watched' \subseteq Monitors /\ covered' \subseteq Monitors
    BY <1>3 DEF Operate, Toggled, TypeOK, Sorts
  <2>2. interval' \in [Monitors \cup Groups -> Choice]
    BY <1>3 DEF Operate, TypeOK, Sorts
  <2> QED
    BY <1>3, <2>1, <2>2 DEF TypeOK, Operate, ghosts
<1> QED
  BY <1>1, <1>2, <1>3

LEMMA LoopTypes ==
    ASSUME Sorts, TypeOK, Loop
    PROVE  TypeOK'
<1>1. loop \in Loops /\ Idle \in Loops /\ \A read : After(read) \in Loops
  BY ForgetTypes DEF TypeOK
<1>2. loop' \in Loops
  <2>1. CASE StartTick
    BY <1>1, <2>1 DEF StartTick, Loops
  <2>2. CASE ListOpen
    <3> DEFINE ids == {i \in DOMAIN incident : /\ ~ incident[i].resolved
                                               /\ loop.before # None => i < loop.before}
               page == Newest(ids, PageSize)
               todo == loop.todo \cup {[id |-> i, row |-> incident[i]] : i \in page}
    <3>1. page \subseteq DOMAIN incident
      BY DEF Newest
    <3>2. \A i \in DOMAIN incident : i \in Ids /\ [id |-> i, row |-> incident[i]] \in Read
      BY DEF TypeOK, Ids, Read, Sorts
    <3>3. todo \in SUBSET Read /\ page \subseteq Ids
      BY <1>1, <3>1, <3>2 DEF Loops
    <3> HIDE DEF page, todo
    <3>4. \/ loop' = Idle
          \/ \E last \in page : loop' = [loop EXCEPT !.todo = todo, !.before = last]
          \/ loop' = [loop EXCEPT !.todo = todo, !.stage = "groups"]
      BY <2>2 DEF ListOpen, page, todo
    <3>5. \A last \in page : [loop EXCEPT !.todo = todo, !.before = last] \in Loops
      BY <1>1, <3>3 DEF Loops
    <3>6. [loop EXCEPT !.todo = todo, !.stage = "groups"] \in Loops
      BY <1>1, <3>3 DEF Loops
    <3> QED
      BY <1>1, <3>4, <3>5, <3>6
  <2>3. CASE ReadGroups
    <3>1. [g \in Groups |-> interval[g]] \in [Groups -> Choice] /\ clock \in Nat
      BY DEF TypeOK
    <3>2. [loop EXCEPT !.tree = [g \in Groups |-> interval[g]], !.at = clock, !.stage = "review"]
            \in Loops
      BY <1>1, <3>1 DEF Loops
    <3> QED
      BY <1>1, <2>3, <3>2 DEF ReadGroups
  <2>4. CASE Review
    <3>1. PICK read \in loop.todo :
            \/ loop' = After(read)
            \/ loop' = [loop EXCEPT !.stage = "window", !.read = read,
                                    !.gap = ReminderInterval(read.row.monitor, loop.tree)]
      BY <2>4 DEF Review
    <3>2. read \in Read /\ read.row.monitor \in Monitors /\ loop.tree \in [Groups -> Choice]
      BY <1>1 DEF Loops, Read, Incident
    <3>3. ReminderInterval(read.row.monitor, loop.tree) \in Nat
      BY <3>2, IntervalType
    <3>4. \A gap \in Nat : [loop EXCEPT !.stage = "window", !.read = read, !.gap = gap] \in Loops
      BY <1>1, <3>2 DEF Loops
    <3> QED
      BY <1>1, <3>1, <3>3, <3>4
  <2>5. CASE AskCalendar
    BY <1>1, <2>5 DEF AskCalendar, Loops
  <2>6. CASE MarkReminded
    <3>1. \/ loop' = [loop EXCEPT !.stage = "send"]
          \/ loop' = After(loop.read)
      BY <2>6 DEF MarkReminded
    <3>2. [loop EXCEPT !.stage = "send"] \in Loops
      BY <1>1 DEF Loops
    <3> QED
      BY <1>1, <3>1, <3>2
  <2>7. CASE Remind
    BY <1>1, <2>7 DEF Remind
  <2> QED
    BY <2>1, <2>2, <2>3, <2>4, <2>5, <2>6, <2>7 DEF Loop
<1>3. /\ incident' \in Seq(Incident) /\ Len(incident') <= MaxIncidents
      /\ marks' \in Seq(Mark) /\ sent' \subseteq Nat
  <2>1. CASE MarkReminded /\ marks' # marks
    <3> DEFINE i == loop.read.id
               mark == [id |-> i, at |-> loop.at, gap |-> loop.gap]
    <3>1. /\ loop.stage = "mark"
          /\ incident' = [incident EXCEPT ![i].reminded = loop.at]
          /\ marks' = Append(marks, mark) /\ UNCHANGED sent
      BY <2>1 DEF MarkReminded
    <3>2. i \in Ids /\ loop.at \in Nat /\ loop.gap \in Nat
      BY <1>1, <3>1 DEF TypeOK, Loops, Read
    <3>3. mark \in Mark
      BY <3>2 DEF Mark
    <3>4. marks' \in Seq(Mark) /\ DOMAIN marks \subseteq DOMAIN marks'
      <4> HIDE DEF mark
      <4> QED
        BY <3>1, <3>3 DEF TypeOK
    <3>5. \A row \in Incident : [row EXCEPT !.reminded = loop.at] \in Incident
      BY <3>2 DEF Incident
    <3>6. incident' \in Seq(Incident) /\ Len(incident') = Len(incident)
      <4>1. incident \in [1..Len(incident) -> Incident] /\ Len(incident) \in Nat
        BY DEF TypeOK
      <4>2. incident' = [k \in 1..Len(incident) |->
                           IF k = i THEN [incident[k] EXCEPT !.reminded = loop.at] ELSE incident[k]]
        BY <3>1, <4>1
      <4>3. \A k \in 1..Len(incident) :
              (IF k = i THEN [incident[k] EXCEPT !.reminded = loop.at] ELSE incident[k]) \in Incident
        BY <3>5, <4>1
      <4>4. incident' \in [1..Len(incident) -> Incident]
        BY <4>2, <4>3
      <4> QED
        BY <4>1, <4>4
    <3> QED
      BY <3>1, <3>4, <3>6 DEF TypeOK
  <2>2. CASE Remind
    <3>1. Len(marks) \in Nat /\ sent' \in {sent, sent \cup {Len(marks)}}
      BY <2>2 DEF TypeOK, Remind
    <3>2. sent' \subseteq Nat
      BY <3>1 DEF TypeOK
    <3> QED
      BY <2>2, <3>2 DEF TypeOK, Remind
  <2>3. CASE UNCHANGED <<incident, marks, sent>>
    BY <2>3 DEF TypeOK
  <2>4. MarkReminded => marks' # marks \/ UNCHANGED <<incident, marks, sent>>
    <3>1. marks \in Seq(Mark) => \A mark : Append(marks, mark) # marks
      OBVIOUS
    <3> QED
      BY <3>1 DEF MarkReminded, TypeOK
  <2>5. StartTick \/ ListOpen \/ ReadGroups \/ Review \/ AskCalendar
          => UNCHANGED <<incident, marks, sent>>
    BY DEF StartTick, ListOpen, ReadGroups, Review, AskCalendar
  <2> QED
    BY <2>1, <2>2, <2>3, <2>4, <2>5 DEF Loop
<1>4. UNCHANGED <<clock, engine, interval, request, answered, ackedAt>>
  BY DEF Loop, StartTick, ListOpen, ReadGroups, Review, AskCalendar, MarkReminded, Remind, LoopKeeps
<1>5. loop'.stage \in {"window", "mark", "send"} => loop'.read \in loop'.todo
  <2>1. \A read : After(read).stage \notin {"window", "mark", "send"}
    BY <1>1 DEF After, Idle, Loops
  <2>2. Idle.stage \notin {"window", "mark", "send"}
    BY DEF Idle
  <2>3. CASE StartTick \/ ListOpen \/ ReadGroups
    <3>1. loop'.stage \in {"idle", "list", "groups", "review"}
      BY <1>1, <2>2, <2>3 DEF StartTick, ListOpen, ReadGroups, Loops, Idle
    <3> QED
      BY <3>1
  <2>4. CASE Review
    BY <1>1, <2>1, <2>4 DEF Review, Loops
  <2>5. CASE AskCalendar \/ MarkReminded
    <3>1. loop.read \in loop.todo
      BY <2>5 DEF AskCalendar, MarkReminded, TypeOK
    <3>2. \/ loop' = After(loop.read)
          \/ loop' = [loop EXCEPT !.stage = "mark"]
          \/ loop' = [loop EXCEPT !.stage = "send"]
      BY <2>5 DEF AskCalendar, MarkReminded
    <3> QED
      BY <1>1, <2>1, <3>1, <3>2 DEF Loops
  <2>6. CASE Remind
    BY <2>1, <2>6 DEF Remind
  <2> QED
    BY <2>3, <2>4, <2>5, <2>6 DEF Loop
<1>6. UNCHANGED <<confirmed, watched, covered, ledger>>
  BY <1>4 DEF engine
<1> QED
  BY <1>2, <1>3, <1>4, <1>5, <1>6 DEF TypeOK

Requests(p) == (\E i \in Ids : Ask(p, i)) \/ Acknowledge(p) \/ Answer(p)

LEMMA AuthoredType ==
    ASSUME TypeOK, NEW i, NEW p \in People
    PROVE  /\ [incident EXCEPT ![i].by = p] \in Seq(Incident)
           /\ Len([incident EXCEPT ![i].by = p]) = Len(incident)
<1> DEFINE new == [incident EXCEPT ![i].by = p]
<1>1. incident \in [1..Len(incident) -> Incident] /\ Len(incident) \in Nat
  BY DEF TypeOK
<1>2. \A row \in Incident : [row EXCEPT !.by = p] \in Incident
  BY DEF Incident
<1>3. new = [k \in 1..Len(incident) |->
               IF k = i THEN [incident[k] EXCEPT !.by = p] ELSE incident[k]]
  BY <1>1
<1>4. \A k \in 1..Len(incident) :
        (IF k = i THEN [incident[k] EXCEPT !.by = p] ELSE incident[k]) \in Incident
  BY <1>1, <1>2
<1>5. new \in [1..Len(incident) -> Incident]
  BY <1>3, <1>4
<1> QED
  BY <1>1, <1>5

LEMMA RequestTypes ==
    ASSUME Sorts, TypeOK, NEW p \in People, Requests(p)
    PROVE  TypeOK'
<1>1. UNCHANGED <<clock, engine, interval, loop, marks, sent, edits>>
  BY DEF Requests, Ask, Acknowledge, Answer, RequestKeeps
<1>2. request \in [People -> Asking] /\ request[p] \in Asking /\ answered \in [People -> SUBSET Ids]
      /\ ackedAt \in [Ids -> Nat \cup {None}] /\ Len(marks) \in Nat
  BY DEF TypeOK
<1>3. request' \in [People -> Asking]
  <2>1. \A i \in Ids : [stage |-> "checked", id |-> i, rows |-> 0] \in Asking
    BY DEF Asking
  <2>2. NotAsking \in Asking
    BY DEF Asking
  <2>3. ASSUME request[p].stage = "checked", NEW n \in 0..1
        PROVE  [request[p] EXCEPT !.stage = "written", !.rows = n] \in Asking
    <3>1. request[p] \in [stage: {"checked", "written"}, id: Ids, rows: 0..1]
      BY <1>2, <2>3 DEF Asking, NotAsking
    <3>2. [request[p] EXCEPT !.stage = "written", !.rows = n]
            \in [stage: {"checked", "written"}, id: Ids, rows: 0..1]
      BY <3>1
    <3> QED
      BY <3>2 DEF Asking
  <2>4. CASE Acknowledge(p)
    <3>1. request[p].stage = "checked" /\ request[p].rows \in 0..1 /\ 1 \in 0..1
      BY <1>2, <2>4 DEF Acknowledge, Asking, NotAsking
    <3>2. \/ request' = [request EXCEPT ![p] = [request[p] EXCEPT !.stage = "written", !.rows = 1]]
          \/ request' = [request EXCEPT ![p] = [request[p] EXCEPT !.stage = "written",
                                                                 !.rows = request[p].rows]]
      BY <1>2, <2>4 DEF Acknowledge, Asking, NotAsking
    <3> QED
      BY <1>2, <2>3, <3>1, <3>2
  <2> QED
    BY <1>2, <2>1, <2>2, <2>4 DEF Requests, Ask, Answer
<1>4. answered' \in [People -> SUBSET Ids]
  <2>1. CASE Answer(p)
    <3>1. request[p].id \in Ids
      BY <2>1, <1>2 DEF Answer, Asking, NotAsking
    <3> QED
      BY <1>2, <2>1, <3>1 DEF Answer
  <2> QED
    BY <1>2, <2>1 DEF Requests, Ask, Acknowledge
<1>5. ackedAt' \in [Ids -> Nat \cup {None}]
  BY <1>2 DEF Requests, Ask, Acknowledge, Answer
<1>6. incident' \in Seq(Incident) /\ Len(incident') <= MaxIncidents
  <2>1. \/ incident' = incident
        \/ \E i : incident' = [incident EXCEPT ![i].by = p]
    BY DEF Requests, Ask, Acknowledge, Answer
  <2> QED
    BY <2>1, AuthoredType DEF TypeOK
<1> QED
  BY <1>1, <1>3, <1>4, <1>5, <1>6 DEF TypeOK, engine

LEMMA StepTypes ==
    ASSUME Sorts, TypeOK, [Next]_vars
    PROVE  TypeOK'
<1>1. CASE UNCHANGED vars
  BY <1>1 DEF TypeOK, vars, engine, ghosts
<1> QED
  BY <1>1, EngineTypes, OperatorTypes, LoopTypes, RequestTypes DEF Next, Requests

-----------------------------------------------------------------------------
(***************************************************************************)
(* The rows of the table.                                                  *)
(***************************************************************************)
Fresh(m, now) == [monitor |-> m, started |-> now, resolved |-> FALSE, reminded |-> None, by |-> None]

\* The four statements that change the table, and what they leave alone.
Opens(m) ==
    /\ ~ IsOpen(m) /\ incident' = Append(incident, Fresh(m, clock))
    /\ UNCHANGED <<marks, loop, request, answered, ackedAt>>
Closes(m) ==
    /\ incident' = [i \in DOMAIN incident |->
                      IF incident[i].monitor = m THEN [incident[i] EXCEPT !.resolved = TRUE]
                      ELSE incident[i]]
    /\ UNCHANGED <<marks, loop, request, answered, ackedAt>>
Reminds ==
    /\ loop.stage = "mark" /\ Unseen(loop.read.id, loop.read.row)
    /\ incident' = [incident EXCEPT ![loop.read.id].reminded = loop.at]
    /\ marks' = Append(marks, [id |-> loop.read.id, at |-> loop.at, gap |-> loop.gap])
    /\ loop' = [loop EXCEPT !.stage = "send"]
    /\ UNCHANGED <<request, answered, ackedAt>>
Takes(p) ==
    /\ request[p].stage = "checked" /\ Acknowledgeable(request[p].id)
    /\ incident' = [incident EXCEPT ![request[p].id].by = p]
    /\ ackedAt' = [ackedAt EXCEPT ![request[p].id] = Len(marks)]
    /\ request' = [request EXCEPT ![p].stage = "written", ![p].rows = 1]
    /\ UNCHANGED <<marks, loop, answered>>

LEMMA RowSteps ==
    ASSUME [Next]_vars
    PROVE  \/ UNCHANGED <<incident, marks, ackedAt>>
           \/ \E m \in Monitors : Opens(m) \/ Closes(m)
           \/ Reminds
           \/ \E p \in People : Takes(p)
<1>1. ASSUME NEW m \in Monitors, Confirm(m) \/ Open(m) \/ Resolve(m)
      PROVE  UNCHANGED <<incident, marks, ackedAt>> \/ Opens(m) \/ Closes(m)
  BY <1>1 DEF Confirm, Open, Resolve, Opens, Closes, Fresh, ghosts
<1>2. ASSUME NEW p \in People, Requests(p)
      PROVE  UNCHANGED <<incident, marks, ackedAt>> \/ Takes(p)
  BY <1>2 DEF Requests, Ask, Acknowledge, Answer, Takes, RequestKeeps
<1>3. CASE Loop
  BY <1>3 DEF Loop, StartTick, ListOpen, ReadGroups, Review, AskCalendar, MarkReminded, Remind,
              LoopKeeps, Reminds
<1>4. CASE Tick \/ Crash \/ (\E e \in Edits : Operate(e)) \/ UNCHANGED vars
  BY <1>4 DEF Tick, Crash, Operate, vars, ghosts
<1> QED
  BY <1>1, <1>2, <1>3, <1>4 DEF Next, Requests

\* A row keeps its monitor and its start; closed and taken are for good.
Continues(old, new) ==
    /\ DOMAIN old \subseteq DOMAIN new
    /\ \A i \in DOMAIN old : /\ new[i].monitor = old[i].monitor /\ new[i].started = old[i].started
                             /\ old[i].resolved => new[i] = old[i]
                             /\ old[i].by # None => new[i].by = old[i].by

LEMMA RowsContinue ==
    ASSUME Sorts, TypeOK, [Next]_vars
    PROVE  Continues(incident, incident')
<1>1. /\ incident \in [1..Len(incident) -> Incident] /\ Len(incident) \in Nat
      /\ DOMAIN incident = 1..Len(incident)
  BY DEF TypeOK
<1>2. ASSUME NEW m \in Monitors, Opens(m)
      PROVE  Continues(incident, incident')
  BY <1>1, <1>2 DEF Opens, Continues
<1>3. ASSUME NEW m \in Monitors, Closes(m)
      PROVE  Continues(incident, incident')
  <2>1. \A row \in Incident : row.resolved => [row EXCEPT !.resolved = TRUE] = row
    BY DEF Incident
  <2>2. \A row \in Incident : LET new == [row EXCEPT !.resolved = TRUE]
                              IN  new.monitor = row.monitor /\ new.started = row.started /\ new.by = row.by
    BY DEF Incident
  <2> QED
    BY <1>1, <1>3, <2>1, <2>2 DEF Closes, Continues
<1>4. CASE Reminds
  BY <1>1, <1>4 DEF Reminds, Unseen, Continues, Incident
<1>5. ASSUME NEW p \in People, Takes(p)
      PROVE  Continues(incident, incident')
  BY <1>1, <1>5 DEF Takes, Acknowledgeable, Continues, Incident
<1> QED
  BY <1>2, <1>3, <1>4, <1>5, RowSteps DEF Continues

LEMMA OneOpenKept ==
    ASSUME Sorts, TypeOK, OneOpen, [Next]_vars
    PROVE  OneOpen'
<1>1. /\ incident \in [1..Len(incident) -> Incident] /\ Len(incident) \in Nat
      /\ DOMAIN incident = 1..Len(incident)
  BY DEF TypeOK
<1>2. ASSUME NEW m \in Monitors, Opens(m)
      PROVE  OneOpen'
  BY <1>1, <1>2 DEF Opens, OneOpen, IsOpen, Fresh
<1>3. ASSUME DOMAIN incident' = DOMAIN incident, Continues(incident, incident')
      PROVE  OneOpen'
  BY <1>1, <1>3 DEF OneOpen, Continues
<1>4. DOMAIN incident' = DOMAIN incident \/ \E m \in Monitors : Opens(m)
  BY <1>1, RowSteps DEF Closes, Reminds, Takes
<1> QED
  BY <1>2, <1>3, <1>4, RowsContinue

-----------------------------------------------------------------------------
(***************************************************************************)
(* Who took an outage, and the quiet after it.                             *)
(***************************************************************************)
\* Each request is about a row; what it wrote, and what it answered, stands
\* on the row under the name of its author.
Authored ==
    \A p \in People :
        /\ request[p].stage # "none" => request[p].id \in DOMAIN incident
        /\ request[p].stage = "written" /\ request[p].rows = 1 => incident[request[p].id].by = p
        /\ request[p].stage = "checked" => request[p].rows = 0
        /\ \A i \in answered[p] : i \in DOMAIN incident /\ incident[i].by = p

LEMMA AuthoredKept ==
    ASSUME Sorts, TypeOK, Authored, [Next]_vars
    PROVE  Authored'
<1>1. /\ Continues(incident, incident') /\ request \in [People -> Asking]
      /\ answered \in [People -> SUBSET Ids] /\ incident \in Seq(Incident)
  BY RowsContinue DEF TypeOK
<1>2. \A p \in People, i \in DOMAIN incident :
        incident[i].by = p => i \in DOMAIN incident' /\ incident'[i].by = p
  BY <1>1 DEF Continues, Sorts
<1>3. ASSUME UNCHANGED request, UNCHANGED answered PROVE Authored'
  BY <1>1, <1>2, <1>3 DEF Authored, Continues, Asking, NotAsking
<1>4. CASE Crash
  BY <1>1, <1>4 DEF Crash, Authored, NotAsking, ghosts
<1>5. ASSUME NEW p \in People, Requests(p) PROVE Authored'
  <2>1. CASE \E i \in Ids : Ask(p, i)
    BY <1>1, <1>2, <2>1 DEF Ask, Authored, RequestKeeps
  <2>2. CASE Acknowledge(p)
    <3>1. request[p].id \in DOMAIN incident /\ request[p].rows = 0
      BY <2>2 DEF Acknowledge, Authored
    <3>2. \/ Takes(p)
          \/ /\ request' = [request EXCEPT ![p].stage = "written"]
             /\ UNCHANGED <<incident, answered>>
      BY <2>2 DEF Acknowledge, Takes, RequestKeeps
    <3>3. CASE Takes(p)
      <4>1. incident'[request[p].id].by = p
        <5>1. \A row \in Incident : [row EXCEPT !.by = p].by = p
          BY DEF Incident
        <5>2. incident' = [incident EXCEPT ![request[p].id] = [incident[request[p].id] EXCEPT !.by = p]]
          BY <3>3 DEF Takes
        <5>3. incident[request[p].id] \in Incident
          BY <1>1, <3>1
        <5> QED
          BY <1>1, <3>1, <5>1, <5>2, <5>3
      <4>2. UNCHANGED answered /\ request' = [request EXCEPT ![p].stage = "written", ![p].rows = 1]
        BY <3>3 DEF Takes
      <4>3. /\ request'[p].id = request[p].id
            /\ \A q \in People : q # p => request'[q] = request[q]
        BY <1>1, <3>1, <4>2 DEF Asking, NotAsking
      <4>4. request'[p].stage = "written" /\ request[p].id \in DOMAIN incident'
        BY <1>1, <3>1, <3>3, <4>2 DEF Takes, Asking, NotAsking, Continues
      <4> QED
        BY <1>2, <1>1, <4>1, <4>2, <4>3, <4>4 DEF Authored, Continues
    <3>4. CASE request' = [request EXCEPT ![p].stage = "written"] /\ UNCHANGED <<incident, answered>>
      <4>1. /\ request'[p].id = request[p].id /\ request'[p].rows = 0 /\ request'[p].stage = "written"
            /\ \A q \in People : q # p => request'[q] = request[q]
        BY <1>1, <2>2, <3>1, <3>4 DEF Acknowledge, Asking, NotAsking
      <4> QED
        BY <1>1, <3>1, <3>4, <4>1 DEF Authored
    <3> QED
      BY <3>2, <3>3, <3>4
  <2>3. CASE Answer(p)
    <3>1. /\ request[p].stage = "written" /\ UNCHANGED incident
          /\ request' = [request EXCEPT ![p] = NotAsking]
          /\ \/ UNCHANGED answered
             \/ /\ request[p].rows = 1
                /\ answered' = [answered EXCEPT ![p] = @ \cup {request[p].id}]
      BY <2>3 DEF Answer
    <3>2. request[p].rows = 1 => request[p].id \in DOMAIN incident /\ incident[request[p].id].by = p
      BY <3>1 DEF Authored
    <3>3. /\ request'[p].stage = "none"
          /\ \A q \in People : q # p => request'[q] = request[q]
      BY <1>1, <3>1 DEF NotAsking
    <3> QED
      BY <1>1, <3>1, <3>2, <3>3 DEF Authored
  <2> QED
    BY <1>5, <2>1, <2>2, <2>3 DEF Requests
<1>6. [Next]_vars =>
        \/ UNCHANGED request /\ UNCHANGED answered
        \/ Crash
        \/ \E p \in People : Requests(p)
  BY DEF Next, vars, ghosts, Requests, Tick, Operate, Confirm, Open, Resolve, Loop, LoopKeeps,
         StartTick, ListOpen, ReadGroups, Review, AskCalendar, MarkReminded, Remind
<1> QED
  BY <1>3, <1>4, <1>5, <1>6

\* An outage with a number on its acknowledgement is taken.
Taken == \A i \in Ids : ackedAt[i] # None => i \in DOMAIN incident /\ incident[i].by # None

LEMMA QuietKept ==
    ASSUME Sorts, TypeOK, Authored, Taken, QuietOnceTaken, [Next]_vars
    PROVE  Taken' /\ QuietOnceTaken'
<1>1. /\ Continues(incident, incident') /\ ackedAt \in [Ids -> Nat \cup {None}]
      /\ marks \in Seq(Mark) /\ Len(marks) \in Nat /\ DOMAIN marks = 1..Len(marks)
      /\ DOMAIN incident = 1..Len(incident) /\ request \in [People -> Asking]
  BY RowsContinue DEF TypeOK
<1>2. CASE UNCHANGED <<marks, ackedAt>>
  BY <1>1, <1>2 DEF Taken, QuietOnceTaken, Continues
<1>3. CASE Reminds
  <2>1. UNCHANGED ackedAt /\ Taken'
    BY <1>1, <1>3 DEF Reminds, Taken, Continues
  <2>2. ackedAt[loop.read.id] = None \/ loop.read.id \notin Ids
    BY <1>3 DEF Reminds, Unseen, Taken
  <2>3. /\ marks' = Append(marks, [id |-> loop.read.id, at |-> loop.at, gap |-> loop.gap])
        /\ \A k \in DOMAIN marks' : \/ k \in DOMAIN marks /\ marks'[k] = marks[k]
                                    \/ marks'[k].id = loop.read.id
    BY <1>1, <1>3 DEF Reminds
  <2> QED
    BY <2>1, <2>2, <2>3 DEF QuietOnceTaken
<1>4. ASSUME NEW p \in People, Takes(p) PROVE Taken' /\ QuietOnceTaken'
  <2> DEFINE n == request[p].id
  <2>1. /\ n \in DOMAIN incident /\ incident'[n].by = p /\ n \in DOMAIN incident'
    BY <1>1, <1>4 DEF Takes, Authored, TypeOK
  <2>2. UNCHANGED marks /\ ackedAt' = [ackedAt EXCEPT ![n] = Len(marks)]
    BY <1>4 DEF Takes
  <2>3. Taken'
    BY <1>1, <2>1, <2>2 DEF Taken, Sorts, Continues
  <2> QED
    BY <1>1, <2>2, <2>3 DEF QuietOnceTaken
<1> QED
  BY <1>2, <1>3, <1>4, RowSteps DEF Opens, Closes

-----------------------------------------------------------------------------
(***************************************************************************)
(* The distance between two reminders.                                     *)
(***************************************************************************)
\* The row remembers the last mark of its incident.
Remembered(ms, i, told) ==
    \/ told = None /\ \A k \in DOMAIN ms : ms[k].id # i
    \/ \E k \in DOMAIN ms : /\ ms[k].id = i /\ ms[k].at = told
                            /\ \A l \in DOMAIN ms : ms[l].id = i => l <= k

\* What the mark numbered k is measured from.
From(ms, k, started) ==
    LET earlier == {j \in 1..(k - 1) : ms[j].id = ms[k].id}
    IN  IF earlier = {} THEN started ELSE ms[CHOOSE j \in earlier : \A l \in earlier : l <= j].at

MarkSpaced(ms, k, started) == ms[k].at - From(ms, k, started) >= ms[k].gap /\ ms[k].gap > 0

MarksSpaced ==
    /\ \A i \in DOMAIN incident : Remembered(marks, i, incident[i].reminded)
    /\ \A k \in DOMAIN marks : /\ marks[k].id \in DOMAIN incident
                               /\ MarkSpaced(marks, k, incident[marks[k].id].started)

\* What the loop has read is about rows of the table, and the incident in
\* hand was found due.
ReadsStand ==
    /\ \A read \in loop.todo : /\ read.id \in DOMAIN incident
                               /\ read.row.started = incident[read.id].started
    /\ loop.stage \in {"window", "mark"} =>
         loop.gap > 0 /\ loop.at - LastTold(loop.read.row) >= loop.gap

LEMMA ReadsKept ==
    ASSUME Sorts, TypeOK, ReadsStand, [Next]_vars
    PROVE  ReadsStand'
<1>1. Continues(incident, incident') /\ loop \in Loops
  BY RowsContinue DEF TypeOK
<1>2. ASSUME loop'.todo \subseteq loop.todo, loop'.stage \in {"window", "mark"} =>
                loop'.gap > 0 /\ loop'.at - LastTold(loop'.read.row) >= loop'.gap
      PROVE  ReadsStand'
  BY <1>1, <1>2 DEF ReadsStand, Continues, LastTold
<1>3. CASE UNCHANGED loop
  BY <1>2, <1>3 DEF ReadsStand
<1>4. Idle.todo = {} /\ Idle.stage = "idle"
  BY DEF Idle
<1>5. ASSUME loop' = Idle PROVE ReadsStand'
  BY <1>2, <1>4, <1>5
<1>6. ASSUME NEW read, loop' = After(read) PROVE ReadsStand'
  <2>1. loop' = [loop EXCEPT !.todo = loop.todo \ {read}, !.read = None, !.stage = "review", !.gap = 0]
        => loop'.todo \subseteq loop.todo /\ loop'.stage = "review"
    BY <1>1 DEF Loops
  <2> QED
    BY <1>2, <1>5, <1>6, <2>1 DEF After
<1>7. CASE Loop
  <2>1. CASE StartTick
    <3>1. loop'.todo = {} /\ loop'.stage = "list"
      BY <2>1 DEF StartTick, Idle
    <3> QED
      BY <1>2, <3>1
  <2>2. CASE ListOpen
    <3> DEFINE ids == {i \in DOMAIN incident : /\ ~ incident[i].resolved
                                               /\ loop.before # None => i < loop.before}
               page == Newest(ids, PageSize)
               todo == loop.todo \cup {[id |-> i, row |-> incident[i]] : i \in page}
    <3>1. page \subseteq DOMAIN incident
      BY DEF Newest
    <3>2. \A read \in todo : read.id \in DOMAIN incident /\ read.row.started = incident[read.id].started
      <4> HIDE DEF page
      <4>1. \A i \in page : LET read == [id |-> i, row |-> incident[i]] IN
              read.id \in DOMAIN incident /\ read.row.started = incident[read.id].started
        BY <3>1
      <4> QED
        BY <4>1 DEF ReadsStand
    <3> HIDE DEF page, todo
    <3>3. \/ loop' = Idle
          \/ \E last \in page : loop' = [loop EXCEPT !.todo = todo, !.before = last]
          \/ loop' = [loop EXCEPT !.todo = todo, !.stage = "groups"]
      BY <2>2 DEF ListOpen, page, todo
    <3>4. loop' = Idle \/ (loop'.todo = todo /\ loop'.stage \in {"list", "groups"})
      BY <1>1, <2>2, <3>3 DEF Loops, ListOpen
    <3>5. UNCHANGED incident
      BY <2>2 DEF ListOpen
    <3> QED
      BY <1>5, <3>2, <3>4, <3>5 DEF ReadsStand
  <2>3. CASE ReadGroups
    <3>1. loop' = Idle \/ (loop'.todo = loop.todo /\ loop'.stage = "review")
      BY <1>1, <2>3 DEF ReadGroups, Loops
    <3> QED
      BY <1>2, <1>5, <3>1
  <2>4. CASE Review
    <3>1. PICK read \in loop.todo :
            \/ loop' = After(read)
            \/ LET gap == ReminderInterval(read.row.monitor, loop.tree) IN
               /\ gap > 0 /\ loop.at - LastTold(read.row) >= gap
               /\ loop' = [loop EXCEPT !.stage = "window", !.read = read, !.gap = gap]
      BY <2>4 DEF Review
    <3> DEFINE gap == ReminderInterval(read.row.monitor, loop.tree)
    <3>2. ASSUME gap > 0, loop.at - LastTold(read.row) >= gap,
                 loop' = [loop EXCEPT !.stage = "window", !.read = read, !.gap = gap]
          PROVE  ReadsStand'
      <4> HIDE DEF gap
      <4>1. /\ loop'.todo = loop.todo /\ loop'.at = loop.at /\ loop'.read = read /\ loop'.gap = gap
        BY <1>1, <3>2 DEF Loops
      <4> QED
        BY <1>2, <3>2, <4>1
    <3> QED
      BY <1>6, <3>1, <3>2
  <2>5. CASE AskCalendar \/ MarkReminded
    <3>1. \/ loop' = After(loop.read)
          \/ loop.stage = "window" /\ loop' = [loop EXCEPT !.stage = "mark"]
          \/ loop' = [loop EXCEPT !.stage = "send"]
      BY <2>5 DEF AskCalendar, MarkReminded
    <3>2. ASSUME loop.stage = "window", loop' = [loop EXCEPT !.stage = "mark"] PROVE ReadsStand'
      <4>1. loop'.todo = loop.todo /\ loop'.at = loop.at /\ loop'.read = loop.read /\ loop'.gap = loop.gap
        BY <1>1, <3>2 DEF Loops
      <4> QED
        BY <1>2, <3>2, <4>1 DEF ReadsStand
    <3>3. ASSUME loop' = [loop EXCEPT !.stage = "send"] PROVE ReadsStand'
      <4>1. loop'.todo = loop.todo /\ loop'.stage = "send"
        BY <1>1, <3>3 DEF Loops
      <4> QED
        BY <1>2, <4>1
    <3> QED
      BY <1>6, <3>1, <3>2, <3>3
  <2>6. CASE Remind
    BY <1>6, <2>6 DEF Remind
  <2> QED
    BY <1>7, <2>1, <2>2, <2>3, <2>4, <2>5, <2>6 DEF Loop
<1>8. CASE Crash
  BY <1>5, <1>8 DEF Crash
<1>9. [Next]_vars => UNCHANGED loop \/ Loop \/ Crash
  BY DEF Next, vars, Tick, Operate, Confirm, Open, Resolve, Ask, Acknowledge, Answer, RequestKeeps
<1> QED
  BY <1>3, <1>7, <1>8, <1>9

LEMMA Greatest ==
    ASSUME NEW n \in Nat, NEW S, S \subseteq 0..n, S # {}
    PROVE  \E m \in S : \A l \in S : l <= m
<1> DEFINE Rev == {n - j : j \in S}
<1>1. Rev \in SUBSET Nat /\ Rev # {}
  <2>1. \A j \in S : n - j \in Nat
    OBVIOUS
  <2>2. PICK j \in S : TRUE
    OBVIOUS
  <2>3. n - j \in Rev
    BY <2>2
  <2> QED
    BY <2>1, <2>3
<1>2. \E m \in Rev : \A l \in Rev : m <= l
  BY <1>1, Least
<1>3. PICK m \in S : \A l \in S : n - m <= n - l
  BY <1>2
<1> QED
  BY <1>3

\* A new mark changes nothing for those before it.
LEMMA OldMarks ==
    ASSUME NEW S, NEW ms \in Seq(S), NEW mark \in S, NEW k \in DOMAIN ms, NEW started
    PROVE  MarkSpaced(Append(ms, mark), k, started) <=> MarkSpaced(ms, k, started)
<1> DEFINE more == Append(ms, mark)
<1>1. \A j \in 1..k : more[j] = ms[j]
  OBVIOUS
<1>2. k \in Nat /\ \A j \in 1..(k - 1) : j \in 1..k
  OBVIOUS
<1> HIDE DEF more
<1>3. From(more, k, started) = From(ms, k, started)
  <2> DEFINE old == {j \in 1..(k - 1) : ms[j].id = ms[k].id}
             new == {j \in 1..(k - 1) : more[j].id = more[k].id}
             last == CHOOSE j \in old : \A l \in old : l <= j
  <2>1. old = new
    BY <1>1, <1>2
  <2>2. ASSUME old # {} PROVE more[last].at = ms[last].at
    <3>1. old \subseteq 0..k
      BY <1>2
    <3>2. \E j \in old : \A l \in old : l <= j
      <4> HIDE DEF old
      <4> QED
        BY <1>2, <2>2, <3>1, Greatest
    <3>3. last \in old
      BY <3>2
    <3> QED
      BY <1>1, <1>2, <3>3
  <2>3. old # {} => more[CHOOSE j \in new : \A l \in new : l <= j].at = ms[last].at
    BY <2>1, <2>2
  <2> QED
    BY <2>1, <2>3 DEF From
<1> QED
  BY <1>1, <1>2, <1>3 DEF MarkSpaced, more

\* A mark that comes due as the row remembers it is spaced.
LEMMA NewMark ==
    ASSUME None \notin Nat, NEW ms \in Seq(Mark), NEW mark \in Mark, NEW started, NEW told,
           Remembered(ms, mark.id, told), mark.gap > 0,
           mark.at - (IF told = None THEN started ELSE told) >= mark.gap
    PROVE  /\ MarkSpaced(Append(ms, mark), Len(ms) + 1, started)
           /\ Remembered(Append(ms, mark), mark.id, mark.at)
<1> DEFINE more == Append(ms, mark)
           n == Len(ms) + 1
           earlier == {j \in 1..(n - 1) : more[j].id = more[n].id}
<1>1. /\ Len(ms) \in Nat /\ n \in Nat /\ n \in 1..n /\ DOMAIN ms = 1..Len(ms) /\ DOMAIN more = 1..n /\ n - 1 = Len(ms)
      /\ more[n] = mark /\ \A j \in DOMAIN ms : more[j] = ms[j] /\ ms[j] \in Mark
  OBVIOUS
<1> HIDE DEF more, n
<1>2. earlier = {j \in DOMAIN ms : ms[j].id = mark.id}
  BY <1>1
<1>3. From(more, n, started) = IF told = None THEN started ELSE told
  <2>1. CASE told = None /\ \A k \in DOMAIN ms : ms[k].id # mark.id
    BY <1>2, <2>1 DEF From
  <2>2. ASSUME NEW k \in DOMAIN ms, ms[k].id = mark.id, ms[k].at = told,
               \A l \in DOMAIN ms : ms[l].id = mark.id => l <= k
        PROVE  From(more, n, started) = IF told = None THEN started ELSE told
    <3>1. k \in earlier /\ \A l \in earlier : l <= k
      BY <1>2, <2>2
    <3>2. earlier \subseteq Nat
      BY <1>1, <1>2
    <3>3. (CHOOSE j \in earlier : \A l \in earlier : l <= j) = k
      <4> HIDE DEF earlier
      <4> QED
        BY <3>1, <3>2
    <3>4. more[k].at = told /\ told # None
      BY <1>1, <2>2 DEF Mark
    <3> QED
      BY <3>1, <3>3, <3>4 DEF From
  <2> QED
    BY <2>1, <2>2 DEF Remembered
<1>4. MarkSpaced(more, n, started)
  BY <1>1, <1>3 DEF MarkSpaced
<1>5. Remembered(more, mark.id, mark.at)
  BY <1>1 DEF Remembered
<1> QED
  BY <1>4, <1>5 DEF more, n

LEMMA MarksKept ==
    ASSUME Sorts, TypeOK, ReadsStand, MarksSpaced, [Next]_vars
    PROVE  MarksSpaced'
<1>1. /\ Continues(incident, incident') /\ incident \in [1..Len(incident) -> Incident]
      /\ marks \in Seq(Mark) /\ Len(incident) \in Nat /\ DOMAIN incident = 1..Len(incident)
  BY RowsContinue DEF TypeOK
<1>2. ASSUME UNCHANGED marks,
             \A i \in DOMAIN incident' : \/ /\ i \in DOMAIN incident
                                            /\ incident'[i].reminded = incident[i].reminded
                                         \/ i \notin DOMAIN incident /\ incident'[i].reminded = None
      PROVE  MarksSpaced'
  <2>1. \A i \in DOMAIN incident' : Remembered(marks, i, incident'[i].reminded)
    BY <1>2 DEF MarksSpaced, Remembered
  <2>2. \A k \in DOMAIN marks : /\ marks[k].id \in DOMAIN incident'
                                /\ incident'[marks[k].id].started = incident[marks[k].id].started
    BY <1>1 DEF MarksSpaced, Continues
  <2> QED
    BY <1>2, <2>1, <2>2 DEF MarksSpaced
<1>3. ASSUME NEW m \in Monitors, Opens(m) PROVE MarksSpaced'
  <2>1. /\ UNCHANGED marks /\ DOMAIN incident' = 1..(Len(incident) + 1)
        /\ \A i \in DOMAIN incident : incident'[i] = incident[i]
        /\ incident'[Len(incident) + 1].reminded = None
    BY <1>1, <1>3 DEF Opens, Fresh
  <2> QED
    BY <1>1, <1>2, <2>1
<1>4. ASSUME NEW m \in Monitors, Closes(m) PROVE MarksSpaced'
  <2>1. \A row \in Incident : [row EXCEPT !.resolved = TRUE].reminded = row.reminded
    BY DEF Incident
  <2> QED
    BY <1>1, <1>2, <1>4, <2>1 DEF Closes
<1>5. ASSUME NEW p \in People, Takes(p) PROVE MarksSpaced'
  <2>1. \A row \in Incident : [row EXCEPT !.by = p].reminded = row.reminded
    BY DEF Incident
  <2>2. UNCHANGED marks /\ incident' = [incident EXCEPT ![request[p].id].by = p]
    BY <1>5 DEF Takes
  <2>3. \A i \in DOMAIN incident : incident'[i].reminded = incident[i].reminded
    BY <1>1, <2>1, <2>2
  <2> QED
    BY <1>1, <1>2, <2>2, <2>3
<1>6. CASE Reminds
  <2> DEFINE i == loop.read.id
             row == loop.read.row
             mark == [id |-> i, at |-> loop.at, gap |-> loop.gap]
             n == Len(marks) + 1
  <2>1. /\ loop.read \in loop.todo /\ loop.at \in Nat /\ loop.gap \in Nat /\ loop.stage = "mark"
    BY <1>6 DEF Reminds, TypeOK, Loops
  <2>2. i \in DOMAIN incident /\ row.started = incident[i].started
        /\ loop.gap > 0 /\ loop.at - LastTold(row) >= loop.gap
    BY <2>1 DEF ReadsStand
  <2>3. row.reminded = incident[i].reminded /\ marks' = Append(marks, mark)
        /\ incident' = [incident EXCEPT ![i].reminded = loop.at]
    BY <1>6 DEF Reminds, Unseen
  <2>4. mark \in Mark /\ mark.id = i /\ mark.at = loop.at /\ mark.gap = loop.gap
    <3>1. i \in Ids
      BY <1>1, <2>2 DEF TypeOK, Ids, Sorts
    <3> QED
      BY <2>1, <3>1 DEF Mark
  <2>5. Remembered(marks, i, incident[i].reminded)
    BY <2>2 DEF MarksSpaced
  <2> HIDE DEF mark
  <2>6. /\ MarkSpaced(marks', n, incident[i].started)
        /\ Remembered(marks', i, loop.at)
    BY <1>1, <2>2, <2>3, <2>4, <2>5, NewMark DEF LastTold, Sorts
  <2>7. /\ DOMAIN incident' = DOMAIN incident /\ incident'[i].reminded = loop.at
        /\ \A j \in DOMAIN incident : j # i => incident'[j] = incident[j]
        /\ \A j \in DOMAIN incident : incident'[j].started = incident[j].started
    <3>1. \A r \in Incident : LET new == [r EXCEPT !.reminded = loop.at]
                              IN  new.reminded = loop.at /\ new.started = r.started
      BY DEF Incident
    <3> QED
      BY <1>1, <2>2, <2>3, <3>1
  <2>8. /\ n \in Nat /\ DOMAIN marks' = 1..n /\ DOMAIN marks = 1..(n - 1) /\ marks'[n] = mark
        /\ \A k \in DOMAIN marks : marks'[k] = marks[k]
    BY <1>1, <2>3, <2>4
  <2>9. ASSUME NEW j \in DOMAIN incident, j # i
        PROVE  Remembered(marks', j, incident'[j].reminded)
    <3>1. Remembered(marks, j, incident[j].reminded)
      BY DEF MarksSpaced
    <3> QED
      BY <2>4, <2>7, <2>8, <2>9, <3>1 DEF Remembered
  <2>10. ASSUME NEW k \in DOMAIN marks'
         PROVE  /\ marks'[k].id \in DOMAIN incident
                /\ MarkSpaced(marks', k, incident[marks'[k].id].started)
    <3>1. CASE k = n
      BY <2>2, <2>4, <2>6, <2>8, <3>1
    <3>2. CASE k # n
      <4>1. k \in DOMAIN marks /\ marks'[k] = marks[k]
        BY <2>8, <3>2
      <4>2. MarkSpaced(marks, k, incident[marks[k].id].started) /\ marks[k].id \in DOMAIN incident
        BY <4>1 DEF MarksSpaced
      <4>3. MarkSpaced(Append(marks, mark), k, incident[marks[k].id].started)
        BY <1>1, <2>4, <4>1, <4>2, OldMarks
      <4> QED
        BY <2>3, <4>1, <4>2, <4>3
    <3> QED
      BY <3>1, <3>2
  <2> QED
    BY <2>6, <2>7, <2>9, <2>10 DEF MarksSpaced
<1>7. CASE UNCHANGED <<incident, marks>>
  BY <1>7 DEF MarksSpaced
<1> QED
  BY <1>3, <1>4, <1>5, <1>6, <1>7, RowSteps

-----------------------------------------------------------------------------
RemindersInvariant ==
    /\ TypeOK
    /\ OneOpen
    /\ Authored
    /\ Taken /\ QuietOnceTaken
    /\ ReadsStand
    /\ MarksSpaced

\* The invariant that carries the promises: types, the rows under the names
\* of their authors, the acknowledged rows taken, the reads of the loop about
\* rows of the table, and each row remembering its last mark (reminder.go,
\* incident_handlers.go and the statements of sqlstore/incident.go).
THEOREM Invariance ==
    ASSUME Sorts
    PROVE  Spec => []RemindersInvariant
<1>1. ASSUME Init PROVE RemindersInvariant
  <2>1. /\ incident = <<>> /\ marks = <<>> /\ loop = Idle
        /\ \A p \in People : request[p] = NotAsking /\ answered[p] = {}
        /\ \A i \in Ids : ackedAt[i] = None
    BY <1>1 DEF Init
  <2>2. Idle.todo = {} /\ Idle.stage = "idle"
    BY DEF Idle
  <2>3. OneOpen /\ Authored /\ Taken /\ QuietOnceTaken /\ ReadsStand /\ MarksSpaced
    BY <2>1, <2>2 DEF OneOpen, Authored, Taken, QuietOnceTaken, ReadsStand, MarksSpaced, NotAsking
  <2> QED
    BY <1>1, <2>3, InitTypes DEF RemindersInvariant
<1>2. RemindersInvariant /\ [Next]_vars => RemindersInvariant'
  BY StepTypes, OneOpenKept, AuthoredKept, QuietKept, ReadsKept, MarksKept DEF RemindersInvariant
<1> QED
  BY <1>1, <1>2, PTL DEF Spec

\* One author for each outage, quiet once it is taken, an interval between
\* two reminders of it and one open outage for each monitor (reminder.go
\* Tick, incident_handlers.go, sqlstore/incident.go).
THEOREM PromisesKept ==
    ASSUME Sorts
    PROVE  Spec => []RemindersKept
<1>1. ASSUME RemindersInvariant PROVE RemindersKept
  <2>1. OneAuthor /\ QuietOnceTaken /\ OneOpen
    BY <1>1 DEF RemindersInvariant, Authored, OneAuthor
  <2>2. Spaced
    BY <1>1 DEF RemindersInvariant, MarksSpaced, MarkSpaced, From, Spaced
  <2> QED
    BY <2>1, <2>2 DEF RemindersKept
<1> QED
  BY <1>1, Invariance, PTL

\* A closed row is never written again, by the loop or by a late click
\* (sqlstore/incident.go MarkReminded, Acknowledge).
THEOREM ClosedRowsStay ==
    ASSUME Sorts
    PROVE  Spec => ClosedRowsRest
<1>1. RemindersInvariant /\ [Next]_vars => [ClosedRowsKept]_vars
  BY RowsContinue DEF RemindersInvariant, Continues, ClosedRowsKept
<1> QED
  BY <1>1, Invariance, PTL DEF Spec, ClosedRowsRest
=============================================================================
