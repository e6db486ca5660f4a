------------------------ MODULE IncidentEngineProofs ------------------------
(***************************************************************************)
(* What TLAPS proves of the incident engine, for every set of monitors, of *)
(* concurrent calls and of configurations: the counts it keeps, the        *)
(* contract of alerts it implements, and the history it leaves.            *)
(***************************************************************************)
EXTENDS IncidentEngine, TLAPS

USE EngineAssumption

-----------------------------------------------------------------------------
(***************************************************************************)
(* The confirmation machine.                                               *)
(***************************************************************************)
\* The machine remembers a well-formed state (incident/state.go Next).
LEMMA NextStateType ==
    ASSUME NEW s \in MonitorState, NEW o \in Status, NEW n \in Nat
    PROVE  NextState(s, o, n) \in MonitorState
<1>1. CASE o = "unknown"
  <2>1. NextState(s, o, n) = s
    BY <1>1 DEF NextState, Moves, Confirms
  <2> QED  BY <2>1
<1>2. CASE o # "unknown" /\ o = s.status
  <2>1. NextState(s, o, n) = [s EXCEPT !.candidate = "unknown", !.consecutive = 0]
    BY <1>2 DEF NextState, Moves, Confirms
  <2>2. NextState(s, o, n) = [status |-> s.status, candidate |-> "unknown", consecutive |-> 0]
    BY <2>1 DEF MonitorState
  <2> QED  BY <2>2 DEF MonitorState, Status
<1>3. CASE Moves(s, o) /\ ~ Confirms(s, o, n)
  <2>1. NextState(s, o, n) = [s EXCEPT !.candidate = o, !.consecutive = Count(s, o)]
    BY <1>3 DEF NextState, Moves
  <2>2. Count(s, o) \in Nat
    BY DEF Count, MonitorState
  <2> QED  BY <2>1, <2>2 DEF MonitorState
<1>4. CASE Confirms(s, o, n)
  <2>1. NextState(s, o, n) = [status |-> o, candidate |-> "unknown", consecutive |-> 0]
    BY <1>4 DEF NextState, Moves, Confirms
  <2> QED  BY <2>1 DEF MonitorState, Status
<1> QED  BY <1>1, <1>2, <1>3, <1>4 DEF Moves

\* An event is about a change, and to the observed status
\* (incident/state.go confirm).
LEMMA AnnouncedChange ==
    ASSUME NEW s \in MonitorState, NEW o \in Status, NEW n \in Nat, Announces(s, o, n)
    PROVE  NextState(s, o, n).status = o /\ s.status # o
<1>1. Confirms(s, o, n) /\ o # "unknown" /\ o # s.status
  BY DEF Announces, Confirms, Moves
<1>2. NextState(s, o, n) = [status |-> o, candidate |-> "unknown", consecutive |-> 0]
  BY <1>1 DEF NextState, Moves
<1> QED  BY <1>1, <1>2

-----------------------------------------------------------------------------
(***************************************************************************)
(* Types.                                                                  *)
(***************************************************************************)
\* The heartbeat of no call is a well-formed one.
LEMMA NoBeatType == NoBeat \in Beat /\ NoBeat.monitor \in Monitors
<1>1. (CHOOSE m \in Monitors : TRUE) \in Monitors
  OBVIOUS
<1> QED  BY <1>1 DEF NoBeat, Beat, Status

\* The zero value is a well-formed state (domain/incident.go MonitorState).
LEMMA NeverMeasuredType == NeverMeasured \in MonitorState
BY DEF NeverMeasured, MonitorState, Status

\* Returning leaves well-formed local variables.
LEMMA ReturnType ==
    ASSUME TypeOK, NEW c \in Calls, Return(c)
    PROVE  /\ pc' \in [Calls -> Steps] /\ beat' \in [Calls -> Beat]
           /\ seen' \in [Calls -> MonitorState] /\ rules' \in [Calls -> Rule]
BY NoBeatType, NeverMeasuredType DEF TypeOK, Return, Steps

\* What a call decides is a well-formed state.
LEMMA DecidedType ==
    ASSUME TypeOK, NEW c \in Calls
    PROVE  /\ Decided(c) \in MonitorState
           /\ Monitor(c) \in Monitors
           /\ beat[c].status \in Status
           /\ seen[c] \in MonitorState
           /\ Threshold(c) \in Nat
<1>1. beat[c] \in Beat /\ rules[c] \in Rule /\ seen[c] \in MonitorState
  BY DEF TypeOK
<1>2. beat[c].status \in Status /\ beat[c].monitor \in Monitors /\ rules[c].threshold \in Nat
  BY <1>1 DEF Beat, Rule
<1> QED  BY <1>1, <1>2, NextStateType DEF Decided, Threshold, Monitor

\* The engine starts with every variable in its type (engine.go NewEngine).
LEMMA InitType == Init => TypeOK
BY NoBeatType, NeverMeasuredType DEF Init, TypeOK, Steps, Status

\* Every step keeps every variable in its type.
LEMMA TypeStep == TypeOK /\ [Next]_vars => TypeOK'
<1> SUFFICES ASSUME TypeOK, [Next]_vars PROVE TypeOK'
  OBVIOUS
<1> USE DEF TypeOK, memory, calls, database, ghosts, Forgotten, Loaded
<1>1. CASE Tick
  BY <1>1 DEF Tick
<1>2. CASE MaintenanceChanges
  BY <1>2 DEF MaintenanceChanges
<1>3. ASSUME NEW m \in Monitors, Check(m) PROVE TypeOK'
  <2> PICK c \in Calls, status \in Results, repeated \in BOOLEAN :
          Begin(c, m, status, repeated)
    BY <1>3 DEF Check
  <2>1. [monitor |-> m, status |-> status, at |-> now, repeated |-> repeated] \in Beat
    BY DEF Beat
  <2> QED  BY <2>1 DEF Begin, Steps
<1>4. ASSUME NEW c \in Calls, Step(c) PROVE TypeOK'
  <2>0. /\ Decided(c) \in MonitorState
        /\ Monitor(c) \in Monitors
        /\ beat[c].status \in Status
    BY DecidedType
  <2>1. CASE Screen(c)
    <3>1. beat[c] \in Beat /\ beat[c].at \in Nat
      BY DEF Beat
    <3>2. [beat EXCEPT ![c].status = "unknown"] \in [Calls -> Beat]
      <4>1. [beat[c] EXCEPT !.status = "unknown"] \in Beat
        BY <3>1 DEF Beat, Status
      <4> QED  BY <4>1
    <3>3. /\ aliveAt' \in [Monitors -> Nat \cup {None}]
          /\ failingSince' \in [Monitors -> Nat \cup {None}]
      <4>1. aliveAt' \in [Monitors -> Nat \cup {None}]
        BY <2>1, <2>0, <3>1 DEF Screen, Track
      <4>2. CASE Responsive(beat[c].status)
        <5>1. failingSince' = [failingSince EXCEPT ![Monitor(c)] = None]
          BY <4>2, <2>1 DEF Screen, Track, Responsive
        <5> QED  BY <4>1, <5>1, <2>0
      <4>3. CASE ~ Responsive(beat[c].status) /\ beat[c].status = "down"
                 /\ failingSince[Monitor(c)] = None
        BY <4>1, <4>3, <2>1, <2>0, <3>1 DEF Screen, Track
      <4>4. CASE ~ Responsive(beat[c].status)
                 /\ ~ (beat[c].status = "down" /\ failingSince[Monitor(c)] = None)
        BY <4>1, <4>4, <2>1 DEF Screen, Track
      <4> QED  BY <4>2, <4>3, <4>4
    <3> QED  BY <2>1, <3>2, <3>3 DEF Screen, Steps
  <2>2. CASE Read(c)
    <3>1. /\ pc' \in [Calls -> Steps] /\ beat' \in [Calls -> Beat]
          /\ seen' \in [Calls -> MonitorState] /\ rules' \in [Calls -> Rule]
      <4>1. CASE Matters(c)
        BY <2>2, <2>0, <4>1 DEF Read, Steps
      <4>2. CASE ~ Matters(c)
        <5>1. Return(c)
          BY <2>2, <4>2 DEF Read
        <5> QED  BY <5>1, ReturnType
      <4> QED  BY <4>1, <4>2
    <3>2. run' \in [Monitors -> [of: Status, length: Nat]]
      <4>1. \A r \in [of: Status, length: Nat] : Longer(r.length) \in Nat
        BY DEF Longer
      <4> QED  BY <2>2, <2>0, <4>1 DEF Read
    <3> QED  BY <2>2, <3>1, <3>2 DEF Read
  <2>3. CASE Write(c)
    BY <2>3, <2>0 DEF Write, Goto, Steps
  <2>4. CASE Save(c)
    <3>1. /\ pc' \in [Calls -> Steps] /\ beat' \in [Calls -> Beat]
          /\ seen' \in [Calls -> MonitorState] /\ rules' \in [Calls -> Rule]
      <4>1. CASE Return(c)
        BY <4>1, ReturnType
      <4>2. CASE Goto(c, "record")
        BY <4>2 DEF Goto, Steps
      <4> QED  BY <2>4, <4>1, <4>2 DEF Save
    <3>2. saved' \in [Monitors -> MonitorState]
      BY <2>4, <2>0 DEF Save
    <3> QED  BY <2>4, <3>1, <3>2 DEF Save
  <2>5. CASE Record(c)
    BY <2>5, <2>0 DEF Record, Goto, Steps
  <2>6. CASE React(c)
    BY <2>6, <2>0 DEF React, Goto, Steps
  <2>7. CASE Notify(c)
    <3>1. Return(c)
      BY <2>7 DEF Notify
    <3>2. alerted' \in [Monitors -> BOOLEAN]
      BY <2>7, <2>0 DEF Notify, Alerts
    <3> QED  BY <2>7, <3>1, <3>2, ReturnType DEF Notify
  <2> QED  BY <1>4, <2>1, <2>2, <2>3, <2>4, <2>5, <2>6, <2>7 DEF Step
<1>5. ASSUME NEW m \in Monitors, Upsert(m) PROVE TypeOK'
  BY <1>5 DEF Upsert
<1>6. ASSUME NEW m \in Monitors, DeleteRow(m) PROVE TypeOK'
  BY <1>6, NeverMeasuredType DEF DeleteRow, Status
<1>7. ASSUME NEW m \in Monitors, Remove(m) PROVE TypeOK'
  BY <1>7, NeverMeasuredType DEF Remove, Forgotten
<1>8. CASE Restart
  <2>1. \A c \in Calls : Monitor(c) \in Monitors
    BY DEF Monitor, Beat
  <2>2. cut' \subseteq Monitors
    BY <1>8, <2>1 DEF Restart
  <2>3. states' \in [Monitors -> MonitorState] /\ alerted' \in [Monitors -> BOOLEAN]
    BY <1>8, NeverMeasuredType DEF Restart, Loaded
  <2>4. /\ pc' \in [Calls -> Steps] /\ beat' \in [Calls -> Beat]
        /\ seen' \in [Calls -> MonitorState] /\ rules' \in [Calls -> Rule]
    BY <1>8, NoBeatType, NeverMeasuredType DEF Restart, Steps
  <2> QED  BY <1>8, <2>2, <2>3, <2>4 DEF Restart
<1>9. CASE UNCHANGED vars
  BY <1>9 DEF vars
<1> QED  BY <1>1, <1>2, <1>3, <1>4, <1>5, <1>6, <1>7, <1>8, <1>9 DEF Next

\* Every variable of the engine, and of its database, keeps its type.
THEOREM TypeCorrect == Spec => []TypeOK
<1>1. Init => TypeOK
  BY InitType
<1>2. TypeOK /\ [Next]_vars => TypeOK'
  BY TypeStep
<1> QED  BY <1>1, <1>2, PTL DEF Spec

-----------------------------------------------------------------------------
(***************************************************************************)
(* Alerts.  From here on checks of one monitor do not overlap, and what    *)
(* the engine asks of the database about a monitor with a row is done.     *)
(***************************************************************************)
\* With a database that answers, a statement takes effect exactly when the row
\* is there (sqlstore/incident.go Save, Open, Resolve).
LEMMA EffectiveIsRow ==
    ASSUME ~ StoreFails, NEW m, NEW ok \in Effective(m)
    PROVE  ok <=> m \in rows
BY DEF Effective

\* A step of a call disturbs no other call, and no other call is about the
\* same monitor.
LEMMA StepFrame ==
    ASSUME TypeOK, Serial, NEW c \in Calls, Step(c)
    PROVE  /\ Busy(c)
           /\ \A d \in Calls \ {c} :
                /\ pc'[d] = pc[d] /\ beat'[d] = beat[d]
                /\ seen'[d] = seen[d] /\ rules'[d] = rules[d]
                /\ Busy(d) => Monitor(d) # Monitor(c)
           /\ pc'[c] # "idle" => beat'[c].monitor = beat[c].monitor
           /\ UNCHANGED <<rows, leaving>>
<1>1. Busy(c)
  BY DEF Step, Screen, Read, Write, Save, Record, React, Notify, Busy
<1>2. \A d \in Calls \ {c} : Busy(d) => Monitor(d) # Monitor(c)
  BY <1>1 DEF Serial
<1>3. ASSUME Return(c)
      PROVE  /\ \A d \in Calls \ {c} : /\ pc'[d] = pc[d] /\ beat'[d] = beat[d]
                                       /\ seen'[d] = seen[d] /\ rules'[d] = rules[d]
             /\ pc'[c] = "idle"
  BY <1>3 DEF TypeOK, Return
<1>4. ASSUME NEW step, Goto(c, step)
      PROVE  /\ \A d \in Calls \ {c} : /\ pc'[d] = pc[d] /\ beat'[d] = beat[d]
                                       /\ seen'[d] = seen[d] /\ rules'[d] = rules[d]
             /\ beat'[c] = beat[c]
  BY <1>4 DEF TypeOK, Goto
<1>5. CASE Screen(c)
  <2>1. \A d \in Calls \ {c} : /\ pc'[d] = pc[d] /\ beat'[d] = beat[d]
                               /\ seen'[d] = seen[d] /\ rules'[d] = rules[d]
    BY <1>5 DEF TypeOK, Screen
  <2>2. beat[c] \in Beat
    BY DEF TypeOK
  <2>3. beat'[c] = beat[c] \/ beat'[c] = [beat[c] EXCEPT !.status = "unknown"]
    BY <1>5 DEF TypeOK, Screen
  <2>4. beat'[c].monitor = beat[c].monitor
    BY <2>2, <2>3 DEF Beat
  <2> QED  BY <1>1, <1>2, <1>5, <2>1, <2>4 DEF Screen, database
<1>6. CASE Read(c)
  <2>1. CASE Matters(c)
    BY <1>1, <1>2, <1>6, <2>1 DEF TypeOK, Read, database
  <2>2. CASE ~ Matters(c)
    BY <1>1, <1>2, <1>3, <1>6, <2>2 DEF Read, database
  <2> QED  BY <2>1, <2>2
<1>7. CASE Write(c)
  BY <1>1, <1>2, <1>4, <1>7 DEF Write, database
<1>8. CASE Save(c)
  BY <1>1, <1>2, <1>3, <1>4, <1>8 DEF Save
<1>9. CASE Record(c)
  BY <1>1, <1>2, <1>4, <1>9 DEF Record
<1>10. CASE React(c)
  BY <1>1, <1>2, <1>4, <1>10 DEF React
<1>11. CASE Notify(c)
  BY <1>1, <1>2, <1>3, <1>11 DEF Notify, database
<1> QED  BY <1>5, <1>6, <1>7, <1>8, <1>9, <1>10, <1>11 DEF Step

\* The calls stay serial, and what is deleted gone, whatever a call does.
LEMMA StepKeepsSerial ==
    ASSUME TypeOK, Serial, GoneIsGone, NEW c \in Calls, Step(c)
    PROVE  Serial' /\ GoneIsGone'
<1>1. GoneIsGone'
  <2>1. \A m \in Monitors \ rows : saved'[m] = saved[m]
    <3>1. CASE Save(c)
      <4>1. PICK ok \in Effective(Monitor(c)) :
                saved' = IF ok THEN [saved EXCEPT ![Monitor(c)] = Decided(c)] ELSE saved
        BY <3>1 DEF Save
      <4> QED  BY <4>1 DEF TypeOK, Effective
    <3>2. CASE ~ Save(c)
      BY <3>2 DEF Step, Screen, Read, Write, Record, React, Notify, database
    <3> QED  BY <3>1, <3>2
  <2> QED  BY <2>1, StepFrame DEF GoneIsGone
<1>2. ASSUME NEW d \in Calls, NEW e \in Calls, Busy(d)', Busy(e)', Monitor(d)' = Monitor(e)'
      PROVE  d = e
  <2>1. \A x \in {d, e} : Busy(x) /\ Monitor(x)' = Monitor(x)
    BY <1>2, StepFrame DEF Busy, Monitor
  <2> QED  BY <1>2, <2>1 DEF Serial
<1> QED  BY <1>1, <1>2 DEF Serial

\* What the other calls stand on is not touched by a step that leaves the
\* monitors other than its own alone.
LEMMA OthersStand ==
    ASSUME TypeOK, Serial, ReadStands, DecisionStands, NEW c \in Calls, Step(c),
           \A m \in Monitors \ {Monitor(c)} : states'[m] = states[m] /\ alerted'[m] = alerted[m]
    PROVE  \A d \in Calls \ {c} :
             /\ pc'[d] = "write" =>
                   states[Monitor(d)]' = seen'[d] \/ ~ alerted[Monitor(d)]'
             /\ pc'[d] \in {"save", "record", "react", "notify"} /\ Monitor(d)' \in rows' =>
                   states[Monitor(d)]' = Decided(d)'
             /\ pc'[d] \in {"record", "react", "notify"} => HasEvent(d)'
             /\ /\ pc'[d] \in {"save", "record", "react", "notify"}
                /\ HasEvent(d)' /\ beat'[d].status = "down"
                => ~ alerted[Monitor(d)]'
<1> SUFFICES ASSUME NEW d \in Calls \ {c}
             PROVE  /\ pc'[d] = "write" =>
                          states[Monitor(d)]' = seen'[d] \/ ~ alerted[Monitor(d)]'
                    /\ pc'[d] \in {"save", "record", "react", "notify"} /\ Monitor(d)' \in rows' =>
                          states[Monitor(d)]' = Decided(d)'
                    /\ pc'[d] \in {"record", "react", "notify"} => HasEvent(d)'
                    /\ /\ pc'[d] \in {"save", "record", "react", "notify"}
                       /\ HasEvent(d)' /\ beat'[d].status = "down"
                       => ~ alerted[Monitor(d)]'
  OBVIOUS
<1>1. /\ pc'[d] = pc[d] /\ beat'[d] = beat[d] /\ seen'[d] = seen[d] /\ rules'[d] = rules[d]
      /\ Busy(d) => Monitor(d) # Monitor(c)
      /\ rows' = rows
  BY StepFrame
<1>2. Monitor(d)' = Monitor(d) /\ Decided(d)' = Decided(d) /\ (HasEvent(d)' <=> HasEvent(d))
  BY <1>1 DEF Monitor, Decided, HasEvent, Threshold
<1>3. Monitor(d) \in Monitors
  BY DecidedType
<1>4. CASE pc[d] = "idle"
  BY <1>1, <1>4
<1>5. CASE pc[d] # "idle"
  <2>1. /\ states[Monitor(d)]' = states[Monitor(d)]
        /\ alerted[Monitor(d)]' = alerted[Monitor(d)]
    BY <1>1, <1>2, <1>3, <1>5 DEF Busy
  <2> QED  BY <1>1, <1>2, <2>1 DEF ReadStands, DecisionStands
<1> QED  BY <1>4, <1>5

\* The steps of a call keep the invariant.
LEMMA StepKeepsInvariant ==
    ASSUME ~ StoreFails, AlertInvariant, TypeOK', NEW c \in Calls, Step(c)
    PROVE  AlertInvariant'
<1> DEFINE m == Monitor(c)
<1> USE DEF AlertInvariant
<1>0. /\ m \in Monitors /\ Decided(c) \in MonitorState
      /\ beat[c].status \in Status /\ seen[c] \in MonitorState /\ Threshold(c) \in Nat
  BY DecidedType
<1>1. Serial' /\ GoneIsGone'
  BY StepKeepsSerial
<1>2. HasEvent(c) => Decided(c).status = beat[c].status /\ seen[c].status # beat[c].status
  BY <1>0, AnnouncedChange DEF HasEvent, Decided
<1>3. SUFFICES ASSUME TypeOK', Serial', GoneIsGone'
               PROVE  AlertedIsDown' /\ ReadStands' /\ DecisionStands' /\ SavedUnlessSaving'
  BY <1>1
<1>4. \A d \in Calls \ {c} :
        /\ pc'[d] = pc[d] /\ beat'[d] = beat[d]
        /\ Monitor(d)' = Monitor(d)
  BY StepFrame DEF Monitor
<1>5. ASSUME UNCHANGED <<states, alerted, saved>>,
             pc[c] \notin {"save"}, pc'[c] \notin {"write", "save", "record", "react", "notify"}
      PROVE  AlertedIsDown' /\ ReadStands' /\ DecisionStands' /\ SavedUnlessSaving'
  <2>1. AlertedIsDown'
    BY <1>5, StepFrame DEF AlertedIsDown
  <2>2. ReadStands' /\ DecisionStands'
    BY <1>5, OthersStand DEF ReadStands, DecisionStands
  <2>3. SavedUnlessSaving'
    BY <1>4, <1>5, StepFrame DEF SavedUnlessSaving
  <2> QED  BY <2>1, <2>2, <2>3
<1>6. CASE Screen(c)
  BY <1>5, <1>6 DEF Screen, database, ghosts, TypeOK
<1>7. CASE Read(c)
  <2>1. UNCHANGED <<states, alerted, saved, rows>> /\ pc[c] = "read"
    BY <1>7 DEF Read, memory, database
  <2>2. CASE Matters(c)
    <3>1. pc'[c] = "write" /\ seen'[c] = states[m] /\ beat'[c] = beat[c]
      BY <1>7, <2>2 DEF Read, TypeOK
    <3>2. AlertedIsDown'
      BY <2>1 DEF AlertedIsDown
    <3>3. ReadStands' /\ DecisionStands'
      BY <2>1, <3>1, OthersStand DEF ReadStands, DecisionStands, Monitor
    <3>4. SavedUnlessSaving'
      BY <1>4, <2>1 DEF SavedUnlessSaving
    <3> QED  BY <3>2, <3>3, <3>4
  <2>3. CASE ~ Matters(c)
    <3>1. pc'[c] = "idle"
      BY <1>7, <2>3 DEF Read, Return, TypeOK
    <3> QED  BY <1>5, <2>1, <3>1
  <2> QED  BY <2>2, <2>3
<1>8. CASE Write(c)
  <2>1. /\ pc[c] = "write" /\ pc'[c] = "save"
        /\ beat' = beat /\ seen' = seen /\ rules' = rules
        /\ rows' = rows /\ saved' = saved
        /\ states' = [states EXCEPT ![m] = Decided(c)]
        /\ alerted' = [alerted EXCEPT
                          ![m] = @ /\ ~ (seen[c].status = "down" /\ Decided(c).status # "down")]
    BY <1>8 DEF Write, Goto, database, TypeOK
  <2>2. /\ Monitor(c)' = m /\ Decided(c)' = Decided(c) /\ (HasEvent(c)' <=> HasEvent(c))
        /\ states'[m] = Decided(c)
        /\ alerted'[m] <=> alerted[m] /\ ~ (seen[c].status = "down" /\ Decided(c).status # "down")
    BY <1>0, <2>1 DEF Monitor, Decided, HasEvent, Threshold, TypeOK
  <2>3. \A x \in Monitors \ {m} : states'[x] = states[x] /\ alerted'[x] = alerted[x]
    BY <1>0, <2>1 DEF TypeOK
  <2>4. alerted[m] => seen[c].status = "down"
    BY <1>0, <2>1 DEF ReadStands, AlertedIsDown
  <2>5. AlertedIsDown'
    BY <2>1, <2>2, <2>3, <2>4 DEF AlertedIsDown
  <2>6. ReadStands'
    BY <2>1, <2>3, OthersStand DEF ReadStands
  <2>7. DecisionStands'
    <3>1. HasEvent(c) /\ beat[c].status = "down" => ~ alerted'[m]
      BY <1>2, <2>2, <2>4
    <3> QED  BY <2>1, <2>2, <2>3, <3>1, OthersStand DEF DecisionStands
  <2>8. SavedUnlessSaving'
    <3> SUFFICES ASSUME NEW x \in rows
                 PROVE  saved'[x] = states'[x] \/ \E d \in Calls : pc'[d] = "save" /\ Monitor(d)' = x
      BY <2>1 DEF SavedUnlessSaving
    <3>1. CASE x = m
      BY <2>1, <2>2, <3>1
    <3>2. CASE x # m
      <4>1. x \in Monitors /\ saved'[x] = saved[x] /\ states'[x] = states[x]
        BY <2>1, <2>3, <3>2 DEF TypeOK
      <4>2. saved[x] = states[x] \/ \E d \in Calls \ {c} : pc[d] = "save" /\ Monitor(d) = x
        BY <2>1 DEF SavedUnlessSaving
      <4> QED  BY <1>4, <4>1, <4>2
    <3> QED  BY <3>1, <3>2
  <2> QED  BY <2>5, <2>6, <2>7, <2>8
<1>9. CASE Save(c)
  <2>1. /\ pc[c] = "save" /\ states' = states /\ alerted' = alerted /\ rows' = rows
        /\ saved' = IF m \in rows THEN [saved EXCEPT ![m] = Decided(c)] ELSE saved
    BY <1>9, EffectiveIsRow DEF Save, memory, ghosts
  <2>2. \/ pc'[c] = "idle"
        \/ /\ pc'[c] = "record" /\ HasEvent(c)
           /\ beat' = beat /\ seen' = seen /\ rules' = rules
    BY <1>9 DEF Save, Return, Goto, TypeOK
  <2>3. m \in rows => states[m] = Decided(c)
    BY <2>1 DEF DecisionStands
  <2>4. \A x \in rows : saved'[x] = IF x = m THEN states[m] ELSE saved[x]
    BY <1>0, <2>1, <2>3 DEF TypeOK
  <2>5. AlertedIsDown'
    BY <2>1, <2>4 DEF AlertedIsDown, TypeOK
  <2>6. ReadStands'
    BY <2>1, <2>2, OthersStand DEF ReadStands
  <2>7. DecisionStands'
    <3>1. CASE pc'[c] = "idle"
      BY <2>1, <3>1, OthersStand DEF DecisionStands
    <3>2. CASE /\ pc'[c] = "record" /\ HasEvent(c)
               /\ beat' = beat /\ seen' = seen /\ rules' = rules
      <4>1. Monitor(c)' = m /\ Decided(c)' = Decided(c) /\ HasEvent(c)'
        BY <3>2 DEF Monitor, Decided, HasEvent, Threshold
      <4> QED  BY <2>1, <3>2, <4>1, OthersStand DEF DecisionStands
    <3> QED  BY <2>2, <3>1, <3>2
  <2>8. SavedUnlessSaving'
    BY <1>4, <2>1, <2>4 DEF SavedUnlessSaving
  <2> QED  BY <2>5, <2>6, <2>7, <2>8
<1>10. ASSUME pc[c] \in {"record", "react"}, pc'[c] \in {"react", "notify"},
              UNCHANGED <<beat, seen, rules, states, alerted, saved>>
       PROVE  AlertedIsDown' /\ ReadStands' /\ DecisionStands' /\ SavedUnlessSaving'
  <2>1. Monitor(c)' = m /\ Decided(c)' = Decided(c) /\ (HasEvent(c)' <=> HasEvent(c))
    BY <1>10 DEF Monitor, Decided, HasEvent, Threshold
  <2>2. AlertedIsDown'
    BY <1>10, StepFrame DEF AlertedIsDown
  <2>3. ReadStands' /\ DecisionStands'
    BY <1>10, <2>1, StepFrame, OthersStand DEF ReadStands, DecisionStands
  <2>4. SavedUnlessSaving'
    BY <1>4, <1>10, StepFrame DEF SavedUnlessSaving
  <2> QED  BY <2>2, <2>3, <2>4
<1>11. CASE Record(c)
  BY <1>10, <1>11 DEF Record, Goto, memory, ghosts, TypeOK
<1>12. CASE React(c)
  BY <1>10, <1>12 DEF React, Goto, memory, ghosts, TypeOK
<1>13. CASE Notify(c)
  <2>1. /\ pc[c] = "notify" /\ pc'[c] = "idle"
        /\ UNCHANGED <<states, saved, rows>>
        /\ alerted' = [alerted EXCEPT ![m] = @ \/ (m \in rows /\ beat[c].status = "down")]
    <3>1. PICK ok \in Effective(m) : alerted' = [alerted EXCEPT ![m] = @ \/ (ok /\ Alerts(c))]
      BY <1>13 DEF Notify
    <3>2. pc[c] = "notify" /\ (ok /\ Alerts(c) <=> m \in rows /\ beat[c].status = "down")
      BY <1>13, EffectiveIsRow DEF Notify, Alerts
    <3>3. alerted' = [alerted EXCEPT ![m] = @ \/ (m \in rows /\ beat[c].status = "down")]
      BY <1>0, <3>1, <3>2 DEF TypeOK
    <3>4. pc'[c] = "idle" /\ UNCHANGED <<states, saved, rows>>
      BY <1>13 DEF Notify, Return, memory, database, TypeOK
    <3> QED  BY <3>2, <3>3, <3>4
  <2>2. \A x \in Monitors \ {m} : states'[x] = states[x] /\ alerted'[x] = alerted[x]
    BY <1>0, <2>1 DEF TypeOK
  <2>3. m \in rows /\ beat[c].status = "down" => states[m].status = "down"
    BY <1>2, <2>1 DEF DecisionStands
  <2>4. m \in rows => saved[m] = states[m]
    BY <2>1 DEF SavedUnlessSaving, Serial, Busy
  <2>5. AlertedIsDown'
    BY <1>0, <2>1, <2>2, <2>3, <2>4 DEF AlertedIsDown, TypeOK
  <2>6. ReadStands' /\ DecisionStands'
    BY <2>1, <2>2, OthersStand DEF ReadStands, DecisionStands
  <2>7. SavedUnlessSaving'
    BY <1>4, <2>1 DEF SavedUnlessSaving
  <2> QED  BY <2>5, <2>6, <2>7
<1> QED  BY <1>6, <1>7, <1>8, <1>9, <1>11, <1>12, <1>13 DEF Step

\* A step that leaves the calls and what is decided alone keeps the invariant.
LEMMA QuietStep ==
    ASSUME AlertInvariant, TypeOK',
           UNCHANGED <<pc, beat, seen, rules, states, alerted, saved, rows, leaving>>
    PROVE  AlertInvariant'
BY DEF AlertInvariant, Serial, GoneIsGone, AlertedIsDown, ReadStands, DecisionStands,
       SavedUnlessSaving, Busy, Monitor, Decided, HasEvent, Threshold

\* The engine starts in the inductive invariant.
LEMMA InitInvariant == Init => AlertInvariant
<1> SUFFICES ASSUME Init PROVE AlertInvariant
  OBVIOUS
<1>1. TypeOK
  BY InitType
<1>2. Serial /\ GoneIsGone /\ AlertedIsDown /\ ReadStands /\ DecisionStands
  BY DEF Init, Serial, GoneIsGone, AlertedIsDown, ReadStands, DecisionStands, Busy
<1>3. SavedUnlessSaving
  BY DEF Init, SavedUnlessSaving
<1> QED  BY <1>1, <1>2, <1>3 DEF AlertInvariant

\* Every step of the engine and of its environment keeps the invariant.
LEMMA InvariantStep ==
    ASSUME ~ Overlap, ~ StoreFails, AlertInvariant, [Next]_vars
    PROVE  AlertInvariant'
<1>0. TypeOK /\ TypeOK'
  BY TypeStep DEF AlertInvariant
<1>1. CASE Tick
  BY <1>0, <1>1, QuietStep DEF Tick, memory, calls, database, ghosts
<1>2. CASE MaintenanceChanges
  BY <1>0, <1>2, QuietStep DEF MaintenanceChanges, memory, calls, database, ghosts
<1>3. ASSUME NEW m \in Monitors, Check(m) PROVE AlertInvariant'
  <2> PICK c \in Calls, status \in Results, repeated \in BOOLEAN :
          Begin(c, m, status, repeated)
    BY <1>3 DEF Check
  <2>1. /\ pc[c] = "idle" /\ Quiet(m)
        /\ pc'[c] = "screen" /\ beat'[c].monitor = m
        /\ UNCHANGED <<seen, rules, states, alerted, saved, rows, leaving>>
        /\ \A d \in Calls \ {c} : pc'[d] = pc[d] /\ beat'[d] = beat[d]
    BY <1>0 DEF Begin, TypeOK, memory, database
  <2>2. \A d \in Calls \ {c} : /\ Monitor(d)' = Monitor(d) /\ Decided(d)' = Decided(d)
                               /\ HasEvent(d)' <=> HasEvent(d)
    BY <2>1 DEF Monitor, Decided, HasEvent, Threshold
  <2>3. Serial'
    BY <2>1, <2>2 DEF AlertInvariant, Serial, Quiet, Busy, Monitor
  <2>4. GoneIsGone' /\ AlertedIsDown'
    BY <2>1 DEF AlertInvariant, GoneIsGone, AlertedIsDown
  <2>5. ReadStands' /\ DecisionStands'
    BY <2>1, <2>2 DEF AlertInvariant, ReadStands, DecisionStands
  <2>6. SavedUnlessSaving'
    BY <2>1, <2>2 DEF AlertInvariant, SavedUnlessSaving
  <2> QED  BY <1>0, <2>3, <2>4, <2>5, <2>6 DEF AlertInvariant
<1>4. ASSUME NEW c \in Calls, Step(c) PROVE AlertInvariant'
  BY <1>0, <1>4, StepKeepsInvariant
<1>5. ASSUME NEW m \in Monitors, Upsert(m) PROVE AlertInvariant'
  BY <1>0, <1>5, QuietStep DEF Upsert, calls, database, ghosts
<1>6. ASSUME NEW m \in Monitors, DeleteRow(m) PROVE AlertInvariant'
  <2>1. /\ UNCHANGED <<pc, beat, seen, rules, states, alerted>>
        /\ rows' = rows \ {m} /\ leaving' = leaving \cup {m}
        /\ \A x \in Monitors \ {m} : saved'[x] = saved[x]
    BY <1>0, <1>6 DEF DeleteRow, memory, calls, ghosts, TypeOK
  <2>2. Serial' /\ ReadStands' /\ DecisionStands'
    BY <2>1 DEF AlertInvariant, Serial, ReadStands, DecisionStands, Busy, Monitor, Decided,
                HasEvent, Threshold
  <2>3. GoneIsGone'
    <3>1. saved'[m] = NeverMeasured
      BY <1>0, <1>6 DEF DeleteRow, TypeOK
    <3> QED  BY <2>1, <3>1 DEF AlertInvariant, GoneIsGone
  <2>4. AlertedIsDown' /\ SavedUnlessSaving'
    BY <1>0, <2>1 DEF AlertInvariant, AlertedIsDown, SavedUnlessSaving, Monitor, TypeOK
  <2> QED  BY <1>0, <2>2, <2>3, <2>4 DEF AlertInvariant
<1>7. ASSUME NEW m \in Monitors, Remove(m) PROVE AlertInvariant'
  <2>1. /\ UNCHANGED <<pc, beat, seen, rules, saved, rows>>
        /\ m \notin rows /\ leaving' = leaving \ {m} /\ ~ alerted'[m]
        /\ \A x \in Monitors \ {m} : states'[x] = states[x] /\ alerted'[x] = alerted[x]
    BY <1>0, <1>7 DEF Remove, Forgotten, calls, database, TypeOK, AlertInvariant, GoneIsGone
  <2>2. Serial' /\ GoneIsGone'
    BY <2>1 DEF AlertInvariant, Serial, GoneIsGone, Busy, Monitor
  <2>3. AlertedIsDown'
    BY <2>1 DEF AlertInvariant, AlertedIsDown
  <2>4. \A c \in Calls : /\ Monitor(c)' = Monitor(c) /\ Monitor(c) \in Monitors
                         /\ Decided(c)' = Decided(c) /\ (HasEvent(c)' <=> HasEvent(c))
    BY <1>0, <2>1, DecidedType DEF Monitor, Decided, HasEvent, Threshold
  <2>5. ReadStands' /\ DecisionStands'
    BY <2>1, <2>4 DEF AlertInvariant, ReadStands, DecisionStands
  <2>6. SavedUnlessSaving'
    <3>1. \A x \in rows : x \in Monitors /\ states'[x] = states[x] /\ saved'[x] = saved[x]
      BY <1>0, <2>1 DEF TypeOK
    <3> QED  BY <2>1, <2>4, <3>1 DEF AlertInvariant, SavedUnlessSaving
  <2> QED  BY <1>0, <2>2, <2>3, <2>5, <2>6 DEF AlertInvariant
<1>8. CASE Restart
  <2>1. /\ states' = saved /\ saved' = saved /\ rows' = rows /\ leaving' = {}
        /\ \A c \in Calls : pc'[c] = "idle"
        /\ \A m \in Monitors : alerted'[m] => alerted[m] /\ m \in rows
    BY <1>8 DEF Restart, Loaded, database
  <2>2. Serial' /\ GoneIsGone' /\ ReadStands' /\ DecisionStands'
    BY <2>1 DEF AlertInvariant, Serial, GoneIsGone, ReadStands, DecisionStands, Busy
  <2>3. AlertedIsDown' /\ SavedUnlessSaving'
    BY <2>1 DEF AlertInvariant, AlertedIsDown, SavedUnlessSaving
  <2> QED  BY <1>0, <2>2, <2>3 DEF AlertInvariant
<1>9. CASE UNCHANGED vars
  BY <1>0, <1>9, QuietStep DEF vars, memory, calls, database, ghosts
<1> QED  BY <1>1, <1>2, <1>3, <1>4, <1>5, <1>6, <1>7, <1>8, <1>9 DEF Next

\* The inductive invariant holds in every reachable state.
THEOREM Invariance ==
    ASSUME ~ Overlap, ~ StoreFails
    PROVE  Spec => []AlertInvariant
<1>1. Init => AlertInvariant
  BY InitInvariant
<1>2. AlertInvariant /\ [Next]_vars => AlertInvariant'
  BY InvariantStep
<1> QED  BY <1>1, <1>2, PTL DEF Spec

\* The alert of an outage is sent once, across crashes, restarts, edits and
\* deletions, for any number of monitors checked at the same time
\* (engine.go evaluate, notify, Load).
THEOREM AlertSentOnce ==
    ASSUME ~ Overlap, ~ StoreFails
    PROVE  Spec => []AlertOnce
<1>1. AlertInvariant => AlertOnce
  BY DEF AlertInvariant, DecisionStands, AlertOnce, Alerts
<1> QED  BY <1>1, Invariance, PTL

\* Between two checks of a monitor the database holds what memory holds
\* (engine.go evaluate, Load).
THEOREM MemoryIsSaved ==
    ASSUME ~ Overlap, ~ StoreFails
    PROVE  Spec => []SavedIsMemory
<1>1. AlertInvariant => SavedIsMemory
  BY DEF AlertInvariant, SavedUnlessSaving, SavedIsMemory, Quiet, Busy
<1> QED  BY <1>1, Invariance, PTL

-----------------------------------------------------------------------------
(***************************************************************************)
(* Refinement.                                                             *)
(***************************************************************************)
\* The outage of m as the contract sees it.
Outage(m) == states[m].status = "down"

\* What happens to one monitor is one of the moves of the contract.
Move(m) ==
    \/ (Outage(m)' <=> Outage(m)) /\ (alerted[m]' <=> alerted[m])
    \/ ~ Outage(m) /\ Outage(m)' /\ ~ alerted[m] /\ ~ alerted[m]'
    \/ Outage(m) /\ Outage(m)' /\ ~ alerted[m] /\ alerted[m]'
    \/ Outage(m) /\ ~ Outage(m)' /\ ~ alerted[m]'

\* Every step is, for each monitor, one of the moves of the contract.
LEMMA MoveOfEachStep ==
    ASSUME ~ Overlap, ~ StoreFails, AlertInvariant, [Next]_vars, NEW m \in Monitors
    PROVE  Move(m)
<1>0. TypeOK /\ TypeOK' /\ AlertInvariant'
  BY InvariantStep DEF AlertInvariant
<1>1. (alerted[m] => Outage(m)) /\ (alerted[m]' => Outage(m)')
  BY <1>0 DEF AlertInvariant, AlertedIsDown, Outage
<1>2. ASSUME ~ Outage(m), Outage(m)' PROVE ~ alerted[m]'
  <2>1. ~ alerted[m]
    BY <1>1, <1>2
  <2>2. ~ UNCHANGED states
    BY <1>2 DEF Outage
  <2>3. (\E c \in Calls : Write(c)) \/ (\E x \in Monitors : Remove(x)) \/ Restart
    BY <2>2 DEF Next, Step, Tick, MaintenanceChanges, Check, Begin, Screen, Read, Save,
                Record, React, Notify, Upsert, DeleteRow, vars, memory
  <2>4. ASSUME NEW c \in Calls, Write(c) PROVE ~ alerted[m]'
    BY <1>0, <2>1, <2>4 DEF Write, TypeOK
  <2>5. ASSUME NEW x \in Monitors, Remove(x) PROVE ~ alerted[m]'
    BY <1>0, <2>1, <2>5 DEF Remove, Forgotten, TypeOK
  <2>6. CASE Restart
    BY <1>0, <2>1, <2>6 DEF Restart, Loaded
  <2> QED  BY <2>3, <2>4, <2>5, <2>6
<1>3. ASSUME alerted[m], ~ alerted[m]' PROVE ~ Outage(m)'
  <2>1. ~ UNCHANGED alerted
    BY <1>3
  <2>2. (\E c \in Calls : Write(c) \/ Notify(c)) \/ (\E x \in Monitors : Remove(x)) \/ Restart
    BY <2>1 DEF Next, Step, Tick, MaintenanceChanges, Check, Begin, Screen, Read, Save,
                Record, React, Upsert, DeleteRow, vars, ghosts
  <2>3. ASSUME NEW c \in Calls, Write(c) PROVE ~ Outage(m)'
    <3>1. m = Monitor(c) /\ Decided(c).status # "down"
      BY <1>0, <1>3, <2>3 DEF Write, TypeOK
    <3> QED  BY <1>0, <2>3, <3>1 DEF Write, Outage, TypeOK
  <2>4. ASSUME NEW c \in Calls, Notify(c) PROVE ~ Outage(m)'
    BY <1>0, <1>3, <2>4 DEF Notify, TypeOK
  <2>5. ASSUME NEW x \in Monitors, Remove(x) PROVE ~ Outage(m)'
    BY <1>0, <1>3, <2>5 DEF Remove, Forgotten, Outage, NeverMeasured, TypeOK
  <2>6. CASE Restart
    <3>1. m \notin rows
      BY <1>3, <2>6 DEF Restart, Loaded
    <3>2. states'[m] = NeverMeasured
      BY <2>6, <3>1 DEF Restart, Loaded, AlertInvariant, GoneIsGone
    <3> QED  BY <3>2 DEF Outage, NeverMeasured
  <2> QED  BY <2>2, <2>3, <2>4, <2>5, <2>6
<1> QED  BY <1>1, <1>2, <1>3 DEF Move

\* The engine implements the contract: each confirmed outage is told at most
\* once, while it lasts, and nothing else is ever told as an outage
\* (engine.go evaluate, record, notify, Load, Upsert, Remove).
THEOREM EngineKeepsContract ==
    ASSUME ~ Overlap, ~ StoreFails
    PROVE  Spec => KeepsContract
<1> DEFINE outage == [m \in Monitors |-> states[m].status = "down"]
<1>1. Init => Contract!Init
  <2> SUFFICES ASSUME Init PROVE Contract!Init
    OBVIOUS
  <2>1. \A m \in Monitors : (states[m].status = "down") = FALSE
    BY DEF Init, NeverMeasured
  <2>2. outage = [m \in Monitors |-> FALSE]
    BY <2>1, Zenon
  <2>3. alerted = [m \in Monitors |-> FALSE]
    BY DEF Init
  <2> QED  BY <2>2, <2>3 DEF Contract!Init
<1>2. AlertInvariant /\ [Next]_vars => [Contract!Next]_<<outage, alerted>>
  <2> SUFFICES ASSUME AlertInvariant, [Next]_vars PROVE Contract!Next
    OBVIOUS
  <2>1. alerted' \in [Monitors -> BOOLEAN]
    BY TypeStep DEF AlertInvariant, TypeOK
  <2>2. ASSUME NEW m \in Monitors
        PROVE  Contract!Same(m) \/ Contract!Starts(m) \/ Contract!Tells(m) \/ Contract!Ends(m)
    <3>1. Move(m)
      BY MoveOfEachStep
    <3>2. alerted[m] \in BOOLEAN /\ alerted[m]' \in BOOLEAN
      BY <2>1 DEF AlertInvariant, TypeOK
    <3>3. (outage[m] = Outage(m)) /\ (outage'[m] = Outage(m)')
      BY DEF Outage
    <3>4. CASE (Outage(m)' <=> Outage(m)) /\ (alerted[m]' <=> alerted[m])
      <4>1. outage'[m] = outage[m]
        BY <3>3, <3>4, Zenon DEF Outage
      <4>2. alerted'[m] = alerted[m]
        BY <3>2, <3>4
      <4> QED  BY <4>1, <4>2 DEF Contract!Same
    <3>5. CASE ~ ((Outage(m)' <=> Outage(m)) /\ (alerted[m]' <=> alerted[m]))
      BY <3>1, <3>3, <3>5, Zenon DEF Move, Outage, Contract!Starts, Contract!Tells, Contract!Ends
    <3> QED  BY <3>4, <3>5
  <2> QED  BY <2>1, <2>2 DEF Contract!Next
<1> QED  BY <1>1, <1>2, Invariance, PTL DEF Spec, KeepsContract, Contract!Spec

-----------------------------------------------------------------------------
(***************************************************************************)
(* The history the engine leaves in the database, the tables of            *)
(* transitions and of incidents, and the counts behind it.  A monitor a    *)
(* call of which a crash cut short is left aside: nothing makes up for     *)
(* what that call did not write.                                           *)
(***************************************************************************)
\* The steps of a call at which memory holds what it decided.
Late == {"save", "record", "react", "notify"}

\* No call at one of these steps is about m.
Undisturbed(m, steps) == \A c \in Calls : pc[c] \in steps => Monitor(c) # m

\* The tables say of m what the status s asks for.
Agrees(m, s) ==
    /\ open[m] <=> s = "down"
    /\ timeline[m] = s \/ (timeline[m] = "unknown" /\ s = "up")

\* What the tables hold at each step of a call.
CallOnRecord(c) ==
    LET m == Monitor(c) IN
    /\ pc[c] = "write" => seen[c] = states[m]
    /\ pc[c] \in {"save", "record"} => Agrees(m, seen[c].status)
    /\ pc[c] \in {"react", "notify"} => timeline[m] = beat[c].status
    /\ pc[c] = "react" => (open[m] <=> seen[c].status = "down")
    /\ pc[c] = "notify" => (open[m] <=> beat[c].status = "down")

OnRecord ==
    /\ \A m \in rows \ cut : Undisturbed(m, Late) => Agrees(m, states[m].status)
    /\ \A c \in Calls : Monitor(c) \in rows \ cut => CallOnRecord(c)

\* The ghost has counted n equal observations of m, as far as it counts.
Reaches(m, n) == run[m].length >= n \/ run[m].length = MaxRun

\* What the machine counts for m, the ghost has counted.
RunCounted(m) ==
    states[m].candidate # "unknown" =>
        run[m].of = states[m].candidate /\ Reaches(m, states[m].consecutive)

\* A call that moves the machine has counted its observation.
CallCounted(c) ==
    pc[c] \in {"write"} \cup Late =>
        /\ beat[c].status # "unknown"
        /\ run[Monitor(c)].of = beat[c].status
        /\ Reaches(Monitor(c), Count(seen[c], beat[c].status))

Counted ==
    /\ \A m \in Monitors : run[m].length <= MaxRun
    /\ \A m \in Monitors \ cut : Undisturbed(m, {"write"}) => RunCounted(m)
    /\ \A c \in Calls : Monitor(c) \notin cut => CallCounted(c)

\* Kept by every step, together with the invariant of the alerts.
HistoryInvariant == AlertInvariant /\ OnRecord /\ ToldOnlyOfOpenIncidents /\ Counted

-----------------------------------------------------------------------------
(***************************************************************************)
(* The confirmation machine.                                               *)
(***************************************************************************)
\* The candidate of the state after a measurement is what was measured, with
\* the count that includes it (incident/state.go Next).
LEMMA CandidateCounted ==
    ASSUME NEW s \in MonitorState, NEW o \in Status \ {"unknown"}, NEW n \in Nat,
           NextState(s, o, n).candidate # "unknown"
    PROVE  NextState(s, o, n).candidate = o /\ NextState(s, o, n).consecutive = Count(s, o)
<1>1. CASE o = s.status
  <2>1. NextState(s, o, n) = [s EXCEPT !.candidate = "unknown", !.consecutive = 0]
    BY <1>1 DEF NextState, Moves, Confirms
  <2> QED  BY <2>1 DEF MonitorState
<1>2. CASE Moves(s, o) /\ ~ Confirms(s, o, n)
  <2>1. NextState(s, o, n) = [s EXCEPT !.candidate = o, !.consecutive = Count(s, o)]
    BY <1>2 DEF NextState, Moves
  <2> QED  BY <2>1 DEF MonitorState
<1>3. CASE Confirms(s, o, n)
  <2>1. NextState(s, o, n) = [status |-> o, candidate |-> "unknown", consecutive |-> 0]
    BY <1>3 DEF NextState, Moves, Confirms
  <2> QED  BY <2>1
<1> QED  BY <1>1, <1>2, <1>3 DEF Moves

\* A measurement that changes nothing finds no candidate
\* (incident/state.go Next).
LEMMA NothingChanges ==
    ASSUME NEW s \in MonitorState, NEW o \in Status \ {"unknown"}, NEW n \in Nat,
           NextState(s, o, n) = s
    PROVE  s.candidate = "unknown"
<1> SUFFICES ASSUME s.candidate # "unknown" PROVE FALSE
  OBVIOUS
<1>1. s.candidate = o /\ s.consecutive = Count(s, o)
  BY CandidateCounted
<1> QED  BY <1>1 DEF Count, MonitorState

\* What makes no event leaves the status, but for the first "up"
\* (incident/state.go confirm).
LEMMA SilentDecision ==
    ASSUME NEW s \in MonitorState, NEW o \in Status, NEW n \in Nat, ~ Announces(s, o, n)
    PROVE  \/ NextState(s, o, n).status = s.status
           \/ s.status = "unknown" /\ NextState(s, o, n).status = "up"
<1>1. CASE o = "unknown"
  BY <1>1 DEF NextState, Moves, Confirms
<1>2. CASE o # "unknown" /\ o = s.status
  <2>1. NextState(s, o, n) = [s EXCEPT !.candidate = "unknown", !.consecutive = 0]
    BY <1>2 DEF NextState, Moves, Confirms
  <2> QED  BY <2>1 DEF MonitorState
<1>3. CASE Moves(s, o) /\ ~ Confirms(s, o, n)
  <2>1. NextState(s, o, n) = [s EXCEPT !.candidate = o, !.consecutive = Count(s, o)]
    BY <1>3 DEF NextState, Moves
  <2> QED  BY <2>1 DEF MonitorState
<1>4. CASE Confirms(s, o, n)
  <2>1. NextState(s, o, n) = [status |-> o, candidate |-> "unknown", consecutive |-> 0]
    BY <1>4 DEF NextState, Moves, Confirms
  <2> QED  BY <1>4, <2>1 DEF Announces
<1> QED  BY <1>1, <1>2, <1>3, <1>4 DEF Moves

-----------------------------------------------------------------------------
(***************************************************************************)
(* A step of a call is about its own monitor only.                         *)
(***************************************************************************)
\* It touches no other monitor, in memory and in the tables.
LEMMA StepTouches ==
    ASSUME TypeOK, NEW c \in Calls, Step(c)
    PROVE  /\ \A x \in Monitors \ {Monitor(c)} :
                 /\ states'[x] = states[x] /\ timeline'[x] = timeline[x]
                 /\ open'[x] = open[x] /\ run'[x] = run[x]
           /\ cut' = cut /\ rows' = rows
<1>1. CASE Screen(c)
  BY <1>1 DEF Screen, database, ghosts
<1>2. CASE Read(c)
  BY <1>2 DEF Read, memory, database, TypeOK
<1>3. CASE Write(c)
  BY <1>3 DEF Write, database, TypeOK
<1>4. CASE Save(c)
  BY <1>4 DEF Save, memory, ghosts
<1>5. CASE Record(c)
  BY <1>5 DEF Record, memory, ghosts, TypeOK
<1>6. CASE React(c)
  BY <1>6 DEF React, memory, ghosts, TypeOK
<1>7. CASE Notify(c)
  BY <1>7 DEF Notify, memory, database
<1> QED  BY <1>1, <1>2, <1>3, <1>4, <1>5, <1>6, <1>7 DEF Step

\* Whether other monitors are disturbed does not change, and its own is for
\* as long as the call is at one of the steps.
LEMMA StepDisturbs ==
    ASSUME TypeOK, Serial, NEW c \in Calls, Step(c), NEW m \in Monitors, m = Monitor(c),
           NEW steps, "idle" \notin steps
    PROVE  /\ \A x \in Monitors \ {m} : Undisturbed(x, steps)' <=> Undisturbed(x, steps)
           /\ Undisturbed(m, steps) <=> pc[c] \notin steps
           /\ Undisturbed(m, steps)' <=> pc'[c] \notin steps
<1>1. /\ Busy(c)
      /\ \A d \in Calls \ {c} : /\ pc'[d] = pc[d] /\ Monitor(d)' = Monitor(d)
                                /\ Busy(d) => Monitor(d) # m
      /\ pc'[c] # "idle" => Monitor(c)' = m
  BY StepFrame DEF Monitor
<1>2. \A x \in Monitors \ {m} : Undisturbed(x, steps)' <=> Undisturbed(x, steps)
  BY <1>1 DEF Undisturbed
<1>3. Undisturbed(m, steps) <=> pc[c] \notin steps
  BY <1>1 DEF Undisturbed, Busy
<1>4. Undisturbed(m, steps)' <=> pc'[c] \notin steps
  BY <1>1 DEF Undisturbed, Busy
<1> QED  BY <1>2, <1>3, <1>4

\* The other calls stay on record and counted.
LEMMA OthersOnRecord ==
    ASSUME TypeOK, Serial, NEW c \in Calls, Step(c), NEW d \in Calls \ {c}
    PROVE  /\ Monitor(d)' = Monitor(d)
           /\ CallOnRecord(d) => CallOnRecord(d)'
           /\ CallCounted(d) => CallCounted(d)'
<1>1. /\ pc'[d] = pc[d] /\ beat'[d] = beat[d] /\ seen'[d] = seen[d]
      /\ Monitor(d)' = Monitor(d) /\ (Busy(d) => Monitor(d) # Monitor(c))
  BY StepFrame DEF Monitor
<1>2. CASE ~ Busy(d)
  BY <1>1, <1>2 DEF Busy, CallOnRecord, CallCounted, Late
<1>3. CASE Busy(d)
  <2>1. Monitor(d) \in Monitors \ {Monitor(c)}
    BY <1>1, <1>3, DecidedType
  <2>2. /\ states'[Monitor(d)] = states[Monitor(d)] /\ timeline'[Monitor(d)] = timeline[Monitor(d)]
        /\ open'[Monitor(d)] = open[Monitor(d)] /\ run'[Monitor(d)] = run[Monitor(d)]
    BY <2>1, StepTouches
  <2> QED  BY <1>1, <2>2 DEF CallOnRecord, CallCounted, Agrees, Reaches
<1> QED  BY <1>2, <1>3

\* It is enough to look at the call that takes the step, and at its monitor.
LEMMA OwnMonitorSuffices ==
    ASSUME TypeOK, Serial, OnRecord, Counted,
           NEW c \in Calls, Step(c), NEW m \in Monitors, m = Monitor(c),
           m \in rows \ cut =>
              /\ pc'[c] \notin Late => Agrees(m, states[m].status)'
              /\ pc'[c] # "idle" => CallOnRecord(c)',
           run'[m].length <= MaxRun,
           m \notin cut =>
              /\ pc'[c] # "write" => RunCounted(m)'
              /\ pc'[c] # "idle" => CallCounted(c)'
    PROVE  OnRecord' /\ Counted'
<1>0. "idle" \notin Late /\ "idle" \notin {"write"}
  BY DEF Late
<1>1. cut' = cut /\ rows' = rows /\ rows \subseteq Monitors
  BY StepTouches DEF TypeOK
<1>2. pc'[c] # "idle" => Monitor(c)' = m
  BY StepFrame DEF Monitor
<1>3. ASSUME NEW x \in (rows \ cut)', Undisturbed(x, Late)'
      PROVE  Agrees(x, states[x].status)'
  <2>1. CASE x = m
    BY <1>0, <1>1, <1>3, <2>1, StepDisturbs
  <2>2. CASE x # m
    <3>1. x \in Monitors \ {m} /\ x \in rows \ cut
      BY <1>1, <1>3, <2>2
    <3>2. Undisturbed(x, Late)
      BY <1>0, <1>3, <3>1, StepDisturbs
    <3>3. Agrees(x, states[x].status)
      BY <3>1, <3>2 DEF OnRecord
    <3> QED  BY <3>1, <3>3, StepTouches DEF Agrees
  <2> QED  BY <2>1, <2>2
<1>4. ASSUME NEW d \in Calls, Monitor(d)' \in (rows \ cut)' PROVE CallOnRecord(d)'
  <2>1. CASE d = c /\ pc'[c] = "idle"
    BY <2>1 DEF CallOnRecord
  <2>2. CASE d = c /\ pc'[c] # "idle"
    BY <1>1, <1>2, <1>4, <2>2
  <2>3. CASE d # c
    BY <1>1, <1>4, <2>3, OthersOnRecord DEF OnRecord
  <2> QED  BY <2>1, <2>2, <2>3
<1>5. ASSUME NEW x \in Monitors PROVE run'[x].length <= MaxRun
  BY StepTouches DEF Counted
<1>6. ASSUME NEW x \in Monitors \ cut', Undisturbed(x, {"write"})' PROVE RunCounted(x)'
  <2>1. CASE x = m
    BY <1>0, <1>1, <1>6, <2>1, StepDisturbs
  <2>2. CASE x # m
    <3>1. x \in Monitors \ {m} /\ x \notin cut
      BY <1>1, <1>6, <2>2
    <3>2. Undisturbed(x, {"write"})
      BY <1>0, <1>6, <3>1, StepDisturbs
    <3>3. RunCounted(x)
      BY <3>1, <3>2 DEF Counted
    <3> QED  BY <3>1, <3>3, StepTouches DEF RunCounted, Reaches
  <2> QED  BY <2>1, <2>2
<1>7. ASSUME NEW d \in Calls, Monitor(d)' \notin cut' PROVE CallCounted(d)'
  <2>1. CASE d = c /\ pc'[c] = "idle"
    BY <2>1 DEF CallCounted, Late
  <2>2. CASE d = c /\ pc'[c] # "idle"
    BY <1>1, <1>2, <1>7, <2>2
  <2>3. CASE d # c
    BY <1>1, <1>7, <2>3, OthersOnRecord DEF Counted
  <2> QED  BY <2>1, <2>2, <2>3
<1>8. OnRecord'
  BY <1>3, <1>4 DEF OnRecord
<1>9. Counted'
  BY <1>5, <1>6, <1>7 DEF Counted
<1> QED  BY <1>8, <1>9

\* The alert of an outage is prepared after its incident was opened
\* (engine.go record, notify).
LEMMA ToldStep ==
    ASSUME ~ StoreFails, TypeOK, Serial, ToldOnlyOfOpenIncidents, NEW c \in Calls, Step(c)
    PROVE  ToldOnlyOfOpenIncidents'
<1> SUFFICES ASSUME NEW d \in Calls, Alerts(d)' PROVE open[Monitor(d)]'
  BY DEF ToldOnlyOfOpenIncidents
<1>0. Monitor(c) \in Monitors /\ Monitor(d) \in Monitors
  BY DecidedType
<1>1. CASE d # c
  <2>1. /\ pc'[d] = pc[d] /\ beat'[d] = beat[d] /\ Monitor(d)' = Monitor(d)
        /\ (Busy(d) => Monitor(d) # Monitor(c)) /\ rows' = rows
    BY <1>1, StepFrame DEF Monitor
  <2>2. Alerts(d) /\ Busy(d)
    BY <2>1 DEF Alerts, Busy
  <2> QED  BY <1>0, <2>1, <2>2, StepTouches DEF ToldOnlyOfOpenIncidents
<1>2. CASE d = c
  <2>1. React(c)
    BY <1>2 DEF Alerts, Step, Screen, Read, Write, Save, Record, React, Notify, Goto, Return, TypeOK
  <2>2. /\ beat' = beat /\ rows' = rows /\ Monitor(c)' = Monitor(c)
        /\ beat[c].status = "down" /\ Monitor(c) \in rows
    BY <1>2, <2>1 DEF React, Goto, Alerts, Monitor
  <2>3. PICK ok \in Effective(Monitor(c)) :
          open' = IF ok /\ Touches(c)
                    THEN [open EXCEPT ![Monitor(c)] = beat[c].status = "down"] ELSE open
    BY <2>1 DEF React
  <2>4. ok /\ Touches(c)
    BY <2>2, EffectiveIsRow DEF Touches
  <2>5. open' = [open EXCEPT ![Monitor(c)] = (beat[c].status = "down")]
    BY <2>3, <2>4
  <2>6. open'[Monitor(c)]
    BY <1>0, <2>2, <2>5 DEF TypeOK
  <2> QED  BY <1>2, <2>2, <2>6
<1> QED  BY <1>1, <1>2

\* A step of a call that leaves alone what the history is about, and begins
\* and ends where nothing is owed, keeps it.
LEMMA EarlyStep ==
    ASSUME TypeOK, Serial, OnRecord, Counted, NEW c \in Calls, Step(c),
           pc[c] \in {"screen", "read"}, pc'[c] \in {"idle", "read"},
           UNCHANGED <<states, timeline, open, run>>
    PROVE  OnRecord' /\ Counted'
<1> PICK m \in Monitors : m = Monitor(c)
  BY DecidedType
<1>0. pc[c] \notin Late /\ pc[c] # "write" /\ pc'[c] \notin Late /\ pc'[c] # "write"
  BY DEF Late
<1>1. m \in rows \ cut => Agrees(m, states[m].status)'
  <2>1. Undisturbed(m, Late)
    BY <1>0, StepDisturbs DEF Late
  <2> QED  BY <2>1 DEF OnRecord, Agrees
<1>2. m \notin cut => RunCounted(m)'
  <2>1. Undisturbed(m, {"write"})
    BY <1>0, StepDisturbs
  <2> QED  BY <2>1 DEF Counted, RunCounted, Reaches
<1>3. CallOnRecord(c)' /\ CallCounted(c)'
  BY <1>0 DEF CallOnRecord, CallCounted, Late
<1>4. run'[m].length <= MaxRun
  BY DEF Counted
<1> QED  BY <1>0, <1>1, <1>2, <1>3, <1>4, OwnMonitorSuffices

\* One more equal observation is counted, as far as the ghost counts.
LEMMA LongerReaches ==
    ASSUME NEW k \in Nat, NEW n \in Nat, k <= MaxRun, k >= n \/ k = MaxRun
    PROVE  /\ Longer(k) \in Nat /\ Longer(k) <= MaxRun /\ Longer(k) >= 1
           /\ Longer(k) >= n + 1 \/ Longer(k) = MaxRun
BY DEF Longer

\* The read of a call counts its observation, whatever comes of it
\* (engine.go evaluate, first critical section).
LEMMA ReadStep ==
    ASSUME TypeOK, Serial, OnRecord, Counted, NEW c \in Calls, Read(c)
    PROVE  OnRecord' /\ Counted'
<1>0. PICK m \in Monitors : m = Monitor(c)
  BY DecidedType
<1>a. Step(c)
  BY DEF Step
<1>b. /\ pc[c] = "read"
      /\ UNCHANGED <<monitors, states, timeline, open, rows, cut>>
      /\ beat[c].status \in Status /\ states[m] \in MonitorState /\ monitors[m] \in Rule
      /\ pc'[c] = "write" \/ (pc'[c] = "idle" /\ ~ Matters(c))
  BY DecidedType DEF Read, Return, memory, database, TypeOK
<1>c. monitors[m].threshold \in Nat /\ states[m].consecutive \in Nat
      /\ run[m].length \in Nat
  BY <1>b DEF Rule, MonitorState, TypeOK
<1>d. Undisturbed(m, Late) /\ Undisturbed(m, {"write"})
  BY <1>0, <1>a, <1>b, StepDisturbs DEF Late
<1>e. (m \in rows \ cut => Agrees(m, states[m].status)) /\ (m \notin cut => RunCounted(m))
      /\ run[m].length <= MaxRun
  BY <1>d DEF OnRecord, Counted
<1>1. CASE ~ (Counts(c) /\ beat[c].status # "unknown")
  <2>1. run' = run
    BY <1>1 DEF Read
  <2>2. pc'[c] = "idle"
    <3>1. ~ Matters(c)
      BY <1>1 DEF Matters, NextState, Moves, Confirms
    <3> QED  BY <1>b, <3>1 DEF Read, Return, TypeOK
  <2> QED  BY <1>a, <1>b, <2>1, <2>2, EarlyStep
<1>2. CASE Counts(c) /\ beat[c].status # "unknown"
  <2> DEFINE o == beat[c].status
  <2>1. /\ o \in Status \ {"unknown"}
        /\ run'[m].of = o
        /\ run'[m].length = IF run[m].of = o THEN Longer(run[m].length) ELSE 1
    <3>1. run' = [run EXCEPT ![m] =
                    [of |-> o, length |-> IF @.of = o THEN Longer(@.length) ELSE 1]]
      BY <1>0, <1>2 DEF Read
    <3>2. run'[m] = [of |-> o, length |-> IF run[m].of = o THEN Longer(run[m].length) ELSE 1]
      BY <3>1 DEF TypeOK
    <3> QED  BY <1>b, <1>2, <3>2
  <2>2. run'[m].length <= MaxRun /\ run'[m].length >= 1 /\ run'[m].length \in Nat
    BY <1>c, <1>e, <2>1 DEF Longer
  <2>3. m \in rows \ cut => Agrees(m, states[m].status)'
    BY <1>b, <1>e DEF Agrees
  <2>4. m \notin cut /\ pc'[c] # "write" => RunCounted(m)'
    <3> SUFFICES ASSUME pc'[c] # "write" PROVE states[m].candidate = "unknown"
      BY <1>b DEF RunCounted
    <3>1. NextState(states[m], o, monitors[m].threshold) = states[m]
      BY <1>0, <1>2, <1>b DEF Matters
    <3> QED  BY <1>b, <1>c, <2>1, <3>1, NothingChanges
  <2>5. ASSUME pc'[c] = "write"
        PROVE  /\ seen'[c] = states[m] /\ beat' = beat /\ Monitor(c)' = m
    BY <1>0, <2>5 DEF Read, Return, Monitor, TypeOK
  <2>6. pc'[c] # "idle" => CallOnRecord(c)'
    BY <1>b, <2>5 DEF CallOnRecord
  <2>7. ASSUME m \notin cut, pc'[c] # "idle" PROVE CallCounted(c)'
    <3>1. Count(states[m], o) =
            IF o = states[m].candidate THEN states[m].consecutive + 1 ELSE 1
      BY DEF Count
    <3>2. run'[m].length >= Count(states[m], o) \/ run'[m].length = MaxRun
      <4>1. CASE o = states[m].candidate
        <5>1. run[m].of = o
              /\ (run[m].length >= states[m].consecutive \/ run[m].length = MaxRun)
          BY <1>e, <2>1, <2>7, <4>1 DEF RunCounted, Reaches
        <5> QED  BY <1>c, <1>e, <2>1, <3>1, <4>1, <5>1, LongerReaches
      <4>2. CASE o # states[m].candidate
        BY <2>2, <3>1, <4>2
      <4> QED  BY <4>1, <4>2
    <3>3. pc'[c] = "write"
      BY <1>b, <2>7
    <3> QED  BY <2>1, <2>5, <3>2, <3>3 DEF CallCounted, Reaches
  <2> QED  BY <1>0, <1>a, <2>2, <2>3, <2>4, <2>6, <2>7, OwnMonitorSuffices
<1> QED  BY <1>1, <1>2

\* What a call writes to memory is counted (engine.go evaluate, second
\* critical section).
LEMMA WriteStep ==
    ASSUME TypeOK, Serial, OnRecord, Counted, NEW c \in Calls, Write(c)
    PROVE  OnRecord' /\ Counted'
<1>0. PICK m \in Monitors : m = Monitor(c)
  BY DecidedType
<1>a. Step(c)
  BY DEF Step
<1>b. /\ pc[c] = "write" /\ pc'[c] = "save" /\ states'[m] = Decided(c)
      /\ UNCHANGED <<beat, seen, rules, timeline, open, run, rows, cut>>
      /\ Monitor(c)' = m
  BY <1>0 DEF Write, Goto, Monitor, database, TypeOK
<1>c. /\ beat[c].status \in Status /\ seen[c] \in MonitorState /\ Threshold(c) \in Nat
  BY DecidedType
<1>1. m \in rows \ cut => CallOnRecord(c)'
  <2> SUFFICES ASSUME m \in rows \ cut PROVE Agrees(m, seen[c].status)
    BY <1>b DEF CallOnRecord, Agrees
  <2>1. Undisturbed(m, Late)
    BY <1>0, <1>a, <1>b, StepDisturbs DEF Late
  <2>2. Agrees(m, states[m].status) /\ seen[c] = states[m]
    BY <1>0, <1>b, <2>1 DEF OnRecord, CallOnRecord
  <2> QED  BY <2>2
<1>2. ASSUME m \notin cut PROVE RunCounted(m)' /\ CallCounted(c)'
  <2>1. /\ beat[c].status # "unknown" /\ run[m].of = beat[c].status
        /\ Reaches(m, Count(seen[c], beat[c].status))
    BY <1>0, <1>b, <1>2 DEF Counted, CallCounted
  <2>2. Decided(c).candidate # "unknown" =>
          /\ Decided(c).candidate = beat[c].status
          /\ Decided(c).consecutive = Count(seen[c], beat[c].status)
    BY <1>c, <2>1, CandidateCounted DEF Decided
  <2>3. RunCounted(m)'
    BY <1>b, <2>1, <2>2 DEF RunCounted, Reaches
  <2>4. CallCounted(c)'
    BY <1>b, <2>1 DEF CallCounted, Reaches
  <2> QED  BY <2>3, <2>4
<1>3. run'[m].length <= MaxRun
  BY <1>b DEF Counted
<1>4. pc'[c] \in Late
  BY <1>b DEF Late
<1> QED  BY <1>0, <1>a, <1>1, <1>2, <1>3, <1>4, OwnMonitorSuffices

\* What is counted stays counted while a call writes to the database and
\* sends its alert.
LEMMA LateStep ==
    ASSUME TypeOK, Serial, OnRecord, Counted, NEW c \in Calls, Step(c),
           pc[c] \in Late, pc'[c] = "idle" \/ (pc'[c] \in Late /\ beat' = beat /\ seen' = seen),
           UNCHANGED <<states, run>>,
           NEW m \in Monitors, m = Monitor(c),
           m \in rows \ cut =>
              /\ pc'[c] = "idle" => Agrees(m, states[m].status)'
              /\ pc'[c] # "idle" => CallOnRecord(c)'
    PROVE  OnRecord' /\ Counted'
<1>0. pc[c] # "write" /\ pc'[c] # "write" /\ cut' = cut /\ (pc'[c] \notin Late => pc'[c] = "idle")
  BY StepTouches DEF Late
<1>1. run'[m].length <= MaxRun
  BY DEF Counted
<1>2. m \notin cut => RunCounted(m)'
  <2>1. Undisturbed(m, {"write"})
    BY <1>0, StepDisturbs
  <2> QED  BY <2>1 DEF Counted, RunCounted, Reaches
<1>3. m \notin cut /\ pc'[c] # "idle" => CallCounted(c)'
  <2> SUFFICES ASSUME m \notin cut, pc'[c] # "idle" PROVE CallCounted(c)'
    OBVIOUS
  <2>1. beat' = beat /\ seen' = seen /\ Monitor(c)' = m
    BY StepFrame DEF Monitor
  <2>2. CallCounted(c)
    BY DEF Counted
  <2> QED  BY <2>1, <2>2 DEF CallCounted, Reaches
<1> QED  BY <1>0, <1>1, <1>2, <1>3, OwnMonitorSuffices

\* A step of a call keeps history and counts (engine.go Submit to notify).
LEMMA StepKeepsHistory ==
    ASSUME ~ StoreFails, AlertInvariant, OnRecord, Counted, NEW c \in Calls, Step(c)
    PROVE  OnRecord' /\ Counted'
<1> USE DEF AlertInvariant
<1>0. PICK m \in Monitors : m = Monitor(c)
  BY DecidedType
<1>a. /\ beat[c].status \in Status /\ seen[c] \in MonitorState /\ Threshold(c) \in Nat
  BY DecidedType
<1>b. m \in rows \ cut => CallOnRecord(c)
  BY <1>0 DEF OnRecord
<1>1. CASE Screen(c)
  BY <1>1, EarlyStep DEF Screen, database, ghosts, TypeOK
<1>2. CASE Read(c)
  BY <1>2, ReadStep
<1>3. CASE Write(c)
  BY <1>3, WriteStep
<1>4. CASE Save(c)
  <2>1. /\ pc[c] = "save" /\ UNCHANGED <<states, timeline, open, run>>
        /\ \/ pc'[c] = "record" /\ beat' = beat /\ seen' = seen
           \/ pc'[c] = "idle" /\ ~ HasEvent(c)
    BY <1>4 DEF Save, Goto, Return, memory, ghosts, TypeOK
  <2>2. pc'[c] = "record" => Monitor(c)' = m
    BY <1>0, <2>1 DEF Monitor
  <2>3. ASSUME m \in rows \ cut, pc'[c] = "idle" PROVE Agrees(m, states[m].status)'
    <3>1. Agrees(m, seen[c].status)
      BY <1>0, <1>b, <2>1, <2>3 DEF CallOnRecord
    <3>2. \/ Decided(c).status = seen[c].status
          \/ seen[c].status = "unknown" /\ Decided(c).status = "up"
      BY <1>a, <2>1, <2>3, SilentDecision DEF HasEvent, Decided
    <3>3. states[m] = Decided(c)
      BY <1>0, <2>1, <2>3 DEF DecisionStands
    <3> QED  BY <2>1, <3>1, <3>2, <3>3 DEF Agrees
  <2>4. m \in rows \ cut /\ pc'[c] # "idle" => CallOnRecord(c)'
    BY <1>0, <1>b, <2>1, <2>2 DEF CallOnRecord, Agrees
  <2> QED  BY <1>0, <2>1, <2>3, <2>4, LateStep DEF Late
<1>5. CASE Record(c)
  <2>1. /\ pc[c] = "record" /\ pc'[c] = "react" /\ UNCHANGED <<beat, seen, states, open, run>>
        /\ Monitor(c)' = m
    BY <1>0, <1>5 DEF Record, Goto, Monitor, memory, ghosts, TypeOK
  <2>2. m \in rows => timeline'[m] = beat[c].status
    BY <1>0, <1>5, EffectiveIsRow DEF Record, TypeOK
  <2>3. m \in rows \ cut => CallOnRecord(c)'
    BY <1>0, <1>b, <2>1, <2>2 DEF CallOnRecord, Agrees
  <2> QED  BY <1>0, <1>5, <2>1, <2>3, LateStep DEF Late
<1>6. CASE React(c)
  <2>1. /\ pc[c] = "react" /\ pc'[c] = "notify"
        /\ UNCHANGED <<beat, seen, states, timeline, run>> /\ Monitor(c)' = m
    BY <1>0, <1>6 DEF React, Goto, Monitor, memory, ghosts, TypeOK
  <2>2. PICK ok \in Effective(m) :
          open' = IF ok /\ Touches(c) THEN [open EXCEPT ![m] = beat[c].status = "down"] ELSE open
    BY <1>0, <1>6 DEF React
  <2>3. ASSUME m \in rows \ cut PROVE open'[m] <=> beat[c].status = "down"
    <3>1. ok
      BY <2>3, EffectiveIsRow
    <3>2. CASE Touches(c)
      <4>1. open' = [open EXCEPT ![m] = (beat[c].status = "down")]
        BY <2>2, <3>1, <3>2
      <4> QED  BY <4>1 DEF TypeOK
    <3>3. CASE ~ Touches(c)
      <4>1. open' = open /\ beat[c].status # "down" /\ seen[c].status # "down"
        BY <2>2, <3>3 DEF Touches, Resolves
      <4>2. ~ open[m]
        BY <1>0, <1>b, <2>1, <2>3, <4>1 DEF CallOnRecord
      <4> QED  BY <4>1, <4>2
    <3> QED  BY <3>2, <3>3
  <2>4. m \in rows \ cut => CallOnRecord(c)'
    BY <1>0, <1>b, <2>1, <2>3 DEF CallOnRecord
  <2> QED  BY <1>0, <1>6, <2>1, <2>4, LateStep DEF Late
<1>7. CASE Notify(c)
  <2>1. /\ pc[c] = "notify" /\ pc'[c] = "idle" /\ UNCHANGED <<states, timeline, open, run>>
    BY <1>7 DEF Notify, Return, memory, database, TypeOK
  <2>2. ASSUME m \in rows \ cut PROVE Agrees(m, states[m].status)'
    <3>1. states[m] = Decided(c) /\ HasEvent(c)
      BY <1>0, <2>1, <2>2 DEF DecisionStands
    <3>2. Decided(c).status = beat[c].status
      BY <1>a, <3>1, AnnouncedChange DEF HasEvent, Decided
    <3>3. timeline[m] = beat[c].status /\ (open[m] <=> beat[c].status = "down")
      BY <1>0, <1>b, <2>1, <2>2 DEF CallOnRecord
    <3> QED  BY <2>1, <3>1, <3>2, <3>3 DEF Agrees
  <2> QED  BY <1>0, <1>7, <2>1, <2>2, LateStep DEF Late
<1> QED  BY <1>1, <1>2, <1>3, <1>4, <1>5, <1>6, <1>7 DEF Step

-----------------------------------------------------------------------------
(***************************************************************************)
(* The environment.                                                        *)
(***************************************************************************)
\* A step that leaves alone the tables, the counts and every call that has
\* read keeps the history.
LEMMA HistoryUntouched ==
    ASSUME OnRecord, Counted, ToldOnlyOfOpenIncidents,
           UNCHANGED <<states, timeline, open, run, rows, cut, seen>>,
           \A c \in Calls :
              \/ pc'[c] = pc[c] /\ beat'[c] = beat[c]
              \/ pc[c] \in {"idle", "screen"} /\ pc'[c] \in {"idle", "screen"}
    PROVE  OnRecord' /\ Counted' /\ ToldOnlyOfOpenIncidents'
<1> DEFINE Begun == {"write"} \cup Late
<1>1. \A c \in Calls : (pc'[c] \in Begun \/ pc[c] \in Begun) =>
         pc'[c] = pc[c] /\ beat'[c] = beat[c] /\ Monitor(c)' = Monitor(c)
  BY DEF Late, Monitor
<1>2. \A x \in Monitors : /\ Undisturbed(x, Late)' <=> Undisturbed(x, Late)
                          /\ Undisturbed(x, {"write"})' <=> Undisturbed(x, {"write"})
  BY <1>1 DEF Undisturbed
<1>3. \A c \in Calls : pc'[c] \notin Begun => CallOnRecord(c)' /\ CallCounted(c)'
  BY DEF CallOnRecord, CallCounted, Late
<1>4. \A c \in Calls : pc'[c] \in Begun =>
         (CallOnRecord(c) => CallOnRecord(c)') /\ (CallCounted(c) => CallCounted(c)')
  BY <1>1 DEF CallOnRecord, CallCounted, Agrees, Reaches
<1>5. OnRecord'
  <2>1. ASSUME NEW x \in (rows \ cut)', Undisturbed(x, Late)' PROVE Agrees(x, states[x].status)'
    <3>1. Undisturbed(x, Late)
      BY <1>1, <2>1 DEF Undisturbed
    <3> QED  BY <2>1, <3>1 DEF OnRecord, Agrees
  <2>2. ASSUME NEW c \in Calls, Monitor(c)' \in (rows \ cut)' PROVE CallOnRecord(c)'
    BY <1>1, <1>3, <1>4, <2>2 DEF OnRecord
  <2> QED  BY <2>1, <2>2 DEF OnRecord
<1>6. Counted'
  <2>1. ASSUME NEW x \in (Monitors \ cut)', Undisturbed(x, {"write"})' PROVE RunCounted(x)'
    BY <1>2, <2>1 DEF Counted, RunCounted, Reaches
  <2>2. ASSUME NEW c \in Calls, Monitor(c)' \notin cut' PROVE CallCounted(c)'
    BY <1>1, <1>3, <1>4, <2>2 DEF Counted
  <2> QED  BY <2>1, <2>2 DEF Counted
<1>7. ToldOnlyOfOpenIncidents'
  BY <1>1 DEF ToldOnlyOfOpenIncidents, Alerts, Late
<1> QED  BY <1>5, <1>6, <1>7

\* The engine starts with nothing told, nothing recorded, nothing counted.
LEMMA InitHistory == Init => HistoryInvariant
<1> SUFFICES ASSUME Init PROVE OnRecord /\ ToldOnlyOfOpenIncidents /\ Counted
  BY InitInvariant DEF HistoryInvariant
<1>1. OnRecord
  BY DEF Init, OnRecord, CallOnRecord, Agrees, NeverMeasured
<1>2. ToldOnlyOfOpenIncidents
  BY DEF Init, ToldOnlyOfOpenIncidents, Alerts
<1>3. Counted
  BY DEF Init, Counted, RunCounted, CallCounted, NeverMeasured, Late
<1> QED  BY <1>1, <1>2, <1>3

\* Every step of the engine and of its environment keeps the invariant.
LEMMA HistoryStep ==
    ASSUME ~ Overlap, ~ StoreFails, HistoryInvariant, [Next]_vars
    PROVE  HistoryInvariant'
<1> USE DEF HistoryInvariant
<1>0. AlertInvariant' /\ TypeOK
  BY InvariantStep DEF AlertInvariant
<1> SUFFICES OnRecord' /\ Counted' /\ ToldOnlyOfOpenIncidents'
  BY <1>0
<1>1. CASE Tick
  BY <1>1, HistoryUntouched DEF Tick, memory, calls, database, ghosts
<1>2. CASE MaintenanceChanges
  BY <1>2, HistoryUntouched DEF MaintenanceChanges, memory, calls, database, ghosts
<1>3. ASSUME NEW m \in Monitors, Check(m) PROVE OnRecord' /\ Counted' /\ ToldOnlyOfOpenIncidents'
  <2>1. PICK c \in Calls, status \in Results, repeated \in BOOLEAN :
          Begin(c, m, status, repeated)
    BY <1>3 DEF Check
  <2>2. /\ UNCHANGED <<states, timeline, open, run, rows, cut, seen>>
        /\ pc[c] = "idle" /\ pc'[c] = "screen"
        /\ \A d \in Calls \ {c} : pc'[d] = pc[d] /\ beat'[d] = beat[d]
    BY <1>0, <2>1 DEF Begin, memory, database, TypeOK
  <2> QED  BY <2>2, HistoryUntouched
<1>4. ASSUME NEW c \in Calls, Step(c) PROVE OnRecord' /\ Counted' /\ ToldOnlyOfOpenIncidents'
  BY <1>4, StepKeepsHistory, ToldStep DEF AlertInvariant
<1>5. ASSUME NEW m \in Monitors, Upsert(m) PROVE OnRecord' /\ Counted' /\ ToldOnlyOfOpenIncidents'
  BY <1>5, HistoryUntouched DEF Upsert, calls, database, ghosts
<1>6. ASSUME NEW m \in Monitors, DeleteRow(m)
      PROVE  OnRecord' /\ Counted' /\ ToldOnlyOfOpenIncidents'
  <2>1. /\ UNCHANGED <<pc, beat, seen, states, run, cut>> /\ rows' = rows \ {m}
        /\ \A x \in Monitors \ {m} : timeline'[x] = timeline[x] /\ open'[x] = open[x]
        /\ rows \subseteq Monitors
    BY <1>0, <1>6 DEF DeleteRow, memory, calls, ghosts, TypeOK
  <2>2. OnRecord'
    BY <2>1 DEF OnRecord, CallOnRecord, Agrees, Undisturbed, Monitor
  <2>3. Counted'
    BY <2>1 DEF Counted, RunCounted, CallCounted, Reaches, Undisturbed, Monitor
  <2>4. ToldOnlyOfOpenIncidents'
    BY <2>1 DEF ToldOnlyOfOpenIncidents, Alerts, Monitor
  <2> QED  BY <2>2, <2>3, <2>4
<1>7. ASSUME NEW m \in Monitors, Remove(m)
      PROVE  OnRecord' /\ Counted' /\ ToldOnlyOfOpenIncidents'
  <2>1. /\ UNCHANGED <<pc, beat, seen, timeline, open, rows, run, cut>>
        /\ m \notin rows /\ states'[m] = NeverMeasured /\ rows \subseteq Monitors
        /\ \A x \in Monitors \ {m} : states'[x] = states[x]
    BY <1>0, <1>7 DEF Remove, Forgotten, calls, database, TypeOK, AlertInvariant, GoneIsGone
  <2>2. OnRecord'
    BY <2>1 DEF OnRecord, CallOnRecord, Agrees, Undisturbed, Monitor
  <2>3. Counted'
    <3>1. ASSUME NEW x \in Monitors \ cut, Undisturbed(x, {"write"})' PROVE RunCounted(x)'
      <4>1. Undisturbed(x, {"write"})
        BY <2>1, <3>1 DEF Undisturbed, Monitor
      <4> QED  BY <2>1, <4>1 DEF Counted, RunCounted, Reaches, NeverMeasured
    <3>2. \A c \in Calls : CallCounted(c) => CallCounted(c)'
      BY <2>1 DEF CallCounted, Reaches, Monitor
    <3> QED  BY <2>1, <3>1, <3>2 DEF Counted, Monitor
  <2>4. ToldOnlyOfOpenIncidents'
    BY <2>1 DEF ToldOnlyOfOpenIncidents, Alerts, Monitor
  <2> QED  BY <2>2, <2>3, <2>4
<1>8. CASE Restart
  <2>1. /\ states' = saved /\ UNCHANGED <<timeline, open, rows, run>>
        /\ \A c \in Calls : pc'[c] = "idle"
        /\ cut' = cut \cup {Monitor(c) : c \in {d \in Calls : Busy(d)}}
        /\ rows \subseteq Monitors
    BY <1>0, <1>8 DEF Restart, Loaded, database, TypeOK
  <2>2. \A x \in Monitors \ cut' : x \notin cut /\ \A c \in Calls : Busy(c) => Monitor(c) # x
    BY <2>1
  <2>3. ASSUME NEW x \in Monitors \ cut'
        PROVE  /\ Undisturbed(x, Late) /\ Undisturbed(x, {"write"})
               /\ x \in rows => saved[x] = states[x]
    BY <2>2 DEF Undisturbed, Late, Busy, AlertInvariant, SavedUnlessSaving
  <2>4. OnRecord'
    <3>1. ASSUME NEW x \in (rows \ cut)' PROVE Agrees(x, states[x].status)'
      BY <2>1, <2>2, <2>3, <3>1 DEF OnRecord, Agrees
    <3>2. \A c \in Calls : CallOnRecord(c)'
      BY <2>1 DEF CallOnRecord
    <3> QED  BY <3>1, <3>2 DEF OnRecord
  <2>5. Counted'
    <3>1. ASSUME NEW x \in (Monitors \ cut)' PROVE RunCounted(x)'
      <4>1. CASE x \in rows
        BY <2>1, <2>2, <2>3, <3>1, <4>1 DEF Counted, RunCounted, Reaches
      <4>2. CASE x \notin rows
        <5>1. states'[x] = NeverMeasured
          BY <2>1, <3>1, <4>2 DEF AlertInvariant, GoneIsGone
        <5> QED  BY <5>1 DEF RunCounted, NeverMeasured
      <4> QED  BY <4>1, <4>2
    <3>2. \A c \in Calls : CallCounted(c)'
      BY <2>1 DEF CallCounted, Late
    <3> QED  BY <2>1, <3>1, <3>2 DEF Counted
  <2>6. ToldOnlyOfOpenIncidents'
    BY <2>1 DEF ToldOnlyOfOpenIncidents, Alerts
  <2> QED  BY <2>4, <2>5, <2>6
<1>9. CASE UNCHANGED vars
  BY <1>9, HistoryUntouched DEF vars, memory, calls, database, ghosts
<1> QED  BY <1>1, <1>2, <1>3, <1>4, <1>5, <1>6, <1>7, <1>8, <1>9 DEF Next

-----------------------------------------------------------------------------
\* The inductive invariant holds in every reachable state.
THEOREM HistoryInvariance ==
    ASSUME ~ Overlap, ~ StoreFails
    PROVE  Spec => []HistoryInvariant
<1>1. Init => HistoryInvariant
  BY InitHistory
<1>2. HistoryInvariant /\ [Next]_vars => HistoryInvariant'
  BY HistoryStep
<1> QED  BY <1>1, <1>2, PTL DEF Spec

\* Nobody is told of an outage the database has no open incident for, crashes
\* and deletions included (engine.go record, notify).
THEOREM ToldIsOpen ==
    ASSUME ~ Overlap, ~ StoreFails
    PROVE  Spec => []ToldOnlyOfOpenIncidents
<1>1. HistoryInvariant => ToldOnlyOfOpenIncidents
  BY DEF HistoryInvariant
<1> QED  BY <1>1, HistoryInvariance, PTL

\* Between two checks of a monitor no crash cut short, incidents and
\* transitions agree with its state (engine.go record, Load).
THEOREM HistoryAgrees ==
    ASSUME ~ Overlap, ~ StoreFails
    PROVE  Spec => []LedgerMatchesState
<1>1. HistoryInvariant => LedgerMatchesState
  <2> SUFFICES ASSUME HistoryInvariant, NEW m \in (rows \cap known) \ cut, Quiet(m)
               PROVE  Agrees(m, states[m].status)
    BY DEF LedgerMatchesState, Agrees
  <2>1. Undisturbed(m, Late)
    BY DEF Quiet, Busy, Undisturbed, Late
  <2> QED  BY <2>1 DEF HistoryInvariant, OnRecord
<1> QED  BY <1>1, HistoryInvariance, PTL

\* A change of status is confirmed only by as many equal observations in a
\* row as the monitor asks for, counting across restarts, edits and
\* observations that measured nothing (incident/state.go Next, engine.go
\* evaluate, Load).
THEOREM ConfirmationIsEarned ==
    ASSUME ~ Overlap, ~ StoreFails
    PROVE  Spec => []ConfirmedByRun
<1>1. HistoryInvariant => ConfirmedByRun
  <2> SUFFICES ASSUME HistoryInvariant, NEW c \in Calls, Announcing(c), Monitor(c) \notin cut
               PROVE  /\ run[Monitor(c)].of = beat[c].status
                      /\ Reaches(Monitor(c), Threshold(c))
    BY DEF ConfirmedByRun, Reaches
  <2>0. TypeOK
    BY DEF HistoryInvariant, AlertInvariant
  <2>1. /\ run[Monitor(c)].of = beat[c].status
        /\ Reaches(Monitor(c), Count(seen[c], beat[c].status))
    BY DEF HistoryInvariant, Counted, CallCounted, Late, Announcing
  <2>2. Count(seen[c], beat[c].status) >= EffectiveThreshold(Threshold(c))
    BY DEF Announcing, HasEvent, Announces, Confirms
  <2>3. Threshold(c) \in Nat /\ seen[c] \in MonitorState /\ Monitor(c) \in Monitors
    BY <2>0, DecidedType
  <2>4. Count(seen[c], beat[c].status) \in Nat /\ run[Monitor(c)].length \in Nat
    BY <2>0, <2>3 DEF Count, MonitorState, TypeOK
  <2>5. Count(seen[c], beat[c].status) >= Threshold(c)
    BY <2>2, <2>3, <2>4 DEF EffectiveThreshold
  <2> QED  BY <2>1, <2>3, <2>4, <2>5 DEF Reaches
<1> QED  BY <1>1, HistoryInvariance, PTL
=============================================================================
