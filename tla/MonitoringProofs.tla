-------------------------- MODULE MonitoringProofs --------------------------
(***************************************************************************)
(* Theorems of what monitors measure and when they are silent: each part   *)
(* below instantiates the module it is about, under the names that module  *)
(* gives its constants and variables.                                      *)
(***************************************************************************)
EXTENDS Integers, Sequences, FiniteSets, FiniteSetTheorems, WellFoundedInduction, TLAPS

CONSTANTS
    \* ConfirmationLog
    Thresholds, MaxObservations,
    \* Topology
    Monitors, Groups, Clients, None, Absent, Deleted, Known, Bodies, Batches, MaxRequests,
    \* Probe
    Names, Reloaders, Files, Missing, Broken, Attempts, MaxEdits, MaxMeasures,
    \* Rollup
    Hour, Day, Raw, Hourly, Daily, MaxDelay, MaxCycle, MaxTime, MaxBeats, MaxFailures,
    \* Push
    Plans, Interval, Grace, MinScheduleGrace, MaxSignals,
    \* Calendar
    Windows, Parent, GroupOf, Zones, Trees, MaxDuration, Refresh,
    \* Sentinel
    Askers, Count, CacheTTL, Timeout, Patience,
    \* ProbeFile
    Refused, Checks, Beats, Commands, Uis, Edits, MaxUpdates,
    \* RateLimit
    Origins, Burst, Refill, One, Second, MaxTracked

VARIABLES
    \* ConfirmationLog
    threshold, state, observations, measured, announced,
    \* Topology
    group, monitor, running, request, requests, overlapped,
    \* Probe
    file, lastSeen, cfg, mu, reload, worker, status, tried, received, disorder, edits,
    \* Rollup
    now, waiting, heartbeat, rollup, watermark, taken, summed, uncounted, failed,
    \* Push
    zone, schedule, clock, sending, signals, row, evaluated, settings, due, check, last,
    counted, twice, early, aged, failures,
    \* Calendar
    window, target, above, calendar, age, ends,
    \* Sentinel
    reachable, away, cached, proven, asker, everReached, cut,
    \* ProbeFile
    proc, held, drawn, updates, promised, raced, issued, turned,
    \* RateLimit
    buckets, granted, told, misjudged

-----------------------------------------------------------------------------
(***************************************************************************)
(* The confirmation machine computes what its definition over the recorded *)
(* measurements says, for every threshold and any number of observations.  *)
(***************************************************************************)
Log == INSTANCE ConfirmationLog

\* What the machine remembers besides the status: how many of the last
\* measurements are of the candidate, no more and no less, and that these are
\* too few; without a candidate the last measurement was of the status.
TailCounted ==
    LET tail == Len(measured)
        run == state.consecutive
    IN  IF state.candidate = "unknown"
          THEN tail > 0 => measured[tail] = state.status
          ELSE /\ state.candidate # state.status
               /\ run \in 1..tail /\ run < Log!N
               /\ \A i \in (tail - run + 1)..tail : measured[i] = state.candidate
               /\ run < tail => measured[tail - run] # state.candidate

MachineInvariant == threshold \in Nat /\ Log!TypeOK /\ Log!StatusIsLastAgreement /\ TailCounted

LEMMA ThresholdEffective ==
    ASSUME threshold \in Nat
    PROVE  Log!N \in Nat /\ Log!N >= 1
BY DEF Log!N, Log!EffectiveThreshold

\* The four things an observation may do.
LEMMA StepOfMachine ==
    ASSUME NEW s \in Log!MonitorState, NEW o \in Log!Status, NEW n \in Thresholds
    PROVE  LET new == Log!NextState(s, o, n) IN
           /\ new \in Log!MonitorState
           /\ o = "unknown" => new = s
           /\ o # "unknown" /\ o = s.status =>
                 new.status = o /\ new.candidate = "unknown"
           /\ Log!Moves(s, o) /\ ~ Log!Confirms(s, o, n) =>
                 new.status = s.status /\ new.candidate = o /\ new.consecutive = Log!Count(s, o)
           /\ Log!Confirms(s, o, n) => new.status = o /\ new.candidate = "unknown"
<1>1. CASE o = "unknown"
  <2>1. Log!NextState(s, o, n) = s
    BY <1>1 DEF Log!NextState, Log!Moves, Log!Confirms
  <2> QED  BY <1>1, <2>1 DEF Log!Moves, Log!Confirms
<1>2. CASE o # "unknown" /\ o = s.status
  <2>1. Log!NextState(s, o, n) = [s EXCEPT !.candidate = "unknown", !.consecutive = 0]
    BY <1>2 DEF Log!NextState, Log!Moves, Log!Confirms
  <2>2. Log!NextState(s, o, n) = [status |-> s.status, candidate |-> "unknown", consecutive |-> 0]
    BY <2>1 DEF Log!MonitorState
  <2> QED  BY <1>2, <2>2 DEF Log!MonitorState, Log!Status, Log!Moves, Log!Confirms
<1>3. CASE Log!Moves(s, o) /\ ~ Log!Confirms(s, o, n)
  <2>1. Log!NextState(s, o, n) = [s EXCEPT !.candidate = o, !.consecutive = Log!Count(s, o)]
    BY <1>3 DEF Log!NextState, Log!Moves
  <2>2. Log!NextState(s, o, n) = [status |-> s.status, candidate |-> o, consecutive |-> Log!Count(s, o)]
    BY <2>1 DEF Log!MonitorState
  <2>3. Log!Count(s, o) \in Nat
    BY DEF Log!Count, Log!MonitorState
  <2> QED  BY <1>3, <2>2, <2>3 DEF Log!MonitorState, Log!Moves
<1>4. CASE Log!Confirms(s, o, n)
  <2>1. Log!NextState(s, o, n) = [status |-> o, candidate |-> "unknown", consecutive |-> 0]
    BY <1>4 DEF Log!NextState, Log!Moves, Log!Confirms
  <2> QED  BY <1>4, <2>1 DEF Log!MonitorState, Log!Status, Log!Moves, Log!Confirms
<1> QED  BY <1>1, <1>2, <1>3, <1>4 DEF Log!Moves

LEMMA MachineTyped == Log!Spec => []Log!TypeOK
<1>1. Log!Init => Log!TypeOK
  BY DEF Log!Init, Log!TypeOK, Log!NeverMeasured, Log!MonitorState, Log!Status
<1>2. Log!TypeOK /\ [Log!Next]_(Log!vars) => Log!TypeOK'
  <2> SUFFICES ASSUME Log!TypeOK, [Log!Next]_(Log!vars) PROVE Log!TypeOK'
    OBVIOUS
  <2>1. CASE UNCHANGED Log!vars
    BY <2>1 DEF Log!TypeOK, Log!vars
  <2>2. ASSUME NEW seen \in Log!Status, Log!Observe(seen) PROVE Log!TypeOK'
    <3>1. state' \in Log!MonitorState
      BY <2>2, StepOfMachine DEF Log!TypeOK, Log!Observe
    <3>2. measured' \in Seq(Log!Status)
      BY <2>2 DEF Log!TypeOK, Log!Observe
    <3>3. announced' \in Seq(Log!Status \X Log!Status)
      BY <2>2 DEF Log!TypeOK, Log!Observe, Log!MonitorState
    <3> QED
      BY <2>2, <3>1, <3>2, <3>3 DEF Log!TypeOK, Log!Observe
  <2> QED
    BY <2>1, <2>2 DEF Log!Next
<1> QED
  BY <1>1, <1>2, PTL DEF Log!Spec

\* What was measured stays, and agreed or not, when one measurement is added.
LEMMA EarlierStands ==
    ASSUME NEW seq \in Seq(Log!Status), NEW n \in Nat, n >= 1, NEW seen \in Log!Status
    PROVE  LET new == Append(seq, seen) IN
           /\ Len(new) = Len(seq) + 1
           /\ new[Len(seq) + 1] = seen
           /\ \A i \in 1..Len(seq) : new[i] = seq[i]
           /\ \A i \in 1..Len(seq) : Log!Agree(new, n, i) <=> Log!Agree(seq, n, i)
<1> DEFINE new == Append(seq, seen)
<1>1. /\ Len(new) = Len(seq) + 1
      /\ new[Len(seq) + 1] = seen
      /\ \A i \in 1..Len(seq) : new[i] = seq[i]
  OBVIOUS
<1> HIDE DEF new
<1>2. ASSUME NEW i \in 1..Len(seq) PROVE Log!Agree(new, n, i) <=> Log!Agree(seq, n, i)
  <2>1. CASE i >= n
    <3>1. Len(seq) \in Nat /\ \A j \in (i - n + 1)..i : j \in 1..Len(seq)
      BY <2>1
    <3> QED
      BY <1>1, <2>1, <3>1 DEF Log!Agree
  <2>2. CASE ~ (i >= n)
    BY <2>2 DEF Log!Agree
  <2> QED
    BY <2>1, <2>2
<1> QED
  BY <1>1, <1>2 DEF new

\* If the new measurement completes no agreement the status of the last one
\* stands; if it does, it is the status.
LEMMA LastAgreementMoves ==
    ASSUME NEW seq \in Seq(Log!Status), NEW n \in Nat, n >= 1, NEW seen \in Log!Status, NEW old,
           Log!LastAgreement(seq, n, Len(seq), old)
    PROVE  LET new == Append(seq, seen)
               tail == Len(seq) + 1
           IN  Log!LastAgreement(new, n, tail, IF Log!Agree(new, n, tail) THEN seen ELSE old)
<1> DEFINE new == Append(seq, seen)
           tail == Len(seq)
<1>1. /\ tail \in Nat /\ Log!LastAgreement(seq, n, tail, old)
      /\ new[tail + 1] = seen
      /\ \A i \in 1..tail : new[i] = seq[i]
      /\ \A i \in 1..tail : Log!Agree(new, n, i) <=> Log!Agree(seq, n, i)
  BY EarlierStands
<1> HIDE DEF new, tail
<1>2. ASSUME Log!Agree(new, n, tail + 1)
      PROVE  Log!LastAgreement(new, n, tail + 1, seen)
  <2>1. tail + 1 \in 1..(tail + 1) /\ \A j \in (tail + 1 + 1)..(tail + 1) : ~ Log!Agree(new, n, j)
    BY <1>1
  <2> QED
    BY <1>1, <1>2, <2>1 DEF Log!LastAgreement
<1>3. ASSUME ~ Log!Agree(new, n, tail + 1)
      PROVE  Log!LastAgreement(new, n, tail + 1, old)
  <2>1. \A j \in 1..(tail + 1) : j \in 1..tail \/ j = tail + 1
    BY <1>1
  <2>2. CASE old = "unknown" /\ \A i \in 1..tail : ~ Log!Agree(seq, n, i)
    BY <1>1, <1>3, <2>1, <2>2 DEF Log!LastAgreement
  <2>3. ASSUME NEW i \in 1..tail, Log!Agree(seq, n, i) /\ seq[i] = old,
               \A j \in (i + 1)..tail : ~ Log!Agree(seq, n, j)
        PROVE  Log!LastAgreement(new, n, tail + 1, old)
    <3>1. i \in 1..(tail + 1) /\ Log!Agree(new, n, i) /\ new[i] = old
      BY <1>1, <2>3
    <3>2. \A j \in (i + 1)..(tail + 1) : ~ Log!Agree(new, n, j)
      BY <1>1, <1>3, <2>3
    <3> QED
      BY <3>1, <3>2 DEF Log!LastAgreement
  <2> QED
    BY <1>1, <2>2, <2>3 DEF Log!LastAgreement
<1> QED
  BY <1>2, <1>3 DEF new, tail

\* An observation without a measurement leaves everything as it is.
LEMMA NothingMeasured ==
    ASSUME MachineInvariant, Log!Observe("unknown")
    PROVE  Log!StatusIsLastAgreement' /\ TailCounted'
<1>1. measured' = measured /\ threshold' = threshold /\ state' = state
  BY StepOfMachine DEF MachineInvariant, Log!TypeOK, Log!Observe, Log!Status
<1> QED
  BY <1>1 DEF MachineInvariant, Log!StatusIsLastAgreement, TailCounted, Log!N

\* A measurement of the confirmed status ends the run of any other.
LEMMA StatusAgain ==
    ASSUME MachineInvariant, NEW seen \in Log!Status, Log!Observe(seen),
           seen # "unknown", seen = state.status
    PROVE  Log!StatusIsLastAgreement' /\ TailCounted'
<1>1. /\ measured \in Seq(Log!Status) /\ state \in Log!MonitorState /\ threshold \in Thresholds
      /\ Log!LastAgreement(measured, Log!N, Len(measured), seen) /\ Log!N \in Nat /\ Log!N >= 1
  BY ThresholdEffective DEF MachineInvariant, Log!TypeOK, Log!StatusIsLastAgreement
<1>2. measured' = Append(measured, seen) /\ Log!N' = Log!N
  BY DEF Log!Observe, Log!N
<1>3. state'.status = seen /\ state'.candidate = "unknown"
  BY <1>1, StepOfMachine DEF Log!Observe
<1>4. Len(measured') = Len(measured) + 1 /\ measured'[Len(measured) + 1] = seen
  BY <1>1, <1>2, EarlierStands
<1>5. Log!LastAgreement(measured', Log!N, Len(measured) + 1, seen)
  BY <1>1, <1>2, LastAgreementMoves
<1> QED
  BY <1>2, <1>3, <1>4, <1>5 DEF Log!StatusIsLastAgreement, TailCounted

\* A measurement that moves the machine is counted with those before it, and
\* is the last of an agreement exactly when the count is at the threshold.
LEMMA RunGrows ==
    ASSUME MachineInvariant, NEW seen \in Log!Status, Log!Observe(seen),
           seen # "unknown", seen # state.status
    PROVE  LET run == Log!Count(state, seen)
               tail == Len(measured) + 1
           IN  /\ run \in 1..tail /\ run <= Log!N
               /\ \A i \in (tail - run + 1)..tail : measured'[i] = seen
               /\ run < tail => measured'[tail - run] # seen
<1> DEFINE old == Len(measured)
           run == Log!Count(state, seen)
<1>1. Log!TypeOK /\ TailCounted /\ old \in Nat /\ Log!N \in Nat /\ Log!N >= 1
  BY ThresholdEffective DEF MachineInvariant, Log!TypeOK
<1>2. measured' = Append(measured, seen) /\ threshold' = threshold
  BY DEF Log!Observe
<1>3. /\ measured'[old + 1] = seen
      /\ \A i \in 1..old : measured'[i] = measured[i]
  BY <1>1, <1>2, EarlierStands DEF Log!TypeOK
<1>4. state.consecutive \in Nat
  BY <1>1 DEF Log!TypeOK, Log!MonitorState
<1>5. CASE seen = state.candidate
  <2>1. /\ state.consecutive \in 1..old /\ state.consecutive < Log!N
        /\ \A i \in (old - state.consecutive + 1)..old : measured[i] = seen
        /\ state.consecutive < old => measured[old - state.consecutive] # seen
    BY <1>1, <1>5 DEF TailCounted
  <2>2. run = state.consecutive + 1
    BY <1>5 DEF Log!Count
  <2> HIDE DEF old, run
  <2>3. run \in 1..(old + 1) /\ run <= Log!N
    BY <1>1, <1>4, <2>1, <2>2
  <2>4. \A i \in (old + 1 - run + 1)..(old + 1) : measured'[i] = seen
    BY <1>1, <1>3, <1>4, <2>1, <2>2
  <2>5. run < old + 1 => measured'[old + 1 - run] # seen
    BY <1>1, <1>3, <1>4, <2>1, <2>2
  <2> QED
    BY <2>3, <2>4, <2>5 DEF old, run
<1>6. CASE seen # state.candidate
  <2>1. run = 1
    BY <1>6 DEF Log!Count
  <2>2. old > 0 => measured[old] # seen
    BY <1>1, <1>4, <1>6 DEF TailCounted
  <2> HIDE DEF old, run
  <2>3. /\ run \in 1..(old + 1) /\ run <= Log!N
        /\ \A i \in (old + 1 - run + 1)..(old + 1) : measured'[i] = seen
        /\ run < old + 1 => measured'[old + 1 - run] # seen
    BY <1>1, <1>3, <2>1, <2>2
  <2> QED
    BY <2>3 DEF old, run
<1> QED
  BY <1>5, <1>6

LEMMA StatusMoves ==
    ASSUME MachineInvariant, NEW seen \in Log!Status, Log!Observe(seen),
           seen # "unknown", seen # state.status
    PROVE  Log!StatusIsLastAgreement' /\ TailCounted'
<1> DEFINE tail == Len(measured) + 1
           run == Log!Count(state, seen)
<1>1. /\ measured \in Seq(Log!Status) /\ state \in Log!MonitorState /\ threshold \in Thresholds
      /\ Log!LastAgreement(measured, Log!N, Len(measured), state.status) /\ Log!N \in Nat /\ Log!N >= 1
      /\ tail \in Nat
  BY ThresholdEffective DEF MachineInvariant, Log!TypeOK, Log!StatusIsLastAgreement
<1>2. measured' = Append(measured, seen) /\ Log!N' = Log!N
  BY DEF Log!Observe, Log!N
<1>3. Len(measured') = tail /\ measured'[tail] = seen
  BY <1>1, <1>2, EarlierStands
<1>4. /\ run \in 1..tail /\ run <= Log!N
      /\ \A i \in (tail - run + 1)..tail : measured'[i] = seen
      /\ run < tail => measured'[tail - run] # seen
  BY RunGrows
<1>5. Log!Moves(state, seen) /\ (Log!Confirms(state, seen, threshold) <=> run >= Log!N)
  BY DEF Log!Moves, Log!Confirms, Log!N
<1>6. state' = Log!NextState(state, seen, threshold)
  BY DEF Log!Observe
<1>7. Log!Agree(measured', Log!N, tail) <=> run = Log!N
  <2> HIDE DEF tail, run
  <2>1. CASE run = Log!N
    BY <1>1, <1>3, <1>4, <2>1 DEF Log!Agree
  <2>2. CASE run # Log!N
    <3>1. tail >= Log!N => run < tail /\ tail - run \in (tail - Log!N + 1)..tail
      BY <1>1, <1>4, <2>2
    <3> QED
      BY <1>3, <1>4, <2>2, <3>1 DEF Log!Agree
  <2> QED
    BY <2>1, <2>2
<1>8. CASE run = Log!N
  <2>1. state'.status = seen /\ state'.candidate = "unknown"
    BY <1>1, <1>5, <1>6, <1>8, StepOfMachine
  <2>2. Log!LastAgreement(measured', Log!N, tail, seen)
    BY <1>1, <1>2, <1>7, <1>8, LastAgreementMoves
  <2> QED
    BY <1>2, <1>3, <2>1, <2>2 DEF Log!StatusIsLastAgreement, TailCounted
<1>9. CASE run # Log!N
  <2>1. run < Log!N /\ ~ (run >= Log!N)
    BY <1>1, <1>4, <1>9
  <2>2. /\ state'.status = state.status /\ state'.candidate = seen
        /\ state'.consecutive = run
    BY <1>1, <1>5, <1>6, <2>1, StepOfMachine
  <2>3. Log!LastAgreement(measured', Log!N, tail, state.status)
    BY <1>1, <1>2, <1>7, <1>9, LastAgreementMoves
  <2> HIDE DEF tail, run
  <2>4. Log!StatusIsLastAgreement'
    BY <1>2, <1>3, <2>2, <2>3 DEF Log!StatusIsLastAgreement
  <2>5. TailCounted'
    BY <1>2, <1>3, <1>4, <2>1, <2>2 DEF TailCounted
  <2> QED
    BY <2>4, <2>5
<1> QED
  BY <1>8, <1>9

\* Status and count of the machine, and with them every change it confirms, are
\* those of the recorded measurements (incident/state.go, Next).
THEOREM StatusFollowsMeasurements ==
    ASSUME Thresholds \subseteq Nat
    PROVE  Log!Spec => []Log!StatusIsLastAgreement
<1>1. Log!Init => MachineInvariant
  BY DEF Log!Init, MachineInvariant, Log!TypeOK, Log!NeverMeasured, Log!MonitorState, Log!Status,
         Log!StatusIsLastAgreement, Log!LastAgreement, TailCounted
<1>2. Log!TypeOK' /\ MachineInvariant /\ [Log!Next]_(Log!vars) => MachineInvariant'
  <2> SUFFICES ASSUME Log!TypeOK', MachineInvariant, [Log!Next]_(Log!vars) PROVE MachineInvariant'
    OBVIOUS
  <2>1. CASE UNCHANGED Log!vars
    BY <2>1 DEF MachineInvariant, Log!TypeOK, Log!StatusIsLastAgreement, TailCounted, Log!N, Log!vars
  <2>2. ASSUME NEW seen \in Log!Status, Log!Observe(seen) PROVE MachineInvariant'
    <3>0. threshold' \in Nat
      BY <2>2 DEF Log!Observe, MachineInvariant
    <3>1. CASE seen = "unknown"
      BY <2>2, <3>0, <3>1, NothingMeasured DEF MachineInvariant
    <3>2. CASE seen # "unknown" /\ seen = state.status
      BY <2>2, <3>0, <3>2, StatusAgain DEF MachineInvariant
    <3>3. CASE seen # "unknown" /\ seen # state.status
      BY <2>2, <3>0, <3>3, StatusMoves DEF MachineInvariant
    <3> QED
      BY <3>1, <3>2, <3>3
  <2> QED
    BY <2>1, <2>2 DEF Log!Next
<1>3. MachineInvariant => Log!StatusIsLastAgreement
  BY DEF MachineInvariant
<1> QED
  BY <1>1, <1>2, <1>3, MachineTyped, PTL DEF Log!Spec

-----------------------------------------------------------------------------
(***************************************************************************)
(* The dependency tree, as requests that overlap edit it.                  *)
(***************************************************************************)
T == INSTANCE Topology

\* The marks of the tables are no rows, and a request carries a row.
TreeSorts ==
    /\ {None, Absent, Deleted} \cap (Monitors \cup Groups \cup T!Row) = {}
    /\ None # Absent /\ None # Deleted /\ Absent # Deleted
    /\ Bodies \subseteq T!Row /\ Batches \subseteq (SUBSET Monitors) \ {{}}

\* What a request carries along its steps, by its kind.  A list of monitors
\* that it names is not empty (dependency_handlers.go, handleSetChildren).
Forests == [Groups -> Groups \cup {None, Absent, Deleted}]
Some == (SUBSET Monitors) \ {{}}
Guards == [step: {"guard"}, kind: {"update"}, id: Monitors, body: T!Row, tree: Forests]
Placings == [step: {"place", "parent"}, kind: {"create", "update"},
          id: Monitors, body: T!Row, tree: Forests]
Creations == [step: {"write"}, kind: {"create"}, id: Monitors, body: T!Row,
              kids: Some, at: Monitors \cup {None}, seen: SUBSET Monitors]
Updates == [step: {"climb", "write"}, kind: {"update"}, id: Monitors, body: T!Row,
            kids: Some, at: Monitors \cup {None}, seen: SUBSET Monitors]
Deletions == [step: {"guard", "write"}, kind: {"delete"}, id: Monitors]
Linkings == [step: {"guard", "kids"}, kind: {"children", "unlink"}, id: Monitors, kids: Some]
Unlinkings == [step: {"write"}, kind: {"unlink"}, id: Monitors, kids: Some, left: Some,
               at: Monitors \cup {None}, seen: SUBSET Monitors]
Climbings == [step: {"climb", "write"}, kind: {"children"}, id: Monitors, kids: Some, left: Some,
              at: Monitors \cup {None}, seen: SUBSET Monitors]
Nestings == [step: {"place", "room", "write"}, kind: {"group"},
             id: Groups, up: Groups \cup {None}, tree: Forests]
Drops == [step: {"write"}, kind: {"drop"}, id: Groups]
Writings == {"create", "update", "delete", "children", "unlink"}
Rereadings == [step: {"reread"}, kind: Writings, left: Some]
Tellings == [step: {"tell"}, kind: Writings, left: SUBSET Monitors, id: Monitors,
             row: T!Row \cup {Absent}]
Resting == [step: {"idle"}]
TreeRequests == Resting \cup Guards \cup Placings \cup Creations \cup Updates \cup Deletions
                  \cup Linkings \cup Unlinkings \cup Climbings \cup Nestings \cup Drops
                  \cup Rereadings \cup Tellings

TreeShapes ==
    /\ group \in Forests
    /\ monitor \in [Monitors -> T!Row \cup {Absent, Deleted}]
    /\ running \in [Monitors -> T!Row \cup {Absent}]
    /\ request \in [Clients -> TreeRequests]
    /\ overlapped \in BOOLEAN

\* A monitor the scheduler was told of, or is about to be, was there once.
NoneUnborn ==
    /\ \A m \in Monitors : running[m] # Absent /\ running[m].parent # None =>
         monitor[running[m].parent] # Absent
    /\ \A c \in Clients : request[c].step = "tell" /\ request[c].row # Absent
                            /\ request[c].row.parent # None =>
         monitor[request[c].row.parent] # Absent

\* One request at a time.
Alone == \A c, d \in Clients : c # d => request[c].step = "idle" \/ request[d].step = "idle"

\* A set of monitors that none of its members leaves but to the top.
Closed(S) == S \subseteq Monitors /\ \A x \in S : T!Live(x) /\ monitor[x].parent \in S \cup {None}

\* The dependencies of m do not reach k.
Apart(m, k) == \E S \in SUBSET Monitors : Closed(S) /\ m \in S /\ k \notin S

Acyclic ==
    \A M \in SUBSET {m \in Monitors : T!Live(m)} :
        M # {} => \E m \in M : monitor[m].parent \notin M

\* What the climb of a request has looked at: from the start to where it is.
Climbed(r, start, k) ==
    /\ start \in r.seen \cup {r.at} /\ k \notin r.seen
    /\ \A x \in r.seen : T!Live(x) /\ monitor[x].parent \in r.seen \cup {r.at}
    /\ r.at = None \/ T!Live(r.at)

\* What a request that is alone read is still so.
ReadsHold(r) ==
    /\ r.step \in {"guard", "place"} /\ r.kind \in {"create", "update"} => r.tree = group
    /\ r.step \in {"place", "room", "write"} /\ r.kind = "group" => r.tree = group
    /\ r.step \in {"parent", "climb", "write"} /\ r.kind \in {"create", "update"} =>
         T!MayHold(group, r.body.group)
    /\ r.step = "write" /\ r.kind = "group" =>
         \/ r.up = None \/ group[r.id] = r.up
         \/ \A m \in Monitors : T!Live(m) => monitor[m].group # r.up
    /\ r.step \in {"kids", "climb"} /\ r.kind = "children" => T!Live(r.id)
    /\ r.step = "climb" /\ r.kind = "update" => Climbed(r, r.body.parent, r.id)
    /\ r.step = "climb" /\ r.kind = "children" =>
         /\ Climbed(r, r.id, CHOOSE x \in r.left : TRUE)
         /\ \A k \in r.kids \ r.left : Apart(r.id, k)
    /\ r.step = "write" /\ r.kind = "update" =>
         r.body.parent = None \/ Apart(r.body.parent, r.id)
    /\ r.step = "write" /\ r.kind = "children" => \A k \in r.kids : Apart(r.id, k)

\* Who is still to be told of.
Awaits(r, m) == \/ r.step = "reread" /\ m \in r.left
                \/ r.step = "tell" /\ m \in r.left \cup {r.id}
Pending(m) == \E c \in Clients : Awaits(request[c], m)

Follows(m) ==
    IF ~ T!Live(m) \/ ~ monitor[m].on THEN running[m] = Absent
    ELSE /\ running[m] # Absent
         /\ [running[m] EXCEPT !.parent = None] = [monitor[m] EXCEPT !.parent = None]
         /\ \/ running[m].parent = monitor[m].parent
            \/ monitor[m].parent = None /\ ~ T!Live(running[m].parent)

\* What is told of a monitor that is alone is what is stored.
TellsHold(r) ==
    /\ r.step \in {"reread", "tell"} => \A m \in r.left : T!Live(m)
    /\ r.step = "tell" => r.row = IF T!Live(r.id) THEN monitor[r.id] ELSE Absent

OneAtATime ==
    /\ Alone /\ Acyclic
    /\ \A m \in Monitors : T!Live(m) => T!MayHold(group, monitor[m].group)
    /\ \A c \in Clients : \A r \in {request[c]} : ReadsHold(r) /\ TellsHold(r)
    /\ \A m \in Monitors : Pending(m) \/ Follows(m)

TreeInvariant ==
    /\ TreeShapes /\ T!TwoLevels /\ T!NoOrphans /\ NoneUnborn
    /\ overlapped \/ OneAtATime

\* The step and the kind of a request say what it carries.
LEMMA TreeRequestShape ==
    ASSUME NEW r \in TreeRequests
    PROVE  /\ r.step = "guard" => r \in Guards \cup Deletions \cup Linkings
           /\ r.step = "place" => r \in Placings \cup Nestings
           /\ r.step = "room" => r \in Nestings
           /\ r.step = "parent" => r \in Placings
           /\ r.step = "kids" => r \in Linkings
           /\ r.step = "climb" => r \in Updates \cup Climbings
           /\ r.step = "write" => r \in Creations \cup Updates \cup Deletions \cup Unlinkings
                                         \cup Climbings \cup Nestings \cup Drops
           /\ r.step = "reread" => r \in Rereadings
           /\ r.step = "tell" => r \in Tellings
BY DEF TreeRequests, Resting, Guards, Placings, Creations, Updates, Deletions, Linkings, Unlinkings,
       Climbings, Nestings, Drops, Rereadings, Tellings

LEMMA TreeRequestKind ==
    /\ \A r \in Guards \cup Updates : r.kind = "update"
    /\ \A r \in Placings : r.kind \in {"create", "update"}
    /\ \A r \in Creations : r.kind = "create"
    /\ \A r \in Deletions : r.kind = "delete"
    /\ \A r \in Linkings : r.kind \in {"children", "unlink"}
    /\ \A r \in Unlinkings : r.kind = "unlink"
    /\ \A r \in Climbings : r.kind = "children"
    /\ \A r \in Nestings : r.kind = "group"
    /\ \A r \in Drops : r.kind = "drop"
BY DEF Guards, Placings, Creations, Updates, Deletions, Linkings, Unlinkings, Climbings, Nestings, Drops

\* What a request read still holds where nothing was written.
LEMMA ReadsStillHold ==
    ASSUME UNCHANGED <<group, monitor>>, NEW r, ReadsHold(r)
    PROVE  ReadsHold(r)'
<1>1. \A m : T!Live(m)' <=> T!Live(m)
  BY DEF T!Live
<1>2. \A S : Closed(S)' <=> Closed(S)
  BY <1>1 DEF Closed
<1>3. \A m, k : Apart(m, k)' <=> Apart(m, k)
  BY <1>2 DEF Apart
<1>4. \A m, k : Climbed(r, m, k)' <=> Climbed(r, m, k)
  BY <1>1 DEF Climbed
<1> QED  BY <1>1, <1>3, <1>4 DEF ReadsHold, T!MayHold, T!IsLeaf

LEMMA TellsStillHold ==
    ASSUME UNCHANGED monitor, NEW r, TellsHold(r)
    PROVE  TellsHold(r)'
<1>1. \A m : T!Live(m)' <=> T!Live(m)
  BY DEF T!Live
<1> QED  BY <1>1 DEF TellsHold

\* The tables are as they were, and the scheduler too.
LEMMA TablesStill ==
    ASSUME UNCHANGED <<group, monitor>>
    PROVE  /\ T!TwoLevels => T!TwoLevels'
           /\ T!NoOrphans => T!NoOrphans'
           /\ Acyclic => Acyclic'
           /\ (\A m \in Monitors : T!Live(m) => T!MayHold(group, monitor[m].group)) =>
                (\A m \in Monitors : T!Live(m) => T!MayHold(group, monitor[m].group))'
<1>1. \A m : T!Live(m)' <=> T!Live(m)
  BY DEF T!Live
<1> QED  BY <1>1 DEF T!TwoLevels, T!NoOrphans, T!Holds, T!Exists, Acyclic, T!MayHold, T!IsLeaf

LEMMA FollowsStill ==
    ASSUME UNCHANGED <<monitor, running>>, NEW m
    PROVE  Follows(m)' <=> Follows(m)
<1>1. \A k : T!Live(k)' <=> T!Live(k)
  BY DEF T!Live
<1> QED  BY <1>1 DEF Follows

\* A step that only reads, or that ends a request: what it read is what is
\* there, as long as it is alone.
LEMMA ReadingKeepsTree ==
    ASSUME TreeSorts, TreeInvariant, NEW c \in Clients, NEW r \in TreeRequests,
           UNCHANGED <<group, monitor, running>>, request' = [request EXCEPT ![c] = r],
           overlapped' \in BOOLEAN,
           ~ overlapped' => ~ overlapped /\ \A d \in Clients \ {c} : request[d].step = "idle",
           request[c].step \notin {"reread", "tell"}, r.step \notin {"reread", "tell"},
           ~ overlapped' => ReadsHold(r)
    PROVE  TreeInvariant'
<1>1. /\ request \in [Clients -> TreeRequests] /\ request' \in [Clients -> TreeRequests]
      /\ request'[c] = r /\ \A d \in Clients \ {c} : request'[d] = request[d]
  BY DEF TreeInvariant, TreeShapes
<1>2. TreeShapes'
  BY <1>1 DEF TreeInvariant, TreeShapes
<1>3. T!TwoLevels' /\ T!NoOrphans'
  BY TablesStill DEF TreeInvariant
<1>4. NoneUnborn'
  BY <1>1 DEF TreeInvariant, NoneUnborn
<1>5. ASSUME ~ overlapped'
      PROVE  OneAtATime'
  <2>1. OneAtATime /\ \A d \in Clients \ {c} : request[d].step = "idle"
    BY <1>5 DEF TreeInvariant
  <2>2. Alone'
    BY <1>1, <2>1 DEF Alone
  <2>3. Acyclic' /\ (\A m \in Monitors : T!Live(m) => T!MayHold(group, monitor[m].group))'
    BY <2>1, TablesStill DEF OneAtATime
  <2>4. ASSUME NEW d \in Clients, NEW q \in {request'[d]}
        PROVE  ReadsHold(q)' /\ TellsHold(q)'
    <3>1. CASE d = c
      <4>1. q = r /\ ReadsHold(r)
        BY <1>1, <1>5, <2>4, <3>1
      <4>2. TellsHold(r)'
        BY DEF TellsHold
      <4> QED  BY <4>1, <4>2, ReadsStillHold
    <3>2. CASE d # c
      <4>1. ReadsHold(q) /\ TellsHold(q)
        BY <1>1, <2>1, <2>4, <3>2 DEF OneAtATime
      <4> QED  BY <4>1, ReadsStillHold, TellsStillHold
    <3> QED  BY <3>1, <3>2
  <2>5. \A m \in Monitors : Pending(m) => Pending(m)'
    BY <1>1 DEF Pending, Awaits
  <2>6. \A m \in Monitors : Pending(m)' \/ Follows(m)'
    BY <2>1, <2>5, FollowsStill DEF OneAtATime
  <2> QED  BY <2>2, <2>3, <2>4, <2>6 DEF OneAtATime
<1> QED  BY <1>2, <1>3, <1>4, <1>5 DEF TreeInvariant

\* The tables and what the scheduler holds.
LEMMA TreeFacts ==
    ASSUME TreeInvariant, NEW c \in Clients
    PROVE  /\ request \in [Clients -> TreeRequests] /\ request[c] \in TreeRequests
           /\ group \in Forests /\ monitor \in [Monitors -> T!Row \cup {Absent, Deleted}]
           /\ overlapped \in BOOLEAN
           /\ ~ overlapped => OneAtATime /\ ReadsHold(request[c]) /\ TellsHold(request[c])
           /\ ~ overlapped /\ request[c].step # "idle" =>
                \A d \in Clients \ {c} : request[d].step = "idle"
BY DEF TreeInvariant, TreeShapes, OneAtATime, Alone

\* A request is refused, or over.
LEMMA EndKeepsTree ==
    ASSUME TreeSorts, TreeInvariant, NEW c \in Clients, T!End(c), T!Reads,
           request[c].step \notin {"idle", "reread", "tell"}
    PROVE  TreeInvariant'
<1>1. /\ T!Idle \in TreeRequests /\ T!Idle.step = "idle"
      /\ request' = [request EXCEPT ![c] = T!Idle]
      /\ UNCHANGED <<group, monitor, running, overlapped>>
  BY DEF T!End, T!Reads, T!Idle, TreeRequests, Resting
<1>2. ReadsHold(T!Idle)
  BY <1>1 DEF ReadsHold
<1> QED  BY <1>1, <1>2, TreeFacts, ReadingKeepsTree

\* A request goes on: what it carries has the shape of its step, and what it
\* read holds.
LEMMA GoingOnKeepsTree ==
    ASSUME TreeSorts, TreeInvariant, NEW c \in Clients, NEW r \in TreeRequests,
           request' = [request EXCEPT ![c] = r], T!Reads,
           request[c].step \notin {"idle", "reread", "tell"}, r.step \notin {"reread", "tell"},
           ~ overlapped => ReadsHold(r)
    PROVE  TreeInvariant'
BY TreeFacts, ReadingKeepsTree DEF T!Reads

\* The middleware reads the groups: they are what they are.
LEMMA ReceiveKeepsTree ==
    ASSUME TreeSorts, TreeInvariant, NEW c \in Clients, T!Receive(c)
    PROVE  TreeInvariant'
<1>1. /\ request[c].step = "idle" /\ UNCHANGED <<group, monitor, running>>
      /\ overlapped' = (overlapped \/ \E d \in Clients : request[d].step # "idle")
      /\ group \in Forests
  BY TreeFacts DEF T!Receive
<1>2. PICK r \in TreeRequests : /\ request' = [request EXCEPT ![c] = r]
                                /\ r.step \in {"guard", "place", "write"}
                                /\ r.step = "place" => r.tree = group
                                /\ r.step = "guard" /\ r.kind = "update" => r.tree = group
                                /\ r.step = "write" => r.kind = "drop"
  <2>1. ASSUME NEW m \in Monitors, NEW rec \in Bodies
        PROVE  /\ [step |-> "place", kind |-> "create", id |-> m, body |-> rec, tree |-> group]
                    \in TreeRequests
               /\ [step |-> "guard", kind |-> "update", id |-> m, body |-> rec, tree |-> group]
                    \in TreeRequests
    <3>1. rec \in T!Row
      BY DEF TreeSorts
    <3>2. [step |-> "place", kind |-> "create", id |-> m, body |-> rec, tree |-> group] \in Placings
      BY <1>1, <3>1 DEF Placings
    <3>3. [step |-> "guard", kind |-> "update", id |-> m, body |-> rec, tree |-> group] \in Guards
      BY <1>1, <3>1 DEF Guards
    <3> QED  BY <3>2, <3>3 DEF TreeRequests
  <2>2. ASSUME NEW m \in Monitors
        PROVE  [step |-> "guard", kind |-> "delete", id |-> m] \in TreeRequests
    BY DEF Deletions, TreeRequests
  <2>3. ASSUME NEW m \in Monitors, NEW kids \in Some
        PROVE  /\ [step |-> "guard", kind |-> "children", id |-> m, kids |-> kids] \in TreeRequests
               /\ [step |-> "guard", kind |-> "unlink", id |-> m, kids |-> kids] \in TreeRequests
    <3>1. /\ [step |-> "guard", kind |-> "children", id |-> m, kids |-> kids] \in Linkings
          /\ [step |-> "guard", kind |-> "unlink", id |-> m, kids |-> kids] \in Linkings
      BY DEF Linkings
    <3> QED  BY <3>1 DEF TreeRequests
  <2>4. ASSUME NEW g \in Groups, NEW up \in Groups \cup {None}
        PROVE  [step |-> "place", kind |-> "group", id |-> g, up |-> up, tree |-> group]
                 \in TreeRequests
    <3>1. [step |-> "place", kind |-> "group", id |-> g, up |-> up, tree |-> group] \in Nestings
      BY <1>1 DEF Nestings
    <3> QED  BY <3>1 DEF TreeRequests
  <2>5. ASSUME NEW g \in Groups
        PROVE  [step |-> "write", kind |-> "drop", id |-> g] \in TreeRequests
    BY DEF Drops, TreeRequests
  <2>6. Batches \subseteq Some /\ \A k \in Monitors : {k} \in Some
    <3>1. Batches \subseteq Some
      BY DEF TreeSorts, Some
    <3>2. \A k \in Monitors : {k} # {} /\ {k} \subseteq Monitors
      OBVIOUS
    <3> QED  BY <3>1, <3>2 DEF Some
  <2>7. \/ \E m \in Monitors, rec \in Bodies :
             request' = [request EXCEPT ![c] =
               [step |-> "place", kind |-> "create", id |-> m, body |-> rec, tree |-> group]]
        \/ \E m \in Monitors, rec \in Bodies :
             request' = [request EXCEPT ![c] =
               [step |-> "guard", kind |-> "update", id |-> m, body |-> rec, tree |-> group]]
        \/ \E m \in Monitors :
             request' = [request EXCEPT ![c] = [step |-> "guard", kind |-> "delete", id |-> m]]
        \/ \E m \in Monitors, kids \in Some :
             request' = [request EXCEPT ![c] =
               [step |-> "guard", kind |-> "children", id |-> m, kids |-> kids]]
        \/ \E m \in Monitors, kids \in Some :
             request' = [request EXCEPT ![c] =
               [step |-> "guard", kind |-> "unlink", id |-> m, kids |-> kids]]
        \/ \E g \in Groups, up \in Groups \cup {None} :
             request' = [request EXCEPT ![c] =
               [step |-> "place", kind |-> "group", id |-> g, up |-> up, tree |-> group]]
        \/ \E g \in Groups :
             request' = [request EXCEPT ![c] = [step |-> "write", kind |-> "drop", id |-> g]]
    BY <2>6 DEF T!Receive
  <2>8. CASE \E m \in Monitors, rec \in Bodies :
             request' = [request EXCEPT ![c] =
               [step |-> "place", kind |-> "create", id |-> m, body |-> rec, tree |-> group]]
    BY <2>1, <2>8
  <2>9. CASE \E m \in Monitors, rec \in Bodies :
             request' = [request EXCEPT ![c] =
               [step |-> "guard", kind |-> "update", id |-> m, body |-> rec, tree |-> group]]
    BY <2>1, <2>9
  <2>10. CASE \E m \in Monitors :
             request' = [request EXCEPT ![c] = [step |-> "guard", kind |-> "delete", id |-> m]]
    BY <2>2, <2>10
  <2>11. CASE \/ \E m \in Monitors, kids \in Some :
                   request' = [request EXCEPT ![c] =
                     [step |-> "guard", kind |-> "children", id |-> m, kids |-> kids]]
              \/ \E m \in Monitors, kids \in Some :
                   request' = [request EXCEPT ![c] =
                     [step |-> "guard", kind |-> "unlink", id |-> m, kids |-> kids]]
    BY <2>3, <2>11
  <2>12. CASE \E g \in Groups, up \in Groups \cup {None} :
             request' = [request EXCEPT ![c] =
               [step |-> "place", kind |-> "group", id |-> g, up |-> up, tree |-> group]]
    BY <2>4, <2>12
  <2>13. CASE \E g \in Groups :
             request' = [request EXCEPT ![c] = [step |-> "write", kind |-> "drop", id |-> g]]
    BY <2>5, <2>13
  <2> QED  BY <2>7, <2>8, <2>9, <2>10, <2>11, <2>12, <2>13
<1>3. ReadsHold(r)
  <2>1. r.step = "guard" => r.kind # "create"
    BY TreeRequestShape, TreeRequestKind
  <2> QED  BY <1>2, <2>1 DEF ReadsHold
<1> QED  BY <1>1, <1>2, <1>3, TreeFacts, ReadingKeepsTree

\* guardMonitor: the monitor is there.
LEMMA GuardKeepsTree ==
    ASSUME TreeSorts, TreeInvariant, NEW c \in Clients, T!Guard(c)
    PROVE  TreeInvariant'
<1>1. PICK q \in TreeRequests : q = request[c]
  BY TreeFacts
<1>2. q.step = "guard" /\ T!Reads /\ q \in Guards \cup Deletions \cup Linkings
  BY <1>1, TreeRequestShape DEF T!Guard
<1>3. CASE T!End(c)
  BY <1>1, <1>2, <1>3, EndKeepsTree
<1>4. CASE ~ T!End(c)
  <2>1. PICK r : r = [q EXCEPT !.step = CASE q.kind = "update" -> "place"
                        [] q.kind = "delete" -> "write" [] OTHER -> "kids"]
    OBVIOUS
  <2>2. T!Live(q.id) /\ request' = [request EXCEPT ![c] = r]
    BY <1>1, <1>4, <2>1 DEF T!Guard, T!To
  <2>3. CASE q \in Guards
    <3>1. /\ r \in Placings /\ r.step = "place" /\ r.kind = "update" /\ r.tree = q.tree
          /\ q.kind = "update"
      BY <2>1, <2>3 DEF Guards, Placings
    <3>2. r \in TreeRequests
      BY <3>1 DEF TreeRequests
    <3>3. ~ overlapped => ReadsHold(r)
      BY <1>1, <1>2, <3>1, TreeFacts DEF ReadsHold
    <3> QED  BY <1>1, <1>2, <2>2, <3>1, <3>2, <3>3, GoingOnKeepsTree
  <2>4. CASE q \in Deletions
    <3>1. r \in Deletions /\ r.step = "write" /\ r.kind = "delete"
      BY <2>1, <2>4 DEF Deletions
    <3>2. r \in TreeRequests /\ ReadsHold(r)
      BY <3>1 DEF TreeRequests, ReadsHold
    <3> QED  BY <1>1, <1>2, <2>2, <3>1, <3>2, GoingOnKeepsTree
  <2>5. CASE q \in Linkings
    <3>1. r \in Linkings /\ r.step = "kids" /\ r.kind \in {"children", "unlink"} /\ r.id = q.id
      BY <2>1, <2>5 DEF Linkings
    <3>2. r \in TreeRequests /\ ReadsHold(r)
      BY <2>2, <3>1 DEF TreeRequests, ReadsHold
    <3> QED  BY <1>1, <1>2, <2>2, <3>1, <3>2, GoingOnKeepsTree
  <2> QED  BY <1>2, <2>3, <2>4, <2>5
<1> QED  BY <1>3, <1>4

\* Placement is decided on the tree that was read, which is the tree.
LEMMA PlaceKeepsTree ==
    ASSUME TreeSorts, TreeInvariant, NEW c \in Clients, T!Place(c)
    PROVE  TreeInvariant'
<1>1. PICK q \in TreeRequests : q = request[c]
  BY TreeFacts
<1>2. q.step = "place" /\ T!Reads /\ q \in Placings \cup Nestings
  BY <1>1, TreeRequestShape DEF T!Place
<1>3. CASE T!End(c)
  BY <1>1, <1>2, <1>3, EndKeepsTree
<1>4. CASE ~ T!End(c) /\ q \in Nestings
  <2>1. PICK r : r = [q EXCEPT !.step = IF q.up = None \/ q.tree[q.id] = q.up THEN "write" ELSE "room"]
    OBVIOUS
  <2>2. q.kind = "group"
    BY <1>4, TreeRequestKind
  <2>3. request' = [request EXCEPT ![c] = r]
    BY <1>1, <1>4, <2>1, <2>2 DEF T!Place, T!To
  <2>4. /\ r \in Nestings /\ r.kind = "group" /\ r.tree = q.tree /\ r.up = q.up /\ r.id = q.id
        /\ r.step \in {"room", "write"} /\ (r.step = "write" => q.up = None \/ q.tree[q.id] = q.up)
    BY <1>4, <2>1 DEF Nestings
  <2>5. r \in TreeRequests
    BY <2>4 DEF TreeRequests
  <2>6. ~ overlapped => ReadsHold(r)
    BY <1>1, <1>2, <2>2, <2>4, TreeFacts DEF ReadsHold
  <2> QED  BY <1>1, <1>2, <2>3, <2>4, <2>5, <2>6, GoingOnKeepsTree
<1>5. CASE ~ T!End(c) /\ q \in Placings
  <2>1. PICK r : r = [q EXCEPT !.step = "parent"]
    OBVIOUS
  <2>2. q.kind \in {"create", "update"}
    BY <1>5, TreeRequestKind
  <2>3. request' = [request EXCEPT ![c] = r] /\ T!MayHold(q.tree, q.body.group)
    BY <1>1, <1>5, <2>1, <2>2 DEF T!Place, T!To
  <2>4. r \in Placings /\ r.kind = q.kind /\ r.body = q.body /\ r.step = "parent"
    BY <1>5, <2>1 DEF Placings
  <2>5. r \in TreeRequests
    BY <2>4 DEF TreeRequests
  <2>6. ~ overlapped => q.tree = group
    BY <1>1, <1>2, <2>2, TreeFacts DEF ReadsHold
  <2>7. ~ overlapped => ReadsHold(r)
    BY <2>2, <2>3, <2>4, <2>6 DEF ReadsHold
  <2> QED  BY <1>1, <1>2, <2>3, <2>4, <2>5, <2>7, GoingOnKeepsTree
<1> QED  BY <1>2, <1>3, <1>4, <1>5

\* placeGroup: the group above has no monitors of its own.
LEMMA RoomKeepsTree ==
    ASSUME TreeSorts, TreeInvariant, NEW c \in Clients, T!Room(c)
    PROVE  TreeInvariant'
<1>1. PICK q \in TreeRequests : q = request[c]
  BY TreeFacts
<1>2. q.step = "room" /\ T!Reads /\ q \in Nestings /\ q.kind = "group"
  BY <1>1, TreeRequestShape, TreeRequestKind DEF T!Room
<1>3. CASE T!End(c)
  BY <1>1, <1>2, <1>3, EndKeepsTree
<1>4. CASE ~ T!End(c)
  <2>1. PICK r : r = [q EXCEPT !.step = "write"]
    OBVIOUS
  <2>2. /\ request' = [request EXCEPT ![c] = r]
        /\ \A m \in Monitors : T!Live(m) => monitor[m].group # q.up
    BY <1>1, <1>4, <2>1 DEF T!Room, T!To
  <2>3. /\ r \in Nestings /\ r.kind = "group" /\ r.tree = q.tree /\ r.up = q.up /\ r.step = "write"
    BY <1>2, <2>1 DEF Nestings
  <2>4. r \in TreeRequests
    BY <2>3 DEF TreeRequests
  <2>5. ~ overlapped => ReadsHold(r)
    BY <1>1, <1>2, <2>2, <2>3, TreeFacts DEF ReadsHold
  <2> QED  BY <1>1, <1>2, <2>2, <2>3, <2>4, <2>5, GoingOnKeepsTree
<1> QED  BY <1>3, <1>4

\* checkMonitorParent: the parent is there, and an update begins its climb.
LEMMA ParentKeepsTree ==
    ASSUME TreeSorts, TreeInvariant, NEW c \in Clients, T!Parent(c)
    PROVE  TreeInvariant'
<1>1. PICK q \in TreeRequests : q = request[c]
  BY TreeFacts
<1>2. q.step = "parent" /\ T!Reads /\ q \in Placings /\ q.kind \in {"create", "update"}
  BY <1>1, TreeRequestShape, TreeRequestKind DEF T!Parent
<1>3. CASE T!End(c)
  BY <1>1, <1>2, <1>3, EndKeepsTree
<1>4. CASE ~ T!End(c)
  <2>1. PICK r : r = [step |-> IF q.kind = "update" THEN "climb" ELSE "write", kind |-> q.kind,
                      id |-> q.id, body |-> q.body, kids |-> {q.id}, at |-> q.body.parent,
                      seen |-> {}]
    OBVIOUS
  <2>2. /\ request' = [request EXCEPT ![c] = r]
        /\ q.body.parent = None \/ T!Live(q.body.parent)
    BY <1>1, <1>4, <2>1 DEF T!Parent
  <2>3. /\ q.id \in Monitors /\ q.body \in T!Row /\ q.body.parent \in Monitors \cup {None}
    BY <1>2 DEF Placings, T!Row
  <2>4. {q.id} \in Some
    BY <2>3 DEF Some
  <2>5. /\ r.kind = q.kind /\ r.id = q.id /\ r.body = q.body /\ r.at = q.body.parent /\ r.seen = {}
        /\ r.step = IF q.kind = "update" THEN "climb" ELSE "write"
    BY <2>1
  <2>6. q.kind = "create" => r \in Creations
    BY <2>1, <2>3, <2>4 DEF Creations
  <2>7. q.kind = "update" => r \in Updates
    BY <2>1, <2>3, <2>4 DEF Updates
  <2>8. r \in TreeRequests
    BY <1>2, <2>6, <2>7 DEF TreeRequests
  <2>9. ~ overlapped => ReadsHold(r)
    BY <1>1, <1>2, <2>2, <2>5, TreeFacts DEF ReadsHold, Climbed
  <2> QED  BY <1>1, <1>2, <2>2, <2>5, <2>8, <2>9, GoingOnKeepsTree
<1> QED  BY <1>3, <1>4

\* handleSetChildren and handleUnlinkChild read what they are about to move.
LEMMA KidsKeepTree ==
    ASSUME TreeSorts, TreeInvariant, NEW c \in Clients, T!Kids(c)
    PROVE  TreeInvariant'
<1>1. PICK q \in TreeRequests : q = request[c]
  BY TreeFacts
<1>2. q.step = "kids" /\ T!Reads /\ q \in Linkings /\ q.kind \in {"children", "unlink"}
  BY <1>1, TreeRequestShape, TreeRequestKind DEF T!Kids
<1>3. CASE T!End(c)
  BY <1>1, <1>2, <1>3, EndKeepsTree
<1>4. CASE ~ T!End(c)
  <2>1. PICK r : r = [step |-> IF q.kind = "unlink" THEN "write" ELSE "climb", kind |-> q.kind,
                      id |-> q.id, kids |-> q.kids, left |-> q.kids, at |-> q.id, seen |-> {}]
    OBVIOUS
  <2>2. request' = [request EXCEPT ![c] = r]
    BY <1>1, <1>4, <2>1 DEF T!Kids
  <2>3. q.id \in Monitors /\ q.kids \in Some
    BY <1>2 DEF Linkings
  <2>4. /\ r.kind = q.kind /\ r.id = q.id /\ r.kids = q.kids /\ r.left = q.kids /\ r.at = q.id
        /\ r.seen = {} /\ r.step = IF q.kind = "unlink" THEN "write" ELSE "climb"
    BY <2>1
  <2>5. q.kind = "unlink" => r \in Unlinkings
    BY <2>1, <2>3 DEF Unlinkings
  <2>6. q.kind = "children" => r \in Climbings
    BY <2>1, <2>3 DEF Climbings
  <2>7. r \in TreeRequests
    BY <1>2, <2>5, <2>6 DEF TreeRequests
  <2>8. ~ overlapped => ReadsHold(r)
    BY <1>1, <1>2, <2>4, TreeFacts DEF ReadsHold, Climbed
  <2> QED  BY <1>1, <1>2, <2>2, <2>4, <2>7, <2>8, GoingOnKeepsTree
<1> QED  BY <1>3, <1>4

\* A climb that is over: from its start the monitor is not reached.
LEMMA ClimbEnds ==
    ASSUME NEW r, NEW start, NEW k, r.seen \in SUBSET Monitors, Climbed(r, start, k), start # None,
           r.at = None \/ r.at \in r.seen
    PROVE  Apart(start, k)
<1>1. Closed(r.seen) /\ start \in r.seen /\ k \notin r.seen
  BY DEF Climbed, Closed
<1> QED  BY <1>1 DEF Apart

\* A climb that goes on, by one parent.
LEMMA ClimbGoesOn ==
    ASSUME TreeSorts, TreeInvariant, NEW q, NEW r, NEW start, NEW k, Climbed(q, start, k),
           T!Climbs(k, q.at, q.seen), T!Live(q.at), q.at \in Monitors,
           r.at = monitor[q.at].parent, r.seen = q.seen \cup {q.at}
    PROVE  Climbed(r, start, k)
<1>1. monitor[q.at].parent = None \/ T!Live(monitor[q.at].parent)
  BY DEF TreeInvariant, T!NoOrphans, T!Holds
<1> QED  BY <1>1 DEF Climbed, T!Climbs

\* ParentCycle, one lookup at a time.
LEMMA ClimbKeepsTree ==
    ASSUME TreeSorts, TreeInvariant, NEW c \in Clients, T!Climb(c)
    PROVE  TreeInvariant'
<1>1. PICK q \in TreeRequests : q = request[c]
  BY TreeFacts
<1>2. /\ q.step = "climb" /\ T!Reads /\ q \in Updates \cup Climbings
      /\ q \in Updates => q.kind = "update"
      /\ q \in Climbings => q.kind = "children"
  BY <1>1, TreeRequestShape, TreeRequestKind DEF T!Climb
<1>3. PICK k : k = IF q.kind = "update" THEN q.id ELSE CHOOSE x \in q.left : TRUE
  OBVIOUS
<1>4. PICK start : start = IF q.kind = "update" THEN q.body.parent ELSE q.id
  OBVIOUS
<1>5. /\ q.at \in Monitors \cup {None} /\ q.seen \in SUBSET Monitors /\ q.id \in Monitors
      /\ q.kind = "children" => q.left \in Some /\ q.kids \in Some
      /\ q.kind = "update" => q.body \in T!Row
  BY <1>2 DEF Updates, Climbings
<1>6. ~ overlapped => ReadsHold(q) /\ Climbed(q, start, k)
  BY <1>1, <1>2, <1>3, <1>4, TreeFacts DEF ReadsHold
<1>7. /\ IF q.at = k THEN T!End(c)
         ELSE IF T!Climbs(k, q.at, q.seen) /\ T!Live(q.at)
           THEN request' = [request EXCEPT ![c].at = monitor[q.at].parent,
                                           ![c].seen = @ \cup {q.at}]
         ELSE IF q.kind = "update" \/ q.left = {k} THEN T!To(c, "write")
         ELSE request' = [request EXCEPT ![c].at = q.id, ![c].seen = {}, ![c].left = @ \ {k}]
  BY <1>1, <1>3 DEF T!Climb
<1>8. CASE q.at = k
  BY <1>1, <1>2, <1>7, <1>8, EndKeepsTree
<1>9. CASE q.at # k /\ T!Climbs(k, q.at, q.seen) /\ T!Live(q.at)
  <2>1. PICK r : r = [q EXCEPT !.at = monitor[q.at].parent, !.seen = q.seen \cup {q.at}]
    OBVIOUS
  <2>2. request' = [request EXCEPT ![c] = r]
    BY <1>1, <1>7, <1>9, <2>1, TreeFacts
  <2>3. q.at \in Monitors
    BY <1>5, <1>9 DEF T!Climbs
  <2>4. monitor[q.at] \in T!Row
    BY <1>9, <2>3, TreeFacts DEF T!Live
  <2>5. monitor[q.at].parent \in Monitors \cup {None} /\ q.seen \cup {q.at} \in SUBSET Monitors
    BY <1>5, <2>3, <2>4 DEF T!Row
  <2>6. /\ r.at = monitor[q.at].parent /\ r.seen = q.seen \cup {q.at} /\ r.kind = q.kind
        /\ r.id = q.id /\ r.step = "climb"
        /\ q.kind = "update" => r.body = q.body /\ r \in Updates
        /\ q.kind = "children" => r.kids = q.kids /\ r.left = q.left /\ r \in Climbings
    <3>1. CASE q \in Updates
      BY <1>2, <2>1, <2>5, <3>1 DEF Updates
    <3>2. CASE q \in Climbings
      BY <1>2, <2>1, <2>5, <3>2 DEF Climbings
    <3> QED  BY <1>2, <3>1, <3>2
  <2>7. r \in TreeRequests
    BY <1>2, <2>6 DEF TreeRequests
  <2>8. ~ overlapped => Climbed(r, start, k)
    BY <1>6, <1>9, <2>3, <2>6, ClimbGoesOn
  <2>9. ~ overlapped => ReadsHold(r)
    BY <1>2, <1>3, <1>4, <1>6, <2>6, <2>8 DEF ReadsHold
  <2> QED  BY <1>1, <1>2, <2>2, <2>6, <2>7, <2>9, GoingOnKeepsTree
<1>10. ASSUME ~ overlapped, q.at # k, ~ (T!Climbs(k, q.at, q.seen) /\ T!Live(q.at))
       PROVE  start = None \/ Apart(start, k)
  <2>1. q.at = None \/ q.at \in q.seen
    BY <1>6, <1>10 DEF T!Climbs, Climbed
  <2> QED  BY <1>5, <1>6, <1>10, <2>1, ClimbEnds
<1>11. CASE /\ q.at # k /\ ~ (T!Climbs(k, q.at, q.seen) /\ T!Live(q.at))
            /\ q.kind = "update" \/ q.left = {k}
  <2>1. PICK r : r = [q EXCEPT !.step = "write"]
    OBVIOUS
  <2>2. request' = [request EXCEPT ![c] = r]
    BY <1>1, <1>7, <1>11, <2>1, TreeFacts DEF T!To
  <2>3. /\ r.kind = q.kind /\ r.id = q.id /\ r.step = "write"
        /\ q.kind = "update" => r.body = q.body /\ r \in Updates
        /\ q.kind = "children" => r.kids = q.kids /\ r \in Climbings
    <3>1. CASE q \in Updates
      BY <1>2, <2>1, <3>1 DEF Updates
    <3>2. CASE q \in Climbings
      BY <1>2, <2>1, <3>2 DEF Climbings
    <3> QED  BY <1>2, <3>1, <3>2
  <2>4. r \in TreeRequests
    BY <1>2, <2>3 DEF TreeRequests
  <2>5. ~ overlapped /\ q.kind = "update" => ReadsHold(r)
    BY <1>2, <1>3, <1>4, <1>6, <1>10, <1>11, <2>3 DEF ReadsHold
  <2>6. ~ overlapped /\ q.kind = "children" => ReadsHold(r)
    <3>1. q.kind = "children" => start = q.id /\ q.id # None /\ q.left = {k}
      BY <1>4, <1>5, <1>11 DEF TreeSorts
    <3> QED  BY <1>2, <1>3, <1>6, <1>10, <1>11, <2>3, <3>1 DEF ReadsHold
  <2> QED  BY <1>1, <1>2, <2>2, <2>3, <2>4, <2>5, <2>6, GoingOnKeepsTree
<1>12. CASE /\ q.at # k /\ ~ (T!Climbs(k, q.at, q.seen) /\ T!Live(q.at))
            /\ ~ (q.kind = "update" \/ q.left = {k})
  <2>1. PICK r : r = [q EXCEPT !.at = q.id, !.seen = {}, !.left = q.left \ {k}]
    OBVIOUS
  <2>2. request' = [request EXCEPT ![c] = r]
    BY <1>1, <1>7, <1>12, <2>1, TreeFacts
  <2>3. q \in Climbings /\ q.kind = "children" /\ k = (CHOOSE x \in q.left : TRUE) /\ start = q.id
    BY <1>2, <1>3, <1>4, <1>12
  <2>4. q.left # {} /\ q.left \subseteq Monitors
    BY <1>5, <2>3 DEF Some
  <2>5. k \in q.left
    BY <2>3, <2>4
  <2>6. q.left \ {k} \in Some
    BY <1>12, <2>4, <2>5 DEF Some
  <2>7. /\ r.at = q.id /\ r.seen = {} /\ r.left = q.left \ {k} /\ r.kind = q.kind /\ r.id = q.id
        /\ r.step = "climb" /\ r.kids = q.kids /\ r \in Climbings
    BY <1>5, <2>1, <2>3, <2>6, <1>2 DEF Climbings
  <2>8. r \in TreeRequests
    BY <2>7 DEF TreeRequests
  <2>9. q.id # None
    BY <1>5 DEF TreeSorts
  <2>10. ~ overlapped => ReadsHold(r)
    <3>1. SUFFICES ASSUME ~ overlapped PROVE ReadsHold(r)
      OBVIOUS
    <3>2. T!Live(q.id) /\ \A x \in q.kids \ q.left : Apart(q.id, x)
      BY <1>2, <1>6, <2>3, <3>1 DEF ReadsHold
    <3>3. Apart(q.id, k)
      BY <1>10, <1>12, <2>3, <2>9, <3>1
    <3>4. \A x \in r.kids \ r.left : Apart(r.id, x)
      BY <2>7, <3>2, <3>3
    <3>5. Climbed(r, r.id, CHOOSE x \in r.left : TRUE)
      BY <2>7, <3>2 DEF Climbed
    <3> QED  BY <2>3, <2>7, <3>2, <3>4, <3>5 DEF ReadsHold
  <2> QED  BY <1>1, <1>2, <2>2, <2>7, <2>8, <2>10, GoingOnKeepsTree
<1> QED  BY <1>8, <1>9, <1>11, <1>12

\* A transaction: what it leaves in the tables, and what is told of it.
LEMMA WritingKeepsTree ==
    ASSUME TreeSorts, TreeInvariant, NEW c \in Clients, NEW r \in TreeRequests,
           request[c].step = "write", r.step \in {"idle", "reread", "tell"},
           request' = [request EXCEPT ![c] = r], UNCHANGED <<running, overlapped>>,
           group' \in Forests, monitor' \in [Monitors -> T!Row \cup {Absent, Deleted}],
           T!TwoLevels', T!NoOrphans',
           \A m \in Monitors : monitor[m] # Absent => monitor'[m] # Absent,
           r.step = "tell" /\ r.row # Absent /\ r.row.parent # None =>
               monitor'[r.row.parent] # Absent,
           ~ overlapped =>
               /\ Acyclic' /\ TellsHold(r)'
               /\ (\A m \in Monitors : T!Live(m) => T!MayHold(group, monitor[m].group))'
               /\ \A m \in Monitors : Awaits(r, m) \/ Follows(m)'
    PROVE  TreeInvariant'
<1>1. /\ request' \in [Clients -> TreeRequests]
      /\ request'[c] = r /\ \A d \in Clients \ {c} : request'[d] = request[d]
  BY TreeFacts
<1>2. TreeShapes'
  BY <1>1 DEF TreeInvariant, TreeShapes
<1>3. NoneUnborn'
  <2>1. \A m \in Monitors : running[m] # Absent /\ running[m].parent # None =>
          running[m].parent \in Monitors
    BY DEF TreeInvariant, TreeShapes, T!Row
  <2>2. ASSUME NEW d \in Clients, request[d].step = "tell", request[d].row # Absent,
               request[d].row.parent # None
        PROVE  request[d].row.parent \in Monitors
    <3>1. request[d] \in Tellings
      BY <2>2, TreeFacts, TreeRequestShape
    <3>2. request[d].row \in T!Row
      BY <2>2, <3>1 DEF Tellings
    <3> QED  BY <2>2, <3>2 DEF T!Row
  <2>3. NoneUnborn
    BY DEF TreeInvariant
  <2>4. \A m \in Monitors : running'[m] # Absent /\ running'[m].parent # None =>
          monitor'[running'[m].parent] # Absent
    BY <2>1, <2>3 DEF NoneUnborn
  <2>5. \A d \in Clients : request'[d].step = "tell" /\ request'[d].row # Absent
                            /\ request'[d].row.parent # None =>
          monitor'[request'[d].row.parent] # Absent
    BY <1>1, <2>2, <2>3 DEF NoneUnborn
  <2> QED  BY <2>4, <2>5 DEF NoneUnborn
<1>4. ASSUME ~ overlapped'
      PROVE  OneAtATime'
  <2>1. ~ overlapped /\ OneAtATime /\ \A d \in Clients \ {c} : request[d].step = "idle"
    BY <1>4, TreeFacts
  <2>2. Alone'
    BY <1>1, <2>1 DEF Alone
  <2>3. ASSUME NEW d \in Clients, NEW q \in {request'[d]}
        PROVE  ReadsHold(q)' /\ TellsHold(q)'
    <3>1. q.step \in {"idle", "reread", "tell"}
      BY <1>1, <2>1, <2>3
    <3>2. ReadsHold(q)'
      BY <3>1 DEF ReadsHold
    <3>3. CASE d = c
      BY <1>1, <2>1, <2>3, <3>2, <3>3
    <3>4. CASE d # c
      <4>1. q.step = "idle"
        BY <1>1, <2>1, <2>3, <3>4
      <4>2. TellsHold(q)'
        BY <4>1 DEF TellsHold
      <4> QED  BY <3>2, <4>2
    <3> QED  BY <3>3, <3>4
  <2>4. \A m \in Monitors : Pending(m)' \/ Follows(m)'
    <3>1. \A m \in Monitors : Awaits(r, m) => Pending(m)'
      BY <1>1 DEF Pending
    <3> QED  BY <2>1, <3>1
  <2> QED  BY <2>1, <2>2, <2>3, <2>4 DEF OneAtATime
<1> QED  BY <1>2, <1>3, <1>4 DEF TreeInvariant

LEMMA WriterIsNoReader ==
    ASSUME TreeInvariant, NEW c \in Clients, request[c].step = "write", ~ overlapped
    PROVE  \A m \in Monitors : Follows(m)
<1>1. OneAtATime /\ \A d \in Clients : request[d].step \notin {"reread", "tell"}
  BY TreeFacts
<1> QED  BY <1>1 DEF OneAtATime, Pending, Awaits

\* What a transaction leaves, if a set of monitors that lead to the top keeps
\* its parents and has one of the monitors of a cycle, is no cycle.
LEMMA NoCycleThrough ==
    ASSUME TreeSorts, Acyclic, NEW S \in SUBSET Monitors, Closed(S), NEW M \in SUBSET Monitors,
           \A x \in M : monitor'[x].parent \in M,
           \A x \in M \cap S : monitor'[x].parent = monitor[x].parent,
           NEW y \in M \cap S
    PROVE  FALSE
<1>1. M \cap S \in SUBSET {m \in Monitors : T!Live(m)}
  BY DEF Closed
<1>2. \A x \in M \cap S : monitor[x].parent \in M \cap S
  BY DEF Closed, TreeSorts
<1> QED  BY <1>1, <1>2 DEF Acyclic

\* What is not written is still followed: a parent that is gone stays so.
LEMMA FollowsOn ==
    ASSUME TreeSorts, TreeInvariant, NEW m \in Monitors, Follows(m), UNCHANGED running,
           monitor'[m] = monitor[m],
           \A p \in Monitors : monitor[p] = Deleted => monitor'[p] = Deleted
    PROVE  Follows(m)'
<1>1. T!Live(m)' <=> T!Live(m)
  BY DEF T!Live
<1>2. CASE ~ T!Live(m) \/ ~ monitor[m].on
  BY <1>1, <1>2 DEF Follows
<1>3. CASE T!Live(m) /\ monitor[m].on
  <2>1. /\ running[m] # Absent
        /\ [running[m] EXCEPT !.parent = None] = [monitor[m] EXCEPT !.parent = None]
        /\ \/ running[m].parent = monitor[m].parent
           \/ monitor[m].parent = None /\ ~ T!Live(running[m].parent)
    BY <1>3 DEF Follows
  <2>2. running[m] \in T!Row
    BY <2>1 DEF TreeInvariant, TreeShapes
  <2>3. running[m].parent \in Monitors \cup {None}
    BY <2>2 DEF T!Row
  <2>4. monitor[m].parent = None /\ running[m].parent # None /\ ~ T!Live(running[m].parent) =>
          ~ T!Live(running[m].parent)'
    <3>1. running[m].parent # None => monitor[running[m].parent] # Absent
      BY <2>1 DEF TreeInvariant, NoneUnborn
    <3> QED  BY <2>3, <3>1 DEF T!Live
  <2> QED  BY <1>1, <1>3, <2>1, <2>4 DEF Follows
<1> QED  BY <1>2, <1>3

\* Create and Update of a monitor, with the conditions of their statements.
LEMMA WriteMonitorKeepsTree ==
    ASSUME TreeSorts, TreeInvariant, NEW c \in Clients, T!WriteMonitor(c)
    PROVE  TreeInvariant'
<1>1. PICK q \in TreeRequests : q = request[c]
  BY TreeFacts
<1>2. /\ q.step = "write" /\ q \in Creations \cup Updates /\ q.kind \in {"create", "update"}
      /\ UNCHANGED <<group, running, requests, overlapped>>
      /\ monitor \in [Monitors -> T!Row \cup {Absent, Deleted}]
  BY <1>1, TreeFacts, TreeRequestShape, TreeRequestKind DEF T!WriteMonitor
<1>3. CASE ~ (T!Holds(q.body) /\ (IF q.kind = "update" THEN T!Live(q.id) ELSE monitor[q.id] = Absent))
  <2>1. T!End(c) /\ T!Reads
    BY <1>1, <1>2, <1>3 DEF T!WriteMonitor, T!Reads
  <2> QED  BY <1>1, <1>2, <2>1, EndKeepsTree
<1>4. CASE T!Holds(q.body) /\ (IF q.kind = "update" THEN T!Live(q.id) ELSE monitor[q.id] = Absent)
  <2>1. q.id \in Monitors /\ q.body \in T!Row
    BY <1>2 DEF Creations, Updates
  <2>2. PICK r : r = IF q.kind = "update" THEN [step |-> "reread", kind |-> "update", left |-> {q.id}]
                     ELSE [step |-> "tell", kind |-> "create", left |-> {}, id |-> q.id,
                           row |-> q.body]
    OBVIOUS
  <2>3. monitor' = [monitor EXCEPT ![q.id] = q.body] /\ request' = [request EXCEPT ![c] = r]
    BY <1>1, <1>2, <1>4, <2>2 DEF T!WriteMonitor
  <2>4. r \in TreeRequests
    <3>1. {q.id} \in Some
      BY <2>1 DEF Some
    <3>2. q.kind = "update" => r \in Rereadings
      BY <2>2, <3>1 DEF Rereadings, Writings
    <3>3. q.kind # "update" => r \in Tellings
      BY <2>1, <2>2 DEF Tellings, Writings
    <3> QED  BY <3>2, <3>3 DEF TreeRequests
  <2>5. /\ \A m \in Monitors \ {q.id} : monitor'[m] = monitor[m] /\ (T!Live(m)' <=> T!Live(m))
        /\ monitor'[q.id] = q.body /\ T!Live(q.id)'
        /\ q.body.parent \in Monitors \cup {None}
    BY <1>2, <2>1, <2>3 DEF T!Live, TreeSorts, T!Row
  <2>6. \A p \in Monitors : T!Live(p) => T!Live(p)'
    BY <2>5
  <2>7. \A m \in Monitors : T!Live(m) => monitor[m].parent \in Monitors \cup {None}
    BY <1>2 DEF T!Live, T!Row
  <2>8. T!NoOrphans'
    <3>1. ASSUME NEW m \in Monitors, T!Live(m)'
          PROVE  /\ monitor'[m].group # None => group[monitor'[m].group] \notin {Absent, Deleted}
                 /\ monitor'[m].parent # None => monitor'[monitor'[m].parent] \notin {Absent, Deleted}
      <4>1. CASE m = q.id
        <5>1. q.body.parent # None => T!Live(q.body.parent)'
          BY <1>4, <2>5, <2>6 DEF T!Holds
        <5> QED  BY <1>4, <2>5, <4>1, <5>1 DEF T!Holds, T!Exists, T!Live
      <4>2. CASE m # q.id
        <5>1. T!Live(m) /\ T!Holds(monitor[m])
          BY <2>5, <3>1, <4>2 DEF TreeInvariant, T!NoOrphans
        <5>2. monitor[m].parent # None => monitor'[monitor[m].parent] \notin {Absent, Deleted}
          BY <2>6, <2>7, <5>1 DEF T!Holds, T!Live
        <5> QED  BY <2>5, <4>2, <5>1, <5>2 DEF T!Holds, T!Exists, T!Live
      <4> QED  BY <4>1, <4>2
    <3> QED  BY <1>2, <3>1 DEF T!NoOrphans, T!Holds, T!Exists, T!Live
  <2>9. T!TwoLevels' /\ group' \in Forests
    BY <1>2, TreeFacts DEF TreeInvariant, T!TwoLevels
  <2>10. /\ monitor' \in [Monitors -> T!Row \cup {Absent, Deleted}]
         /\ \A m \in Monitors : monitor[m] # Absent => monitor'[m] # Absent
    BY <1>2, <2>1, <2>3, <2>5 DEF T!Live
  <2>11. r.step = "tell" /\ r.row # Absent /\ r.row.parent # None => monitor'[r.row.parent] # Absent
    <3>1. q.body.parent # None => monitor'[q.body.parent] # Absent
      BY <1>4, <2>5, <2>6 DEF T!Holds, T!Live
    <3> QED  BY <2>2, <3>1
  <2>12. ASSUME ~ overlapped
         PROVE  /\ Acyclic' /\ TellsHold(r)'
                /\ (\A m \in Monitors : T!Live(m) => T!MayHold(group, monitor[m].group))'
                /\ \A m \in Monitors : Awaits(r, m) \/ Follows(m)'
    <3>1. OneAtATime /\ ReadsHold(q)
      BY <1>1, <2>12, TreeFacts
    <3>2. TellsHold(r)'
      BY <2>2, <2>5 DEF TellsHold
    <3>3. T!MayHold(group, q.body.group)
      BY <1>2, <3>1 DEF ReadsHold
    <3>4. ASSUME NEW m \in Monitors, T!Live(m)'
          PROVE  T!MayHold(group, monitor'[m].group)
      BY <2>5, <3>1, <3>3, <3>4 DEF OneAtATime
    <3>5. (\A m \in Monitors : T!Live(m) => T!MayHold(group, monitor[m].group))'
      BY <1>2, <3>4 DEF T!MayHold, T!IsLeaf
    <3>6. ASSUME NEW m \in Monitors
          PROVE  Awaits(r, m) \/ Follows(m)'
      <4>1. CASE m = q.id
        BY <2>2, <4>1 DEF Awaits
      <4>2. CASE m # q.id
        <5>1. Follows(m)
          BY <1>1, <1>2, <2>12, WriterIsNoReader
        <5>2. monitor[q.id] # Deleted
          BY <1>4, <1>2 DEF T!Live, TreeSorts
        <5>3. \A p \in Monitors : monitor[p] = Deleted => monitor'[p] = Deleted
          BY <2>5, <5>2
        <5> QED  BY <1>2, <2>5, <4>2, <5>1, <5>3, FollowsOn
      <4> QED  BY <4>1, <4>2
    <3>7. Acyclic'
      <4>1. SUFFICES ASSUME NEW M \in SUBSET Monitors, M # {}, \A x \in M : T!Live(x)',
                            \A x \in M : monitor'[x].parent \in M
                     PROVE  FALSE
        BY DEF Acyclic
      <4>2. CASE q.id \notin M
        <5>1. M \in SUBSET {m \in Monitors : T!Live(m)} /\ \A x \in M : monitor[x].parent \in M
          BY <2>5, <4>1, <4>2
        <5> QED  BY <3>1, <4>1, <5>1 DEF OneAtATime, Acyclic
      <4>3. CASE q.id \in M /\ q.kind = "update"
        <5>1. q.body.parent \in M /\ q.body.parent # None
          BY <2>5, <4>1, <4>3 DEF TreeSorts
        <5>2. Apart(q.body.parent, q.id)
          BY <1>2, <3>1, <4>3, <5>1 DEF ReadsHold
        <5>3. PICK S \in SUBSET Monitors : Closed(S) /\ q.body.parent \in S /\ q.id \notin S
          BY <5>2 DEF Apart
        <5>4. \A x \in M \cap S : monitor'[x].parent = monitor[x].parent
          BY <2>5, <4>1, <5>3
        <5> QED  BY <3>1, <4>1, <5>1, <5>3, <5>4, NoCycleThrough DEF OneAtATime
      <4>4. CASE q.id \in M /\ q.kind = "create"
        <5>1. ~ T!Live(q.id)
          BY <1>4, <4>4 DEF T!Live
        <5>2. q.body.parent \in M /\ q.body.parent # None
          BY <2>5, <4>1, <4>4 DEF TreeSorts
        <5>3. q.body.parent # q.id
          BY <1>4, <5>1, <5>2 DEF T!Holds
        <5>4. \A x \in M \ {q.id} : T!Live(x) /\ monitor[x].parent \in M
          BY <2>5, <4>1
        <5>5. \A x \in M \ {q.id} : monitor[x].parent # q.id
          <6>1. \A x \in M \ {q.id} : monitor[x].parent # None => T!Live(monitor[x].parent)
            BY <4>1, <5>4 DEF TreeInvariant, T!NoOrphans, T!Holds
          <6>2. q.id # None
            BY <2>1 DEF TreeSorts
          <6> QED  BY <5>1, <6>1, <6>2
        <5>6. M \ {q.id} \in SUBSET {m \in Monitors : T!Live(m)}
          BY <4>1, <5>4
        <5> QED  BY <3>1, <5>2, <5>3, <5>4, <5>5, <5>6 DEF OneAtATime, Acyclic
      <4> QED  BY <1>2, <4>2, <4>3, <4>4
    <3> QED  BY <3>2, <3>5, <3>6, <3>7
  <2>13. r.step \in {"idle", "reread", "tell"}
    BY <2>2
  <2> QED  BY <1>1, <1>2, <2>3, <2>4, <2>8, <2>9, <2>10, <2>11, <2>12, <2>13, WritingKeepsTree
<1> QED  BY <1>3, <1>4

\* Deleting a monitor: its children lose their parent.
LEMMA DeleteKeepsTree ==
    ASSUME TreeSorts, TreeInvariant, NEW c \in Clients, T!Delete(c)
    PROVE  TreeInvariant'
<1>1. PICK q \in TreeRequests : q = request[c]
  BY TreeFacts
<1>2. /\ q.step = "write" /\ q \in Deletions
      /\ UNCHANGED <<group, running, requests, overlapped>>
      /\ monitor \in [Monitors -> T!Row \cup {Absent, Deleted}]
  BY <1>1, TreeFacts, TreeRequestShape, TreeRequestKind DEF T!Delete
<1>3. CASE ~ T!Live(q.id)
  <2>1. T!End(c) /\ T!Reads
    BY <1>1, <1>2, <1>3 DEF T!Delete, T!Reads
  <2> QED  BY <1>1, <1>2, <2>1, EndKeepsTree
<1>4. CASE T!Live(q.id)
  <2>1. q.id \in Monitors
    BY <1>2 DEF Deletions
  <2>2. PICK r : r = [step |-> "tell", kind |-> "delete", left |-> {}, id |-> q.id, row |-> Absent]
    OBVIOUS
  <2>3. /\ monitor' = [m \in Monitors |->
             IF m = q.id THEN Deleted
             ELSE IF T!Live(m) /\ monitor[m].parent = q.id
               THEN [monitor[m] EXCEPT !.parent = None] ELSE monitor[m]]
        /\ request' = [request EXCEPT ![c] = r]
    BY <1>1, <1>4, <2>2 DEF T!Delete
  <2>4. r \in Tellings /\ r \in TreeRequests
    BY <2>1, <2>2 DEF Tellings, Writings, TreeRequests
  <2>5. \A m \in Monitors : T!Live(m) => monitor[m] \in T!Row /\ monitor[m].group \in Groups \cup {None}
                                          /\ monitor[m].parent \in Monitors \cup {None}
    BY <1>2 DEF T!Live, T!Row
  <2>6. ASSUME NEW m \in Monitors, m # q.id, T!Live(m)
        PROVE  /\ monitor'[m] \in T!Row /\ monitor'[m].group = monitor[m].group
               /\ monitor'[m].on = monitor[m].on
               /\ monitor'[m].parent = IF monitor[m].parent = q.id THEN None ELSE monitor[m].parent
               /\ [monitor'[m] EXCEPT !.parent = None] = [monitor[m] EXCEPT !.parent = None]
    <3>1. CASE monitor[m].parent = q.id
      <4>1. monitor'[m] = [monitor[m] EXCEPT !.parent = None]
        BY <2>3, <2>6, <3>1
      <4> QED  BY <2>5, <2>6, <3>1, <4>1 DEF T!Row
    <3>2. CASE monitor[m].parent # q.id
      <4>1. monitor'[m] = monitor[m]
        BY <2>3, <2>6, <3>2
      <4> QED  BY <2>5, <2>6, <3>2, <4>1
    <3> QED  BY <3>1, <3>2
  <2>7. /\ monitor'[q.id] = Deleted /\ ~ T!Live(q.id)'
        /\ \A m \in Monitors \ {q.id} : T!Live(m)' <=> T!Live(m)
        /\ \A m \in Monitors \ {q.id} : ~ T!Live(m) => monitor'[m] = monitor[m]
    <3>1. monitor'[q.id] = Deleted
      BY <2>1, <2>3
    <3>2. \A m \in Monitors \ {q.id} : ~ T!Live(m) => monitor'[m] = monitor[m]
      BY <2>3
    <3> QED  BY <2>6, <3>1, <3>2 DEF T!Live, TreeSorts
  <2>8. monitor' \in [Monitors -> T!Row \cup {Absent, Deleted}]
    <3>1. ASSUME NEW m \in Monitors PROVE monitor'[m] \in T!Row \cup {Absent, Deleted}
      BY <1>2, <2>6, <2>7
    <3> QED  BY <2>3, <3>1
  <2>9. \A m \in Monitors : monitor[m] # Absent => monitor'[m] # Absent
    BY <2>6, <2>7 DEF T!Live, TreeSorts
  <2>10. T!TwoLevels' /\ group' \in Forests
    BY <1>2, TreeFacts DEF TreeInvariant, T!TwoLevels
  <2>11. T!NoOrphans'
    <3>1. ASSUME NEW m \in Monitors, T!Live(m)'
          PROVE  /\ monitor'[m].group # None => group[monitor'[m].group] \notin {Absent, Deleted}
                 /\ monitor'[m].parent # None => monitor'[monitor'[m].parent] \notin {Absent, Deleted}
      <4>1. m # q.id /\ T!Live(m) /\ T!Holds(monitor[m])
        BY <2>7, <3>1 DEF TreeInvariant, T!NoOrphans
      <4>2. monitor'[m].parent # None =>
              monitor[m].parent \in Monitors \ {q.id} /\ T!Live(monitor[m].parent)
        BY <2>5, <2>6, <4>1 DEF T!Holds
      <4>3. monitor'[m].parent # None => monitor'[monitor[m].parent] \notin {Absent, Deleted}
        BY <2>7, <4>2 DEF T!Live
      <4> QED  BY <2>6, <4>1, <4>3 DEF T!Holds, T!Exists
    <3> QED  BY <1>2, <3>1 DEF T!NoOrphans, T!Holds, T!Exists, T!Live
  <2>12. ASSUME ~ overlapped
         PROVE  /\ Acyclic' /\ TellsHold(r)'
                /\ (\A m \in Monitors : T!Live(m) => T!MayHold(group, monitor[m].group))'
                /\ \A m \in Monitors : Awaits(r, m) \/ Follows(m)'
    <3>1. OneAtATime
      BY <2>12, TreeFacts
    <3>2. TellsHold(r)'
      BY <2>2, <2>7 DEF TellsHold
    <3>3. ASSUME NEW m \in Monitors, T!Live(m)'
          PROVE  T!MayHold(group, monitor'[m].group)
      BY <2>6, <2>7, <3>1, <3>3 DEF OneAtATime
    <3>4. (\A m \in Monitors : T!Live(m) => T!MayHold(group, monitor[m].group))'
      BY <1>2, <3>3 DEF T!MayHold, T!IsLeaf
    <3>5. ASSUME NEW m \in Monitors
          PROVE  Awaits(r, m) \/ Follows(m)'
      <4>1. CASE m = q.id
        BY <2>2, <4>1 DEF Awaits
      <4>2. CASE m # q.id
        <5>1. Follows(m)
          BY <1>1, <1>2, <2>12, WriterIsNoReader
        <5>2. CASE ~ (T!Live(m) /\ monitor[m].parent = q.id)
          <6>1. monitor'[m] = monitor[m]
            BY <2>3, <4>2, <5>2
          <6>2. \A p \in Monitors : monitor[p] = Deleted => monitor'[p] = Deleted
            BY <2>7 DEF T!Live
          <6> QED  BY <1>2, <5>1, <6>1, <6>2, FollowsOn
        <5>3. CASE T!Live(m) /\ monitor[m].parent = q.id
          <6>1. T!Live(m)' /\ monitor'[m].on = monitor[m].on /\ monitor'[m].parent = None
            BY <2>6, <2>7, <4>2, <5>3
          <6>2. CASE ~ monitor[m].on
            BY <1>2, <5>1, <5>3, <6>1, <6>2 DEF Follows
          <6>3. CASE monitor[m].on
            <7>1. /\ running[m] # Absent
                  /\ [running[m] EXCEPT !.parent = None] = [monitor[m] EXCEPT !.parent = None]
                  /\ running[m].parent = q.id
              BY <2>1, <5>1, <5>3, <6>3 DEF Follows, TreeSorts
            <7>2. ~ T!Live(running[m].parent)'
              BY <1>2, <2>7, <7>1 DEF T!Live
            <7>3. [monitor'[m] EXCEPT !.parent = None] = [monitor[m] EXCEPT !.parent = None]
              BY <2>6, <4>2, <5>3
            <7>4. /\ running'[m] # Absent
                  /\ [running'[m] EXCEPT !.parent = None] = [monitor'[m] EXCEPT !.parent = None]
              BY <1>2, <7>1, <7>3
            <7> QED  BY <6>1, <6>3, <7>2, <7>4 DEF Follows
          <6> QED  BY <6>2, <6>3
        <5> QED  BY <5>2, <5>3
      <4> QED  BY <4>1, <4>2
    <3>6. Acyclic'
      <4>1. SUFFICES ASSUME NEW M \in SUBSET Monitors, M # {}, \A x \in M : T!Live(x)',
                            \A x \in M : monitor'[x].parent \in M
                     PROVE  FALSE
        BY DEF Acyclic
      <4>2. None \notin M
        BY DEF TreeSorts
      <4>3. \A x \in M : x # q.id /\ T!Live(x)
        BY <2>7, <4>1
      <4>4. \A x \in M : monitor[x].parent \in M
        BY <2>6, <4>1, <4>2, <4>3
      <4> QED  BY <3>1, <4>1, <4>3, <4>4 DEF OneAtATime, Acyclic
    <3> QED  BY <3>2, <3>4, <3>5, <3>6
  <2>13. r.step = "tell" /\ r.row = Absent
    BY <2>2
  <2> QED  BY <1>1, <1>2, <2>3, <2>4, <2>8, <2>9, <2>10, <2>11, <2>12, <2>13, WritingKeepsTree
<1> QED  BY <1>3, <1>4

\* The least set of monitors that m leads to has none that m is apart from.
LEMMA ApartFromAll ==
    ASSUME TreeSorts, NEW m \in Monitors, NEW kids \in Some, \A k \in kids : Apart(m, k)
    PROVE  \E S \in SUBSET Monitors : Closed(S) /\ m \in S /\ S \cap kids = {}
<1>1. PICK S : S = {x \in Monitors : \A U \in SUBSET Monitors : Closed(U) /\ m \in U => x \in U}
  OBVIOUS
<1>2. PICK k \in kids : Apart(m, k)
  BY DEF Some
<1>3. PICK V \in SUBSET Monitors : Closed(V) /\ m \in V
  BY <1>2 DEF Apart
<1>4. S \in SUBSET Monitors /\ m \in S
  BY <1>1
<1>5. S \cap kids = {}
  <2>1. SUFFICES ASSUME NEW x \in S \cap kids PROVE FALSE
    OBVIOUS
  <2>2. PICK U \in SUBSET Monitors : Closed(U) /\ m \in U /\ x \notin U
    BY <2>1 DEF Apart
  <2> QED  BY <1>1, <2>1, <2>2
<1>6. Closed(S)
  <2>1. SUFFICES ASSUME NEW x \in S
                 PROVE  T!Live(x) /\ monitor[x].parent \in S \cup {None}
    BY <1>4 DEF Closed
  <2>2. x \in V /\ T!Live(x) /\ monitor[x].parent \in V \cup {None}
    BY <1>1, <1>3, <2>1 DEF Closed
  <2>3. ASSUME monitor[x].parent # None, NEW U \in SUBSET Monitors, Closed(U), m \in U
        PROVE  monitor[x].parent \in U
    BY <1>1, <2>1, <2>3 DEF Closed
  <2> QED  BY <1>1, <2>2, <2>3
<1> QED  BY <1>4, <1>5, <1>6

\* SetParent: the children of a monitor, or none of them.
LEMMA SetParentKeepsTree ==
    ASSUME TreeSorts, TreeInvariant, NEW c \in Clients, T!SetParent(c)
    PROVE  TreeInvariant'
<1>1. PICK q \in TreeRequests : q = request[c]
  BY TreeFacts
<1>2. /\ q.step = "write" /\ q \in Unlinkings \cup Climbings /\ q.kind \in {"children", "unlink"}
      /\ UNCHANGED <<group, running, requests, overlapped>>
      /\ monitor \in [Monitors -> T!Row \cup {Absent, Deleted}]
      /\ q \in Unlinkings => q.kind = "unlink"
      /\ q \in Climbings => q.kind = "children"
  BY <1>1, TreeFacts, TreeRequestShape, TreeRequestKind DEF T!SetParent
<1>3. PICK up : up = IF q.kind = "children" THEN q.id ELSE None
  OBVIOUS
<1>4. CASE ~ ((up # None => T!Live(up)) /\ \A k \in q.kids : T!Live(k))
  <2>1. T!End(c) /\ T!Reads
    BY <1>1, <1>2, <1>3, <1>4 DEF T!SetParent, T!Reads
  <2> QED  BY <1>1, <1>2, <2>1, EndKeepsTree
<1>5. CASE (up # None => T!Live(up)) /\ \A k \in q.kids : T!Live(k)
  <2>1. q.id \in Monitors /\ q.kids \in Some /\ up \in Monitors \cup {None}
    BY <1>2, <1>3 DEF Unlinkings, Climbings
  <2>2. PICK r : r = [step |-> "reread", kind |-> q.kind, left |-> q.kids]
    OBVIOUS
  <2>3. /\ monitor' = [m \in Monitors |->
             IF m \in q.kids THEN [monitor[m] EXCEPT !.parent = up] ELSE monitor[m]]
        /\ request' = [request EXCEPT ![c] = r]
    BY <1>1, <1>3, <1>5, <2>2 DEF T!SetParent
  <2>4. r \in Rereadings /\ r \in TreeRequests
    BY <1>2, <2>1, <2>2 DEF Rereadings, Writings, TreeRequests
  <2>5. \A m \in Monitors : T!Live(m) => monitor[m] \in T!Row /\ monitor[m].group \in Groups \cup {None}
                                          /\ monitor[m].parent \in Monitors \cup {None}
    BY <1>2 DEF T!Live, T!Row
  <2>6. ASSUME NEW m \in q.kids
        PROVE  /\ m \in Monitors /\ monitor'[m] \in T!Row /\ monitor'[m].group = monitor[m].group
               /\ monitor'[m].parent = up
    <3>1. m \in Monitors /\ T!Live(m)
      BY <1>5, <2>1, <2>6 DEF Some
    <3>2. monitor'[m] = [monitor[m] EXCEPT !.parent = up]
      BY <2>3, <3>1
    <3> QED  BY <2>1, <2>5, <3>1, <3>2 DEF T!Row
  <2>7. \A m \in Monitors \ q.kids : monitor'[m] = monitor[m]
    BY <2>3
  <2>8. \A m \in Monitors : (T!Live(m)' <=> T!Live(m)) /\ (T!Live(m) => monitor'[m].group = monitor[m].group)
    BY <1>5, <2>6, <2>7 DEF T!Live, TreeSorts
  <2>9. monitor' \in [Monitors -> T!Row \cup {Absent, Deleted}]
    <3>1. ASSUME NEW m \in Monitors PROVE monitor'[m] \in T!Row \cup {Absent, Deleted}
      BY <1>2, <2>6, <2>7
    <3> QED  BY <2>3, <3>1
  <2>10. \A m \in Monitors : monitor[m] # Absent => monitor'[m] # Absent
    BY <2>6, <2>7 DEF TreeSorts
  <2>11. T!TwoLevels' /\ group' \in Forests
    BY <1>2, TreeFacts DEF TreeInvariant, T!TwoLevels
  <2>12. T!NoOrphans'
    <3>1. ASSUME NEW m \in Monitors, T!Live(m)'
          PROVE  /\ monitor'[m].group # None => group[monitor'[m].group] \notin {Absent, Deleted}
                 /\ monitor'[m].parent # None => monitor'[monitor'[m].parent] \notin {Absent, Deleted}
      <4>1. T!Live(m) /\ T!Holds(monitor[m]) /\ monitor'[m].group = monitor[m].group
        BY <2>8, <3>1 DEF TreeInvariant, T!NoOrphans
      <4>2. monitor'[m].parent \in {up, monitor[m].parent}
        BY <2>6, <2>7
      <4>3. monitor'[m].parent # None => monitor'[m].parent \in Monitors /\ T!Live(monitor'[m].parent)
        BY <1>5, <2>1, <2>5, <4>1, <4>2 DEF T!Holds
      <4> QED  BY <2>8, <4>1, <4>3 DEF T!Holds, T!Exists, T!Live
    <3> QED  BY <1>2, <3>1 DEF T!NoOrphans, T!Holds, T!Exists, T!Live
  <2>13. ASSUME ~ overlapped
         PROVE  /\ Acyclic' /\ TellsHold(r)'
                /\ (\A m \in Monitors : T!Live(m) => T!MayHold(group, monitor[m].group))'
                /\ \A m \in Monitors : Awaits(r, m) \/ Follows(m)'
    <3>1. OneAtATime /\ ReadsHold(q)
      BY <1>1, <2>13, TreeFacts
    <3>2. TellsHold(r)'
      BY <1>5, <2>2, <2>6, <2>8 DEF TellsHold
    <3>3. ASSUME NEW m \in Monitors, T!Live(m)'
          PROVE  T!MayHold(group, monitor'[m].group)
      BY <2>8, <3>1, <3>3 DEF OneAtATime
    <3>4. (\A m \in Monitors : T!Live(m) => T!MayHold(group, monitor[m].group))'
      BY <1>2, <3>3 DEF T!MayHold, T!IsLeaf
    <3>5. ASSUME NEW m \in Monitors
          PROVE  Awaits(r, m) \/ Follows(m)'
      <4>1. CASE m \in q.kids
        BY <2>2, <4>1 DEF Awaits
      <4>2. CASE m \notin q.kids
        <5>1. Follows(m)
          BY <1>1, <1>2, <2>13, WriterIsNoReader
        <5>2. \A p \in Monitors : monitor[p] = Deleted => monitor'[p] = Deleted
          BY <1>5, <2>7 DEF T!Live
        <5> QED  BY <1>2, <2>7, <4>2, <5>1, <5>2, FollowsOn
      <4> QED  BY <4>1, <4>2
    <3>6. Acyclic'
      <4>1. SUFFICES ASSUME NEW M \in SUBSET Monitors, M # {}, \A x \in M : T!Live(x)',
                            \A x \in M : monitor'[x].parent \in M
                     PROVE  FALSE
        BY DEF Acyclic
      <4>2. CASE M \cap q.kids = {}
        <5>1. \A x \in M : T!Live(x) /\ monitor[x].parent \in M
          BY <2>7, <2>8, <4>1, <4>2
        <5> QED  BY <3>1, <4>1, <5>1 DEF OneAtATime, Acyclic
      <4>3. CASE M \cap q.kids # {}
        <5>1. up \in M
          BY <2>6, <4>1, <4>3
        <5>2. up = q.id /\ q.kind = "children"
          BY <1>3, <5>1 DEF TreeSorts
        <5>3. \A k \in q.kids : Apart(q.id, k)
          BY <1>2, <3>1, <5>2 DEF ReadsHold
        <5>4. PICK S \in SUBSET Monitors : Closed(S) /\ q.id \in S /\ S \cap q.kids = {}
          BY <2>1, <5>3, ApartFromAll
        <5>5. \A x \in M \cap S : monitor'[x].parent = monitor[x].parent
          BY <2>7, <5>4
        <5> QED  BY <3>1, <4>1, <5>1, <5>2, <5>4, <5>5, NoCycleThrough DEF OneAtATime
      <4> QED  BY <4>2, <4>3
    <3> QED  BY <3>2, <3>4, <3>5, <3>6
  <2>14. r.step = "reread"
    BY <2>2
  <2> QED  BY <1>1, <1>2, <2>3, <2>4, <2>9, <2>10, <2>11, <2>12, <2>13, <2>14, WritingKeepsTree
<1> QED  BY <1>4, <1>5

\* Create and Update of a group: two levels, and no monitors above.
LEMMA WriteGroupKeepsTree ==
    ASSUME TreeSorts, TreeInvariant, NEW c \in Clients, T!WriteGroup(c)
    PROVE  TreeInvariant'
<1>1. PICK q \in TreeRequests : q = request[c]
  BY TreeFacts
<1>2. /\ q.step = "write" /\ q \in Nestings /\ q.kind = "group" /\ T!End(c)
      /\ UNCHANGED <<monitor, running, requests, overlapped>>
      /\ group \in Forests /\ monitor \in [Monitors -> T!Row \cup {Absent, Deleted}]
  BY <1>1, TreeFacts, TreeRequestShape, TreeRequestKind DEF T!WriteGroup
<1>3. CASE UNCHANGED group
  <2>1. T!Reads
    BY <1>2, <1>3 DEF T!Reads
  <2> QED  BY <1>1, <1>2, <2>1, EndKeepsTree
<1>4. CASE ~ UNCHANGED group
  <2>1. q.id \in Groups /\ q.up \in Groups \cup {None}
    BY <1>2 DEF Nestings
  <2>2. /\ group' = [group EXCEPT ![q.id] = q.up] /\ T!Fits(q.id, q.up)
        /\ q.up # None => T!Exists(q.up)
    BY <1>1, <1>4 DEF T!WriteGroup
  <2>3. /\ group' \in Forests /\ group'[q.id] = q.up
        /\ \A g \in Groups \ {q.id} : group'[g] = group[g]
    BY <1>2, <2>1, <2>2 DEF Forests
  <2>4. None \notin Groups /\ Absent \notin Groups /\ Deleted \notin Groups
        /\ None \notin {Absent, Deleted}
    BY DEF TreeSorts
  <2>5. q.up \in Groups =>
          q.up # q.id /\ group[q.up] = None /\ \A x \in Groups : group[x] # q.id
    BY <2>2, <2>4 DEF T!Fits
  <2>6. T!TwoLevels'
    <3>1. ASSUME NEW g \in Groups, group'[g] \in Groups
          PROVE  group'[group'[g]] = None
      <4>1. CASE g = q.id
        BY <2>3, <2>5, <3>1, <4>1
      <4>2. CASE g # q.id
        <5>1. group'[g] = group[g] /\ group[group[g]] = None
          BY <2>3, <3>1, <4>2 DEF TreeInvariant, T!TwoLevels
        <5> QED  BY <2>1, <2>3, <2>5, <3>1, <5>1
      <4> QED  BY <4>1, <4>2
    <3> QED  BY <3>1 DEF T!TwoLevels
  <2>7. \A m \in Monitors : T!Live(m)' <=> T!Live(m)
    BY <1>2 DEF T!Live
  <2>8. \A m \in Monitors : T!Live(m) => monitor[m].group \in Groups \cup {None}
    BY <1>2 DEF T!Live, T!Row
  <2>9. T!NoOrphans'
    <3>1. ASSUME NEW m \in Monitors, T!Live(m)
          PROVE  /\ monitor[m].group # None => group'[monitor[m].group] \notin {Absent, Deleted}
                 /\ monitor[m].parent # None => monitor[monitor[m].parent] \notin {Absent, Deleted}
      <4>1. T!Holds(monitor[m])
        BY <3>1 DEF TreeInvariant, T!NoOrphans
      <4>2. q.up \notin {Absent, Deleted}
        BY <2>1, <2>4
      <4> QED  BY <2>3, <2>8, <3>1, <4>1, <4>2 DEF T!Holds, T!Exists, T!Live
    <3> QED  BY <1>2, <2>7, <3>1 DEF T!NoOrphans, T!Holds, T!Exists, T!Live
  <2>10. T!Idle \in TreeRequests /\ T!Idle.step = "idle" /\ request' = [request EXCEPT ![c] = T!Idle]
    BY <1>2 DEF T!End, T!Idle, TreeRequests, Resting
  <2>11. ASSUME ~ overlapped
         PROVE  /\ Acyclic' /\ TellsHold(T!Idle)'
                /\ (\A m \in Monitors : T!Live(m) => T!MayHold(group, monitor[m].group))'
                /\ \A m \in Monitors : Awaits(T!Idle, m) \/ Follows(m)'
    <3>1. OneAtATime /\ ReadsHold(q)
      BY <1>1, <2>11, TreeFacts
    <3>2. Acyclic'
      BY <1>2, <2>7, <3>1 DEF OneAtATime, Acyclic
    <3>3. TellsHold(T!Idle)'
      BY DEF TellsHold, T!Idle
    <3>4. \A m \in Monitors : Follows(m)'
      BY <1>1, <1>2, <2>11, FollowsStill, WriterIsNoReader
    <3>5. ASSUME NEW m \in Monitors, T!Live(m), monitor[m].group # None
          PROVE  /\ group'[monitor[m].group] \notin {Absent, Deleted}
                 /\ \A x \in Groups : group'[x] # monitor[m].group
      <4>1. T!IsLeaf(group, monitor[m].group) /\ monitor[m].group \in Groups
        BY <2>8, <3>1, <3>5 DEF OneAtATime, T!MayHold
      <4>2. q.up # monitor[m].group
        BY <1>2, <2>1, <3>1, <3>5, <4>1 DEF ReadsHold, T!IsLeaf
      <4>3. q.up \notin {Absent, Deleted}
        BY <2>1, <2>4
      <4> QED  BY <2>3, <4>1, <4>2, <4>3 DEF T!IsLeaf
    <3>6. (\A m \in Monitors : T!Live(m) => T!MayHold(group, monitor[m].group))'
      BY <1>2, <2>7, <3>5 DEF T!MayHold, T!IsLeaf
    <3> QED  BY <3>2, <3>3, <3>4, <3>6
  <2> QED  BY <1>1, <1>2, <2>3, <2>6, <2>9, <2>10, <2>11, WritingKeepsTree
<1> QED  BY <1>3, <1>4

\* Deleting a group that has neither groups nor monitors.
LEMMA DropGroupKeepsTree ==
    ASSUME TreeSorts, TreeInvariant, NEW c \in Clients, T!DropGroup(c)
    PROVE  TreeInvariant'
<1>1. PICK q \in TreeRequests : q = request[c]
  BY TreeFacts
<1>2. /\ q.step = "write" /\ q \in Drops /\ q.kind = "drop" /\ T!End(c)
      /\ UNCHANGED <<monitor, running, requests, overlapped>>
      /\ group \in Forests /\ monitor \in [Monitors -> T!Row \cup {Absent, Deleted}]
  BY <1>1, TreeFacts, TreeRequestShape, TreeRequestKind DEF T!DropGroup
<1>3. CASE UNCHANGED group
  <2>1. T!Reads
    BY <1>2, <1>3 DEF T!Reads
  <2> QED  BY <1>1, <1>2, <2>1, EndKeepsTree
<1>4. CASE ~ UNCHANGED group
  <2>1. q.id \in Groups
    BY <1>2 DEF Drops
  <2>2. group' = [group EXCEPT ![q.id] = Deleted] /\ T!Empty(q.id)
    BY <1>1, <1>4 DEF T!DropGroup
  <2>3. /\ group' \in Forests /\ group'[q.id] = Deleted
        /\ \A g \in Groups \ {q.id} : group'[g] = group[g]
    BY <1>2, <2>1, <2>2 DEF Forests
  <2>4. Deleted \notin Groups
    BY DEF TreeSorts
  <2>5. /\ \A x \in Groups : group[x] # q.id
        /\ \A m \in Monitors : T!Live(m) => monitor[m].group # q.id
    BY <2>2 DEF T!Empty
  <2>6. T!TwoLevels'
    BY <2>3, <2>4, <2>5 DEF TreeInvariant, T!TwoLevels
  <2>7. \A m \in Monitors : T!Live(m)' <=> T!Live(m)
    BY <1>2 DEF T!Live
  <2>8. \A m \in Monitors : T!Live(m) => monitor[m].group \in (Groups \ {q.id}) \cup {None}
    BY <1>2, <2>5 DEF T!Live, T!Row
  <2>9. T!NoOrphans'
    <3>1. ASSUME NEW m \in Monitors, T!Live(m)
          PROVE  /\ monitor[m].group # None => group'[monitor[m].group] \notin {Absent, Deleted}
                 /\ monitor[m].parent # None => monitor[monitor[m].parent] \notin {Absent, Deleted}
      <4>1. T!Holds(monitor[m])
        BY <3>1 DEF TreeInvariant, T!NoOrphans
      <4> QED  BY <2>3, <2>8, <3>1, <4>1 DEF T!Holds, T!Exists, T!Live
    <3> QED  BY <1>2, <2>7, <3>1 DEF T!NoOrphans, T!Holds, T!Exists, T!Live
  <2>10. T!Idle \in TreeRequests /\ T!Idle.step = "idle" /\ request' = [request EXCEPT ![c] = T!Idle]
    BY <1>2 DEF T!End, T!Idle, TreeRequests, Resting
  <2>11. ASSUME ~ overlapped
         PROVE  /\ Acyclic' /\ TellsHold(T!Idle)'
                /\ (\A m \in Monitors : T!Live(m) => T!MayHold(group, monitor[m].group))'
                /\ \A m \in Monitors : Awaits(T!Idle, m) \/ Follows(m)'
    <3>1. OneAtATime
      BY <2>11, TreeFacts
    <3>2. Acyclic'
      BY <1>2, <2>7, <3>1 DEF OneAtATime, Acyclic
    <3>3. TellsHold(T!Idle)'
      BY DEF TellsHold, T!Idle
    <3>4. \A m \in Monitors : Follows(m)'
      BY <1>1, <1>2, <2>11, FollowsStill, WriterIsNoReader
    <3>5. ASSUME NEW m \in Monitors, T!Live(m), monitor[m].group # None
          PROVE  /\ group'[monitor[m].group] \notin {Absent, Deleted}
                 /\ \A x \in Groups : group'[x] # monitor[m].group
      <4>1. T!IsLeaf(group, monitor[m].group) /\ monitor[m].group \in Groups \ {q.id}
        BY <2>8, <3>1, <3>5 DEF OneAtATime, T!MayHold
      <4> QED  BY <2>3, <2>4, <4>1 DEF T!IsLeaf
    <3>6. (\A m \in Monitors : T!Live(m) => T!MayHold(group, monitor[m].group))'
      BY <1>2, <2>7, <3>5 DEF T!MayHold, T!IsLeaf
    <3> QED  BY <3>2, <3>3, <3>4, <3>6
  <2> QED  BY <1>1, <1>2, <2>3, <2>6, <2>9, <2>10, <2>11, WritingKeepsTree
<1> QED  BY <1>3, <1>4

\* The scheduler is told: what it holds was there once, and what is alone is
\* followed once it was told.
LEMMA TellingKeepsTree ==
    ASSUME TreeSorts, TreeInvariant, NEW c \in Clients, NEW r \in TreeRequests,
           request[c].step \in {"reread", "tell"}, r.step \in {"idle", "reread", "tell"},
           request' = [request EXCEPT ![c] = r], UNCHANGED <<group, monitor, overlapped>>,
           running' \in [Monitors -> T!Row \cup {Absent}],
           \A m \in Monitors : running'[m] # Absent /\ running'[m].parent # None =>
               monitor[running'[m].parent] # Absent,
           r.step = "tell" /\ r.row # Absent /\ r.row.parent # None =>
               monitor[r.row.parent] # Absent,
           ~ overlapped => TellsHold(r) /\ \A m \in Monitors : Awaits(r, m) \/ Follows(m)'
    PROVE  TreeInvariant'
<1>1. /\ request' \in [Clients -> TreeRequests]
      /\ request'[c] = r /\ \A d \in Clients \ {c} : request'[d] = request[d]
  BY TreeFacts
<1>2. TreeShapes'
  BY <1>1 DEF TreeInvariant, TreeShapes
<1>3. NoneUnborn'
  BY <1>1 DEF TreeInvariant, NoneUnborn
<1>4. T!TwoLevels' /\ T!NoOrphans'
  BY TablesStill DEF TreeInvariant
<1>5. ASSUME ~ overlapped'
      PROVE  OneAtATime'
  <2>1. ~ overlapped /\ OneAtATime /\ \A d \in Clients \ {c} : request[d].step = "idle"
    BY <1>5, TreeFacts
  <2>2. Alone'
    BY <1>1, <2>1 DEF Alone
  <2>3. ASSUME NEW d \in Clients, NEW q \in {request'[d]}
        PROVE  ReadsHold(q)' /\ TellsHold(q)'
    <3>1. q.step \in {"idle", "reread", "tell"}
      BY <1>1, <2>1, <2>3
    <3>2. ReadsHold(q)'
      BY <3>1 DEF ReadsHold
    <3>3. TellsHold(q)
      <4>1. CASE d = c
        BY <1>1, <2>1, <2>3, <4>1
      <4>2. CASE d # c
        BY <1>1, <2>1, <2>3, <4>2 DEF OneAtATime
      <4> QED  BY <4>1, <4>2
    <3> QED  BY <3>2, <3>3, TellsStillHold
  <2>4. \A m \in Monitors : Pending(m)' \/ Follows(m)'
    <3>1. \A m \in Monitors : Awaits(r, m) => Pending(m)'
      BY <1>1 DEF Pending
    <3> QED  BY <2>1, <3>1
  <2>5. Acyclic' /\ (\A m \in Monitors : T!Live(m) => T!MayHold(group, monitor[m].group))'
    BY <2>1, TablesStill DEF OneAtATime
  <2> QED  BY <2>2, <2>3, <2>4, <2>5 DEF OneAtATime
<1> QED  BY <1>2, <1>3, <1>4, <1>5 DEF TreeInvariant

\* The one that is alone is the only one that waits to be told of anything.
LEMMA TellerIsAlone ==
    ASSUME TreeInvariant, NEW c \in Clients, request[c].step \in {"reread", "tell"}, ~ overlapped
    PROVE  TellsHold(request[c]) /\ \A m \in Monitors : Awaits(request[c], m) \/ Follows(m)
<1>1. OneAtATime /\ TellsHold(request[c])
      /\ \A d \in Clients \ {c} : request[d].step \notin {"reread", "tell"}
  BY TreeFacts
<1> QED  BY <1>1 DEF OneAtATime, Pending, Awaits

\* Each monitor is read again.
LEMMA RereadKeepsTree ==
    ASSUME TreeSorts, TreeInvariant, NEW c \in Clients, T!Reread(c)
    PROVE  TreeInvariant'
<1>1. PICK q \in TreeRequests : q = request[c]
  BY TreeFacts
<1>2. /\ q.step = "reread" /\ q \in Rereadings /\ T!Reads
      /\ UNCHANGED <<group, monitor, running, overlapped>>
      /\ monitor \in [Monitors -> T!Row \cup {Absent, Deleted}]
  BY <1>1, TreeFacts, TreeRequestShape DEF T!Reread, T!Reads
<1>3. PICK k : k = CHOOSE x \in q.left : TRUE
  OBVIOUS
<1>4. q.left \in Some /\ k \in q.left /\ k \in Monitors
      /\ q.kind \in Writings
  BY <1>2, <1>3 DEF Rereadings, Some
<1>5. /\ running' \in [Monitors -> T!Row \cup {Absent}]
      /\ \A m \in Monitors : running'[m] # Absent /\ running'[m].parent # None =>
           monitor[running'[m].parent] # Absent
      /\ \A m \in Monitors : Follows(m) => Follows(m)'
  BY <1>2, FollowsStill DEF TreeInvariant, TreeShapes, NoneUnborn
<1>6. ~ overlapped =>
        TellsHold(q) /\ T!Live(k) /\ \A m \in Monitors : Awaits(q, m) \/ Follows(m)
  BY <1>1, <1>2, <1>4, TellerIsAlone DEF TellsHold
<1>7. CASE T!Live(k)
  <2>1. PICK r : r = [step |-> "tell", kind |-> q.kind, left |-> q.left \ {k}, id |-> k,
                      row |-> monitor[k]]
    OBVIOUS
  <2>2. request' = [request EXCEPT ![c] = r]
    BY <1>1, <1>3, <1>7, <2>1 DEF T!Reread
  <2>3. monitor[k] \in T!Row /\ q.left \ {k} \in SUBSET Monitors
    BY <1>2, <1>4, <1>7 DEF T!Live, Some
  <2>4. r \in Tellings /\ r \in TreeRequests
    BY <1>4, <2>1, <2>3 DEF Tellings, TreeRequests
  <2>5. r.step = "tell" /\ r.left = q.left \ {k} /\ r.id = k /\ r.row = monitor[k]
    BY <2>1
  <2>6. r.row.parent # None => monitor[r.row.parent] # Absent
    BY <1>4, <1>7, <2>5 DEF TreeInvariant, T!NoOrphans, T!Holds, T!Live
  <2>7. \A m \in Monitors : Awaits(q, m) => Awaits(r, m)
    BY <1>2, <2>5 DEF Awaits
  <2>8. ~ overlapped => TellsHold(r)
    BY <1>2, <1>6, <1>7, <2>5 DEF TellsHold
  <2> QED  BY <1>1, <1>2, <1>5, <1>6, <2>2, <2>4, <2>5, <2>6, <2>7, <2>8, TellingKeepsTree
<1>8. CASE ~ T!Live(k)
  <2>1. T!Idle \in TreeRequests /\ T!Idle.step = "idle" /\ request' = [request EXCEPT ![c] = T!Idle]
    BY <1>1, <1>3, <1>8 DEF T!Reread, T!End, T!Idle, TreeRequests, Resting
  <2>2. overlapped
    BY <1>6, <1>8, TreeFacts
  <2> QED  BY <1>1, <1>2, <1>5, <2>1, <2>2, TellingKeepsTree
<1> QED  BY <1>7, <1>8

\* Upsert and Remove.
LEMMA TellKeepsTree ==
    ASSUME TreeSorts, TreeInvariant, NEW c \in Clients, T!Tell(c)
    PROVE  TreeInvariant'
<1>1. PICK q \in TreeRequests : q = request[c]
  BY TreeFacts
<1>2. /\ q.step = "tell" /\ q \in Tellings /\ UNCHANGED <<group, monitor, overlapped>>
      /\ monitor \in [Monitors -> T!Row \cup {Absent, Deleted}]
      /\ running \in [Monitors -> T!Row \cup {Absent}]
      /\ running' = [running EXCEPT ![q.id] = T!Told(q.row)]
  BY <1>1, TreeFacts, TreeRequestShape DEF T!Tell, TreeInvariant, TreeShapes
<1>3. /\ q.id \in Monitors /\ q.row \in T!Row \cup {Absent} /\ q.left \in SUBSET Monitors
      /\ q.kind \in Writings
  BY <1>2 DEF Tellings
<1>4. T!Told(q.row) \in {q.row, Absent}
  BY DEF T!Told
<1>5. /\ running' \in [Monitors -> T!Row \cup {Absent}]
      /\ running'[q.id] = T!Told(q.row)
      /\ \A m \in Monitors \ {q.id} : running'[m] = running[m]
  BY <1>2, <1>3, <1>4
<1>6. \A m \in Monitors : running'[m] # Absent /\ running'[m].parent # None =>
        monitor[running'[m].parent] # Absent
  <2>1. q.row # Absent /\ q.row.parent # None => monitor[q.row.parent] # Absent
    BY <1>1, <1>2 DEF TreeInvariant, NoneUnborn
  <2>2. \A m \in Monitors : running[m] # Absent /\ running[m].parent # None =>
          monitor[running[m].parent] # Absent
    BY DEF TreeInvariant, NoneUnborn
  <2> QED  BY <1>4, <1>5, <2>1, <2>2
<1>7. ~ overlapped => TellsHold(q) /\ \A m \in Monitors : Awaits(q, m) \/ Follows(m)
  BY <1>1, <1>2, TellerIsAlone
<1>8. ASSUME NEW m \in Monitors, m # q.id, Follows(m)
      PROVE  Follows(m)'
  <2>1. running'[m] = running[m] /\ monitor'[m] = monitor[m] /\ \A p : T!Live(p)' <=> T!Live(p)
    BY <1>2, <1>5, <1>8 DEF T!Live
  <2> QED  BY <1>8, <2>1 DEF Follows
<1>9. ~ overlapped => Follows(q.id)'
  <2>1. SUFFICES ASSUME ~ overlapped PROVE Follows(q.id)'
    OBVIOUS
  <2>2. /\ monitor'[q.id] = monitor[q.id] /\ (T!Live(q.id)' <=> T!Live(q.id))
        /\ running'[q.id] = T!Told(q.row)
    BY <1>2, <1>5 DEF T!Live
  <2>3. q.row = IF T!Live(q.id) THEN monitor[q.id] ELSE Absent
    BY <1>2, <1>7, <2>1 DEF TellsHold
  <2>4. T!Live(q.id) => monitor[q.id] # Absent
    BY DEF T!Live
  <2> QED  BY <2>2, <2>3, <2>4 DEF Follows, T!Told
<1>10. CASE q.left = {}
  <2>1. T!Idle \in TreeRequests /\ T!Idle.step = "idle" /\ request' = [request EXCEPT ![c] = T!Idle]
    BY <1>1, <1>10 DEF T!Tell, T!End, T!Idle, TreeRequests, Resting
  <2>2. \A m \in Monitors : Awaits(q, m) => m = q.id
    BY <1>2, <1>10 DEF Awaits
  <2>3. TellsHold(T!Idle)
    BY <2>1 DEF TellsHold
  <2>4. ~ overlapped => \A m \in Monitors : Follows(m)'
    BY <1>7, <1>8, <1>9, <2>2
  <2> QED  BY <1>1, <1>2, <1>5, <1>6, <2>1, <2>3, <2>4, TellingKeepsTree
<1>11. CASE q.left # {}
  <2>1. PICK r : r = [step |-> "reread", kind |-> q.kind, left |-> q.left]
    OBVIOUS
  <2>2. request' = [request EXCEPT ![c] = r]
    BY <1>1, <1>11, <2>1 DEF T!Tell
  <2>3. r.step = "reread" /\ r.left = q.left
    BY <2>1
  <2>4. r \in Rereadings /\ r \in TreeRequests
    BY <1>3, <1>11, <2>1 DEF Rereadings, Some, TreeRequests
  <2>5. ~ overlapped => TellsHold(r)
    BY <1>2, <1>7, <2>3 DEF TellsHold
  <2>6. \A m \in Monitors : Awaits(q, m) => m = q.id \/ Awaits(r, m)
    BY <1>2, <2>3 DEF Awaits
  <2>7. ~ overlapped => \A m \in Monitors : Awaits(r, m) \/ Follows(m)'
    BY <1>7, <1>8, <1>9, <2>6
  <2> QED  BY <1>1, <1>2, <1>5, <1>6, <2>2, <2>3, <2>4, <2>5, <2>7, TellingKeepsTree
<1> QED  BY <1>10, <1>11

\* The groups of the top and the monitors in none of them, as the scheduler
\* loads them.
LEMMA TreeInit ==
    ASSUME TreeSorts, T!Init
    PROVE  TreeInvariant
<1>1. /\ group \in Forests /\ \A g \in Groups : group[g] \in {None, Absent}
      /\ running = monitor /\ overlapped = FALSE
      /\ \A c \in Clients : request[c] = T!Idle
  BY DEF T!Init, Forests
<1>2. T!Idle \in TreeRequests /\ T!Idle.step = "idle"
  BY DEF T!Idle, TreeRequests, Resting
<1>3. PICK rec : rec = [group |-> None, parent |-> None, on |-> TRUE]
  OBVIOUS
<1>4. rec \in T!Row /\ rec.group = None /\ rec.parent = None /\ rec.on
  BY <1>3 DEF T!Row
<1>5. rec # Absent /\ rec # Deleted
  BY <1>4 DEF TreeSorts
<1>6. \A m \in Monitors : monitor[m] \in {rec, Absent} /\ (T!Live(m) => monitor[m] = rec)
  BY <1>3 DEF T!Init, T!Live
<1>7. TreeShapes
  <2>1. monitor \in [Monitors -> T!Row \cup {Absent}]
    BY <1>4, <1>6 DEF T!Init
  <2>2. request \in [Clients -> TreeRequests]
    BY <1>2 DEF T!Init
  <2> QED  BY <1>1, <2>1, <2>2 DEF TreeShapes
<1>8. T!TwoLevels
  BY <1>1 DEF T!TwoLevels, TreeSorts
<1>9. T!NoOrphans
  BY <1>4, <1>6 DEF T!NoOrphans, T!Holds
<1>10. NoneUnborn
  BY <1>1, <1>2, <1>4, <1>6 DEF NoneUnborn
<1>11. OneAtATime
  <2>1. Alone /\ \A c \in Clients : \A r \in {request[c]} : ReadsHold(r) /\ TellsHold(r)
    BY <1>1, <1>2 DEF Alone, ReadsHold, TellsHold
  <2>2. None \notin Monitors
    BY DEF TreeSorts
  <2>3. Acyclic
    BY <1>4, <1>6, <2>2 DEF Acyclic
  <2>4. \A m \in Monitors : T!Live(m) => T!MayHold(group, monitor[m].group)
    BY <1>4, <1>6 DEF T!MayHold
  <2>5. ASSUME NEW m \in Monitors PROVE Follows(m)
    BY <1>1, <1>4, <1>5, <1>6 DEF Follows, T!Live
  <2> QED  BY <2>1, <2>3, <2>4, <2>5 DEF OneAtATime
<1> QED  BY <1>7, <1>8, <1>9, <1>10, <1>11 DEF TreeInvariant

\* What the requests that edit the tree know of it, and what is told of it.
THEOREM TreeKept == TreeSorts => (T!Spec => []TreeInvariant)
<1> SUFFICES ASSUME TreeSorts
             PROVE  T!Spec => []TreeInvariant
  OBVIOUS
<1>1. T!Init => TreeInvariant
  BY TreeInit
<1>2. TreeInvariant /\ [T!Next]_(T!vars) => TreeInvariant'
  <2> SUFFICES ASSUME TreeInvariant, [T!Next]_(T!vars)
               PROVE  TreeInvariant'
    OBVIOUS
  <2>1. CASE UNCHANGED T!vars
    <3>1. UNCHANGED <<group, monitor, running, request, overlapped>>
      BY <2>1 DEF T!vars
    <3>2. TreeShapes' /\ NoneUnborn' /\ T!TwoLevels' /\ T!NoOrphans'
      BY <3>1, TablesStill DEF TreeInvariant, TreeShapes, NoneUnborn
    <3>3. ASSUME ~ overlapped' PROVE OneAtATime'
      <4>1. OneAtATime
        BY <3>1, <3>3 DEF TreeInvariant
      <4>2. ASSUME NEW c \in Clients, NEW r \in {request'[c]}
            PROVE  ReadsHold(r)' /\ TellsHold(r)'
        BY <3>1, <4>1, <4>2, ReadsStillHold, TellsStillHold DEF OneAtATime
      <4>3. \A m \in Monitors : Pending(m)' \/ Follows(m)'
        BY <3>1, <4>1, FollowsStill DEF OneAtATime, Pending
      <4>4. Acyclic' /\ Alone'
              /\ (\A m \in Monitors : T!Live(m) => T!MayHold(group, monitor[m].group))'
        BY <3>1, <4>1, TablesStill DEF OneAtATime, Alone
      <4> QED  BY <4>2, <4>3, <4>4 DEF OneAtATime
    <3> QED  BY <3>2, <3>3 DEF TreeInvariant
  <2>2. ASSUME NEW c \in Clients,
               \/ T!Receive(c) \/ T!Guard(c) \/ T!Place(c) \/ T!Room(c) \/ T!Parent(c)
               \/ T!Kids(c) \/ T!Climb(c) \/ T!WriteMonitor(c) \/ T!Delete(c) \/ T!SetParent(c)
               \/ T!WriteGroup(c) \/ T!DropGroup(c) \/ T!Reread(c) \/ T!Tell(c)
        PROVE  TreeInvariant'
    BY <2>2, ReceiveKeepsTree, GuardKeepsTree, PlaceKeepsTree, RoomKeepsTree, ParentKeepsTree,
       KidsKeepTree, ClimbKeepsTree, WriteMonitorKeepsTree, DeleteKeepsTree, SetParentKeepsTree,
       WriteGroupKeepsTree, DropGroupKeepsTree, RereadKeepsTree, TellKeepsTree
  <2> QED  BY <2>1, <2>2 DEF T!Next
<1> QED  BY <1>1, <1>2, PTL DEF T!Spec

\* The tree is sound for any monitors, groups and requests: groups have two
\* levels and no row points at one that is gone however requests overlap
\* (the conditions of the statements in sqlstore); and one request at a time
\* there is no cycle (ParentCycle), monitors live in leaves, and the
\* scheduler runs what is stored.
THEOREM TreeIsSound == TreeSorts => (T!Spec => []T!TopologySound)
<1> SUFFICES ASSUME TreeSorts
             PROVE  T!Spec => []T!TopologySound
  OBVIOUS
<1>1. TreeInvariant => T!TopologySound
  <2> SUFFICES ASSUME TreeInvariant
               PROVE  T!TopologySound
    OBVIOUS
  <2>1. T!TwoLevels /\ T!NoOrphans
    BY DEF TreeInvariant
  <2>2. T!NoCycle
    BY DEF TreeInvariant, OneAtATime, Acyclic, T!NoCycle
  <2>3. T!MonitorsOnLeaves
    BY DEF TreeInvariant, OneAtATime, T!MonitorsOnLeaves
  <2>4. T!SchedulerFollowsStore
    <3>1. ASSUME ~ overlapped, \A c \in Clients : request[c].step = "idle", NEW m \in Monitors
          PROVE  Follows(m)
      BY <3>1 DEF TreeInvariant, OneAtATime, Pending, Awaits
    <3> QED  BY <3>1 DEF T!SchedulerFollowsStore, Follows
  <2> QED  BY <2>1, <2>2, <2>3, <2>4 DEF T!TopologySound
<1>2. QED  BY <1>1, TreeKept, PTL

-----------------------------------------------------------------------------
(***************************************************************************)
(* The probe agent: its reloads, its workers, and their outbox.            *)
(***************************************************************************)
P == INSTANCE Probe

\* A configuration gives some of the names a job; a signal is tried once at
\* least (outbox.go Backoff).
ProbeSorts ==
    /\ \A f \in Files : DOMAIN f \subseteq Names
    /\ None \notin Reloaders /\ None \notin P!Jobs
    /\ Attempts \in Nat \ {0} /\ MaxMeasures \in Nat /\ None \notin P!Signals

\* What is known of a worker and of the signals of its name (runner.go).
Agents == [job: P!Jobs \cup {None}, cancelled: BOOLEAN,
           loop: {"measure", "record", "offer", "replace", "wait", "done"},
           slot: P!Signals \cup {None}, out: {"take", "send", "wait", "done"},
           sig: P!Signals \cup {None}, attempt: 0..Attempts]
Numbers == 0..MaxMeasures

\* A signal leaves the slot for the sender and the sender for the central in
\* the order of the measurements: tried, in the sender, in the slot, and
\* measured and not offered yet.
InOrder(n) ==
    LET w == worker[n]  sends == w.out \in {"send", "wait"} IN
    /\ received[n] <= tried[n] /\ tried[n] <= measured[n]
    /\ sends => w.sig \in P!Signals /\ tried[n] <= w.sig /\ w.sig <= measured[n]
    /\ w.slot # None => tried[n] < w.slot /\ w.slot <= measured[n]
    /\ w.slot # None /\ sends => w.sig < w.slot
    /\ w.loop \in {"record", "offer", "replace"} =>
         /\ tried[n] < measured[n]
         /\ w.slot # None => w.slot < measured[n]
         /\ sends => w.sig < measured[n]
    /\ w.out = "wait" => w.attempt < Attempts

\* Where the last result of a worker that goes on is, once it was offered: in
\* the slot, or else in the hands of the sender, or tried.
Carried(n) ==
    LET w == worker[n] IN
    P!Running(n) /\ w.loop \in {"wait", "measure"} /\ ~ w.cancelled =>
      IF w.slot # None THEN w.slot = measured[n]
      ELSE tried[n] = measured[n] \/ (w.out \in {"send", "wait"} /\ w.sig = measured[n])

\* The jobs of the configuration, each with a worker that goes on.
RunsAll(jobs) ==
    /\ \A n \in Names : P!Running(n) <=> n \in DOMAIN jobs
    /\ \A n \in DOMAIN jobs : worker[n].job = jobs[n]

\* Who holds the mutex of reload is the one that is past it, and no worker is
\* told to stop but by it.
Reloading ==
    /\ \A r \in Reloaders : reload[r].stage \in {"load", "keep", "stop"} <=> mu = r
    /\ \A r \in Reloaders : reload[r].stage \in {"keep", "stop"} => reload[r].jobs = cfg
    /\ \A r \in Reloaders : reload[r].stage = "lock" => reload[r].jobs = P!NoJobs
    /\ (\A r \in Reloaders : reload[r].stage \notin {"keep", "stop"}) => RunsAll(cfg)
    /\ \A n \in Names : ~ P!Running(n) => worker[n] = P!NoWorker
    /\ \A n \in Names : worker[n].cancelled =>
         \E r \in Reloaders : reload[r].stage = "stop" /\ P!Outdated(n, reload[r].jobs)

ProbeInvariant ==
    /\ P!TypeOK /\ ~ disorder /\ Reloading
    /\ \A n \in Names : InOrder(n) /\ Carried(n)

-----------------------------------------------------------------------------
\* Where nothing of a name moves.
LEMMA NameAtRest ==
    ASSUME NEW n \in Names, InOrder(n), Carried(n), worker'[n] = worker[n],
           measured'[n] = measured[n], tried'[n] = tried[n], received'[n] = received[n]
    PROVE  InOrder(n)' /\ Carried(n)'
BY DEF InOrder, Carried, P!Running

\* A goroutine of the worker of n moves: what it owes the rest of the agent.
LEMMA WorkerSteps ==
    ASSUME ProbeSorts, ProbeInvariant, NEW n \in Names, NEW v \in Agents,
           v.job = worker[n].job, v.cancelled = worker[n].cancelled, v.job # None,
           worker' = [worker EXCEPT ![n] = v],
           measured' \in [Names -> Numbers], tried' \in [Names -> Numbers],
           received' \in [Names -> Numbers], ~ disorder', disorder' \in BOOLEAN,
           \A m \in Names \ {n} : /\ measured'[m] = measured[m] /\ tried'[m] = tried[m]
                                  /\ received'[m] = received[m],
           status' \subseteq Names, UNCHANGED <<file, lastSeen, cfg, mu, reload>>,
           InOrder(n)', Carried(n)'
    PROVE  ProbeInvariant'
<1>0. worker \in [Names -> Agents]
  BY DEF ProbeInvariant, P!TypeOK, Agents
<1>1. worker' \in [Names -> Agents] /\ worker'[n] = v
      /\ \A m \in Names \ {n} : worker'[m] = worker[m]
  BY <1>0
<1>2. P!TypeOK'
  BY <1>1 DEF ProbeInvariant, P!TypeOK, Agents, Numbers
<1>3. Reloading'
  <2>1. \A m \in Names : /\ worker'[m].job = worker[m].job
                         /\ worker'[m].cancelled = worker[m].cancelled
                         /\ worker[m].job = None => worker'[m] = worker[m]
    BY <1>1
  <2>2. \A m \in Names : P!Running(m)' <=> P!Running(m)
    BY <2>1 DEF P!Running
  <2>3. RunsAll(cfg) => RunsAll(cfg)'
    <3>1. ASSUME RunsAll(cfg)  PROVE  RunsAll(cfg)'
      BY <3>1, <2>1, <2>2 DEF RunsAll, ProbeInvariant, Reloading
    <3> QED  BY <3>1
  <2>4. \A m \in Names, r \in Reloaders :
           P!Outdated(m, reload[r].jobs) => P!Outdated(m, reload[r].jobs)'
    BY <2>1, <2>2 DEF P!Outdated
  <2>5. /\ \A r \in Reloaders : reload[r].stage \in {"load", "keep", "stop"} <=> mu = r
        /\ \A r \in Reloaders : reload[r].stage \in {"keep", "stop"} => reload[r].jobs = cfg
        /\ \A r \in Reloaders : reload[r].stage = "lock" => reload[r].jobs = P!NoJobs
        /\ (\A r \in Reloaders : reload[r].stage \notin {"keep", "stop"}) => RunsAll(cfg)
        /\ \A m \in Names : ~ P!Running(m) => worker[m] = P!NoWorker
        /\ \A m \in Names : worker[m].cancelled =>
             \E r \in Reloaders : reload[r].stage = "stop" /\ P!Outdated(m, reload[r].jobs)
    BY DEF ProbeInvariant, Reloading
  <2>6. \A m \in Names : ~ P!Running(m)' => worker'[m] = P!NoWorker
    BY <2>1, <2>2, <2>5 DEF P!Running
  <2>7. \A m \in Names : worker'[m].cancelled =>
           \E r \in Reloaders : reload'[r].stage = "stop" /\ P!Outdated(m, reload[r].jobs)'
    BY <2>1, <2>4, <2>5
  <2> QED  BY <2>3, <2>5, <2>6, <2>7 DEF Reloading
<1>4. \A m \in Names : InOrder(m)' /\ Carried(m)'
  <2>1. ASSUME NEW m \in Names \ {n}  PROVE  InOrder(m)' /\ Carried(m)'
    BY <1>1, NameAtRest DEF ProbeInvariant
  <2> QED  BY <2>1
<1> QED  BY <1>2, <1>3, <1>4 DEF ProbeInvariant

\* The numbers of a name, and its worker, as a step finds them.
LEMMA WorkerFound ==
    ASSUME ProbeInvariant, NEW n \in Names
    PROVE  /\ worker \in [Names -> Agents] /\ worker[n] \in Agents
           /\ measured \in [Names -> Numbers] /\ tried \in [Names -> Numbers]
           /\ received \in [Names -> Numbers] /\ disorder = FALSE
           /\ measured[n] \in Numbers /\ tried[n] \in Numbers /\ received[n] \in Numbers
           /\ InOrder(n) /\ Carried(n) /\ status \subseteq Names
           /\ worker[n].loop # "done" \/ worker[n].out # "done" => worker[n].job # None
<1>1. worker[n].job = None => worker[n] = P!NoWorker
  BY DEF ProbeInvariant, Reloading, P!Running
<1>2. P!NoWorker.loop = "done" /\ P!NoWorker.out = "done"
  BY DEF P!NoWorker
<1> QED  BY <1>1, <1>2 DEF ProbeInvariant, P!TypeOK, Agents, Numbers

\* The goroutine that measures.
LEMMA MeasureKeeps ==
    ASSUME ProbeSorts, ProbeInvariant, NEW n \in Names, P!Measure(n)
    PROVE  ProbeInvariant'
<1>1. PICK w \in Agents : w = worker[n]
  BY WorkerFound
<1>2. /\ w.loop = "measure" /\ w.job # None /\ MaxMeasures \in Nat
      /\ UNCHANGED <<status, tried, received, disorder, file, lastSeen, cfg, mu, reload>>
  BY <1>1, WorkerFound DEF P!Measure, P!LoopKeeps, ProbeSorts
<1>3. CASE w.cancelled
  <2>1. PICK v \in Agents : v = [w EXCEPT !.loop = "done"]
    BY <1>1 DEF Agents
  <2>2. worker' = [worker EXCEPT ![n] = v] /\ worker'[n] = v /\ measured' = measured
    BY <1>1, <1>3, <2>1, WorkerFound DEF P!Measure
  <2>3. /\ v.job = w.job /\ v.cancelled /\ v.loop = "done" /\ v.slot = w.slot /\ v.out = w.out
        /\ v.sig = w.sig /\ v.attempt = w.attempt
    BY <1>3, <2>1 DEF Agents
  <2>4. InOrder(n)' /\ Carried(n)'
    BY <1>1, <1>2, <2>2, <2>3, WorkerFound DEF InOrder, Carried
  <2> QED  BY <1>1, <1>2, <1>3, <2>2, <2>3, <2>4, WorkerFound, WorkerSteps
<1>4. CASE ~ w.cancelled
  <2>1. PICK v \in Agents : v = [w EXCEPT !.loop = "record"]
    BY <1>1 DEF Agents
  <2>2. /\ worker' = [worker EXCEPT ![n] = v] /\ worker'[n] = v
        /\ measured[n] < MaxMeasures /\ measured' = [measured EXCEPT ![n] = measured[n] + 1]
    BY <1>1, <1>4, <2>1, WorkerFound DEF P!Measure
  <2>3. /\ v.job = w.job /\ v.cancelled = w.cancelled /\ v.loop = "record"
        /\ v.slot = w.slot /\ v.out = w.out /\ v.sig = w.sig /\ v.attempt = w.attempt
    BY <2>1 DEF Agents
  <2>a. measured \in [Names -> Numbers] /\ measured[n] \in Numbers
    BY WorkerFound
  <2>b. measured[n] + 1 \in Numbers
    BY <1>2, <2>2, <2>a DEF Numbers
  <2>4. measured' \in [Names -> Numbers] /\ measured'[n] = measured[n] + 1
        /\ \A m \in Names \ {n} : measured'[m] = measured[m]
    BY <2>2, <2>a, <2>b
  <2>5. /\ v.slot # None => v.slot \in Nat
        /\ v.sig \in P!Signals => v.sig \in Nat
    BY DEF Agents, P!Signals
  <2>d. tried[n] \in Nat /\ received[n] \in Nat /\ measured[n] \in Nat
    <3>1. {tried[n], received[n], measured[n]} \subseteq Numbers
      BY WorkerFound
    <3> QED  BY <3>1 DEF Numbers
  <2>c. InOrder(n)
    BY WorkerFound
  <2>6. InOrder(n)'
    BY <1>1, <1>2, <2>2, <2>3, <2>4, <2>5, <2>c, <2>d DEF InOrder
  <2>7. Carried(n)'
    BY <2>2, <2>3 DEF Carried
  <2>8. /\ tried' \in [Names -> Numbers] /\ received' \in [Names -> Numbers]
        /\ ~ disorder' /\ disorder' \in BOOLEAN /\ status' \subseteq Names
    BY <1>2, WorkerFound
  <2>9. v.job = worker[n].job /\ v.cancelled = worker[n].cancelled /\ v.job # None
    BY <1>1, <1>2, <2>3
  <2> QED  BY <1>2, <2>2, <2>4, <2>6, <2>7, <2>8, <2>9, WorkerSteps
<1> QED  BY <1>3, <1>4

LEMMA RecordKeeps ==
    ASSUME ProbeSorts, ProbeInvariant, NEW n \in Names, P!Record(n)
    PROVE  ProbeInvariant'
<1>1. PICK w \in Agents : w = worker[n]
  BY WorkerFound
<1>2. PICK v \in Agents : v = [w EXCEPT !.loop = "offer"]
  BY <1>1 DEF Agents
<1>3. /\ w.loop = "record" /\ w.job # None
      /\ UNCHANGED <<measured, tried, received, disorder, file, lastSeen, cfg, mu, reload>>
      /\ status' = status \cup {n}
      /\ worker' = [worker EXCEPT ![n] = v] /\ worker'[n] = v
  BY <1>1, <1>2, WorkerFound DEF P!Record, P!LoopKeeps, P!history
<1>4. /\ v.job = w.job /\ v.cancelled = w.cancelled /\ v.loop = "offer" /\ v.slot = w.slot
      /\ v.out = w.out /\ v.sig = w.sig /\ v.attempt = w.attempt
  BY <1>2 DEF Agents
<1>5. InOrder(n)' /\ Carried(n)'
  BY <1>1, <1>3, <1>4, WorkerFound DEF InOrder, Carried
<1> QED  BY <1>1, <1>3, <1>4, <1>5, WorkerFound, WorkerSteps

LEMMA OfferKeeps ==
    ASSUME ProbeSorts, ProbeInvariant, NEW n \in Names, P!Offer(n)
    PROVE  ProbeInvariant'
<1>1. PICK w \in Agents : w = worker[n]
  BY WorkerFound
<1>2. /\ w.loop = "offer" /\ w.job # None /\ None \notin P!Signals /\ MaxMeasures \in Nat
      /\ UNCHANGED <<status, measured, tried, received, disorder, file, lastSeen, cfg, mu, reload>>
  BY <1>1, WorkerFound DEF P!Offer, P!LoopKeeps, P!history, ProbeSorts
<1>3. /\ measured[n] \in P!Signals /\ InOrder(n) /\ tried[n] < measured[n]
      /\ tried[n] \in Nat /\ received[n] \in Nat /\ measured[n] \in Nat
      /\ w.out \in {"send", "wait"} => w.sig \in Nat /\ w.sig < measured[n]
  <2>1. InOrder(n) /\ measured[n] \in Numbers /\ tried[n] \in Numbers /\ received[n] \in Numbers
    BY WorkerFound
  <2>2. tried[n] < measured[n] /\ (w.out \in {"send", "wait"} => w.sig \in P!Signals
                                                                 /\ w.sig < measured[n])
    BY <1>1, <1>2, <2>1 DEF InOrder
  <2> QED  BY <1>2, <2>1, <2>2 DEF Numbers, P!Signals
<1>4. CASE w.slot = None
  <2>1. PICK v \in Agents : v = [w EXCEPT !.slot = measured[n], !.loop = "wait"]
    BY <1>1, <1>3 DEF Agents
  <2>2. worker' = [worker EXCEPT ![n] = v] /\ worker'[n] = v
    BY <1>1, <1>4, <2>1, WorkerFound DEF P!Offer
  <2>3. /\ v.job = w.job /\ v.cancelled = w.cancelled /\ v.loop = "wait" /\ v.slot = measured[n]
        /\ v.out = w.out /\ v.sig = w.sig /\ v.attempt = w.attempt
    BY <2>1 DEF Agents
  <2>4. InOrder(n)' /\ Carried(n)'
    BY <1>1, <1>2, <1>3, <2>2, <2>3 DEF InOrder, Carried
  <2> QED  BY <1>1, <1>2, <2>2, <2>3, <2>4, WorkerFound, WorkerSteps
<1>5. CASE w.slot # None
  <2>1. PICK v \in Agents : v = [w EXCEPT !.loop = "replace"]
    BY <1>1 DEF Agents
  <2>2. worker' = [worker EXCEPT ![n] = v] /\ worker'[n] = v
    BY <1>1, <1>5, <2>1, WorkerFound DEF P!Offer
  <2>3. /\ v.job = w.job /\ v.cancelled = w.cancelled /\ v.loop = "replace" /\ v.slot = w.slot
        /\ v.out = w.out /\ v.sig = w.sig /\ v.attempt = w.attempt
    BY <2>1 DEF Agents
  <2>4. InOrder(n)' /\ Carried(n)'
    BY <1>1, <1>2, <2>2, <2>3, WorkerFound DEF InOrder, Carried
  <2> QED  BY <1>1, <1>2, <2>2, <2>3, <2>4, WorkerFound, WorkerSteps
<1> QED  BY <1>4, <1>5

LEMMA ReplaceKeeps ==
    ASSUME ProbeSorts, ProbeInvariant, NEW n \in Names, P!Replace(n)
    PROVE  ProbeInvariant'
<1>1. PICK w \in Agents : w = worker[n]
  BY WorkerFound
<1>2. PICK v \in Agents : v = [w EXCEPT !.slot = None, !.loop = "offer"]
  BY <1>1 DEF Agents
<1>3. /\ w.loop = "replace" /\ w.job # None
      /\ UNCHANGED <<status, measured, tried, received, disorder, file, lastSeen, cfg, mu, reload>>
      /\ worker' = [worker EXCEPT ![n] = v] /\ worker'[n] = v
  BY <1>1, <1>2, WorkerFound DEF P!Replace, P!LoopKeeps, P!history
<1>4. /\ v.job = w.job /\ v.cancelled = w.cancelled /\ v.loop = "offer" /\ v.slot = None
      /\ v.out = w.out /\ v.sig = w.sig /\ v.attempt = w.attempt
  BY <1>2 DEF Agents
<1>5. InOrder(n)' /\ Carried(n)'
  BY <1>1, <1>3, <1>4, WorkerFound DEF InOrder, Carried
<1> QED  BY <1>1, <1>3, <1>4, <1>5, WorkerFound, WorkerSteps

LEMMA WaitKeeps ==
    ASSUME ProbeSorts, ProbeInvariant, NEW n \in Names, P!Wait(n)
    PROVE  ProbeInvariant'
<1>1. PICK w \in Agents : w = worker[n]
  BY WorkerFound
<1>2. PICK v \in Agents : v = [w EXCEPT !.loop = IF w.cancelled THEN "done" ELSE "measure"]
  BY <1>1 DEF Agents
<1>3. /\ w.loop = "wait" /\ w.job # None
      /\ UNCHANGED <<status, measured, tried, received, disorder, file, lastSeen, cfg, mu, reload>>
      /\ worker' = [worker EXCEPT ![n] = v] /\ worker'[n] = v
  BY <1>1, <1>2, WorkerFound DEF P!Wait, P!LoopKeeps, P!history
<1>4. /\ v.job = w.job /\ v.cancelled = w.cancelled /\ v.loop \in {"measure", "done"}
      /\ v.slot = w.slot /\ v.out = w.out /\ v.sig = w.sig /\ v.attempt = w.attempt
  BY <1>2 DEF Agents
<1>5. InOrder(n)' /\ Carried(n)'
  BY <1>1, <1>3, <1>4, WorkerFound DEF InOrder, Carried, P!Running
<1> QED  BY <1>1, <1>3, <1>4, <1>5, WorkerFound, WorkerSteps

\* The goroutine that delivers.  The sender stops: what it holds or could
\* take is given up with the worker.
LEMMA SenderEnds ==
    ASSUME ProbeSorts, ProbeInvariant, NEW n \in Names,
           worker[n].out \in {"take", "wait"}, worker[n].cancelled,
           worker' = [worker EXCEPT ![n].out = "done"],
           UNCHANGED <<status, P!history>>, P!LoopKeeps
    PROVE  ProbeInvariant'
<1>1. PICK w \in Agents : w = worker[n]
  BY WorkerFound
<1>2. PICK v \in Agents : v = [w EXCEPT !.out = "done"]
  BY <1>1 DEF Agents
<1>3. /\ w.out \in {"take", "wait"} /\ w.job # None
      /\ UNCHANGED <<status, measured, tried, received, disorder, file, lastSeen, cfg, mu, reload>>
      /\ worker' = [worker EXCEPT ![n] = v] /\ worker'[n] = v
  BY <1>1, <1>2, WorkerFound DEF P!LoopKeeps, P!history
<1>4. /\ v.job = w.job /\ v.cancelled = w.cancelled /\ v.loop = w.loop
      /\ v.slot = w.slot /\ v.out = "done" /\ v.sig = w.sig /\ v.attempt = w.attempt
  BY <1>2 DEF Agents
<1>5. InOrder(n)' /\ Carried(n)'
  BY <1>1, <1>3, <1>4, WorkerFound DEF InOrder, Carried
<1> QED  BY <1>1, <1>3, <1>4, <1>5, WorkerFound, WorkerSteps

\* The sender takes what the slot holds, in the place of what it had.
LEMMA SenderTakes ==
    ASSUME ProbeSorts, ProbeInvariant, NEW n \in Names,
           worker[n].out \in {"take", "wait"}, worker[n].slot # None,
           worker' = [worker EXCEPT ![n].sig = worker[n].slot, ![n].slot = None,
                                    ![n].attempt = 1, ![n].out = "send"],
           UNCHANGED <<status, P!history>>, P!LoopKeeps
    PROVE  ProbeInvariant'
<1>1. PICK w \in Agents : w = worker[n]
  BY WorkerFound
<1>2. PICK v \in Agents :
         v = [w EXCEPT !.sig = w.slot, !.slot = None, !.attempt = 1, !.out = "send"]
  <2>1. 1 \in 0..Attempts
    BY DEF ProbeSorts
  <2> QED  BY <1>1, <2>1 DEF Agents
<1>3. /\ w.out \in {"take", "wait"} /\ w.job # None /\ w.slot # None
      /\ UNCHANGED <<status, measured, tried, received, disorder, file, lastSeen, cfg, mu, reload>>
      /\ worker' = [worker EXCEPT ![n] = v] /\ worker'[n] = v
  BY <1>1, <1>2, WorkerFound DEF P!LoopKeeps, P!history
<1>4. /\ v.job = w.job /\ v.cancelled = w.cancelled /\ v.loop = w.loop
      /\ v.slot = None /\ v.out = "send" /\ v.sig = w.slot
  BY <1>2 DEF Agents
<1>5. InOrder(n) /\ Carried(n) /\ {tried[n], received[n], measured[n]} \subseteq Numbers
  BY WorkerFound
<1>6. {tried[n], received[n], measured[n], w.slot} \subseteq Nat /\ w.slot \in P!Signals
  BY <1>3, <1>5 DEF Numbers, Agents, P!Signals
<1>7. InOrder(n)' /\ Carried(n)'
  BY <1>1, <1>3, <1>4, <1>5, <1>6 DEF InOrder, Carried, P!Running
<1> QED  BY <1>1, <1>3, <1>4, <1>7, WorkerFound, WorkerSteps

LEMMA TakeKeeps ==
    ASSUME ProbeSorts, ProbeInvariant, NEW n \in Names, P!Take(n)
    PROVE  ProbeInvariant'
BY SenderEnds, SenderTakes DEF P!Take

\* The next attempt of the same signal.
LEMMA SenderRetries ==
    ASSUME ProbeSorts, ProbeInvariant, NEW n \in Names, worker[n].out = "wait",
           worker' = [worker EXCEPT ![n].out = "send", ![n].attempt = @ + 1],
           UNCHANGED <<status, P!history>>, P!LoopKeeps
    PROVE  ProbeInvariant'
<1>1. PICK w \in Agents : w = worker[n]
  BY WorkerFound
<1>2. w.attempt + 1 \in 0..Attempts
  <2>1. w.attempt < Attempts
    BY <1>1, WorkerFound DEF InOrder
  <2> QED  BY <2>1 DEF Agents, ProbeSorts
<1>3. PICK v \in Agents : v = [w EXCEPT !.attempt = w.attempt + 1, !.out = "send"]
  BY <1>1, <1>2 DEF Agents
<1>4. /\ w.out = "wait" /\ w.job # None
      /\ UNCHANGED <<status, measured, tried, received, disorder, file, lastSeen, cfg, mu, reload>>
      /\ worker' = [worker EXCEPT ![n] = v] /\ worker'[n] = v
  BY <1>1, <1>3, WorkerFound DEF P!LoopKeeps, P!history
<1>5. /\ v.job = w.job /\ v.cancelled = w.cancelled /\ v.loop = w.loop
      /\ v.slot = w.slot /\ v.out = "send" /\ v.sig = w.sig
  BY <1>3 DEF Agents
<1>6. InOrder(n) /\ Carried(n)
  BY WorkerFound
<1>7. InOrder(n)'
  BY <1>1, <1>4, <1>5, <1>6 DEF InOrder
<1>8. Carried(n)'
  BY <1>1, <1>4, <1>5, <1>6 DEF Carried, P!Running
<1> QED  BY <1>1, <1>4, <1>5, <1>7, <1>8, WorkerFound, WorkerSteps

LEMMA RetryKeeps ==
    ASSUME ProbeSorts, ProbeInvariant, NEW n \in Names, P!Retry(n)
    PROVE  ProbeInvariant'
BY SenderEnds, SenderTakes, SenderRetries DEF P!Retry

LEMMA SendKeeps ==
    ASSUME ProbeSorts, ProbeInvariant, NEW n \in Names, NEW reaches \in BOOLEAN,
           NEW heard \in BOOLEAN, NEW retryable \in BOOLEAN,
           P!Send(n, reaches, heard, retryable)
    PROVE  ProbeInvariant'
<1>1. PICK w \in Agents : w = worker[n]
  BY WorkerFound
<1>2. PICK o \in {"done", "take", "wait"} :
         /\ o = IF w.cancelled THEN "done"
                ELSE IF heard \/ ~ retryable \/ w.attempt >= Attempts THEN "take" ELSE "wait"
  OBVIOUS
<1>3. PICK v \in Agents : v = [w EXCEPT !.out = o]
  BY <1>1 DEF Agents
<1>4. /\ w.out = "send" /\ w.job # None
      /\ UNCHANGED <<measured, file, lastSeen, cfg, mu, reload>>
      /\ worker' = [worker EXCEPT ![n] = v] /\ worker'[n] = v
      /\ tried' = [tried EXCEPT ![n] = w.sig]
      /\ received' = IF reaches THEN [received EXCEPT ![n] = w.sig] ELSE received
  BY <1>1, <1>2, <1>3, WorkerFound DEF P!Send, P!LoopKeeps
<1>5. /\ v.job = w.job /\ v.cancelled = w.cancelled /\ v.loop = w.loop
      /\ v.slot = w.slot /\ v.out = o /\ v.sig = w.sig /\ v.attempt = w.attempt
  BY <1>3 DEF Agents
<1>6. o = "wait" => v.attempt < Attempts
  BY <1>2, <1>5 DEF Agents, ProbeSorts
<1>7. InOrder(n) /\ Carried(n) /\ {tried[n], received[n], measured[n]} \subseteq Numbers
  BY WorkerFound
<1>8. /\ {tried[n], received[n], measured[n], w.sig} \subseteq Nat /\ w.sig \in Numbers
      /\ received[n] <= tried[n] /\ tried[n] <= w.sig
  BY <1>1, <1>4, <1>7 DEF Numbers, Agents, P!Signals, InOrder
<1>9. ~ disorder' /\ disorder' \in BOOLEAN
  <2>1. ~ (w.sig < received[n])
    BY <1>8
  <2> QED  BY <1>1, <2>1, WorkerFound, Zenon DEF P!Send
<1>10. /\ tried' \in [Names -> Numbers] /\ received' \in [Names -> Numbers]
       /\ tried'[n] = w.sig /\ received'[n] \in {w.sig, received[n]}
       /\ \A m \in Names \ {n} : tried'[m] = tried[m] /\ received'[m] = received[m]
  BY <1>4, <1>8, WorkerFound
<1>11. InOrder(n)'
  BY <1>1, <1>2, <1>4, <1>5, <1>6, <1>7, <1>8, <1>10 DEF InOrder
<1>12. Carried(n)'
  <2>1. CASE w.slot # None
    BY <1>1, <1>4, <1>5, <1>7, <2>1 DEF Carried, P!Running
  <2>2. CASE w.slot = None
    <3>1. w.loop \in {"wait", "measure"} /\ ~ w.cancelled =>
            tried[n] = measured[n] \/ w.sig = measured[n]
      BY <1>1, <1>4, <1>7, <2>2 DEF Carried, P!Running
    <3>2. w.sig <= measured[n]
      BY <1>1, <1>4, <1>7 DEF InOrder
    <3>3. w.loop \in {"wait", "measure"} /\ ~ w.cancelled => w.sig = measured[n]
      BY <1>8, <3>1, <3>2
    <3> QED  BY <1>4, <1>5, <1>10, <2>2, <3>3 DEF Carried
  <2> QED  BY <2>1, <2>2
<1>13. status' \subseteq Names
  BY WorkerFound DEF P!Send
<1>14. measured' \in [Names -> Numbers] /\ measured' = measured
  BY <1>4, WorkerFound
<1> QED  BY <1>1, <1>4, <1>5, <1>9, <1>10, <1>11, <1>12, <1>13, <1>14, WorkerSteps

\* A step of a worker.
LEMMA WorkKeeps ==
    ASSUME ProbeSorts, ProbeInvariant, NEW n \in Names, P!Work(n)
    PROVE  ProbeInvariant'
BY MeasureKeeps, RecordKeeps, OfferKeeps, ReplaceKeeps, WaitKeeps, TakeKeeps, RetryKeeps,
   SendKeeps DEF P!Work

-----------------------------------------------------------------------------
\* Where the workers rest, every name is as it was.
LEMMA WorkersRest ==
    ASSUME ProbeInvariant, UNCHANGED <<worker, measured, tried, received>>
    PROVE  \A n \in Names : InOrder(n)' /\ Carried(n)'
BY NameAtRest DEF ProbeInvariant

\* Where a call of reload is, and what it read.
Calls == [stage: {"idle", "lock", "load", "keep", "stop", "start"},
          read: P!Contents \cup {None}, force: BOOLEAN, jobs: Files \cup {P!NoJobs}]

LEMMA ReloadFound ==
    ASSUME ProbeInvariant
    PROVE  /\ reload \in [Reloaders -> Calls]
           /\ worker \in [Names -> Agents]
           /\ \A r \in Reloaders : reload[r].stage \in {"load", "keep", "stop"} <=> mu = r
           /\ \A r \in Reloaders : reload[r].stage \in {"keep", "stop"} => reload[r].jobs = cfg
           /\ \A r \in Reloaders : reload[r].stage = "lock" => reload[r].jobs = P!NoJobs
           /\ (\A r \in Reloaders : reload[r].stage \notin {"keep", "stop"}) => RunsAll(cfg)
           /\ \A n \in Names : ~ P!Running(n) => worker[n] = P!NoWorker
           /\ \A n \in Names : worker[n].cancelled =>
                \E r \in Reloaders : reload[r].stage = "stop" /\ P!Outdated(n, reload[r].jobs)
BY DEF ProbeInvariant, P!TypeOK, Calls, Agents, Reloading

LEMMA RestingCall ==
    /\ P!AtRest \in Calls /\ P!AtRest.stage = "idle"
    /\ \A c \in P!Contents, b \in BOOLEAN :
         LET a == [P!AtRest EXCEPT !.stage = "lock", !.read = c, !.force = b] IN
         a \in Calls /\ a.stage = "lock"
BY DEF P!AtRest, Calls, P!NoJobs

\* A call of reload goes on, alone past the mutex, and touches no worker.
LEMMA CallSteps ==
    ASSUME ProbeSorts, ProbeInvariant, NEW r \in Reloaders, NEW a \in Calls,
           reload' = [reload EXCEPT ![r] = a],
           UNCHANGED <<worker, P!history>>, P!TypeOK',
           \A s \in Reloaders \ {r} : reload[s].stage \notin {"load", "keep", "stop"},
           reload[r].stage # "stop",
           mu' = IF a.stage \in {"load", "keep", "stop"} THEN r ELSE None,
           a.stage \in {"keep", "stop"} => a.jobs = cfg',
           a.stage = "lock" => a.jobs = P!NoJobs,
           a.stage \notin {"keep", "stop"} => cfg' = cfg /\ reload[r].stage \notin {"keep", "stop"}
    PROVE  ProbeInvariant'
<1>1. reload'[r] = a /\ \A s \in Reloaders \ {r} : reload'[s] = reload[s]
  BY ReloadFound
<1>2. \A n \in Names : ~ worker[n].cancelled
  BY ReloadFound
<1>3. \A s \in Reloaders : reload'[s].stage \in {"load", "keep", "stop"} <=> mu' = s
  BY <1>1 DEF ProbeSorts
<1>4. \A s \in Reloaders : reload'[s].stage \in {"keep", "stop"} => reload'[s].jobs = cfg'
  BY <1>1
<1>5. \A s \in Reloaders : reload'[s].stage = "lock" => reload'[s].jobs = P!NoJobs
  BY <1>1, ReloadFound
<1>6. ASSUME \A s \in Reloaders : reload'[s].stage \notin {"keep", "stop"}
      PROVE  RunsAll(cfg)'
  <2>1. cfg' = cfg /\ a.stage \notin {"keep", "stop"}
    BY <1>1, <1>6
  <2>2. RunsAll(cfg)
    BY <2>1, ReloadFound
  <2> QED  BY <2>1, <2>2 DEF RunsAll, P!Running
<1>7. Reloading'
  <2>1. \A n \in Names : ~ P!Running(n)' => worker'[n] = P!NoWorker
    BY ReloadFound DEF P!Running
  <2> QED  BY <1>2, <1>3, <1>4, <1>5, <1>6, <2>1 DEF Reloading
<1>8. ~ disorder'
  BY DEF P!history, ProbeInvariant
<1>9. \A n \in Names : InOrder(n)' /\ Carried(n)'
  BY WorkersRest DEF P!history
<1> QED  BY <1>7, <1>8, <1>9 DEF ProbeInvariant

\* With the mutex free, or in the hands of r, nobody else is past it.
LEMMA OthersBefore ==
    ASSUME ProbeSorts, ProbeInvariant, NEW r \in Reloaders, mu \in {None, r}
    PROVE  \A s \in Reloaders \ {r} : reload[s].stage \notin {"load", "keep", "stop"}
BY ReloadFound DEF ProbeSorts

LEMMA EditKeeps ==
    ASSUME ProbeSorts, ProbeInvariant, NEW c \in P!Contents, P!Edit(c)
    PROVE  ProbeInvariant'
<1>1. UNCHANGED <<lastSeen, cfg, mu, reload, worker, status, measured, tried, received, disorder>>
      /\ file' \in P!Contents
  BY DEF P!Edit, P!history
<1>2. P!TypeOK'
  BY <1>1 DEF ProbeInvariant, P!TypeOK
<1>3. Reloading'
  BY <1>1 DEF ProbeInvariant, Reloading, RunsAll, P!Running, P!Outdated
<1>4. ~ disorder'
  BY <1>1 DEF ProbeInvariant
<1>5. \A n \in Names : InOrder(n)' /\ Carried(n)'
  BY <1>1, WorkersRest
<1> QED  BY <1>2, <1>3, <1>4, <1>5 DEF ProbeInvariant

LEMMA ReadFileKeeps ==
    ASSUME ProbeSorts, ProbeInvariant, NEW r \in Reloaders, NEW force \in BOOLEAN,
           P!ReadFile(r, force)
    PROVE  ProbeInvariant'
<1>1. UNCHANGED <<file, lastSeen, cfg, mu, worker, status, measured, tried, received, disorder>>
  BY DEF P!ReadFile, P!history
<1>2. PICK a \in Calls : a.stage = "lock" /\ a.jobs = P!NoJobs /\ reload' = [reload EXCEPT ![r] = a]
  <2>1. file \in P!Contents
    BY DEF ProbeInvariant, P!TypeOK
  <2>2. PICK a : a = [P!AtRest EXCEPT !.stage = "lock", !.read = file, !.force = force]
    OBVIOUS
  <2>3. a \in Calls /\ a.stage = "lock" /\ a.jobs = P!NoJobs
    BY <2>1, <2>2 DEF P!AtRest, Calls
  <2> QED  BY <2>2, <2>3 DEF P!ReadFile
<1>3. /\ reload' \in [Reloaders -> Calls] /\ reload'[r] = a /\ reload[r].stage = "idle"
      /\ \A s \in Reloaders \ {r} : reload'[s] = reload[s]
  BY <1>2, ReloadFound DEF P!ReadFile
<1>4. P!TypeOK'
  BY <1>1, <1>3 DEF ProbeInvariant, P!TypeOK, Calls
<1>5. Reloading'
  <2>1. \A s \in Reloaders : reload'[s].stage \in {"load", "keep", "stop"} => reload'[s] = reload[s]
    BY <1>2, <1>3
  <2>2. \A s \in Reloaders : reload[s].stage \in {"load", "keep", "stop"} => reload'[s] = reload[s]
    BY <1>2, <1>3
  <2>3. \A s \in Reloaders : reload'[s].stage \in {"load", "keep", "stop"} <=> mu' = s
    BY <1>1, <2>1, <2>2, ReloadFound
  <2>4. \A s \in Reloaders : reload'[s].stage \in {"keep", "stop"} => reload'[s].jobs = cfg'
    BY <1>1, <2>1, ReloadFound
  <2>5. \A s \in Reloaders : reload'[s].stage = "lock" => reload'[s].jobs = P!NoJobs
    BY <1>2, <1>3, ReloadFound
  <2>6. (\A s \in Reloaders : reload'[s].stage \notin {"keep", "stop"}) => RunsAll(cfg)'
    BY <1>1, <2>2, ReloadFound DEF RunsAll, P!Running
  <2>7. \A n \in Names : ~ P!Running(n)' => worker'[n] = P!NoWorker
    BY <1>1, ReloadFound DEF P!Running
  <2>8. \A n \in Names : worker'[n].cancelled =>
           \E s \in Reloaders : reload'[s].stage = "stop" /\ P!Outdated(n, reload[s].jobs)'
    BY <1>1, <2>2, ReloadFound DEF P!Outdated, P!Running
  <2> QED  BY <2>3, <2>4, <2>5, <2>6, <2>7, <2>8 DEF Reloading
<1>6. ~ disorder'
  BY <1>1 DEF ProbeInvariant
<1>7. \A n \in Names : InOrder(n)' /\ Carried(n)'
  BY <1>1, WorkersRest
<1> QED  BY <1>4, <1>5, <1>6, <1>7 DEF ProbeInvariant

LEMMA LockKeeps ==
    ASSUME ProbeSorts, ProbeInvariant, NEW r \in Reloaders, P!Lock(r)
    PROVE  ProbeInvariant'
<1>1. PICK c \in Calls : c = reload[r]
  BY ReloadFound
<1>2. c.stage = "lock" /\ mu = None /\ c.jobs = P!NoJobs
      /\ UNCHANGED <<file, worker, status, measured, tried, received, disorder, edits>>
  BY <1>1, ReloadFound DEF P!Lock, P!history
<1>3. \A s \in Reloaders \ {r} : reload[s].stage \notin {"load", "keep", "stop"}
  BY <1>2, OthersBefore
<1>4. CASE ~ c.force /\ c.read = lastSeen
  <2>1. reload' = [reload EXCEPT ![r] = P!AtRest] /\ UNCHANGED <<lastSeen, cfg, mu>>
    BY <1>1, <1>4 DEF P!Lock
  <2>2. reload' \in [Reloaders -> Calls]
    BY <2>1, RestingCall, ReloadFound
  <2>3. P!TypeOK'
    BY <1>2, <2>1, <2>2 DEF ProbeInvariant, P!TypeOK, Calls
  <2> QED  BY <1>1, <1>2, <1>3, <2>1, <2>3, RestingCall, CallSteps DEF P!history
<1>5. CASE ~ (~ c.force /\ c.read = lastSeen)
  <2>1. /\ lastSeen' = c.read /\ mu' = r
        /\ cfg' = IF c.read = Missing THEN P!NoJobs ELSE cfg
        /\ reload' = [reload EXCEPT ![r].stage = IF c.read = Missing THEN "stop" ELSE "load"]
    BY <1>1, <1>5 DEF P!Lock
  <2>a. PICK a \in Calls : a = [c EXCEPT !.stage = IF c.read = Missing THEN "stop" ELSE "load"]
    BY <1>1 DEF Calls
  <2>2. a.stage = (IF c.read = Missing THEN "stop" ELSE "load") /\ a.jobs = c.jobs
    BY <2>a DEF Calls
  <2>3. reload' = [reload EXCEPT ![r] = a] /\ reload' \in [Reloaders -> Calls]
    BY <1>1, <2>1, <2>a, ReloadFound
  <2>4. cfg' \in Files \cup {P!NoJobs} /\ lastSeen' \in P!Contents \cup {None}
    BY <2>1 DEF ProbeInvariant, P!TypeOK, Calls
  <2>5. P!TypeOK'
    BY <1>2, <2>1, <2>3, <2>4 DEF ProbeInvariant, P!TypeOK, Calls
  <2>6. /\ a.stage \in {"keep", "stop"} => a.jobs = cfg'
        /\ a.stage \notin {"keep", "stop"} => cfg' = cfg
        /\ a.stage \in {"load", "stop"}
    BY <1>2, <2>1, <2>2
  <2> QED  BY <1>1, <1>2, <1>3, <2>1, <2>3, <2>5, <2>6, CallSteps DEF P!history
<1> QED  BY <1>4, <1>5

LEMMA LoadKeeps ==
    ASSUME ProbeSorts, ProbeInvariant, NEW r \in Reloaders, P!Load(r)
    PROVE  ProbeInvariant'
<1>1. PICK c \in Calls : c = reload[r]
  BY ReloadFound
<1>2. c.stage = "load" /\ mu = r
      /\ UNCHANGED <<file, lastSeen, worker, status, measured, tried, received, disorder, edits>>
  BY <1>1, ReloadFound DEF P!Load, P!history
<1>3. \A s \in Reloaders \ {r} : reload[s].stage \notin {"load", "keep", "stop"}
  BY <1>2, OthersBefore
<1>4. CASE file \in Files
  <2>1. /\ cfg' = file /\ mu' = mu
        /\ reload' = [reload EXCEPT ![r].stage = "keep", ![r].jobs = file]
    BY <1>4 DEF P!Load
  <2>a. PICK a \in Calls : a = [c EXCEPT !.stage = "keep", !.jobs = file]
    BY <1>1, <1>4 DEF Calls
  <2>2. a.stage = "keep" /\ a.jobs = file
    BY <2>a DEF Calls
  <2>3. reload' = [reload EXCEPT ![r] = a] /\ reload' \in [Reloaders -> Calls]
    BY <1>1, <2>1, <2>a, ReloadFound
  <2>4. P!TypeOK'
    BY <1>2, <1>4, <2>1, <2>3 DEF ProbeInvariant, P!TypeOK, Calls
  <2> QED  BY <1>1, <1>2, <1>3, <2>1, <2>2, <2>3, <2>4, CallSteps DEF P!history
<1>5. CASE file \notin Files
  <2>1. mu' = None /\ reload' = [reload EXCEPT ![r] = P!AtRest] /\ cfg' = cfg
    BY <1>5 DEF P!Load
  <2>2. reload' \in [Reloaders -> Calls]
    BY <2>1, RestingCall, ReloadFound
  <2>3. P!TypeOK'
    BY <1>2, <2>1, <2>2 DEF ProbeInvariant, P!TypeOK, Calls
  <2> QED  BY <1>1, <1>2, <1>3, <2>1, <2>3, RestingCall, CallSteps DEF P!history
<1> QED  BY <1>4, <1>5

LEMMA KeepKeeps ==
    ASSUME ProbeSorts, ProbeInvariant, NEW r \in Reloaders, P!Keep(r)
    PROVE  ProbeInvariant'
<1>1. PICK c \in Calls : c = reload[r]
  BY ReloadFound
<1>2. /\ c.stage = "keep" /\ mu = r /\ c.jobs = cfg
      /\ UNCHANGED <<file, lastSeen, cfg, mu, worker, measured, tried, received, disorder, edits>>
      /\ reload' = [reload EXCEPT ![r].stage = "stop"] /\ status' \subseteq status
  BY <1>1, ReloadFound DEF P!Keep, P!history
<1>3. \A s \in Reloaders \ {r} : reload[s].stage \notin {"load", "keep", "stop"}
  BY <1>2, OthersBefore
<1>a. PICK a \in Calls : a = [c EXCEPT !.stage = "stop"]
  BY <1>1 DEF Calls
<1>4. a.stage = "stop" /\ a.jobs = c.jobs
  BY <1>a DEF Calls
<1>5. reload' = [reload EXCEPT ![r] = a] /\ reload' \in [Reloaders -> Calls]
  BY <1>1, <1>2, <1>a, ReloadFound
<1>6. P!TypeOK'
  BY <1>2, <1>5 DEF ProbeInvariant, P!TypeOK, Calls
<1> QED  BY <1>1, <1>2, <1>3, <1>4, <1>5, <1>6, CallSteps DEF P!history

\* A worker told to stop has no job, or another one.
LEMMA CancelKeeps ==
    ASSUME ProbeSorts, ProbeInvariant, NEW r \in Reloaders, NEW n \in Names, P!Cancel(r, n)
    PROVE  ProbeInvariant'
<1>1. PICK w \in Agents : w = worker[n]
  BY ReloadFound
<1>2. PICK v \in Agents : v = [w EXCEPT !.cancelled = TRUE]
  BY <1>1 DEF Agents
<1>3. /\ reload[r].stage = "stop" /\ P!Outdated(n, reload[r].jobs)
      /\ worker' = [worker EXCEPT ![n] = v] /\ worker'[n] = v
      /\ worker' \in [Names -> Agents] /\ \A m \in Names \ {n} : worker'[m] = worker[m]
      /\ UNCHANGED <<file, lastSeen, cfg, mu, reload, status, measured, tried, received, disorder>>
  BY <1>1, <1>2, ReloadFound DEF P!Cancel, P!history
<1>4. /\ v.job = w.job /\ v.cancelled /\ v.loop = w.loop /\ v.slot = w.slot /\ v.out = w.out
      /\ v.sig = w.sig /\ v.attempt = w.attempt
  BY <1>2 DEF Agents
<1>5. P!TypeOK'
  BY <1>3 DEF ProbeInvariant, P!TypeOK, Agents
<1>6. \A m \in Names : /\ worker'[m].job = worker[m].job
                       /\ P!Running(m)' <=> P!Running(m)
                       /\ m # n => worker'[m] = worker[m]
  BY <1>1, <1>3, <1>4 DEF P!Running
<1>7. \A m \in Names, s \in Reloaders :
         P!Outdated(m, reload[s].jobs) => P!Outdated(m, reload[s].jobs)'
  BY <1>3, <1>6 DEF P!Outdated
<1>8. Reloading'
  <2>1. ~ \A s \in Reloaders : reload'[s].stage \notin {"keep", "stop"}
    BY <1>3
  <2>2. P!Running(n)
    BY <1>3 DEF P!Outdated
  <2>3. \A m \in Names : ~ P!Running(m)' => worker'[m] = P!NoWorker
    BY <1>6, <2>2, ReloadFound
  <2>4. \A m \in Names : worker'[m].cancelled =>
           \E s \in Reloaders : reload'[s].stage = "stop" /\ P!Outdated(m, reload[s].jobs)'
    BY <1>3, <1>6, <1>7, ReloadFound
  <2>5. \A s \in Reloaders : reload'[s].stage \in {"load", "keep", "stop"} <=> mu' = s
    BY <1>3, ReloadFound
  <2>6. \A s \in Reloaders : /\ reload'[s].stage \in {"keep", "stop"} => reload'[s].jobs = cfg'
                             /\ reload'[s].stage = "lock" => reload'[s].jobs = P!NoJobs
    BY <1>3, ReloadFound
  <2> QED  BY <2>1, <2>3, <2>4, <2>5, <2>6 DEF Reloading
<1>9. \A m \in Names : InOrder(m)' /\ Carried(m)'
  <2>1. ASSUME NEW m \in Names \ {n}  PROVE  InOrder(m)' /\ Carried(m)'
    BY <1>3, NameAtRest DEF ProbeInvariant
  <2>2. InOrder(n)' /\ Carried(n)'
    BY <1>1, <1>3, <1>4, WorkerFound DEF InOrder, Carried
  <2> QED  BY <2>1, <2>2
<1>10. ~ disorder'
  BY <1>3 DEF ProbeInvariant
<1> QED  BY <1>5, <1>8, <1>9, <1>10 DEF ProbeInvariant

\* A worker that ended is forgotten.
LEMMA DiscardKeeps ==
    ASSUME ProbeSorts, ProbeInvariant, NEW r \in Reloaders, NEW n \in Names, P!Discard(r, n)
    PROVE  ProbeInvariant'
<1>1. /\ P!NoWorker \in Agents /\ P!NoWorker.job = None /\ ~ P!NoWorker.cancelled
      /\ P!NoWorker.loop = "done" /\ P!NoWorker.out = "done" /\ P!NoWorker.slot = None
  BY DEF P!NoWorker, Agents, ProbeSorts
<1>2. /\ reload[r].stage = "stop"
      /\ worker' = [worker EXCEPT ![n] = P!NoWorker] /\ worker'[n] = P!NoWorker
      /\ worker' \in [Names -> Agents] /\ \A m \in Names \ {n} : worker'[m] = worker[m]
      /\ UNCHANGED <<file, lastSeen, cfg, mu, reload, status, measured, tried, received, disorder>>
  BY <1>1, ReloadFound DEF P!Discard, P!history
<1>3. P!TypeOK'
  BY <1>2 DEF ProbeInvariant, P!TypeOK, Agents
<1>4. Reloading'
  <2>1. ~ \A s \in Reloaders : reload'[s].stage \notin {"keep", "stop"}
    BY <1>2
  <2>2. \A m \in Names \ {n} : P!Running(m)' <=> P!Running(m)
    BY <1>2 DEF P!Running
  <2>3. \A m \in Names : ~ P!Running(m)' => worker'[m] = P!NoWorker
    BY <1>2, <2>2, ReloadFound
  <2>4. \A m \in Names : worker'[m].cancelled =>
           \E s \in Reloaders : reload'[s].stage = "stop" /\ P!Outdated(m, reload[s].jobs)'
    <3>1. ASSUME NEW m \in Names, worker'[m].cancelled
          PROVE  \E s \in Reloaders : reload'[s].stage = "stop" /\ P!Outdated(m, reload[s].jobs)'
      <4>1. m # n /\ worker'[m] = worker[m]
        BY <1>1, <1>2, <3>1
      <4>2. PICK s \in Reloaders : reload[s].stage = "stop" /\ P!Outdated(m, reload[s].jobs)
        BY <3>1, <4>1, ReloadFound
      <4> QED  BY <1>2, <4>1, <4>2 DEF P!Outdated, P!Running
    <3> QED  BY <3>1
  <2>5. \A s \in Reloaders : reload'[s].stage \in {"load", "keep", "stop"} <=> mu' = s
    BY <1>2, ReloadFound
  <2>6. \A s \in Reloaders : /\ reload'[s].stage \in {"keep", "stop"} => reload'[s].jobs = cfg'
                             /\ reload'[s].stage = "lock" => reload'[s].jobs = P!NoJobs
    BY <1>2, ReloadFound
  <2> QED  BY <2>1, <2>3, <2>4, <2>5, <2>6 DEF Reloading
<1>5. \A m \in Names : InOrder(m)' /\ Carried(m)'
  <2>1. ASSUME NEW m \in Names \ {n}  PROVE  InOrder(m)' /\ Carried(m)'
    BY <1>2, NameAtRest DEF ProbeInvariant
  <2>2. InOrder(n)' /\ Carried(n)'
    BY <1>1, <1>2, WorkerFound DEF InOrder, Carried, P!Running
  <2> QED  BY <2>1, <2>2
<1>6. ~ disorder'
  BY <1>2 DEF ProbeInvariant
<1> QED  BY <1>3, <1>4, <1>5, <1>6 DEF ProbeInvariant

\* What is up to date goes on, and what is missing is started with nothing
\* measured that was not tried.
LEMMA StartKeeps ==
    ASSUME ProbeSorts, ProbeInvariant, NEW r \in Reloaders, P!Start(r)
    PROVE  ProbeInvariant'
<1>1. PICK jobs \in Files \cup {P!NoJobs} : jobs = reload[r].jobs
  BY ReloadFound DEF Calls
<1>2. /\ reload[r].stage = "stop" /\ mu = r /\ jobs = cfg /\ mu' = None
      /\ reload' = [reload EXCEPT ![r] = P!AtRest]
      /\ UNCHANGED <<file, lastSeen, cfg, status, measured, received, disorder>>
      /\ \A n \in Names : ~ P!Outdated(n, jobs)
  BY <1>1, ReloadFound DEF P!Start
<1>3. \A s \in Reloaders \ {r} : reload[s].stage \notin {"load", "keep", "stop"}
  BY <1>2, OthersBefore
<1>4. /\ reload' \in [Reloaders -> Calls] /\ reload'[r].stage = "idle"
      /\ \A s \in Reloaders \ {r} : reload'[s] = reload[s]
  BY <1>2, RestingCall, ReloadFound
<1>5. \A s \in Reloaders : reload'[s].stage \notin {"load", "keep", "stop"}
  BY <1>3, <1>4
<1>6. DOMAIN jobs \subseteq Names /\ \A n \in DOMAIN jobs : jobs[n] \in P!Jobs
  <2>1. CASE jobs \in Files
    <3>1. \A n \in DOMAIN jobs : jobs[n] \in {jobs[k] : k \in DOMAIN jobs}
      OBVIOUS
    <3> QED  BY <2>1, <3>1 DEF ProbeSorts, P!Jobs
  <2>2. CASE jobs = P!NoJobs
    <3>1. DOMAIN jobs = {}
      BY <2>2 DEF P!NoJobs
    <3> QED  BY <3>1
  <2> QED  BY <2>1, <2>2
<1>7. \A n \in DOMAIN jobs : \A v \in {P!Started(jobs[n])} :
        /\ v \in Agents /\ v.job = jobs[n] /\ ~ v.cancelled /\ v.loop = "measure"
        /\ v.slot = None /\ v.out = "take"
  <2>1. 0 \in 0..Attempts
    BY DEF ProbeSorts
  <2>2. ASSUME NEW job \in P!Jobs, NEW v, v = P!Started(job)
        PROVE  /\ v \in Agents /\ v.job = job /\ ~ v.cancelled /\ v.loop = "measure"
               /\ v.slot = None /\ v.out = "take"
    BY <2>1, <2>2 DEF P!Started, Agents
  <2> QED  BY <1>6, <2>2
<1>8. \A n \in Names :
        IF n \in DOMAIN jobs /\ ~ P!Running(n)
          THEN worker'[n] = P!Started(jobs[n]) /\ tried'[n] = measured[n]
          ELSE worker'[n] = worker[n] /\ tried'[n] = tried[n]
  <2>1. \A n \in Names : worker'[n] = IF n \in DOMAIN jobs /\ ~ P!Running(n)
                                        THEN P!Started(jobs[n]) ELSE worker[n]
    BY <1>1 DEF P!Start
  <2>2. \A n \in Names : tried'[n] = IF worker'[n] = worker[n] THEN tried[n] ELSE measured[n]
    BY DEF P!Start
  <2>3. \A n \in DOMAIN jobs : ~ P!Running(n) => worker[n] # P!Started(jobs[n])
    <3>1. \A n \in DOMAIN jobs : P!Started(jobs[n]).job # None
      BY <1>6, <1>7 DEF ProbeSorts
    <3> QED  BY <3>1 DEF P!Running
  <2> QED  BY <2>1, <2>2, <2>3
<1>9. worker' \in [Names -> Agents]
  <2>1. worker' = [n \in Names |-> worker'[n]]
    BY DEF P!Start
  <2>2. \A n \in Names : worker'[n] \in Agents
    BY <1>7, <1>8, ReloadFound
  <2> QED  BY <2>1, <2>2
<1>10. tried' \in [Names -> Numbers]
  <2>1. tried' = [n \in Names |-> tried'[n]]
    BY DEF P!Start
  <2>2. \A n \in Names : tried'[n] \in Numbers
    BY <1>8, WorkerFound
  <2> QED  BY <2>1, <2>2
<1>11. P!TypeOK'
  BY <1>2, <1>4, <1>9, <1>10 DEF ProbeInvariant, P!TypeOK, Calls, Agents, Numbers
<1>12. \A n \in Names : worker[n].cancelled => P!Outdated(n, jobs)
  BY <1>1, <1>3, ReloadFound
<1>13. \A n \in Names : /\ ~ worker'[n].cancelled
                        /\ P!Running(n)' <=> n \in DOMAIN jobs
                        /\ n \in DOMAIN jobs => worker'[n].job = jobs[n]
                        /\ n \notin DOMAIN jobs => worker'[n] = P!NoWorker
  <2>1. ASSUME NEW n \in Names, n \in DOMAIN jobs, ~ P!Running(n)
        PROVE  ~ worker'[n].cancelled /\ P!Running(n)' /\ worker'[n].job = jobs[n]
    BY <1>6, <1>7, <1>8, <2>1 DEF P!Running, ProbeSorts
  <2>2. ASSUME NEW n \in Names, n \in DOMAIN jobs, P!Running(n)
        PROVE  ~ worker'[n].cancelled /\ P!Running(n)' /\ worker'[n].job = jobs[n]
    BY <1>2, <1>8, <1>12, <2>2 DEF P!Running, P!Outdated
  <2>3. ASSUME NEW n \in Names, n \notin DOMAIN jobs
        PROVE  ~ worker'[n].cancelled /\ ~ P!Running(n)' /\ worker'[n] = P!NoWorker
    <3>1. ~ P!Running(n)
      BY <1>2, <2>3 DEF P!Outdated
    <3>2. worker'[n] = P!NoWorker
      BY <1>8, <2>3, <3>1, ReloadFound
    <3> QED  BY <3>2 DEF P!NoWorker, P!Running
  <2> QED  BY <2>1, <2>2, <2>3
<1>14. Reloading'
  <2>1. RunsAll(cfg)'
    BY <1>2, <1>6, <1>13 DEF RunsAll
  <2>2. \A s \in Reloaders : reload'[s].stage \in {"load", "keep", "stop"} <=> mu' = s
    BY <1>2, <1>5 DEF ProbeSorts
  <2>3. \A s \in Reloaders : reload'[s].stage = "lock" => reload'[s].jobs = P!NoJobs
    BY <1>4, ReloadFound
  <2> QED  BY <1>5, <1>13, <2>1, <2>2, <2>3 DEF Reloading
<1>15. \A n \in Names : InOrder(n)' /\ Carried(n)'
  <2>1. ASSUME NEW n \in Names, n \in DOMAIN jobs, ~ P!Running(n)
        PROVE  InOrder(n)' /\ Carried(n)'
    <3>1. PICK v : v = worker'[n]
      OBVIOUS
    <3>2. v.loop = "measure" /\ v.slot = None /\ v.out = "take" /\ tried'[n] = measured[n]
      BY <1>7, <1>8, <2>1, <3>1
    <3>3. received[n] <= tried[n] /\ tried[n] <= measured[n]
      BY WorkerFound DEF InOrder
    <3>4. {received[n], tried[n], measured[n]} \subseteq Nat
      <4>1. {received[n], tried[n], measured[n]} \subseteq Numbers
        BY WorkerFound
      <4> QED  BY <4>1 DEF Numbers
    <3>5. received[n] <= measured[n] /\ measured[n] <= measured[n]
      BY <3>3, <3>4
    <3> QED  BY <1>2, <3>1, <3>2, <3>5 DEF InOrder, Carried
  <2>2. ASSUME NEW n \in Names, ~ (n \in DOMAIN jobs /\ ~ P!Running(n))
        PROVE  InOrder(n)' /\ Carried(n)'
    BY <1>2, <1>8, <2>2, NameAtRest DEF ProbeInvariant
  <2> QED  BY <2>1, <2>2
<1>16. ~ disorder'
  BY <1>2 DEF ProbeInvariant
<1> QED  BY <1>11, <1>14, <1>15, <1>16 DEF ProbeInvariant

-----------------------------------------------------------------------------
LEMMA ProbeStarts == ASSUME ProbeSorts  PROVE P!Init => ProbeInvariant
<1> SUFFICES ASSUME P!Init  PROVE ProbeInvariant
  OBVIOUS
<1>1. P!NoWorker \in Agents /\ P!NoWorker.job = None /\ ~ P!NoWorker.cancelled
      /\ P!NoWorker.loop = "done" /\ P!NoWorker.out = "done" /\ P!NoWorker.slot = None
  BY DEF P!NoWorker, Agents, ProbeSorts
<1>2. \A n \in Names : worker[n] = P!NoWorker
  BY DEF P!Init
<1>3. P!TypeOK
  <2>1. worker \in [Names -> Agents]
    BY <1>1 DEF P!Init
  <2>2. reload \in [Reloaders -> Calls]
    BY RestingCall DEF P!Init
  <2>3. 0 \in Numbers
    BY DEF Numbers, ProbeSorts
  <2>4. /\ measured \in [Names -> Numbers] /\ tried \in [Names -> Numbers]
        /\ received \in [Names -> Numbers]
    BY <2>3 DEF P!Init
  <2>5. file \in P!Contents /\ lastSeen = None /\ cfg = P!NoJobs /\ mu = None /\ status = {}
        /\ disorder \in BOOLEAN
    BY DEF P!Init, P!Contents
  <2> QED  BY <2>1, <2>2, <2>4, <2>5 DEF P!TypeOK, Agents, Calls, Numbers
<1>4. Reloading
  <2>1. \A r \in Reloaders : reload[r].stage = "idle"
    BY DEF P!Init, P!AtRest
  <2>2. RunsAll(cfg)
    BY <1>1, <1>2 DEF P!Init, RunsAll, P!Running, P!NoJobs
  <2> QED  BY <1>1, <1>2, <2>1, <2>2 DEF P!Init, Reloading, ProbeSorts
<1>5. \A n \in Names : InOrder(n) /\ Carried(n)
  BY <1>1, <1>2 DEF P!Init, InOrder, Carried, P!Running
<1> QED  BY <1>3, <1>4, <1>5 DEF P!Init, ProbeInvariant

LEMMA ProbeSteps == ASSUME ProbeSorts  PROVE ProbeInvariant /\ [P!Next]_(P!vars) => ProbeInvariant'
<1> SUFFICES ASSUME ProbeInvariant, [P!Next]_(P!vars)  PROVE ProbeInvariant'
  OBVIOUS
<1>1. ASSUME NEW r \in Reloaders, P!Reload(r)  PROVE ProbeInvariant'
  BY <1>1, ReadFileKeeps, LockKeeps, LoadKeeps, KeepKeeps, StartKeeps, CancelKeeps, DiscardKeeps
     DEF P!Reload
<1>2. CASE UNCHANGED P!vars
  <2>1. P!TypeOK'
    BY <1>2 DEF P!vars, ProbeInvariant, P!TypeOK
  <2>2. Reloading'
    BY <1>2 DEF P!vars, ProbeInvariant, Reloading, RunsAll, P!Running, P!Outdated
  <2>3. \A n \in Names : InOrder(n)' /\ Carried(n)'
    BY <1>2, WorkersRest DEF P!vars
  <2>4. ~ disorder'
    BY <1>2 DEF P!vars, ProbeInvariant
  <2> QED  BY <2>1, <2>2, <2>3, <2>4 DEF ProbeInvariant
<1> QED  BY <1>1, <1>2, EditKeeps, WorkKeeps DEF P!Next

\* The signals of a name go through slot, sender and central in the order of
\* their measurements, and the workers are those of the configuration unless
\* the one that reloads is at work (outbox.go, runner.go Apply, daemon.go).
THEOREM AgentKept == ASSUME ProbeSorts  PROVE P!Spec => []ProbeInvariant
BY ProbeStarts, ProbeSteps, PTL DEF P!Spec

\* The central never hears an older result after a newer one, the last result
\* is not the one that is lost, and between reloads there is a worker for each
\* job of the configuration and no other (outbox.go Post and deliver,
\* runner.go Apply).
AgentDelivers == P!NewestLast /\ P!LatestIsTried /\ P!WorkersAreJobs

THEOREM AgentIsSound == ASSUME ProbeSorts  PROVE P!Spec => []AgentDelivers
<1>1. ProbeInvariant => AgentDelivers
  <2> SUFFICES ASSUME ProbeInvariant  PROVE AgentDelivers
    OBVIOUS
  <2>1. P!NewestLast
    BY DEF ProbeInvariant, P!NewestLast
  <2>2. P!LatestIsTried
    BY DEF ProbeInvariant, P!LatestIsTried, Carried
  <2>3. ASSUME mu = None
        PROVE  /\ {n \in Names : P!Running(n)} = DOMAIN cfg
               /\ \A n \in DOMAIN cfg : worker[n].job = cfg[n] /\ ~ worker[n].cancelled
    <3>1. \A r \in Reloaders : reload[r].stage \notin {"load", "keep", "stop"}
      BY <2>3, ReloadFound DEF ProbeSorts
    <3>2. RunsAll(cfg) /\ \A n \in Names : ~ worker[n].cancelled
      BY <3>1, ReloadFound
    <3>3. DOMAIN cfg \subseteq Names
      BY DEF ProbeSorts, ProbeInvariant, P!TypeOK, P!NoJobs
    <3> QED  BY <3>2, <3>3 DEF RunsAll
  <2> QED  BY <2>1, <2>2, <2>3 DEF AgentDelivers, P!WorkersAreJobs
<1> QED  BY <1>1, AgentKept, PTL

-----------------------------------------------------------------------------
(***************************************************************************)
(* The statistics and what is removed.                                     *)
(***************************************************************************)
R == INSTANCE Rollup

\* Durations are numbers, and those of a bucket positive: of the retentions
\* nothing more is assumed, as Validate asks for no more of the raw one
\* (worker.go).
RollupSorts ==
    /\ {Hour, Day} \subseteq Nat \ {0}
    /\ {Raw, Hourly, Daily, MaxCycle, MaxTime} \subseteq Nat /\ None \notin Nat

\* A statistic, and the worker with its local variables.
Sums == [bucket: R!Times, monitor: Monitors, of: SUBSET R!Beat]
Cycles == [stage: R!Stages, res: R!Resolutions, limit: R!Times, bucket: Nat,
           processed: R!Times \cup {None}, batch: SUBSET Sums, cut: R!Times]

RollupShapes ==
    /\ now \in R!Times
    /\ waiting \subseteq R!Beat /\ heartbeat \subseteq R!Stored /\ taken \subseteq R!Beat
    /\ rollup \in [R!Resolutions -> SUBSET Sums]
    /\ watermark \in [R!Resolutions -> R!Times \cup {None}]
    /\ worker \in Cycles
    /\ summed \subseteq R!Beat \X R!Resolutions
    /\ uncounted \subseteq R!Stored \X R!Resolutions \X R!Times

\* No moment of the past is ahead of the clock, and a cycle is not too long.
ClockLeads ==
    /\ \A b \in waiting : b.ts <= now
    /\ \A s \in heartbeat : s.beat.ts <= s.came /\ s.came <= now
    /\ worker.stage # "idle" => worker.limit <= now /\ now <= worker.limit + MaxCycle
    /\ worker.cut <= now

Bucket(res, s) == R!Truncate(res, s.beat.ts)
Over(res, start) == R!Truncate(res, start) = start /\ start + R!Duration(res) <= now

\* A statistic is of heartbeats of its bucket and of its monitor, and there is
\* one for each bucket and monitor.
IsOf(res, rec) ==
    /\ Over(res, rec.bucket) /\ rec.of # {}
    /\ \A b \in rec.of : b.monitor = rec.monitor /\ R!Truncate(res, b.ts) = rec.bucket
Distinct(rows) == \A x, y \in rows : x.bucket = y.bucket /\ x.monitor = y.monitor => x = y
RowsSound ==
    \A res \in R!Resolutions : Distinct(rollup[res]) /\ \A rec \in rollup[res] : IsOf(res, rec)

\* A heartbeat of the table was summed up, and its statistic is there unless
\* its retention is over.
Summed(res, s) ==
    /\ <<s.beat, res>> \in summed
    /\ Bucket(res, s) + R!Retention(res) >= now => R!Counted(s.beat, res)

\* What came in time into the buckets before an instant was summed up.
SummedBefore(res, end) ==
    \A s \in heartbeat : R!OnTime(s, res) /\ Bucket(res, s) + R!Duration(res) <= end => Summed(res, s)

MarksHold ==
    \A res \in R!Resolutions : watermark[res] # None =>
        Over(res, watermark[res]) /\ SummedBefore(res, watermark[res] + R!Duration(res))

\* The buckets a cycle has done: those before the one it is at, and all that
\* were over when it began for the resolution it has left.
CycleHolds ==
    LET w == worker IN
    /\ w.stage \in {"collect", "write", "mark"} =>
         /\ R!Truncate(w.res, w.bucket) = w.bucket /\ w.bucket <= now
         /\ SummedBefore(w.res, w.bucket)
         /\ w.processed # None => w.bucket = w.processed + R!Duration(w.res)
                                  /\ R!Truncate(w.res, w.processed) = w.processed
    /\ w.stage = "resume" => w.processed = None
    /\ w.stage = "mark" => R!Limit(w.res, w.limit) <= w.bucket
    /\ w.stage \in {"resume", "collect", "write", "mark"} /\ w.res = "daily" =>
         SummedBefore("hourly", w.limit)
    /\ w.stage = "prune" => \A res \in R!Resolutions : SummedBefore(res, w.limit)

\* The statistics about to be written are all those of the bucket.
BatchHolds ==
    LET w == worker IN w.stage = "write" =>
      /\ w.bucket < R!Limit(w.res, w.limit)
      /\ Distinct(w.batch)
      /\ \A rec \in w.batch : IsOf(w.res, rec) /\ rec.bucket = w.bucket
      /\ \A s \in heartbeat : R!OnTime(s, w.res) /\ Bucket(w.res, s) = w.bucket =>
           \E rec \in w.batch : s.beat \in rec.of

RollupInvariant ==
    /\ RollupShapes /\ ClockLeads /\ RowsSound /\ MarksHold /\ CycleHolds /\ BatchHolds
    /\ R!PrunedOnlyCounted

-----------------------------------------------------------------------------
\* The arithmetic of buckets (domain/resolution.go Truncate).
LEMMA Multiple ==
    ASSUME NEW d \in Nat \ {0}, NEW x \in Nat
    PROVE  /\ x % d \in 0..(d - 1) /\ x % d <= x
           /\ x % d = 0 => \E k \in Nat : x = d * k
           /\ \A k \in Nat : x = d * k => x % d = 0
           /\ \E k \in Nat : x - (x % d) = d * k
<1>1. x % d \in 0..(d - 1) /\ x % d <= x
  OBVIOUS
<1>2. x = d * (x \div d) + (x % d) /\ x \div d \in Nat
  OBVIOUS
<1>3. \A k \in Nat : x = d * k => x % d = 0
  OBVIOUS
<1>4. x % d = 0 => x = d * (x \div d)
  BY <1>2
<1>5. x - (x % d) = d * (x \div d)
  BY <1>2
<1> QED  BY <1>1, <1>2, <1>3, <1>4, <1>5

\* Multiples of a number are a number apart.
LEMMA MultiplesApart ==
    ASSUME NEW d \in Nat \ {0}, NEW j \in Nat, NEW k \in Nat, d * k < d * j
    PROVE  d * k + d <= d * j
OBVIOUS

LEMMA Durations ==
    ASSUME RollupSorts, NEW res \in R!Resolutions
    PROVE  R!Duration(res) \in Nat \ {0} /\ R!Retention(res) \in Nat
BY DEF RollupSorts, R!Duration, R!Retention

LEMMA Truncated ==
    ASSUME RollupSorts, NEW res \in R!Resolutions, NEW t \in Nat
    PROVE  /\ R!Truncate(res, t) \in Nat /\ R!Truncate(res, t) <= t
           /\ t < R!Truncate(res, t) + R!Duration(res)
           /\ R!Truncate(res, R!Truncate(res, t)) = R!Truncate(res, t)
<1>1. PICK d \in Nat \ {0} : d = R!Duration(res)
  BY Durations
<1>2. R!Truncate(res, t) = t - (t % d)
  BY <1>1 DEF R!Truncate
<1>3. t % d \in 0..(d - 1) /\ t % d <= t
  BY Multiple
<1>4. PICK x \in Nat : x = t - (t % d) /\ x <= t /\ t < x + d
  BY <1>3
<1>5. x % d = 0
  BY <1>4, Multiple
<1>6. R!Truncate(res, x) = x - 0
  BY <1>1, <1>5 DEF R!Truncate
<1> QED  BY <1>1, <1>2, <1>4, <1>6

LEMMA NextBucket ==
    ASSUME RollupSorts, NEW res \in R!Resolutions, NEW x \in Nat, R!Truncate(res, x) = x
    PROVE  R!Truncate(res, x + R!Duration(res)) = x + R!Duration(res)
<1>1. PICK d \in Nat \ {0} : d = R!Duration(res)
  BY Durations
<1>2. x % d = 0
  <2>1. x - (x % d) = x /\ x % d \in 0..(d - 1)
    BY <1>1, Multiple DEF R!Truncate
  <2> QED  BY <2>1
<1>3. PICK k \in Nat : x = d * k
  BY <1>2, Multiple
<1>4. PICK y \in Nat, j \in Nat : y = x + d /\ j = k + 1
  OBVIOUS
<1>5. y = d * j
  BY <1>3, <1>4
<1>6. y % d = 0
  BY <1>5, Multiple
<1>7. R!Truncate(res, y) = y - 0
  BY <1>1, <1>6 DEF R!Truncate
<1> QED  BY <1>1, <1>4, <1>7

LEMMA BucketsApart ==
    ASSUME RollupSorts, NEW res \in R!Resolutions, NEW x \in Nat, NEW y \in Nat,
           R!Truncate(res, x) = x, R!Truncate(res, y) = y, x < y
    PROVE  x + R!Duration(res) <= y
<1>1. PICK d \in Nat \ {0} : d = R!Duration(res)
  BY Durations
<1>2. ASSUME NEW z \in Nat, R!Truncate(res, z) = z  PROVE z % d = 0
  <2>1. z - (z % d) = z /\ z % d \in 0..(d - 1)
    BY <1>1, <1>2, Multiple DEF R!Truncate
  <2> QED  BY <2>1
<1>3. PICK k \in Nat : x = d * k
  BY <1>2, Multiple
<1>4. PICK j \in Nat : y = d * j
  BY <1>2, Multiple
<1>5. d * k + d <= d * j
  BY <1>3, <1>4, MultiplesApart
<1> QED  BY <1>1, <1>3, <1>4, <1>5

LEMMA BucketOf ==
    ASSUME RollupSorts, NEW res \in R!Resolutions, NEW x \in Nat, NEW t \in Nat,
           R!Truncate(res, x) = x, x <= t, t < x + R!Duration(res)
    PROVE  R!Truncate(res, t) = x
<1>1. PICK d \in Nat \ {0} : d = R!Duration(res)
  BY Durations
<1>2. PICK y \in Nat : y = R!Truncate(res, t)
  BY Truncated
<1>3. y <= t /\ t < y + d /\ R!Truncate(res, y) = y
  BY <1>1, <1>2, Truncated
<1>4. ~ (x < y)
  BY <1>1, <1>3, BucketsApart
<1>5. ~ (y < x)
  BY <1>1, <1>3, BucketsApart
<1> QED  BY <1>2, <1>4, <1>5

LEMMA BucketsInOrder ==
    ASSUME RollupSorts, NEW res \in R!Resolutions, NEW t \in Nat, NEW u \in Nat, t <= u
    PROVE  R!Truncate(res, t) <= R!Truncate(res, u)
<1>1. PICK d \in Nat \ {0} : d = R!Duration(res)
  BY Durations
<1>2. PICK x \in Nat : x = R!Truncate(res, t)
  BY Truncated
<1>3. PICK y \in Nat : y = R!Truncate(res, u)
  BY Truncated
<1>4. x <= t /\ t < x + d /\ R!Truncate(res, x) = x /\ y <= u /\ u < y + d /\ R!Truncate(res, y) = y
  BY <1>1, <1>2, <1>3, Truncated
<1>5. ~ (y < x)
  BY <1>1, <1>4, BucketsApart
<1> QED  BY <1>2, <1>3, <1>5

\* A set of numbers with something in it has a least one.
LEMMA LeastOf ==
    ASSUME NEW S \in SUBSET Nat, S # {}
    PROVE  R!Min(S) \in S /\ \A k \in S : R!Min(S) <= k
<1> DEFINE L == OpToRel(<, Nat)
<1>1. IsWellFoundedOn(L, Nat)
  BY NatLessThanWellFounded
<1>2. L = {ss \in Nat \X Nat : ss[1] < ss[2]}
  BY Zenon DEF OpToRel
<1> HIDE DEF L
<1>3. PICK n \in S : \A k \in S : ~ (<<k, n>> \in L)
  BY <1>1, WFMin
<1>4. \A k \in S : ~ (k < n)
  BY <1>2, <1>3
<1>5. \A k \in S : n <= k
  BY <1>4
<1> QED  BY <1>5 DEF R!Min

-----------------------------------------------------------------------------
LEMMA Stamps ==
    ASSUME RollupSorts, RollupShapes, NEW s \in heartbeat
    PROVE  /\ s \in R!Stored /\ s.beat \in R!Beat /\ s.beat.ts \in Nat /\ s.came \in Nat
           /\ s.beat.monitor \in Monitors
<1>1. s \in R!Stored
  BY DEF RollupShapes
<1>2. s.beat \in R!Beat /\ s.came \in 0..MaxTime
  BY <1>1 DEF R!Stored, R!Times
<1>3. s.beat.ts \in 0..MaxTime /\ s.beat.monitor \in Monitors
  BY <1>2 DEF R!Beat, R!Times
<1> QED  BY <1>1, <1>2, <1>3

LEMMA BucketSorts ==
    ASSUME RollupSorts, RollupShapes, NEW s \in heartbeat, NEW res \in R!Resolutions
    PROVE  /\ Bucket(res, s) \in Nat /\ Bucket(res, s) <= s.beat.ts
           /\ s.beat.ts < Bucket(res, s) + R!Duration(res)
           /\ R!Truncate(res, Bucket(res, s)) = Bucket(res, s)
BY Stamps, Truncated DEF Bucket

\* A step keeps what it was before an instant that is past, when it leaves the
\* statistics that are to be kept and every row that it adds comes in now.
LEMMA StillSummed ==
    ASSUME RollupSorts, RollupShapes, RollupShapes', now <= now', summed \subseteq summed',
           NEW res \in R!Resolutions, NEW end \in Nat, end <= now, SummedBefore(res, end),
           \A s \in heartbeat' : s \in heartbeat \/ s.came = now,
           \A s \in heartbeat : /\ R!OnTime(s, res) /\ Bucket(res, s) + R!Retention(res) >= now'
                                /\ R!Counted(s.beat, res)
                                => R!Counted(s.beat, res)'
    PROVE  SummedBefore(res, end)'
<1> SUFFICES ASSUME NEW s \in heartbeat', R!OnTime(s, res), Bucket(res, s) + R!Duration(res) <= end
             PROVE  Summed(res, s)'
  BY DEF SummedBefore, Bucket, R!OnTime, R!Truncate, R!Duration
<1>1. now \in Nat /\ now' \in Nat
  BY DEF RollupShapes, RollupSorts, R!Times
<1>2. R!Duration(res) \in Nat /\ R!Retention(res) \in Nat
  BY Durations
<1>3. s \in heartbeat
  <2>1. SUFFICES ASSUME s.came = now  PROVE FALSE
    OBVIOUS
  <2>2. s.came < Bucket(res, s) + R!Duration(res)
    BY DEF R!OnTime, Bucket
  <2>3. s.beat.ts \in Nat
    BY DEF RollupShapes, R!Stored, R!Beat, R!Times, RollupSorts
  <2>4. Bucket(res, s) \in Nat
    BY <2>3, Truncated DEF Bucket
  <2> QED  BY <1>1, <1>2, <2>1, <2>2, <2>4
<1>4. Summed(res, s) /\ Bucket(res, s) \in Nat
  BY <1>3, BucketSorts DEF SummedBefore
<1>5. <<s.beat, res>> \in summed'
  BY <1>4 DEF Summed
<1>6. ASSUME Bucket(res, s) + R!Retention(res) >= now'  PROVE R!Counted(s.beat, res)'
  <2>1. Bucket(res, s) + R!Retention(res) >= now
    BY <1>1, <1>2, <1>4, <1>6
  <2> QED  BY <1>3, <1>4, <1>6, <2>1 DEF Summed
<1> QED  BY <1>5, <1>6 DEF Summed, Bucket, R!Truncate, R!Retention, R!Duration

\* The numbers of the worker.
LEMMA CycleSorts ==
    ASSUME RollupSorts, RollupShapes
    PROVE  /\ now \in Nat /\ worker.limit \in Nat /\ worker.bucket \in Nat /\ worker.cut \in Nat
           /\ MaxTime \in Nat /\ MaxCycle \in Nat /\ now <= MaxTime
           /\ worker.res \in R!Resolutions /\ worker.stage \in R!Stages
           /\ worker.processed \in Nat \cup {None}
           /\ \A res \in R!Resolutions : watermark[res] \in Nat \cup {None}
           /\ R!Limit(worker.res, worker.limit) \in Nat
           /\ R!Limit(worker.res, worker.limit) <= worker.limit
<1>1. R!Times \subseteq Nat /\ now \in R!Times /\ MaxTime \in Nat /\ MaxCycle \in Nat
  BY DEF RollupSorts, RollupShapes, R!Times
<1>2. /\ worker.limit \in R!Times /\ worker.bucket \in Nat /\ worker.cut \in R!Times
      /\ worker.res \in R!Resolutions /\ worker.stage \in R!Stages
      /\ worker.processed \in R!Times \cup {None}
  BY DEF RollupShapes, Cycles
<1>3. \A res \in R!Resolutions : watermark[res] \in R!Times \cup {None}
  BY DEF RollupShapes
<1>4. now <= MaxTime
  BY DEF RollupSorts, RollupShapes, R!Times
<1>5. /\ R!Truncate(worker.res, worker.limit) \in Nat
      /\ R!Truncate(worker.res, worker.limit) <= worker.limit
  BY <1>1, <1>2, Truncated
<1> QED  BY <1>1, <1>2, <1>3, <1>4, <1>5 DEF R!Limit

\* Which instants the invariant speaks of are past.
LEMMA InstantsPast ==
    ASSUME RollupSorts, RollupShapes, ClockLeads, MarksHold, CycleHolds
    PROVE  /\ \A res \in R!Resolutions : watermark[res] # None =>
                 watermark[res] + R!Duration(res) \in Nat /\ watermark[res] + R!Duration(res) <= now
           /\ worker.stage \in {"collect", "write", "mark"} => worker.bucket <= now
           /\ worker.stage # "idle" => worker.limit <= now
<1>1. \A res \in R!Resolutions : R!Duration(res) \in Nat
  BY Durations
<1>2. \A res \in R!Resolutions : watermark[res] # None => watermark[res] \in Nat
  BY CycleSorts
<1>3. \A res \in R!Resolutions : watermark[res] # None => watermark[res] + R!Duration(res) \in Nat
  BY <1>1, <1>2
<1>4. \A res \in R!Resolutions : watermark[res] # None => watermark[res] + R!Duration(res) <= now
  BY DEF MarksHold, Over
<1> QED  BY <1>3, <1>4 DEF CycleHolds, ClockLeads

\* Before the end of its bucket nothing more is collected from a bucket that
\* the cycle takes.
LEMMA TakenIsOver ==
    ASSUME RollupSorts, RollupShapes, ClockLeads, CycleHolds, worker.stage \in {"collect", "write"},
           worker.bucket < R!Limit(worker.res, worker.limit)
    PROVE  /\ worker.bucket + R!Duration(worker.res) <= worker.limit
           /\ worker.bucket + R!Duration(worker.res) <= now
<1>1. PICK l \in Nat : l = R!Limit(worker.res, worker.limit) /\ l <= worker.limit
  BY CycleSorts
<1>2. R!Truncate(worker.res, l) = l
  BY <1>1, CycleSorts, Truncated DEF R!Limit
<1>3. R!Truncate(worker.res, worker.bucket) = worker.bucket
  BY DEF CycleHolds
<1>4. worker.bucket + R!Duration(worker.res) <= l
  BY <1>1, <1>2, <1>3, CycleSorts, BucketsApart
<1>5. worker.limit <= now
  BY DEF ClockLeads
<1>6. R!Duration(worker.res) \in Nat
  BY CycleSorts, Durations
<1> QED  BY <1>1, <1>4, <1>5, <1>6, CycleSorts

-----------------------------------------------------------------------------
\* What the worker does not do: the clock, the checks and the batch writer
\* leave what it has found.
LEMMA CycleWaits ==
    ASSUME RollupSorts, RollupInvariant, RollupShapes', now <= now',
           UNCHANGED <<rollup, watermark, worker, summed, uncounted>>,
           \A s \in heartbeat' : s \in heartbeat \/ s.came = now
    PROVE  RowsSound' /\ MarksHold' /\ CycleHolds' /\ BatchHolds' /\ R!PrunedOnlyCounted'
<1> USE DEF RollupInvariant
<1>1. now \in Nat /\ now' \in Nat
  BY DEF RollupShapes, RollupSorts, R!Times
<1>2. \A res \in R!Resolutions, x \in Nat : Over(res, x) => Over(res, x)'
  <2> TAKE res \in R!Resolutions, x \in Nat
  <2>1. R!Duration(res) \in Nat
    BY Durations
  <2> QED  BY <1>1, <2>1 DEF Over, R!Truncate, R!Duration
<1>3. \A res \in R!Resolutions, rec \in Sums : IsOf(res, rec) => IsOf(res, rec)'
  <2> TAKE res \in R!Resolutions, rec \in Sums
  <2>1. rec.bucket \in Nat
    BY DEF Sums, R!Times, RollupSorts
  <2> QED  BY <1>2, <2>1 DEF IsOf, R!Truncate, R!Duration
<1>4. RowsSound'
  <2> SUFFICES ASSUME NEW res \in R!Resolutions
               PROVE  Distinct(rollup[res])' /\ \A rec \in rollup'[res] : IsOf(res, rec)'
    BY DEF RowsSound, R!Resolutions
  <2>1. rollup'[res] = rollup[res] /\ rollup[res] \subseteq Sums
    BY DEF RollupShapes
  <2> QED  BY <1>3, <2>1 DEF RowsSound, Distinct
<1>5. \A res \in R!Resolutions, e \in Nat : e <= now /\ SummedBefore(res, e) => SummedBefore(res, e)'
  <2> SUFFICES ASSUME NEW res \in R!Resolutions, NEW e \in Nat, e <= now, SummedBefore(res, e)
               PROVE  SummedBefore(res, e)'
    OBVIOUS
  <2>1. \A b : R!Counted(b, res) => R!Counted(b, res)'
    BY DEF R!Counted
  <2> QED  BY <2>1, StillSummed
<1>6. MarksHold'
  <2> SUFFICES ASSUME NEW res \in R!Resolutions, watermark'[res] # None
               PROVE  Over(res, watermark[res])' /\ SummedBefore(res, watermark[res] + R!Duration(res))'
    BY DEF MarksHold, R!Resolutions
  <2>1. PICK x \in Nat : x = watermark[res] /\ x = watermark'[res]
    BY CycleSorts
  <2>2. PICK e \in Nat : e = x + R!Duration(res) /\ e <= now
    BY <2>1, InstantsPast
  <2>3. Over(res, x) /\ SummedBefore(res, e)
    BY <2>1, <2>2 DEF MarksHold
  <2>4. Over(res, x)' /\ SummedBefore(res, e)'
    BY <1>2, <1>5, <2>2, <2>3
  <2> QED  BY <2>1, <2>2, <2>4 DEF R!Duration
<1>7. CycleHolds'
  <2>1. PICK w \in Cycles : w = worker /\ w = worker'
    BY DEF RollupShapes
  <2>2. w.bucket \in Nat /\ w.limit \in Nat /\ w.res \in R!Resolutions
    BY <2>1, CycleSorts
  <2>3. w.stage \in {"collect", "write", "mark"} => SummedBefore(w.res, w.bucket)' /\ w.bucket <= now'
    BY <1>1, <1>5, <2>1, <2>2, InstantsPast DEF CycleHolds
  <2>4. "hourly" \in R!Resolutions
    BY DEF R!Resolutions
  <2>5. w.stage \in {"resume", "collect", "write", "mark"} /\ w.res = "daily" => SummedBefore("hourly", w.limit)'
    BY <1>5, <2>1, <2>2, <2>4, InstantsPast DEF CycleHolds
  <2>6. w.stage = "prune" => \A res \in R!Resolutions : SummedBefore(res, w.limit)'
    BY <1>5, <2>1, <2>2, InstantsPast DEF CycleHolds
  <2> QED  BY <2>1, <2>3, <2>5, <2>6 DEF CycleHolds, R!Truncate, R!Duration, R!Limit, R!Resolutions
<1>8. BatchHolds'
  <2> SUFFICES ASSUME worker'.stage = "write"
               PROVE  /\ worker'.bucket < R!Limit(worker.res, worker.limit)'
                      /\ Distinct(worker.batch)'
                      /\ \A rec \in worker'.batch : IsOf(worker.res, rec)' /\ rec.bucket = worker'.bucket
                      /\ \A s \in heartbeat' :
                           R!OnTime(s, worker.res)' /\ Bucket(worker.res, s)' = worker'.bucket =>
                             \E rec \in worker'.batch : s.beat \in rec.of
    BY DEF BatchHolds
  <2>1. PICK w \in Cycles : w = worker /\ w = worker'
    BY DEF RollupShapes
  <2>2. w.res \in R!Resolutions /\ w.batch \subseteq Sums
    BY <2>1 DEF Cycles
  <2>3. \A rec \in w.batch : IsOf(w.res, rec)' /\ rec.bucket = w.bucket
    BY <1>3, <2>1, <2>2 DEF BatchHolds
  <2>4. ASSUME NEW s \in heartbeat', R!OnTime(s, w.res), Bucket(w.res, s) = w.bucket
        PROVE  \E rec \in w.batch : s.beat \in rec.of
    <3>1. s.came # now
      <4>1. w.bucket + R!Duration(w.res) <= now
        BY <2>1, TakenIsOver DEF BatchHolds
      <4>2. s.came < w.bucket + R!Duration(w.res)
        BY <2>4 DEF R!OnTime, Bucket
      <4>3. w.bucket \in Nat /\ R!Duration(w.res) \in Nat
        BY <2>1, <2>2, CycleSorts, Durations
      <4> QED  BY <1>1, <4>1, <4>2, <4>3
    <3> QED  BY <2>1, <2>4, <3>1 DEF BatchHolds
  <2> QED  BY <2>1, <2>3, <2>4 DEF BatchHolds, Distinct, R!Limit, R!Truncate, R!Duration, R!OnTime, Bucket
<1> QED  BY <1>4, <1>6, <1>7, <1>8 DEF R!PrunedOnlyCounted, R!OnTime, R!Truncate, R!Duration

-----------------------------------------------------------------------------
LEMMA TickKeeps ==
    ASSUME RollupSorts, RollupInvariant, R!Tick
    PROVE  RollupInvariant'
<1> USE DEF RollupInvariant
<1>1. RollupShapes' /\ now <= now'
  BY DEF R!Tick, RollupShapes, RollupSorts, R!Times, R!Beat, R!Stored, Cycles, Sums, R!Resolutions,
         R!Stages
<1>2. ClockLeads'
  <2>1. now \in Nat /\ now' = now + 1 /\ worker' = worker /\ heartbeat' = heartbeat /\ waiting' = waiting
    BY CycleSorts DEF R!Tick
  <2>2. \A b \in waiting : b.ts \in Nat
    BY DEF RollupShapes, R!Beat, R!Times, RollupSorts
  <2>3. \A b \in waiting : b.ts <= now + 1
    BY <2>1, <2>2 DEF ClockLeads
  <2>4. \A s \in heartbeat : s.beat.ts <= s.came /\ s.came <= now + 1
    <3> TAKE s \in heartbeat
    <3>1. s.came \in Nat /\ s.beat.ts <= s.came /\ s.came <= now
      BY Stamps DEF ClockLeads
    <3> QED  BY <2>1, <3>1
  <2>5. worker.stage # "idle" => worker.limit <= now + 1 /\ now + 1 <= worker.limit + MaxCycle
    BY <2>1, CycleSorts DEF ClockLeads, R!Tick
  <2>6. worker.cut <= now + 1
    BY <2>1, CycleSorts DEF ClockLeads
  <2> QED  BY <2>1, <2>3, <2>4, <2>5, <2>6 DEF ClockLeads
<1> QED  BY <1>1, <1>2, CycleWaits DEF R!Tick

LEMMA MeasurementKeeps ==
    ASSUME RollupSorts, RollupInvariant, NEW m \in Monitors, R!Measure(m)
    PROVE  RollupInvariant'
<1> USE DEF RollupInvariant
<1>1. RollupShapes' /\ now <= now'
  <2>1. [monitor |-> m, ts |-> now] \in R!Beat
    BY DEF R!Beat, RollupShapes
  <2> QED  BY <2>1, CycleSorts DEF R!Measure, RollupShapes
<1>2. ClockLeads'
  BY CycleSorts DEF R!Measure, ClockLeads
<1> QED  BY <1>1, <1>2, CycleWaits DEF R!Measure

LEMMA WriteKeeps ==
    ASSUME RollupSorts, RollupInvariant, R!WriteHeartbeats
    PROVE  RollupInvariant'
<1> USE DEF RollupInvariant
<1>1. RollupShapes' /\ now <= now'
  <2>1. heartbeat' \subseteq R!Stored
    BY DEF R!Stored, RollupShapes, R!WriteHeartbeats
  <2> QED  BY <2>1, CycleSorts DEF R!WriteHeartbeats, RollupShapes
<1>2. ClockLeads'
  <2>1. \A s \in heartbeat' : s.beat.ts <= s.came /\ s.came <= now
    BY CycleSorts DEF R!WriteHeartbeats, ClockLeads
  <2> QED  BY <2>1 DEF R!WriteHeartbeats, ClockLeads
<1> QED  BY <1>1, <1>2, CycleWaits DEF R!WriteHeartbeats

-----------------------------------------------------------------------------
\* A step of the worker that writes nothing leaves all that is in the tables.
LEMMA TablesStay ==
    ASSUME RollupInvariant, UNCHANGED <<now, heartbeat, rollup, watermark, summed, uncounted>>
    PROVE  /\ RowsSound' /\ MarksHold' /\ R!PrunedOnlyCounted'
           /\ \A res, e : SummedBefore(res, e)' <=> SummedBefore(res, e)
<1>1. RowsSound'
  BY DEF RollupInvariant, RowsSound, Distinct, IsOf, Over, R!Truncate, R!Duration, R!Resolutions
<1>2. \A res, e : SummedBefore(res, e)' <=> SummedBefore(res, e)
  BY DEF SummedBefore, Summed, Bucket, R!OnTime, R!Truncate, R!Duration, R!Retention, R!Counted
<1>3. MarksHold'
  <2> SUFFICES ASSUME NEW res \in R!Resolutions, watermark'[res] # None
               PROVE  Over(res, watermark[res])' /\ SummedBefore(res, watermark[res] + R!Duration(res))'
    BY DEF MarksHold, R!Resolutions
  <2>1. Over(res, watermark[res]) /\ SummedBefore(res, watermark[res] + R!Duration(res))
    BY DEF MarksHold, RollupInvariant
  <2>2. Over(res, watermark[res])'
    BY <2>1 DEF Over, R!Truncate, R!Duration
  <2>3. SummedBefore(res, watermark[res] + R!Duration(res))'
    BY <2>1 DEF SummedBefore, Summed, Bucket, R!OnTime, R!Truncate, R!Duration, R!Retention, R!Counted
  <2> QED  BY <2>2, <2>3
<1>4. R!PrunedOnlyCounted'
  BY DEF RollupInvariant, R!PrunedOnlyCounted, R!OnTime, R!Truncate, R!Duration
<1> QED  BY <1>1, <1>2, <1>3, <1>4

\* At a stage that has neither a bucket nor a resolution there is nothing to
\* hold of the cycle.
LEMMA CycleAside ==
    ASSUME worker'.stage \in {"idle", "pruneHourly", "pruneDaily"}
    PROVE  CycleHolds' /\ BatchHolds'
BY DEF CycleHolds, BatchHolds

LEMMA RunOnceKeeps ==
    ASSUME RollupSorts, RollupInvariant, R!RunOnce
    PROVE  RollupInvariant'
<1>1. /\ worker'.stage = (IF Monitors = {} THEN "prune" ELSE "resume")
      /\ worker'.limit = now /\ worker'.cut = 0 /\ worker'.processed = None /\ worker'.res = "hourly"
      /\ UNCHANGED <<now, waiting, taken, heartbeat, rollup, watermark, summed, uncounted>>
  BY DEF R!RunOnce, R!AtRest, R!Keeps
<1>2. RollupShapes'
  <2>1. worker' \in Cycles
    <3>1. now \in R!Times /\ 0 \in R!Times
      BY DEF RollupInvariant, RollupShapes, RollupSorts, R!Times
    <3> QED  BY <3>1 DEF R!RunOnce, R!AtRest, Cycles, R!Stages, R!Resolutions
  <2> QED  BY <1>1, <2>1 DEF RollupInvariant, RollupShapes
<1>3. ClockLeads'
  BY <1>1, CycleSorts DEF RollupInvariant, ClockLeads
<1>4. CycleHolds'
  <2>1. worker'.stage = "prune" => heartbeat' = {}
    <3>1. Monitors = {} => R!Stored = {}
      BY DEF R!Stored, R!Beat
    <3> QED  BY <1>1, <3>1 DEF RollupInvariant, RollupShapes
  <2> QED  BY <1>1, <2>1 DEF CycleHolds, SummedBefore
<1>5. BatchHolds'
  BY <1>1 DEF BatchHolds
<1> QED  BY <1>1, <1>2, <1>3, <1>4, <1>5, TablesStay DEF RollupInvariant

\* The resolution that comes next, when all that is over is summed up for this
\* one.
LEMMA NextResolutionHolds ==
    ASSUME RollupSorts, RollupInvariant, NEW w \in Cycles, w = worker, w.stage # "idle",
           w.res = "daily" => SummedBefore("hourly", w.limit)',
           SummedBefore(w.res, w.limit)',
           worker' = R!NextResolution(w),
           UNCHANGED <<now, waiting, heartbeat>>
    PROVE  worker' \in Cycles /\ ClockLeads' /\ CycleHolds' /\ BatchHolds'
<1>1. /\ worker' \in Cycles /\ worker'.limit = w.limit /\ worker'.cut = w.cut
      /\ worker'.processed = None /\ worker'.stage \in {"resume", "prune"}
      /\ worker'.stage = "resume" => w.res = "hourly"
      /\ worker'.stage = "prune" => w.res = "daily"
  BY DEF R!NextResolution, Cycles, R!Stages, R!Resolutions
<1>2. ClockLeads'
  BY <1>1 DEF RollupInvariant, ClockLeads
<1>3. CycleHolds'
  BY <1>1 DEF CycleHolds, R!Resolutions
<1>4. BatchHolds'
  BY <1>1 DEF BatchHolds
<1> QED  BY <1>1, <1>2, <1>3, <1>4

\* Where a cycle goes on is the start of a bucket that is not ahead, and what
\* is before it was summed up.
LEMMA StartIsNext ==
    ASSUME RollupSorts, RollupInvariant, NEW res \in R!Resolutions,
           watermark[res] # None \/ heartbeat # {}
    PROVE  LET start == R!StartBucket(res) IN
           /\ start \in Nat /\ start <= now /\ R!Truncate(res, start) = start
           /\ SummedBefore(res, start)
<1> USE DEF RollupInvariant
<1>1. CASE watermark[res] # None
  <2>1. PICK x \in Nat : x = watermark[res]
    BY <1>1, CycleSorts
  <2>2. R!Truncate(res, x) = x /\ x + R!Duration(res) <= now /\ SummedBefore(res, x + R!Duration(res))
    BY <1>1, <2>1 DEF MarksHold, Over
  <2>3. R!Truncate(res, x + R!Duration(res)) = x + R!Duration(res)
    BY <2>2, NextBucket
  <2>4. R!StartBucket(res) = x + R!Duration(res)
    BY <1>1, <2>1, <2>2 DEF R!StartBucket
  <2>5. x + R!Duration(res) \in Nat
    BY Durations
  <2> QED  BY <2>2, <2>3, <2>4, <2>5
<1>2. CASE watermark[res] = None
  <2> DEFINE Ts == {s.beat.ts : s \in heartbeat}
  <2>1. Ts \in SUBSET Nat /\ Ts # {}
    BY <1>2, Stamps
  <2>2. R!Min(Ts) \in Ts /\ \A k \in Ts : R!Min(Ts) <= k
    BY <2>1, LeastOf
  <2>3. PICK t \in Nat : t = R!Min(Ts)
    BY <2>1, <2>2
  <2>4. PICK least \in heartbeat : least.beat.ts = t
    BY <2>2, <2>3
  <2>5. R!StartBucket(res) = R!Truncate(res, t)
    BY <1>2, <2>3 DEF R!StartBucket
  <2>6. PICK x \in Nat : x = R!Truncate(res, t) /\ x <= t /\ R!Truncate(res, x) = x
    BY Truncated
  <2>7. x <= now
    <3>1. least.beat.ts <= least.came /\ least.came <= now /\ least.came \in Nat
      BY Stamps DEF ClockLeads
    <3> QED  BY <2>4, <2>6, <3>1, CycleSorts
  <2>8. SummedBefore(res, x)
    <3> SUFFICES ASSUME NEW s \in heartbeat, Bucket(res, s) + R!Duration(res) <= x
                 PROVE  FALSE
      BY DEF SummedBefore
    <3>1. s.beat.ts \in Nat /\ t <= s.beat.ts
      BY <2>2, <2>3, Stamps
    <3>2. x <= Bucket(res, s) /\ Bucket(res, s) \in Nat
      BY <2>6, <3>1, BucketsInOrder, BucketSorts DEF Bucket
    <3>3. R!Duration(res) \in Nat \ {0}
      BY Durations
    <3> QED  BY <3>2, <3>3
  <2> QED  BY <2>5, <2>6, <2>7, <2>8
<1> QED  BY <1>1, <1>2

LEMMA ResumeKeeps ==
    ASSUME RollupSorts, RollupInvariant, R!Resume
    PROVE  RollupInvariant'
<1>1. PICK w \in Cycles : w = worker
  BY DEF RollupInvariant, RollupShapes
<1>2. /\ w.stage = "resume" /\ w.res \in R!Resolutions
      /\ UNCHANGED <<now, waiting, taken, heartbeat, rollup, watermark, summed, uncounted>>
  BY <1>1 DEF R!Resume, R!Keeps, Cycles
<1>3. CASE watermark[w.res] = None /\ heartbeat = {}
  <2>1. worker' = R!NextResolution(w)
    BY <1>1, <1>3 DEF R!Resume
  <2>2. \A res, e : SummedBefore(res, e)'
    BY <1>2, <1>3 DEF SummedBefore
  <2>3. worker' \in Cycles /\ ClockLeads' /\ CycleHolds' /\ BatchHolds'
    BY <1>1, <1>2, <2>1, <2>2, NextResolutionHolds
  <2>4. RollupShapes'
    BY <1>2, <2>3 DEF RollupInvariant, RollupShapes
  <2> QED  BY <1>2, <2>3, <2>4, TablesStay DEF RollupInvariant
<1>4. CASE ~ (watermark[w.res] = None /\ heartbeat = {})
  <2>1. PICK start \in Nat : /\ start = R!StartBucket(w.res)
                             /\ start <= now /\ R!Truncate(w.res, start) = start
                             /\ SummedBefore(w.res, start)
    BY <1>2, <1>4, StartIsNext
  <2>2. worker' = [w EXCEPT !.stage = "collect", !.bucket = start]
    BY <1>1, <1>4, <2>1 DEF R!Resume
  <2>3. PICK v \in Cycles : v = worker' /\ v = [w EXCEPT !.stage = "collect", !.bucket = start]
    BY <2>2 DEF Cycles, R!Stages
  <2>4. /\ v.stage = "collect" /\ v.bucket = start /\ v.res = w.res /\ v.limit = w.limit
        /\ v.cut = w.cut /\ v.processed = w.processed
    BY <2>3 DEF Cycles
  <2>5. RollupShapes'
    BY <1>2, <2>3 DEF RollupInvariant, RollupShapes
  <2>6. ClockLeads'
    BY <1>1, <1>2, <2>3, <2>4 DEF RollupInvariant, ClockLeads
  <2>7. \A res, e : SummedBefore(res, e)' <=> SummedBefore(res, e)
    BY <1>2, TablesStay
  <2>8. CycleHolds'
    <3>1. w.processed = None /\ (w.res = "daily" => SummedBefore("hourly", w.limit))
      BY <1>1, <1>2 DEF RollupInvariant, CycleHolds
    <3>2. /\ (v.res = "daily" => SummedBefore("hourly", v.limit)') /\ SummedBefore(v.res, v.bucket)'
      BY <2>1, <2>4, <2>7, <3>1
    <3>3. R!Truncate(v.res, v.bucket)' = v.bucket /\ v.bucket <= now'
      BY <1>2, <2>1, <2>4 DEF R!Truncate, R!Duration
    <3>4. v.processed = None
      BY <2>4, <3>1
    <3> QED  BY <2>3, <2>4, <3>2, <3>3, <3>4 DEF CycleHolds, R!Truncate, R!Duration
  <2>9. BatchHolds'
    BY <2>3, <2>4 DEF BatchHolds
  <2> QED  BY <1>2, <2>5, <2>6, <2>8, <2>9, TablesStay DEF RollupInvariant
<1> QED  BY <1>3, <1>4

-----------------------------------------------------------------------------
\* What the worker reads of a bucket makes sound statistics of all of it.
Statistics(res, start) ==
    LET Of(m) == {s.beat : s \in {x \in R!Window(res, start) : x.beat.monitor = m}}
    IN  {[bucket |-> start, monitor |-> m, of |-> Of(m)] : m \in {x \in Monitors : Of(x) # {}}}

LEMMA Batched ==
    ASSUME RollupSorts, RollupInvariant, NEW res \in R!Resolutions, NEW start \in Nat, NEW batch,
           R!Truncate(res, start) = start, start + R!Duration(res) <= now,
           batch = Statistics(res, start)
    PROVE  /\ batch \subseteq Sums /\ Distinct(batch)
           /\ \A rec \in batch : IsOf(res, rec) /\ rec.bucket = start
           /\ \A s \in heartbeat : Bucket(res, s) = start => \E rec \in batch : s.beat \in rec.of
<1> USE DEF RollupInvariant
<1> DEFINE Of(m) == {s.beat : s \in {x \in R!Window(res, start) : x.beat.monitor = m}}
<1>1. /\ \A rec \in batch : \E m \in Monitors : /\ Of(m) # {}
                                                 /\ rec = [bucket |-> start, monitor |-> m, of |-> Of(m)]
      /\ \A m \in Monitors : Of(m) # {} => [bucket |-> start, monitor |-> m, of |-> Of(m)] \in batch
  BY DEF Statistics
<1>2. \A m : \A b \in Of(m) : b \in R!Beat /\ b.monitor = m /\ R!Truncate(res, b.ts) = start
  <2> TAKE m
  <2> TAKE b \in Of(m)
  <2>1. PICK s \in heartbeat : s.beat = b /\ s.beat.monitor = m /\ b.ts >= start /\ b.ts < start + R!Duration(res)
    BY DEF R!Window
  <2>2. s.beat \in R!Beat /\ s.beat.ts \in Nat
    BY Stamps
  <2>3. R!Truncate(res, s.beat.ts) = start
    BY <2>1, <2>2, BucketOf
  <2> QED  BY <2>1, <2>2, <2>3
<1>3. \A s \in heartbeat : Bucket(res, s) = start => s.beat \in Of(s.beat.monitor)
  <2> SUFFICES ASSUME NEW s \in heartbeat, Bucket(res, s) = start
               PROVE  s \in R!Window(res, start)
    OBVIOUS
  <2> QED  BY BucketSorts, Stamps DEF R!Window
<1>4. start \in R!Times
  <2>1. R!Duration(res) \in Nat
    BY Durations
  <2> QED  BY <2>1, CycleSorts DEF R!Times
<1> HIDE DEF Of
<1>5. batch \subseteq Sums
  <2> SUFFICES ASSUME NEW rec \in batch  PROVE rec \in Sums
    OBVIOUS
  <2>1. PICK m \in Monitors : rec = [bucket |-> start, monitor |-> m, of |-> Of(m)]
    BY <1>1
  <2>2. Of(m) \subseteq R!Beat
    BY <1>2
  <2> QED  BY <1>4, <2>1, <2>2 DEF Sums
<1>6. Distinct(batch)
  <2>1. \A x \in batch : x = [bucket |-> start, monitor |-> x.monitor, of |-> Of(x.monitor)]
    <3> TAKE x \in batch
    <3>1. PICK m \in Monitors : x = [bucket |-> start, monitor |-> m, of |-> Of(m)]
      BY <1>1
    <3> QED  BY <3>1
  <2> SUFFICES ASSUME NEW x \in batch, NEW y \in batch, x.monitor = y.monitor  PROVE x = y
    BY DEF Distinct
  <2> QED  BY <2>1, Zenon
<1>7. \A rec \in batch : IsOf(res, rec) /\ rec.bucket = start
  <2> TAKE rec \in batch
  <2>1. PICK m \in Monitors : Of(m) # {} /\ rec = [bucket |-> start, monitor |-> m, of |-> Of(m)]
    BY <1>1
  <2>2. rec.bucket = start /\ rec.monitor = m /\ rec.of = Of(m)
    BY <2>1
  <2> QED  BY <1>2, <2>1, <2>2 DEF IsOf, Over
<1>8. \A s \in heartbeat : Bucket(res, s) = start => \E rec \in batch : s.beat \in rec.of
  <2> SUFFICES ASSUME NEW s \in heartbeat, Bucket(res, s) = start
               PROVE  \E rec \in batch : s.beat \in rec.of
    OBVIOUS
  <2>1. PICK m \in Monitors : m = s.beat.monitor /\ s.beat \in Of(m)
    BY <1>3, Stamps
  <2>2. [bucket |-> start, monitor |-> m, of |-> Of(m)] \in batch
    BY <1>1, <2>1
  <2> QED  BY <2>1, <2>2
<1> QED  BY <1>5, <1>6, <1>7, <1>8

LEMMA CollectKeeps ==
    ASSUME RollupSorts, RollupInvariant, R!Collect
    PROVE  RollupInvariant'
<1>1. PICK w \in Cycles : w = worker
  BY DEF RollupInvariant, RollupShapes
<1>2. /\ w.stage = "collect" /\ w.res \in R!Resolutions /\ w.bucket \in Nat
      /\ UNCHANGED <<now, waiting, taken, heartbeat, rollup, watermark, summed, uncounted>>
  BY <1>1 DEF R!Collect, R!Keeps, Cycles
<1>3. \A res, e : SummedBefore(res, e)' <=> SummedBefore(res, e)
  BY <1>2, TablesStay
<1>4. /\ R!Truncate(w.res, w.bucket) = w.bucket /\ w.bucket <= now /\ SummedBefore(w.res, w.bucket)
      /\ w.processed # None => w.bucket = w.processed + R!Duration(w.res)
                               /\ R!Truncate(w.res, w.processed) = w.processed
      /\ w.res = "daily" => SummedBefore("hourly", w.limit)
  BY <1>1, <1>2 DEF RollupInvariant, CycleHolds
<1>5. ASSUME NEW v \in Cycles, v = worker', v.res = w.res, v.limit = w.limit, v.bucket = w.bucket,
             v.processed = w.processed, v.cut = w.cut, v.stage \in {"mark", "write"},
             v.stage = "mark" => R!Limit(w.res, w.limit) <= w.bucket
      PROVE  RollupShapes' /\ ClockLeads' /\ CycleHolds'
  <2>1. RollupShapes'
    BY <1>2, <1>5 DEF RollupInvariant, RollupShapes
  <2>2. ClockLeads'
    BY <1>1, <1>2, <1>5 DEF RollupInvariant, ClockLeads
  <2>3. CycleHolds'
    <3>1. SummedBefore(v.res, v.bucket)' /\ (v.res = "daily" => SummedBefore("hourly", v.limit)')
      BY <1>3, <1>4, <1>5
    <3>2. R!Truncate(v.res, v.bucket) = v.bucket /\ v.bucket <= now'
      BY <1>2, <1>4, <1>5
    <3>3. v.processed # None => v.bucket = v.processed + R!Duration(v.res)
                                /\ R!Truncate(v.res, v.processed) = v.processed
      BY <1>4, <1>5
    <3> QED  BY <1>5, <3>1, <3>2, <3>3 DEF CycleHolds, R!Truncate, R!Duration, R!Limit
  <2> QED  BY <2>1, <2>2, <2>3
<1>6. CASE w.bucket >= R!Limit(w.res, w.limit)
  <2>1. worker' = [w EXCEPT !.stage = "mark"]
    BY <1>1, <1>6 DEF R!Collect
  <2>2. PICK v \in Cycles : v = worker' /\ v = [w EXCEPT !.stage = "mark"]
    BY <2>1 DEF Cycles, R!Stages
  <2>3. /\ v.stage = "mark" /\ v.res = w.res /\ v.limit = w.limit /\ v.bucket = w.bucket
        /\ v.processed = w.processed /\ v.cut = w.cut
    BY <2>2 DEF Cycles
  <2>4. R!Limit(w.res, w.limit) <= w.bucket
    BY <1>1, <1>2, <1>6, CycleSorts DEF RollupInvariant
  <2>5. RollupShapes' /\ ClockLeads' /\ CycleHolds'
    BY <1>5, <2>2, <2>3, <2>4
  <2>6. BatchHolds'
    BY <2>2, <2>3 DEF BatchHolds
  <2> QED  BY <1>2, <2>5, <2>6, TablesStay DEF RollupInvariant
<1>7. CASE ~ (w.bucket >= R!Limit(w.res, w.limit))
  <2>1. worker' = [w EXCEPT !.stage = "write", !.batch = Statistics(w.res, w.bucket)]
    BY <1>1, <1>7 DEF R!Collect, Statistics
  <2>2. w.bucket < R!Limit(w.res, w.limit)
    BY <1>1, <1>2, <1>7, CycleSorts DEF RollupInvariant
  <2>3. w.bucket + R!Duration(w.res) <= now
    BY <1>1, <1>2, <2>2, TakenIsOver DEF RollupInvariant
  <2>4. PICK batch : batch = Statistics(w.res, w.bucket)
    OBVIOUS
  <2>5. /\ batch \subseteq Sums /\ Distinct(batch)
        /\ \A rec \in batch : IsOf(w.res, rec) /\ rec.bucket = w.bucket
        /\ \A s \in heartbeat : Bucket(w.res, s) = w.bucket => \E rec \in batch : s.beat \in rec.of
    BY <1>2, <1>4, <2>3, <2>4, Batched
  <2>6. PICK v \in Cycles : v = worker' /\ v = [w EXCEPT !.stage = "write", !.batch = batch]
    BY <2>1, <2>4, <2>5 DEF Cycles, R!Stages
  <2>7. /\ v.stage = "write" /\ v.res = w.res /\ v.limit = w.limit /\ v.bucket = w.bucket
        /\ v.processed = w.processed /\ v.cut = w.cut /\ v.batch = batch
    BY <2>6 DEF Cycles
  <2>8. RollupShapes' /\ ClockLeads' /\ CycleHolds'
    BY <1>5, <2>6, <2>7
  <2>9. BatchHolds'
    <3>1. v.bucket < R!Limit(v.res, v.limit) /\ Distinct(v.batch)
      BY <2>2, <2>5, <2>7
    <3>2. \A rec \in v.batch : IsOf(v.res, rec) /\ rec.bucket = v.bucket
      BY <2>5, <2>7
    <3>3. \A s \in heartbeat : Bucket(v.res, s) = v.bucket => \E rec \in v.batch : s.beat \in rec.of
      BY <2>5, <2>7
    <3> QED  BY <1>2, <2>6, <3>1, <3>2, <3>3
             DEF BatchHolds, Distinct, IsOf, Over, Bucket, R!Limit, R!Truncate, R!Duration, R!OnTime
  <2> QED  BY <1>2, <2>8, <2>9, TablesStay DEF RollupInvariant
<1> QED  BY <1>6, <1>7

-----------------------------------------------------------------------------
\* What a written batch does to the statistics of its resolution.
LEMMA Replaced ==
    ASSUME RollupSorts, RollupInvariant, R!WriteRollups, NEW w \in Cycles, w = worker
    PROVE  /\ w.stage = "write" /\ w.res \in R!Resolutions /\ w.bucket \in Nat
           /\ \A res \in R!Resolutions : res # w.res => rollup'[res] = rollup[res]
           /\ \A rec \in rollup'[w.res] : rec \in rollup[w.res] \/ rec \in w.batch
           /\ \A x \in rollup'[w.res], y \in w.batch :
                x.bucket = y.bucket /\ x.monitor = y.monitor => x \in w.batch
           /\ w.batch \subseteq rollup'[w.res]
           /\ \A rec \in rollup[w.res] :
                rec \in rollup'[w.res] \/ rec.bucket = w.bucket
<1>1. rollup \in [R!Resolutions -> SUBSET Sums] /\ w.res \in R!Resolutions /\ w.batch \subseteq Sums
  BY DEF RollupInvariant, RollupShapes, Cycles
<1>2. w.stage = "write" /\ w.bucket \in Nat
  BY DEF R!WriteRollups, Cycles
<1>3. PICK kept : /\ rollup' = [rollup EXCEPT ![w.res] = kept \cup w.batch]
                  /\ kept = {rec \in rollup[w.res] :
                              ~ \E new \in w.batch : new.bucket = rec.bucket /\ new.monitor = rec.monitor}
  BY <1>1 DEF R!WriteRollups
<1>4. /\ rollup'[w.res] = kept \cup w.batch
      /\ \A res \in R!Resolutions : res # w.res => rollup'[res] = rollup[res]
  BY <1>1, <1>3
<1>5. \A rec \in w.batch : rec.bucket = w.bucket
  BY <1>2 DEF RollupInvariant, BatchHolds
<1> QED  BY <1>1, <1>2, <1>3, <1>4, <1>5

LEMMA WriteRollupsKeeps ==
    ASSUME RollupSorts, RollupInvariant, R!WriteRollups
    PROVE  RollupInvariant'
<1> USE DEF RollupInvariant
<1>1. PICK w \in Cycles : w = worker
  BY DEF RollupShapes
<1>2. /\ w.stage = "write" /\ w.res \in R!Resolutions /\ w.bucket \in Nat
      /\ UNCHANGED <<now, waiting, taken, heartbeat, watermark, uncounted>>
  BY <1>1, Replaced DEF R!WriteRollups, R!Keeps
<1>3. /\ w.bucket < R!Limit(w.res, w.limit) /\ Distinct(w.batch) /\ w.batch \subseteq Sums
      /\ \A rec \in w.batch : IsOf(w.res, rec) /\ rec.bucket = w.bucket
      /\ \A s \in heartbeat : R!OnTime(s, w.res) /\ Bucket(w.res, s) = w.bucket =>
           \E rec \in w.batch : s.beat \in rec.of
  BY <1>1, <1>2 DEF BatchHolds, Cycles
<1>4. /\ R!Truncate(w.res, w.bucket) = w.bucket /\ w.bucket <= now /\ SummedBefore(w.res, w.bucket)
      /\ w.res = "daily" => SummedBefore("hourly", w.limit)
  BY <1>1, <1>2 DEF CycleHolds
<1>5. PICK next \in Nat : next = w.bucket + R!Duration(w.res) /\ next <= now
  <2>1. R!Duration(w.res) \in Nat
    BY <1>2, Durations
  <2> QED  BY <1>1, <1>2, <1>3, <2>1, TakenIsOver
<1>6. summed' = summed \cup UNION {rec.of \X {w.res} : rec \in w.batch}
  BY <1>1 DEF R!WriteRollups
<1>7. PICK v \in Cycles :
        /\ v = worker'
        /\ v = [w EXCEPT !.stage = "collect", !.batch = {}, !.processed = w.bucket, !.bucket = next]
  <2>1. worker' = [w EXCEPT !.stage = "collect", !.batch = {}, !.processed = w.bucket, !.bucket = next]
    BY <1>1, <1>5 DEF R!WriteRollups, Cycles
  <2>2. w.bucket \in R!Times
    BY <1>2, <1>4, CycleSorts DEF R!Times
  <2> QED  BY <2>1, <2>2 DEF Cycles, R!Stages
<1>8. /\ v.stage = "collect" /\ v.res = w.res /\ v.limit = w.limit /\ v.bucket = next
      /\ v.processed = w.bucket /\ v.cut = w.cut
  BY <1>7 DEF Cycles
<1>9. RollupShapes'
  <2>1. summed' \subseteq R!Beat \X R!Resolutions
    BY <1>2, <1>3, <1>6 DEF RollupShapes, Sums
  <2>2. rollup' \in [R!Resolutions -> SUBSET Sums]
    BY <1>1, <1>3 DEF R!WriteRollups, RollupShapes
  <2> QED  BY <1>2, <1>7, <2>1, <2>2 DEF RollupShapes
<1>10. ClockLeads'
  BY <1>1, <1>2, <1>7, <1>8 DEF ClockLeads
<1>11. RowsSound'
  <2> SUFFICES ASSUME NEW res \in R!Resolutions
               PROVE  Distinct(rollup'[res]) /\ \A rec \in rollup'[res] : IsOf(res, rec)
    BY <1>2 DEF RowsSound, R!Resolutions, Distinct, IsOf, Over, R!Truncate, R!Duration
  <2>1. Distinct(rollup[res]) /\ \A rec \in rollup[res] : IsOf(res, rec)
    BY DEF RowsSound
  <2>2. CASE res # w.res
    BY <1>1, <2>1, <2>2, Replaced
  <2>3. CASE res = w.res
    BY <1>1, <1>3, <2>1, <2>3, Replaced DEF Distinct
  <2> QED  BY <2>2, <2>3
<1>12. \A res \in R!Resolutions, s \in heartbeat :
         R!OnTime(s, res) /\ R!Counted(s.beat, res) => R!Counted(s.beat, res)'
  <2> SUFFICES ASSUME NEW res \in R!Resolutions, NEW s \in heartbeat, R!OnTime(s, res),
                      NEW rec \in rollup[res], s.beat \in rec.of
               PROVE  \E x \in rollup'[res] : s.beat \in x.of
    BY DEF R!Counted
  <2>1. CASE rec \in rollup'[res]
    BY <2>1
  <2>2. CASE rec \notin rollup'[res]
    <3>1. res = w.res /\ rec.bucket = w.bucket
      BY <1>1, <2>2, Replaced
    <3>2. Bucket(res, s) = w.bucket
      BY <3>1 DEF RowsSound, IsOf, Bucket
    <3>3. PICK x \in w.batch : s.beat \in x.of
      BY <1>3, <3>1, <3>2
    <3> QED  BY <1>1, <3>1, <3>3, Replaced
  <2> QED  BY <2>1, <2>2
<1>13. \A res \in R!Resolutions, e \in Nat : e <= now /\ SummedBefore(res, e) => SummedBefore(res, e)'
  <2> SUFFICES ASSUME NEW res \in R!Resolutions, NEW e \in Nat, e <= now, SummedBefore(res, e)
               PROVE  SummedBefore(res, e)'
    OBVIOUS
  <2>1. now <= now' /\ summed \subseteq summed' /\ heartbeat' = heartbeat
    BY <1>2, <1>6, CycleSorts
  <2> QED  BY <1>9, <1>12, <2>1, StillSummed
<1>14. SummedBefore(w.res, next)'
  <2> SUFFICES ASSUME NEW s \in heartbeat, R!OnTime(s, w.res), Bucket(w.res, s) + R!Duration(w.res) <= next
               PROVE  Summed(w.res, s)'
    BY <1>2 DEF SummedBefore, Bucket, R!OnTime, R!Truncate, R!Duration
  <2>1. PICK d \in Nat \ {0} : d = R!Duration(w.res)
    BY <1>2, Durations
  <2>2. PICK x \in Nat : x = Bucket(w.res, s) /\ R!Truncate(w.res, x) = x
    BY <1>2, BucketSorts
  <2>3. x <= w.bucket
    BY <1>2, <1>5, <2>1, <2>2
  <2>4. CASE x = w.bucket
    <3>1. PICK rec \in w.batch : s.beat \in rec.of
      BY <1>3, <2>2, <2>4
    <3>2. R!Counted(s.beat, w.res)'
      <4>1. rec \in rollup'[w.res]
        BY <1>1, Replaced
      <4> QED  BY <3>1, <4>1 DEF R!Counted
    <3>3. <<s.beat, w.res>> \in summed'
      BY <1>6, <3>1
    <3> QED  BY <3>2, <3>3 DEF Summed
  <2>5. CASE x < w.bucket
    <3>1. x + d <= w.bucket
      BY <1>2, <1>4, <2>1, <2>2, <2>5, BucketsApart
    <3>2. SummedBefore(w.res, w.bucket)'
      BY <1>2, <1>4, <1>13
    <3> QED  BY <1>2, <2>1, <2>2, <3>1, <3>2
             DEF SummedBefore, Bucket, R!OnTime, R!Truncate, R!Duration
  <2> QED  BY <1>2, <2>2, <2>3, <2>4, <2>5
<1>15. MarksHold'
  <2> SUFFICES ASSUME NEW res \in R!Resolutions, watermark[res] # None
               PROVE  Over(res, watermark[res])' /\ SummedBefore(res, watermark[res] + R!Duration(res))'
    BY <1>2 DEF MarksHold, R!Resolutions
  <2>1. PICK x \in Nat : x = watermark[res] /\ x = watermark'[res]
    BY <1>2, CycleSorts
  <2>2. PICK e \in Nat : e = x + R!Duration(res) /\ e <= now
    BY <2>1, InstantsPast
  <2>3. Over(res, x) /\ SummedBefore(res, e)
    BY <2>1, <2>2 DEF MarksHold
  <2>4. Over(res, x)' /\ SummedBefore(res, e)'
    BY <1>2, <1>13, <2>2, <2>3 DEF Over, R!Truncate, R!Duration
  <2> QED  BY <2>1, <2>2, <2>4 DEF R!Duration
<1>16. CycleHolds'
  <2>1. v.res = "daily" => SummedBefore("hourly", v.limit)'
    <3>1. v.limit \in Nat /\ v.limit <= now
      BY <1>1, <1>2, <1>8, CycleSorts DEF ClockLeads
    <3> QED  BY <1>4, <1>8, <1>13, <3>1 DEF R!Resolutions
  <2>2. R!Truncate(v.res, v.bucket) = v.bucket
    BY <1>2, <1>4, <1>5, <1>8, NextBucket
  <2>3. v.bucket = v.processed + R!Duration(v.res) /\ R!Truncate(v.res, v.processed) = v.processed
    BY <1>4, <1>5, <1>8
  <2>4. v.bucket <= now' /\ SummedBefore(v.res, v.bucket)'
    BY <1>2, <1>5, <1>8, <1>14
  <2> QED  BY <1>7, <1>8, <2>1, <2>2, <2>3, <2>4 DEF CycleHolds, R!Truncate, R!Duration
<1>17. BatchHolds'
  BY <1>7, <1>8 DEF BatchHolds
<1>18. R!PrunedOnlyCounted'
  BY <1>2 DEF R!PrunedOnlyCounted, R!OnTime, R!Truncate, R!Duration
<1> QED  BY <1>9, <1>10, <1>11, <1>15, <1>16, <1>17, <1>18

LEMMA SetWatermarkKeeps ==
    ASSUME RollupSorts, RollupInvariant, R!SetWatermark
    PROVE  RollupInvariant'
<1> USE DEF RollupInvariant
<1>1. PICK w \in Cycles : w = worker
  BY DEF RollupShapes
<1>2. /\ w.stage = "mark" /\ w.res \in R!Resolutions /\ w.bucket \in Nat /\ w.limit \in Nat
      /\ worker' = R!NextResolution(w)
      /\ UNCHANGED <<now, waiting, taken, heartbeat, rollup, summed, uncounted>>
  BY <1>1, CycleSorts DEF R!SetWatermark, R!Keeps, Cycles
<1>3. /\ w.bucket <= now /\ SummedBefore(w.res, w.bucket)
      /\ R!Limit(w.res, w.limit) <= w.bucket
      /\ w.res = "daily" => SummedBefore("hourly", w.limit)
      /\ w.processed # None => w.bucket = w.processed + R!Duration(w.res)
                               /\ R!Truncate(w.res, w.processed) = w.processed
  BY <1>1, <1>2 DEF CycleHolds
<1>4. \A res, e : SummedBefore(res, e) => SummedBefore(res, e)'
  BY <1>2 DEF SummedBefore, Summed, Bucket, R!OnTime, R!Truncate, R!Duration, R!Retention, R!Counted
<1>5. SummedBefore(w.res, w.limit)
  <2> SUFFICES ASSUME NEW s \in heartbeat, Bucket(w.res, s) + R!Duration(w.res) <= w.limit
               PROVE  Bucket(w.res, s) + R!Duration(w.res) <= w.bucket
    BY <1>3 DEF SummedBefore
  <2>1. PICK x \in Nat : x = Bucket(w.res, s) /\ R!Truncate(w.res, x) = x
    BY <1>2, BucketSorts
  <2>2. PICK y \in Nat : y = x + R!Duration(w.res)
    BY <1>2, Durations
  <2>3. R!Truncate(w.res, y) = y
    BY <1>2, <2>1, <2>2, NextBucket
  <2>4. R!Truncate(w.res, y) <= R!Truncate(w.res, w.limit)
    BY <1>2, <2>1, <2>2, BucketsInOrder
  <2>5. PICK l \in Nat : l = R!Limit(w.res, w.limit)
    BY <1>1, CycleSorts
  <2>6. y <= l /\ l <= w.bucket
    BY <1>3, <2>3, <2>4, <2>5 DEF R!Limit
  <2> QED  BY <1>2, <2>1, <2>2, <2>6
<1>6. worker' \in Cycles /\ ClockLeads' /\ CycleHolds' /\ BatchHolds'
  BY <1>1, <1>2, <1>3, <1>4, <1>5, NextResolutionHolds
<1>7. MarksHold'
  <2> SUFFICES ASSUME NEW res \in R!Resolutions, watermark'[res] # None
               PROVE  Over(res, watermark[res])' /\ SummedBefore(res, watermark[res] + R!Duration(res))'
    BY <1>2 DEF MarksHold, R!Resolutions
  <2>1. \/ watermark'[res] = watermark[res]
        \/ res = w.res /\ w.processed # None /\ watermark'[res] = w.processed
    BY <1>1, <1>2 DEF R!SetWatermark, RollupShapes
  <2>2. CASE watermark'[res] = watermark[res]
    <3>1. PICK x \in Nat : x = watermark[res] /\ x = watermark'[res]
      BY <2>2, CycleSorts
    <3>2. Over(res, x) /\ SummedBefore(res, x + R!Duration(res))
      BY <2>2, <3>1 DEF MarksHold
    <3>3. Over(res, x)' /\ SummedBefore(res, x + R!Duration(res))'
      <4>1. PICK e : e = x + R!Duration(res)
        BY Zenon
      <4>2. SummedBefore(res, e)'
        BY <1>4, <3>2, <4>1
      <4> QED  BY <1>2, <3>2, <4>1, <4>2 DEF Over, R!Truncate, R!Duration
    <3> QED  BY <3>1, <3>3
  <2>3. CASE res = w.res /\ w.processed # None /\ watermark'[res] = w.processed
    <3>1. PICK x : x = w.processed
      BY Zenon
    <3>2. Over(res, x)
      BY <1>3, <2>3, <3>1 DEF Over
    <3>3. SummedBefore(res, w.bucket)' /\ w.bucket = x + R!Duration(res)
      BY <1>3, <1>4, <2>3, <3>1
    <3>4. Over(res, x)' /\ SummedBefore(res, x + R!Duration(res))'
      BY <1>2, <3>2, <3>3 DEF Over, R!Truncate, R!Duration
    <3> QED  BY <2>3, <3>1, <3>4
  <2> QED  BY <2>1, <2>2, <2>3
<1>8. RollupShapes'
  <2>1. watermark' \in [R!Resolutions -> R!Times \cup {None}]
    <3>1. w.processed \in R!Times \cup {None}
      BY DEF Cycles
    <3> QED  BY <1>1, <1>2, <3>1 DEF R!SetWatermark, RollupShapes
  <2> QED  BY <1>2, <1>6, <2>1 DEF RollupShapes
<1>9. RowsSound' /\ R!PrunedOnlyCounted'
  BY <1>2 DEF RowsSound, Distinct, IsOf, Over, R!Truncate, R!Duration, R!Resolutions,
              R!PrunedOnlyCounted, R!OnTime
<1> QED  BY <1>6, <1>7, <1>8, <1>9

\* What a step of the pruning keeps besides.
LEMMA PruningKeeps ==
    ASSUME RollupSorts, RollupInvariant, RollupShapes',
           UNCHANGED <<now, waiting, watermark, summed>>, heartbeat' \subseteq heartbeat,
           \A res \in R!Resolutions : rollup'[res] \subseteq rollup[res],
           \A s \in heartbeat, res \in R!Resolutions :
             /\ R!OnTime(s, res) /\ Bucket(res, s) + R!Retention(res) >= now
             /\ R!Counted(s.beat, res)
             => R!Counted(s.beat, res)',
           worker.stage # "idle", worker'.limit = worker.limit, worker'.cut <= now,
           worker'.stage \in {"idle", "pruneHourly", "pruneDaily"}
    PROVE  ClockLeads' /\ RowsSound' /\ MarksHold' /\ CycleHolds' /\ BatchHolds'
<1> USE DEF RollupInvariant
<1>1. ClockLeads'
  BY DEF ClockLeads
<1>2. RowsSound'
  <2>1. \A res \in R!Resolutions : Distinct(rollup'[res]) /\ \A rec \in rollup'[res] : IsOf(res, rec)
    BY DEF RowsSound, Distinct
  <2> QED  BY <2>1 DEF RowsSound, R!Resolutions, Distinct, IsOf, Over, R!Truncate, R!Duration
<1>3. \A res \in R!Resolutions, e \in Nat : e <= now /\ SummedBefore(res, e) => SummedBefore(res, e)'
  <2> SUFFICES ASSUME NEW res \in R!Resolutions, NEW e \in Nat, e <= now, SummedBefore(res, e)
               PROVE  SummedBefore(res, e)'
    OBVIOUS
  <2>1. now <= now'
    BY CycleSorts
  <2> QED  BY <2>1, StillSummed
<1>4. MarksHold'
  <2> SUFFICES ASSUME NEW res \in R!Resolutions, watermark[res] # None
               PROVE  Over(res, watermark[res])' /\ SummedBefore(res, watermark[res] + R!Duration(res))'
    BY DEF MarksHold, R!Resolutions
  <2>1. PICK x \in Nat : x = watermark[res] /\ x = watermark'[res]
    BY CycleSorts
  <2>2. PICK e \in Nat : e = x + R!Duration(res) /\ e <= now
    BY <2>1, InstantsPast
  <2>3. Over(res, x) /\ SummedBefore(res, e)
    BY <2>1, <2>2 DEF MarksHold
  <2>4. Over(res, x)' /\ SummedBefore(res, e)'
    BY <1>3, <2>2, <2>3 DEF Over, R!Truncate, R!Duration
  <2> QED  BY <2>1, <2>2, <2>4 DEF R!Duration
<1> QED  BY <1>1, <1>2, <1>4, CycleAside

\* A heartbeat goes when it is older than its bucket and a cycle: the cycle
\* has summed it up, if it came in time.
LEMMA PruneHeartbeatsKeeps ==
    ASSUME RollupSorts, RollupInvariant, R!PruneHeartbeats
    PROVE  RollupInvariant'
<1> USE DEF RollupInvariant
<1>1. PICK w \in Cycles : w = worker
  BY DEF RollupShapes
<1>2. /\ w.stage = "prune" /\ w.limit \in Nat /\ w.limit <= now /\ now <= w.limit + MaxCycle
      /\ UNCHANGED <<now, waiting, taken, rollup, watermark, summed>>
      /\ heartbeat' \subseteq heartbeat
  BY <1>1, CycleSorts DEF R!PruneHeartbeats, R!Keeps, ClockLeads
<1>3. PICK old \in SUBSET heartbeat :
        /\ old = {s \in heartbeat : s.beat.ts + Raw < now}
        /\ uncounted' = uncounted \cup
             {p \in old \X R!Resolutions \X {w.limit} : <<p[1].beat, p[2]>> \notin summed}
  BY <1>1 DEF R!PruneHeartbeats
<1>4. PICK v \in Cycles : v = worker' /\ v = [w EXCEPT !.stage = "pruneHourly", !.cut = now]
  <2>1. now \in R!Times
    BY DEF RollupShapes
  <2> QED  BY <1>1, <2>1 DEF R!PruneHeartbeats, Cycles, R!Stages
<1>5. v.stage = "pruneHourly" /\ v.cut = now /\ v.limit = w.limit
  BY <1>4 DEF Cycles
<1>6. RollupShapes'
  <2>1. uncounted' \subseteq R!Stored \X R!Resolutions \X R!Times
    BY <1>1, <1>3 DEF RollupShapes, Cycles
  <2> QED  BY <1>2, <1>4, <2>1 DEF RollupShapes
<1>7. \A b, res : R!Counted(b, res) => R!Counted(b, res)'
  BY <1>2 DEF R!Counted
<1>8. ClockLeads' /\ RowsSound' /\ MarksHold' /\ CycleHolds' /\ BatchHolds'
  BY <1>1, <1>2, <1>4, <1>5, <1>6, <1>7, CycleSorts, PruningKeeps
<1>9. R!PrunedOnlyCounted'
  <2> SUFFICES ASSUME NEW p \in uncounted', R!OnTime(p[1], p[2])
               PROVE  /\ p[3] < R!Truncate(p[2], p[1].beat.ts) + R!Duration(p[2])
                      /\ ~ R!RawOutlasts(p[2])
    BY DEF R!PrunedOnlyCounted, R!OnTime, R!RawOutlasts, R!Truncate, R!Duration
  <2>1. CASE p \in uncounted
    BY <2>1 DEF R!PrunedOnlyCounted
  <2>2. CASE p \notin uncounted
    <3>1. PICK s \in old, res \in R!Resolutions :
            p[1] = s /\ p[2] = res /\ p[3] = w.limit /\ <<s.beat, res>> \notin summed
      BY <1>3, <2>2
    <3>2. ~ (Bucket(res, s) + R!Duration(res) <= w.limit)
      BY <1>1, <1>2, <3>1 DEF CycleHolds, SummedBefore, Summed
    <3>3. Bucket(res, s) \in Nat /\ Bucket(res, s) <= s.beat.ts /\ s.beat.ts \in Nat
      BY Stamps, BucketSorts
    <3>4. R!Duration(res) \in Nat /\ Raw \in Nat /\ MaxCycle \in Nat
      BY Durations DEF RollupSorts
    <3>5. s.beat.ts + Raw < now
      BY <1>3
    <3>6. ~ (R!Duration(res) + MaxCycle <= Raw + 1)
      BY <1>2, <3>2, <3>3, <3>4, <3>5, CycleSorts
    <3> QED  BY <1>2, <3>1, <3>2, <3>3, <3>4, <3>6 DEF R!RawOutlasts, Bucket
  <2> QED  BY <2>1, <2>2
<1> QED  BY <1>6, <1>8, <1>9

\* A statistic goes when its retention is over.
LEMMA PruneRollupsKeeps ==
    ASSUME RollupSorts, RollupInvariant, NEW res \in R!Resolutions,
           NEW stage \in {"pruneHourly", "pruneDaily"}, NEW next \in {"pruneDaily", "idle"},
           R!PruneRollups(res, stage, next)
    PROVE  RollupInvariant'
<1> USE DEF RollupInvariant
<1>1. PICK w \in Cycles : w = worker
  BY DEF RollupShapes
<1>2. /\ w.stage = stage /\ w.cut \in Nat /\ w.cut <= now
      /\ UNCHANGED <<now, waiting, taken, heartbeat, watermark, summed, uncounted>>
  BY <1>1, CycleSorts DEF R!PruneRollups, R!Keeps, ClockLeads
<1>3. /\ rollup'[res] = {rec \in rollup[res] : rec.bucket + R!Retention(res) >= w.cut}
      /\ rollup' = [rollup EXCEPT ![res] = {rec \in rollup[res] : rec.bucket + R!Retention(res) >= w.cut}]
  BY <1>1 DEF R!PruneRollups, RollupShapes
<1>4. PICK v \in Cycles : v = worker' /\ v = [w EXCEPT !.stage = next]
  BY <1>1 DEF R!PruneRollups, Cycles, R!Stages
<1>5. v.stage = next /\ v.cut = w.cut /\ v.limit = w.limit
  BY <1>4 DEF Cycles
<1>6. RollupShapes'
  <2>1. rollup' \in [R!Resolutions -> SUBSET Sums]
    BY <1>3 DEF RollupShapes
  <2> QED  BY <1>2, <1>4, <2>1 DEF RollupShapes
<1>7. \A s \in heartbeat, r \in R!Resolutions :
        /\ R!OnTime(s, r) /\ Bucket(r, s) + R!Retention(r) >= now
        /\ R!Counted(s.beat, r)
        => R!Counted(s.beat, r)'
  <2> SUFFICES ASSUME NEW s \in heartbeat, NEW r \in R!Resolutions,
                      Bucket(r, s) + R!Retention(r) >= now, NEW rec \in rollup[r], s.beat \in rec.of
               PROVE  rec \in rollup'[r]
    BY DEF R!Counted
  <2>1. CASE r # res
    BY <1>3, <2>1 DEF RollupShapes
  <2>2. CASE r = res
    <3>1. rec.bucket = Bucket(r, s)
      BY DEF RowsSound, IsOf, Bucket
    <3>2. Bucket(r, s) \in Nat /\ R!Retention(r) \in Nat
      BY BucketSorts, Durations
    <3>3. rec.bucket + R!Retention(r) >= w.cut
      BY <1>2, <3>1, <3>2, CycleSorts
    <3> QED  BY <1>3, <2>2, <3>3
  <2> QED  BY <2>1, <2>2
<1>8. \A r \in R!Resolutions : rollup'[r] \subseteq rollup[r]
  BY <1>3 DEF RollupShapes
<1>9. ClockLeads' /\ RowsSound' /\ MarksHold' /\ CycleHolds' /\ BatchHolds'
  BY <1>1, <1>2, <1>4, <1>5, <1>6, <1>7, <1>8, PruningKeeps
<1>10. R!PrunedOnlyCounted'
  BY <1>2 DEF R!PrunedOnlyCounted, R!OnTime, R!Truncate, R!Duration
<1> QED  BY <1>6, <1>9, <1>10

LEMMA BreakKeeps ==
    ASSUME RollupSorts, RollupInvariant, R!Break
    PROVE  RollupInvariant'
<1>1. /\ worker'.stage = "idle" /\ worker'.cut = 0
      /\ UNCHANGED <<now, waiting, taken, heartbeat, rollup, watermark, summed, uncounted>>
  BY DEF R!Break, R!AtRest, R!Keeps
<1>2. RollupShapes'
  <2>1. 0 \in R!Times
    BY DEF RollupSorts, R!Times
  <2>2. worker' \in Cycles
    BY <2>1 DEF R!Break, R!AtRest, Cycles, R!Stages, R!Resolutions
  <2> QED  BY <1>1, <2>2 DEF RollupInvariant, RollupShapes
<1>3. ClockLeads'
  BY <1>1, CycleSorts DEF RollupInvariant, ClockLeads
<1> QED  BY <1>1, <1>2, <1>3, TablesStay, CycleAside DEF RollupInvariant

-----------------------------------------------------------------------------
LEMMA RollupStarts ==
    ASSUME RollupSorts, R!Init
    PROVE  RollupInvariant
<1>1. 0 \in R!Times
  BY DEF RollupSorts, R!Times
<1>2. worker \in Cycles /\ worker.stage = "idle" /\ worker.cut = 0
  BY <1>1 DEF R!Init, R!AtRest, Cycles, R!Stages, R!Resolutions
<1>3. RollupShapes
  BY <1>1, <1>2 DEF R!Init, RollupShapes
<1>4. ClockLeads /\ RowsSound /\ MarksHold /\ R!PrunedOnlyCounted
  BY <1>2 DEF R!Init, ClockLeads, RowsSound, Distinct, MarksHold, R!PrunedOnlyCounted
<1>5. CycleHolds /\ BatchHolds
  BY <1>2 DEF CycleHolds, BatchHolds
<1> QED  BY <1>3, <1>4, <1>5 DEF RollupInvariant

LEMMA RollupSteps ==
    ASSUME RollupSorts, RollupInvariant, [R!Next]_(R!vars)
    PROVE  RollupInvariant'
<1>1. CASE R!Tick
  BY <1>1, TickKeeps
<1>2. CASE R!WriteHeartbeats
  BY <1>2, WriteKeeps
<1>3. CASE R!RunOnce
  BY <1>3, RunOnceKeeps
<1>4. CASE R!Resume
  BY <1>4, ResumeKeeps
<1>5. CASE R!Collect
  BY <1>5, CollectKeeps
<1>6. CASE R!WriteRollups
  BY <1>6, WriteRollupsKeeps
<1>7. CASE R!SetWatermark
  BY <1>7, SetWatermarkKeeps
<1>8. CASE R!Prune
  <2>1. CASE R!PruneHeartbeats
    BY <2>1, PruneHeartbeatsKeeps
  <2>2. CASE R!PruneRollups("hourly", "pruneHourly", "pruneDaily")
    BY <2>2, PruneRollupsKeeps DEF R!Resolutions
  <2>3. CASE R!PruneRollups("daily", "pruneDaily", "idle")
    BY <2>3, PruneRollupsKeeps DEF R!Resolutions
  <2> QED  BY <1>8, <2>1, <2>2, <2>3 DEF R!Prune
<1>9. CASE R!Break
  BY <1>9, BreakKeeps
<1>10. CASE \E m \in Monitors : R!Measure(m)
  BY <1>10, MeasurementKeeps
<1>11. CASE UNCHANGED R!vars
  <2>1. /\ UNCHANGED <<now, waiting, heartbeat, rollup, watermark, worker, taken, summed, uncounted>>
        /\ now <= now'
    BY <1>11, CycleSorts DEF R!vars, RollupInvariant
  <2>2. RollupShapes' /\ ClockLeads'
    BY <2>1 DEF RollupInvariant, RollupShapes, ClockLeads
  <2> QED  BY <2>1, <2>2, CycleWaits DEF RollupInvariant
<1> QED  BY <1>1, <1>2, <1>3, <1>4, <1>5, <1>6, <1>7, <1>8, <1>9, <1>10, <1>11
         DEF R!Next, R!Cycle

\* What is in the statistics, what the watermarks vouch for, and what a cycle
\* has yet to do (worker.go RunOnce).
THEOREM HistoryKept == ASSUME RollupSorts  PROVE R!Spec => []RollupInvariant
BY RollupStarts, RollupSteps, PTL DEF R!Spec

\* For any retention: of the heartbeats that came before their bucket was over,
\* none is removed that the cycle could have summed up, and none at all if the
\* raw retention holds a bucket and a cycle; the buckets behind a watermark are
\* whole, and no heartbeat is counted twice, with any number of failures
\* (worker.go, sqlstore/timeseries.go).
THEOREM HistoryIsSound == ASSUME RollupSorts  PROVE R!Spec => []R!RollupSound
<1>1. ASSUME RollupInvariant  PROVE R!MarkedIsWhole
  <2> SUFFICES ASSUME NEW res \in R!Resolutions, watermark[res] # None,
                      NEW s \in heartbeat, R!OnTime(s, res),
                      s.beat.ts < watermark[res] + R!Duration(res),
                      R!Truncate(res, s.beat.ts) + R!Retention(res) >= now
               PROVE  R!Counted(s.beat, res)
    BY DEF R!MarkedIsWhole
  <2>1. PICK x \in Nat : x = Bucket(res, s) /\ x <= s.beat.ts /\ R!Truncate(res, x) = x
    BY <1>1, BucketSorts DEF RollupInvariant
  <2>2. PICK mark \in Nat : mark = watermark[res]
    BY <1>1, CycleSorts DEF RollupInvariant
  <2>3. PICK d \in Nat : d = R!Duration(res)
    BY <1>1, Durations
  <2>4. PICK y \in Nat : y = mark + d
    OBVIOUS
  <2>5. R!Truncate(res, mark) = mark /\ SummedBefore(res, y)
    BY <1>1, <2>2, <2>3, <2>4 DEF RollupInvariant, MarksHold, Over
  <2>6. R!Truncate(res, y) = y
    BY <1>1, <2>3, <2>4, <2>5, NextBucket
  <2>7. x < y
    <3>1. s.beat.ts \in Nat
      BY <1>1, Stamps DEF RollupInvariant
    <3> QED  BY <2>1, <2>2, <2>3, <2>4, <3>1
  <2>8. x + d <= y
    BY <1>1, <2>1, <2>3, <2>6, <2>7, BucketsApart
  <2>9. Summed(res, s)
    BY <2>1, <2>3, <2>5, <2>8 DEF SummedBefore
  <2> QED  BY <2>9 DEF Summed, Bucket
<1>2. ASSUME RollupInvariant  PROVE R!CountedOnce
  <2> SUFFICES ASSUME NEW res \in R!Resolutions, NEW rec \in rollup[res]
               PROVE  /\ rec.bucket + R!Duration(res) <= now /\ rec.of # {}
                      /\ \A b \in rec.of : b.monitor = rec.monitor
                      /\ \A other \in rollup[res] : other.of \cap rec.of # {} => other = rec
    BY DEF R!CountedOnce
  <2>1. \A x \in rollup[res] : IsOf(res, x)
    BY <1>2 DEF RollupInvariant, RowsSound
  <2>2. ASSUME NEW other \in rollup[res], NEW b \in other.of \cap rec.of  PROVE other = rec
    <3>1. other.bucket = rec.bucket /\ other.monitor = rec.monitor
      BY <2>1, <2>2 DEF IsOf
    <3> QED  BY <1>2, <3>1 DEF RollupInvariant, RowsSound, Distinct
  <2> QED  BY <2>1, <2>2 DEF IsOf, Over
<1>3. RollupInvariant => R!RollupSound
  BY <1>1, <1>2 DEF R!RollupSound, RollupInvariant
<1> QED  BY <1>3, HistoryKept, PTL

-----------------------------------------------------------------------------
(***************************************************************************)
(* Push monitors.                                                          *)
(***************************************************************************)
Psh == INSTANCE Push

\* A check ends before the next is due (domain/monitor.go Validate), and a grace
\* that is given for a schedule is no shorter than a request.
PushSorts ==
    /\ None \notin Int
    /\ Interval \in Nat /\ MaxDelay \in Nat /\ MaxDelay <= Interval
    /\ Grace \in Nat /\ MinScheduleGrace \in Nat /\ MaxTime \in Nat
    /\ \A plan \in Plans : plan[2] # None /\ Grace > 0 => MaxDelay <= Grace

Signals == [id: Nat, at: Nat, status: Psh!Statuses]
Looks == [step: {"idle"}] \cup [step: {"read"}, at: Nat, rearmed: Nat]
           \cup [step: {"judge", "mark"}, at: Nat, rearmed: Nat, signal: Signals, old: BOOLEAN]

PushShapes ==
    /\ \E plan \in Plans : zone = plan[1] /\ schedule = plan[2]
    /\ clock \in Nat /\ sending \subseteq [n: Nat, at: Nat, status: Psh!Statuses]
    /\ signals \in Nat /\ row \in Signals /\ evaluated \in Nat
    /\ settings \in [rearmed: Nat, on: BOOLEAN] /\ due \in Nat /\ check \in Looks
    /\ last \in [status: {"up", "down", "unknown"}, repeated: BOOLEAN] /\ failures \in Nat
    /\ twice \in BOOLEAN /\ early \in BOOLEAN /\ aged \in BOOLEAN

Busy == check.step # "idle"
HasRead == check.step \in {"judge", "mark"}

\* The start of the wait, its end, and how late a check may yet read a signal.
Waits(s, rearmed) == IF s.at >= rearmed THEN s.at ELSE rearmed
Limit(s, rearmed) == Psh!Deadline(Waits(s, rearmed))
Missed(s, rearmed, t) == Limit(s, rearmed) # None /\ t > Limit(s, rearmed)
Spent(n) == n * (Interval + MaxDelay)
Bound(s, rearmed) == Waits(s, rearmed) + Interval + 2 * MaxDelay + Spent(failures)

\* Nothing lasts more than the bound, a check starts when it is due, and what
\* reached the tables after it read them is recent.
TimesKept ==
    /\ \A s \in sending : clock <= s.at + MaxDelay
    /\ row.id = 0 => row.at = 0
    /\ ~Busy => due <= clock + Interval /\ (settings.on => clock <= due)
    /\ Busy => /\ check.at <= clock /\ clock <= check.at + MaxDelay
               /\ check.rearmed = settings.rearmed \/ settings.rearmed >= check.at
    /\ HasRead => /\ check.signal.id = 0 => check.signal.at = 0
                  /\ check.signal = row \/ check.at <= row.at + MaxDelay

\* A check knows whether its signal was an observation before.
CountsKept ==
    /\ check.step = "judge" => (check.old <=> evaluated >= check.signal.id)
    /\ check.step = "mark" => evaluated < check.signal.id
    /\ evaluated > 0 => evaluated \in counted
    /\ ~twice

\* A signal that was none yet is read in time, or too late to count.
SignalsKept ==
    /\ ~Busy /\ settings.on /\ evaluated < row.id =>
          due <= Bound(row, settings.rearmed) \/ Missed(row, settings.rearmed, clock)
    /\ check.step = "read" /\ evaluated < row.id =>
          check.at <= Bound(row, check.rearmed) \/ Missed(row, check.rearmed, clock)
    /\ check.step = "judge" /\ ~check.old =>
          check.at <= Bound(check.signal, check.rearmed) \/ Missed(check.signal, check.rearmed, clock)
    /\ check.step = "mark" => check.at <= Bound(check.signal, check.rearmed)
    /\ ~aged

\* Past the end of the wait the last result is a failure, or a check is on its
\* way; and one that found a signal in time began in time.
SilenceKept ==
    /\ settings.on /\ Limit(row, settings.rearmed) # None =>
          \/ last.status = "down" /\ Missed(row, settings.rearmed, clock)
          \/ (IF Busy THEN check.at ELSE due) <= Limit(row, settings.rearmed) + Interval + MaxDelay
    /\ check.step = "mark" => ~Missed(check.signal, check.rearmed, check.at)
    /\ ~early

PushInvariant == PushShapes /\ TimesKept /\ CountsKept /\ SignalsKept /\ SilenceKept

LEMMA PushMaxTwo ==
    ASSUME NEW a \in Int, NEW b \in Int
    PROVE  Psh!Max({a, b}) = IF a >= b THEN a ELSE b
<1> DEFINE m == IF a >= b THEN a ELSE b
<1>1. m \in {a, b} /\ \A y \in {a, b} : m >= y
  OBVIOUS
<1>2. \A x \in {a, b} : (\A y \in {a, b} : x >= y) => x = m
  OBVIOUS
<1> HIDE DEF m
<1>3. (CHOOSE x \in {a, b} : \A y \in {a, b} : x >= y) = m
  BY <1>1, <1>2
<1> QED BY <1>3 DEF Psh!Max, m

LEMMA PushMinIn ==
    ASSUME NEW S \in SUBSET Nat, S # {}
    PROVE  Psh!Min(S) \in S
BY LeastOf DEF Psh!Min, R!Min

\* The grace in force, and that no wait ends before a check or a request may.
LEMMA GraceEnough ==
    ASSUME PushSorts, PushShapes
    PROVE  Psh!TheGrace \in Nat /\ (schedule # None => Psh!TheGrace >= MaxDelay)
<1>1. Psh!Max({Interval, MinScheduleGrace}) \in Nat /\ Psh!Max({Interval, MinScheduleGrace}) >= Interval
  BY PushMaxTwo DEF PushSorts
<1> QED BY <1>1 DEF PushSorts, PushShapes, Psh!TheGrace

LEMMA DeadlineLate ==
    ASSUME PushSorts, PushShapes, NEW a \in Nat, Psh!Deadline(a) # None
    PROVE  Psh!Deadline(a) \in Nat /\ Psh!Deadline(a) >= a + MaxDelay
<1>1. MaxDelay \in Nat /\ Interval \in Nat /\ MaxDelay <= Interval /\ Psh!TheGrace \in Nat
      /\ (schedule # None => Psh!TheGrace >= MaxDelay)
  BY GraceEnough DEF PushSorts
<1>2. CASE schedule = None
  BY <1>1, <1>2 DEF Psh!Deadline
<1>3. CASE schedule # None
  <2> DEFINE S == {u \in Psh!Matches(a) : ~Psh!RepeatedWallClock(u)}
  <2>1. Psh!NextRun(a) # None /\ Psh!Deadline(a) = Psh!NextRun(a) + Psh!TheGrace
    BY <1>3 DEF Psh!Deadline
  <2>2. S \in SUBSET Nat /\ \A u \in S : u > a
    BY DEF Psh!Matches, Psh!Instants, PushSorts
  <2>3. S # {} /\ Psh!NextRun(a) = Psh!Min(S)
    BY <2>1 DEF Psh!NextRun, Psh!First
  <2> HIDE DEF S
  <2>4. Psh!NextRun(a) \in Nat /\ Psh!NextRun(a) > a
    BY <2>2, <2>3, PushMinIn
  <2> QED BY <1>1, <1>3, <2>1, <2>4
<1> QED BY <1>2, <1>3

\* The plan is that of the start.
LEMMA PlanStays ==
    ASSUME UNCHANGED <<zone, schedule>>, NEW a
    PROVE  Psh!Deadline(a)' = Psh!Deadline(a)
<1>1. \A u : Psh!Wall(u)' = Psh!Wall(u)
  BY DEF Psh!Wall
<1>2. Psh!Matches(a)' = Psh!Matches(a)
  BY <1>1 DEF Psh!Matches
<1>3. \A u : Psh!RepeatedWallClock(u)' <=> Psh!RepeatedWallClock(u)
  <2>1. \A u : Psh!Began(u)' = Psh!Began(u)
    BY DEF Psh!Began
  <2> QED BY <2>1 DEF Psh!RepeatedWallClock
<1>4. Psh!NextRun(a)' = Psh!NextRun(a)
  BY <1>2, <1>3 DEF Psh!NextRun
<1>5. Psh!TheGrace' = Psh!TheGrace
  BY DEF Psh!TheGrace
<1> QED BY <1>4, <1>5 DEF Psh!Deadline

\* Since and Silent, by the wait.
LEMMA WaitsSince ==
    ASSUME PushSorts, PushShapes, NEW s \in Signals, NEW r \in Nat, s.id = 0 => s.at = 0
    PROVE  /\ Psh!Since(s, r) = Waits(s, r) /\ Waits(s, r) \in Nat
           /\ Waits(s, r) >= s.at /\ Waits(s, r) >= r
           /\ Psh!Silent(s, r) <=> Missed(s, r, clock)
<1>1. s.at \in Nat /\ s.id \in Nat
  BY DEF Signals
<1>2. Psh!Since(s, r) = Waits(s, r)
  BY <1>1, PushMaxTwo DEF Psh!Since, Waits
<1> QED BY <1>1, <1>2 DEF Waits, Psh!Silent, Missed, Limit

LEMMA LimitLate ==
    ASSUME PushSorts, PushShapes, NEW s \in Signals, NEW r \in Nat, Limit(s, r) # None
    PROVE  Limit(s, r) \in Nat /\ Limit(s, r) >= s.at + MaxDelay /\ Limit(s, r) >= r + MaxDelay
<1>1. Waits(s, r) \in Nat /\ Waits(s, r) >= s.at /\ Waits(s, r) >= r /\ s.at \in Nat /\ MaxDelay \in Nat
  BY DEF Signals, Waits, PushSorts
<1>2. PICK a \in Nat : a = Waits(s, r)
  BY <1>1
<1>3. Psh!Deadline(a) \in Nat /\ Psh!Deadline(a) >= a + MaxDelay
  BY <1>2, DeadlineLate DEF Limit
<1> QED BY <1>1, <1>2, <1>3 DEF Limit

\* A new limit is the old one of the same wait; a later instant misses it too.
LEMMA MissedStays ==
    ASSUME PushSorts, PushShapes, UNCHANGED <<zone, schedule>>, NEW s \in Signals, NEW r \in Nat
    PROVE  /\ Limit(s, r)' = Limit(s, r)
           /\ \A t, u \in Nat : Missed(s, r, t) /\ t <= u => Missed(s, r, u)'
           /\ \A t \in Nat : Missed(s, r, t)' <=> Missed(s, r, t)
<1>1. Limit(s, r)' = Limit(s, r)
  BY PlanStays DEF Limit, Waits
<1>2. Limit(s, r) # None => Limit(s, r) \in Nat
  BY LimitLate
<1> QED BY <1>1, <1>2 DEF Missed

\* What failures may cost grows with them.
LEMMA SpentGrows ==
    ASSUME PushSorts, NEW n \in Nat
    PROVE  Spent(n) \in Nat /\ Spent(n + 1) = Spent(n) + Interval + MaxDelay
<1>1. PICK k \in Nat : k = Interval + MaxDelay
  BY DEF PushSorts
<1>2. n * k \in Nat /\ (n + 1) * k = n * k + k
  OBVIOUS
<1> QED BY <1>1, <1>2 DEF Spent, PushSorts

LEMMA BoundTyped ==
    ASSUME PushSorts, PushShapes, NEW s \in Signals, NEW r \in Nat
    PROVE  Bound(s, r) \in Nat /\ Bound(s, r) >= s.at + Interval + 2 * MaxDelay
           /\ Bound(s, r) >= r + Interval + 2 * MaxDelay
           /\ Bound(s, r) = Waits(s, r) + Interval + 2 * MaxDelay + Spent(failures)
<1>1. Waits(s, r) \in Nat /\ Waits(s, r) >= s.at /\ Waits(s, r) >= r /\ s.at \in Nat
  BY DEF Signals, Waits
<1>2. Spent(failures) \in Nat /\ MaxDelay \in Nat /\ Interval \in Nat
  BY SpentGrows DEF PushShapes, PushSorts
<1> QED BY <1>1, <1>2 DEF Bound

\* The plan stays, and with it what a signal and a rearming give.
LEMMA PlanKept ==
    ASSUME PushSorts, PushShapes, UNCHANGED <<zone, schedule>>
    PROVE  /\ \A s \in Signals, r \in Nat : Limit(s, r)' = Limit(s, r)
           /\ \A s \in Signals, r \in Nat : \A t, u \in Nat : Missed(s, r, t) /\ t <= u => Missed(s, r, u)'
           /\ \A s \in Signals, r \in Nat : \A t \in Nat : Missed(s, r, t)' <=> Missed(s, r, t)
           /\ failures' = failures => \A s \in Signals, r \in Nat : Bound(s, r)' = Bound(s, r)
           /\ failures' = failures + 1 =>
                 \A s \in Signals, r \in Nat : Bound(s, r)' = Bound(s, r) + Interval + MaxDelay
<1>1. failures' = failures => \A s \in Signals, r \in Nat : Bound(s, r)' = Bound(s, r)
  BY DEF Bound
<1>2. ASSUME failures' = failures + 1, NEW s \in Signals, NEW r \in Nat
      PROVE  Bound(s, r)' = Bound(s, r) + Interval + MaxDelay
  <2>1. failures \in Nat /\ Interval \in Nat /\ MaxDelay \in Nat
    BY DEF PushSorts, PushShapes
  <2>2. Spent(failures) \in Nat /\ Spent(failures + 1) = Spent(failures) + Interval + MaxDelay
    BY <2>1, SpentGrows
  <2>3. Waits(s, r) \in Nat
    BY DEF Waits, Signals
  <2>4. Bound(s, r)' = Waits(s, r) + Interval + 2 * MaxDelay + Spent(failures + 1)
    BY <1>2 DEF Bound
  <2>5. Bound(s, r) = Waits(s, r) + Interval + 2 * MaxDelay + Spent(failures)
    BY DEF Bound
  <2> QED BY <2>1, <2>2, <2>3, <2>4, <2>5
<1> QED BY <1>1, <1>2, MissedStays

LEMMA PushStart ==
    ASSUME PushSorts, Psh!Init
    PROVE  PushInvariant
<1>1. PushShapes
  BY DEF Psh!Init, PushShapes, Psh!NoSignal, Psh!Statuses, Signals, Looks
<1>2. row.id = 0 /\ row.at = 0 /\ clock = 0 /\ due = 0 /\ evaluated = 0 /\ ~Busy /\ settings.rearmed = 0
  BY DEF Psh!Init, Psh!NoSignal, Busy
<1>3. TimesKept /\ CountsKept /\ SignalsKept
  BY <1>2 DEF Psh!Init, PushSorts, TimesKept, CountsKept, SignalsKept, Busy, HasRead
<1>4. SilenceKept
  <2>1. Limit(row, settings.rearmed) # None => Limit(row, settings.rearmed) \in Nat
    <3>1. PushShapes /\ row \in Signals /\ settings.rearmed \in Nat
      BY <1>1, <1>2 DEF PushShapes
    <3> QED BY <3>1, LimitLate
  <2> QED BY <2>1, <1>2 DEF SilenceKept, Psh!Init, PushSorts
<1> QED BY <1>1, <1>3, <1>4 DEF PushInvariant

\* What of the shapes the steps below use.
LEMMA PushTyped ==
    ASSUME PushSorts, PushShapes
    PROVE  /\ clock \in Nat /\ row \in Signals /\ row.id \in Nat /\ row.at \in Nat /\ evaluated \in Nat
           /\ settings.rearmed \in Nat /\ settings.on \in BOOLEAN /\ due \in Nat /\ failures \in Nat
           /\ Interval \in Nat /\ MaxDelay \in Nat /\ MaxDelay <= Interval
           /\ \A s \in sending : s.at \in Nat /\ s.status \in Psh!Statuses
           /\ check.step \in {"idle", "read", "judge", "mark"}
           /\ Busy => check.at \in Nat /\ check.rearmed \in Nat
           /\ HasRead => check.signal \in Signals /\ check.old \in BOOLEAN
BY DEF PushSorts, PushShapes, Signals, Looks, Busy, HasRead

LEMMA PushSend ==
    ASSUME PushSorts, PushInvariant, NEW result \in Psh!Statuses, Psh!Send(result)
    PROVE  PushInvariant'
<1>1. /\ signals' = signals + 1
      /\ sending' = sending \cup {[n |-> signals', at |-> clock, status |-> result]}
      /\ UNCHANGED <<zone, schedule, clock, row, evaluated, settings, due, check, last,
                     counted, twice, early, aged, failures>>
  BY DEF Psh!Send, Psh!ghosts
<1>2. PushShapes /\ clock \in Nat /\ MaxDelay \in Nat
  BY PushTyped DEF PushInvariant
<1>3. PushShapes'
  BY <1>1, <1>2 DEF PushShapes
<1>4. TimesKept'
  BY <1>1, <1>2 DEF PushInvariant, TimesKept, Busy, HasRead
<1>5. CountsKept'
  BY <1>1 DEF PushInvariant, CountsKept
<1>6. SignalsKept'
  BY <1>1, <1>2, PlanKept, PushTyped DEF PushInvariant, SignalsKept, Busy, HasRead
<1>7. SilenceKept'
  BY <1>1, <1>2, PlanKept, PushTyped DEF PushInvariant, SilenceKept, Busy, HasRead
<1> QED BY <1>3, <1>4, <1>5, <1>6, <1>7 DEF PushInvariant

LEMMA PushRecord ==
    ASSUME PushSorts, PushInvariant, NEW s \in sending, Psh!RecordPush(s)
    PROVE  PushInvariant'
<1>1. /\ sending' = sending \ {s} /\ row' = [id |-> row.id + 1, at |-> s.at, status |-> s.status]
      /\ UNCHANGED <<zone, schedule, clock, signals, evaluated, settings, due, check, last,
                     counted, twice, early, aged, failures>>
  BY DEF Psh!RecordPush, Psh!ghosts
<1>2. PushShapes /\ TimesKept
  BY DEF PushInvariant
<1>3. s.at \in Nat /\ s.status \in Psh!Statuses /\ clock <= s.at + MaxDelay
  BY <1>2, PushTyped DEF TimesKept
<1>4. row' \in Signals /\ row'.id = row.id + 1 /\ row'.at = s.at /\ row'.id # 0
  BY <1>1, <1>2, <1>3, PushTyped DEF Signals
<1>5. PushShapes'
  BY <1>1, <1>2, <1>4 DEF PushShapes
<1>6. TimesKept'
  <2>1. Busy => check.at <= row'.at + MaxDelay
    BY <1>2, <1>3, <1>4, PushTyped DEF TimesKept
  <2> QED BY <2>1, <1>1, <1>2, <1>4 DEF TimesKept, Busy, HasRead
<1>7. CountsKept'
  BY <1>1 DEF PushInvariant, CountsKept
<1>8. Bound(row', settings.rearmed) >= clock + Interval /\ Bound(row', settings.rearmed) \in Nat
  BY <1>2, <1>3, <1>4, PushTyped, BoundTyped
<1>9. Busy => Bound(row', check.rearmed) >= clock + Interval /\ Bound(row', check.rearmed) \in Nat
  BY <1>2, <1>3, <1>4, PushTyped, BoundTyped
<1>10. SignalsKept'
  <2>1. ~Busy => due <= Bound(row', settings.rearmed)
    BY <1>2, <1>8, PushTyped DEF TimesKept
  <2>2. Busy => check.at <= Bound(row', check.rearmed)
    BY <1>2, <1>9, PushTyped DEF TimesKept
  <2>3. \A q \in Signals, r \in Nat : Bound(q, r)' = Bound(q, r)
    BY <1>1, <1>2, PlanKept
  <2>4. ~Busy' => due' <= Bound(row, settings.rearmed)'
    BY <2>1, <2>3, <1>1, <1>2, <1>4, PushTyped DEF Busy
  <2>5. Busy' => check'.at <= Bound(row, check.rearmed)'
    BY <2>2, <2>3, <1>1, <1>2, <1>4, PushTyped DEF Busy
  <2>6. check.step = "judge" /\ ~check.old =>
          check.at <= Bound(check.signal, check.rearmed)' \/ Missed(check.signal, check.rearmed, clock)'
    BY <2>3, <1>1, <1>2, PlanKept, PushTyped DEF PushInvariant, SignalsKept, Busy, HasRead
  <2>7. check.step = "mark" => check.at <= Bound(check.signal, check.rearmed)'
    BY <2>3, <1>1, <1>2, PushTyped DEF PushInvariant, SignalsKept, Busy, HasRead
  <2> QED BY <2>4, <2>5, <2>6, <2>7, <1>1 DEF PushInvariant, SignalsKept, Busy
<1>11. SilenceKept'
  <2>1. Limit(row', settings.rearmed) # None =>
          Limit(row', settings.rearmed) \in Nat /\ Limit(row', settings.rearmed) >= clock
    BY <1>2, <1>3, <1>4, PushTyped, LimitLate
  <2>2. Limit(row, settings.rearmed)' = Limit(row', settings.rearmed)
    BY <1>1, <1>2, <1>4, PlanKept, PushTyped
  <2>3. (IF Busy THEN check.at ELSE due) <= clock + Interval
    BY <1>2, PushTyped DEF TimesKept
  <2>4. (IF Busy THEN check.at ELSE due) \in Nat
    BY <1>2, PushTyped
  <2>5. Limit(row, settings.rearmed)' # None =>
          (IF Busy THEN check.at ELSE due) <= Limit(row, settings.rearmed)' + Interval + MaxDelay
    BY <2>1, <2>2, <2>3, <2>4, <1>2, PushTyped
  <2>6. check.step = "mark" => ~Missed(check.signal, check.rearmed, check.at)'
    BY <1>1, <1>2, PlanKept, PushTyped DEF PushInvariant, SilenceKept, Busy, HasRead
  <2> QED BY <2>5, <2>6, <1>1 DEF PushInvariant, SilenceKept, Busy
<1> QED BY <1>5, <1>6, <1>7, <1>10, <1>11 DEF PushInvariant

LEMMA PushTick ==
    ASSUME PushSorts, PushInvariant, Psh!Tick
    PROVE  PushInvariant'
<1>1. /\ clock' = clock + 1 /\ \A s \in sending : clock < s.at + MaxDelay
      /\ IF check.step = "idle" THEN settings.on => clock < due ELSE clock < check.at + MaxDelay
      /\ UNCHANGED <<zone, schedule, sending, signals, row, evaluated, settings, due, check, last,
                     counted, twice, early, aged, failures>>
  BY DEF Psh!Tick, Psh!ghosts
<1>2. PushShapes /\ TimesKept
  BY DEF PushInvariant
<1>3. clock \in Nat /\ clock' \in Nat /\ clock <= clock'
  BY <1>1, <1>2, PushTyped
<1>4. PushShapes'
  BY <1>1, <1>2, <1>3 DEF PushShapes
<1>5. TimesKept'
  <2>1. \A s \in sending : clock' <= s.at + MaxDelay
    BY <1>1, <1>2, PushTyped
  <2>2. ~Busy => due <= clock' + Interval /\ (settings.on => clock' <= due)
    BY <1>1, <1>2, PushTyped DEF TimesKept, Busy
  <2>3. Busy => check.at <= clock' /\ clock' <= check.at + MaxDelay
    BY <1>1, <1>2, PushTyped DEF TimesKept, Busy
  <2> QED BY <2>1, <2>2, <2>3, <1>1, <1>2 DEF TimesKept, Busy, HasRead
<1>6. CountsKept'
  BY <1>1 DEF PushInvariant, CountsKept
<1>7. SignalsKept'
  BY <1>1, <1>2, <1>3, PlanKept, PushTyped DEF PushInvariant, SignalsKept, Busy, HasRead
<1>8. SilenceKept'
  BY <1>1, <1>2, <1>3, PlanKept, PushTyped DEF PushInvariant, SilenceKept, Busy, HasRead
<1> QED BY <1>4, <1>5, <1>6, <1>7, <1>8 DEF PushInvariant

LEMMA PushEdit ==
    ASSUME PushSorts, PushInvariant, NEW on \in BOOLEAN, Psh!Edit(on)
    PROVE  PushInvariant'
<1>1. /\ settings' = [rearmed |-> IF on THEN clock ELSE settings.rearmed, on |-> on]
      /\ due' = IF on /\ ~settings.on THEN clock ELSE due
      /\ UNCHANGED <<zone, schedule, clock, sending, signals, row, evaluated, check, last,
                     counted, twice, early, aged, failures>>
  BY DEF Psh!Edit, Psh!ghosts
<1>2. PushShapes /\ TimesKept /\ clock \in Nat /\ due \in Nat /\ settings.rearmed \in Nat
      /\ Interval \in Nat /\ MaxDelay \in Nat /\ row \in Signals
  BY PushTyped DEF PushInvariant
<1>3. /\ settings'.on = on /\ settings'.rearmed = (IF on THEN clock ELSE settings.rearmed)
      /\ settings' \in [rearmed: Nat, on: BOOLEAN] /\ due' \in Nat
  BY <1>1, <1>2
<1>4. PushShapes'
  BY <1>1, <1>2, <1>3 DEF PushShapes
<1>5. TimesKept'
  <2>1. ~Busy => due' <= clock + Interval /\ (on => clock <= due')
    BY <1>1, <1>2 DEF TimesKept
  <2>2. Busy => check.rearmed = settings'.rearmed \/ settings'.rearmed >= check.at
    BY <1>2, <1>3 DEF TimesKept
  <2> QED BY <2>1, <2>2, <1>1, <1>2, <1>3 DEF TimesKept, Busy, HasRead
<1>6. CountsKept'
  BY <1>1 DEF PushInvariant, CountsKept
<1>7. PICK w \in Nat : w = settings'.rearmed
  BY <1>3
<1>8. SignalsKept'
  <2>1. ~Busy /\ on => due' <= Bound(row, w)'
    <3> SUFFICES ASSUME ~Busy, on PROVE due' <= Bound(row, w)'
      OBVIOUS
    <3>1. Bound(row, w) \in Nat /\ Bound(row, w) >= clock + Interval + 2 * MaxDelay
      BY <1>2, <1>3, <1>7, BoundTyped
    <3>2. due' <= clock + Interval
      BY <1>1, <1>2 DEF TimesKept
    <3>3. Bound(row, w)' = Bound(row, w)
      BY <1>1, <1>2, <1>7, PlanKept
    <3> QED BY <3>1, <3>2, <3>3, <1>2, <1>3
  <2> QED BY <2>1, <1>1, <1>2, <1>3, <1>7, PlanKept, PushTyped DEF PushInvariant, SignalsKept, Busy, HasRead
<1>9. SilenceKept'
  <2>1. on /\ Limit(row, w) # None =>
          (IF Busy THEN check.at ELSE due') <= Limit(row, w) + Interval + MaxDelay
    <3> SUFFICES ASSUME on, Limit(row, w) # None
                 PROVE  (IF Busy THEN check.at ELSE due') <= Limit(row, w) + Interval + MaxDelay
      OBVIOUS
    <3>1. Limit(row, w) \in Nat /\ Limit(row, w) >= clock
      BY <1>2, <1>3, <1>7, LimitLate
    <3>2. (IF Busy THEN check.at ELSE due') <= clock + Interval
      BY <1>1, <1>2, PushTyped DEF TimesKept
    <3>3. (IF Busy THEN check.at ELSE due') \in Nat
      BY <1>2, <1>3, PushTyped
    <3> QED BY <3>1, <3>2, <3>3, <1>2
  <2>2. Limit(row, w)' = Limit(row, w)
    BY <1>1, <1>2, PlanKept
  <2>3. check.step = "mark" => ~Missed(check.signal, check.rearmed, check.at)'
    BY <1>1, <1>2, PlanKept, PushTyped DEF PushInvariant, SilenceKept, Busy, HasRead
  <2> QED BY <2>1, <2>2, <2>3, <1>1, <1>3, <1>7 DEF PushInvariant, SilenceKept, Busy
<1> QED BY <1>4, <1>5, <1>6, <1>8, <1>9 DEF PushInvariant

LEMMA PushBegin ==
    ASSUME PushSorts, PushInvariant, Psh!Start
    PROVE  PushInvariant'
<1>1. /\ ~Busy /\ settings.on /\ clock >= due
      /\ check' = [step |-> "read", at |-> clock, rearmed |-> settings.rearmed]
      /\ UNCHANGED <<zone, schedule, clock, sending, signals, row, evaluated, settings, due, last,
                     counted, twice, early, aged, failures>>
  BY DEF Psh!Start, Psh!ghosts, Busy
<1>2. PushShapes /\ TimesKept /\ clock \in Nat /\ due \in Nat /\ settings.rearmed \in Nat
      /\ Interval \in Nat /\ MaxDelay \in Nat /\ row \in Signals
  BY PushTyped DEF PushInvariant
<1>3. /\ check'.step = "read" /\ check'.at = clock /\ check'.rearmed = settings.rearmed
      /\ check' \in Looks /\ clock = due /\ Busy' /\ ~HasRead'
  BY <1>1, <1>2 DEF Looks, TimesKept, Busy, HasRead
<1>4. PushShapes'
  BY <1>1, <1>2, <1>3 DEF PushShapes
<1>5. TimesKept'
  BY <1>1, <1>2, <1>3 DEF TimesKept
<1>6. CountsKept'
  BY <1>1, <1>3 DEF PushInvariant, CountsKept
<1>7. SignalsKept'
  BY <1>1, <1>2, <1>3, PlanKept DEF PushInvariant, SignalsKept
<1>8. SilenceKept'
  BY <1>1, <1>2, <1>3, PlanKept DEF PushInvariant, SilenceKept
<1> QED BY <1>4, <1>5, <1>6, <1>7, <1>8 DEF PushInvariant

LEMMA PushRead ==
    ASSUME PushSorts, PushInvariant, Psh!ReadSignal
    PROVE  PushInvariant'
<1>1. /\ check.step = "read"
      /\ check' = [step |-> "judge", at |-> check.at, rearmed |-> check.rearmed, signal |-> row,
                   old |-> evaluated >= row.id]
      /\ UNCHANGED <<zone, schedule, clock, sending, signals, row, evaluated, settings, due, last,
                     counted, twice, early, aged, failures>>
  BY DEF Psh!ReadSignal, Psh!ghosts
<1>2. PushShapes /\ TimesKept /\ clock \in Nat /\ due \in Nat /\ settings.rearmed \in Nat
      /\ Interval \in Nat /\ MaxDelay \in Nat /\ row \in Signals /\ evaluated \in Nat /\ row.id \in Nat
      /\ check.at \in Nat /\ check.rearmed \in Nat
  BY <1>1, PushTyped DEF PushInvariant, Busy
<1>3. /\ check'.step = "judge" /\ check'.at = check.at /\ check'.rearmed = check.rearmed
      /\ check'.signal = row /\ check'.old = (evaluated >= row.id)
      /\ check' \in Looks /\ Busy /\ Busy' /\ HasRead'
  BY <1>1, <1>2 DEF Looks, Busy, HasRead
<1>4. PushShapes'
  BY <1>1, <1>2, <1>3 DEF PushShapes
<1>5. TimesKept'
  BY <1>1, <1>2, <1>3 DEF TimesKept
<1>6. CountsKept'
  BY <1>1, <1>3 DEF PushInvariant, CountsKept
<1>7. SignalsKept'
  <2>1. /\ Bound(check.signal, check.rearmed)' = Bound(row, check.rearmed)
        /\ Missed(check.signal, check.rearmed, clock)' <=> Missed(row, check.rearmed, clock)
    <3>1. PICK q \in Signals, r \in Nat : q = row /\ r = check.rearmed
      BY <1>2
    <3>2. Bound(q, r)' = Bound(q, r) /\ (Missed(q, r, clock)' <=> Missed(q, r, clock))
      BY <1>1, <1>2, PlanKept
    <3>3. Bound(q, r)' = Bound(check.signal, check.rearmed)'
      BY <3>1, <1>3 DEF Bound, Waits
    <3>4. Limit(q, r)' = Limit(check.signal, check.rearmed)'
      BY <3>1, <1>3 DEF Limit, Waits
    <3>5. Missed(q, r, clock)' <=> Missed(check.signal, check.rearmed, clock)'
      BY <3>4 DEF Missed
    <3> QED BY <3>1, <3>2, <3>3, <3>5
  <2>2. evaluated < row.id => check.at <= Bound(row, check.rearmed) \/ Missed(row, check.rearmed, clock)
    BY <1>1 DEF PushInvariant, SignalsKept
  <2>3. ~check'.old => check'.at <= Bound(check.signal, check.rearmed)'
                       \/ Missed(check.signal, check.rearmed, clock)'
    <3>1. ~check'.old => evaluated < row.id
      <4>1. check'.old = (evaluated >= row.id)
        BY <1>1
      <4>2. ~(evaluated >= row.id) => evaluated < row.id
        BY <1>2
      <4> QED BY <4>1, <4>2, Zenon
    <3>2. check'.at = check.at
      BY <1>3
    <3> QED BY <3>1, <3>2, <2>1, <2>2
  <2>4. aged' = FALSE
    BY <1>1 DEF PushInvariant, SignalsKept, PushShapes
  <2> QED BY <2>3, <2>4, <1>3 DEF SignalsKept
<1>8. SilenceKept'
  <2>1. Limit(row, settings.rearmed)' = Limit(row, settings.rearmed)
        /\ (Missed(row, settings.rearmed, clock)' <=> Missed(row, settings.rearmed, clock))
    BY <1>1, <1>2, PlanKept
  <2>2. settings.on /\ Limit(row, settings.rearmed) # None =>
          \/ last.status = "down" /\ Missed(row, settings.rearmed, clock)
          \/ check.at <= Limit(row, settings.rearmed) + Interval + MaxDelay
    BY <1>3 DEF PushInvariant, SilenceKept
  <2>3. early' = FALSE
    BY <1>1 DEF PushInvariant, SilenceKept, PushShapes
  <2> QED BY <2>1, <2>2, <2>3, <1>1, <1>3 DEF SilenceKept
<1> QED BY <1>4, <1>5, <1>6, <1>7, <1>8 DEF PushInvariant

\* A check that answers: in time for whatever it did not count, and with a
\* failure if it began after the end of the wait.
LEMMA PushAnswered ==
    ASSUME PushSorts, PushInvariant, Busy, NEW result \in {"up", "down", "unknown"}, NEW repeated \in BOOLEAN,
           Psh!Answer(result, repeated),
           UNCHANGED <<zone, schedule, clock, sending, signals, row, settings>>,
           failures' \in {failures, failures + 1}, evaluated' \in Nat, CountsKept',
           twice' \in BOOLEAN, early' = FALSE, aged' = FALSE,
           HasRead => check.signal = row,
           check.rearmed = settings.rearmed,
           evaluated' < row.id =>
               \/ clock <= Waits(row, check.rearmed) + 2 * MaxDelay + Spent(failures')
               \/ Missed(row, check.rearmed, clock),
           Missed(row, check.rearmed, check.at) => result = "down"
    PROVE  PushInvariant'
<1>1. PushShapes /\ TimesKept /\ row \in Signals /\ clock \in Nat /\ Interval \in Nat /\ MaxDelay \in Nat
      /\ check.at \in Nat /\ check.rearmed \in Nat /\ failures \in Nat
  BY PushTyped DEF PushInvariant
<1>2. /\ last' = [status |-> result, repeated |-> repeated] /\ due' = clock + Interval
      /\ check' = [step |-> "idle"]
  BY DEF Psh!Answer
<1>3. ~Busy' /\ ~HasRead' /\ check' \in Looks /\ last'.status = result /\ check'.step = "idle"
      /\ failures' \in Nat /\ due' \in Nat
  BY <1>1, <1>2 DEF Busy, HasRead, Looks
<1>4. PushShapes'
  BY <1>1, <1>2, <1>3 DEF PushShapes
<1>5. TimesKept'
  BY <1>1, <1>2, <1>3 DEF TimesKept
<1>6. SignalsKept'
  <2> SUFFICES ASSUME evaluated' < row.id
               PROVE  due' <= Bound(row, settings.rearmed)' \/ Missed(row, settings.rearmed, clock)'
    BY <1>3 DEF SignalsKept
  <2>1. CASE Missed(row, check.rearmed, clock)
    BY <2>1, <1>1, PlanKept
  <2>2. CASE clock <= Waits(row, check.rearmed) + 2 * MaxDelay + Spent(failures')
    <3>1. Spent(failures') \in Nat /\ Waits(row, check.rearmed) \in Nat
      BY <1>1, <1>3, SpentGrows DEF Waits, Signals
    <3>2. Bound(row, settings.rearmed)' = Waits(row, check.rearmed) + Interval + 2 * MaxDelay + Spent(failures')
      BY DEF Bound, Waits
    <3> QED BY <2>2, <3>1, <3>2, <1>1, <1>2
  <2> QED BY <2>1, <2>2
<1>7. SilenceKept'
  <2> SUFFICES ASSUME Limit(row, settings.rearmed)' # None
               PROVE  \/ result = "down" /\ Missed(row, settings.rearmed, clock)'
                      \/ due' <= Limit(row, settings.rearmed)' + Interval + MaxDelay
    BY <1>3 DEF SilenceKept
  <2>1. Limit(row, settings.rearmed)' = Limit(row, check.rearmed) /\ Limit(row, check.rearmed) # None
    BY <1>1, PlanKept
  <2>2. Limit(row, check.rearmed) \in Nat
    BY <2>1, <1>1, LimitLate
  <2>3. CASE check.at <= Limit(row, check.rearmed)
    BY <2>1, <2>2, <2>3, <1>1, <1>2 DEF TimesKept
  <2>4. CASE ~(check.at <= Limit(row, check.rearmed))
    <3>1. Missed(row, check.rearmed, check.at) /\ Missed(row, check.rearmed, clock)
      BY <2>1, <2>2, <2>4, <1>1 DEF Missed, TimesKept
    <3> QED BY <3>1, <1>1, PlanKept
  <2> QED BY <2>3, <2>4
<1> QED BY <1>4, <1>5, <1>6, <1>7 DEF PushInvariant

\* One that answers when the monitor was edited, or another signal came, since.
LEMMA PushOvertaken ==
    ASSUME PushSorts, PushInvariant, Busy, NEW result \in {"up", "down", "unknown"}, NEW repeated \in BOOLEAN,
           Psh!Answer(result, repeated),
           UNCHANGED <<zone, schedule, clock, sending, signals, row, settings>>,
           failures' \in {failures, failures + 1}, evaluated' \in Nat, CountsKept',
           twice' \in BOOLEAN, early' = FALSE, aged' = FALSE,
           (HasRead /\ check.signal # row) \/ check.rearmed # settings.rearmed
    PROVE  PushInvariant'
<1>1. PushShapes /\ TimesKept /\ row \in Signals /\ clock \in Nat /\ Interval \in Nat /\ MaxDelay \in Nat
      /\ check.at \in Nat /\ check.rearmed \in Nat /\ failures \in Nat /\ settings.rearmed \in Nat
      /\ row.at \in Nat
  BY PushTyped DEF PushInvariant
<1>2. /\ last' = [status |-> result, repeated |-> repeated] /\ due' = clock + Interval
      /\ check' = [step |-> "idle"]
  BY DEF Psh!Answer
<1>3. ~Busy' /\ ~HasRead' /\ check' \in Looks /\ last'.status = result /\ check'.step = "idle"
      /\ failures' \in Nat /\ due' \in Nat
  BY <1>1, <1>2 DEF Busy, HasRead, Looks
<1>4. PushShapes'
  BY <1>1, <1>2, <1>3 DEF PushShapes
<1>5. TimesKept'
  BY <1>1, <1>2, <1>3 DEF TimesKept
<1>6. check.at <= row.at + MaxDelay \/ check.at <= settings.rearmed
  BY <1>1 DEF TimesKept
<1>7. clock <= row.at + 2 * MaxDelay \/ clock <= settings.rearmed + MaxDelay
  BY <1>1, <1>6 DEF TimesKept
<1>8. SignalsKept'
  <2>1. Spent(failures') \in Nat /\ Waits(row, settings.rearmed) \in Nat
        /\ Waits(row, settings.rearmed) >= row.at /\ Waits(row, settings.rearmed) >= settings.rearmed
    BY <1>1, <1>3, SpentGrows DEF Waits, Signals
  <2>2. Bound(row, settings.rearmed)' = Waits(row, settings.rearmed) + Interval + 2 * MaxDelay + Spent(failures')
    BY DEF Bound, Waits
  <2>3. due' <= Bound(row, settings.rearmed)'
    BY <2>1, <2>2, <1>1, <1>2, <1>7
  <2> QED BY <2>3, <1>3 DEF SignalsKept
<1>9. SilenceKept'
  <2> SUFFICES ASSUME Limit(row, settings.rearmed)' # None
               PROVE  due' <= Limit(row, settings.rearmed)' + Interval + MaxDelay
    BY <1>3 DEF SilenceKept
  <2>1. Limit(row, settings.rearmed)' = Limit(row, settings.rearmed) /\ Limit(row, settings.rearmed) # None
    BY <1>1, PlanKept
  <2>2. /\ Limit(row, settings.rearmed) \in Nat /\ Limit(row, settings.rearmed) >= row.at + MaxDelay
        /\ Limit(row, settings.rearmed) >= settings.rearmed + MaxDelay
    BY <2>1, <1>1, LimitLate
  <2> QED BY <2>1, <2>2, <1>1, <1>2, <1>7
<1> QED BY <1>4, <1>5, <1>8, <1>9 DEF PushInvariant

LEMMA PushCannotRead ==
    ASSUME PushSorts, PushInvariant, Psh!CannotRead
    PROVE  PushInvariant'
<1>1. /\ check.step = "read" /\ failures' = failures + 1 /\ Psh!Answer("down", FALSE)
      /\ UNCHANGED <<zone, schedule, clock, sending, signals, row, evaluated, settings,
                     counted, twice, early, aged>>
  BY DEF Psh!CannotRead, Psh!ghosts
<1>2. PushShapes /\ TimesKept /\ row \in Signals /\ clock \in Nat /\ Interval \in Nat /\ MaxDelay \in Nat
      /\ check.at \in Nat /\ check.rearmed \in Nat /\ failures \in Nat /\ evaluated \in Nat /\ row.id \in Nat
      /\ Busy /\ ~HasRead
  BY <1>1, PushTyped DEF PushInvariant, Busy, HasRead
<1>3. check' = [step |-> "idle"] /\ CountsKept'
  BY <1>1 DEF Psh!Answer, PushInvariant, CountsKept
<1>4. twice' \in BOOLEAN /\ early' = FALSE /\ aged' = FALSE
  BY <1>1 DEF PushInvariant, PushShapes, SignalsKept, SilenceKept
<1>5. CASE check.rearmed = settings.rearmed
  <2>1. evaluated' < row.id => \/ clock <= Waits(row, check.rearmed) + 2 * MaxDelay + Spent(failures')
                               \/ Missed(row, check.rearmed, clock)
    <3> SUFFICES ASSUME evaluated' < row.id, ~Missed(row, check.rearmed, clock)
                 PROVE  clock <= Waits(row, check.rearmed) + 2 * MaxDelay + Spent(failures')
      OBVIOUS
    <3>1. check.at <= Bound(row, check.rearmed)
      BY <1>1 DEF PushInvariant, SignalsKept
    <3>2. /\ Bound(row, check.rearmed) \in Nat /\ Waits(row, check.rearmed) \in Nat
          /\ Bound(row, check.rearmed) = Waits(row, check.rearmed) + Interval + 2 * MaxDelay + Spent(failures)
      BY <1>2, BoundTyped DEF Waits, Signals
    <3>3. Spent(failures) \in Nat /\ Spent(failures') = Spent(failures) + Interval + MaxDelay
      BY <1>1, <1>2, SpentGrows
    <3> QED BY <3>1, <3>2, <3>3, <1>2 DEF TimesKept
  <2> QED BY <2>1, <1>1, <1>2, <1>3, <1>4, <1>5, PushAnswered
<1>6. CASE check.rearmed # settings.rearmed
  BY <1>1, <1>2, <1>3, <1>4, <1>6, PushOvertaken
<1> QED BY <1>5, <1>6

\* What a check did not count yet, and read in time, costs no more than a check.
LEMMA PushUncounted ==
    ASSUME PushSorts, PushInvariant, HasRead, check.signal = row, failures' = failures + 1,
           check.at <= Bound(row, check.rearmed)
    PROVE  clock <= Waits(row, check.rearmed) + 2 * MaxDelay + Spent(failures')
<1>1. Busy /\ PushShapes /\ TimesKept
  BY DEF PushInvariant, HasRead, Busy
<1>2. row \in Signals /\ clock \in Nat /\ Interval \in Nat /\ MaxDelay \in Nat
      /\ check.at \in Nat /\ check.rearmed \in Nat /\ failures \in Nat
  BY <1>1, PushTyped
<1>3. /\ Bound(row, check.rearmed) \in Nat /\ Waits(row, check.rearmed) \in Nat
      /\ Bound(row, check.rearmed) = Waits(row, check.rearmed) + Interval + 2 * MaxDelay + Spent(failures)
  BY <1>1, <1>2, BoundTyped DEF Waits, Signals
<1>4. Spent(failures) \in Nat /\ Spent(failures + 1) = Spent(failures) + Interval + MaxDelay
  BY <1>2, SpentGrows
<1> QED BY <1>1, <1>2, <1>3, <1>4 DEF TimesKept

\* The wait that the ghost of Judge looks at is that of the signal.
LEMMA SameWait ==
    ASSUME PushSorts, PushShapes, NEW s \in Signals, NEW r \in Nat, s.id = 0 => s.at = 0
    PROVE  Psh!Silent([id |-> 1, status |-> "up", at |-> Psh!Max({s.at, r})], 0)
             <=> Psh!Silent(s, r)
<1> DEFINE q == [id |-> 1, status |-> "up", at |-> Psh!Max({s.at, r})]
<1>1. Psh!Max({s.at, r}) = Waits(s, r) /\ Waits(s, r) \in Nat
  BY PushMaxTwo DEF Signals, Waits
<1>2. q.id = 1 /\ q.at = Waits(s, r) /\ q \in Signals
  BY <1>1 DEF Signals, Psh!Statuses
<1> HIDE DEF q
<1>3. Waits(q, 0) = Waits(s, r)
  BY <1>1, <1>2 DEF Waits
<1>4. Psh!Silent(q, 0) <=> Missed(q, 0, clock)
  BY <1>2, WaitsSince
<1>5. Psh!Silent(s, r) <=> Missed(s, r, clock)
  BY WaitsSince
<1>6. Psh!Silent(q, 0) <=> Psh!Silent(s, r)
  BY <1>3, <1>4, <1>5 DEF Missed, Limit
<1> QED BY <1>6 DEF q

LEMMA PushJudge ==
    ASSUME PushSorts, PushInvariant, Psh!Judge
    PROVE  PushInvariant'
<1>1. /\ check.step = "judge"
      /\ UNCHANGED <<zone, schedule, clock, sending, signals, row, evaluated, settings, counted,
                     twice, aged, failures>>
  BY DEF Psh!Judge
<1>2. PushShapes /\ TimesKept /\ Busy /\ HasRead
  BY <1>1 DEF PushInvariant, Busy, HasRead
<1>3. row \in Signals /\ clock \in Nat /\ Interval \in Nat /\ MaxDelay \in Nat /\ settings.rearmed \in Nat
      /\ check.at \in Nat /\ check.rearmed \in Nat /\ failures \in Nat /\ evaluated \in Nat /\ row.id \in Nat
      /\ check.signal \in Signals /\ check.old \in BOOLEAN /\ check.at <= clock
      /\ check.signal.status \in {"up", "down"}
  BY <1>2, PushTyped DEF TimesKept, Signals, Psh!Statuses
<1>4. check.signal.id = 0 => check.signal.at = 0
  BY <1>2 DEF TimesKept
<1>5. Psh!Silent(check.signal, check.rearmed) <=> Missed(check.signal, check.rearmed, clock)
  BY <1>2, <1>3, <1>4, WaitsSince
<1>6. early = FALSE /\ twice = FALSE /\ aged = FALSE
  BY <1>2 DEF PushInvariant, SilenceKept, SignalsKept, CountsKept, PushShapes
<1>7. check.old <=> evaluated >= check.signal.id
  BY <1>1 DEF PushInvariant, CountsKept
<1>8. ~check.old => check.at <= Bound(check.signal, check.rearmed) \/ Missed(check.signal, check.rearmed, clock)
  BY <1>1 DEF PushInvariant, SignalsKept
<1>9. Missed(check.signal, check.rearmed, check.at) => Missed(check.signal, check.rearmed, clock)
  <2>1. Limit(check.signal, check.rearmed) # None => Limit(check.signal, check.rearmed) \in Nat
    BY <1>2, <1>3, LimitLate
  <2> QED BY <2>1, <1>3 DEF Missed
<1>10. ASSUME NEW result \in {"up", "down", "unknown"}, NEW repeated \in BOOLEAN,
              Psh!Answer(result, repeated), early' = FALSE,
              Missed(check.signal, check.rearmed, clock) => result = "down",
              check.old \/ Missed(check.signal, check.rearmed, clock)
       PROVE  PushInvariant'
  <2>1. CountsKept'
    BY <1>1, <1>10 DEF Psh!Answer, PushInvariant, CountsKept
  <2>2. CASE check.signal = row /\ check.rearmed = settings.rearmed
    <3>1. evaluated' < row.id => Missed(row, check.rearmed, clock)
      BY <1>1, <1>3, <1>7, <1>10, <2>2
    <3>2. Missed(row, check.rearmed, check.at) => result = "down"
      BY <1>9, <1>10, <2>2
    <3> QED BY <1>1, <1>2, <1>3, <1>6, <1>10, <2>1, <2>2, <3>1, <3>2, PushAnswered
  <2>3. CASE ~(check.signal = row /\ check.rearmed = settings.rearmed)
    BY <1>1, <1>2, <1>3, <1>6, <1>10, <2>1, <2>3, PushOvertaken
  <2> QED BY <2>2, <2>3
<1>11. CASE Missed(check.signal, check.rearmed, clock)
  <2>1. Psh!Silent(check.signal, check.rearmed)
    BY <1>5, <1>11
  <2>2. Psh!Answer("down", FALSE)
        /\ early' = (early \/ ~Psh!Silent([id |-> 1, status |-> "up",
                                           at |-> Psh!Max({check.signal.at, check.rearmed})], 0))
    BY <2>1 DEF Psh!Judge
  <2>3. early' = FALSE
    BY <2>1, <2>2, <1>2, <1>3, <1>4, <1>6, SameWait
  <2> QED BY <2>2, <2>3, <1>10, <1>11
<1>12. CASE ~Missed(check.signal, check.rearmed, clock) /\ check.signal.id = 0
  <2>1. Psh!Answer("unknown", FALSE) /\ early' = early
    BY <1>5, <1>12 DEF Psh!Judge
  <2>2. check.old
    BY <1>3, <1>7, <1>12
  <2> QED BY <2>1, <2>2, <1>6, <1>10, <1>12
<1>13. CASE ~Missed(check.signal, check.rearmed, clock) /\ check.signal.id # 0 /\ check.old
  <2>1. Psh!Answer(check.signal.status, TRUE) /\ early' = early
    BY <1>5, <1>13 DEF Psh!Judge
  <2> QED BY <2>1, <1>3, <1>6, <1>10, <1>13
<1>14. CASE ~Missed(check.signal, check.rearmed, clock) /\ check.signal.id # 0 /\ ~check.old
  <2>1. check' = [check EXCEPT !.step = "mark"] /\ UNCHANGED <<last, due, early>>
    BY <1>5, <1>14 DEF Psh!Judge
  <2>2. check \in [step: {"judge", "mark"}, at: Nat, rearmed: Nat, signal: Signals, old: BOOLEAN]
    BY <1>1, <1>2 DEF PushShapes, Looks
  <2>3. check' = [step |-> "mark", at |-> check.at, rearmed |-> check.rearmed,
                  signal |-> check.signal, old |-> check.old]
    BY <2>1, <2>2
  <2>4. /\ check'.step = "mark" /\ check'.at = check.at /\ check'.rearmed = check.rearmed
        /\ check'.signal = check.signal /\ check'.old = check.old
        /\ check' \in Looks /\ Busy' /\ HasRead'
    BY <2>3, <1>3 DEF Looks, Busy, HasRead
  <2>5. PushShapes'
    BY <1>1, <1>2, <2>1, <2>4 DEF PushShapes
  <2>6. TimesKept'
    BY <1>1, <1>2, <2>1, <2>4 DEF TimesKept
  <2>7. CountsKept'
    BY <1>1, <1>3, <1>7, <1>14, <2>4 DEF PushInvariant, CountsKept, Signals
  <2>8. SignalsKept'
    <3>1. \A q \in Signals, r \in Nat : Bound(q, r)' = Bound(q, r)
      BY <1>1, <1>2, PlanKept
    <3>2. check'.at <= Bound(check.signal, check.rearmed)'
      BY <3>1, <2>4, <1>3, <1>8, <1>14
    <3> QED BY <3>2, <2>4, <1>1, <1>6 DEF SignalsKept
  <2>9. SilenceKept'
    <3>1. Limit(row, settings.rearmed)' = Limit(row, settings.rearmed)
          /\ (Missed(row, settings.rearmed, clock)' <=> Missed(row, settings.rearmed, clock))
      BY <1>1, <1>2, <1>3, PlanKept
    <3>2. settings.on /\ Limit(row, settings.rearmed) # None =>
            \/ last.status = "down" /\ Missed(row, settings.rearmed, clock)
            \/ check.at <= Limit(row, settings.rearmed) + Interval + MaxDelay
      BY <1>2 DEF PushInvariant, SilenceKept
    <3>3. ~Missed(check.signal, check.rearmed, check.at)'
      BY <1>1, <1>2, <1>3, <1>9, <1>14, <2>4, PlanKept
    <3> QED BY <3>1, <3>2, <3>3, <2>1, <2>4, <1>1, <1>6 DEF SilenceKept
  <2> QED BY <2>5, <2>6, <2>7, <2>8, <2>9 DEF PushInvariant
<1> QED BY <1>3, <1>11, <1>12, <1>13, <1>14

\* A check that read a signal in time counts one that is fresh.
LEMMA PushFresh ==
    ASSUME PushSorts, PushInvariant, check.step = "mark"
    PROVE  ~(clock > Psh!Max({check.signal.at, check.rearmed}) + Interval + 3 * MaxDelay
                       + failures * (Interval + MaxDelay))
<1>1. Busy /\ HasRead /\ PushShapes /\ TimesKept
  BY DEF PushInvariant, Busy, HasRead
<1>2. clock \in Nat /\ Interval \in Nat /\ MaxDelay \in Nat /\ check.at \in Nat /\ check.rearmed \in Nat
      /\ failures \in Nat /\ check.signal \in Signals
  BY <1>1, PushTyped
<1>3. Psh!Max({check.signal.at, check.rearmed}) = Waits(check.signal, check.rearmed)
  BY <1>2, PushMaxTwo DEF Signals, Waits
<1>4. check.at <= Bound(check.signal, check.rearmed)
  BY DEF PushInvariant, SignalsKept
<1>5. Waits(check.signal, check.rearmed) \in Nat /\ Spent(failures) \in Nat
  BY <1>2, SpentGrows DEF Waits, Signals
<1>6. clock <= check.at + MaxDelay
  BY <1>1 DEF TimesKept
<1>7. check.at <= Waits(check.signal, check.rearmed) + Interval + 2 * MaxDelay + Spent(failures)
  BY <1>4 DEF Bound
<1>8. clock <= Waits(check.signal, check.rearmed) + Interval + 3 * MaxDelay + Spent(failures)
  BY <1>2, <1>5, <1>6, <1>7
<1>9. ~(clock > Waits(check.signal, check.rearmed) + Interval + 3 * MaxDelay + Spent(failures))
  BY <1>2, <1>5, <1>8
<1> QED BY <1>3, <1>9 DEF Spent

LEMMA PushMark ==
    ASSUME PushSorts, PushInvariant, Psh!MarkEvaluated
    PROVE  PushInvariant'
<1>1. /\ check.step = "mark" /\ evaluated' = Psh!Max({evaluated, check.signal.id})
      /\ counted' = counted \cup {check.signal.id}
      /\ Psh!Answer(check.signal.status, FALSE)
      /\ twice' = (twice \/ evaluated >= check.signal.id)
      /\ UNCHANGED <<zone, schedule, clock, sending, signals, row, settings, early, failures>>
  BY DEF Psh!MarkEvaluated, Psh!Counts, Psh!Marked
<1>2. PushShapes /\ TimesKept /\ Busy /\ HasRead
  BY <1>1 DEF PushInvariant, Busy, HasRead
<1>3. row \in Signals /\ clock \in Nat /\ check.at \in Nat /\ check.rearmed \in Nat
      /\ failures \in Nat /\ evaluated \in Nat /\ row.id \in Nat
      /\ check.signal \in Signals /\ check.signal.id \in Nat /\ check.signal.status \in {"up", "down", "unknown"}
  BY <1>2, PushTyped DEF Signals, Psh!Statuses
<1>4. evaluated < check.signal.id
  BY <1>1 DEF PushInvariant, CountsKept
<1>5. evaluated' = check.signal.id /\ evaluated' \in Nat
  BY <1>1, <1>3, <1>4, PushMaxTwo
<1>6. twice' = FALSE /\ early' = FALSE
  BY <1>1, <1>2, <1>3, <1>4 DEF PushInvariant, CountsKept, SilenceKept, PushShapes
<1>7. aged' = FALSE
  <2>1. aged' = (aged \/ clock > Psh!Max({check.signal.at, check.rearmed}) + Interval + 3 * MaxDelay
                                  + failures * (Interval + MaxDelay))
    BY DEF Psh!MarkEvaluated, Psh!Counts
  <2> QED BY <2>1, <1>1, <1>2, PushFresh DEF PushInvariant, SignalsKept, PushShapes
<1>8. check' = [step |-> "idle"]
  BY <1>1 DEF Psh!Answer
<1>9. CountsKept'
  BY <1>1, <1>5, <1>6, <1>8 DEF CountsKept
<1>10. CASE check.signal = row /\ check.rearmed = settings.rearmed
  <2>1. ~(evaluated' < row.id)
    BY <1>3, <1>5, <1>10
  <2>2. ~Missed(row, check.rearmed, check.at)
    BY <1>1, <1>10 DEF PushInvariant, SilenceKept
  <2> QED BY <1>1, <1>2, <1>3, <1>5, <1>6, <1>7, <1>9, <1>10, <2>1, <2>2, PushAnswered
<1>11. CASE ~(check.signal = row /\ check.rearmed = settings.rearmed)
  BY <1>1, <1>2, <1>3, <1>5, <1>6, <1>7, <1>9, <1>11, PushOvertaken
<1> QED BY <1>10, <1>11

LEMMA PushCannotMark ==
    ASSUME PushSorts, PushInvariant, Psh!CannotMark
    PROVE  PushInvariant'
<1>1. /\ check.step = "mark" /\ failures' = failures + 1
      /\ counted' = counted \cup {check.signal.id}
      /\ Psh!Answer(check.signal.status, FALSE)
      /\ UNCHANGED <<zone, schedule, clock, sending, signals, row, evaluated, settings, twice, early>>
  BY DEF Psh!CannotMark, Psh!Counts
<1>2. PushShapes /\ TimesKept /\ Busy /\ HasRead
  BY <1>1 DEF PushInvariant, Busy, HasRead
<1>3. row \in Signals /\ clock \in Nat /\ Interval \in Nat /\ MaxDelay \in Nat
      /\ check.at \in Nat /\ check.rearmed \in Nat
      /\ failures \in Nat /\ evaluated \in Nat /\ row.id \in Nat
      /\ check.signal \in Signals /\ check.signal.id \in Nat /\ check.signal.status \in {"up", "down", "unknown"}
  BY <1>2, PushTyped DEF Signals, Psh!Statuses
<1>4. twice' = FALSE /\ early' = FALSE
  BY <1>1, <1>2 DEF PushInvariant, CountsKept, SilenceKept, PushShapes
<1>5. aged' = FALSE
  <2>1. aged' = (aged \/ clock > Psh!Max({check.signal.at, check.rearmed}) + Interval + 3 * MaxDelay
                                  + failures * (Interval + MaxDelay))
    BY DEF Psh!CannotMark, Psh!Counts
  <2>2. ~(clock > Psh!Max({check.signal.at, check.rearmed}) + Interval + 3 * MaxDelay
                    + failures * (Interval + MaxDelay))
    BY <1>1, PushFresh
  <2> QED BY <2>1, <2>2, <1>1, <1>2 DEF PushInvariant, SignalsKept, PushShapes
<1>6. check' = [step |-> "idle"]
  BY <1>1 DEF Psh!Answer
<1>7. CountsKept'
  BY <1>1, <1>4, <1>6 DEF PushInvariant, CountsKept
<1>8. check.at <= Bound(check.signal, check.rearmed) /\ ~Missed(check.signal, check.rearmed, check.at)
  BY <1>1 DEF PushInvariant, SignalsKept, SilenceKept
<1>9. CASE check.signal = row /\ check.rearmed = settings.rearmed
  <2>1. clock <= Waits(row, check.rearmed) + 2 * MaxDelay + Spent(failures')
    BY <1>1, <1>2, <1>8, <1>9, PushUncounted
  <2>2. ~Missed(row, check.rearmed, check.at)
    BY <1>8, <1>9
  <2> QED BY <1>1, <1>2, <1>3, <1>4, <1>5, <1>7, <1>9, <2>1, <2>2, PushAnswered
<1>10. CASE ~(check.signal = row /\ check.rearmed = settings.rearmed)
  BY <1>1, <1>2, <1>3, <1>4, <1>5, <1>7, <1>10, PushOvertaken
<1> QED BY <1>9, <1>10

LEMMA PushStep ==
    ASSUME PushSorts, PushInvariant, [Psh!Next]_Psh!vars
    PROVE  PushInvariant'
<1>1. CASE Psh!Tick
  BY <1>1, PushTick
<1>2. CASE Psh!Start \/ Psh!ReadSignal \/ Psh!CannotRead
  BY <1>2, PushBegin, PushRead, PushCannotRead
<1>3. CASE Psh!Judge \/ Psh!MarkEvaluated \/ Psh!CannotMark
  BY <1>3, PushJudge, PushMark, PushCannotMark
<1>4. CASE \E result \in Psh!Statuses : Psh!Send(result)
  BY <1>4, PushSend
<1>5. CASE \E s \in sending : Psh!RecordPush(s)
  BY <1>5, PushRecord
<1>6. CASE \E on \in BOOLEAN : Psh!Edit(on)
  BY <1>6, PushEdit
<1>7. CASE UNCHANGED Psh!vars
  <2>1. UNCHANGED <<zone, schedule, clock, sending, signals, row, evaluated, settings, due, check, last,
                    counted, twice, early, aged, failures>>
    BY <1>7 DEF Psh!vars
  <2>2. PushShapes' /\ TimesKept' /\ CountsKept'
    BY <2>1 DEF PushInvariant, PushShapes, TimesKept, CountsKept, Busy, HasRead
  <2>3. \A q, r : Limit(q, r)' = Limit(q, r)
    BY <2>1, PlanStays DEF Limit, Waits
  <2>4. \A q, r, t : Missed(q, r, t)' <=> Missed(q, r, t)
    BY <2>3 DEF Missed
  <2>5. \A q, r : Bound(q, r)' = Bound(q, r)
    BY <2>1 DEF Bound
  <2>6. SignalsKept'
    BY <2>1, <2>4, <2>5 DEF PushInvariant, SignalsKept, Busy
  <2>7. SilenceKept'
    BY <2>1, <2>3, <2>4 DEF PushInvariant, SilenceKept, Busy
  <2> QED BY <2>2, <2>6, <2>7 DEF PushInvariant
<1> QED BY <1>1, <1>2, <1>3, <1>4, <1>5, <1>6, <1>7 DEF Psh!Next

\* The properties of the run, from the invariant.
LEMMA PushFollows ==
    ASSUME PushSorts, PushInvariant
    PROVE  Psh!SignalsCountOnce /\ Psh!SilenceIsReal /\ Psh!SignOfLifeIsFresh /\ Psh!SilenceIsFound
<1>1. Psh!SignalsCountOnce /\ Psh!SilenceIsReal /\ Psh!SignOfLifeIsFresh
  BY DEF PushInvariant, CountsKept, SignalsKept, SilenceKept,
         Psh!SignalsCountOnce, Psh!SilenceIsReal, Psh!SignOfLifeIsFresh
<1>2. Psh!SilenceIsFound
  <2>1. PushShapes /\ TimesKept /\ row \in Signals /\ clock \in Nat /\ settings.rearmed \in Nat
        /\ due \in Nat /\ Interval \in Nat /\ MaxDelay \in Nat /\ (row.id = 0 => row.at = 0)
    BY PushTyped DEF PushInvariant, TimesKept
  <2>2. Psh!Deadline(Psh!Since(row, settings.rearmed)) = Limit(row, settings.rearmed)
    BY <2>1, WaitsSince DEF Limit
  <2> SUFFICES ASSUME settings.on, Limit(row, settings.rearmed) # None,
                      clock > Limit(row, settings.rearmed) + Interval + 2 * MaxDelay
               PROVE  last.status = "down"
    BY <2>2 DEF Psh!SilenceIsFound
  <2>3. Limit(row, settings.rearmed) \in Nat
    BY <2>1, LimitLate
  <2>4. \/ last.status = "down"
        \/ (IF Busy THEN check.at ELSE due) <= Limit(row, settings.rearmed) + Interval + MaxDelay
    BY DEF PushInvariant, SilenceKept
  <2>5. Busy => check.at \in Nat /\ clock <= check.at + MaxDelay
    BY <2>1, PushTyped DEF TimesKept
  <2>6. ~Busy => clock <= due
    BY <2>1 DEF TimesKept
  <2> QED BY <2>1, <2>3, <2>4, <2>5, <2>6
<1> QED BY <1>1, <1>2

\* The waits, the marks and what a check may still find late are kept by every
\* signal, edit, check and failure (push.go Check, observe; timeseries.go
\* RecordPush, MarkPushEvaluated; monitor.go Update).
THEOREM PushKept ==
    ASSUME PushSorts
    PROVE  Psh!Spec => []PushInvariant
<1>1. Psh!Init => PushInvariant
  BY PushStart
<1>2. PushInvariant /\ [Psh!Next]_Psh!vars => PushInvariant'
  BY PushStep
<1> QED BY <1>1, <1>2, PTL DEF Psh!Spec

\* A signal counts once, silence is declared when the wait is over and not
\* before, and what counts as a sign of life is fresh (push.go Check, observe).
THEOREM SignalsAreSound ==
    ASSUME PushSorts
    PROVE  Psh!Spec => [](/\ Psh!SignalsCountOnce /\ Psh!SilenceIsReal
                          /\ Psh!SignOfLifeIsFresh /\ Psh!SilenceIsFound)
<1>1. PushInvariant => /\ Psh!SignalsCountOnce /\ Psh!SilenceIsReal
                       /\ Psh!SignOfLifeIsFresh /\ Psh!SilenceIsFound
  BY PushFollows
<1> QED BY <1>1, PushKept, PTL

-----------------------------------------------------------------------------
(***************************************************************************)
(* The calendar of maintenance windows.                                    *)
(***************************************************************************)
Cal == INSTANCE Calendar

Aims == Monitors \cup Groups
WindowRows == [start: Int, ends: Int, every: Nat, ended: Nat \cup {None}]
WindowTable == [Windows -> WindowRows \cup {Absent}]
TargetTable == [Windows -> SUBSET Aims]
Reloads == [at: {"idle", "windows", "targets", "groups", "install"}, window: WindowTable \cup {None},
            target: TargetTable \cup {None}, above: Trees \cup {None}, since: Nat]
Tabled == {"window", "target", "above"}

\* The marks are no instants and no rows, and the timer is no client.
CalendarSorts ==
    /\ None \notin Int /\ Absent \notin WindowRows /\ Cal!Ticker \notin Clients
    /\ Zones \subseteq [0..MaxTime -> Int]
    /\ Bodies \subseteq [start: Int, ends: Int, every: Nat, target: SUBSET Aims]
    /\ Day \in Nat /\ Refresh \in Nat /\ MaxDelay \in Nat /\ MaxTime \in Nat /\ MaxFailures \in Nat

CalendarShapes ==
    /\ zone \in Zones /\ now \in Nat
    /\ window \in WindowTable /\ target \in TargetTable /\ above \in Trees
    /\ reload \in [Cal!Callers -> Reloads]
    /\ due \in Nat /\ due <= Refresh
    /\ DOMAIN age = Tabled /\ \A t \in Tabled : age[t] \in Nat
    /\ overlapped \in BOOLEAN
    /\ failures \in Nat /\ failures <= MaxFailures

\* A row that is gone has no targets, and what a reload read and is no longer so
\* was written since it began.
ReadsKept ==
    /\ \A w \in Windows : window[w] = Absent => target[w] = {}
    /\ age["window"] = age["target"]
    /\ \A c \in Cal!Callers : reload[c].since <= MaxDelay
    /\ \A c \in Cal!Callers :
          reload[c].at \in {"targets", "groups", "install"} /\ reload[c].window # window =>
              age["window"] <= reload[c].since
    /\ \A c \in Cal!Callers :
          reload[c].at \in {"groups", "install"} /\ reload[c].target # target =>
              age["target"] <= reload[c].since
    /\ \A c \in Cal!Callers :
          reload[c].at = "install" /\ reload[c].above # above => age["above"] <= reload[c].since

\* How old a table may be that the calendar does not have: the timer reads it at
\* its next tick, and once more for each of its reloads that failed.
Longest(n) == MaxDelay + Refresh + n * (Refresh + MaxDelay)
Delayed(t) ==
    IF reload[Cal!Ticker].at = "idle" THEN age[t] + due <= Longest(failures)
    ELSE age[t] <= Longest(failures) + reload[Cal!Ticker].since

TimerKept ==
    /\ reload[Cal!Ticker].at # "idle" => due + reload[Cal!Ticker].since <= Refresh \/ due = 0
    /\ calendar.window # window => Delayed("window")
    /\ calendar.target # target => Delayed("target")
    /\ calendar.above # above => Delayed("above")

\* Reloads that never met one another, nor a failure, have what was written.
OverlapKept ==
    ~overlapped /\ failures = 0 =>
        /\ \A c, d \in Cal!Callers : reload[c].at # "idle" /\ reload[d].at # "idle" => c = d
        /\ (\A c \in Cal!Callers : reload[c].at = "idle") =>
              calendar.window = window /\ calendar.target = target
        /\ \A c \in Cal!Callers :
              reload[c].at \in {"targets", "groups", "install"} => reload[c].window = window
        /\ \A c \in Cal!Callers : reload[c].at \in {"groups", "install"} => reload[c].target = target

\* The end of a window is not after any that was asked for.
EndsKept ==
    /\ ends \in [Windows -> SUBSET Nat]
    /\ \A w \in Windows : window[w] # Absent =>
          \A at \in ends[w] : window[w].ended # None /\ window[w].ended <= at

CalendarInvariant == CalendarShapes /\ ReadsKept /\ TimerKept /\ OverlapKept /\ EndsKept

LEMMA LongestGrows ==
    ASSUME CalendarSorts, NEW n \in Nat
    PROVE  /\ Longest(n) \in Nat /\ Longest(n) >= MaxDelay + Refresh
           /\ Longest(n + 1) = Longest(n) + Refresh + MaxDelay
<1>1. PICK k \in Nat : k = Refresh + MaxDelay
  BY DEF CalendarSorts
<1>2. n * k \in Nat /\ (n + 1) * k = n * k + k
  OBVIOUS
<1> QED BY <1>1, <1>2 DEF Longest, CalendarSorts

\* What of the shapes the steps below use.
LEMMA CalendarTyped ==
    ASSUME CalendarSorts, CalendarShapes
    PROVE  /\ now \in Nat /\ due \in Nat /\ due <= Refresh /\ failures \in Nat /\ failures <= MaxFailures
           /\ Refresh \in Nat /\ MaxDelay \in Nat /\ MaxFailures \in Nat
           /\ age["window"] \in Nat /\ age["target"] \in Nat /\ age["above"] \in Nat
           /\ DOMAIN age = Tabled /\ DOMAIN reload = Cal!Callers
           /\ Cal!Ticker \in Cal!Callers /\ Clients \subseteq Cal!Callers
           /\ \A c \in Cal!Callers : reload[c] \in Reloads /\ reload[c].since \in Nat
           /\ Longest(failures) \in Nat /\ Longest(failures) >= MaxDelay + Refresh
           /\ Longest(failures + 1) = Longest(failures) + Refresh + MaxDelay
<1>1. failures \in Nat
  BY DEF CalendarShapes
<1>2. \A c \in Cal!Callers : reload[c] \in Reloads /\ reload[c].since \in Nat
  BY DEF CalendarShapes, Reloads
<1>3. DOMAIN reload = Cal!Callers /\ DOMAIN age = Tabled
  BY DEF CalendarShapes
<1>4. age["window"] \in Nat /\ age["target"] \in Nat /\ age["above"] \in Nat
  BY DEF CalendarShapes, Tabled
<1>5. Cal!Ticker \in Cal!Callers /\ Clients \subseteq Cal!Callers
  BY DEF Cal!Callers
<1> QED BY <1>1, <1>2, <1>3, <1>4, <1>5, LongestGrows DEF CalendarSorts, CalendarShapes

LEMMA CalendarStart ==
    ASSUME CalendarSorts, Cal!Init
    PROVE  CalendarInvariant
<1>1. PICK found \in [Windows -> {b \in Bodies : Cal!Valid(b)} \cup {Absent}] :
        /\ window = [w \in Windows |-> IF found[w] = Absent THEN Absent ELSE Cal!Row(found[w], None)]
        /\ target = [w \in Windows |-> IF found[w] = Absent THEN {} ELSE found[w].target]
  BY DEF Cal!Init
<1>2. ASSUME NEW w \in Windows, found[w] # Absent
      PROVE  /\ Cal!Row(found[w], None) \in WindowRows /\ found[w].target \in SUBSET Aims
             /\ Cal!Row(found[w], None) # Absent
  <2>1. found[w] \in [start: Int, ends: Int, every: Nat, target: SUBSET Aims]
    BY <1>1, <1>2 DEF CalendarSorts
  <2>2. Cal!Row(found[w], None) \in WindowRows
    BY <2>1 DEF Cal!Row, WindowRows
  <2> QED BY <2>1, <2>2 DEF CalendarSorts
<1>3. window \in WindowTable /\ target \in TargetTable
  BY <1>1, <1>2 DEF WindowTable, TargetTable
<1>4. \A w \in Windows : window[w] = Absent => target[w] = {}
  BY <1>1, <1>2
<1>5. /\ zone \in Zones /\ now = 0 /\ due = Refresh /\ failures = 0 /\ overlapped = FALSE
      /\ above \in Trees
      /\ calendar = [window |-> window, target |-> target, above |-> above]
      /\ reload = [c \in Cal!Callers |-> Cal!Resting]
      /\ age = [window |-> 0, target |-> 0, above |-> 0]
      /\ ends = [w \in Windows |-> {}]
  BY DEF Cal!Init
<1>6. Cal!Resting \in Reloads /\ Cal!Resting.at = "idle" /\ Cal!Resting.since = 0
  BY DEF Cal!Resting, Reloads
<1>7. \A c \in Cal!Callers : reload[c].at = "idle" /\ reload[c].since = 0
  BY <1>5, <1>6
<1>8. DOMAIN age = Tabled /\ (\A t \in Tabled : age[t] \in Nat) /\ age["window"] = age["target"]
  <2>1. age["window"] = 0 /\ age["target"] = 0 /\ age["above"] = 0 /\ DOMAIN age = Tabled
    BY <1>5 DEF Tabled
  <2> QED BY <2>1 DEF Tabled
<1>9. CalendarShapes
  <2>1. reload \in [Cal!Callers -> Reloads]
    BY <1>5, <1>6
  <2>2. due \in Nat /\ due <= Refresh /\ 0 <= MaxFailures
    BY <1>5 DEF CalendarSorts
  <2> QED BY <2>1, <2>2, <1>3, <1>5, <1>8 DEF CalendarShapes
<1>10. ReadsKept
  BY <1>4, <1>7, <1>8 DEF ReadsKept, CalendarSorts
<1>11. calendar.window = window /\ calendar.target = target /\ calendar.above = above
  BY <1>5
<1>12. TimerKept
  BY <1>7, <1>11 DEF TimerKept, Cal!Callers
<1>13. OverlapKept
  BY <1>7, <1>11 DEF OverlapKept
<1>14. EndsKept
  BY <1>5 DEF EndsKept
<1> QED BY <1>9, <1>10, <1>12, <1>13, <1>14 DEF CalendarInvariant

\* One write of a window, of whatever kind, and the reload that follows it.
LEMMA TableWriteKeeps ==
    ASSUME CalendarSorts, CalendarInvariant, NEW c \in Clients, NEW w \in Windows,
           NEW rec \in WindowRows \cup {Absent}, NEW tgt \in SUBSET Aims, rec = Absent => tgt = {},
           Cal!Write(c, w, rec, tgt)
    PROVE  CalendarShapes' /\ ReadsKept' /\ TimerKept' /\ OverlapKept'
<1>1. /\ reload[c].at = "idle"
      /\ window' = [window EXCEPT ![w] = rec] /\ target' = [target EXCEPT ![w] = tgt]
      /\ age' = [t \in DOMAIN age |-> IF t \in {"window", "target"} THEN 0 ELSE age[t]]
      /\ reload' = [reload EXCEPT ![c] = [Cal!Resting EXCEPT !.at = "windows"]]
      /\ overlapped' = (overlapped \/ Cal!Reloading \ {c} # {})
      /\ UNCHANGED <<zone, now, above, calendar, due, failures>>
  BY DEF Cal!Write, Cal!Written, Cal!Begin, Cal!Overlaps
<1>2. CalendarShapes /\ ReadsKept /\ TimerKept /\ OverlapKept
  BY DEF CalendarInvariant
<1>3. c \in Cal!Callers /\ c # Cal!Ticker
  BY DEF Cal!Callers, CalendarSorts
<1>4. PICK b \in Reloads : b = [Cal!Resting EXCEPT !.at = "windows"]
  BY DEF Cal!Resting, Reloads
<1>5. b.at = "windows" /\ b.since = 0
  BY <1>4 DEF Cal!Resting
<1>6. reload'[c] = b /\ \A d \in Cal!Callers \ {c} : reload'[d] = reload[d]
  BY <1>1, <1>2, <1>3, <1>4, CalendarTyped
<1>7. reload' \in [Cal!Callers -> Reloads]
  BY <1>1, <1>2, <1>4 DEF CalendarShapes
<1>8. window' \in WindowTable /\ target' \in TargetTable
  BY <1>1, <1>2 DEF CalendarShapes, WindowTable, TargetTable
<1>9. age'["window"] = 0 /\ age'["target"] = 0 /\ age'["above"] = age["above"] /\ DOMAIN age' = Tabled
  BY <1>1, <1>2, CalendarTyped DEF Tabled
<1>10. CalendarShapes'
  <2>1. \A t \in Tabled : age'[t] \in Nat
    BY <1>2, <1>9, CalendarTyped DEF Tabled
  <2> QED BY <2>1, <1>1, <1>2, <1>7, <1>8, <1>9 DEF CalendarShapes
<1>11. ReadsKept'
  <2>1. \A v \in Windows : window'[v] = Absent => target'[v] = {}
    BY <1>1, <1>2 DEF CalendarShapes, ReadsKept, WindowTable, TargetTable
  <2>2. \A d \in Cal!Callers : reload'[d].since \in Nat /\ reload'[d].since <= MaxDelay
    BY <1>2, <1>5, <1>6, CalendarTyped DEF ReadsKept
  <2>3. ASSUME NEW d \in Cal!Callers, reload'[d].at = "install", reload'[d].above # above'
        PROVE  age'["above"] <= reload'[d].since
    <3>1. d # c /\ reload'[d] = reload[d]
      BY <2>3, <1>5, <1>6
    <3> QED BY <2>3, <3>1, <1>1, <1>2, <1>9 DEF ReadsKept
  <2> QED BY <2>1, <2>2, <2>3, <1>9 DEF ReadsKept
<1>12. TimerKept'
  <2>1. reload'[Cal!Ticker] = reload[Cal!Ticker]
    BY <1>2, <1>3, <1>6, CalendarTyped
  <2>2. Delayed("window")' /\ Delayed("target")' /\ (Delayed("above") => Delayed("above")')
    BY <2>1, <1>1, <1>2, <1>9, CalendarTyped DEF Delayed, Longest
  <2> QED BY <2>1, <2>2, <1>1, <1>2 DEF TimerKept
<1>13. OverlapKept'
  <2> SUFFICES ASSUME ~overlapped', failures' = 0
               PROVE  \A d \in Cal!Callers : d # c => reload'[d].at = "idle"
    BY <1>3, <1>5, <1>6 DEF OverlapKept
  <2>1. Cal!Reloading \ {c} = {}
    BY <1>1
  <2>2. \A d \in Cal!Callers \ {c} : reload[d].at = "idle"
    BY <2>1 DEF Cal!Reloading
  <2> QED BY <2>2, <1>6
<1> QED BY <1>10, <1>11, <1>12, <1>13

LEMMA BodiesGiveRows ==
    ASSUME CalendarSorts, NEW b \in Bodies, NEW end \in Nat \cup {None}
    PROVE  /\ Cal!Row(b, end) \in WindowRows /\ b.target \in SUBSET Aims
           /\ Cal!Row(b, end) # Absent /\ Cal!Row(b, end).ended = end
<1>1. b \in [start: Int, ends: Int, every: Nat, target: SUBSET Aims]
  BY DEF CalendarSorts
<1>2. Cal!Row(b, end) \in WindowRows
  BY <1>1 DEF Cal!Row, WindowRows
<1> QED BY <1>1, <1>2 DEF CalendarSorts, Cal!Row

LEMMA CalendarCreate ==
    ASSUME CalendarSorts, CalendarInvariant, NEW c \in Clients, NEW w \in Windows, NEW b \in Bodies,
           Cal!Create(c, w, b)
    PROVE  CalendarInvariant'
<1>1. /\ ends' = [ends EXCEPT ![w] = {}] /\ Cal!Write(c, w, Cal!Row(b, None), b.target)
  BY DEF Cal!Create
<1>2. PICK rec \in WindowRows : rec = Cal!Row(b, None)
  BY BodiesGiveRows
<1>3. rec # Absent /\ b.target \in SUBSET Aims
  BY <1>2, BodiesGiveRows
<1>4. Cal!Write(c, w, rec, b.target)
  BY <1>1, <1>2
<1>5. CalendarShapes' /\ ReadsKept' /\ TimerKept' /\ OverlapKept'
  BY <1>3, <1>4, TableWriteKeeps
<1>6. EndsKept'
  BY <1>1, <1>4 DEF CalendarInvariant, CalendarShapes, EndsKept, Cal!Write, WindowTable
<1> QED BY <1>5, <1>6 DEF CalendarInvariant

LEMMA CalendarUpdate ==
    ASSUME CalendarSorts, CalendarInvariant, NEW c \in Clients, NEW w \in Windows, NEW b \in Bodies,
           Cal!Update(c, w, b)
    PROVE  CalendarInvariant'
<1>1. /\ window[w] # Absent /\ ends' = ends
      /\ Cal!Write(c, w, Cal!Row(b, window[w].ended), b.target)
  BY DEF Cal!Update, Cal!Ended
<1>2. window[w].ended \in Nat \cup {None}
  BY <1>1 DEF CalendarInvariant, CalendarShapes, WindowTable, WindowRows
<1>3. PICK rec \in WindowRows : rec = Cal!Row(b, window[w].ended)
  BY <1>2, BodiesGiveRows
<1>4. rec # Absent /\ b.target \in SUBSET Aims /\ rec.ended = window[w].ended
  BY <1>2, <1>3, BodiesGiveRows
<1>5. Cal!Write(c, w, rec, b.target)
  BY <1>1, <1>3
<1>6. CalendarShapes' /\ ReadsKept' /\ TimerKept' /\ OverlapKept'
  BY <1>4, <1>5, TableWriteKeeps
<1>7. window' = [window EXCEPT ![w] = rec]
  BY <1>5 DEF Cal!Write
<1>8. EndsKept'
  BY <1>1, <1>4, <1>7 DEF CalendarInvariant, CalendarShapes, EndsKept, WindowTable
<1> QED BY <1>6, <1>8 DEF CalendarInvariant

LEMMA CalendarEnd ==
    ASSUME CalendarSorts, CalendarInvariant, NEW c \in Clients, NEW w \in Windows, NEW at \in Nat,
           Cal!End(c, w, at)
    PROVE  CalendarInvariant'
<1> DEFINE new == IF Cal!Earlier(window[w], at) THEN [window[w] EXCEPT !.ended = at] ELSE window[w]
<1>1. /\ window[w] # Absent /\ ends' = [ends EXCEPT ![w] = @ \cup {at}]
      /\ Cal!Write(c, w, new, target[w])
  BY DEF Cal!End
<1>2. window[w] \in WindowRows /\ target[w] \in SUBSET Aims
  BY <1>1 DEF CalendarInvariant, CalendarShapes, WindowTable, TargetTable
<1>3. [window[w] EXCEPT !.ended = at] \in WindowRows
      /\ [window[w] EXCEPT !.ended = at].ended = at
  BY <1>2 DEF WindowRows
<1>4. new \in WindowRows /\ new.ended = IF Cal!Earlier(window[w], at) THEN at ELSE window[w].ended
  BY <1>2, <1>3
<1> HIDE DEF new
<1>5. PICK rec \in WindowRows : rec = new
  BY <1>4
<1>6. rec # Absent
  BY DEF CalendarSorts
<1>7. Cal!Write(c, w, rec, target[w])
  BY <1>1, <1>5
<1>8. CalendarShapes' /\ ReadsKept' /\ TimerKept' /\ OverlapKept'
  BY <1>2, <1>6, <1>7, TableWriteKeeps
<1>9. window' = [window EXCEPT ![w] = rec]
  BY <1>7 DEF Cal!Write
<1>10. rec.ended \in Nat /\ rec.ended <= at /\ \A t \in ends[w] : rec.ended <= t
  <2>1. window[w].ended \in Nat \cup {None} /\ ends[w] \in SUBSET Nat
        /\ \A t \in ends[w] : window[w].ended # None /\ window[w].ended <= t
    BY <1>1, <1>2 DEF CalendarInvariant, EndsKept, WindowRows
  <2>2. CASE Cal!Earlier(window[w], at)
    BY <2>1, <2>2, <1>4, <1>5 DEF Cal!Earlier
  <2>3. CASE ~Cal!Earlier(window[w], at)
    BY <2>1, <2>3, <1>4, <1>5 DEF Cal!Earlier
  <2> QED BY <2>2, <2>3
<1>11. EndsKept'
  <2>1. ends' \in [Windows -> SUBSET Nat]
    BY <1>1 DEF CalendarInvariant, EndsKept
  <2>2. \A t \in ends'[w] : window'[w].ended # None /\ window'[w].ended <= t
    BY <1>1, <1>9, <1>10 DEF CalendarInvariant, CalendarShapes, EndsKept, WindowTable, CalendarSorts
  <2>3. \A v \in Windows \ {w} : window'[v] = window[v] /\ ends'[v] = ends[v]
    BY <1>1, <1>9 DEF CalendarInvariant, CalendarShapes, EndsKept, WindowTable
  <2> QED BY <2>1, <2>2, <2>3 DEF CalendarInvariant, EndsKept
<1> QED BY <1>8, <1>11 DEF CalendarInvariant

LEMMA CalendarDelete ==
    ASSUME CalendarSorts, CalendarInvariant, NEW c \in Clients, NEW w \in Windows, Cal!Delete(c, w)
    PROVE  CalendarInvariant'
<1>1. ends' = [ends EXCEPT ![w] = {}] /\ Cal!Write(c, w, Absent, {})
  BY DEF Cal!Delete
<1>2. CalendarShapes' /\ ReadsKept' /\ TimerKept' /\ OverlapKept'
  BY <1>1, TableWriteKeeps
<1>3. EndsKept'
  BY <1>1 DEF CalendarInvariant, CalendarShapes, EndsKept, Cal!Write, WindowTable
<1> QED BY <1>2, <1>3 DEF CalendarInvariant

LEMMA CalendarMove ==
    ASSUME CalendarSorts, CalendarInvariant, NEW tree \in Trees, Cal!MoveGroup(tree)
    PROVE  CalendarInvariant'
<1>1. /\ above' = tree /\ age' = [t \in DOMAIN age |-> IF t \in {"above"} THEN 0 ELSE age[t]]
      /\ overlapped' = (overlapped \/ Cal!Reloading # {})
      /\ UNCHANGED <<zone, now, window, target, calendar, reload, due, ends, failures>>
  BY DEF Cal!MoveGroup, Cal!Written
<1>2. CalendarShapes /\ ReadsKept /\ TimerKept /\ OverlapKept /\ EndsKept
  BY DEF CalendarInvariant
<1>3. age'["above"] = 0 /\ age'["window"] = age["window"] /\ age'["target"] = age["target"] /\ DOMAIN age' = Tabled
  BY <1>1, <1>2, CalendarTyped DEF Tabled
<1>4. CalendarShapes'
  <2>1. \A t \in Tabled : age'[t] \in Nat
    BY <1>2, <1>3, CalendarTyped DEF Tabled
  <2> QED BY <2>1, <1>1, <1>2, <1>3 DEF CalendarShapes
<1>5. ReadsKept'
  BY <1>1, <1>2, <1>3, CalendarTyped DEF ReadsKept
<1>6. TimerKept'
  <2>1. Delayed("above")' /\ (Delayed("window") => Delayed("window")') /\ (Delayed("target") => Delayed("target")')
    BY <1>1, <1>2, <1>3, CalendarTyped DEF Delayed, Longest
  <2> QED BY <2>1, <1>1, <1>2 DEF TimerKept
<1>7. OverlapKept'
  BY <1>1, <1>2 DEF OverlapKept
<1>8. EndsKept'
  BY <1>1, <1>2 DEF EndsKept
<1> QED BY <1>4, <1>5, <1>6, <1>7, <1>8 DEF CalendarInvariant

LEMMA CalendarBegin ==
    ASSUME CalendarSorts, CalendarInvariant, Cal!StartTick
    PROVE  CalendarInvariant'
<1>1. /\ due = 0 /\ reload[Cal!Ticker].at = "idle"
      /\ reload' = [reload EXCEPT ![Cal!Ticker] = [Cal!Resting EXCEPT !.at = "windows"]]
      /\ due' = Refresh /\ overlapped' = (overlapped \/ Cal!Reloading \ {Cal!Ticker} # {})
      /\ UNCHANGED <<zone, now, window, target, above, calendar, age, ends, failures>>
  BY DEF Cal!StartTick, Cal!TickerDue, Cal!Begin, Cal!Overlaps
<1>2. CalendarShapes /\ ReadsKept /\ TimerKept /\ OverlapKept /\ EndsKept
  BY DEF CalendarInvariant
<1>3. PICK b \in Reloads : b = [Cal!Resting EXCEPT !.at = "windows"]
  BY DEF Cal!Resting, Reloads
<1>4. b.at = "windows" /\ b.since = 0
  BY <1>3 DEF Cal!Resting
<1>5. reload'[Cal!Ticker] = b /\ \A d \in Cal!Callers \ {Cal!Ticker} : reload'[d] = reload[d]
  BY <1>1, <1>2, <1>3, CalendarTyped
<1>6. CalendarShapes'
  <2>1. reload' \in [Cal!Callers -> Reloads]
    BY <1>1, <1>2, <1>3 DEF CalendarShapes
  <2> QED BY <2>1, <1>1, <1>2, CalendarTyped DEF CalendarShapes
<1>7. ReadsKept'
  <2>1. \A d \in Cal!Callers : reload'[d].since <= MaxDelay
    BY <1>2, <1>4, <1>5, CalendarTyped DEF ReadsKept
  <2> QED BY <2>1, <1>1, <1>2, <1>4, <1>5 DEF ReadsKept
<1>8. TimerKept'
  <2>1. ASSUME NEW t \in Tabled, Delayed(t) PROVE Delayed(t)'
    <3>1. age[t] \in Nat /\ Longest(failures) \in Nat
      BY <1>2, CalendarTyped DEF CalendarShapes
    <3>2. age[t] <= Longest(failures)
      BY <2>1, <3>1, <1>1 DEF Delayed
    <3>3. Longest(failures)' = Longest(failures)
      BY <1>1 DEF Longest
    <3>4. reload'[Cal!Ticker].at # "idle" /\ reload'[Cal!Ticker].since = 0
      BY <1>4, <1>5
    <3> QED BY <3>1, <3>2, <3>3, <3>4, <1>1 DEF Delayed
  <2>2. due' + reload'[Cal!Ticker].since <= Refresh
    <3>1. due' = Refresh /\ Refresh \in Nat
      BY <1>1 DEF CalendarSorts
    <3>2. reload'[Cal!Ticker].since = 0
      BY <1>4, <1>5
    <3> QED BY <3>1, <3>2
  <2> QED BY <2>1, <2>2, <1>1, <1>2 DEF TimerKept, Tabled
<1>9. OverlapKept'
  <2> SUFFICES ASSUME ~overlapped', failures' = 0
               PROVE  \A d \in Cal!Callers : d # Cal!Ticker => reload'[d].at = "idle"
    BY <1>2, <1>4, <1>5, CalendarTyped DEF OverlapKept
  <2>1. Cal!Reloading \ {Cal!Ticker} = {}
    BY <1>1
  <2>2. \A d \in Cal!Callers \ {Cal!Ticker} : reload[d].at = "idle"
    BY <2>1 DEF Cal!Reloading
  <2> QED BY <2>2, <1>5
<1>10. EndsKept'
  BY <1>1, <1>2 DEF EndsKept
<1> QED BY <1>6, <1>7, <1>8, <1>9, <1>10 DEF CalendarInvariant

\* A reload that reads on: the first query gives the rows of now, the second
\* their targets, unless a row was written between, and the third the groups.
LEMMA CalendarRead ==
    ASSUME CalendarSorts, CalendarInvariant, NEW c \in Cal!Callers,
           Cal!ReadRows(c) \/ Cal!ReadTargets(c) \/ Cal!ReadGroups(c)
    PROVE  CalendarInvariant'
<1>1. UNCHANGED <<zone, now, window, target, above, calendar, due, age, overlapped, ends, failures>>
  BY DEF Cal!ReadRows, Cal!ReadTargets, Cal!ReadGroups
<1>2. CalendarShapes /\ ReadsKept /\ TimerKept /\ OverlapKept /\ EndsKept
  BY DEF CalendarInvariant
<1>3. window \in WindowTable /\ target \in TargetTable /\ above \in Trees /\ reload[c] \in Reloads
  BY <1>2 DEF CalendarShapes
<1>4. PICK b \in Reloads :
        /\ reload' = [reload EXCEPT ![c] = b]
        /\ b.since = reload[c].since /\ reload[c].at # "idle" /\ b.at # "idle"
        /\ b.at \in {"targets", "groups", "install"}
        /\ (b.window # window => age["window"] <= b.since)
        /\ b.at # "targets" /\ b.target # target => age["target"] <= b.since
        /\ b.at = "install" /\ b.above # above => age["above"] <= b.since
        /\ OverlapKept /\ ~overlapped /\ failures = 0 =>
              b.window = window /\ (b.at # "targets" => b.target = target)
  <2>1. CASE Cal!ReadRows(c)
    <3>1. reload' = [reload EXCEPT ![c].at = "targets", ![c].window = window] /\ reload[c].at = "windows"
      BY <2>1 DEF Cal!ReadRows
    <3>2. PICK b \in Reloads : b = [reload[c] EXCEPT !.at = "targets", !.window = window]
      BY <1>3 DEF Reloads
    <3>3. b.since = reload[c].since /\ b.at = "targets" /\ b.window = window
      BY <1>3, <3>2 DEF Reloads
    <3>4. reload' = [reload EXCEPT ![c] = b]
      BY <3>1, <3>2
    <3> QED BY <3>1, <3>3, <3>4
  <2>2. CASE Cal!ReadTargets(c)
    <3> DEFINE found == [w \in Windows |-> IF reload[c].window[w] = Absent THEN {} ELSE target[w]]
    <3>1. reload' = [reload EXCEPT ![c].at = "groups", ![c].target = found] /\ reload[c].at = "targets"
      BY <2>2 DEF Cal!ReadTargets
    <3>2. found \in TargetTable
      BY <1>3 DEF TargetTable
    <3>3. reload[c].window = window => found = target
      BY <1>2, <1>3 DEF ReadsKept, TargetTable
    <3> HIDE DEF found
    <3>4. PICK b \in Reloads : b = [reload[c] EXCEPT !.at = "groups", !.target = found]
      BY <1>3, <3>2 DEF Reloads
    <3>5. b.since = reload[c].since /\ b.at = "groups" /\ b.window = reload[c].window /\ b.target = found
      BY <1>3, <3>4 DEF Reloads
    <3>6. reload' = [reload EXCEPT ![c] = b]
      BY <3>1, <3>4
    <3>7. b.window # window => age["window"] <= b.since /\ age["target"] <= b.since
      BY <1>2, <3>1, <3>5 DEF ReadsKept
    <3>8. OverlapKept /\ ~overlapped /\ failures = 0 => reload[c].window = window
      BY <3>1 DEF OverlapKept
    <3> QED BY <3>1, <3>3, <3>5, <3>6, <3>7, <3>8
  <2>3. CASE Cal!ReadGroups(c)
    <3>1. reload' = [reload EXCEPT ![c].at = "install", ![c].above = above] /\ reload[c].at = "groups"
      BY <2>3 DEF Cal!ReadGroups
    <3>2. PICK b \in Reloads : b = [reload[c] EXCEPT !.at = "install", !.above = above]
      BY <1>3 DEF Reloads
    <3>3. b.since = reload[c].since /\ b.at = "install" /\ b.above = above
          /\ b.window = reload[c].window /\ b.target = reload[c].target
      BY <1>3, <3>2 DEF Reloads
    <3>4. reload' = [reload EXCEPT ![c] = b]
      BY <3>1, <3>2
    <3>5. /\ b.window # window => age["window"] <= b.since
          /\ b.target # target => age["target"] <= b.since
      BY <1>2, <3>1, <3>3 DEF ReadsKept
    <3>6. OverlapKept /\ ~overlapped /\ failures = 0 => reload[c].window = window /\ reload[c].target = target
      BY <3>1 DEF OverlapKept
    <3> QED BY <3>1, <3>3, <3>4, <3>5, <3>6
  <2> QED BY <2>1, <2>2, <2>3
<1>5. reload'[c] = b /\ \A d \in Cal!Callers \ {c} : reload'[d] = reload[d]
  BY <1>2, <1>4, CalendarTyped
<1>6. CalendarShapes'
  <2>1. reload' \in [Cal!Callers -> Reloads]
    BY <1>2, <1>4 DEF CalendarShapes
  <2> QED BY <2>1, <1>1, <1>2 DEF CalendarShapes
<1>7. ReadsKept'
  <2>1. \A d \in Cal!Callers : reload'[d].since <= MaxDelay
    BY <1>2, <1>4, <1>5 DEF ReadsKept
  <2> QED BY <2>1, <1>1, <1>2, <1>4, <1>5 DEF ReadsKept
<1>8. TimerKept'
  <2>1. reload'[Cal!Ticker].since = reload[Cal!Ticker].since
        /\ (reload'[Cal!Ticker].at = "idle" <=> reload[Cal!Ticker].at = "idle")
    BY <1>2, <1>4, <1>5, CalendarTyped
  <2>2. \A t \in Tabled : Delayed(t) => Delayed(t)'
    BY <2>1, <1>1 DEF Delayed, Longest
  <2> QED BY <2>1, <2>2, <1>1, <1>2 DEF TimerKept, Tabled
<1>9. OverlapKept'
  <2> SUFFICES ASSUME ~overlapped, failures = 0 PROVE OverlapKept'
    BY <1>1 DEF OverlapKept
  <2>1. \A d \in Cal!Callers : reload'[d].at # "idle" <=> reload[d].at # "idle"
    BY <1>4, <1>5
  <2> QED BY <2>1, <1>1, <1>2, <1>4, <1>5 DEF OverlapKept
<1>10. EndsKept'
  BY <1>1, <1>2 DEF EndsKept
<1> QED BY <1>6, <1>7, <1>8, <1>9, <1>10 DEF CalendarInvariant

\* The end of a reload, with the calendar it installs or without.
LEMMA CalendarFinish ==
    ASSUME CalendarSorts, CalendarInvariant, NEW c \in Cal!Callers, Cal!Install(c) \/ Cal!Fail(c)
    PROVE  CalendarInvariant'
<1>1. /\ reload' = [reload EXCEPT ![c] = Cal!Resting] /\ reload[c].at # "idle"
      /\ UNCHANGED <<zone, now, window, target, above, due, age, overlapped, ends>>
      /\ \/ failures' = failures /\ reload[c].at = "install"
            /\ calendar' = [window |-> reload[c].window, target |-> reload[c].target,
                            above |-> reload[c].above]
         \/ failures < MaxFailures /\ failures' = failures + 1 /\ calendar' = calendar
  BY DEF Cal!Install, Cal!Fail, Cal!Cached
<1>2. CalendarShapes /\ ReadsKept /\ TimerKept /\ OverlapKept /\ EndsKept
  BY DEF CalendarInvariant
<1>3. Cal!Resting \in Reloads /\ Cal!Resting.at = "idle" /\ Cal!Resting.since = 0
  BY DEF Cal!Resting, Reloads
<1>4. reload'[c] = Cal!Resting /\ \A d \in Cal!Callers \ {c} : reload'[d] = reload[d]
  BY <1>1, <1>2, CalendarTyped
<1>5. CalendarShapes'
  <2>1. reload' \in [Cal!Callers -> Reloads]
    BY <1>1, <1>2, <1>3 DEF CalendarShapes
  <2>2. failures' \in Nat /\ failures' <= MaxFailures
    BY <1>1, <1>2, CalendarTyped
  <2> QED BY <2>1, <2>2, <1>1, <1>2 DEF CalendarShapes
<1>6. ReadsKept'
  <2>1. \A d \in Cal!Callers : reload'[d].since <= MaxDelay
    BY <1>2, <1>3, <1>4, CalendarTyped DEF ReadsKept
  <2> QED BY <2>1, <1>1, <1>2, <1>3, <1>4 DEF ReadsKept
<1>7. /\ Longest(failures') \in Nat /\ Longest(failures') >= Longest(failures)
      /\ Longest(failures') >= MaxDelay + Refresh
      /\ failures' # failures => Longest(failures') = Longest(failures) + Refresh + MaxDelay
  BY <1>1, <1>2, CalendarTyped
<1>8. reload[Cal!Ticker].at # "idle" =>
        due + reload[Cal!Ticker].since <= Refresh + MaxDelay
  BY <1>2, CalendarTyped DEF TimerKept, ReadsKept
<1>9. ASSUME NEW t \in Tabled, Delayed(t), failures' # failures
      PROVE  Delayed(t)'
  <2>1. age[t] \in Nat /\ due \in Nat /\ reload[Cal!Ticker].since \in Nat /\ Refresh \in Nat /\ MaxDelay \in Nat
        /\ Longest(failures) \in Nat
    BY <1>2, CalendarTyped DEF CalendarShapes
  <2>2. CASE c = Cal!Ticker
    <3>1. reload[Cal!Ticker].at # "idle" /\ reload'[Cal!Ticker].at = "idle"
      BY <1>1, <1>3, <1>4, <2>2
    <3>2. age[t] <= Longest(failures) + reload[Cal!Ticker].since
      BY <1>9, <3>1 DEF Delayed
    <3>3. age[t] + due <= Longest(failures')
      BY <1>7, <1>8, <1>9, <2>1, <3>1, <3>2
    <3> QED BY <3>1, <3>3, <1>1 DEF Delayed
  <2>3. CASE c # Cal!Ticker
    <3>1. reload'[Cal!Ticker] = reload[Cal!Ticker]
      BY <1>2, <1>4, <2>3, CalendarTyped
    <3>2. Longest(failures)' = Longest(failures')
      BY DEF Longest
    <3> QED BY <3>1, <3>2, <1>1, <1>7, <1>9, <2>1 DEF Delayed
  <2> QED BY <2>2, <2>3
\* A stale table that is installed was written since the reload began.
<1>10. ASSUME NEW t \in Tabled, age[t] <= reload[c].since, failures' = failures
       PROVE  Delayed(t)'
  <2>1. age[t] \in Nat /\ due \in Nat /\ due <= Refresh /\ reload[Cal!Ticker].since \in Nat
        /\ reload[c].since \in Nat /\ reload[c].since <= MaxDelay /\ Refresh \in Nat /\ MaxDelay \in Nat
        /\ Longest(failures) \in Nat /\ Longest(failures) >= MaxDelay + Refresh
    BY <1>2, CalendarTyped DEF CalendarShapes, ReadsKept
  <2>2. Longest(failures)' = Longest(failures)
    BY <1>10 DEF Longest
  <2>3. age[t] + due <= Longest(failures) /\ age[t] <= Longest(failures)
    BY <2>1, <1>10
  <2>4. reload'[Cal!Ticker].since \in Nat
    BY <1>2, <1>3, <1>4, CalendarTyped
  <2> QED BY <2>1, <2>2, <2>3, <2>4, <1>1 DEF Delayed
<1>11. TimerKept'
  <2>1. reload'[Cal!Ticker].at # "idle" => due' + reload'[Cal!Ticker].since <= Refresh \/ due' = 0
    BY <1>1, <1>2, <1>3, <1>4, CalendarTyped DEF TimerKept
  <2>2. CASE failures' # failures
    <3>1. calendar' = calendar
      BY <1>1, <2>2
    <3> QED BY <2>1, <2>2, <3>1, <1>1, <1>2, <1>9 DEF TimerKept, Tabled
  <2>3. CASE failures' = failures
    <3>1. /\ reload[c].at = "install" /\ calendar'.above = reload[c].above
          /\ calendar'.window = reload[c].window /\ calendar'.target = reload[c].target
      BY <1>1, <1>2, <2>3, CalendarTyped
    <3>2. /\ calendar'.window # window => age["window"] <= reload[c].since
          /\ calendar'.target # target => age["target"] <= reload[c].since
          /\ calendar'.above # above => age["above"] <= reload[c].since
      BY <3>1, <1>2 DEF ReadsKept
    <3> QED BY <2>1, <2>3, <3>1, <3>2, <1>1, <1>10 DEF TimerKept, Tabled
  <2> QED BY <2>2, <2>3
<1>12. OverlapKept'
  <2> SUFFICES ASSUME ~overlapped, failures' = 0 PROVE OverlapKept'
    BY <1>1 DEF OverlapKept
  <2>1. /\ failures = 0 /\ reload[c].at = "install"
        /\ calendar'.window = reload[c].window /\ calendar'.target = reload[c].target
    BY <1>1, <1>2, CalendarTyped
  <2>2. calendar'.window = window /\ calendar'.target = target
    BY <2>1, <1>2 DEF OverlapKept
  <2>3. \A d \in Cal!Callers : reload'[d].at = "idle"
    BY <2>1, <1>1, <1>2, <1>3, <1>4 DEF OverlapKept
  <2> QED BY <2>2, <2>3, <1>1 DEF OverlapKept
<1>13. EndsKept'
  BY <1>1, <1>2 DEF EndsKept
<1> QED BY <1>5, <1>6, <1>11, <1>12, <1>13 DEF CalendarInvariant

LEMMA CalendarTick ==
    ASSUME CalendarSorts, CalendarInvariant, Cal!Tick
    PROVE  CalendarInvariant'
<1>1. /\ now' = now + 1 /\ ~(due = 0 /\ reload[Cal!Ticker].at = "idle")
      /\ \A c \in Cal!Callers : reload[c].at = "idle" \/ reload[c].since < MaxDelay
      /\ due' = IF due > 0 THEN due - 1 ELSE 0
      /\ age' = [t \in DOMAIN age |-> IF age[t] > Cal!Lag THEN age[t] ELSE age[t] + 1]
      /\ reload' = [c \in Cal!Callers |->
                      IF reload[c].at = "idle" THEN reload[c]
                      ELSE [reload[c] EXCEPT !.since = @ + 1]]
      /\ UNCHANGED <<zone, window, target, above, calendar, overlapped, ends, failures>>
  BY DEF Cal!Tick, Cal!TickerDue
<1>2. CalendarShapes /\ ReadsKept /\ TimerKept /\ OverlapKept /\ EndsKept
  BY DEF CalendarInvariant
<1>3. DOMAIN age = Tabled /\ \A t \in Tabled : age[t] \in Nat
  BY <1>2 DEF CalendarShapes
<1>4. DOMAIN age' = Tabled /\ \A t \in Tabled : age'[t] \in {age[t], age[t] + 1} /\ age'[t] \in Nat
  BY <1>1, <1>3
<1>5. age'["window"] = age'["target"]
  BY <1>1, <1>2, <1>3 DEF ReadsKept, Tabled
<1>6. ASSUME NEW c \in Cal!Callers
      PROVE  /\ reload'[c] \in Reloads /\ reload'[c].at = reload[c].at
             /\ reload'[c].window = reload[c].window /\ reload'[c].target = reload[c].target
             /\ reload'[c].above = reload[c].above
             /\ reload'[c].since = IF reload[c].at = "idle" THEN reload[c].since ELSE reload[c].since + 1
  <2>1. reload[c] \in Reloads
    BY <1>2, CalendarTyped
  <2>2. CASE reload[c].at = "idle"
    BY <1>1, <2>1, <2>2
  <2>3. CASE reload[c].at # "idle"
    <3>1. reload'[c] = [reload[c] EXCEPT !.since = @ + 1]
      BY <1>1, <2>3
    <3> QED BY <2>1, <2>3, <3>1 DEF Reloads
  <2> QED BY <2>2, <2>3
<1>7. due \in Nat /\ due <= Refresh /\ Refresh \in Nat /\ MaxDelay \in Nat
      /\ \A c \in Cal!Callers : reload[c].since \in Nat /\ reload[c].since <= MaxDelay
  BY <1>2, CalendarTyped DEF ReadsKept
<1>8. CalendarShapes'
  <2>1. reload' \in [Cal!Callers -> Reloads]
    BY <1>1, <1>6
  <2>2. due' \in Nat /\ due' <= Refresh /\ now' \in Nat
    BY <1>1, <1>2, <1>7, CalendarTyped
  <2> QED BY <2>1, <2>2, <1>1, <1>2, <1>4 DEF CalendarShapes
<1>9. ReadsKept'
  <2>1. \A c \in Cal!Callers : reload'[c].since <= MaxDelay
    BY <1>1, <1>6, <1>7
  <2>2. ASSUME NEW c \in Cal!Callers, reload[c].at # "idle", NEW t \in Tabled, age[t] <= reload[c].since
        PROVE  age'[t] <= reload'[c].since
    BY <2>2, <1>3, <1>4, <1>6, <1>7
  <2>3. \A c \in Cal!Callers : reload'[c].at \in {"targets", "groups", "install"} /\ reload'[c].window # window' =>
            age'["window"] <= reload'[c].since
    BY <2>2, <1>1, <1>2, <1>6 DEF ReadsKept, Tabled
  <2>4. \A c \in Cal!Callers : reload'[c].at \in {"groups", "install"} /\ reload'[c].target # target' =>
            age'["target"] <= reload'[c].since
    BY <2>2, <1>1, <1>2, <1>6 DEF ReadsKept, Tabled
  <2>5. \A c \in Cal!Callers : reload'[c].at = "install" /\ reload'[c].above # above' =>
            age'["above"] <= reload'[c].since
    BY <2>2, <1>1, <1>2, <1>6 DEF ReadsKept, Tabled
  <2> QED BY <2>1, <2>3, <2>4, <2>5, <1>1, <1>2, <1>5 DEF ReadsKept
<1>10. TimerKept'
  <2>1. PICK k \in Cal!Callers : k = Cal!Ticker
    BY <1>2, CalendarTyped
  <2>2. reload'[k].at # "idle" => due' + reload'[k].since <= Refresh \/ due' = 0
    <3>1. reload[k].at # "idle" => due + reload[k].since <= Refresh \/ due = 0
      BY <2>1, <1>2 DEF TimerKept
    <3>2. due' = (IF due > 0 THEN due - 1 ELSE 0) /\ reload'[k].at = reload[k].at
          /\ (reload[k].at # "idle" => reload'[k].since = reload[k].since + 1)
      BY <1>1, <1>6
    <3> QED BY <3>1, <3>2, <1>7
  <2>3. ASSUME NEW t \in Tabled, Delayed(t) PROVE Delayed(t)'
    <3>1. Longest(failures)' = Longest(failures) /\ Longest(failures) \in Nat
      BY <1>1, <1>2, CalendarTyped DEF Longest
    <3>2. CASE reload[k].at = "idle"
      <4>1. age[t] + due <= Longest(failures) /\ due > 0 /\ due' = due - 1 /\ reload'[k].at = "idle"
        BY <2>1, <2>3, <3>2, <1>1, <1>6, <1>7 DEF Delayed
      <4>2. age'[t] + due' <= Longest(failures)
        BY <3>1, <4>1, <1>3, <1>4, <1>7
      <4> QED BY <2>1, <3>1, <4>1, <4>2 DEF Delayed
    <3>3. CASE reload[k].at # "idle"
      <4>1. age[t] <= Longest(failures) + reload[k].since /\ reload'[k].at # "idle"
            /\ reload'[k].since = reload[k].since + 1
        BY <2>1, <2>3, <3>3, <1>6 DEF Delayed
      <4>2. age'[t] <= Longest(failures) + reload'[k].since
        BY <3>1, <4>1, <1>3, <1>4, <1>7
      <4> QED BY <2>1, <3>1, <4>1, <4>2 DEF Delayed
    <3> QED BY <3>2, <3>3
  <2> QED BY <2>1, <2>2, <2>3, <1>1, <1>2 DEF TimerKept, Tabled
<1>11. OverlapKept'
  BY <1>1, <1>2, <1>6 DEF OverlapKept
<1>12. EndsKept'
  BY <1>1, <1>2 DEF EndsKept
<1> QED BY <1>8, <1>9, <1>10, <1>11, <1>12 DEF CalendarInvariant

LEMMA CalendarStep ==
    ASSUME CalendarSorts, CalendarInvariant, [Cal!Next]_Cal!vars
    PROVE  CalendarInvariant'
<1>1. CASE \E c \in Clients, w \in Windows, b \in Bodies : Cal!Create(c, w, b) \/ Cal!Update(c, w, b)
  BY <1>1, CalendarCreate, CalendarUpdate
<1>2. CASE \E c \in Clients, w \in Windows, at \in {now, now - 1} : at >= 0 /\ Cal!End(c, w, at)
  <2>1. PICK c \in Clients, w \in Windows, at \in {now, now - 1} : at >= 0 /\ Cal!End(c, w, at)
    BY <1>2
  <2>2. at \in Nat
    BY <2>1 DEF CalendarInvariant, CalendarShapes
  <2> QED BY <2>1, <2>2, CalendarEnd
<1>3. CASE \E c \in Clients, w \in Windows : Cal!Delete(c, w)
  BY <1>3, CalendarDelete
<1>4. CASE \E tree \in Trees : Cal!MoveGroup(tree)
  BY <1>4, CalendarMove
<1>5. CASE Cal!StartTick \/ Cal!Tick
  BY <1>5, CalendarBegin, CalendarTick
<1>6. CASE \E c \in Cal!Callers :
             \/ Cal!ReadRows(c) \/ Cal!ReadTargets(c) \/ Cal!ReadGroups(c)
             \/ Cal!Install(c) \/ Cal!Fail(c)
  BY <1>6, CalendarRead, CalendarFinish
<1>7. CASE UNCHANGED Cal!vars
  <2>1. UNCHANGED <<zone, now, window, target, above, calendar, reload, due, age, overlapped, ends, failures>>
    BY <1>7 DEF Cal!vars
  <2>2. \A t \in Tabled : Delayed(t)' <=> Delayed(t)
    BY <2>1 DEF Delayed, Longest
  <2>3. TimerKept'
    BY <2>1, <2>2 DEF CalendarInvariant, TimerKept, Tabled
  <2> QED BY <2>1, <2>3 DEF CalendarInvariant, CalendarShapes, ReadsKept, OverlapKept, EndsKept
<1> QED BY <1>1, <1>2, <1>3, <1>4, <1>5, <1>6, <1>7 DEF Cal!Next

-----------------------------------------------------------------------------
\* The occurrences of a window that has ended end with it.
LEMMA EndedOccurrence ==
    ASSUME CalendarSorts, CalendarShapes, NEW rec \in WindowRows, rec.ended # None, NEW k \in Nat
    PROVE  LET o == Cal!Occurrence(rec, k) IN o # None => o.to \in Int /\ o.to <= rec.ended
<1>1. rec.ended \in Nat /\ rec.start \in Int /\ rec.ends \in Int /\ rec.every \in Nat
  BY DEF WindowRows
<1>2. \A t \in Int : Cal!Offset(t) \in Int
  BY DEF Cal!Offset, CalendarSorts, CalendarShapes
<1>3. \A t \in Int : Cal!Wall(t) \in Int /\ Cal!FromWall(t) \in Int
  BY <1>2 DEF Cal!Wall, Cal!FromWall
<1>4. Cal!StartOf(rec, k) \in Int
  <2>1. PICK d \in Int : d = k * rec.every * Day
    BY <1>1 DEF CalendarSorts
  <2>2. Cal!Wall(rec.start) + d \in Int
    BY <1>1, <1>3
  <2> QED BY <1>1, <1>3, <2>1, <2>2 DEF Cal!StartOf
<1>5. PICK from \in Int : from = Cal!StartOf(rec, k)
  BY <1>4
<1>6. PICK to \in Int : to = from + (rec.ends - rec.start)
  BY <1>1
<1>7. Cal!Occurrence(rec, k) =
        IF from >= rec.ended THEN None
        ELSE [from |-> from, to |-> IF to > rec.ended THEN rec.ended ELSE to]
  BY <1>5, <1>6 DEF Cal!Occurrence
<1> QED BY <1>1, <1>7

LEMMA CandidatesNatural ==
    ASSUME NEW rec \in WindowRows, NEW t \in Nat
    PROVE  Cal!Candidates(rec, t) \subseteq Nat
BY DEF Cal!Candidates

\* Nothing of a window is in course, or to come, once it has ended.
LEMMA EndedIsFinished ==
    ASSUME CalendarSorts, CalendarShapes, NEW rec \in WindowRows, rec.ended # None,
           NEW t \in Nat, t >= rec.ended
    PROVE  Cal!StateAt(rec, t) = "finished"
<1>1. rec.ended \in Nat /\ rec.start \in Int
  BY DEF WindowRows
<1>2. \A k \in Nat : Cal!Occurrence(rec, k) # None =>
          Cal!Occurrence(rec, k).to \in Int /\ Cal!Occurrence(rec, k).to <= t
  BY <1>1, EndedOccurrence
<1>3. Cal!Candidates(rec, t) \subseteq Nat
  BY CandidatesNatural
<1>4. ~Cal!ActiveAt(rec, t)
  BY <1>2, <1>3 DEF Cal!ActiveAt, Cal!Within
<1>5. Cal!NextOccurrence(rec, t) = None
  <2>1. CASE t < rec.start
    <3>1. Cal!StartOf(rec, 0) = rec.start
      BY DEF Cal!StartOf
    <3>2. Cal!Occurrence(rec, 0) = None
      BY <1>1, <2>1, <3>1 DEF Cal!Occurrence
    <3> QED BY <2>1, <3>2 DEF Cal!NextOccurrence
  <2>2. CASE ~(t < rec.start)
    <3> DEFINE open == {k \in Cal!Candidates(rec, t) :
                          LET o == Cal!Occurrence(rec, k) IN o = None \/ o.to > t}
    <3>1. open \in SUBSET Nat /\ \A k \in open : Cal!Occurrence(rec, k) = None
      BY <1>2, <1>3
    <3>2. Cal!NextOccurrence(rec, t) =
            IF open = {} THEN None
            ELSE Cal!Occurrence(rec, CHOOSE k \in open : \A i \in open : k <= i)
      BY <2>2 DEF Cal!NextOccurrence
    <3> HIDE DEF open
    <3>3. CASE open # {}
      <4>1. R!Min(open) \in open
        BY <3>1, <3>3, LeastOf
      <4>2. R!Min(open) = CHOOSE k \in open : \A i \in open : k <= i
        BY DEF R!Min
      <4> QED BY <3>1, <3>2, <3>3, <4>1, <4>2
    <3> QED BY <3>2, <3>3
  <2> QED BY <2>1, <2>2
<1> QED BY <1>4, <1>5 DEF Cal!StateAt

\* The properties of the run, from the invariant.
LEMMA CalendarFollows ==
    ASSUME CalendarSorts, CalendarInvariant
    PROVE  Cal!EndIsFinal /\ Cal!SeenAtOnce /\ Cal!CalendarCatchesUp /\ Cal!AskedAsStored
<1>1. CalendarShapes /\ ReadsKept /\ TimerKept /\ OverlapKept /\ EndsKept
  BY DEF CalendarInvariant
<1>2. Cal!EndIsFinal
  <2> SUFFICES ASSUME NEW w \in Windows, window[w] # Absent, NEW at \in ends[w]
               PROVE  /\ window[w].ended # None /\ window[w].ended <= at
                      /\ now >= at => Cal!StateAt(window[w], now) = "finished"
    BY DEF Cal!EndIsFinal
  <2>1. PICK rec \in WindowRows : rec = window[w]
    BY <1>1 DEF CalendarShapes, WindowTable
  <2>2. rec.ended # None /\ rec.ended <= at /\ at \in Nat /\ rec.ended \in Nat /\ now \in Nat
    BY <2>1, <1>1 DEF EndsKept, CalendarShapes, WindowRows
  <2>3. now >= at => Cal!StateAt(rec, now) = "finished"
    BY <2>2, <1>1, EndedIsFinished
  <2> QED BY <2>1, <2>2, <2>3
<1>3. Cal!SeenAtOnce
  <2>1. Cal!Reloading = {} => \A c \in Cal!Callers : reload[c].at = "idle"
    BY DEF Cal!Reloading
  <2> QED BY <2>1, <1>1 DEF Cal!SeenAtOnce, OverlapKept
<1>4. Longest(failures) + MaxDelay <= Cal!Lag /\ Cal!Lag \in Nat
  <2>1. PICK n \in Nat, m \in Nat, k \in Nat : n = failures /\ m = MaxFailures /\ k = Refresh + MaxDelay /\ n <= m
    BY <1>1, CalendarTyped
  <2>2. n * k <= m * k /\ (1 + m) * k = m * k + k /\ n * k \in Nat /\ m * k \in Nat
    <3>1. PICK d \in Nat : m = n + d
      BY <2>1
    <3>2. (n + d) * k = n * k + d * k /\ n * k \in Nat /\ d * k \in Nat /\ (1 + m) * k = m * k + k
      OBVIOUS
    <3> QED BY <3>1, <3>2
  <2> QED BY <2>1, <2>2 DEF Longest, Cal!Lag, CalendarSorts
<1>5. \A t \in Tabled : Delayed(t) => ~(age[t] > Cal!Lag)
  <2> SUFFICES ASSUME NEW t \in Tabled, Delayed(t) PROVE age[t] <= Cal!Lag
    BY <1>1, <1>4 DEF CalendarShapes
  <2>1. age[t] \in Nat /\ due \in Nat /\ MaxDelay \in Nat /\ Longest(failures) \in Nat
        /\ reload[Cal!Ticker].since \in Nat /\ reload[Cal!Ticker].since <= MaxDelay
    BY <1>1, CalendarTyped DEF CalendarShapes, ReadsKept
  <2>2. age[t] <= Longest(failures) + MaxDelay
    BY <2>1 DEF Delayed
  <2> QED BY <1>4, <2>1, <2>2
<1>6. Cal!CalendarCatchesUp
  BY <1>1, <1>5 DEF TimerKept, Tabled, Cal!CalendarCatchesUp
<1>7. Cal!AskedAsStored
  <2> SUFFICES ASSUME \A t \in DOMAIN age : ~(age[t] <= Cal!Lag), NEW m \in Monitors
               PROVE  Cal!Covering(calendar, m, now) = Cal!Covering(Cal!Tables, m, now)
    BY DEF Cal!AskedAsStored
  <2>1. age["window"] > Cal!Lag /\ age["target"] > Cal!Lag /\ age["above"] > Cal!Lag
    BY <1>1, <1>4 DEF CalendarShapes, Tabled
  <2>2. calendar.window = window /\ calendar.target = target /\ calendar.above = above
    BY <1>6, <2>1 DEF Cal!CalendarCatchesUp
  <2>3. Cal!Tables.window = window /\ Cal!Tables.target = target /\ Cal!Tables.above = above
    BY DEF Cal!Tables
  <2> QED BY <2>2, <2>3 DEF Cal!Covering
<1> QED BY <1>2, <1>3, <1>6, <1>7

\* What reloads may read, install and leave stale, and the end of a window, are
\* kept by every request, reload and failure (maintenance/calendar.go Reload,
\* Run; sqlstore/maintenance.go End).
THEOREM CalendarKept ==
    ASSUME CalendarSorts
    PROVE  Cal!Spec => []CalendarInvariant
<1>1. Cal!Init => CalendarInvariant
  BY CalendarStart
<1>2. CalendarInvariant /\ [Cal!Next]_Cal!vars => CalendarInvariant'
  BY CalendarStep
<1> QED BY <1>1, <1>2, PTL DEF Cal!Spec

\* An ended window stays ended, and the calendar has what was written: at once if
\* nothing met its reload, after the timer's whatever did (calendar.go Reload, Run).
THEOREM WindowsAreKnown ==
    ASSUME CalendarSorts
    PROVE  Cal!Spec => [](/\ Cal!EndIsFinal /\ Cal!SeenAtOnce
                          /\ Cal!CalendarCatchesUp /\ Cal!AskedAsStored)
<1>1. CalendarInvariant => /\ Cal!EndIsFinal /\ Cal!SeenAtOnce
                           /\ Cal!CalendarCatchesUp /\ Cal!AskedAsStored
  BY CalendarFollows
<1> QED BY <1>1, CalendarKept, PTL

-----------------------------------------------------------------------------
(***************************************************************************)
(* The sentinel: a failure is thrown away only on recent evidence that the *)
(* network was away, and by a sentinel that reached something before.      *)
(***************************************************************************)
Sen == INSTANCE Sentinel

SentinelSorts == Count \in Nat \ {0} /\ CacheTTL \in Nat /\ Timeout \in Nat /\ Patience \in Nat

\* What so many dials last at most.
Dials(n) == n * Timeout

\* Within d each of the first k targets was away, or a dial was cut short.
Evidence(c, w, k, d) == c <= d \/ \A t \in 1..k : w[t] <= d

\* What a check relies on at each step, given the evidence there is.
Grounded(x, c, w, reached) ==
    /\ x.step = "dial" =>
         /\ x.target \in 1..Count
         /\ Evidence(c, w, x.target - 1, Dials(x.target - 1) + x.dialled)
    /\ x.step = "store" => IF x.up THEN reached ELSE Evidence(c, w, Count, Dials(Count))
    /\ x.step = "told" /\ ~ x.up => Evidence(c, w, Count, Sen!Window) /\ reached

\* A cache that says down was filled after a whole round of dials.
CacheGrounded(x, c, w) ==
    x.has /\ ~ x.up /\ x.age < Sen!Horizon => Evidence(c, w, Count, Dials(Count) + x.age)

SentinelInvariant ==
    /\ Sen!TypeOK
    /\ \A a \in Askers : Grounded(asker[a], cut, away, everReached)
    /\ CacheGrounded(cached, cut, away)
    /\ proven => everReached

LEMMA DialsAdd ==
    ASSUME SentinelSorts
    PROVE  /\ \A n \in Nat : Dials(n) \in Nat /\ Dials(n + 1) = Dials(n) + Timeout
           /\ Sen!Window = CacheTTL + Dials(Count) /\ Sen!Window \in Nat /\ Dials(Count) <= Sen!Window
           /\ Sen!Horizon = Sen!Window + 1 /\ Sen!Horizon \in Nat
<1>1. \A n \in Nat : n * Timeout \in Nat /\ (n + 1) * Timeout = n * Timeout + Timeout
  BY DEF SentinelSorts
<1> QED
  BY <1>1 DEF SentinelSorts, Dials, Sen!Window, Sen!Horizon

LEMMA SentinelNumbers ==
    ASSUME Sen!TypeOK, SentinelSorts
    PROVE  /\ Sen!Horizon \in Nat /\ cut \in Nat /\ cut <= Sen!Horizon
           /\ \A t \in 1..Count : away[t] \in Nat /\ away[t] <= Sen!Horizon
<1>1. Sen!Horizon \in Nat
  BY DialsAdd
<1>2. cut \in 0..Sen!Horizon /\ away \in [1..Count -> 0..Sen!Horizon]
  BY DEF Sen!TypeOK, Sen!Targets
<1>3. \A t \in 1..Count : away[t] \in 0..Sen!Horizon
  BY <1>2
<1> QED
  BY <1>1, <1>2, <1>3

\* Evidence of so long ago is evidence of longer ago.
LEMMA EvidenceWidens ==
    ASSUME Sen!TypeOK, SentinelSorts, NEW k \in 0..Count, NEW j \in 0..k, NEW d \in Nat, NEW e \in Nat,
           d <= e, Evidence(cut, away, k, d)
    PROVE  Evidence(cut, away, j, e)
<1>1. Count \in Nat /\ \A t \in 1..j : t \in 1..k /\ t \in 1..Count
  BY DEF SentinelSorts
<1> QED
  BY <1>1, SentinelNumbers DEF Evidence

\* No step but a tick makes it older, and a tick by one instant.
EvidenceStands ==
    \A k \in 0..Count, d \in Nat : Evidence(cut, away, k, d) => Evidence(cut', away', k, d)

LEMMA StandsUnchanged ==
    ASSUME cut' = cut, away' = away
    PROVE  EvidenceStands
BY DEF EvidenceStands

LEMMA StandsCut ==
    ASSUME SentinelSorts, cut' = 0
    PROVE  \A k \in 0..Count, d \in Nat : Evidence(cut', away', k, d)
BY DEF Evidence

LEMMA StandsChange ==
    ASSUME Sen!TypeOK, SentinelSorts, NEW up \in SUBSET Sen!Targets, Sen!Change(up)
    PROVE  EvidenceStands
<1> SUFFICES ASSUME NEW k \in 0..Count, NEW d \in Nat, Evidence(cut, away, k, d)
             PROVE  Evidence(cut', away', k, d)
  BY DEF EvidenceStands
<1>1. Count \in Nat /\ \A t \in 1..k : t \in 1..Count /\ t \in Sen!Targets
  BY DEF SentinelSorts, Sen!Targets
<1>2. cut' = cut /\ \A t \in 1..k : away'[t] \in {0, away[t]}
  BY <1>1 DEF Sen!Change
<1> QED
  BY <1>1, <1>2, SentinelNumbers DEF Evidence

LEMMA EvidenceAges ==
    ASSUME Sen!TypeOK, SentinelSorts, NEW k \in 0..Count, NEW d \in Nat, Evidence(cut, away, k, d), Sen!Tick
    PROVE  Evidence(cut', away', k, d + 1)
<1>1. Count \in Nat /\ \A t \in 1..k : t \in 1..Count /\ t \in Sen!Targets
  BY DEF SentinelSorts, Sen!Targets
<1>2. cut' = Sen!Older(cut) /\ \A t \in Sen!Targets : away'[t] \in {0, Sen!Older(away[t])}
  BY DEF Sen!Tick
<1>3. cut' <= cut + 1 /\ cut' \in Nat
  BY <1>2, SentinelNumbers DEF Sen!Older
<1>4. \A t \in 1..k : away'[t] <= away[t] + 1 /\ away'[t] \in Nat
  BY <1>1, <1>2, SentinelNumbers DEF Sen!Older
<1> QED
  BY <1>1, <1>3, <1>4, SentinelNumbers DEF Evidence

Steps == {"rest", "ask", "dial", "store", "told"}
Asker == [step: Steps, left: 0..Patience, target: 0..Count, dialled: 0..Timeout, up: BOOLEAN]
Cached == [has: BOOLEAN, up: BOOLEAN, age: 0..Sen!Horizon]

LEMMA OlderType ==
    ASSUME SentinelSorts, NEW old \in 0..Sen!Horizon
    PROVE  Sen!Older(old) \in 0..Sen!Horizon
BY DialsAdd DEF Sen!Older

LEMMA TickTypes ==
    ASSUME SentinelSorts, Sen!TypeOK, Sen!Tick
    PROVE  Sen!TypeOK'
<1>1. /\ away \in [Sen!Targets -> 0..Sen!Horizon] /\ cached \in Cached /\ cut \in 0..Sen!Horizon
      /\ asker \in [Askers -> Asker] /\ Sen!Horizon \in Nat
  BY DialsAdd DEF Sen!TypeOK, Cached, Asker, Steps
<1>2. away' \in [Sen!Targets -> 0..Sen!Horizon]
  <2>1. away' = [t \in Sen!Targets |-> IF t \in reachable THEN Sen!Older(away[t]) ELSE 0]
    BY DEF Sen!Tick
  <2>2. \A t \in Sen!Targets : Sen!Older(away[t]) \in 0..Sen!Horizon
    BY <1>1, OlderType
  <2> QED
    BY <1>1, <2>1, <2>2
<1>3. cached' \in Cached
  <2>1. cached' = [cached EXCEPT !.age = Sen!Older(cached.age)]
    BY DEF Sen!Tick
  <2>2. Sen!Older(cached.age) \in 0..Sen!Horizon
    BY <1>1, OlderType DEF Cached
  <2> QED
    BY <1>1, <2>1, <2>2 DEF Cached
<1>4. asker' \in [Askers -> Asker]
  <2> DEFINE Less(n) == IF n > 0 THEN n - 1 ELSE 0
             More(a) == IF asker[a].step = "dial" THEN asker[a].dialled + 1 ELSE asker[a].dialled
  <2>1. asker' = [a \in Askers |->
                    [asker[a] EXCEPT !.left = Less(asker[a].left), !.dialled = More(a)]]
    BY DEF Sen!Tick
  <2>2. ASSUME NEW a \in Askers
        PROVE  Less(asker[a].left) \in 0..Patience /\ More(a) \in 0..Timeout
    <3>1. /\ asker[a].left \in 0..Patience /\ asker[a].dialled \in 0..Timeout
          /\ asker[a].step = "dial" => asker[a].dialled # Timeout
      BY <1>1 DEF Sen!Tick, Sen!Urgent, Asker
    <3> QED
      BY <3>1 DEF SentinelSorts
  <2> HIDE DEF Less, More
  <2>3. ASSUME NEW a \in Askers
        PROVE  [asker[a] EXCEPT !.left = Less(asker[a].left), !.dialled = More(a)] \in Asker
    BY <1>1, <2>2 DEF Asker
  <2> QED
    BY <2>1, <2>3
<1>5. cut' \in 0..Sen!Horizon
  BY <1>1, OlderType DEF Sen!Tick
<1> QED
  BY <1>2, <1>3, <1>4, <1>5 DEF Sen!Tick, Sen!TypeOK, Cached, Asker, Steps

LEMMA Answers ==
    ASSUME NEW up \in BOOLEAN, NEW known \in BOOLEAN
    PROVE  Sen!Verdict(up, known) \in BOOLEAN
BY Zenon DEF Sen!Verdict

\* What a check is told keeps it of its type.
LEMMA Told ==
    ASSUME NEW x \in Asker, NEW up \in BOOLEAN
    PROVE  [x EXCEPT !.step = "told", !.up = up] \in Asker
BY DEF Asker, Steps

LEMMA Onward ==
    ASSUME NEW x \in Asker, NEW n \in 0..Count, NEW m \in 0..Timeout
    PROVE  /\ [x EXCEPT !.target = n, !.dialled = m] \in Asker
           /\ [x EXCEPT !.step = "dial", !.target = n, !.dialled = m] \in Asker
<1>1. [x EXCEPT !.target = n, !.dialled = m] \in Asker
  BY DEF Asker
<1>2. [x EXCEPT !.step = "dial", !.target = n, !.dialled = m] \in Asker
  BY DEF Asker, Steps
<1> QED
  BY <1>1, <1>2

LEMMA AskerTypes ==
    ASSUME SentinelSorts, Sen!TypeOK, NEW a \in Askers,
           \/ \E left \in 0..Patience : Sen!Fail(a, left)
           \/ Sen!Ask(a) \/ Sen!Answer(a) \/ Sen!NoAnswer(a) \/ Sen!CutDial(a) \/ Sen!Store(a) \/ Sen!Conclude(a)
    PROVE  Sen!TypeOK'
<1>1. /\ asker \in [Askers -> Asker] /\ asker[a] \in Asker /\ cached \in Cached
      /\ proven \in BOOLEAN /\ Sen!Horizon \in Nat /\ Count \in Nat \ {0} /\ Timeout \in Nat
      /\ Sen!Resting \in Asker
  BY DialsAdd DEF Sen!TypeOK, Cached, Asker, Steps, SentinelSorts, Sen!Resting
<1>2. ASSUME NEW left \in 0..Patience, Sen!Fail(a, left) PROVE Sen!TypeOK'
  <2>1. asker' \in [Askers -> Asker]
    BY <1>1, <1>2 DEF Sen!Fail, Asker, Steps, Sen!Resting
  <2> QED
    BY <1>2, <2>1 DEF Sen!TypeOK, Sen!Fail, Asker, Steps
<1>3. CASE Sen!Ask(a)
  <2>1. [asker[a] EXCEPT !.step = "told", !.up = Sen!Verdict(cached.up, proven)] \in Asker
    <3>1. cached.up \in BOOLEAN
      BY <1>1 DEF Cached
    <3> QED
      BY <1>1, <3>1, Answers, Told
  <2>2. [asker[a] EXCEPT !.step = "dial", !.target = 1, !.dialled = 0] \in Asker
    <3>1. 1 \in 0..Count /\ 0 \in 0..Timeout
      BY <1>1
    <3> QED
      BY <1>1, <3>1, Onward
  <2>3. asker' \in [Askers -> Asker]
    BY <1>1, <1>3, <2>1, <2>2 DEF Sen!Ask
  <2> QED
    BY <1>3, <2>3 DEF Sen!TypeOK, Sen!Ask, Asker, Steps
<1>4. CASE Sen!Answer(a)
  <2>1. asker' \in [Askers -> Asker]
    BY <1>1, <1>4 DEF Sen!Answer, Asker, Steps
  <2> QED
    BY <1>4, <2>1 DEF Sen!TypeOK, Sen!Answer, Asker, Steps
<1>5. ASSUME Sen!NextTarget(a) PROVE asker' \in [Askers -> Asker]
  <2>1. [asker[a] EXCEPT !.step = "store", !.up = FALSE] \in Asker
    BY <1>1 DEF Asker, Steps
  <2>2. CASE asker[a].target # Count
    <3>1. asker[a].target + 1 \in 0..Count /\ 0 \in 0..Timeout
      BY <1>1, <2>2 DEF Asker
    <3>2. [asker[a] EXCEPT !.target = asker[a].target + 1, !.dialled = 0] \in Asker
      BY <1>1, <3>1, Onward
    <3>3. asker' = [asker EXCEPT ![a] =
                      [asker[a] EXCEPT !.target = asker[a].target + 1, !.dialled = 0]]
      BY <1>5, <2>2 DEF Sen!NextTarget
    <3> QED
      BY <1>1, <3>2, <3>3
  <2> QED
    BY <1>1, <1>5, <2>1, <2>2 DEF Sen!NextTarget
<1>6. CASE Sen!NoAnswer(a)
  BY <1>5, <1>6 DEF Sen!TypeOK, Sen!NoAnswer, Asker, Steps
<1>7. CASE Sen!CutDial(a)
  BY <1>1, <1>5, <1>7 DEF Sen!TypeOK, Sen!CutDial, Asker, Steps
<1>8. CASE Sen!Store(a)
  <2>1. cached' \in Cached /\ proven' \in BOOLEAN
    BY <1>1, <1>8 DEF Sen!Store, Cached, Asker
  <2>2. [asker[a] EXCEPT !.step = "told", !.up = Sen!Verdict(asker[a].up, proven')] \in Asker
    <3>1. asker[a].up \in BOOLEAN
      BY <1>1 DEF Asker
    <3> QED
      BY <1>1, <2>1, <3>1, Answers, Told
  <2>3. asker' \in [Askers -> Asker]
    BY <1>1, <1>8, <2>2 DEF Sen!Store
  <2> QED
    BY <1>8, <2>1, <2>3 DEF Sen!TypeOK, Sen!Store, Asker, Steps, Cached
<1>9. CASE Sen!Conclude(a)
  <2>1. asker' \in [Askers -> Asker]
    BY <1>1, <1>9 DEF Sen!Conclude
  <2> QED
    BY <1>9, <2>1 DEF Sen!TypeOK, Sen!Conclude, Asker, Steps
<1> QED
  BY <1>2, <1>3, <1>4, <1>6, <1>7, <1>8, <1>9

LEMMA InitTypes ==
    ASSUME SentinelSorts, Sen!Init
    PROVE  Sen!TypeOK
<1>1. Sen!Horizon \in Nat /\ Count \in Nat /\ Timeout \in Nat /\ Patience \in Nat
  BY DialsAdd DEF SentinelSorts
<1>2. Sen!Resting \in Asker
  BY <1>1 DEF Sen!Resting, Asker, Steps
<1>3. asker \in [Askers -> Asker]
  BY <1>2 DEF Sen!Init
<1>4. away \in [Sen!Targets -> 0..Sen!Horizon] /\ cut \in 0..Sen!Horizon /\ reachable \subseteq Sen!Targets
  BY <1>1 DEF Sen!Init
<1>5. cached \in Cached
  BY <1>1 DEF Sen!Init, Cached
<1> QED
  BY <1>3, <1>4, <1>5 DEF Sen!Init, Sen!TypeOK, Asker, Steps, Cached

LEMMA ChangeTypes ==
    ASSUME SentinelSorts, Sen!TypeOK, NEW up \in SUBSET Sen!Targets, Sen!Change(up)
    PROVE  Sen!TypeOK'
<1>1. away' \in [Sen!Targets -> 0..Sen!Horizon]
  BY DialsAdd DEF Sen!TypeOK, Sen!Change
<1> QED
  BY <1>1 DEF Sen!TypeOK, Sen!Change

\* Every number that the invariant compares.
LEMMA Ages ==
    ASSUME SentinelSorts, Sen!TypeOK
    PROVE  /\ cached.age \in Nat /\ cached.age <= Sen!Horizon /\ cached.up \in BOOLEAN
           /\ \A a \in Askers : /\ asker[a].target \in 0..Count
                                /\ asker[a].dialled \in 0..Timeout
                                /\ asker[a].up \in BOOLEAN
<1>1. cached \in Cached /\ asker \in [Askers -> Asker] /\ Sen!Horizon \in Nat
  BY DialsAdd DEF Sen!TypeOK, Cached, Asker, Steps
<1> QED
  BY <1>1 DEF Cached, Asker

\* A check that does not move stays grounded while the evidence stands.
LEMMA GroundStands ==
    ASSUME SentinelSorts, Sen!TypeOK, EvidenceStands, everReached => everReached',
           NEW a \in Askers, Grounded(asker[a], cut, away, everReached)
    PROVE  Grounded(asker[a], cut', away', everReached')
<1> DEFINE x == asker[a]
<1>1. /\ Count \in Nat /\ Count \in 0..Count
      /\ Dials(Count) \in Nat /\ Sen!Window \in Nat
  BY DialsAdd DEF SentinelSorts
<1>2. ASSUME x.step = "dial"
      PROVE  x.target \in 1..Count /\ x.target - 1 \in 0..Count /\ Dials(x.target - 1) + x.dialled \in Nat
  BY <1>1, <1>2, Ages, DialsAdd DEF Grounded, SentinelSorts
<1> QED
  BY <1>1, <1>2 DEF Grounded, EvidenceStands

LEMMA CacheStands ==
    ASSUME SentinelSorts, Sen!TypeOK, EvidenceStands, CacheGrounded(cached, cut, away)
    PROVE  CacheGrounded(cached, cut', away')
<1>1. Count \in 0..Count /\ Dials(Count) + cached.age \in Nat
  BY DialsAdd, Ages DEF SentinelSorts
<1> QED
  BY <1>1 DEF CacheGrounded, EvidenceStands

\* The end of a dial: what holds of the targets so far holds of one more.
LEMMA NextGrounded ==
    ASSUME SentinelSorts, Sen!TypeOK, NEW a \in Askers, Sen!NextTarget(a),
           asker[a].step = "dial", asker[a].target \in 1..Count,
           Evidence(cut', away', asker[a].target, Dials(asker[a].target))
    PROVE  Grounded(asker'[a], cut', away', everReached')
<1> DEFINE n == asker[a].target
<1>1. n \in Nat /\ Dials(n) \in Nat
  BY DialsAdd DEF SentinelSorts
<1>2. asker \in [Askers -> Asker]
  BY DEF Sen!TypeOK, Asker, Steps
<1>3. CASE n = Count
  <2>1. asker'[a].step = "store" /\ asker'[a].up = FALSE
    BY <1>2, <1>3 DEF Sen!NextTarget, Asker
  <2> QED
    BY <1>3, <2>1 DEF Grounded
<1>4. CASE n # Count
  <2>1. asker'[a].step = asker[a].step /\ asker'[a].target = n + 1 /\ asker'[a].dialled = 0
    BY <1>2, <1>4 DEF Sen!NextTarget, Asker
  <2>2. Dials(n + 1 - 1) + 0 = Dials(n) /\ n + 1 \in 1..Count /\ n + 1 - 1 = n
    BY <1>1, <1>4 DEF SentinelSorts
  <2>3. Evidence(cut', away', asker'[a].target - 1,
                 Dials(asker'[a].target - 1) + asker'[a].dialled)
    BY <2>1, <2>2
  <2>4. asker'[a].step \notin {"store", "told"}
    BY <2>1
  <2> QED
    BY <2>1, <2>2, <2>3, <2>4 DEF Grounded
<1> QED
  BY <1>3, <1>4

LEMMA TickGrounds ==
    ASSUME SentinelSorts, SentinelInvariant, Sen!Tick
    PROVE  SentinelInvariant'
<1>1. Sen!TypeOK /\ Sen!TypeOK'
  BY TickTypes DEF SentinelInvariant
<1>2. Count \in 0..Count /\ Dials(Count) \in Nat /\ Sen!Horizon \in Nat
  BY DialsAdd DEF SentinelSorts
<1>3. ASSUME NEW a \in Askers PROVE Grounded(asker[a], cut, away, everReached)'
  <2> DEFINE x == asker[a]
  <2>1. /\ asker'[a].step = x.step /\ asker'[a].target = x.target /\ asker'[a].up = x.up
        /\ x.step = "dial" => asker'[a].dialled = x.dialled + 1
    <3>1. asker \in [Askers -> Asker]
      BY <1>1 DEF Sen!TypeOK, Asker, Steps
    <3> QED
      BY <3>1 DEF Sen!Tick, Asker
  <2>2. x.step \notin {"store", "told"}
    BY DEF Sen!Tick, Sen!Urgent
  <2>3. CASE x.step = "dial"
    <3>1. x.target \in 1..Count
          /\ Evidence(cut, away, x.target - 1, Dials(x.target - 1) + x.dialled)
      BY <2>3 DEF SentinelInvariant, Grounded
    <3>2. x.target - 1 \in 0..Count /\ x.dialled \in Nat
      BY <1>1, <3>1, Ages DEF SentinelSorts
    <3>3. Dials(x.target - 1) \in Nat
      BY <3>2, DialsAdd DEF SentinelSorts
    <3>4. Evidence(cut', away', x.target - 1, (Dials(x.target - 1) + x.dialled) + 1)
      BY <1>1, <3>1, <3>2, <3>3, EvidenceAges
    <3>5. (Dials(x.target - 1) + x.dialled) + 1 = Dials(x.target - 1) + (x.dialled + 1)
      BY <3>2, <3>3
    <3> QED
      BY <2>1, <2>2, <2>3, <3>1, <3>4, <3>5 DEF Grounded
  <2> QED
    BY <2>1, <2>2, <2>3 DEF Grounded
<1>4. CacheGrounded(cached, cut, away)'
  <2>1. cached'.has = cached.has /\ cached'.up = cached.up /\ cached'.age = Sen!Older(cached.age)
    <3>1. cached \in Cached
      BY <1>1 DEF Sen!TypeOK, Cached
    <3> QED
      BY <3>1 DEF Sen!Tick, Cached
  <2>2. ASSUME cached.has, ~ cached.up, Sen!Older(cached.age) < Sen!Horizon
        PROVE  Evidence(cut', away', Count, Dials(Count) + Sen!Older(cached.age))
    <3>1. cached.age < Sen!Horizon /\ cached.age \in Nat /\ Sen!Older(cached.age) = cached.age + 1
      BY <1>1, <1>2, <2>2, Ages DEF Sen!Older
    <3>2. Evidence(cut', away', Count, (Dials(Count) + cached.age) + 1)
      BY <1>1, <1>2, <2>2, <3>1, EvidenceAges DEF SentinelInvariant, CacheGrounded
    <3> QED
      BY <1>2, <3>1, <3>2
  <2>3. CacheGrounded(cached', cut', away')
    BY <2>1, <2>2 DEF CacheGrounded
  <2> QED
    BY <2>3, DialsAdd DEF CacheGrounded
<1>5. (proven => everReached)'
  BY DEF SentinelInvariant, Sen!Tick
<1> QED
  BY <1>1, <1>3, <1>4, <1>5 DEF SentinelInvariant

\* A step of one check grounds what it leaves; the rest stands.
LEMMA AskerGrounds ==
    ASSUME SentinelSorts, SentinelInvariant, NEW a \in Askers,
           \/ \E left \in 0..Patience : Sen!Fail(a, left)
           \/ Sen!Ask(a) \/ Sen!Answer(a) \/ Sen!NoAnswer(a) \/ Sen!CutDial(a) \/ Sen!Store(a) \/ Sen!Conclude(a)
    PROVE  SentinelInvariant'
<1> DEFINE x == asker[a]
           n == asker[a].target
<1>1. Sen!TypeOK /\ Sen!TypeOK'
  BY AskerTypes DEF SentinelInvariant
<1>2. /\ asker \in [Askers -> Asker] /\ x \in Asker /\ cached \in Cached
      /\ Count \in 0..Count /\ Dials(Count) \in Nat /\ Sen!Window \in Nat /\ Dials(Count) <= Sen!Window
      /\ Sen!Window = CacheTTL + Dials(Count) /\ Sen!Horizon = Sen!Window + 1
      /\ Grounded(x, cut, away, everReached)
  BY <1>1, DialsAdd DEF Sen!TypeOK, Cached, Asker, Steps, SentinelSorts, SentinelInvariant
<1>3. EvidenceStands
  <2>1. CASE Sen!CutDial(a)
    BY <2>1, StandsCut DEF Sen!CutDial, EvidenceStands
  <2> QED
    BY <2>1, StandsUnchanged DEF Sen!Fail, Sen!Ask, Sen!Answer, Sen!NoAnswer, Sen!Store, Sen!Conclude
<1>4. everReached => everReached'
  BY DEF Sen!Fail, Sen!Ask, Sen!Answer, Sen!NoAnswer, Sen!CutDial, Sen!Store, Sen!Conclude
<1>5. \A b \in Askers : b # a => asker'[b] = asker[b]
  BY <1>2 DEF Sen!Fail, Sen!Ask, Sen!Answer, Sen!NoAnswer, Sen!CutDial, Sen!Store, Sen!Conclude, Sen!NextTarget
<1>6. \A b \in Askers : b # a => Grounded(asker'[b], cut', away', everReached')
  BY <1>1, <1>3, <1>4, <1>5, GroundStands DEF SentinelInvariant
<1>7. CacheGrounded(cached', cut', away')
  <2>1. CASE Sen!Store(a)
    <3>1. x.step = "store" /\ cached' = [has |-> TRUE, up |-> x.up, age |-> 0]
          /\ cut' = cut /\ away' = away
      BY <2>1 DEF Sen!Store
    <3>2. Dials(Count) + 0 = Dials(Count)
      BY <1>2
    <3> QED
      BY <1>2, <3>1, <3>2 DEF CacheGrounded, Grounded
  <2>2. CASE cached' = cached
    BY <1>1, <1>3, <2>2, CacheStands DEF SentinelInvariant
  <2> QED
    BY <2>1, <2>2 DEF Sen!Fail, Sen!Ask, Sen!Answer, Sen!NoAnswer, Sen!CutDial, Sen!Conclude
<1>8. proven' => everReached'
  BY <1>2 DEF SentinelInvariant, Grounded, Sen!Fail, Sen!Ask, Sen!Answer, Sen!NoAnswer, Sen!CutDial, Sen!Store, Sen!Conclude
<1>9. Grounded(asker'[a], cut', away', everReached')
  <2>1. ASSUME NEW left \in 0..Patience, Sen!Fail(a, left)
        PROVE  Grounded(asker'[a], cut', away', everReached')
    <3>1. asker'[a].step = "ask"
      BY <1>2, <2>1 DEF Sen!Fail, Sen!Resting
    <3> QED
      BY <3>1 DEF Grounded
  <2>2. CASE Sen!Ask(a)
    <3>1. CASE Sen!Fresh
      <4>1. asker'[a].step = "told" /\ asker'[a].up = Sen!Verdict(cached.up, proven)
        BY <1>2, <2>2, <3>1 DEF Sen!Ask, Asker
      <4>2. ASSUME ~ Sen!Verdict(cached.up, proven)
            PROVE  Evidence(cut, away, Count, Sen!Window) /\ everReached
        <5>1. proven /\ ~ cached.up
          BY <4>2 DEF Sen!Verdict
        <5>2. cached.has /\ cached.age < CacheTTL /\ cached.age \in Nat
          BY <1>1, <3>1, Ages DEF Sen!Fresh
        <5>3. cached.age < Sen!Horizon /\ Dials(Count) + cached.age <= Sen!Window
              /\ Dials(Count) + cached.age \in Nat
          BY <1>2, <5>2 DEF SentinelSorts
        <5>4. Evidence(cut, away, Count, Dials(Count) + cached.age)
          BY <5>1, <5>2, <5>3 DEF SentinelInvariant, CacheGrounded
        <5> QED
          BY <1>1, <1>2, <5>1, <5>3, <5>4, EvidenceWidens DEF SentinelInvariant
      <4> QED
        BY <2>2, <4>1, <4>2 DEF Grounded, Sen!Ask
    <3>2. CASE ~ Sen!Fresh
      <4>1. asker'[a].step = "dial" /\ asker'[a].target = 1 /\ asker'[a].dialled = 0
        BY <1>2, <2>2, <3>2 DEF Sen!Ask, Asker
      <4>2. 1 \in 1..Count /\ Evidence(cut', away', 0, Dials(0) + 0)
        BY DEF Evidence, SentinelSorts
      <4>3. Evidence(cut', away', asker'[a].target - 1,
                     Dials(asker'[a].target - 1) + asker'[a].dialled)
        BY <4>1, <4>2
      <4> QED
        BY <4>1, <4>2, <4>3 DEF Grounded
    <3> QED
      BY <3>1, <3>2
  <2>3. CASE Sen!Answer(a)
    <3>1. asker'[a].step = "store" /\ asker'[a].up = TRUE /\ everReached' = TRUE
      BY <1>2, <2>3 DEF Sen!Answer, Asker
    <3> QED
      BY <3>1 DEF Grounded
  <2>4. ASSUME x.step = "dial"
        PROVE  /\ n \in 1..Count /\ n - 1 \in Nat /\ x.dialled \in 0..Timeout
               /\ Dials(n - 1) \in Nat /\ Dials(n) = Dials(n - 1) + Timeout /\ Dials(n) \in Nat
               /\ Evidence(cut, away, n - 1, Dials(n - 1) + x.dialled)
    <3>1. n \in 1..Count /\ Evidence(cut, away, n - 1, Dials(n - 1) + x.dialled)
      BY <1>2, <2>4 DEF Grounded
    <3>2. n - 1 \in Nat /\ (n - 1) + 1 = n /\ x.dialled \in 0..Timeout
      BY <1>1, <3>1, Ages DEF SentinelSorts
    <3> QED
      BY <3>1, <3>2, DialsAdd
  <2>5. CASE Sen!NoAnswer(a)
    <3>1. x.step = "dial" /\ away[n] <= x.dialled /\ Sen!NextTarget(a) /\ cut' = cut /\ away' = away
      BY <2>5 DEF Sen!NoAnswer
    <3>2. Evidence(cut, away, n - 1, Dials(n))
      BY <1>1, <2>4, <3>1, EvidenceWidens DEF SentinelSorts
    <3>3. away[n] <= Dials(n) /\ \A t \in 1..n : t \in 1..(n - 1) \/ t = n
      BY <1>1, <2>4, <3>1, SentinelNumbers DEF SentinelSorts
    <3>4. Evidence(cut, away, n, Dials(n))
      BY <3>2, <3>3 DEF Evidence
    <3> QED
      BY <1>1, <2>4, <3>1, <3>4, NextGrounded
  <2>6. CASE Sen!CutDial(a)
    <3>1. x.step = "dial" /\ Sen!NextTarget(a) /\ cut' = 0
      BY <2>6 DEF Sen!CutDial
    <3>2. Evidence(cut', away', n, Dials(n))
      BY <2>4, <3>1 DEF Evidence
    <3> QED
      BY <1>1, <2>4, <3>1, <3>2, NextGrounded
  <2>7. CASE Sen!Store(a)
    <3>1. asker'[a].step = "told" /\ asker'[a].up = Sen!Verdict(x.up, proven')
          /\ x.step = "store" /\ cut' = cut /\ away' = away /\ proven' = (proven \/ x.up)
      BY <1>2, <2>7 DEF Sen!Store, Asker
    <3>2. ASSUME ~ Sen!Verdict(x.up, proven')
          PROVE  Evidence(cut', away', Count, Sen!Window) /\ everReached'
      <4>1. proven' /\ ~ x.up
        BY <3>2 DEF Sen!Verdict
      <4>2. Evidence(cut, away, Count, Dials(Count))
        BY <1>2, <3>1, <4>1 DEF Grounded
      <4> QED
        BY <1>1, <1>2, <1>8, <3>1, <4>1, <4>2, EvidenceWidens
    <3> QED
      BY <3>1, <3>2 DEF Grounded
  <2>8. CASE Sen!Conclude(a)
    <3>1. asker'[a].step = "rest"
      BY <1>2, <2>8 DEF Sen!Conclude, Sen!Resting
    <3> QED
      BY <3>1 DEF Grounded
  <2> QED
    BY <2>1, <2>2, <2>3, <2>5, <2>6, <2>7, <2>8
<1> QED
  BY <1>1, <1>6, <1>7, <1>8, <1>9 DEF SentinelInvariant

LEMMA ChangeGrounds ==
    ASSUME SentinelSorts, SentinelInvariant, NEW up \in SUBSET Sen!Targets, Sen!Change(up)
    PROVE  SentinelInvariant'
<1>1. Sen!TypeOK
  BY DEF SentinelInvariant
<1>2. EvidenceStands /\ UNCHANGED <<cached, proven, asker, everReached>>
  BY <1>1, StandsChange DEF Sen!Change
<1>3. \A a \in Askers : Grounded(asker[a], cut', away', everReached')
  BY <1>1, <1>2, GroundStands DEF SentinelInvariant
<1>4. CacheGrounded(cached, cut', away')
  BY <1>1, <1>2, CacheStands DEF SentinelInvariant
<1>5. Sen!TypeOK'
  BY <1>1, ChangeTypes
<1> QED
  BY <1>2, <1>3, <1>4, <1>5 DEF SentinelInvariant

LEMMA InvariantHolds ==
    ASSUME SentinelSorts
    PROVE  Sen!Spec => []SentinelInvariant
<1>1. ASSUME Sen!Init PROVE SentinelInvariant
  <2>1. Sen!TypeOK
    BY <1>1, InitTypes
  <2>2. \A a \in Askers : asker[a].step = "rest"
    BY <1>1 DEF Sen!Init, Sen!Resting
  <2> QED
    BY <1>1, <2>1, <2>2 DEF Sen!Init, SentinelInvariant, Grounded, CacheGrounded
<1>2. ASSUME SentinelInvariant, [Sen!Next]_(Sen!vars) PROVE SentinelInvariant'
  <2>1. CASE UNCHANGED Sen!vars
    BY <1>2, <2>1 DEF SentinelInvariant, Sen!TypeOK, Sen!vars, Grounded, CacheGrounded
  <2> QED
    BY <1>2, <2>1, TickGrounds, AskerGrounds, ChangeGrounds DEF Sen!Next
<1> QED
  BY <1>1, <1>2, PTL DEF Sen!Spec

\* For any checks that overlap, any targets, timeouts and life of the cache:
\* a failure is thrown away only on recent evidence that the network was away
\* or that a deadline cut a dial, and never by a sentinel that has reached
\* nothing (sentinel.go, NetworkUp).
THEOREM DiscardsOnEvidence ==
    ASSUME SentinelSorts
    PROVE  Sen!Spec => []Sen!VerdictSound
<1>1. ASSUME SentinelInvariant PROVE Sen!VerdictSound
  <2>1. \A t \in Sen!Targets : t \in 1..Count
    BY DEF Sen!Targets
  <2>2. \A a \in Askers : Sen!Discarded(a) => Evidence(cut, away, Count, Sen!Window) /\ everReached
    BY <1>1 DEF SentinelInvariant, Grounded, Sen!Discarded
  <2> QED
    BY <2>1, <2>2 DEF Sen!VerdictSound, Sen!RecentEvidence, Sen!NeverUnproven, Evidence
<1> QED
  BY <1>1, InvariantHolds, PTL

-----------------------------------------------------------------------------
(***************************************************************************)
(* The file of the probe, and all who write it.                            *)
(***************************************************************************)
Fil == INSTANCE ProbeFile

CheckAsked == [every: Nat, limit: Nat, plain: BOOLEAN]
BeatAsked == [every: Nat, plain: BOOLEAN]
Token == Nat
FileConfig == [checks: [Names -> CheckAsked \cup {None}], beat: BeatAsked \cup {None},
               http: BOOLEAN, token: Token \cup {None}]
FileText == FileConfig \cup {None, Refused}

\* None and what Load refuses are neither rows nor configurations, a process
\* is not a request of the interface, and what is asked for, or left by an
\* editor, is written as the parser reads it (probe/config.go, Config).
ProbeFileSorts ==
    /\ None # Refused /\ {None, Refused} \cap FileConfig = {}
    /\ None \notin CheckAsked \cup BeatAsked \cup Nat
    /\ Checks \subseteq CheckAsked /\ Beats \subseteq BeatAsked /\ Edits \subseteq FileText
    /\ Commands \cap Uis = {}

\* What the commands, the interface and the assistant ask of the file.
FileChanges ==
    [kind: {"add"}, name: Names, check: Checks, replace: BOOLEAN]
    \cup [kind: {"remove"}, name: Names]
    \cup [kind: {"init"}, given: Fil!Givens]
    \cup [kind: {"token"}, rotate: BOOLEAN]
    \cup [kind: {"setup"}, given: [beat: BeatAsked \cup {None}, http: BOOLEAN],
          added: UNION {[ns -> Checks] : ns \in SUBSET Names}]
Rotates(change) == change.kind = "token" /\ change.rotate

\* What FileLoads says of one configuration.
LoadsAs(f) ==
    /\ f.beat # None => f.beat.every >= Fil!MinInterval /\ (f.beat.plain => f.http)
    /\ \A n \in Names : LET c == f.checks[n] IN
          c # None => c.limit \in 1..c.every - 1 /\ (c.plain => f.http)

\* Only a rotation replaces a token that is there.
TokenStays(config, change, token, new) ==
    ~ Rotates(change) =>
        IF config.token # None THEN new.token = config.token ELSE new.token \in {None, token}

By == Nat \cup {"shell"}
FileWriting == [step: {"check", "rename"}, change: FileChanges, tries: Nat, by: By,
                read: FileText, token: Token, new: FileConfig]
FileLoading == [step: {"load"}, change: FileChanges, tries: Nat, by: By]
FileAsking == [step: {"ask"}, was: FileConfig]
FileReloading == [step: {"reload"}, by: By]
FileIdle == [step: {"idle"}]

FileShapes ==
    /\ file \in FileText /\ promised \in FileText /\ held \in FileConfig
    /\ drawn \in Nat /\ issued \subseteq Nat \cup {None}
    /\ raced \in BOOLEAN /\ turned \in BOOLEAN
    /\ proc \in [Fil!Procs -> FileIdle \cup FileAsking \cup FileLoading \cup FileWriting
                                \cup FileReloading]

\* What is about to be written is what the change makes of what was read.
WritesOutcome(p) ==
    LET r == proc[p] IN
    /\ LoadsAs(r.new)
    /\ (raced /\ r.step = "rename") \/ r.new = Fil!Outcome(r.change, r.token, r.read)
WritesWhole == \A p \in Fil!Procs : proc[p].step \in {"check", "rename"} => WritesOutcome(p)

\* Until a rotation or an editor, the file holds the only token there ever was.
OneToken ==
    ~ raced /\ ~ turned =>
        /\ file # Refused
        /\ file = None => issued = {}
        /\ file # None => issued \ {None} \subseteq {file.token}

FileInvariant ==
    /\ FileShapes /\ WritesWhole /\ OneToken
    /\ Fil!NothingLost /\ Fil!FileLoads /\ Fil!NeverOpen

\* The kinds of change, and what each carries.
LEMMA ChangeKinds ==
    ASSUME NEW change \in FileChanges
    PROVE  \/ change.kind = "add" /\ change \in [kind: {"add"}, name: Names, check: Checks, replace: BOOLEAN]
           \/ change.kind = "remove" /\ change \in [kind: {"remove"}, name: Names]
           \/ change.kind = "init" /\ change \in [kind: {"init"}, given: Fil!Givens]
           \/ change.kind = "token" /\ change \in [kind: {"token"}, rotate: BOOLEAN]
           \/ /\ change.kind = "setup" /\ change.given \in [beat: BeatAsked \cup {None}, http: BOOLEAN]
              /\ \E ns \in SUBSET Names : change.added \in [ns -> Checks]
BY DEF FileChanges

\* What is given for the heartbeat and for plain HTTP touches nothing else.
LEMMA GivenTyped ==
    ASSUME ProbeFileSorts, NEW config \in FileConfig,
           NEW says \in Fil!Givens \cup [beat: BeatAsked \cup {None}, http: BOOLEAN]
    PROVE  Fil!Given(says, config) \in FileConfig /\ Fil!Given(says, config).token = config.token
<1>1. "http" \in DOMAIN says => says.http \in BOOLEAN
  BY DEF Fil!Givens
<1>2. "beat" \in DOMAIN says => says.beat \in BeatAsked \cup {None}
  BY DEF Fil!Givens, ProbeFileSorts
<1> QED  BY <1>1, <1>2 DEF Fil!Given, FileConfig

LEMMA TokenedTyped ==
    ASSUME ProbeFileSorts, NEW config \in FileConfig, NEW token \in Token
    PROVE  /\ Fil!Tokened(config, token) \in FileConfig
           /\ IF config.token # None THEN Fil!Tokened(config, token).token = config.token
                                  ELSE Fil!Tokened(config, token).token = token
BY DEF Fil!Tokened, FileConfig

\* What each command makes of a configuration is one, with its token
\* (probe/config.go, cmd/upwatch-probe/commands.go).
LEMMA ChangedTyped ==
    ASSUME ProbeFileSorts, NEW change \in FileChanges, NEW token \in Token, NEW config \in FileConfig,
           NEW new, new = Fil!Changed(change, token, config), new # None
    PROVE  new \in FileConfig /\ TokenStays(config, change, token, new)
<1>1. CASE change.kind = "add" /\ change \in [kind: {"add"}, name: Names, check: Checks, replace: BOOLEAN]
  <2>1. new = [config EXCEPT !.checks[change.name] = change.check]
    BY <1>1 DEF Fil!Changed
  <2>2. new \in FileConfig /\ new.token = config.token
    BY <1>1, <2>1 DEF FileConfig, ProbeFileSorts
  <2> QED  BY <2>2 DEF TokenStays
<1>2. CASE change.kind = "remove" /\ change \in [kind: {"remove"}, name: Names]
  <2>1. new = [config EXCEPT !.checks[change.name] = None]
    BY <1>2 DEF Fil!Changed
  <2>2. new \in FileConfig /\ new.token = config.token
    BY <1>2, <2>1 DEF FileConfig
  <2> QED  BY <2>2 DEF TokenStays
<1>3. CASE change.kind = "init" /\ change \in [kind: {"init"}, given: Fil!Givens]
  <2>1. new = Fil!Tokened(Fil!Given(change.given, config), token)
    BY <1>3 DEF Fil!Changed
  <2>2. change.given \in Fil!Givens
    BY <1>3
  <2> QED  BY <2>1, <2>2, GivenTyped, TokenedTyped DEF TokenStays
<1>4. CASE change.kind = "token" /\ change \in [kind: {"token"}, rotate: BOOLEAN]
  <2>1. new = IF change.rotate THEN [config EXCEPT !.token = token] ELSE Fil!Tokened(config, token)
    BY <1>4 DEF Fil!Changed
  <2>2. CASE change.rotate
    BY <1>4, <2>1, <2>2 DEF FileConfig, TokenStays, Rotates
  <2>3. CASE ~ change.rotate
    BY <2>1, <2>3, TokenedTyped DEF TokenStays
  <2> QED  BY <2>2, <2>3
<1>5. CASE /\ change.kind = "setup" /\ change.given \in [beat: BeatAsked \cup {None}, http: BOOLEAN]
           /\ \E ns \in SUBSET Names : change.added \in [ns -> Checks]
  <2> DEFINE base == Fil!Given(change.given, config)
             full == [base EXCEPT !.checks = Fil!Added(change.added, @)]
  <2>1. new = Fil!Tokened(full, token)
    BY <1>5 DEF Fil!Changed
  <2>2. base \in FileConfig /\ base.token = config.token
    BY <1>5, GivenTyped
  <2> HIDE DEF base
  <2>3. Fil!Added(change.added, base.checks) \in [Names -> CheckAsked \cup {None}]
    BY <1>5, <2>2 DEF Fil!Added, FileConfig, ProbeFileSorts
  <2>4. full \in FileConfig /\ full.token = config.token
    BY <2>2, <2>3 DEF FileConfig
  <2> HIDE DEF full
  <2> QED  BY <2>1, <2>4, TokenedTyped DEF TokenStays
<1> QED  BY <1>1, <1>2, <1>3, <1>4, <1>5, ChangeKinds

LEMMA EveryTyped ==
    ASSUME NEW c, c.every \in Nat
    PROVE  Fil!Every(c) \in Nat
BY DEF Fil!Every, Fil!DefaultInterval

\* The defaults are filled in, and only they (probe/config.go, applyDefaults).
LEMMA FilledTyped ==
    ASSUME ProbeFileSorts, NEW config \in FileConfig
    PROVE  Fil!Filled(config) \in FileConfig /\ Fil!Filled(config).token = config.token
<1>1. config.beat # None => Fil!FilledBeat(config.beat) \in BeatAsked
  BY EveryTyped DEF FileConfig, BeatAsked, Fil!FilledBeat
<1>2. ASSUME NEW c \in CheckAsked
      PROVE  Fil!FilledCheck(c) \in CheckAsked
  <2>1. Fil!Every(c) \in Nat
    BY EveryTyped DEF CheckAsked
  <2>2. Fil!Every(c) \div 2 \in Nat
    BY <2>1
  <2>3. Fil!Smaller(Fil!DefaultTimeout, Fil!Every(c) \div 2) \in Nat
    BY <2>2 DEF Fil!Smaller, Fil!DefaultTimeout
  <2> QED  BY <2>1, <2>3 DEF Fil!FilledCheck, CheckAsked
<1>3. [n \in Names |-> IF config.checks[n] = None THEN None ELSE Fil!FilledCheck(config.checks[n])]
        \in [Names -> CheckAsked \cup {None}]
  BY <1>2 DEF FileConfig
<1> QED  BY <1>1, <1>3 DEF Fil!Filled, FileConfig

\* What Validate lets through is what the daemon will load.
LEMMA ValidLoads ==
    ASSUME ProbeFileSorts, NEW config \in FileConfig, Fil!Valid(config)
    PROVE  LoadsAs(config)
<1>1. config.beat # None => config.beat.every >= Fil!MinInterval /\ (config.beat.plain => config.http)
  BY DEF Fil!Valid
<1>2. ASSUME NEW n \in Names, config.checks[n] # None
      PROVE  config.checks[n].limit \in 1..config.checks[n].every - 1 /\ (config.checks[n].plain => config.http)
  <2>1. config.checks[n] \in CheckAsked
    BY <1>2 DEF FileConfig
  <2>2. config.checks[n].limit > 0 /\ config.checks[n].limit < config.checks[n].every
    BY <1>2 DEF Fil!Valid
  <2>3. config.checks[n].plain => config.http
    BY <1>2 DEF Fil!Valid
  <2> QED  BY <2>1, <2>2, <2>3 DEF CheckAsked
<1> QED  BY <1>1, <1>2 DEF LoadsAs

LEMMA NothingTyped ==
    ASSUME ProbeFileSorts
    PROVE  /\ Fil!Nothing \in FileConfig /\ LoadsAs(Fil!Nothing) /\ Fil!Nothing.token = None
BY DEF Fil!Nothing, FileConfig, LoadsAs

LEMMA LoadedTyped ==
    ASSUME ProbeFileSorts, NEW f \in FileText, f # Refused
    PROVE  /\ Fil!Loaded(f) \in FileConfig
           /\ Fil!Loaded(f).token = IF f = None THEN None ELSE f.token
<1>1. CASE f = None
  BY <1>1, NothingTyped DEF Fil!Loaded
<1>2. CASE f # None
  BY <1>2, FilledTyped DEF Fil!Loaded, FileText
<1> QED  BY <1>1, <1>2

\* A change that is not refused leaves a file that loads, with the token that
\* was there unless it rotates it (probe/config.go, Update).
LEMMA OutcomeTyped ==
    ASSUME ProbeFileSorts, NEW change \in FileChanges, NEW token \in Token, NEW f \in FileText,
           Fil!Outcome(change, token, f) # None
    PROVE  LET new == Fil!Outcome(change, token, f) IN
           /\ f # Refused /\ new \in FileConfig /\ LoadsAs(new)
           /\ ~ Rotates(change) =>
                IF f # None /\ f.token # None THEN new.token = f.token ELSE new.token \in {None, token}
<1> DEFINE config == Fil!Changed(change, token, Fil!Loaded(f))
           new == Fil!Outcome(change, token, f)
<1>1. f # Refused /\ config # None /\ Fil!Valid(Fil!Filled(config)) /\ new = Fil!Filled(config)
  BY DEF Fil!Outcome
<1>2. /\ Fil!Loaded(f) \in FileConfig
      /\ Fil!Loaded(f).token = IF f = None THEN None ELSE f.token
  BY <1>1, LoadedTyped
<1>3. config \in FileConfig /\ TokenStays(Fil!Loaded(f), change, token, config)
  BY <1>1, <1>2, ChangedTyped
<1> HIDE DEF config
<1>4. new \in FileConfig /\ new.token = config.token
  BY <1>1, <1>3, FilledTyped
<1>5. LoadsAs(new)
  BY <1>1, <1>4, ValidLoads
<1> HIDE DEF new
<1>6. ~ Rotates(change) =>
         IF f # None /\ f.token # None THEN new.token = f.token ELSE new.token \in {None, token}
  BY <1>2, <1>3, <1>4 DEF TokenStays
<1>7. f # Refused /\ new \in FileConfig /\ LoadsAs(new)
  BY <1>1, <1>4, <1>5
<1> QED  BY <1>6, <1>7 DEF new

\* The step of a process says what it remembers.
LEMMA FileSteps ==
    ASSUME FileShapes, NEW p \in Fil!Procs
    PROVE  LET r == proc[p] IN
           /\ r.step = "idle" <=> r \in FileIdle
           /\ r.step = "ask" => r \in FileAsking
           /\ r.step = "load" => r \in FileLoading
           /\ r.step \in {"check", "rename"} => r \in FileWriting
           /\ r.step = "reload" => r \in FileReloading
BY DEF FileShapes, FileIdle, FileAsking, FileLoading, FileWriting, FileReloading

\* A process that goes on to something that is no writing.
LEMMA FileGoes ==
    ASSUME FileInvariant, NEW p \in Fil!Procs, NEW r, Fil!Goes(p, r),
           r \in FileIdle \cup FileAsking \cup FileLoading \cup FileReloading,
           p \in Uis => r \in FileIdle \/ (r.by \in issued \ {None, Fil!Brief} /\ r.step # "ask"),
           UNCHANGED <<file, promised, held, raced, issued, turned>>, drawn' \in Nat
    PROVE  FileInvariant'
<1>1. FileShapes'
  BY DEF FileInvariant, FileShapes, Fil!Goes
<1>2. WritesWhole'
  <2> SUFFICES ASSUME NEW q \in Fil!Procs, proc'[q].step \in {"check", "rename"}
               PROVE  WritesOutcome(q)'
    BY DEF WritesWhole
  <2>1. q # p
    BY DEF Fil!Goes, FileInvariant, FileShapes, FileIdle, FileAsking, FileLoading, FileReloading
  <2>2. proc'[q] = proc[q]
    BY <2>1 DEF Fil!Goes, FileInvariant, FileShapes
  <2> QED  BY <2>2 DEF WritesOutcome, WritesWhole, FileInvariant
<1>3. Fil!NeverOpen'
  <2> SUFFICES ASSUME NEW q \in Uis, proc'[q] # Fil!Idle
               PROVE  proc'[q].by \in issued \ {None, Fil!Brief}
    BY DEF Fil!NeverOpen
  <2>1. q \in Fil!Procs
    BY DEF Fil!Procs
  <2>2. CASE q = p
    BY <2>1, <2>2 DEF Fil!Goes, FileInvariant, FileShapes, FileIdle, Fil!Idle
  <2>3. CASE q # p
    BY <2>1, <2>3 DEF Fil!Goes, FileInvariant, FileShapes, Fil!NeverOpen
  <2> QED  BY <2>2, <2>3
<1> QED  BY <1>1, <1>2, <1>3 DEF FileInvariant, OneToken, Fil!NothingLost, Fil!FileLoads

LEMMA FileBegins == ProbeFileSorts /\ Fil!Init => FileInvariant
<1> SUFFICES ASSUME ProbeFileSorts, Fil!Init  PROVE FileInvariant
  OBVIOUS
<1> USE DEF Fil!Init
<1>1. Fil!Nothing \in FileConfig /\ LoadsAs(Fil!Nothing)
  BY NothingTyped
<1>2. file \in FileText /\ file # Refused
  BY <1>1 DEF FileText, ProbeFileSorts
<1>3. FileShapes
  BY <1>1, <1>2, LoadedTyped DEF FileShapes, Fil!Idle, FileIdle
<1>4. Fil!FileLoads
  BY <1>1 DEF Fil!FileLoads, LoadsAs, Fil!IsConfig
<1>5. WritesWhole /\ Fil!NeverOpen
  BY DEF WritesWhole, Fil!NeverOpen, Fil!Idle, Fil!Procs
<1>6. OneToken /\ Fil!NothingLost
  BY <1>2 DEF OneToken, Fil!NothingLost
<1> QED  BY <1>3, <1>4, <1>5, <1>6 DEF FileInvariant

\* A command begins, with a change to make.
LEMMA CommandAsks ==
    ASSUME ProbeFileSorts, FileInvariant, NEW p, NEW change \in FileChanges, Fil!Command(p, change)
    PROVE  FileInvariant'
<1>1. p \in Fil!Procs /\ p \notin Uis
  BY DEF Fil!Command, Fil!Procs, ProbeFileSorts
<1>2. Fil!Ask(change, "shell") \in FileLoading
  BY DEF Fil!Ask, FileLoading, By
<1>3. UNCHANGED <<file, promised, held, raced, issued, turned, drawn>>
  BY DEF Fil!Command, Fil!Quiet, Fil!Ghosts
<1>4. Fil!Goes(p, Fil!Ask(change, "shell"))
  BY DEF Fil!Command
<1> QED  BY <1>1, <1>2, <1>3, <1>4, FileGoes DEF FileInvariant, FileShapes

LEMMA CommandChanges ==
    /\ Fil!Adds \cup Fil!Removes \subseteq FileChanges
    /\ \A g \in Fil!Givens : [kind |-> "init", given |-> g] \in FileChanges
    /\ \A r \in BOOLEAN : [kind |-> "token", rotate |-> r] \in FileChanges
BY DEF Fil!Adds, Fil!Removes, FileChanges

\* A request of the interface, with the token the daemon has.
LEMMA SubmitAsks ==
    ASSUME ProbeFileSorts, FileInvariant, NEW p, NEW token \in issued \cup {None},
           NEW change \in Fil!Adds \cup Fil!Removes, Fil!Submit(p, token, change)
    PROVE  FileInvariant'
<1>1. p \in Fil!Procs /\ change \in FileChanges
  BY CommandChanges DEF Fil!Submit, Fil!Procs
<1>2. token \in issued \ {None, Fil!Brief} /\ token \in Nat
  BY DEF Fil!Submit, Fil!Admitted, FileInvariant, FileShapes
<1>3. Fil!Ask(change, token) \in FileLoading
  BY <1>1, <1>2 DEF Fil!Ask, FileLoading, By
<1>4. Fil!Ask(change, token).by = token /\ Fil!Ask(change, token).step = "load"
  BY DEF Fil!Ask
<1>5. UNCHANGED <<file, promised, held, raced, issued, turned, drawn>>
  BY DEF Fil!Submit, Fil!Quiet, Fil!Ghosts
<1>6. Fil!Goes(p, Fil!Ask(change, token))
  BY DEF Fil!Submit
<1> QED  BY <1>1, <1>2, <1>3, <1>4, <1>5, <1>6, FileGoes DEF FileInvariant, FileShapes

\* The assistant reads the file, and later knows what to ask.
LEMMA SetupOpens ==
    ASSUME ProbeFileSorts, FileInvariant, NEW p, Fil!Open(p)
    PROVE  FileInvariant'
<1>1. p \in Fil!Procs /\ p \notin Uis /\ file # Refused
  BY DEF Fil!Open, Fil!Procs, ProbeFileSorts
<1>2. [step |-> "ask", was |-> Fil!Loaded(file)] \in FileAsking
  BY <1>1, LoadedTyped DEF FileAsking, FileInvariant, FileShapes
<1>3. UNCHANGED <<file, promised, held, raced, issued, turned, drawn>>
  BY DEF Fil!Open, Fil!Quiet, Fil!Ghosts
<1>4. Fil!Goes(p, [step |-> "ask", was |-> Fil!Loaded(file)])
  BY DEF Fil!Open
<1> QED  BY <1>1, <1>2, <1>3, <1>4, FileGoes DEF FileInvariant, FileShapes

LEMMA SetupAnswers ==
    ASSUME ProbeFileSorts, FileInvariant, NEW p \in Commands, NEW beat,
           NEW ns \in SUBSET Names, NEW c \in Checks, Fil!Answer(p, beat, [n \in ns |-> c])
    PROVE  FileInvariant'
<1> DEFINE added == [n \in ns |-> c]
           was == proc[p].was
           plain == (beat # was.beat /\ beat.plain) \/ \E n \in DOMAIN added : added[n].plain
<1>1. p \in Fil!Procs /\ p \notin Uis
  BY DEF Fil!Procs, ProbeFileSorts
<1>2. was \in FileConfig
  BY <1>1, FileSteps DEF Fil!Answer, FileInvariant, FileAsking
<1>3. beat \in BeatAsked \cup {None}
  BY <1>2 DEF Fil!Answer, ProbeFileSorts, FileConfig
<1>4. added \in UNION {[xs -> Checks] : xs \in SUBSET Names}
  OBVIOUS
<1>5. Fil!Kept(was, beat, added) \in FileChanges
  <2>1. Fil!Kept(was, beat, added) =
          [kind |-> "setup", given |-> [beat |-> beat, http |-> was.http \/ plain], added |-> added]
    BY DEF Fil!Kept
  <2>2. (was.http \/ plain) \in BOOLEAN
    OBVIOUS
  <2> HIDE DEF plain, added
  <2>3. [beat |-> beat, http |-> was.http \/ plain] \in [beat: BeatAsked \cup {None}, http: BOOLEAN]
    BY <1>3, <2>2
  <2> QED  BY <1>4, <2>1, <2>3 DEF FileChanges
<1>6. Fil!Ask(Fil!Kept(was, beat, added), "shell") \in FileLoading
  BY <1>5 DEF Fil!Ask, FileLoading, By
<1>7. UNCHANGED <<file, promised, held, raced, issued, turned, drawn>>
  BY DEF Fil!Answer, Fil!Quiet, Fil!Ghosts
<1>8. Fil!Goes(p, Fil!Ask(Fil!Kept(was, beat, added), "shell"))
  BY DEF Fil!Answer
<1> HIDE DEF was, added
<1> QED  BY <1>1, <1>6, <1>7, <1>8, FileGoes DEF FileInvariant, FileShapes

\* Update reads the file, and makes what it will write.
LEMMA UpdateLoads ==
    ASSUME ProbeFileSorts, FileInvariant, NEW p \in Fil!Procs, Fil!Load(p)
    PROVE  FileInvariant'
<1> DEFINE r == proc[p]
           config == Fil!Outcome(r.change, drawn + 1, file)
           w == [step |-> "check", change |-> r.change, tries |-> r.tries,
                 by |-> r.by, read |-> file, token |-> drawn + 1, new |-> config]
<1>1. r \in FileLoading
  BY FileSteps DEF Fil!Load, FileInvariant
<1>2. drawn + 1 \in Token
  BY DEF FileInvariant, FileShapes, Token
<1>3. UNCHANGED <<file, promised, held, raced, issued, turned>>
  BY DEF Fil!Load, Fil!Quiet, Fil!Ghosts
<1>4. CASE config = None
  BY <1>3, <1>4, FileGoes DEF Fil!Load, FileInvariant, FileShapes, Fil!Idle, FileIdle
<1>5. CASE config # None
  <2>1. config \in FileConfig /\ LoadsAs(config)
    BY <1>1, <1>2, <1>5, OutcomeTyped DEF FileInvariant, FileShapes, FileLoading
  <2>2. Fil!Goes(p, w) /\ drawn' \in Nat
    BY <1>5 DEF Fil!Load, FileInvariant, FileShapes
  <2>3. w \in FileWriting
    BY <1>1, <1>2, <2>1 DEF FileWriting, FileLoading, FileInvariant, FileShapes
  <2>4. proc' = [proc EXCEPT ![p] = w]
    BY <2>2 DEF Fil!Goes
  <2>5. w.step = "check" /\ w.by = r.by /\ w.new = config /\ w.change = r.change
        /\ w.token = drawn + 1 /\ w.read = file
    OBVIOUS
  <2> HIDE DEF w, config
  <2>6. FileShapes'
    BY <1>3, <2>2, <2>3, <2>4 DEF FileInvariant, FileShapes
  <2>7. WritesWhole'
    <3> SUFFICES ASSUME NEW q \in Fil!Procs, proc'[q].step \in {"check", "rename"}
                 PROVE  WritesOutcome(q)'
      BY DEF WritesWhole
    <3>1. CASE q = p
      <4>1. proc'[q] = w
        BY <2>4, <3>1 DEF FileInvariant, FileShapes
      <4>2. config = Fil!Outcome(r.change, drawn + 1, file)
        BY DEF config
      <4> QED  BY <2>1, <2>5, <4>1, <4>2 DEF WritesOutcome
    <3>2. CASE q # p
      <4>1. proc'[q] = proc[q]
        BY <2>4, <3>2 DEF FileInvariant, FileShapes
      <4> QED  BY <1>3, <4>1 DEF WritesOutcome, WritesWhole, FileInvariant
    <3> QED  BY <3>1, <3>2
  <2>8. Fil!NeverOpen'
    <3> SUFFICES ASSUME NEW q \in Uis, proc'[q] # Fil!Idle
                 PROVE  proc'[q].by \in issued \ {None, Fil!Brief}
      BY <1>3 DEF Fil!NeverOpen
    <3>1. q \in Fil!Procs
      BY DEF Fil!Procs
    <3>2. r # Fil!Idle
      BY <1>1 DEF Fil!Idle, FileLoading
    <3> QED  BY <2>4, <2>5, <3>1, <3>2 DEF FileInvariant, FileShapes, Fil!NeverOpen
  <2> QED  BY <1>3, <2>6, <2>7, <2>8 DEF FileInvariant, OneToken, Fil!NothingLost, Fil!FileLoads
<1> QED  BY <1>4, <1>5

\* Update looks again: what it read still stands, or it begins again.
LEMMA UpdateChecks ==
    ASSUME ProbeFileSorts, FileInvariant, NEW p \in Fil!Procs, Fil!Check(p)
    PROVE  FileInvariant'
<1> DEFINE r == proc[p]
           w == [r EXCEPT !.step = "rename", !.read = file]
           again == [Fil!Ask(r.change, r.by) EXCEPT !.tries = r.tries + 1]
<1>1. r \in FileWriting /\ r.step = "check"
  BY FileSteps DEF Fil!Check, FileInvariant
<1>2. UNCHANGED <<file, promised, held, issued, turned, drawn>>
  BY DEF Fil!Check
<1>3. raced' = (raced \/ (Fil!Unmoved(r.read) /\ file = None /\ r.read # None))
  BY DEF Fil!Check
<1>4. r # Fil!Idle
  BY <1>1 DEF Fil!Idle, FileWriting
<1>5. CASE ~ Fil!Unmoved(r.read)
  <2>1. raced' = raced
    BY <1>3, <1>5 DEF FileInvariant, FileShapes
  <2>2. again \in FileLoading /\ again.by = r.by /\ again.step = "load"
    BY <1>1 DEF FileWriting, FileLoading, Fil!Ask
  <2> HIDE DEF again
  <2>3. Fil!Goes(p, Fil!Idle) \/ Fil!Goes(p, again)
    BY <1>5 DEF Fil!Check, again
  <2>4. p \in Uis => r.by \in issued \ {None, Fil!Brief}
    BY <1>4 DEF FileInvariant, Fil!NeverOpen
  <2>5. Fil!Idle \in FileIdle
    BY DEF Fil!Idle, FileIdle
  <2>6. CASE Fil!Goes(p, Fil!Idle)
    BY <1>2, <2>1, <2>5, <2>6, FileGoes DEF FileInvariant, FileShapes
  <2>7. CASE Fil!Goes(p, again)
    BY <1>2, <2>1, <2>2, <2>4, <2>7, FileGoes DEF FileInvariant, FileShapes
  <2> QED  BY <2>3, <2>6, <2>7
<1>6. CASE Fil!Unmoved(r.read)
  <2>1. proc' = [proc EXCEPT ![p] = w]
    BY <1>6 DEF Fil!Check, Fil!Goes
  <2>2. /\ w \in FileWriting /\ w.step = "rename" /\ w.by = r.by /\ w.new = r.new
        /\ w.change = r.change /\ w.token = r.token /\ w.read = file
    BY <1>1 DEF FileWriting, FileInvariant, FileShapes
  <2>3. raced' \/ r.read = file
    BY <1>3, <1>6 DEF Fil!Unmoved
  <2>4. raced' \in BOOLEAN /\ (raced => raced')
    BY <1>3
  <2> HIDE DEF w
  <2>5. FileShapes'
    BY <1>2, <2>1, <2>2, <2>4 DEF FileInvariant, FileShapes
  <2>6. WritesWhole'
    <3> SUFFICES ASSUME NEW q \in Fil!Procs, proc'[q].step \in {"check", "rename"}
                 PROVE  WritesOutcome(q)'
      BY DEF WritesWhole
    <3>1. CASE q = p
      <4>1. proc'[q] = w
        BY <2>1, <3>1 DEF FileInvariant, FileShapes
      <4>2. LoadsAs(r.new) /\ r.new = Fil!Outcome(r.change, r.token, r.read)
        BY <1>1 DEF FileInvariant, WritesWhole, WritesOutcome
      <4> QED  BY <2>2, <2>3, <4>1, <4>2 DEF WritesOutcome
    <3>2. CASE q # p
      <4>1. proc'[q] = proc[q]
        BY <2>1, <3>2 DEF FileInvariant, FileShapes
      <4> QED  BY <2>4, <4>1 DEF WritesOutcome, WritesWhole, FileInvariant
    <3> QED  BY <3>1, <3>2
  <2>7. Fil!NeverOpen'
    <3> SUFFICES ASSUME NEW q \in Uis, proc'[q] # Fil!Idle
                 PROVE  proc'[q].by \in issued \ {None, Fil!Brief}
      BY <1>2 DEF Fil!NeverOpen
    <3>1. q \in Fil!Procs
      BY DEF Fil!Procs
    <3> QED  BY <1>4, <2>1, <2>2, <3>1 DEF FileInvariant, FileShapes, Fil!NeverOpen
  <2> QED  BY <1>2, <2>4, <2>5, <2>6, <2>7
           DEF FileInvariant, OneToken, Fil!NothingLost, Fil!FileLoads
<1> QED  BY <1>5, <1>6

\* The temporary file takes the place of the file.
LEMMA UpdateRenames ==
    ASSUME ProbeFileSorts, FileInvariant, NEW p \in Fil!Procs, Fil!Rename(p)
    PROVE  FileInvariant'
<1> DEFINE r == proc[p]
           w == IF p \in Uis THEN [step |-> "reload", by |-> r.by] ELSE Fil!Idle
<1>1. r \in FileWriting /\ r.step = "rename" /\ WritesOutcome(p)
  BY FileSteps DEF Fil!Rename, FileInvariant, WritesWhole
<1>2. /\ file' = r.new /\ raced' = (raced \/ file # r.read) /\ issued' = issued \cup {r.new.token}
      /\ turned' = (turned \/ Rotates(r.change)) /\ UNCHANGED <<held, drawn>>
      /\ promised' = IF raced' THEN file' ELSE Fil!Outcome(r.change, r.token, promised)
      /\ proc' = [proc EXCEPT ![p] = w]
  BY DEF Fil!Rename, Fil!Goes, Rotates
<1>3. /\ r.new \in FileConfig /\ LoadsAs(r.new) /\ r.token \in Token /\ r.change \in FileChanges
      /\ r.by \in By /\ r.new.token \in Token \cup {None}
  BY <1>1 DEF WritesOutcome, FileWriting, FileConfig
<1>4. r # Fil!Idle
  BY <1>1 DEF Fil!Idle, FileWriting
<1>5. w \in FileIdle \cup FileReloading /\ (p \in Uis => w.by = r.by)
  BY <1>3 DEF FileIdle, FileReloading, Fil!Idle
<1>6. ~ raced' => /\ ~ raced /\ file = r.read /\ promised = file
                  /\ r.new = Fil!Outcome(r.change, r.token, file)
  BY <1>1, <1>2 DEF WritesOutcome, FileInvariant, Fil!NothingLost
<1> HIDE DEF w
<1>7. promised' = r.new
  BY <1>2, <1>6
<1>8. FileShapes'
  <2>1. proc' \in [Fil!Procs -> FileIdle \cup FileAsking \cup FileLoading \cup FileWriting
                                \cup FileReloading]
    BY <1>2, <1>5 DEF FileInvariant, FileShapes
  <2>2. file' \in FileText /\ promised' \in FileText
    BY <1>2, <1>3, <1>7 DEF FileText
  <2>3. issued' \subseteq Nat \cup {None}
    BY <1>2, <1>3 DEF FileInvariant, FileShapes, Token
  <2> QED  BY <1>2, <2>1, <2>2, <2>3 DEF FileInvariant, FileShapes
<1>9. WritesWhole'
  <2> SUFFICES ASSUME NEW q \in Fil!Procs, proc'[q].step \in {"check", "rename"}
               PROVE  WritesOutcome(q)'
    BY DEF WritesWhole
  <2>1. q # p
    BY <1>2, <1>5 DEF FileInvariant, FileShapes, FileIdle, FileReloading
  <2>2. proc'[q] = proc[q]
    BY <1>2, <2>1 DEF FileInvariant, FileShapes
  <2> QED  BY <1>2, <2>2 DEF WritesOutcome, WritesWhole, FileInvariant
<1>10. OneToken'
  <2> SUFFICES ASSUME ~ raced', ~ turned'
               PROVE  issued' \ {None} \subseteq {r.new.token}
    BY <1>2, <1>3 DEF OneToken, ProbeFileSorts
  <2>1. /\ file # Refused /\ (file = None => issued = {})
        /\ (file # None => issued \ {None} \subseteq {file.token})
    BY <1>2, <1>6 DEF FileInvariant, OneToken
  <2>2. ~ Rotates(r.change)
    BY <1>2
  <2>3. Fil!Outcome(r.change, r.token, file) # None
    BY <1>3, <1>6 DEF ProbeFileSorts
  <2>4. IF file # None /\ file.token # None THEN r.new.token = file.token
                                            ELSE r.new.token \in {None, r.token}
    BY <1>3, <1>6, <2>2, <2>3, OutcomeTyped DEF FileInvariant, FileShapes
  <2> QED  BY <1>2, <2>1, <2>4
<1>11. Fil!NeverOpen'
  <2> SUFFICES ASSUME NEW q \in Uis, proc'[q] # Fil!Idle
               PROVE  proc'[q].by \in issued \ {None, Fil!Brief}
    BY <1>2 DEF Fil!NeverOpen
  <2>1. q \in Fil!Procs
    BY DEF Fil!Procs
  <2> QED  BY <1>2, <1>4, <1>5, <2>1 DEF FileInvariant, FileShapes, Fil!NeverOpen
<1>12. Fil!NothingLost' /\ Fil!FileLoads'
  BY <1>2, <1>3, <1>7 DEF Fil!NothingLost, Fil!FileLoads, LoadsAs
<1> QED  BY <1>8, <1>9, <1>10, <1>11, <1>12 DEF FileInvariant

\* What the daemon runs after it looked at the file.
LEMMA DaemonRuns ==
    ASSUME ProbeFileSorts, FileShapes
    PROVE  (IF file = Refused THEN held ELSE Fil!Loaded(file)) \in FileConfig
BY LoadedTyped DEF FileShapes

\* Processes that stop, and what the daemon runs, change nothing else.
LEMMA FileRests ==
    ASSUME ProbeFileSorts, FileInvariant, held' \in FileConfig,
           proc' = [p \in Fil!Procs |-> proc'[p]],
           \A p \in Fil!Procs : proc'[p] \in {Fil!Idle, proc[p]},
           UNCHANGED <<file, promised, raced, issued, turned, drawn>>
    PROVE  FileInvariant'
<1>1. FileShapes'
  BY DEF FileInvariant, FileShapes, Fil!Idle, FileIdle
<1>2. WritesWhole'
  <2> SUFFICES ASSUME NEW q \in Fil!Procs, proc'[q].step \in {"check", "rename"}
               PROVE  WritesOutcome(q)'
    BY DEF WritesWhole
  <2>1. proc'[q] = proc[q]
    BY DEF Fil!Idle
  <2> QED  BY <2>1 DEF WritesOutcome, WritesWhole, FileInvariant
<1>3. Fil!NeverOpen'
  BY DEF Fil!NeverOpen, Fil!Procs, FileInvariant
<1> QED  BY <1>1, <1>2, <1>3 DEF FileInvariant, OneToken, Fil!NothingLost, Fil!FileLoads

\* An editor leaves what it likes.
LEMMA EditorWrites ==
    ASSUME ProbeFileSorts, FileInvariant, NEW f \in Edits, Fil!Edit(f)
    PROVE  FileInvariant'
<1>1. /\ file' = f /\ promised' = f /\ turned' = TRUE /\ UNCHANGED <<proc, held, drawn, raced>>
      /\ issued' = IF Fil!IsConfig(f) THEN issued \cup {f.token} ELSE issued
  BY DEF Fil!Edit
<1>2. f \in FileText
  BY DEF ProbeFileSorts
<1>3. Fil!IsConfig(f) => f.token \in Nat \cup {None}
  BY <1>2 DEF Fil!IsConfig, FileText, FileConfig, Token
<1>4. FileShapes'
  BY <1>1, <1>2, <1>3 DEF FileInvariant, FileShapes
<1>5. WritesWhole'
  BY <1>1 DEF FileInvariant, WritesWhole, WritesOutcome
<1>6. Fil!NeverOpen'
  BY <1>1 DEF FileInvariant, Fil!NeverOpen
<1>7. Fil!NothingLost' /\ Fil!FileLoads' /\ OneToken'
  BY <1>1 DEF Fil!NothingLost, Fil!FileLoads, OneToken
<1> QED  BY <1>4, <1>5, <1>6, <1>7 DEF FileInvariant

LEMMA FileNext ==
    ASSUME ProbeFileSorts, FileInvariant, [Fil!Next]_(Fil!vars)
    PROVE  FileInvariant'
<1>1. CASE UNCHANGED Fil!vars
  BY <1>1 DEF Fil!vars, FileInvariant, FileShapes, WritesWhole, WritesOutcome, OneToken,
              Fil!NothingLost, Fil!FileLoads, Fil!NeverOpen
<1>2. ASSUME NEW p \in Commands, Fil!Open(p) \/ Fil!Leave(p)  PROVE FileInvariant'
  <2>1. CASE Fil!Open(p)
    BY <2>1, SetupOpens
  <2>2. CASE Fil!Leave(p)
    <3>1. proc' = [q \in Fil!Procs |-> proc'[q]] /\ \A q \in Fil!Procs : proc'[q] \in {Fil!Idle, proc[q]}
      BY <2>2 DEF Fil!Leave, Fil!Goes, FileInvariant, FileShapes
    <3>2. UNCHANGED <<file, promised, held, raced, issued, turned, drawn>>
      BY <2>2 DEF Fil!Leave, Fil!Quiet, Fil!Ghosts
    <3> QED  BY <3>1, <3>2, FileRests DEF FileInvariant, FileShapes
  <2> QED  BY <1>2, <2>1, <2>2
<1>3. ASSUME NEW p \in Commands,
             \/ \E change \in Fil!Adds \cup Fil!Removes : Fil!Command(p, change)
             \/ \E g \in Fil!Givens : Fil!Command(p, [kind |-> "init", given |-> g])
             \/ \E r \in BOOLEAN : Fil!Command(p, [kind |-> "token", rotate |-> r])
      PROVE FileInvariant'
  BY <1>3, CommandAsks, CommandChanges
<1>4. ASSUME NEW p \in Commands, NEW b \in Beats \cup {None}, NEW ns \in SUBSET Names, NEW c \in Checks,
             Fil!Answer(p, b, [n \in ns |-> c])
      PROVE FileInvariant'
  BY <1>4, SetupAnswers
<1>5. ASSUME NEW p \in Uis, NEW t \in issued \cup {None}, NEW change \in Fil!Adds \cup Fil!Removes,
             Fil!Submit(p, t, change)
      PROVE FileInvariant'
  BY <1>5, SubmitAsks
<1>6. ASSUME NEW p \in Fil!Procs, Fil!Load(p) \/ Fil!Check(p) \/ Fil!Rename(p)  PROVE FileInvariant'
  BY <1>6, UpdateLoads, UpdateChecks, UpdateRenames
<1>7. ASSUME NEW p \in Fil!Procs, Fil!Reload(p)  PROVE FileInvariant'
  <2>1. proc' = [q \in Fil!Procs |-> proc'[q]] /\ \A q \in Fil!Procs : proc'[q] \in {Fil!Idle, proc[q]}
    BY <1>7 DEF Fil!Reload, Fil!Goes, FileInvariant, FileShapes
  <2>2. UNCHANGED <<file, promised, raced, issued, turned, drawn>> /\ held' \in FileConfig
    BY <1>7, DaemonRuns DEF Fil!Reload, Fil!Stays, Fil!Ghosts, Fil!Run, FileInvariant
  <2> QED  BY <2>1, <2>2, FileRests
<1>8. CASE Fil!Watch
  <2>1. proc' = [q \in Fil!Procs |-> proc'[q]] /\ \A q \in Fil!Procs : proc'[q] \in {Fil!Idle, proc[q]}
    BY <1>8 DEF Fil!Watch, FileInvariant, FileShapes
  <2>2. UNCHANGED <<file, promised, raced, issued, turned, drawn>> /\ held' \in FileConfig
    BY <1>8, DaemonRuns DEF Fil!Watch, Fil!Stays, Fil!Ghosts, Fil!Run, FileInvariant
  <2> QED  BY <2>1, <2>2, FileRests
<1>9. CASE Fil!Restart
  <2>1. proc' = [q \in Fil!Procs |-> proc'[q]] /\ \A q \in Fil!Procs : proc'[q] \in {Fil!Idle, proc[q]}
    BY <1>9 DEF Fil!Restart
  <2>2. held' \in FileConfig
    BY <1>9, NothingTyped, LoadedTyped DEF Fil!Restart, FileInvariant, FileShapes
  <2>3. UNCHANGED <<file, promised, raced, issued, turned, drawn>>
    BY <1>9 DEF Fil!Restart, Fil!Stays, Fil!Ghosts
  <2> QED  BY <2>1, <2>2, <2>3, FileRests
<1>10. ASSUME NEW f \in Edits, Fil!Edit(f)  PROVE FileInvariant'
  BY <1>10, EditorWrites
<1> QED  BY <1>1, <1>2, <1>3, <1>4, <1>5, <1>6, <1>7, <1>8, <1>9, <1>10 DEF Fil!Next

\* The file is what the acknowledged changes make of it, whoever wrote at once
\* and whatever was killed; it loads as it was written, keeps its token until
\* it is rotated, and no request changes it without one (probe/config.go,
\* Update; ui.go, auth).
THEOREM FileKept == ASSUME ProbeFileSorts PROVE Fil!Spec => []FileInvariant
<1>1. Fil!Init => FileInvariant
  BY FileBegins
<1>2. FileInvariant /\ [Fil!Next]_(Fil!vars) => FileInvariant'
  BY FileNext
<1> QED  BY <1>1, <1>2, PTL DEF Fil!Spec

\* The properties of the file: with one writer at a time every acknowledged
\* change is in it, the file loads, and a token lasts until it is rotated
\* (probe/config.go, Save and Update).
THEOREM FileIsSound == ASSUME ProbeFileSorts PROVE Fil!Spec => []Fil!FileSound
<1>1. FileInvariant => Fil!FileSound
  <2> SUFFICES ASSUME FileInvariant  PROVE Fil!TokenLasts
    BY DEF FileInvariant, Fil!FileSound
  <2> SUFFICES ASSUME ~ raced, ~ turned, NEW t \in issued \ {None}, NEW u \in issued \ {None}
               PROVE  t = u
    BY DEF Fil!TokenLasts
  <2> QED  BY DEF FileInvariant, OneToken
<1> QED  BY <1>1, FileKept, PTL

-----------------------------------------------------------------------------
(***************************************************************************)
(* The limit on requests: a bucket holds what the record of the grants     *)
(* leaves, whatever the limiter forgot.                                    *)
(***************************************************************************)
Rat == INSTANCE RateLimit

Tank == [tokens: 0..Burst, last: Nat]

\* A burst is a token at least, and something comes back (ratelimit.go).
RateLimitSorts ==
    /\ Burst \in Nat /\ One \in Nat \ {0} /\ One <= Burst
    /\ Refill \in Nat \ {0} /\ Second \in Nat \ {0}
    /\ MaxTime \in Nat /\ MaxRequests \in Nat
    /\ None \notin Nat \cup Tank

\* The shares an origin has to spend, the forgotten one a whole burst.
Level(b, time) == IF b = None THEN Burst ELSE Rat!Smaller(Burst, b.tokens + (time - b.last) * Refill)

\* What a stretch of time leaves of the burst and of what came back in it, and
\* the stretch that leaves the least.
Leaves(g, from, time) == Burst + (time - from) * Refill - g[from] * One
OfRecord(level, g, time) ==
    /\ \A from \in 0..time : level <= Leaves(g, from, time)
    /\ \E from \in 0..time : level = Leaves(g, from, time)

\* Who waits until then has a token.
IsPaidAt(b, wait) ==
    wait # None /\ b # None =>
        /\ b.last <= wait
        /\ b.tokens + (wait - b.last) * Refill >= One

RateLimitShapes ==
    /\ now \in 0..MaxTime /\ requests \in 0..MaxRequests
    /\ buckets \in [Origins -> Tank \cup {None}]
    /\ granted \in [Origins -> [0..MaxTime -> Nat]]
    /\ told \in [Origins -> Nat \cup {None}]
    /\ misjudged = FALSE

RateLimitInvariant ==
    /\ RateLimitShapes
    /\ \A o \in Origins :
        /\ buckets[o] # None => buckets[o].last <= now
        /\ \A t \in 0..MaxTime : t > now => granted[o][t] = 0
        /\ OfRecord(Level(buckets[o], now), granted[o], now)
        /\ IsPaidAt(buckets[o], told[o])

LEMMA OneMoreTime ==
    ASSUME NEW n \in Nat, NEW m \in Nat
    PROVE  n * m \in Nat /\ (n + 1) * m = n * m + m /\ (1 + n) * m = n * m + m
OBVIOUS

LEMMA LevelIsShares ==
    ASSUME RateLimitSorts, NEW b \in Tank \cup {None}, NEW time \in Nat, NEW next \in Nat,
           next = time + 1, b # None => b.last <= time
    PROVE  /\ Level(b, time) \in 0..Burst
           /\ Level(b, next) = Rat!Smaller(Burst, Level(b, time) + Refill)
<1>1. CASE b = None
  BY <1>1 DEF Level, Rat!Smaller, RateLimitSorts
<1>2. CASE b # None
  <2>1. b.tokens \in 0..Burst /\ b.last \in Nat /\ time - b.last \in Nat /\ Burst \in Nat /\ Refill \in Nat
    BY <1>2 DEF Tank, RateLimitSorts
  <2> PICK gone \in Nat : gone = time - b.last
    BY <2>1
  <2>2. PICK came \in Nat : came = gone * Refill
    BY <2>1, OneMoreTime
  <2>3. PICK later \in Nat : later = (next - b.last) * Refill /\ later = came + Refill
    <3>1. (gone + 1) * Refill = came + Refill
      BY <2>1, <2>2, OneMoreTime
    <3>2. next - b.last = gone + 1
      BY <2>1
    <3> QED  BY <2>1, <2>2, <3>1, <3>2
  <2>4. came \in Nat /\ later = came + Refill
    BY <2>2, <2>3
  <2>5. Level(b, time) = Rat!Smaller(Burst, b.tokens + came)
    BY <1>2, <2>2 DEF Level
  <2>6. Level(b, next) = Rat!Smaller(Burst, b.tokens + later)
    BY <1>2, <2>3 DEF Level
  <2> QED  BY <2>1, <2>4, <2>5, <2>6 DEF Rat!Smaller
<1> QED  BY <1>1, <1>2

\* Time adds to all stretches alike, and begins a new one, which leaves all.
LEMMA RecordKeepsUp ==
    ASSUME RateLimitSorts, NEW level \in 0..Burst, NEW time \in Nat, time + 1 <= MaxTime,
           NEW g \in [0..MaxTime -> Nat], g[time + 1] = 0, OfRecord(level, g, time)
    PROVE  OfRecord(Rat!Smaller(Burst, level + Refill), g, time + 1)
<1>1. Burst \in Nat /\ Refill \in Nat /\ One \in Nat /\ MaxTime \in Nat
  BY DEF RateLimitSorts
<1>2. ASSUME NEW from \in 0..time
      PROVE  /\ Leaves(g, from, time) \in Int
             /\ Leaves(g, from, time + 1) = Leaves(g, from, time) + Refill
  <2> PICK gone \in Nat : gone = time - from
    BY <1>2
  <2>1. g[from] \in Nat
    BY <1>1, <1>2
  <2>2. g[from] * One \in Nat /\ gone * Refill \in Nat /\ (gone + 1) * Refill = gone * Refill + Refill
    BY <1>1, <2>1, OneMoreTime
  <2>3. PICK spent \in Nat : spent = g[from] * One
    BY <2>2
  <2>4. PICK came \in Nat : came = gone * Refill
    BY <2>2
  <2>5. time + 1 - from = gone + 1
    BY <1>1, <1>2
  <2>6. Leaves(g, from, time) = Burst + came - spent
    BY <2>3, <2>4 DEF Leaves
  <2>7. Leaves(g, from, time + 1) = Burst + (came + Refill) - spent
    BY <2>2, <2>3, <2>4, <2>5 DEF Leaves
  <2>8. came \in Nat /\ spent \in Nat
    BY <2>3, <2>4
  <2> QED  BY <1>1, <2>6, <2>7, <2>8
<1>3. Leaves(g, time + 1, time + 1) = Burst
  BY <1>1 DEF Leaves
<1>4. ASSUME NEW from \in 0..time + 1
      PROVE  Rat!Smaller(Burst, level + Refill) <= Leaves(g, from, time + 1)
  <2>1. CASE from = time + 1
    BY <1>1, <1>3, <2>1 DEF Rat!Smaller
  <2>2. CASE from \in 0..time
    <3>1. level <= Leaves(g, from, time)
      BY <2>2 DEF OfRecord
    <3> QED  BY <1>1, <1>2, <2>2, <3>1 DEF Rat!Smaller
  <2> QED  BY <2>1, <2>2
<1>5. \E from \in 0..time + 1 : Rat!Smaller(Burst, level + Refill) = Leaves(g, from, time + 1)
  <2>1. CASE level + Refill < Burst
    <3>1. PICK from \in 0..time : level = Leaves(g, from, time)
      BY DEF OfRecord
    <3>2. Rat!Smaller(Burst, level + Refill) = Leaves(g, from, time + 1)
      BY <1>1, <1>2, <2>1, <3>1 DEF Rat!Smaller
    <3>3. from \in 0..time + 1
      OBVIOUS
    <3> QED  BY <3>2, <3>3
  <2>2. CASE ~ (level + Refill < Burst)
    <3>1. Rat!Smaller(Burst, level + Refill) = Leaves(g, time + 1, time + 1)
      BY <1>1, <1>3, <2>2 DEF Rat!Smaller
    <3>2. time + 1 \in 0..time + 1
      OBVIOUS
    <3> QED  BY <3>1, <3>2
  <2> QED  BY <2>1, <2>2
<1> QED  BY <1>4, <1>5 DEF OfRecord

\* A grant takes a token from every stretch.
LEMMA RecordOfGrant ==
    ASSUME RateLimitSorts, NEW level \in Nat, NEW time \in 0..MaxTime,
           NEW g \in [0..MaxTime -> Nat], NEW h, OfRecord(level, g, time),
           h = [t \in 0..MaxTime |-> IF t <= time THEN g[t] + 1 ELSE 0]
    PROVE  OfRecord(level - One, h, time)
<1>1. Burst \in Nat /\ Refill \in Nat /\ One \in Nat /\ MaxTime \in Nat
  BY DEF RateLimitSorts
<1>2. ASSUME NEW from \in 0..time
      PROVE  /\ Leaves(g, from, time) \in Int
             /\ Leaves(h, from, time) = Leaves(g, from, time) - One
  <2>1. h[from] = g[from] + 1 /\ g[from] \in Nat
    BY <1>1, <1>2
  <2> PICK n \in Nat : n = g[from]
    BY <2>1
  <2>2. PICK spent \in Nat : spent = n * One /\ (n + 1) * One = spent + One
    BY <1>1, OneMoreTime
  <2> PICK gone \in Nat : gone = time - from
    BY <1>2
  <2>5. PICK came \in Nat : came = gone * Refill
    BY <1>1, OneMoreTime
  <2>3. Leaves(g, from, time) = Burst + came - spent
    BY <2>2, <2>5 DEF Leaves
  <2>4. Leaves(h, from, time) = Burst + came - (spent + One)
    BY <2>1, <2>2, <2>5 DEF Leaves
  <2>6. came \in Nat /\ spent \in Nat
    BY <2>2, <2>5
  <2> QED  BY <1>1, <2>3, <2>4, <2>6
<1>3. ASSUME NEW from \in 0..time  PROVE level - One <= Leaves(h, from, time)
  <2>1. level <= Leaves(g, from, time)
    BY DEF OfRecord
  <2> QED  BY <1>1, <1>2, <2>1
<1>4. \E from \in 0..time : level - One = Leaves(h, from, time)
  BY <1>1, <1>2 DEF OfRecord
<1> QED  BY <1>3, <1>4 DEF OfRecord

\* The record says what the bucket says.
LEMMA RecordDecides ==
    ASSUME RateLimitSorts, RateLimitInvariant, NEW o \in Origins
    PROVE  Level(buckets[o], now) >= One <=> Rat!Due(o)
<1> PICK level : level = Level(buckets[o], now)
  OBVIOUS
<1> PICK g : g = granted[o]
  OBVIOUS
<1>1. /\ Burst \in Nat /\ Refill \in Nat /\ One \in Nat /\ MaxTime \in Nat /\ now \in 0..MaxTime
      /\ now \in Nat /\ g \in [0..MaxTime -> Nat] /\ OfRecord(level, g, now)
      /\ buckets[o] \in Tank \cup {None} /\ (buckets[o] # None => buckets[o].last <= now)
  BY DEF RateLimitSorts, RateLimitInvariant, RateLimitShapes
<1>2. level \in 0..Burst
  <2>1. now + 1 \in Nat
    BY <1>1
  <2> QED  BY <1>1, <2>1, LevelIsShares
<1>3. ASSUME NEW from \in 0..now
      PROVE  /\ Leaves(g, from, now) \in Int
             /\ (1 + g[from]) * One <= Burst + (now - from) * Refill <=> One <= Leaves(g, from, now)
  <2>1. g[from] \in Nat
    BY <1>1, <1>3
  <2> PICK n \in Nat : n = g[from]
    BY <2>1
  <2>2. PICK spent \in Nat : spent = n * One /\ (1 + n) * One = spent + One
    BY <1>1, OneMoreTime
  <2> PICK gone \in Nat : gone = now - from
    BY <1>1, <1>3
  <2>3. PICK came \in Nat : came = gone * Refill
    BY <1>1, OneMoreTime
  <2>4. Leaves(g, from, now) = Burst + came - spent
    BY <2>2, <2>3 DEF Leaves
  <2>5. (1 + g[from]) * One <= Burst + (now - from) * Refill <=> spent + One <= Burst + came
    BY <2>2, <2>3
  <2>6. came \in Nat /\ spent \in Nat
    BY <2>2, <2>3
  <2> QED  BY <1>1, <2>4, <2>5, <2>6
<1>4. Rat!Due(o) <=> \A from \in 0..now : One <= Leaves(g, from, now)
  <2>1. Rat!Due(o) <=> \A from \in 0..now : (1 + g[from]) * One <= Burst + (now - from) * Refill
    BY DEF Rat!Due
  <2> QED  BY <1>3, <2>1
<1>5. level >= One => \A from \in 0..now : One <= Leaves(g, from, now)
  BY <1>1, <1>2, <1>3 DEF OfRecord
<1>6. ASSUME \A from \in 0..now : One <= Leaves(g, from, now)  PROVE level >= One
  <2>1. PICK from \in 0..now : level = Leaves(g, from, now)
    BY <1>1 DEF OfRecord
  <2> QED  BY <1>1, <1>2, <1>6, <2>1
<1> QED  BY <1>4, <1>5, <1>6

\* The seconds of Retry-After, rounded up, bring a token.
LEMMA WaitingPays ==
    ASSUME RateLimitSorts, NEW tokens \in Nat, tokens < One
    PROVE  Rat!Wait(tokens) \in Nat /\ tokens + (Rat!Wait(tokens) * Second) * Refill >= One
<1>1. Refill \in Nat \ {0} /\ Second \in Nat \ {0} /\ One \in Nat
  BY DEF RateLimitSorts
<1> PICK m : m = Refill * Second
  OBVIOUS
<1>2. m \in Nat \ {0}
  <2>1. PICK k \in Nat : Refill = k + 1
    BY <1>1
  <2>2. k * Second \in Nat /\ (k + 1) * Second = k * Second + Second
    BY <1>1, OneMoreTime
  <2> QED  BY <1>1, <2>1, <2>2
<1> PICK x \in Nat : x = One - tokens + m - 1
  BY <1>1, <1>2
<1> PICK q : q = x \div m
  OBVIOUS
<1>3. q \in Nat /\ x % m \in 0..m - 1 /\ x = m * q + (x % m)
  BY <1>2
<1>4. m * q >= One - tokens
  BY <1>1, <1>2, <1>3
<1>5. Rat!Wait(tokens) = q
  BY DEF Rat!Wait
<1>6. (q * Second) * Refill = m * q
  BY <1>1, <1>3
<1>7. (Rat!Wait(tokens) * Second) * Refill = m * q
  BY <1>5, <1>6
<1>8. m * q \in Nat
  BY <1>2, <1>3, OneMoreTime
<1> QED  BY <1>1, <1>3, <1>4, <1>5, <1>7, <1>8

\* A bucket of this instant is what it holds.
LEMMA LevelIsHeld ==
    ASSUME RateLimitSorts, NEW b \in Tank, NEW time \in Nat, b.last = time
    PROVE  Level(b, time) = b.tokens
<1>1. b # None /\ b.tokens \in 0..Burst /\ Burst \in Nat /\ Refill \in Nat
  BY DEF RateLimitSorts, Tank
<1>2. (time - b.last) * Refill = 0
  BY <1>1
<1> QED  BY <1>1, <1>2 DEF Level, Rat!Smaller

\* What a bucket comes to hold does not fall.
LEMMA LevelAtLast ==
    ASSUME RateLimitSorts, NEW b \in Tank \cup {None}, NEW wait \in Nat, NEW time \in Nat,
           b # None => b.last <= time, IsPaidAt(b, wait), wait <= time
    PROVE  Level(b, time) >= One
<1>1. Burst \in Nat /\ Refill \in Nat /\ One \in Nat /\ One <= Burst /\ wait # None
  BY DEF RateLimitSorts
<1>2. CASE b = None
  BY <1>1, <1>2 DEF Level
<1>3. CASE b # None
  <2>1. b.tokens \in Nat /\ b.last \in Nat /\ b.last <= wait /\ b.tokens + (wait - b.last) * Refill >= One
    BY <1>1, <1>3 DEF IsPaidAt, Tank, RateLimitSorts
  <2> PICK gone \in Nat : gone = wait - b.last
    BY <2>1
  <2> PICK more \in Nat : more = time - wait
    OBVIOUS
  <2>2. time - b.last = gone + more
    BY <2>1
  <2>3. PICK came \in Nat : came = gone * Refill
    BY <1>1, OneMoreTime
  <2>4. PICK came2 \in Nat : came2 = more * Refill
    BY <1>1, OneMoreTime
  <2>5. (gone + more) * Refill = came + came2
    BY <1>1, <2>3, <2>4
  <2>6. Level(b, time) = Rat!Smaller(Burst, b.tokens + (came + came2))
    BY <1>3, <2>2, <2>5 DEF Level
  <2>7. b.tokens + came >= One /\ came \in Nat /\ came2 \in Nat
    BY <2>1, <2>3, <2>4
  <2> QED  BY <1>1, <2>1, <2>6, <2>7 DEF Rat!Smaller
<1> QED  BY <1>2, <1>3

\* To forget a full bucket changes no level.
LEMMA ForgettingKeeps ==
    ASSUME RateLimitSorts, RateLimitInvariant, NEW o \in Origins
    PROVE  /\ Rat!Remembered(o) \in [Origins -> Tank \cup {None}]
           /\ Rat!Remembered(o)[o] = buckets[o]
           /\ \A p \in Origins :
                /\ Rat!Remembered(o)[p] \in {buckets[p], None}
                /\ Level(Rat!Remembered(o)[p], now) = Level(buckets[p], now)
<1>1. buckets \in [Origins -> Tank \cup {None}] /\ Burst \in Nat
  BY DEF RateLimitInvariant, RateLimitShapes, RateLimitSorts
<1> PICK crowded \in BOOLEAN :
      crowded <=> /\ buckets[o] = None
                  /\ Rat!Cardinality({p \in Origins : buckets[p] # None}) >= MaxTracked
  OBVIOUS
<1>2. Rat!Remembered(o) =
        [p \in Origins |-> IF crowded /\ p \in {q \in Origins : buckets[q] # None} /\ Rat!Idle(buckets[p])
                             THEN None ELSE buckets[p]]
  BY Zenon DEF Rat!Remembered
<1>3. ASSUME NEW p \in Origins, buckets[p] # None, Rat!Idle(buckets[p])
      PROVE  Level(buckets[p], now) = Burst
  <2>1. buckets[p].tokens + (now - buckets[p].last) * Refill >= Burst
    BY <1>3 DEF Rat!Idle
  <2>2. PICK filled : filled = buckets[p].tokens + (now - buckets[p].last) * Refill
    OBVIOUS
  <2>3. filled >= Burst /\ Level(buckets[p], now) = Rat!Smaller(Burst, filled)
    BY <1>3, <2>1, <2>2 DEF Level
  <2>4. filled \in Int
    BY <1>1, <1>3, <2>2 DEF Tank, RateLimitInvariant, RateLimitShapes, RateLimitSorts
  <2> QED  BY <1>1, <2>3, <2>4 DEF Rat!Smaller
<1>4. Level(None, now) = Burst
  BY DEF Level
<1>5. Rat!Remembered(o)[o] = buckets[o]
  BY <1>2
<1>6. ASSUME NEW p \in Origins
      PROVE  /\ Rat!Remembered(o)[p] \in {buckets[p], None}
             /\ Level(Rat!Remembered(o)[p], now) = Level(buckets[p], now)
  <2>1. CASE crowded /\ buckets[p] # None /\ Rat!Idle(buckets[p])
    <3>1. Rat!Remembered(o)[p] = None
      BY <1>2, <2>1
    <3> QED  BY <1>3, <1>4, <2>1, <3>1
  <2>2. CASE ~ (crowded /\ buckets[p] # None /\ Rat!Idle(buckets[p]))
    <3>1. Rat!Remembered(o)[p] = buckets[p]
      BY <1>2, <2>2
    <3> QED  BY <3>1
  <2> QED  BY <2>1, <2>2
<1>7. Rat!Remembered(o) \in [Origins -> Tank \cup {None}]
  BY <1>1, <1>2
<1> QED  BY <1>5, <1>6, <1>7

\* A request: the bucket decides as the record would, and keeps the promise.
LEMMA RequestIsJudged ==
    ASSUME RateLimitSorts, RateLimitInvariant, NEW o \in Origins, Rat!Ask(o)
    PROVE  RateLimitInvariant'
<1> PICK b : b = IF buckets[o] = None THEN [tokens |-> Burst, last |-> now] ELSE buckets[o]
  OBVIOUS
<1> PICK tokens : tokens = Rat!Refilled(b)
  OBVIOUS
<1> PICK kept : kept = Rat!Remembered(o)
  OBVIOUS
<1> PICK after : after = [tokens |-> IF tokens >= One THEN tokens - One ELSE tokens, last |-> now]
  OBVIOUS
<1> PICK spent : spent = [t \in 0..MaxTime |-> IF t <= now THEN granted[o][t] + 1 ELSE 0]
  OBVIOUS
<1> PICK wait : wait = IF tokens >= One THEN None ELSE now + Rat!Wait(tokens) * Second
  OBVIOUS
<1> PICK until \in BOOLEAN : until <=> IF told[o] = None THEN FALSE ELSE told[o] <= now
  OBVIOUS
<1>1. /\ requests < MaxRequests /\ requests' = requests + 1 /\ now' = now
      /\ buckets' = [kept EXCEPT ![o] = after]
      /\ granted' = IF tokens >= One THEN [granted EXCEPT ![o] = spent] ELSE granted
      /\ told' = [told EXCEPT ![o] = wait]
  BY DEF Rat!Ask
<1>2. misjudged' = (misjudged \/ (IF tokens >= One THEN ~ Rat!Due(o) ELSE Rat!Due(o) \/ until))
  BY Zenon DEF Rat!Ask
<1>3. /\ Burst \in Nat /\ Refill \in Nat /\ One \in Nat \ {0} /\ Second \in Nat /\ MaxTime \in Nat
      /\ now \in 0..MaxTime /\ now \in Nat /\ requests \in 0..MaxRequests /\ MaxRequests \in Nat
      /\ buckets \in [Origins -> Tank \cup {None}] /\ None \notin Tank /\ None \notin Nat
      /\ granted \in [Origins -> [0..MaxTime -> Nat]]
      /\ told \in [Origins -> Nat \cup {None}] /\ misjudged = FALSE
      /\ OfRecord(Level(buckets[o], now), granted[o], now) /\ IsPaidAt(buckets[o], told[o])
      /\ \A p \in Origins : buckets[p] # None => buckets[p].last <= now
  BY DEF RateLimitSorts, RateLimitInvariant, RateLimitShapes
<1>4. tokens = Level(buckets[o], now) /\ tokens \in 0..Burst
  <2>1. Level(buckets[o], now) \in 0..Burst
    <3>1. now + 1 \in Nat
      BY <1>3
    <3> QED  BY <1>3, <3>1, LevelIsShares
  <2>2. CASE buckets[o] = None
    <3>1. b \in Tank /\ b.last = now /\ b.tokens = Burst
      BY <1>3, <2>2 DEF Tank
    <3>2. tokens = Level(b, now)
      BY <1>3, <3>1 DEF Level, Rat!Refilled
    <3>3. tokens = Burst
      BY <1>3, <3>1, <3>2, LevelIsHeld
    <3> QED  BY <2>1, <2>2, <3>3 DEF Level
  <2>3. CASE buckets[o] # None
    BY <2>1, <2>3 DEF Level, Rat!Refilled
  <2> QED  BY <2>2, <2>3
<1>5. after \in Tank /\ after # None /\ after.last = now
      /\ after.tokens = IF tokens >= One THEN tokens - One ELSE tokens
  BY <1>3, <1>4 DEF Tank
<1>6. Level(after, now) = after.tokens
  BY <1>3, <1>5, LevelIsHeld
<1>7. kept \in [Origins -> Tank \cup {None}]
      /\ \A p \in Origins : kept[p] \in {buckets[p], None} /\ Level(kept[p], now) = Level(buckets[p], now)
  BY ForgettingKeeps
<1>8. /\ buckets' \in [Origins -> Tank \cup {None}] /\ buckets'[o] = after
      /\ \A p \in Origins : p # o => buckets'[p] = kept[p]
  BY <1>1, <1>5, <1>7
<1>9. wait \in Nat \cup {None} /\ IsPaidAt(after, wait)
  <2>1. CASE tokens >= One
    BY <2>1 DEF IsPaidAt
  <2>2. CASE ~ (tokens >= One)
    <3> PICK n : n = Rat!Wait(tokens)
      OBVIOUS
    <3>1. n \in Nat /\ tokens + (n * Second) * Refill >= One
      <4>1. tokens \in Nat /\ tokens < One
        BY <1>3, <1>4, <2>2
      <4> QED  BY <4>1, WaitingPays, Zenon
    <3>2. PICK gone \in Nat : gone = n * Second
      BY <1>3, <3>1, OneMoreTime
    <3>3. wait = now + gone /\ gone \in Nat
      BY <2>2, <3>1, <3>2
    <3>4. wait - after.last = gone /\ after.last <= wait /\ after.tokens = tokens
      BY <1>3, <1>5, <2>2, <3>3
    <3>5. after.tokens + (wait - after.last) * Refill >= One
      BY <3>1, <3>2, <3>4
    <3> QED  BY <1>3, <3>3, <3>4, <3>5 DEF IsPaidAt
  <2> QED  BY <2>1, <2>2
<1>10. told' \in [Origins -> Nat \cup {None}] /\ told'[o] = wait
       /\ \A p \in Origins : p # o => told'[p] = told[p]
  BY <1>1, <1>3, <1>9
<1>11. spent \in [0..MaxTime -> Nat] /\ \A t \in 0..MaxTime : t > now => spent[t] = 0
  BY <1>3
<1>12. /\ granted' \in [Origins -> [0..MaxTime -> Nat]]
       /\ granted'[o] = IF tokens >= One THEN spent ELSE granted[o]
       /\ \A p \in Origins : p # o => granted'[p] = granted[p]
  BY <1>1, <1>3, <1>11
<1>13. OfRecord(Level(after, now), granted'[o], now)
  <2>1. CASE tokens >= One
    <3>1. OfRecord(tokens - One, spent, now)
      <4>1. tokens \in Nat /\ granted[o] \in [0..MaxTime -> Nat] /\ OfRecord(tokens, granted[o], now)
        BY <1>3, <1>4
      <4> QED  BY <1>3, <4>1, RecordOfGrant
    <3> QED  BY <1>5, <1>6, <1>12, <2>1, <3>1
  <2>2. CASE ~ (tokens >= One)
    BY <1>3, <1>4, <1>5, <1>6, <1>12, <2>2
  <2> QED  BY <2>1, <2>2
<1>14. (tokens >= One) <=> Rat!Due(o)
  BY <1>4, RecordDecides
<1>15. until => tokens >= One
  <2> SUFFICES ASSUME until  PROVE tokens >= One
    OBVIOUS
  <2>1. told[o] # None /\ told[o] <= now
    OBVIOUS
  <2>2. told[o] \in Nat /\ buckets[o] \in Tank \cup {None}
    BY <1>3, <2>1
  <2> QED  BY <1>3, <1>4, <2>1, <2>2, LevelAtLast
<1>16. misjudged' = FALSE
  <2>1. (IF tokens >= One THEN ~ Rat!Due(o) ELSE Rat!Due(o) \/ until) = FALSE
    BY <1>14, <1>15
  <2> QED  BY <1>2, <1>3, <2>1
<1>17. RateLimitShapes'
  BY <1>1, <1>3, <1>8, <1>10, <1>12, <1>16 DEF RateLimitShapes
<1>18. ASSUME NEW p \in Origins
       PROVE  /\ buckets'[p] # None => buckets'[p].last <= now
              /\ \A t \in 0..MaxTime : t > now => granted'[p][t] = 0
              /\ OfRecord(Level(buckets'[p], now), granted'[p], now)
              /\ IsPaidAt(buckets'[p], told'[p])
  <2>1. CASE p = o
    <3>1. /\ buckets'[p] = after /\ told'[p] = wait /\ granted'[p] = granted'[o]
      BY <1>8, <1>10, <2>1
    <3>2. \A t \in 0..MaxTime : t > now => granted'[o][t] = 0
      BY <1>11, <1>12 DEF RateLimitInvariant
    <3>3. after.last <= now
      BY <1>3, <1>5
    <3> QED  BY <1>9, <1>13, <3>1, <3>2, <3>3
  <2>2. CASE p # o
    <3>1. /\ buckets'[p] \in {buckets[p], None} /\ Level(buckets'[p], now) = Level(buckets[p], now)
          /\ granted'[p] = granted[p] /\ told'[p] = told[p]
      BY <1>7, <1>8, <1>10, <1>12, <2>2
    <3>2. /\ buckets[p] # None => buckets[p].last <= now
          /\ \A t \in 0..MaxTime : t > now => granted[p][t] = 0
          /\ OfRecord(Level(buckets[p], now), granted[p], now)
          /\ IsPaidAt(buckets[p], told[p])
      BY DEF RateLimitInvariant
    <3>3. IsPaidAt(buckets'[p], told'[p])
      BY <3>1, <3>2 DEF IsPaidAt
    <3> QED  BY <3>1, <3>2, <3>3
  <2> QED  BY <2>1, <2>2
<1> QED  BY <1>1, <1>17, <1>18 DEF RateLimitInvariant, Level, OfRecord, Leaves, IsPaidAt

LEMMA BucketsFill ==
    ASSUME RateLimitSorts, RateLimitInvariant, Rat!Tick
    PROVE  RateLimitInvariant'
<1>1. now < MaxTime /\ now' = now + 1 /\ UNCHANGED <<requests, buckets, granted, told, misjudged>>
  BY DEF Rat!Tick
<1>2. now \in 0..MaxTime /\ MaxTime \in Nat /\ now \in Nat /\ now' \in Nat /\ now' <= MaxTime
      /\ Burst \in Nat
  BY <1>1 DEF RateLimitInvariant, RateLimitShapes, RateLimitSorts
<1>3. RateLimitShapes'
  BY <1>1, <1>2 DEF RateLimitInvariant, RateLimitShapes
<1>4. ASSUME NEW o \in Origins
      PROVE  /\ buckets[o] # None => buckets[o].last <= now'
             /\ \A t \in 0..MaxTime : t > now' => granted[o][t] = 0
             /\ OfRecord(Level(buckets[o], now'), granted[o], now')
             /\ IsPaidAt(buckets[o], told[o])
  <2>1. /\ buckets[o] \in Tank \cup {None} /\ (buckets[o] # None => buckets[o].last <= now)
        /\ granted[o] \in [0..MaxTime -> Nat] /\ (\A t \in 0..MaxTime : t > now => granted[o][t] = 0)
        /\ OfRecord(Level(buckets[o], now), granted[o], now) /\ IsPaidAt(buckets[o], told[o])
    BY DEF RateLimitInvariant, RateLimitShapes
  <2>2. /\ Level(buckets[o], now) \in 0..Burst
        /\ Level(buckets[o], now') = Rat!Smaller(Burst, Level(buckets[o], now) + Refill)
    BY <1>1, <1>2, <2>1, LevelIsShares
  <2>3. granted[o][now + 1] = 0
    BY <1>1, <1>2, <2>1
  <2>4. OfRecord(Level(buckets[o], now'), granted[o], now + 1)
    BY <1>1, <1>2, <2>1, <2>2, <2>3, RecordKeepsUp
  <2> QED  BY <1>1, <1>2, <2>1, <2>4 DEF Tank
<1> QED  BY <1>1, <1>3, <1>4 DEF RateLimitInvariant, Level, OfRecord, Leaves, IsPaidAt

LEMMA BucketsInitially ==
    ASSUME RateLimitSorts, Rat!Init  PROVE RateLimitInvariant
<1>1. /\ now = 0 /\ requests = 0 /\ misjudged = FALSE
      /\ buckets = [o \in Origins |-> None] /\ told = [o \in Origins |-> None]
      /\ granted = [o \in Origins |-> [t \in 0..MaxTime |-> 0]]
  BY DEF Rat!Init
<1>2. MaxTime \in Nat /\ MaxRequests \in Nat /\ Burst \in Nat /\ Refill \in Nat /\ One \in Nat
  BY DEF RateLimitSorts
<1>3. RateLimitShapes
  BY <1>1, <1>2 DEF RateLimitShapes
<1>4. ASSUME NEW o \in Origins  PROVE OfRecord(Level(buckets[o], now), granted[o], now)
  <2>1. Level(buckets[o], now) = Burst /\ granted[o][0] = 0
    BY <1>1, <1>2 DEF Level
  <2>2. Leaves(granted[o], 0, 0) = Burst
    BY <1>2, <2>1 DEF Leaves
  <2> QED  BY <1>1, <1>2, <2>1, <2>2 DEF OfRecord
<1> QED  BY <1>1, <1>3, <1>4 DEF RateLimitInvariant, IsPaidAt

LEMMA RateLimitNext ==
    ASSUME RateLimitSorts, RateLimitInvariant, [Rat!Next]_(Rat!vars)
    PROVE  RateLimitInvariant'
<1>1. CASE UNCHANGED Rat!vars
  BY <1>1 DEF Rat!vars, RateLimitInvariant, RateLimitShapes, Level, OfRecord, Leaves, IsPaidAt
<1>2. CASE Rat!Next
  BY <1>2, BucketsFill, RequestIsJudged DEF Rat!Next
<1> QED  BY <1>1, <1>2

\* What a bucket holds is what the record of the grants leaves, at every instant
\* and for any burst and pace (ratelimit.go, rateLimiter).
THEOREM BucketsKept ==
    ASSUME RateLimitSorts  PROVE Rat!Spec => []RateLimitInvariant
<1>1. Rat!Init => RateLimitInvariant
  BY BucketsInitially
<1>2. RateLimitInvariant /\ [Rat!Next]_(Rat!vars) => RateLimitInvariant'
  BY RateLimitNext
<1> QED  BY <1>1, <1>2, PTL DEF Rat!Spec

\* Refused is who spent its burst and what came back, and nobody else, whatever
\* was forgotten, and who waits as told is not refused (ratelimit.go, allow,
\* forgetIdle, limit).
THEOREM LimitIsFair ==
    ASSUME RateLimitSorts  PROVE Rat!Spec => []Rat!FairLimit
<1>1. RateLimitInvariant => Rat!FairLimit
  BY DEF RateLimitInvariant, RateLimitShapes, Rat!FairLimit
<1> QED  BY <1>1, BucketsKept, PTL
=============================================================================
