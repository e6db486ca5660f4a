--------------------------- MODULE SchedulerProofs ---------------------------
(***************************************************************************)
(* What TLAPS proves of the scheduler, for any number of monitors, entries *)
(* and slots, and of one of the checks it starts, that of a database, the  *)
(* module SqlCheck.                                                        *)
(***************************************************************************)
EXTENDS Scheduler, Integers, FiniteSetTheorems, TLAPS

\* The constants and the variables of SqlCheck.
CONSTANTS Databases, Queries, Timeout, Interval, Part, Milli, MaxRows, MaxChecks, MaxClock

VARIABLES clock, database, query, check, session, verdict

USE SchedulerAssumption

\* The entry an entry becomes is one again (heap.go entry).
LEMMA EntryType ==
    ASSUME TypeOK, NEW e \in Entries, entry[e] # None
    PROVE  entry[e] \in Entry /\ entry[e].monitor \in Monitors
BY DEF TypeOK, Entry

\* An entry given back is the entry with the mark off and a new delay
\* (scheduler.go reschedule).
LEMMA GivenBackType ==
    ASSUME NEW r \in Entry
    PROVE  LET g == [r EXCEPT !.inFlight = FALSE, !.delay = r.interval] IN
           g \in Entry /\ g.monitor = r.monitor /\ ~ g.inFlight
<1>1. r.interval \in Nat
  BY DEF Entry
<1> QED  BY <1>1 DEF Entry

\* Giving an entry back keeps the types (scheduler.go reschedule).
LEMMA GiveBackType ==
    ASSUME TypeOK, NEW e \in Entries, entry[e] \in Entry, GiveBack(e)
    PROVE  entry' \in [Entries -> Entry \cup {None}] /\ queue' \subseteq Entries
<1>1. CASE index[entry[e].monitor] = e
  <2>1. entry' = [entry EXCEPT ![e] = [entry[e] EXCEPT !.inFlight = FALSE,
                                                       !.delay = entry[e].interval]]
    BY <1>1 DEF GiveBack, TypeOK
  <2>2. queue' = queue \cup {e}
    BY <1>1 DEF GiveBack
  <2> QED  BY <2>1, <2>2, GivenBackType DEF TypeOK
<1>2. CASE index[entry[e].monitor] # e
  BY <1>2 DEF GiveBack, TypeOK
<1> QED  BY <1>1, <1>2

\* A scheduler starts with nothing scheduled (scheduler.go New).
LEMMA InitInvariant == Init => QueueInvariant
<1> SUFFICES ASSUME Init PROVE QueueInvariant
  OBVIOUS
<1>1. TypeOK
  BY DEF Init, TypeOK
<1>2. Held = {}
  BY DEF Init, Held
<1> QED
  BY <1>1, <1>2 DEF Init, QueueInvariant, OnePlace, OneCheckPerEntry, Marked, Holding,
                    Indexed, QueueIsIndexed

\* Every step keeps the entries where they are expected
\* (scheduler.go Upsert, Remove, Run, reschedule).
LEMMA QueueStep == QueueInvariant /\ [Next]_vars => QueueInvariant'
<1> SUFFICES ASSUME QueueInvariant, [Next]_vars PROVE QueueInvariant'
  OBVIOUS
<1> USE DEF QueueInvariant
<1>1. ASSUME UNCHANGED vars PROVE QueueInvariant'
  BY <1>1 DEF vars, heap, tasks, TypeOK, OnePlace, OneCheckPerEntry, Marked, Holding, Indexed,
       QueueIsIndexed, Held
<1>2. ASSUME NEW m \in Monitors, Enter(m) PROVE QueueInvariant'
  <2>1. NewEntry \in Entries /\ entry[NewEntry] = None
    <3>1. \E e \in Entries : entry[e] = None
      BY <1>2 DEF Enter
    <3> QED  BY <3>1 DEF NewEntry
  <2>2. PICK r \in Entry : /\ entry' = [entry EXCEPT ![NewEntry] = r]
                           /\ r.monitor = m /\ r.inFlight = FALSE
    <3>1. PICK i \in Intervals : \E d \in 0..(i - 1) :
             entry' = [entry EXCEPT ![NewEntry] =
                         [monitor |-> m, interval |-> i, delay |-> d, inFlight |-> FALSE]]
      BY <1>2 DEF Enter
    <3>2. PICK d \in 0..(i - 1) :
             entry' = [entry EXCEPT ![NewEntry] =
                         [monitor |-> m, interval |-> i, delay |-> d, inFlight |-> FALSE]]
      BY <3>1
    <3>3. i \in Nat /\ d \in Nat
      OBVIOUS
    <3>4. [monitor |-> m, interval |-> i, delay |-> d, inFlight |-> FALSE] \in Entry
      BY <3>3 DEF Entry
    <3> QED  BY <3>2, <3>4
  <2>11. /\ index[m] = None /\ index' = [index EXCEPT ![m] = NewEntry]
         /\ queue' = queue \cup {NewEntry}
         /\ UNCHANGED <<wake, loop, timer, due, step, holds, cancelled>>
         /\ edits' = edits + 1 /\ owed' = owed + 1
    BY <1>2 DEF Enter, Edited, tasks
  <2>3. TypeOK'
    BY <2>11, <2>1, <2>2 DEF TypeOK
  <2>4. Held' = Held /\ Held \subseteq Entries
    BY <2>11 DEF Held, TypeOK
  <2>5. NewEntry \notin queue \cup due \cup Held
    BY <2>1 DEF OnePlace
  <2>6. OnePlace'
    BY <2>11, <2>1, <2>2, <2>4, <2>5 DEF OnePlace, OneCheckPerEntry, TypeOK
  <2>7. Marked'
    BY <2>11, <2>1, <2>2, <2>4, <2>5 DEF Marked, TypeOK
  <2>8. Holding'
    BY <2>11 DEF Holding
  <2>9. Indexed'
    BY <2>11, <2>1, <2>2, <2>4 DEF Indexed, TypeOK
  <2>10. QueueIsIndexed'
    BY <2>11, <2>1, <2>2, <2>5, EntryType DEF QueueIsIndexed, TypeOK
  <2> QED  BY <2>3, <2>6, <2>7, <2>8, <2>9, <2>10
<1>3. ASSUME NEW m \in Monitors, Change(m) PROVE QueueInvariant'
  <2>1. index[m] \in Entries /\ entry[index[m]] \in Entry
    BY <1>3 DEF Change, TypeOK, Indexed
  <2>2. PICK r \in Entry : /\ entry' = [entry EXCEPT ![index[m]] = r]
                           /\ r.monitor = entry[index[m]].monitor
                           /\ r.inFlight = entry[index[m]].inFlight
    <3> DEFINE e == index[m]
    <3>1. PICK i \in Intervals :
             entry' = [entry EXCEPT ![e].interval = i,
                                    ![e].delay = IF i # entry[e].interval /\ ~ entry[e].inFlight
                                                   THEN i ELSE @]
      BY <1>3 DEF Change
    <3>2. PICK d \in Nat :
             entry' = [entry EXCEPT ![e].interval = i, ![e].delay = d]
      BY <3>1, <2>1 DEF Entry, TypeOK
    <3>3. entry' = [entry EXCEPT ![e] = [entry[e] EXCEPT !.interval = i, !.delay = d]]
      BY <3>2, <2>1 DEF TypeOK
    <3>4. [entry[e] EXCEPT !.interval = i, !.delay = d] \in Entry
      BY <2>1 DEF Entry
    <3> QED  BY <3>3, <3>4, <2>1 DEF Entry
  <2>11. UNCHANGED <<index, queue, wake, loop, timer, due, step, holds, cancelled>>
         /\ edits' = edits + 1 /\ owed' = owed + 1
    BY <1>3 DEF Change, Edited, tasks
  <2>3. TypeOK'
    BY <2>11, <2>1, <2>2 DEF TypeOK
  <2>4. Held' = Held /\ Held \subseteq Entries
    BY <2>11 DEF Held, TypeOK
  <2>6. OnePlace'
    BY <2>11, <2>1, <2>2, <2>4 DEF OnePlace, OneCheckPerEntry, TypeOK
  <2>7. Marked'
    BY <2>11, <2>1, <2>2, <2>4 DEF Marked, TypeOK
  <2>8. Holding'
    BY <2>11 DEF Holding
  <2>9. Indexed'
    BY <2>11, <2>1, <2>2, <2>4 DEF Indexed, TypeOK
  <2>10. QueueIsIndexed'
    BY <2>11, <2>1, <2>2 DEF QueueIsIndexed, TypeOK
  <2> QED  BY <2>3, <2>6, <2>7, <2>8, <2>9, <2>10
<1>4. ASSUME NEW m \in Monitors, Leave(m) PROVE QueueInvariant'
  <2>1. index[m] \in Entries /\ entry[index[m]] \in Entry /\ entry[index[m]].monitor = m
    BY <1>4 DEF Leave, TypeOK, Indexed
  <2>2. /\ queue' = queue \ {index[m]} /\ index' = [index EXCEPT ![m] = None]
        /\ entry' = IF index[m] \in queue THEN [entry EXCEPT ![index[m]] = None] ELSE entry
        /\ UNCHANGED <<loop, due, step, holds>>
    BY <1>4 DEF Leave, tasks
  <2>3. TypeOK'
    BY <1>4, <2>1 DEF Leave, Edited, TypeOK, tasks
  <2>4. Held' = Held /\ Held \subseteq Entries
    BY <2>2 DEF Held, TypeOK
  <2>5. \A x \in queue' \cup due' \cup Held' : entry'[x] = entry[x]
    BY <2>2, <2>4 DEF OnePlace, TypeOK
  <2>6. OnePlace'
    BY <2>2, <2>4, <2>5 DEF OnePlace, OneCheckPerEntry
  <2>7. Marked'
    BY <2>2, <2>4, <2>5 DEF Marked
  <2>8. Holding'
    BY <2>2 DEF Holding
  <2>9. Indexed'
    <3> SUFFICES ASSUME NEW x \in Monitors, index'[x] # None
                 PROVE  /\ entry'[index'[x]] # None /\ entry'[index'[x]].monitor = x
                        /\ loop' \in {"arm", "select", "start"} =>
                              index'[x] \in queue' \cup due' \cup Held'
      BY DEF Indexed
    <3>1. x # m /\ index'[x] = index[x] /\ index[x] \in Entries
      BY <2>2 DEF TypeOK
    <3>2. index[x] # index[m]
      BY <3>1, <2>1 DEF Indexed
    <3> QED  BY <2>2, <2>4, <3>1, <3>2 DEF Indexed, TypeOK
  <2>10. QueueIsIndexed'
    BY <2>1, <2>2, <2>5 DEF QueueIsIndexed, TypeOK
  <2> QED  BY <2>3, <2>6, <2>7, <2>8, <2>9, <2>10
<1>5. ASSUME UNCHANGED <<entry, index, queue, due, step, holds>>, TypeOK',
             loop' # "start" => due = {},
             loop' \in {"arm", "select", "start"} => loop \in {"arm", "select", "start"}
      PROVE  QueueInvariant'
  <2>1. Held' = Held
    BY <1>5 DEF Held
  <2> QED  BY <1>5, <2>1 DEF OnePlace, OneCheckPerEntry, Marked, Holding, Indexed, QueueIsIndexed
<1>6. ASSUME Signal \/ Stop \/ Arm \/ Woken \/ Return PROVE QueueInvariant'
  <2>1. UNCHANGED <<entry, index, queue, due, step, holds>>
    BY <1>6 DEF Signal, Stop, Arm, Woken, Return, heap, tasks
  <2>2. timer' \in Nat
    <3>1. CASE Arm
      <4>1. PICK wait \in {IdleWait} \cup {entry[e].delay : e \in queue} : timer' = wait
        BY <3>1 DEF Arm
      <4> QED  BY <4>1 DEF TypeOK, Entry, OnePlace
    <3>2. CASE timer' = timer
      BY <3>2 DEF TypeOK
    <3>3. Arm \/ timer' = timer
      BY <1>6 DEF Signal, Stop, Woken, Return
    <3> QED  BY <3>1, <3>2, <3>3
  <2>3. /\ wake' \in BOOLEAN /\ owed' \in Nat /\ cancelled' \in BOOLEAN /\ edits' \in Nat
        /\ loop' \in {"arm", "select", "waiting", "start", "stopped"}
    <3>1. CASE Signal
      BY <3>1 DEF Signal, TypeOK
    <3>2. CASE Stop
      BY <3>2 DEF Stop, TypeOK
    <3>3. CASE Arm
      BY <3>3 DEF Arm, TypeOK
    <3>4. CASE Woken
      BY <3>4 DEF Woken, TypeOK
    <3>5. CASE Return
      BY <3>5 DEF Return, TypeOK
    <3> QED  BY <1>6, <3>1, <3>2, <3>3, <3>4, <3>5
  <2>4. TypeOK'
    BY <2>1, <2>2, <2>3 DEF TypeOK
  <2>5. /\ loop' # "start" => due = {}
        /\ loop' \in {"arm", "select", "start"} => loop \in {"arm", "select", "start"}
    BY <1>6 DEF Signal, Stop, Arm, Woken, Return, Holding
  <2> QED  BY <1>5, <2>1, <2>4, <2>5
<1>7. ASSUME TakeDue PROVE QueueInvariant'
  <2>1. /\ due = {} /\ Expired \subseteq queue
        /\ due' = Expired /\ queue' = queue \ Expired
        /\ entry' = [e \in Entries |-> IF e \in Expired THEN [entry[e] EXCEPT !.inFlight = TRUE]
                                                         ELSE entry[e]]
        /\ loop' = IF Expired = {} THEN "arm" ELSE "start"
        /\ UNCHANGED <<index, wake, owed, timer, step, holds, cancelled, edits>>
    BY <1>7 DEF TakeDue, Expired, Holding, tasks
  <2>2. \A e \in Expired : entry[e] \in Entry /\ e \in Entries
    BY <2>1 DEF OnePlace, TypeOK
  <2>3. \A e \in Expired : /\ entry'[e] \in Entry /\ entry'[e].inFlight
                           /\ entry'[e].monitor = entry[e].monitor
    BY <2>1, <2>2 DEF Entry
  <2>4. \A e \in Entries \ Expired : entry'[e] = entry[e]
    BY <2>1
  <2>5. Held' = Held /\ Held \subseteq Entries
    BY <2>1 DEF Held, TypeOK
  <2>6. TypeOK'
    BY <2>1, <2>2, <2>3, <2>4 DEF TypeOK
  <2>7. OnePlace'
    BY <2>1, <2>2, <2>3, <2>4, <2>5 DEF OnePlace, OneCheckPerEntry, TypeOK
  <2>8. Marked'
    BY <2>1, <2>3, <2>4, <2>5 DEF Marked, OnePlace, TypeOK
  <2>9. Holding'
    BY <2>1 DEF Holding
  <2>10. Indexed'
    <3> SUFFICES ASSUME NEW m \in Monitors, index[m] # None
                 PROVE  /\ entry'[index[m]] # None /\ entry'[index[m]].monitor = m
                        /\ loop' \in {"arm", "select", "start"} =>
                              index[m] \in queue' \cup due' \cup Held'
      BY <2>1 DEF Indexed
    <3>1. index[m] \in Entries /\ loop = "select"
      BY <1>7 DEF TypeOK, TakeDue
    <3>2. /\ entry[index[m]] # None /\ entry[index[m]].monitor = m
          /\ index[m] \in queue \cup due \cup Held
      BY <3>1 DEF Indexed
    <3>3. entry'[index[m]] # None /\ entry'[index[m]].monitor = m
      BY <2>3, <2>4, <3>1, <3>2
    <3> QED  BY <2>1, <2>5, <3>2, <3>3
  <2>11. QueueIsIndexed'
    BY <2>1, <2>4 DEF QueueIsIndexed, TypeOK
  <2> QED  BY <2>6, <2>7, <2>8, <2>9, <2>10, <2>11
<1>8. ASSUME NEW s \in Slots, Start(s) PROVE QueueInvariant'
  <2>1. PICK e \in due : due' = due \ {e} /\ holds' = [holds EXCEPT ![s] = e]
    BY <1>8 DEF Start
  <2>2. /\ holds[s] = None /\ step' = [step EXCEPT ![s] = "check"]
        /\ loop = "start" /\ loop' = IF due' = {} THEN "arm" ELSE "start"
        /\ UNCHANGED <<entry, index, queue, wake, owed, timer, cancelled, edits>>
    BY <1>8 DEF Start, Holding, heap
  <2>3. e \in Entries /\ e # None /\ e \notin queue /\ e \notin Held
    BY <2>1 DEF OnePlace, TypeOK
  <2>4. Held' = Held \cup {e}
    BY <2>1, <2>2, <2>3 DEF Held, TypeOK
  <2>5. TypeOK'
    BY <2>1, <2>2, <2>3 DEF TypeOK
  <2>6. OneCheckPerEntry'
    BY <2>1, <2>2, <2>3 DEF OneCheckPerEntry, OnePlace, Held, TypeOK
  <2>7. OnePlace'
    BY <2>1, <2>2, <2>3, <2>4, <2>6 DEF OnePlace
  <2>8. Marked'
    BY <2>1, <2>2, <2>4 DEF Marked
  <2>9. Holding'
    BY <2>1, <2>2, <2>3 DEF Holding, TypeOK
  <2>10. Indexed'
    BY <2>1, <2>2, <2>4 DEF Indexed
  <2>11. QueueIsIndexed'
    BY <2>2 DEF QueueIsIndexed
  <2> QED  BY <2>5, <2>7, <2>8, <2>9, <2>10, <2>11
\* What giving an entry back does, from wherever it was.
<1>9. ASSUME NEW e \in due \cup Held, GiveBack(e), TypeOK', Holding', UNCHANGED index,
             due' \cup Held' \subseteq (due \cup Held) \ {e},
             due' \cap Held' = {}, OneCheckPerEntry',
             loop' \in {"arm", "select", "start"} =>
                /\ loop \in {"arm", "select", "start"}
                /\ due' \cup Held' = (due \cup Held) \ {e}
      PROVE  QueueInvariant'
  <2>1. e \in Entries /\ entry[e] \in Entry /\ e \notin queue
    BY DEF OnePlace, TypeOK, Held
  <2>2. CASE index[entry[e].monitor] = e
    <3>1. PICK r \in Entry : /\ entry' = [entry EXCEPT ![e] = r]
                             /\ r.monitor = entry[e].monitor /\ ~ r.inFlight
      <4>1. entry' = [entry EXCEPT ![e] = [entry[e] EXCEPT !.inFlight = FALSE,
                                                           !.delay = entry[e].interval]]
        BY <1>9, <2>1, <2>2 DEF GiveBack, TypeOK
      <4> QED  BY <2>1, <4>1, GivenBackType
    <3>2. queue' = queue \cup {e}
      BY <1>9, <2>2 DEF GiveBack
    <3>3. OnePlace'
      BY <1>9, <2>1, <3>1, <3>2 DEF OnePlace, TypeOK
    <3>4. Marked'
      BY <1>9, <2>1, <3>1, <3>2 DEF Marked, TypeOK, OnePlace, Held
    <3>5. Indexed'
      BY <1>9, <2>1, <3>1, <3>2 DEF Indexed, TypeOK
    <3>6. QueueIsIndexed'
      BY <1>9, <2>1, <2>2, <3>1, <3>2 DEF QueueIsIndexed, TypeOK
    <3> QED  BY <1>9, <3>3, <3>4, <3>5, <3>6
  <2>3. CASE index[entry[e].monitor] # e
    <3>1. entry' = [entry EXCEPT ![e] = None] /\ queue' = queue
      BY <1>9, <2>3 DEF GiveBack
    <3>2. OnePlace'
      BY <1>9, <2>1, <3>1 DEF OnePlace, TypeOK, Held
    <3>3. Marked'
      BY <1>9, <2>1, <3>1 DEF Marked, TypeOK, OnePlace, Held
    <3>4. \A m \in Monitors : index[m] # None => index[m] # e
      BY <2>1, <2>3 DEF Indexed
    <3>5. Indexed'
      BY <1>9, <3>1, <3>4 DEF Indexed, TypeOK
    <3>6. QueueIsIndexed'
      BY <1>9, <2>1, <3>1 DEF QueueIsIndexed, TypeOK
    <3> QED  BY <1>9, <3>2, <3>3, <3>5, <3>6
  <2> QED  BY <2>2, <2>3
<1>10. CASE WindDown
  <2>1. CASE loop = "select"
    <3>1. /\ UNCHANGED <<entry, index, queue, step, holds>> /\ due' = {} /\ due = {}
          /\ loop' = "waiting"
      BY <1>10, <2>1 DEF WindDown, Holding, tasks
    <3>2. TypeOK'
      BY <1>10, <2>1, <3>1 DEF WindDown, TypeOK, tasks
    <3> QED  BY <1>5, <3>1, <3>2
  <2>2. CASE loop = "start"
    <3>1. PICK e \in due : GiveBack(e)
      BY <1>10, <2>2 DEF WindDown
    <3>2. /\ UNCHANGED <<index, wake, owed, timer, step, holds, cancelled, edits>>
          /\ due' = {} /\ loop' = "waiting" /\ Held' = Held
      BY <1>10 DEF WindDown, tasks, Held
    <3>3. e \in Entries /\ entry[e] \in Entry /\ e \notin Held
      BY DEF OnePlace, TypeOK
    <3>4. entry' \in [Entries -> Entry \cup {None}] /\ queue' \subseteq Entries
      BY <3>1, <3>3, GiveBackType
    <3>5. TypeOK'
      BY <3>2, <3>4 DEF TypeOK
    <3>6. Holding'
      BY <3>2 DEF Holding
    <3>7. OneCheckPerEntry'
      BY <3>2 DEF OnePlace, OneCheckPerEntry
    <3> QED  BY <1>9, <3>1, <3>2, <3>3, <3>5, <3>6, <3>7
  <2> QED  BY <1>10, <2>1, <2>2 DEF WindDown
<1>11. ASSUME NEW s \in Slots, Checked(s) \/ Submitted(s) \/ Finish(s) PROVE QueueInvariant'
  <2>1. /\ UNCHANGED <<entry, index, queue, due, loop, timer, owed, holds, cancelled, edits>>
        /\ wake' \in BOOLEAN
        /\ \/ step[s] = "check" /\ step' = [step EXCEPT ![s] = "submit"]
           \/ step[s] = "submit" /\ step' = [step EXCEPT ![s] = "reschedule"]
           \/ step[s] = "signal" /\ step' = [step EXCEPT ![s] = "free"]
    BY <1>11 DEF Checked, Submitted, Finish, TypeOK, heap
  <2>2. TypeOK'
    BY <2>1 DEF TypeOK
  <2>3. Held' = Held
    BY <2>1 DEF Held
  <2>4. Holding'
    BY <2>1 DEF Holding, TypeOK
  <2> QED  BY <2>1, <2>2, <2>3, <2>4
           DEF OnePlace, OneCheckPerEntry, Marked, Indexed, QueueIsIndexed
<1>12. ASSUME NEW s \in Slots, Reschedule(s) PROVE QueueInvariant'
  <2> DEFINE e == holds[s]
  <2>1. /\ GiveBack(e) /\ step[s] = "reschedule"
        /\ step' = [step EXCEPT ![s] = "signal"] /\ holds' = [holds EXCEPT ![s] = None]
        /\ UNCHANGED <<index, wake, owed, loop, timer, due, cancelled, edits>>
    BY <1>12 DEF Reschedule
  <2>2. e \in Held /\ e \in Entries /\ entry[e] \in Entry /\ e \notin due
    BY <2>1 DEF Held, Holding, OnePlace, TypeOK
  <2>3. Held' = Held \ {e}
    BY <2>1, <2>2 DEF Held, TypeOK, OnePlace, OneCheckPerEntry
  <2>4. entry' \in [Entries -> Entry \cup {None}] /\ queue' \subseteq Entries
    BY <2>1, <2>2, GiveBackType
  <2>5. TypeOK'
    BY <2>1, <2>4 DEF TypeOK
  <2>6. Holding'
    BY <2>1 DEF Holding, TypeOK
  <2>7. OneCheckPerEntry'
    BY <2>1 DEF OnePlace, OneCheckPerEntry, TypeOK
  <2>8. due' \cap Held' = {} /\ due' \cup Held' = (due \cup Held) \ {e}
    BY <2>1, <2>2, <2>3 DEF OnePlace
  <2> QED  BY <1>9, <2>1, <2>2, <2>5, <2>6, <2>7, <2>8
<1>13. CASE Tick
  <2>1. /\ UNCHANGED <<index, queue, wake, owed, loop, due, step, holds, cancelled, edits>>
        /\ timer' = Less(timer)
        /\ entry' = [e \in Entries |-> IF e \in queue THEN [entry[e] EXCEPT !.delay = Less(@)]
                                                      ELSE entry[e]]
    BY <1>13 DEF Tick, tasks
  <2>2. \A n \in Nat : Less(n) \in Nat
    BY DEF Less
  <2>3. \A e \in queue : /\ e \in Entries /\ entry[e] \in Entry
                         /\ entry'[e] = [entry[e] EXCEPT !.delay = Less(@)]
    BY <2>1 DEF OnePlace, TypeOK
  <2>4. \A e \in queue : /\ entry'[e] \in Entry /\ entry'[e].monitor = entry[e].monitor
                         /\ entry'[e].inFlight = entry[e].inFlight
    <3> SUFFICES ASSUME NEW e \in queue
                 PROVE  /\ entry'[e] \in Entry /\ entry'[e].monitor = entry[e].monitor
                        /\ entry'[e].inFlight = entry[e].inFlight
      OBVIOUS
    <3>1. PICK d \in Nat : entry'[e] = [entry[e] EXCEPT !.delay = d]
      BY <2>2, <2>3 DEF Entry
    <3> QED  BY <2>3, <3>1 DEF Entry
  <2>5. \A e \in Entries \ queue : entry'[e] = entry[e]
    BY <2>1
  <2>6. TypeOK'
    BY <2>1, <2>2, <2>4, <2>5 DEF TypeOK
  <2>7. Held' = Held /\ Held \subseteq Entries
    BY <2>1 DEF Held, TypeOK
  <2>8. \A e \in Entries : /\ entry[e] # None => entry'[e] # None
                           /\ entry[e] # None => /\ entry'[e].monitor = entry[e].monitor
                                                 /\ entry'[e].inFlight = entry[e].inFlight
    BY <2>4, <2>5
  <2>9. OnePlace'
    BY <2>1, <2>7, <2>8 DEF OnePlace, OneCheckPerEntry, TypeOK
  <2>10. Marked'
    BY <2>1, <2>7, <2>8 DEF Marked, OnePlace, TypeOK
  <2>11. Holding' /\ Indexed'
    BY <2>1, <2>7, <2>8 DEF Holding, Indexed, TypeOK
  <2>12. QueueIsIndexed'
    BY <2>1, <2>4 DEF QueueIsIndexed
  <2> QED  BY <2>6, <2>9, <2>10, <2>11, <2>12
<1> QED  BY <1>1, <1>2, <1>3, <1>4, <1>6, <1>7, <1>8, <1>10, <1>11, <1>12, <1>13
         DEF Next, Run, Task

\* Every entry the scheduler knows is where its mark and the index say
\* (scheduler.go Upsert, Remove, Run, takeDue, reschedule).
THEOREM Invariance == Spec => []QueueInvariant
<1> QED  BY InitInvariant, QueueStep, PTL DEF Spec

\* An entry that two checks hold is never to be seen (heap.go inFlight).
THEOREM EntryCheckedOnce == Spec => []OneCheckPerEntry
<1>1. QueueInvariant => OneCheckPerEntry
  BY DEF QueueInvariant, OnePlace
<1> QED  BY <1>1, Invariance, PTL

\* No entry of a monitor that left comes back to the queue with the check
\* that held it (scheduler.go removeLocked, reschedule).
THEOREM QueueStaysIndexed == Spec => []QueueIsIndexed
<1>1. QueueInvariant => QueueIsIndexed
  BY DEF QueueInvariant
<1> QED  BY <1>1, Invariance, PTL

\* While the loop runs every scheduled monitor is in the queue, in the batch
\* taken from it or in a check, and marked accordingly (scheduler.go Run).
THEOREM NobodyIsForgotten == Spec => []NobodyForgotten
<1>1. QueueInvariant => NobodyForgotten
  <2> SUFFICES ASSUME QueueInvariant, loop \in {"arm", "select", "start"},
                      NEW m \in Monitors, index[m] # None
               PROVE  LET e == index[m] IN
                      /\ entry[e] # None /\ entry[e].monitor = m
                      /\ e \in queue <=> ~ entry[e].inFlight
                      /\ e \notin queue <=> e \in due \/ InTask(e)
                      /\ ~ (e \in due /\ InTask(e))
    BY DEF NobodyForgotten
  <2>1. InTask(index[m]) <=> index[m] \in Held
    BY DEF InTask, Held
  <2>2. /\ entry[index[m]] # None /\ entry[index[m]].monitor = m
        /\ index[m] \in queue \cup due \cup Held
    BY DEF QueueInvariant, Indexed
  <2> QED  BY <2>1, <2>2 DEF QueueInvariant, OnePlace, Marked
<1> QED  BY <1>1, Invariance, PTL

\* What would wake the loop early: a signal waiting, owed or about to be sent.
Waking == wake \/ owed # 0 \/ \E s \in Slots : step[s] = "signal"

Sleeps == loop = "select" /\ ~ Waking

\* A step that neither arms the timer nor lets time pass leaves a loop that
\* sleeps as it found it (scheduler.go signal).
LEMMA SleepStands ==
    ASSUME TypeOK, Next, Sleeps', ~ Arm, ~ Tick
    PROVE  Sleeps /\ UNCHANGED <<entry, queue, timer>>
<1>1. ~ \E m \in Monitors : Enter(m) \/ Change(m) \/ Leave(m)
  <2> SUFFICES ASSUME NEW m \in Monitors, Enter(m) \/ Change(m) \/ Leave(m) PROVE FALSE
    OBVIOUS
  <2>1. owed' = owed + 1
    BY DEF Enter, Change, Leave, Edited
  <2> QED  BY <2>1 DEF Sleeps, Waking, TypeOK
<1>2. ~ Signal /\ ~ Woken /\ ~ TakeDue /\ ~ WindDown /\ ~ Return /\ ~ \E s \in Slots : Start(s)
  BY DEF Sleeps, Waking, Signal, Woken, TakeDue, WindDown, Return, Start
<1>3. CASE Stop
  BY <1>3 DEF Stop, heap, tasks, Sleeps, Waking
<1>4. ASSUME NEW s \in Slots, Task(s) PROVE Sleeps /\ UNCHANGED <<entry, queue, timer>>
  <2>1. ~ Reschedule(s) /\ ~ Finish(s)
    BY DEF Sleeps, Waking, Reschedule, Finish, TypeOK
  <2>2. /\ UNCHANGED <<entry, queue, timer, wake, owed, loop>>
        /\ step[s] # "signal"
        /\ \E x \in {"submit", "reschedule"} : step' = [step EXCEPT ![s] = x]
    BY <1>4, <2>1 DEF Task, Checked, Submitted, heap
  <2>3. \A t \in Slots : step[t] = "signal" => step'[t] = "signal"
    BY <2>2 DEF TypeOK
  <2> QED  BY <2>2, <2>3 DEF Sleeps, Waking
<1> QED  BY <1>1, <1>2, <1>3, <1>4 DEF Next, Run

\* Every entry that comes due earlier than the timer comes with a signal, so
\* that the loop never sleeps past the moment one is due (scheduler.go
\* Upsert, reschedule, signal, waitFor).
THEOREM NothingIsOverslept == Spec => []NeverOversleeps
<1>1. Init => NeverOversleeps
  BY DEF Init, NeverOversleeps
<1>2. QueueInvariant /\ NeverOversleeps /\ [Next]_vars => NeverOversleeps'
  <2> SUFFICES ASSUME QueueInvariant, NeverOversleeps, [Next]_vars, Sleeps', NEW e \in queue'
               PROVE  timer' <= entry'[e].delay
    BY DEF NeverOversleeps, Sleeps, Waking
  <2>1. Sleeps => \A x \in queue : timer <= entry[x].delay
    BY DEF NeverOversleeps, Sleeps, Waking
  <2>2. TypeOK /\ \A x \in queue : x \in Entries /\ entry[x] \in Entry /\ entry[x].delay \in Nat
    BY DEF QueueInvariant, OnePlace, TypeOK, Entry
  <2>3. CASE Arm
    <3>1. PICK wait \in {IdleWait} \cup {entry[x].delay : x \in queue} :
             WaitFor(wait) /\ timer' = wait
      BY <2>3 DEF Arm
    <3>2. UNCHANGED <<entry, queue>>
      BY <2>3 DEF Arm, heap
    <3> QED  BY <3>1, <3>2 DEF WaitFor
  <2>4. CASE Tick
    <3>1. /\ timer' = Less(timer) /\ queue' = queue /\ e \in Entries
          /\ entry'[e] = [entry[e] EXCEPT !.delay = Less(entry[e].delay)]
      BY <2>2, <2>4 DEF Tick
    <3>2. entry'[e].delay = Less(entry[e].delay)
      BY <2>2, <3>1 DEF Entry
    <3>3. Sleeps
      BY <2>4 DEF Tick, Sleeps, Waking, tasks
    <3>4. timer <= entry[e].delay
      BY <2>1, <3>1, <3>3
    <3>5. timer \in Nat /\ entry[e].delay \in Nat
      BY <2>2, <3>1 DEF TypeOK
    <3>6. Less(timer) <= Less(entry[e].delay)
      BY <3>4, <3>5 DEF Less
    <3> QED  BY <3>1, <3>2, <3>6
  <2>5. CASE Next /\ ~ Arm /\ ~ Tick
    <3>1. Sleeps /\ UNCHANGED <<entry, queue, timer>>
      BY <2>2, <2>5, SleepStands
    <3> QED  BY <2>1, <3>1
  <2>6. CASE UNCHANGED vars
    BY <2>1, <2>6 DEF vars, heap, tasks, Sleeps, Waking
  <2> QED  BY <2>3, <2>4, <2>5, <2>6
<1> QED  BY <1>1, <1>2, Invariance, PTL DEF Spec

-----------------------------------------------------------------------------
(***************************************************************************)
(* The check of a database, one of those the goroutines run.               *)
(***************************************************************************)
Sql == INSTANCE SqlCheck

Quiet == [step: {"open"}]
Busy == [step: {"running"}, since: Nat, deadline: Nat, asked: Nat, started: Nat, promised: Nat,
         limit: Nat \cup {None}]

\* A part of the timeout is left over, a millisecond at least but not all of it
\* (sql.go, serverLimit: a tenth), and a check has ended when the next is due.
SqlCheckSorts ==
    /\ Timeout \in Nat \ {0} /\ Part \in Nat \ {0, 1} /\ MaxRows \in Nat
    /\ Milli \in Nat \ {0} /\ Timeout >= Part * Milli
    /\ Interval \in Nat /\ Interval >= Timeout
    /\ MaxChecks \in Nat /\ MaxClock \in Nat /\ None \notin Nat
    /\ \A q \in Queries : q.needs \in Nat /\ q.rows \in Nat
    /\ \A d \in Databases : {d.super, d.custom} \subseteq BOOLEAN
    /\ None \notin Quiet \cup Busy \cup {"up", "limit", "timeout"}

Closed == [step: {"idle"}]
Course == [step: {"connect", "agree", "begin", "ask", "query", "read"}, of: Sql!Numbers, began: Nat,
           asked: Nat \cup {None}, started: Nat \cup {None}]
Verdicts == [of: 0..MaxChecks, status: {None, "up", "down"},
             cause: {None, "limit", "timeout", "refused", "superuser"}, began: Nat \cup {None},
             whole: BOOLEAN, first: Nat \cup {None}, due: Nat \cup {None}, spare: Int \cup {None}]

SqlShapes ==
    /\ clock \in Nat /\ database \in Databases /\ query \in Queries
    /\ check \in Closed \cup Course
    /\ session \in [Sql!Numbers -> Quiet \cup Busy \cup {None}]
    /\ verdict \in Verdicts /\ (verdict.of > 0 => verdict.began \in Nat)

\* The limit n that a server keeps of the one that was promised, with so much
\* time left.
LimitKept(n, promised, left) ==
    /\ n \in Nat /\ n <= Timeout /\ n <= left + Milli /\ promised < n + Milli
    /\ Milli + Milli <= left => n < left - (left \div Part) + Milli

\* A query on the server began in the time of its check, with the limit that
\* was left then, and the clock does not outrun it.
InTime(s, q, d, time) ==
    /\ s.deadline <= s.asked + Timeout /\ s.asked < s.deadline
    /\ s.asked <= s.started /\ s.started <= s.since /\ s.since < s.deadline /\ s.since <= time
    /\ IF d.kind = "old" THEN s.limit = None
                         ELSE LimitKept(s.limit, s.promised, s.deadline - s.asked)
    /\ time <= s.since + q.needs + q.rows
    /\ s.limit # None => time <= s.since + s.limit
    /\ ~ (d.kind = "postgres" /\ d.super /\ d.custom)

\* What has been done of the check in course.
Doing ==
    check.step # "idle" =>
        LET n == check.of IN
        /\ n = verdict.of + 1 /\ check.began <= clock /\ clock <= check.began + Timeout
        /\ verdict.of > 0 => verdict.began + Interval <= check.began
        /\ check.step = "connect" => session[n] = None
        /\ check.step \in {"agree", "begin", "ask", "query"} => session[n] # None /\ session[n].step = "open"
        /\ check.step # "connect" =>
             /\ check.asked \in Nat /\ check.began <= check.asked /\ check.asked <= clock
             /\ check.asked < check.began + Timeout
        /\ check.step \notin {"connect", "agree"} =>
             check.started \in Nat /\ check.asked <= check.started /\ check.started <= clock
        /\ check.step = "query" => ~ (database.kind = "postgres" /\ database.super /\ database.custom)
        /\ check.step = "read" =>
             /\ Sql!Running(n) /\ session[n].deadline = check.began + Timeout
             /\ Sql!Interrupted(session[n]) \/ clock <= Sql!ReadAt(session[n])

\* What is left on the server is of the last check, or of the one before it
\* until the next begins.
LeftOver ==
    /\ \A n \in Sql!Numbers : Sql!Running(n) => InTime(session[n], query, database, clock)
    /\ \A n \in Sql!Numbers : session[n] # None =>
         \/ n = verdict.of + 1 /\ check.step # "idle"
         \/ n <= verdict.of /\ Sql!Running(n)
    /\ Sql!Limited => \A n \in Sql!Numbers : n <= verdict.of /\ session[n] # None =>
         /\ n = verdict.of => session[n].deadline = verdict.began + Timeout
         /\ n # verdict.of => /\ n = verdict.of - 1 /\ check.step = "idle"
                              /\ session[n].deadline + Interval <= verdict.began + Timeout

SqlInvariant ==
    /\ SqlShapes /\ Doing /\ LeftOver
    /\ Sql!UpIsTrue /\ Sql!LongAnswersAreUp

\* Of more time no more than the same part is left over.
LEMMA ShareGrows ==
    ASSUME SqlCheckSorts, NEW left \in 0..Timeout
    PROVE  left - (left \div Part) <= Timeout - Milli
<1>1. Part \in Nat /\ Part > 1 /\ Timeout \in Nat /\ Milli \in Nat /\ Timeout >= Part * Milli /\ left \in Nat
  BY DEF SqlCheckSorts
<1> PICK a \in Nat : a = left \div Part
  BY <1>1
<1> PICK r \in Nat : r = left % Part /\ r < Part
  BY <1>1
<1>2. left = Part * a + r
  BY <1>1
<1>3. left <= Timeout
  OBVIOUS
<1>4. CASE a >= Milli
  BY <1>1, <1>3, <1>4
<1>5. CASE a < Milli
  <2>0. Milli - a - 1 \in Nat
    BY <1>1, <1>5
  <2> PICK d \in Nat : d = Milli - a - 1
    BY <2>0
  <2>1. Milli = a + d + 1
    BY <1>1, <1>5
  <2>2. Part * Milli = Part * a + Part * d + Part
    BY <1>1, <2>1
  <2> PICK p \in Nat : p = Part * a
    BY <1>1
  <2>4. Part * d \in Nat /\ Part * d >= d
    BY ONLY <1>1, d \in Nat
  <2> PICK q \in Nat : q = Part * d /\ q >= d
    BY <2>4
  <2>3. Timeout >= p + q + Part /\ left = p + r
    BY <1>1, <1>2, <2>2
  <2>5. left - a <= Timeout - Milli
    BY ONLY <1>1, <2>1, <2>3, a \in Nat, d \in Nat, p \in Nat, q \in Nat, r \in Nat, r < Part, q >= d
  <2> QED  BY <2>5
<1> QED  BY <1>1, <1>4, <1>5

\* What is sent of a limit is within a millisecond of it (mysql.go,
\* limitStatementTime; postgres.go, beginQuery).
LEMMA LimitIsSent ==
    ASSUME SqlCheckSorts, NEW limit \in Nat, limit >= Milli, NEW sent,
           sent \in {Sql!Truncated(limit), Sql!Rounded(limit)}
    PROVE  /\ sent \in Nat /\ limit < sent + Milli /\ sent + sent <= limit + limit + Milli
           /\ limit = Milli => sent <= Milli
<1>1. Milli \in Nat /\ Milli > 0
  BY DEF SqlCheckSorts
<1> PICK half \in Nat : half = Milli \div 2 /\ half + half <= Milli
  BY <1>1
<1>2. ASSUME NEW l \in Nat
      PROVE  (l \div Milli) * Milli \in Nat /\ (l \div Milli) * Milli <= l /\ l < (l \div Milli) * Milli + Milli
  <2> PICK k \in Nat : k = l \div Milli
    BY <1>1
  <2>1. l = Milli * k + (l % Milli) /\ l % Milli \in Nat /\ l % Milli < Milli
    BY <1>1
  <2> PICK m \in Nat : m = Milli * k /\ m = k * Milli
    BY <1>1
  <2> QED  BY <1>1, <2>1
<1> PICK l \in Nat : /\ l \in {limit, limit + half} /\ sent = (l \div Milli) * Milli
  BY DEF Sql!Truncated, Sql!Rounded
<1>3. sent \in Nat /\ sent <= l /\ l < sent + Milli
  BY <1>2
<1>4. limit < sent + Milli /\ sent + sent <= limit + limit + Milli
  BY <1>1, <1>3
<1>5. limit = Milli => sent <= Milli
  <2> SUFFICES ASSUME limit = Milli  PROVE sent <= Milli
    OBVIOUS
  <2> PICK k \in Nat : k = l \div Milli
    BY <1>1
  <2>1. sent = k * Milli /\ sent < Milli + Milli
    BY <1>1, <1>3
  <2>2. k >= 2 => k * Milli >= Milli + Milli
    BY <1>1
  <2>3. k = 0 \/ k = 1
    BY <1>1, <2>1, <2>2
  <2> QED  BY <1>1, <2>1, <2>3
<1> QED  BY <1>3, <1>4, <1>5

\* The limit of the server is of the time that is left, a share of it less
\* (sql.go, serverLimit).
LEMMA LimitIsShorter ==
    ASSUME SqlCheckSorts, NEW left \in 1..Timeout
    PROVE  /\ Sql!ServerLimit(left) \in Nat /\ Sql!ServerLimit(left) >= Milli
           /\ database.kind # "old" =>
                LimitKept(Sql!Agreed(Sql!ServerLimit(left)), Sql!ServerLimit(left), left)
<1>1. /\ Part \in Nat /\ Part > 1 /\ Timeout \in Nat /\ Milli \in Nat /\ Milli > 0 /\ left \in Nat
      /\ left <= Timeout /\ left > 0 /\ Timeout >= Part * Milli
  BY DEF SqlCheckSorts
<1>0. left \in Nat
  BY <1>1
<1> PICK share \in Nat : share = left \div Part
  BY <1>1
<1>2. left = Part * share + (left % Part) /\ left % Part \in Nat
  BY <1>1
<1>3. share + share <= Part * share /\ Part * share <= left
  BY <1>1, <1>2
<1>4. share + share <= left
  <2> PICK p \in Nat : p = Part * share
    BY <1>1
  <2>1. share + share <= p /\ p <= left
    BY <1>3
  <2> QED  BY ONLY <1>0, <2>1, p \in Nat, share \in Nat
<1>5. left - share <= Timeout - Milli
  <2>1. left \in 0..Timeout
    BY <1>1
  <2>2. left - (left \div Part) <= Timeout - Milli
    BY <2>1, ShareGrows, Zenon
  <2> QED  BY <2>2
<1>6. Milli + Milli <= Timeout
  <2>1. Part * Milli >= Milli + Milli
    BY <1>1
  <2> PICK p : p = Part * Milli
    OBVIOUS
  <2>2. p \in Nat
    BY <1>1
  <2> QED  BY ONLY <1>1, <2>1, <2>2, p = Part * Milli
<1>9. left - share \in Nat
  BY ONLY <1>0, <1>4, share \in Nat
<1> PICK limit : limit = IF left - share >= Milli THEN left - share ELSE Milli
  OBVIOUS
<1>10. limit \in Nat /\ (limit # Milli => limit = left - share)
       /\ (left - share >= Milli => limit = left - share)
  BY <1>1, <1>9
<1>7. Sql!ServerLimit(left) = limit /\ limit >= Milli
  BY <1>1, <1>4 DEF Sql!ServerLimit, Sql!Most
<1>8. ASSUME database.kind # "old"  PROVE LimitKept(Sql!Agreed(limit), limit, left)
  <2> PICK sent : sent = Sql!Agreed(limit)
    OBVIOUS
  <2>1. sent \in {Sql!Truncated(limit), Sql!Rounded(limit)}
    BY <1>8 DEF Sql!Agreed
  <2>2. /\ sent \in Nat /\ limit < sent + Milli /\ sent + sent <= limit + limit + Milli
        /\ limit = Milli => sent <= Milli
    BY <1>7, <1>10, <2>1, LimitIsSent
  <2>3. sent <= Timeout /\ sent <= left + Milli
    <3>1. CASE limit = Milli
      BY <1>1, <1>6, <2>2, <3>1
    <3>2. CASE limit # Milli
      <4> QED  BY <1>1, <1>4, <1>5, <1>10, <2>2, <3>2
    <3> QED  BY <3>1, <3>2
  <2>4. Milli + Milli <= left => sent < left - share + Milli
    BY <1>1, <1>4, <1>10, <2>2
  <2> QED  BY <2>2, <2>3, <2>4 DEF LimitKept
<1> QED  BY <1>7, <1>8, <1>10

\* A query that runs has the marks of one.
LEMMA RunningIsBusy ==
    ASSUME SqlCheckSorts, SqlShapes, NEW n \in Sql!Numbers
    PROVE  /\ Sql!Running(n) <=> session[n] \in Busy
           /\ session[n] # None => session[n].step \in {"open", "running"}
BY DEF SqlShapes, Sql!Running, Busy, Quiet, SqlCheckSorts

\* One that is left goes within another timeout.
LEMMA LeavesInTime ==
    ASSUME SqlCheckSorts, NEW s \in Busy, NEW q \in Queries, NEW d \in Databases, d.kind # "old",
           NEW time \in Nat, InTime(s, q, d, time)
    PROVE  LimitKept(s.limit, s.promised, s.deadline - s.asked) /\ time < s.deadline + Timeout
<1>1. s.deadline \in Nat /\ s.since \in Nat /\ Timeout \in Nat
  BY DEF Busy, SqlCheckSorts
<1>2. LimitKept(s.limit, s.promised, s.deadline - s.asked)
  BY DEF InTime
<1>3. s.limit \in Nat /\ s.limit <= Timeout /\ s.limit # None
  BY <1>2 DEF LimitKept, SqlCheckSorts
<1>4. time <= s.since + s.limit /\ s.since < s.deadline
  BY <1>3 DEF InTime
<1> QED  BY <1>1, <1>2, <1>3, <1>4

\* The check in course goes on, and the server has nothing new.
LEMMA CheckGoesOn ==
    ASSUME SqlCheckSorts, SqlInvariant, check.step # "idle", NEW c \in Course, Sql!Proceeds(c),
           session' = session, Doing'
    PROVE  SqlInvariant'
<1>1. check' = c /\ UNCHANGED <<clock, database, query, verdict, session>> /\ check'.step # "idle"
  BY DEF Sql!Proceeds, Course
<1>2. SqlShapes'
  BY <1>1 DEF SqlInvariant, SqlShapes
<1>3. LeftOver'
  BY <1>1 DEF SqlInvariant, LeftOver, Sql!Running, Sql!Limited
<1>4. Sql!UpIsTrue' /\ Sql!LongAnswersAreUp'
  BY <1>1 DEF SqlInvariant, Sql!UpIsTrue, Sql!LongAnswersAreUp
<1> QED  BY <1>2, <1>3, <1>4 DEF SqlInvariant

\* A check is due an interval after the last: of what that one left there is
\* one query at most.
LEMMA CheckStarts ==
    ASSUME SqlCheckSorts, SqlInvariant, NEW n \in Sql!Numbers, Sql!Start(n)
    PROVE  SqlInvariant'
<1>1. /\ check.step = "idle" /\ n = verdict.of + 1 /\ (n > 1 => clock >= verdict.began + Interval)
      /\ check' = [step |-> "connect", of |-> n, began |-> clock, asked |-> None, started |-> None]
      /\ UNCHANGED <<clock, database, query, verdict, session>>
  BY DEF Sql!Start, Sql!Proceeds
<1>2. /\ clock \in Nat /\ database \in Databases /\ query \in Queries /\ verdict.of \in Nat
      /\ (verdict.of > 0 => verdict.began \in Nat)
      /\ session \in [Sql!Numbers -> Quiet \cup Busy \cup {None}]
  BY DEF SqlInvariant, SqlShapes, Verdicts
<1>3. /\ check' \in Course /\ check'.step = "connect" /\ check'.of = n /\ check'.began = clock
  BY <1>1, <1>2 DEF Course
<1>4. SqlShapes'
  BY <1>1, <1>3 DEF SqlInvariant, SqlShapes
<1>5. n \in Nat /\ \A m \in Sql!Numbers : m \in Nat /\ m > 0
  BY <1>1, <1>2 DEF Sql!Numbers
<1>6. session[n] = None
  BY <1>1, <1>2, <1>5 DEF SqlInvariant, LeftOver
<1>7. Doing'
  <2>1. (verdict.of > 0 => verdict.began + Interval <= clock) /\ clock <= clock + Timeout
    BY <1>1, <1>2 DEF SqlCheckSorts
  <2> QED  BY <1>1, <1>2, <1>3, <1>6, <2>1 DEF Doing
<1>8. Sql!Limited => \A m \in Sql!Numbers : m <= verdict.of /\ session[m] # None => m = verdict.of
  <2> SUFFICES ASSUME Sql!Limited, NEW m \in Sql!Numbers, m <= verdict.of, session[m] # None, m # verdict.of
               PROVE  FALSE
    OBVIOUS
  <2>1. Sql!Running(m)
    BY <1>2, <1>5 DEF SqlInvariant, LeftOver
  <2> PICK s : s = session[m]
    OBVIOUS
  <2>2. s \in Busy /\ InTime(s, query, database, clock)
    BY <2>1, RunningIsBusy DEF SqlInvariant, LeftOver
  <2>3. s.deadline + Interval <= verdict.began + Timeout
    BY DEF SqlInvariant, LeftOver
  <2>4. clock < s.deadline + Timeout
    BY <1>2, <2>2, LeavesInTime DEF Sql!Limited
  <2>5. s.deadline \in Nat /\ verdict.began \in Nat /\ verdict.of > 0 /\ n > 1
    BY <1>1, <1>2, <1>5, <2>2 DEF Busy
  <2> QED  BY <1>1, <1>2, <2>3, <2>4, <2>5 DEF SqlCheckSorts
<1>9. LeftOver'
  <2>1. \A m \in Sql!Numbers : session[m] # None => m <= verdict.of /\ Sql!Running(m)
    BY <1>1 DEF SqlInvariant, LeftOver
  <2> QED  BY <1>1, <1>3, <1>8, <2>1 DEF SqlInvariant, LeftOver, Sql!Running, Sql!Limited
<1>10. Sql!UpIsTrue' /\ Sql!LongAnswersAreUp'
  BY <1>1 DEF SqlInvariant, Sql!UpIsTrue, Sql!LongAnswersAreUp
<1> QED  BY <1>4, <1>7, <1>9, <1>10 DEF SqlInvariant

\* What is known of the check in course.
LEMMA InCourseNow ==
    ASSUME SqlCheckSorts, SqlInvariant, check.step # "idle"
    PROVE  /\ check \in Course /\ check.of \in Sql!Numbers /\ check.of = verdict.of + 1
           /\ check.began \in Nat /\ clock \in Nat /\ verdict.of \in Nat
           /\ check.began <= clock /\ clock <= check.began + Timeout
           /\ \A m \in Sql!Numbers : m \in Nat /\ m > 0
<1>1. check \in Course
  BY DEF SqlInvariant, SqlShapes, Closed
<1>2. \A m \in Sql!Numbers : m \in Nat /\ m > 0
  BY DEF Sql!Numbers
<1> QED  BY <1>1, <1>2 DEF SqlInvariant, SqlShapes, Doing, Course, Verdicts

LEMMA ServerIsReached ==
    ASSUME SqlCheckSorts, SqlInvariant, Sql!Connect
    PROVE  SqlInvariant'
<1> PICK n : n = check.of
  OBVIOUS
<1> PICK fresh : fresh = [step |-> "open"]
  OBVIOUS
<1>1. /\ check.step = "connect" /\ clock < check.began + Timeout
      /\ session' = [session EXCEPT ![n] = fresh]
      /\ check' = IF database.kind = "postgres"
                    THEN [check EXCEPT !.step = "begin", !.asked = clock, !.started = clock]
                    ELSE [check EXCEPT !.step = "agree", !.asked = clock]
      /\ UNCHANGED <<clock, database, query, verdict>>
  BY DEF Sql!Connect, Sql!Proceeds, Sql!Deadline
<1>2. /\ check \in Course /\ n \in Sql!Numbers /\ n = verdict.of + 1 /\ check.began \in Nat
      /\ clock \in Nat /\ verdict.of \in Nat /\ check.began <= clock
      /\ \A m \in Sql!Numbers : m \in Nat /\ m > 0
  BY <1>1, InCourseNow
<1>3. /\ check' \in Course /\ check'.of = n /\ check'.began = check.began /\ check'.asked = clock
      /\ check'.step = "agree" \/ (check'.step = "begin" /\ check'.started = clock)
  <2>1. CASE database.kind = "postgres"
    BY <1>1, <1>2, <2>1 DEF Course
  <2>2. CASE database.kind # "postgres"
    BY <1>1, <1>2, <2>2 DEF Course
  <2> QED  BY <2>1, <2>2
<1>4. fresh \in Quiet /\ fresh # None /\ fresh.step = "open"
  BY DEF Quiet, SqlCheckSorts
<1>5. session \in [Sql!Numbers -> Quiet \cup Busy \cup {None}]
  BY DEF SqlInvariant, SqlShapes
<1>6. /\ session'[n] = fresh /\ \A m \in Sql!Numbers : m # n => session'[m] = session[m]
      /\ session' \in [Sql!Numbers -> Quiet \cup Busy \cup {None}]
  BY <1>1, <1>2, <1>4, <1>5
<1>7. SqlShapes'
  BY <1>1, <1>3, <1>6 DEF SqlInvariant, SqlShapes
<1>11. /\ check.step # "idle" /\ check'.step \in {"agree", "begin"}
       /\ check'.step = "begin" => check'.started = clock
       /\ verdict.of > 0 => verdict.began + Interval <= check.began
       /\ Timeout \in Nat
  BY <1>1, <1>3 DEF SqlInvariant, Doing, SqlCheckSorts
<1>8. Doing'
  BY ONLY <1>1, <1>2, <1>3, <1>4, <1>6, <1>11, clock \in Nat DEF Doing
<1>9. LeftOver'
  <2>1. \A m \in Sql!Numbers : Sql!Running(m)' <=> m # n /\ Sql!Running(m)
    BY <1>4, <1>6 DEF Sql!Running, SqlInvariant, Doing
  <2>2. ~ Sql!Running(n)
    BY <1>1 DEF Sql!Running, SqlInvariant, Doing
  <2> QED  BY <1>1, <1>2, <1>3, <1>6, <2>1, <2>2 DEF SqlInvariant, LeftOver, Sql!Limited
<1>10. Sql!UpIsTrue' /\ Sql!LongAnswersAreUp'
  BY <1>1 DEF SqlInvariant, Sql!UpIsTrue, Sql!LongAnswersAreUp
<1> QED  BY <1>7, <1>8, <1>9, <1>10 DEF SqlInvariant

\* limitStatementTime, and then BeginTx: no query is on the server yet.
LEMMA CheckPrepares ==
    ASSUME SqlCheckSorts, SqlInvariant, check.step \in {"agree", "begin"},
           NEW next \in {"begin", "ask", "query"}, NEW time \in Nat,
           next = "query" => ~ (database.kind = "postgres" /\ database.super /\ database.custom),
           check.asked <= time, time <= clock,
           Sql!Proceeds([check EXCEPT !.step = next, !.started = time]), session' = session
    PROVE  SqlInvariant'
<1> PICK c : c = [check EXCEPT !.step = next, !.started = time]
  OBVIOUS
<1>1. check.step # "idle" /\ Sql!Proceeds(c)
  OBVIOUS
<1>2. /\ check \in Course /\ check.of \in Sql!Numbers /\ clock \in Nat
  BY <1>1, InCourseNow
<1>4. /\ c \in Course /\ c.step = next /\ c.of = check.of /\ c.began = check.began
      /\ c.asked = check.asked /\ c.started = time
  BY <1>2 DEF Course
<1>5. check' = c /\ UNCHANGED <<clock, database, query, verdict, session>>
  BY <1>1 DEF Sql!Proceeds
<1>7. /\ check.of = verdict.of + 1 /\ check.began <= clock /\ clock <= check.began + Timeout
      /\ verdict.of > 0 => verdict.began + Interval <= check.began
      /\ session[check.of] # None /\ session[check.of].step = "open"
      /\ check.asked \in Nat /\ check.began <= check.asked /\ check.asked <= clock
      /\ check.asked < check.began + Timeout
  BY <1>1 DEF SqlInvariant, Doing
<1>8. Doing'
  BY <1>2, <1>4, <1>5, <1>7 DEF Doing
<1> QED  BY <1>1, <1>4, <1>8, CheckGoesOn

\* What measures the query starts (mysql.go, Check).
LEMMA LimitIsAgreed ==
    ASSUME SqlCheckSorts, SqlInvariant, Sql!Agree
    PROVE  SqlInvariant'
<1>1. /\ check.step = "agree" /\ session' = session
      /\ Sql!Proceeds([check EXCEPT !.step = "begin", !.started = clock])
  BY DEF Sql!Agree
<1>2. clock \in Nat /\ check.asked <= clock
  BY <1>1 DEF SqlInvariant, SqlShapes, Doing
<1>3. clock <= clock
  BY <1>2
<1> QED  BY <1>1, <1>2, <1>3, CheckPrepares

\* The transaction is open (postgres.go, beginQuery; mysql.go, Check).
LEMMA TransactionBegins ==
    ASSUME SqlCheckSorts, SqlInvariant, Sql!Begin
    PROVE  SqlInvariant'
<1> PICK next : next = IF database.kind = "postgres" /\ database.custom THEN "ask" ELSE "query"
  OBVIOUS
<1>1. check.step = "begin" /\ session' = session /\ Sql!Proceeds([check EXCEPT !.step = next])
  BY DEF Sql!Begin
<1>2. check \in Course
  BY <1>1, InCourseNow
<1>3. check.started \in Nat /\ check.asked <= check.started /\ check.started <= clock
  BY <1>1 DEF SqlInvariant, Doing
<1>4. [check EXCEPT !.step = next] = [check EXCEPT !.step = next, !.started = check.started]
  BY <1>2 DEF Course
<1>5. next \in {"ask", "query"} /\ (next = "query" => ~ (database.kind = "postgres" /\ database.super /\ database.custom))
  OBVIOUS
<1>6. Sql!Proceeds([check EXCEPT !.step = next, !.started = check.started])
  BY <1>1, <1>4, Zenon
<1> QED  BY <1>1, <1>3, <1>5, <1>6, CheckPrepares

\* The query reaches the server, which keeps the limit or knows of none.
LEMMA QueryIsSent ==
    ASSUME SqlCheckSorts, SqlInvariant, Sql!Query
    PROVE  SqlInvariant'
<1> PICK n : n = check.of
  OBVIOUS
<1> PICK left : left = check.began + Timeout - check.asked
  OBVIOUS
<1> PICK promised : promised = Sql!ServerLimit(left)
  OBVIOUS
<1> PICK limit : limit = Sql!Agreed(promised)
  OBVIOUS
<1> PICK s : s = [step |-> "running", since |-> clock, deadline |-> check.began + Timeout,
                  asked |-> check.asked, started |-> check.started, promised |-> promised, limit |-> limit]
  OBVIOUS
<1>1. /\ check.step = "query" /\ clock < check.began + Timeout
      /\ session' = [session EXCEPT ![n] = s] /\ check' = [check EXCEPT !.step = "read"]
      /\ UNCHANGED <<clock, database, query, verdict>>
  <2>1. /\ check.step = "query" /\ clock < Sql!Deadline
        /\ session' = [session EXCEPT ![check.of] =
             [step |-> "running", since |-> clock, deadline |-> Sql!Deadline,
              asked |-> check.asked, started |-> check.started,
              promised |-> Sql!ServerLimit(Sql!Deadline - check.asked),
              limit |-> Sql!Agreed(Sql!ServerLimit(Sql!Deadline - check.asked))]]
        /\ check' = [check EXCEPT !.step = "read"]
        /\ UNCHANGED <<clock, database, query, verdict>>
    BY DEF Sql!Query, Sql!Proceeds
  <2>2. Sql!Deadline = check.began + Timeout
    BY DEF Sql!Deadline
  <2>3. Sql!Agreed(promised) = limit
    OBVIOUS
  <2>4. Sql!ServerLimit(Sql!Deadline - check.asked) = promised
    <3>1. check.began \in Nat /\ check.asked \in Nat /\ Timeout \in Nat
      BY <2>1, InCourseNow DEF SqlInvariant, Doing, SqlCheckSorts
    <3>2. Sql!Deadline - check.asked = left
      BY <2>2, <3>1
    <3> QED  BY <3>2, Zenon
  <2>5. /\ clock < check.began + Timeout
        /\ session' = [session EXCEPT ![check.of] =
             [step |-> "running", since |-> clock, deadline |-> check.began + Timeout,
              asked |-> check.asked, started |-> check.started, promised |-> promised, limit |-> limit]]
    BY <2>1, <2>2, <2>3, <2>4, Zenon
  <2> QED  BY <2>1, <2>5
<1>2. /\ check \in Course /\ n \in Sql!Numbers /\ n = verdict.of + 1 /\ check.began \in Nat
      /\ clock \in Nat /\ verdict.of \in Nat /\ check.began <= clock
      /\ \A m \in Sql!Numbers : m \in Nat /\ m > 0
  BY <1>1, InCourseNow
<1>3. /\ check.asked \in Nat /\ check.began <= check.asked /\ check.asked < check.began + Timeout
      /\ check.started \in Nat /\ check.asked <= check.started /\ check.started <= clock
      /\ ~ (database.kind = "postgres" /\ database.super /\ database.custom)
      /\ session[n] # None /\ session[n].step = "open"
  BY <1>1 DEF SqlInvariant, Doing
<1>4. /\ check' \in Course /\ check'.step = "read" /\ check'.of = n /\ check'.began = check.began
      /\ check'.asked = check.asked /\ check'.started = check.started
  BY <1>1, <1>2 DEF Course
<1>5. query \in Queries /\ query.needs \in Nat /\ query.rows \in Nat /\ database \in Databases
      /\ session \in [Sql!Numbers -> Quiet \cup Busy \cup {None}]
      /\ Timeout \in Nat /\ MaxRows \in Nat
  BY DEF SqlInvariant, SqlShapes, SqlCheckSorts
<1>6. /\ left \in 1..Timeout /\ promised \in Nat
      /\ IF database.kind = "old" THEN limit = None ELSE LimitKept(limit, promised, left)
  <2>1. left \in 1..Timeout
    BY <1>2, <1>3, <1>5
  <2>2. database.kind = "old" => limit = None
    BY DEF Sql!Agreed
  <2> QED  BY <2>1, <2>2, LimitIsShorter
<1>16. limit \in Nat \cup {None}
  BY <1>6 DEF LimitKept
<1>7. s \in Busy /\ s # None /\ s.step = "running"
  BY <1>2, <1>3, <1>5, <1>6, <1>16 DEF Busy, SqlCheckSorts
<1>8. InTime(s, query, database, clock)
  <2>1. /\ s.deadline = check.began + Timeout /\ s.asked = check.asked /\ s.started = check.started
        /\ s.since = clock /\ s.limit = limit /\ s.promised = promised
    OBVIOUS
  <2>4. s.deadline - s.asked = left
    BY <1>2, <1>3, <1>5, <2>1
  <2>2. /\ s.deadline <= s.asked + Timeout /\ s.asked < s.deadline /\ s.asked <= s.started
        /\ s.started <= s.since /\ s.since < s.deadline /\ s.since <= clock
        /\ clock <= s.since + query.needs + query.rows
    BY <1>1, <1>2, <1>3, <1>5, <2>1
  <2>3. s.limit # None => clock <= s.since + s.limit
    BY <1>2, <1>16, <2>1
  <2> QED  BY <1>3, <1>6, <2>1, <2>2, <2>3, <2>4, Zenon DEF InTime
<1>9. /\ session'[n] = s /\ \A m \in Sql!Numbers : m # n => session'[m] = session[m]
      /\ session' \in [Sql!Numbers -> Quiet \cup Busy \cup {None}]
  BY <1>1, <1>2, <1>5, <1>7
<1>10. SqlShapes'
  BY <1>1, <1>4, <1>9 DEF SqlInvariant, SqlShapes
<1>11. \A m \in Sql!Numbers : Sql!Running(m)' <=> m = n \/ Sql!Running(m)
  BY <1>7, <1>9 DEF Sql!Running
<1>12. /\ Sql!Running(n)' /\ (clock <= Sql!ReadAt(session[n]))'
       /\ s.deadline = check.began + Timeout /\ s.since = clock
  BY <1>1, <1>2, <1>5, <1>7, <1>9, <1>11 DEF Sql!ReadAt, Sql!RowsRead, Sql!Least
<1>13. Doing'
  BY <1>1, <1>2, <1>3, <1>4, <1>9, <1>12 DEF SqlInvariant, Doing
<1>14. LeftOver'
  <2>1. \A m \in Sql!Numbers : Sql!Running(m)' => InTime(session'[m], query, database, clock)
    BY <1>8, <1>9, <1>11 DEF SqlInvariant, LeftOver
  <2> QED  BY <1>1, <1>2, <1>4, <1>9, <1>11, <2>1 DEF SqlInvariant, LeftOver, Sql!Limited
<1>15. Sql!UpIsTrue' /\ Sql!LongAnswersAreUp'
  BY <1>1 DEF SqlInvariant, Sql!UpIsTrue, Sql!LongAnswersAreUp
<1> QED  BY <1>10, <1>13, <1>14, <1>15 DEF SqlInvariant

\* A check ends: its query may be left, and is then the last one.
LEMMA CheckEnds ==
    ASSUME SqlCheckSorts, SqlInvariant, check.step # "idle", NEW status \in {"up", "down"},
           NEW cause \in {None, "limit", "timeout", "refused", "superuser"}, Sql!EndsAs(status, cause),
           status = "up" =>
              LET s == session[check.of] IN
              Sql!Running(check.of) /\ (Sql!Interrupted(s) => s.started + s.promised - clock \in 1..Milli - 1),
           cause \in {"limit", "timeout"} /\ Sql!Running(check.of) =>
              LET s == session[check.of] IN
              s.since + query.needs + MaxRows >= Sql!Least(s.deadline, s.started + Sql!CutAfter(s))
    PROVE  SqlInvariant'
<1> PICK n : n = check.of
  OBVIOUS
<1> PICK s : s = session[n]
  OBVIOUS
<1> PICK runs \in BOOLEAN : runs <=> Sql!Running(n)
  OBVIOUS
<1> PICK whole \in BOOLEAN : whole <=> runs /\ ~ Sql!Interrupted(s)
  OBVIOUS
<1> PICK first : first = IF runs THEN s.since + query.needs + MaxRows ELSE None
  OBVIOUS
<1> PICK late : late = IF runs THEN Sql!Least(s.deadline, s.started + Sql!CutAfter(s)) ELSE None
  OBVIOUS
<1> PICK spare : spare = IF runs THEN s.started + s.promised - clock ELSE None
  OBVIOUS
<1> PICK rest : rest = IF runs /\ ~ Sql!SendsRows(s) THEN s ELSE None
  OBVIOUS
<1>1. /\ check' = [step |-> "idle"]
      /\ verdict'.of = n /\ verdict'.status = status /\ verdict'.cause = cause
      /\ verdict'.began = check.began /\ (verdict'.whole <=> whole) /\ verdict'.first = first
      /\ verdict'.due = late /\ verdict'.spare = spare
      /\ session' = [session EXCEPT ![n] = rest]
      /\ UNCHANGED <<clock, database, query>>
  BY DEF Sql!EndsAs, Sql!Idle
<1>2. verdict' = [of |-> n, status |-> status, cause |-> cause, began |-> check.began,
                  whole |-> IF runs THEN ~ Sql!Interrupted(s) ELSE FALSE, first |-> first, due |-> late,
                  spare |-> spare]
  BY Zenon DEF Sql!EndsAs
<1>3. /\ check \in Course /\ n \in Sql!Numbers /\ n = verdict.of + 1 /\ check.began \in Nat
      /\ clock \in Nat /\ verdict.of \in Nat
      /\ \A m \in Sql!Numbers : m \in Nat /\ m > 0
  BY InCourseNow
<1>4. /\ query \in Queries /\ query.needs \in Nat /\ database \in Databases
      /\ session \in [Sql!Numbers -> Quiet \cup Busy \cup {None}]
      /\ Timeout \in Nat /\ MaxRows \in Nat /\ Interval \in Nat /\ None \notin Nat
  BY DEF SqlInvariant, SqlShapes, SqlCheckSorts
<1>5. runs => /\ s \in Busy /\ s.since \in Nat /\ s.deadline \in Nat /\ s.started \in Nat
              /\ s.promised \in Nat /\ Sql!CutAfter(s) \in Nat
  BY <1>3, RunningIsBusy DEF SqlInvariant, Busy, Sql!CutAfter, Sql!Least
<1>6. first \in Nat \cup {None} /\ late \in Nat \cup {None} /\ spare \in Int \cup {None}
  BY <1>3, <1>4, <1>5 DEF Sql!Least
<1>7. verdict' \in Verdicts
  <2> PICK sound \in BOOLEAN : sound = (IF runs THEN ~ Sql!Interrupted(s) ELSE FALSE)
    BY DEF Sql!Interrupted
  <2>1. verdict' = [of |-> n, status |-> status, cause |-> cause, began |-> check.began,
                    whole |-> sound, first |-> first, due |-> late,
                  spare |-> spare]
    BY <1>2, Zenon
  <2>2. n \in 0..MaxChecks
    BY <1>3 DEF Sql!Numbers
  <2> QED  BY <1>3, <1>6, <2>1, <2>2 DEF Verdicts
<1>8. check' \in Closed /\ check'.step = "idle"
  BY <1>1 DEF Closed
<1>9. /\ session'[n] = rest /\ \A m \in Sql!Numbers : m # n => session'[m] = session[m]
      /\ session' \in [Sql!Numbers -> Quiet \cup Busy \cup {None}]
  BY <1>1, <1>3, <1>4, <1>5
<1>10. SqlShapes'
  BY <1>1, <1>3, <1>7, <1>8, <1>9 DEF SqlInvariant, SqlShapes
<1>11. Doing'
  BY <1>8 DEF Doing
<1>12. \A m \in Sql!Numbers : Sql!Running(m)' =>
          Sql!Running(m) /\ session'[m] = session[m] /\ (m = n => rest = s /\ runs)
  BY <1>9 DEF Sql!Running
<1>13. \A m \in Sql!Numbers : session'[m] # None => m <= n /\ Sql!Running(m)'
  <2> SUFFICES ASSUME NEW m \in Sql!Numbers, session'[m] # None
               PROVE  m <= n /\ Sql!Running(m)'
    OBVIOUS
  <2>1. CASE m = n
    <3>1. rest = s /\ runs
      BY <1>9, <2>1
    <3> QED  BY <1>3, <1>9, <2>1, <3>1 DEF Sql!Running
  <2>2. CASE m # n
    <3>1. session'[m] = session[m] /\ m <= verdict.of /\ Sql!Running(m)
      BY <1>3, <1>9, <2>2 DEF SqlInvariant, LeftOver
    <3> QED  BY <1>3, <3>1 DEF Sql!Running
  <2> QED  BY <2>1, <2>2
<1>14. LeftOver'
  <2>1. \A m \in Sql!Numbers : Sql!Running(m)' => InTime(session'[m], query, database, clock)
    BY <1>12 DEF SqlInvariant, LeftOver
  <2>2. ASSUME Sql!Limited, NEW m \in Sql!Numbers, session'[m] # None
        PROVE  /\ m = n => session'[m].deadline = check.began + Timeout
               /\ m # n => m = n - 1 /\ session'[m].deadline + Interval <= check.began + Timeout
    <3>1. CASE m = n
      <4>1. rest = s /\ runs
        BY <1>9, <2>2, <3>1
      <4>2. check.step = "read"
        <5>1. session[n] # None /\ session[n].step = "running"
          BY <4>1 DEF Sql!Running
        <5>2. check.step \in {"connect", "agree", "begin", "ask", "query", "read"}
          BY <1>3 DEF Course
        <5> QED  BY <5>1, <5>2 DEF SqlInvariant, Doing
      <4> QED  BY <1>9, <3>1, <4>1, <4>2 DEF SqlInvariant, Doing
    <3>2. CASE m # n
      <4>1. session'[m] = session[m] /\ m <= verdict.of /\ Sql!Running(m) /\ m > 0 /\ m \in Nat
        BY <1>3, <1>9, <2>2, <3>2 DEF SqlInvariant, LeftOver
      <4>2. m = verdict.of /\ session[m].deadline = verdict.began + Timeout
        BY <2>2, <4>1 DEF SqlInvariant, LeftOver
      <4>3. verdict.began + Interval <= check.began /\ verdict.began \in Nat
        BY <1>3, <4>1, <4>2 DEF SqlInvariant, Doing, SqlShapes
      <4> QED  BY <1>3, <1>4, <3>2, <4>1, <4>2, <4>3
    <3> QED  BY <3>1, <3>2
  <2> QED  BY <1>1, <1>8, <1>13, <2>1, <2>2 DEF LeftOver, Sql!Limited
<1>15. Sql!UpIsTrue'
  BY <1>1 DEF Sql!UpIsTrue
<1>16. Sql!LongAnswersAreUp'
  BY <1>1, <1>4, <1>5 DEF Sql!LongAnswersAreUp
<1> QED  BY <1>10, <1>11, <1>14, <1>15, <1>16 DEF SqlInvariant

\* What ends the check before it has a query on the server.
LEMMA EndsEarly ==
    ASSUME SqlCheckSorts, SqlInvariant, check.step \notin {"idle", "read"},
           NEW cause \in {"timeout", "refused", "superuser"}, Sql!EndsAs("down", cause)
    PROVE  SqlInvariant'
<1>1. check \in Course /\ check.of \in Sql!Numbers
  BY InCourseNow
<1>2. check.step \in {"connect", "agree", "begin", "ask", "query"}
  BY <1>1 DEF Course
<1>3. ~ Sql!Running(check.of)
  BY <1>2 DEF SqlInvariant, Doing, Sql!Running
<1> QED  BY <1>1, <1>3, CheckEnds

\* A superuser of Postgres is not let run a query of its own.
LEMMA UserIsAsked ==
    ASSUME SqlCheckSorts, SqlInvariant, Sql!AskUser
    PROVE  SqlInvariant'
<1>1. check.step = "ask"
  BY DEF Sql!AskUser
<1>2. CASE Sql!UserServes
  <2> PICK c : c = [check EXCEPT !.step = "query"]
    OBVIOUS
  <2>1. session' = session /\ Sql!Proceeds(c) /\ ~ database.super
    BY <1>2 DEF Sql!AskUser, Sql!UserServes
  <2>2. check \in Course
    BY <1>1, InCourseNow
  <2>3. /\ c \in Course /\ c.step = "query" /\ c.of = check.of /\ c.began = check.began
        /\ c.asked = check.asked /\ c.started = check.started
    BY <2>2 DEF Course
  <2>4. check' = c /\ UNCHANGED <<clock, database, query, verdict, session>>
    BY <2>1 DEF Sql!Proceeds
  <2>5. Doing'
    BY <1>1, <2>1, <2>3, <2>4 DEF SqlInvariant, Doing
  <2> QED  BY <1>1, <2>1, <2>3, <2>5, CheckGoesOn
<1>3. CASE ~ Sql!UserServes
  BY <1>1, <1>3, EndsEarly DEF Sql!AskUser
<1> QED  BY <1>2, <1>3

\* The marks of the query that is read.
LEMMA QueryIsRead ==
    ASSUME SqlCheckSorts, SqlInvariant, check.step = "read"
    PROVE  \E s \in Busy :
             /\ s = session[check.of] /\ InTime(s, query, database, clock) /\ Sql!Running(check.of)
             /\ s.deadline = check.began + Timeout
             /\ Sql!Interrupted(s) \/ clock <= Sql!ReadAt(s)
             /\ Sql!ReadAt(s) = s.since + query.needs + Sql!RowsRead(query)
             /\ Sql!RowsRead(query) \in Nat /\ Sql!RowsRead(query) <= MaxRows
             /\ Sql!RowsRead(query) <= query.rows
             /\ {query.needs, query.rows, clock, MaxRows, Timeout, check.began} \subseteq Nat
<1>1. check.of \in Sql!Numbers /\ check.began \in Nat
  BY InCourseNow
<1>2. Sql!Running(check.of)
  BY DEF SqlInvariant, Doing
<1>3. session[check.of] \in Busy /\ InTime(session[check.of], query, database, clock)
  BY <1>1, <1>2, RunningIsBusy DEF SqlInvariant, LeftOver
<1>4. /\ query.needs \in Nat /\ query.rows \in Nat /\ MaxRows \in Nat /\ clock \in Nat /\ Timeout \in Nat
  BY DEF SqlInvariant, SqlShapes, SqlCheckSorts
<1>5. /\ Sql!RowsRead(query) \in Nat /\ Sql!RowsRead(query) <= MaxRows /\ Sql!RowsRead(query) <= query.rows
  BY <1>4 DEF Sql!RowsRead, Sql!Least
<1> QED  BY <1>1, <1>2, <1>3, <1>4, <1>5 DEF SqlInvariant, Doing, Sql!ReadAt

\* The answer, or what a server that ended the query makes of it.
LEMMA AnswerIsRead ==
    ASSUME SqlCheckSorts, SqlInvariant, NEW hides \in BOOLEAN, Sql!Read(hides)
    PROVE  SqlInvariant'
<1>1. check.step = "read"
  BY DEF Sql!Read
<1>2. PICK s \in Busy :
         /\ s = session[check.of] /\ InTime(s, query, database, clock) /\ Sql!Running(check.of)
         /\ s.deadline = check.began + Timeout
         /\ Sql!Interrupted(s) \/ clock <= Sql!ReadAt(s)
         /\ Sql!ReadAt(s) = s.since + query.needs + Sql!RowsRead(query)
         /\ Sql!RowsRead(query) \in Nat /\ Sql!RowsRead(query) <= MaxRows
         /\ Sql!RowsRead(query) <= query.rows
         /\ {query.needs, query.rows, clock, MaxRows, Timeout, check.began} \subseteq Nat
  BY <1>1, QueryIsRead
<1>3. /\ clock < check.began + Timeout
      /\ clock = IF Sql!Interrupted(s) THEN Sql!StopsAt(s) ELSE Sql!ReadAt(s)
      /\ hides => Sql!Interrupted(s) /\ database.kind # "postgres"
      /\ IF (Sql!Interrupted(s) /\ ~ hides) \/ Sql!TookTheLimit(s)
           THEN Sql!EndsAs("down", "limit") ELSE Sql!EndsAs("up", None)
  BY <1>2 DEF Sql!Read, Sql!Deadline
<1>4. /\ s.since \in Nat /\ s.deadline \in Nat /\ s.started \in Nat /\ s.promised \in Nat
      /\ s.limit \in Nat \cup {None} /\ s.started <= s.since /\ None \notin Nat
      /\ Sql!CutAfter(s) \in Nat /\ Sql!CutAfter(s) <= s.promised /\ (s.limit # None => Sql!CutAfter(s) <= s.limit)
  BY <1>2 DEF Busy, InTime, SqlCheckSorts, Sql!CutAfter, Sql!Least
<1>5. Sql!Interrupted(s) =>
         /\ s.limit \in Nat /\ s.limit # None
         /\ s.since + s.limit < s.since + query.needs + Sql!RowsRead(query)
  BY <1>2, <1>4 DEF Sql!Interrupted
<1>6. Sql!Interrupted(s) => clock = s.since + s.limit
  <2> SUFFICES ASSUME Sql!Interrupted(s)  PROVE Sql!StopsAt(s) = s.since + s.limit
    BY <1>3
  <2>1. s.since + s.limit < s.since + query.needs + query.rows
    BY <1>2, <1>4, <1>5
  <2> QED  BY <1>2, <1>4, <1>5, <2>1 DEF Sql!StopsAt, Sql!WorksUntil, Sql!Least
<1>7. CASE (Sql!Interrupted(s) /\ ~ hides) \/ Sql!TookTheLimit(s)
  <2>1. s.started + Sql!CutAfter(s) <= s.since + query.needs + MaxRows
    <3>1. CASE Sql!Interrupted(s)
      BY <1>2, <1>4, <1>5, <3>1
    <3>2. CASE ~ Sql!Interrupted(s)
      <4>1. clock - s.started >= s.promised /\ clock = s.since + query.needs + Sql!RowsRead(query)
        BY <1>2, <1>3, <1>7, <3>2 DEF Sql!TookTheLimit
      <4> QED  BY <1>2, <1>4, <4>1
    <3> QED  BY <3>1, <3>2
  <2>2. s.since + query.needs + MaxRows >= Sql!Least(s.deadline, s.started + Sql!CutAfter(s))
    BY <1>2, <1>4, <2>1 DEF Sql!Least
  <2> QED  BY <1>1, <1>2, <1>3, <1>7, <2>2, CheckEnds
<1>8. CASE ~ ((Sql!Interrupted(s) /\ ~ hides) \/ Sql!TookTheLimit(s))
  <2>1. Sql!Interrupted(s) => s.started + s.promised - clock \in 1..Milli - 1
    <3> SUFFICES ASSUME Sql!Interrupted(s)  PROVE s.started + s.promised - clock \in 1..Milli - 1
      OBVIOUS
    <3>1. database.kind # "postgres" /\ clock = s.since + s.limit
      BY <1>3, <1>6, <1>8
    <3>2. s.promised < s.limit + Milli /\ Milli \in Nat
      BY <1>2, <1>5 DEF InTime, LimitKept, SqlCheckSorts
    <3>3. ~ (clock - s.started >= s.promised)
      BY <1>8, <3>1 DEF Sql!TookTheLimit
    <3>4. clock \in Nat /\ s.limit \in Nat
      BY <1>2, <1>5
    <3> QED  BY ONLY <1>4, <3>1, <3>2, <3>3, <3>4
  <2>2. Sql!EndsAs("up", None)
    BY <1>3, <1>8
  <2>3. None \notin {"limit", "timeout"}
    BY DEF SqlCheckSorts
  <2> QED  BY <1>1, <1>2, <2>1, <2>2, <2>3, CheckEnds
<1> QED  BY <1>7, <1>8

\* The deadline of the context.
LEMMA CheckTimesOut ==
    ASSUME SqlCheckSorts, SqlInvariant, Sql!TimesOut
    PROVE  SqlInvariant'
<1>1. check.step # "idle" /\ clock = check.began + Timeout /\ Sql!EndsAs("down", "timeout")
  BY DEF Sql!TimesOut, Sql!Deadline
<1>2. CASE check.step # "read"
  BY <1>1, <1>2, EndsEarly
<1>3. CASE check.step = "read"
  <2>1. PICK s \in Busy :
           /\ s = session[check.of] /\ InTime(s, query, database, clock) /\ Sql!Running(check.of)
           /\ s.deadline = check.began + Timeout
           /\ Sql!Interrupted(s) \/ clock <= Sql!ReadAt(s)
           /\ Sql!ReadAt(s) = s.since + query.needs + Sql!RowsRead(query)
           /\ Sql!RowsRead(query) \in Nat /\ Sql!RowsRead(query) <= MaxRows
           /\ Sql!RowsRead(query) <= query.rows
           /\ {query.needs, query.rows, clock, MaxRows, Timeout, check.began} \subseteq Nat
    BY <1>3, QueryIsRead
  <2>2. /\ s.since \in Nat /\ s.deadline \in Nat /\ s.started \in Nat /\ s.promised \in Nat
        /\ s.limit \in Nat \cup {None} /\ None \notin Nat /\ Sql!CutAfter(s) \in Nat
        /\ s.limit # None => clock <= s.since + s.limit
    BY <2>1 DEF Busy, InTime, SqlCheckSorts, Sql!CutAfter, Sql!Least
  <2>3. clock <= s.since + query.needs + Sql!RowsRead(query)
    BY <2>1, <2>2 DEF Sql!Interrupted
  <2>4. s.since + query.needs + MaxRows >= Sql!Least(s.deadline, s.started + Sql!CutAfter(s))
    BY <1>1, <2>1, <2>2, <2>3 DEF Sql!Least
  <2> QED  BY <1>1, <2>1, <2>4, CheckEnds
<1> QED  BY <1>2, <1>3

\* The server is done with a query that nobody waits for.
LEMMA ServerIsDone ==
    ASSUME SqlCheckSorts, SqlInvariant, NEW n \in Sql!Numbers, Sql!ServerEnds(n)
    PROVE  SqlInvariant'
<1>1. /\ n <= verdict.of /\ session' = [session EXCEPT ![n] = None]
      /\ UNCHANGED <<clock, database, query, check, verdict>>
  BY DEF Sql!ServerEnds
<1>2. /\ session \in [Sql!Numbers -> Quiet \cup Busy \cup {None}] /\ n \in Nat /\ verdict.of \in Nat
  BY DEF SqlInvariant, SqlShapes, Sql!Numbers, Verdicts
<1>3. /\ session'[n] = None /\ \A m \in Sql!Numbers : m # n => session'[m] = session[m]
      /\ session' \in [Sql!Numbers -> Quiet \cup Busy \cup {None}]
  BY <1>1, <1>2
<1>4. \A m \in Sql!Numbers : Sql!Running(m)' <=> m # n /\ Sql!Running(m)
  BY <1>3 DEF Sql!Running
<1>5. SqlShapes'
  BY <1>1, <1>3 DEF SqlInvariant, SqlShapes
<1>6. Doing'
  <2>1. CASE check.step = "idle"
    BY <1>1, <2>1 DEF Doing
  <2>2. CASE check.step # "idle"
    <3> PICK k : k = check.of
      OBVIOUS
    <3>1. k \in Sql!Numbers /\ k = verdict.of + 1
      BY <2>2, InCourseNow
    <3>2. session'[k] = session[k] /\ (Sql!Running(k)' <=> Sql!Running(k))
      BY <1>1, <1>2, <1>3, <1>4, <3>1
    <3> QED  BY <1>1, <2>2, <3>2 DEF SqlInvariant, Doing, Sql!Interrupted, Sql!ReadAt, Sql!RowsRead
  <2> QED  BY <2>1, <2>2
<1>7. LeftOver'
  BY <1>1, <1>3, <1>4 DEF SqlInvariant, LeftOver, Sql!Limited
<1>8. Sql!UpIsTrue' /\ Sql!LongAnswersAreUp'
  BY <1>1 DEF SqlInvariant, Sql!UpIsTrue, Sql!LongAnswersAreUp
<1> QED  BY <1>5, <1>6, <1>7, <1>8 DEF SqlInvariant

\* Time does not pass over what is due: the end of a query among it.
LEMMA TimePasses ==
    ASSUME SqlCheckSorts, SqlInvariant, Sql!Tick
    PROVE  SqlInvariant'
<1>1. /\ ~ Sql!Due /\ clock' = clock + 1 /\ UNCHANGED <<database, query, check, session, verdict>>
  BY DEF Sql!Tick
<1>2. /\ clock \in Nat /\ query.needs \in Nat /\ query.rows \in Nat /\ MaxRows \in Nat
      /\ \A m \in Sql!Numbers : m \in Nat /\ m > 0
      /\ verdict.of \in Nat /\ Timeout \in Nat
  BY DEF SqlInvariant, SqlShapes, SqlCheckSorts, Sql!Numbers, Verdicts
<1>3. Sql!RowsRead(query) \in Nat /\ Sql!RowsRead(query) <= query.rows
  BY <1>2 DEF Sql!RowsRead, Sql!Least
<1>4. \A m \in Sql!Numbers : Sql!Running(m)' <=> Sql!Running(m)
  BY <1>1 DEF Sql!Running
<1>5. ASSUME NEW m \in Sql!Numbers, Sql!Running(m)
      PROVE  InTime(session[m], query, database, clock + 1)
  <2> PICK s : s = session[m]
    OBVIOUS
  <2>1. s \in Busy /\ InTime(s, query, database, clock)
    BY <1>5, RunningIsBusy DEF SqlInvariant, LeftOver
  <2>2. s.since \in Nat /\ s.limit \in Nat \cup {None} /\ None \notin Nat
    BY <2>1 DEF Busy, SqlCheckSorts
  <2>3. /\ Sql!StopsAt(s) = (IF s.limit = None THEN s.since + query.needs + query.rows
                             ELSE Sql!Least(s.since + query.needs + query.rows, s.since + s.limit))
        /\ Sql!ReadAt(s) = s.since + query.needs + Sql!RowsRead(query)
        /\ Sql!Interrupted(s) <=> s.limit # None /\ s.since + s.limit < Sql!ReadAt(s)
    BY DEF Sql!StopsAt, Sql!WorksUntil, Sql!ReadAt, Sql!Interrupted
  <2>4. clock < Sql!StopsAt(s) \/ (~ Sql!Interrupted(s) /\ clock < Sql!ReadAt(s))
    <3>1. CASE m <= verdict.of
      <4>1. ~ (clock >= Sql!StopsAt(s))
        BY <1>1, <1>2, <1>5, <3>1 DEF Sql!Due
      <4> QED  BY <1>2, <2>2, <2>3, <4>1 DEF Sql!Least
    <3>2. CASE ~ (m <= verdict.of)
      <4>1. m = verdict.of + 1 /\ check.step # "idle"
        BY <1>5, <3>2 DEF SqlInvariant, LeftOver, Sql!Running
      <4>2. check.of = m /\ check \in Course
        BY <4>1, InCourseNow
      <4>3. check.step = "read"
        BY <1>5, <4>1, <4>2 DEF SqlInvariant, Doing, Sql!Running, Course
      <4>4. ~ (clock >= IF Sql!Interrupted(s) THEN Sql!StopsAt(s) ELSE Sql!ReadAt(s))
        BY <1>1, <4>2, <4>3 DEF Sql!Due
      <4> QED  BY <1>2, <1>3, <2>2, <2>3, <4>4 DEF Sql!Least
    <3> QED  BY <3>1, <3>2
  <2>5. /\ clock + 1 <= s.since + query.needs + query.rows
        /\ s.limit # None => clock + 1 <= s.since + s.limit
    BY <1>2, <1>3, <2>2, <2>3, <2>4 DEF Sql!Least
  <2>6. s.since <= clock + 1
    BY <1>2, <2>1, <2>2 DEF InTime
  <2> QED  BY <2>1, <2>5, <2>6 DEF InTime
<1>6. SqlShapes'
  BY <1>1, <1>2 DEF SqlInvariant, SqlShapes
<1>7. Doing'
  <2>1. CASE check.step = "idle"
    BY <1>1, <2>1 DEF Doing
  <2>2. CASE check.step # "idle"
    <3> PICK n : n = check.of
      OBVIOUS
    <3>1. /\ n \in Sql!Numbers /\ check.began \in Nat /\ check.began <= clock
          /\ clock <= check.began + Timeout /\ check \in Course
      BY <2>2, InCourseNow
    <3>2. clock + 1 <= check.began + Timeout /\ check.began <= clock + 1
      BY <1>1, <1>2, <2>2, <3>1 DEF Sql!Due, Sql!Deadline
    <3>3. /\ check.asked \in Nat /\ check.asked <= clock => check.asked <= clock + 1
          /\ check.started \in Nat /\ check.started <= clock => check.started <= clock + 1
      BY <1>2
    <3>4. ASSUME check.step = "read"
          PROVE  Sql!Interrupted(session[n])' \/ (clock <= Sql!ReadAt(session[n]))'
      <4> PICK s : s = session[n]
        OBVIOUS
      <4>1. s \in Busy /\ s.since \in Nat
        BY <3>1, <3>4, RunningIsBusy DEF SqlInvariant, Doing, Busy
      <4>2. Sql!ReadAt(s) = s.since + query.needs + Sql!RowsRead(query)
        BY DEF Sql!ReadAt
      <4>3. ~ Sql!Interrupted(s) => ~ (clock >= Sql!ReadAt(s))
        BY <1>1, <3>4 DEF Sql!Due
      <4>4. ~ Sql!Interrupted(s) => clock + 1 <= Sql!ReadAt(s)
        BY <1>2, <1>3, <4>1, <4>2, <4>3
      <4>5. (Sql!Interrupted(session[n])' <=> Sql!Interrupted(s)) /\ session'[n] = s
        BY <1>1 DEF Sql!Interrupted, Sql!ReadAt, Sql!RowsRead
      <4>6. (clock <= Sql!ReadAt(session[n]))' <=> clock + 1 <= Sql!ReadAt(s)
        BY <1>1 DEF Sql!ReadAt, Sql!RowsRead
      <4> QED  BY <4>4, <4>5, <4>6
    <3> QED  BY <1>1, <1>4, <2>2, <3>1, <3>2, <3>3, <3>4 DEF SqlInvariant, Doing
  <2> QED  BY <2>1, <2>2
<1>8. LeftOver'
  BY <1>1, <1>4, <1>5 DEF SqlInvariant, LeftOver, Sql!Limited
<1>9. Sql!UpIsTrue' /\ Sql!LongAnswersAreUp'
  BY <1>1 DEF SqlInvariant, Sql!UpIsTrue, Sql!LongAnswersAreUp
<1> QED  BY <1>6, <1>7, <1>8, <1>9 DEF SqlInvariant

LEMMA SqlInitially ==
    ASSUME SqlCheckSorts, Sql!Init  PROVE SqlInvariant
<1>1. /\ clock = 0 /\ database \in Databases /\ query \in Queries /\ check = [step |-> "idle"]
      /\ session = [n \in Sql!Numbers |-> None]
      /\ verdict = [of |-> 0, status |-> None, cause |-> None, began |-> None, whole |-> FALSE,
                    first |-> None, due |-> None, spare |-> None]
  BY DEF Sql!Init, Sql!Idle
<1>2. check \in Closed /\ check.step = "idle" /\ verdict \in Verdicts /\ verdict.of = 0
  BY <1>1 DEF Closed, Verdicts, SqlCheckSorts
<1>3. SqlShapes
  BY <1>1, <1>2 DEF SqlShapes
<1>4. Doing /\ LeftOver
  BY <1>1, <1>2 DEF Doing, LeftOver, Sql!Running
<1>5. Sql!UpIsTrue /\ Sql!LongAnswersAreUp
  <2>1. verdict.status = None /\ verdict.cause = None /\ verdict.first = None
    BY <1>1
  <2> QED  BY <2>1 DEF Sql!UpIsTrue, Sql!LongAnswersAreUp, SqlCheckSorts
<1> QED  BY <1>3, <1>4, <1>5 DEF SqlInvariant

LEMMA SqlNext ==
    ASSUME SqlCheckSorts, SqlInvariant, [Sql!Next]_(Sql!vars)  PROVE SqlInvariant'
<1>1. CASE UNCHANGED Sql!vars
  BY <1>1 DEF Sql!vars, SqlInvariant, SqlShapes, Doing, LeftOver, Sql!Running, Sql!Limited,
     Sql!Interrupted, Sql!ReadAt, Sql!RowsRead, Sql!UpIsTrue, Sql!LongAnswersAreUp
<1>2. CASE Sql!Next
  <2>1. Sql!Refused => check.step \notin {"idle", "read"} /\ Sql!EndsAs("down", "refused")
    BY DEF Sql!Refused
  <2> QED
    BY <1>2, <2>1, CheckStarts, ServerIsReached, LimitIsAgreed, TransactionBegins, UserIsAsked, QueryIsSent, EndsEarly,
       CheckTimesOut, TimePasses, AnswerIsRead, ServerIsDone DEF Sql!Next
<1> QED  BY <1>1, <1>2

\* What the invariant says of the server: who keeps a limit gives up first.
LEMMA LimitComesFirst ==
    ASSUME SqlCheckSorts, SqlInvariant  PROVE Sql!ServerGivesUpFirst
<1> SUFFICES ASSUME NEW n \in Sql!Numbers, Sql!Limited, Sql!Running(n),
                    session[n].since - session[n].asked + Milli
                       <= (session[n].deadline - session[n].asked) \div Part
             PROVE  Sql!StopsAt(session[n]) < session[n].deadline
  BY DEF Sql!ServerGivesUpFirst
<1> PICK s : s = session[n]
  OBVIOUS
<1>1. s \in Busy /\ InTime(s, query, database, clock)
  BY RunningIsBusy DEF SqlInvariant, LeftOver
<1>2. /\ s.since \in Nat /\ s.deadline \in Nat /\ s.asked \in Nat /\ query.needs \in Nat /\ query.rows \in Nat
      /\ s.deadline - s.asked \in Nat /\ None \notin Nat /\ s.asked <= s.since
      /\ LimitKept(s.limit, s.promised, s.deadline - s.asked)
      /\ Part \in Nat /\ Part > 1 /\ Milli \in Nat
  BY <1>1 DEF Busy, InTime, SqlInvariant, SqlShapes, SqlCheckSorts, Sql!Limited
<1> PICK left : left = s.deadline - s.asked
  OBVIOUS
<1> PICK share : share \in Nat /\ share = left \div Part
  BY <1>2
<1>3. s.since - s.asked + Milli <= share
  OBVIOUS
<1>4. share + share <= left
  <2>1. left = Part * share + (left % Part) /\ left % Part \in Nat
    BY <1>2
  <2>2. share + share <= Part * share
    BY <1>2
  <2> PICK p : p = Part * share
    OBVIOUS
  <2>4. p \in Nat
    BY <1>2
  <2>3. p <= left /\ share + share <= p
    BY ONLY <2>1, <2>2, <2>4, p = Part * share, left \in Nat, share \in Nat
  <2> QED  BY <1>2, <2>3
<1>5. Milli <= share
  BY <1>2, <1>3
<1>6. s.limit \in Nat /\ s.limit < left - share + Milli /\ s.limit # None
  BY <1>2, <1>4, <1>5 DEF LimitKept
<1>7. s.since + s.limit < s.deadline
  BY <1>2, <1>3, <1>6
<1> QED  BY <1>2, <1>6, <1>7 DEF Sql!StopsAt, Sql!WorksUntil, Sql!Least

\* And two at most are on it.
LEMMA TwoAtMost ==
    ASSUME SqlCheckSorts, SqlInvariant  PROVE Sql!NeverPilesUp
<1> SUFFICES ASSUME Sql!Limited
             PROVE  /\ Sql!Cardinality({n \in Sql!Numbers : session[n] # None}) <= 2
                    /\ \A n \in 1..verdict.of : Sql!Running(n) =>
                         Sql!StopsAt(session[n]) - session[n].deadline
                            <= session[n].since - session[n].asked + Milli
  BY DEF Sql!NeverPilesUp
<1> DEFINE S == {n \in Sql!Numbers : session[n] # None}
<1> PICK k : k = IF check.step = "idle" THEN verdict.of - 1 ELSE verdict.of
  OBVIOUS
<1>1. verdict.of \in 0..MaxChecks /\ MaxChecks \in Nat /\ \A n \in Sql!Numbers : n \in Nat /\ n > 0
  BY DEF SqlInvariant, SqlShapes, Verdicts, Sql!Numbers, SqlCheckSorts
<1>2. S \in SUBSET {k, k + 1}
  <2> SUFFICES ASSUME NEW n \in Sql!Numbers, session[n] # None  PROVE n \in {k, k + 1}
    OBVIOUS
  <2>1. CASE check.step = "idle"
    BY <1>1, <2>1 DEF SqlInvariant, LeftOver
  <2>2. CASE check.step # "idle"
    BY <1>1, <2>2 DEF SqlInvariant, LeftOver
  <2> QED  BY <2>1, <2>2
<1>3. IsFiniteSet({k, k + 1}) /\ Cardinality({k, k + 1}) \in Nat /\ Cardinality({k, k + 1}) <= 2
  <2>1. IsFiniteSet({k}) /\ Cardinality({k}) = 1
    BY FS_Singleton
  <2>2. {k, k + 1} = {k} \cup {k + 1}
    OBVIOUS
  <2>3. /\ IsFiniteSet({k} \cup {k + 1})
        /\ Cardinality({k} \cup {k + 1}) =
             IF k + 1 \in {k} THEN Cardinality({k}) ELSE Cardinality({k}) + 1
    BY <2>1, FS_AddElement, Zenon
  <2>4. Cardinality({k} \cup {k + 1}) \in {1, 2}
    <3>1. CASE k + 1 \in {k}
      BY <2>1, <2>3, <3>1, Zenon
    <3>2. CASE k + 1 \notin {k}
      <4>1. Cardinality({k} \cup {k + 1}) = Cardinality({k}) + 1
        BY <2>3, <3>2, Zenon
      <4> QED  BY <2>1, <4>1
    <3> QED  BY <3>1, <3>2
  <2>5. IsFiniteSet({k, k + 1}) /\ Cardinality({k, k + 1}) \in {1, 2}
    BY <2>2, <2>3, <2>4, Zenon
  <2> QED  BY <2>5
<1> HIDE DEF S
<1>4. IsFiniteSet(S) /\ Cardinality(S) <= Cardinality({k, k + 1})
  BY <1>2, <1>3, FS_Subset
<1>5. Cardinality(S) \in Nat
  BY <1>4, FS_CardinalityType
<1>6. Cardinality(S) <= 2
  BY <1>3, <1>4, <1>5
<1>7. Sql!Cardinality(S) <= 2
  BY <1>6 DEF Sql!Cardinality, Cardinality
<1>8. ASSUME NEW n \in 1..verdict.of, Sql!Running(n)
      PROVE  Sql!StopsAt(session[n]) - session[n].deadline
                            <= session[n].since - session[n].asked + Milli
  <2> PICK s : s = session[n]
    OBVIOUS
  <2>1. n \in Sql!Numbers
    BY <1>1 DEF Sql!Numbers
  <2>2. s \in Busy /\ InTime(s, query, database, clock)
    BY <1>8, <2>1, RunningIsBusy DEF SqlInvariant, LeftOver
  <2>3. LimitKept(s.limit, s.promised, s.deadline - s.asked)
    BY <2>2, LeavesInTime DEF SqlInvariant, SqlShapes, Sql!Limited
  <2>4. /\ s.since \in Nat /\ s.deadline \in Nat /\ s.asked \in Nat /\ query.needs \in Nat
        /\ query.rows \in Nat /\ s.limit # None /\ Milli \in Nat
        /\ s.limit \in Nat /\ s.limit <= s.deadline - s.asked + Milli
    BY <2>2, <2>3 DEF Busy, LimitKept, SqlInvariant, SqlShapes, SqlCheckSorts
  <2>5. Sql!StopsAt(s) \in Nat /\ Sql!StopsAt(s) <= s.since + s.limit
    BY <2>4 DEF Sql!StopsAt, Sql!WorksUntil, Sql!Least
  <2> QED  BY <2>4, <2>5
<1> QED  BY <1>7, <1>8 DEF S

\* A check keeps its time, and what it leaves on the server is gone before the
\* next but one (checker/sql.go).
THEOREM DatabaseCheckKept ==
    ASSUME SqlCheckSorts  PROVE Sql!Spec => []SqlInvariant
<1>1. Sql!Init => SqlInvariant
  BY SqlInitially
<1>2. SqlInvariant /\ [Sql!Next]_(Sql!vars) => SqlInvariant'
  BY SqlNext
<1> QED  BY <1>1, <1>2, PTL DEF Sql!Spec

\* The server gives up before the check, queries do not pile up on it, up is
\* true, a long answer is no outage, and a superuser's session runs nothing
\* (checker/sql.go, postgres.go, mysql.go).
THEOREM DatabaseCheckIsSound ==
    ASSUME SqlCheckSorts  PROVE Sql!Spec => []Sql!SqlCheckSound
<1>1. ASSUME SqlInvariant  PROVE Sql!SuperusersRunNothing
  BY <1>1 DEF SqlInvariant, LeftOver, InTime, Sql!SuperusersRunNothing
<1>2. SqlInvariant => Sql!SqlCheckSound
  BY <1>1, LimitComesFirst, TwoAtMost DEF SqlInvariant, Sql!SqlCheckSound
<1> QED  BY <1>2, DatabaseCheckKept, PTL
=============================================================================
