--------------------------- MODULE DispatcherProofs ---------------------------
(***************************************************************************)
(* What TLAPS proves of the dispatcher, for any number of channels,        *)
(* workers, alerts and attempts, and of the conversation in which one      *)
(* alert leaves by a channel, the module Delivery.                         *)
(***************************************************************************)
EXTENDS Dispatcher, TLAPS

\* The constants and the variables of Delivery.
CONSTANTS Configs, Unsafe, Codes, Events

VARIABLES channel, event, talk, tries, result, alerts, got, heard, clear, told, pinged

USE DispatcherAssumption

-----------------------------------------------------------------------------
(***************************************************************************)
(* The queue and the hands.                                                *)
(***************************************************************************)
\* What a goroutine holds is a delivery (dispatcher.go deliver).
LEMMA ItemType ==
    ASSUME TypeOK, NEW d \in Deliverers, item[d] # None
    PROVE  item[d] \in Delivery /\ Number(d) \in 1..MaxAlerts
BY DEF TypeOK, Delivery, Number

\* Whoever takes an alert takes the first of the queue
\* (dispatcher.go work, drain).
LEMMA HeadAndTail ==
    ASSUME TypeOK, queue # <<>>, queue' = Tail(queue)
    PROVE  /\ Head(queue) \in Delivery /\ 1 \in DOMAIN queue /\ Head(queue) = queue[1]
           /\ queue' \in Seq(Delivery) /\ Len(queue') <= QueueSize
           /\ \A i \in DOMAIN queue' : i + 1 \in DOMAIN queue /\ queue'[i] = queue[i + 1]
           /\ \A i \in DOMAIN queue : i # 1 => i - 1 \in DOMAIN queue' /\ queue'[i - 1] = queue[i]
BY DEF TypeOK

\* An alert accepted is the last of the queue (dispatcher.go Enqueue).
LEMMA Appended ==
    ASSUME TypeOK, NEW a \in Delivery, Len(queue) < QueueSize, queue' = Append(queue, a)
    PROVE  /\ queue' \in Seq(Delivery) /\ Len(queue') <= QueueSize
           /\ DOMAIN queue' = DOMAIN queue \cup {Len(queue) + 1}
           /\ Len(queue) + 1 \notin DOMAIN queue
           /\ queue'[Len(queue) + 1] = a
           /\ \A i \in DOMAIN queue : queue'[i] = queue[i]
BY DEF TypeOK

-----------------------------------------------------------------------------
(***************************************************************************)
(* The invariant.                                                          *)
(***************************************************************************)
\* A dispatcher starts with nothing offered (dispatcher.go NewDispatcher).
LEMMA InitInvariant == Init => DeliveryInvariant
<1> SUFFICES ASSUME Init PROVE DeliveryInvariant
  OBVIOUS
<1>1. TypeOK
  <2>1. queue \in Seq(Delivery) /\ Len(queue) <= QueueSize
    BY DEF Init
  <2>2. /\ 0 \in 0..MaxAttempts /\ 0 \in 0..MaxAlerts
    OBVIOUS
  <2>3. /\ item \in [Deliverers -> Delivery \cup {None}]
        /\ attempt \in [Deliverers -> 0..MaxAttempts]
        /\ phase \in [Deliverers -> {"idle", "send", "wait", "last", "returned"}]
        /\ sends \in [1..MaxAlerts -> Nat]
    BY <2>2 DEF Init
  <2> QED  BY <2>1, <2>2, <2>3 DEF Init, TypeOK
<1>2. InHand = {} /\ Queued = {}
  BY DEF Init, InHand, Queued
<1>3. Accounted
  <2>1. 1..offered = {} /\ DOMAIN queue = {}
    BY DEF Init
  <2> QED  BY <1>2, <2>1 DEF Init, Accounted
<1>4. SendsCounted /\ HandsFull /\ AttemptsBounded /\ NothingLostUntried
  BY <1>2 DEF Init, SendsCounted, HandsFull, AttemptsBounded, NothingLostUntried
<1> QED  BY <1>1, <1>3, <1>4 DEF DeliveryInvariant

\* An offer adds a new number, to the queue or to what the full queue
\* refused (dispatcher.go Enqueue).
LEMMA EnqueueKeeps ==
    ASSUME DeliveryInvariant, NEW c \in Channels, Enqueue(c)
    PROVE  DeliveryInvariant'
<1> DEFINE n == offered + 1
           a == [number |-> n, channel |-> c]
<1>1. /\ offered < MaxAlerts /\ offered' = n
      /\ UNCHANGED <<item, attempt, phase, ended, lost, delivered, sends, arrived>>
  BY DEF Enqueue
<1>2. n \in 1..MaxAlerts /\ offered \in Nat /\ 1..n = 1..offered \cup {n} /\ n \notin 1..offered
  BY <1>1 DEF DeliveryInvariant, TypeOK
<1>3. a \in Delivery
  BY <1>2 DEF Delivery
<1>4. InHand' = InHand
  BY <1>1 DEF InHand, Number
<1>5. n \notin refused \cup lost \cup delivered \cup InHand \cup Queued
  BY <1>2 DEF DeliveryInvariant, Accounted
<1>6. CASE queue' = Append(queue, a) /\ Len(queue) < QueueSize /\ refused' = refused
  <2>1. TypeOK'
    <3>1. queue' \in Seq(Delivery) /\ Len(queue') <= QueueSize
      BY <1>3, <1>6, Appended DEF DeliveryInvariant
    <3>2. offered' \in 0..MaxAlerts
      BY <1>1, <1>2
    <3> QED  BY <1>1, <1>6, <3>1, <3>2 DEF DeliveryInvariant, TypeOK
  <2>2. Queued' = Queued \cup {n}
    <3> DEFINE k == Len(queue) + 1
    <3>1. /\ DOMAIN queue' = DOMAIN queue \cup {k} /\ k \notin DOMAIN queue
          /\ queue'[k].number = n
          /\ \A i \in DOMAIN queue : queue'[i].number = queue[i].number
      BY <1>3, <1>6, Appended DEF DeliveryInvariant
    <3> HIDE DEF n, k
    <3> QED  BY <3>1 DEF Queued
  <2>3. \A i, j \in DOMAIN queue' : i # j => queue'[i].number # queue'[j].number
    BY <1>3, <1>5, <1>6, Appended DEF DeliveryInvariant, Accounted, Queued
  <2>4. Accounted'
    BY <1>1, <1>2, <1>4, <1>5, <1>6, <2>2, <2>3 DEF DeliveryInvariant, Accounted, Number
  <2>5. SendsCounted'
    BY <1>1, <1>2, <2>2 DEF DeliveryInvariant, SendsCounted, Number
  <2> QED  BY <1>1, <2>1, <2>4, <2>5
           DEF DeliveryInvariant, HandsFull, AttemptsBounded, NothingLostUntried
<1>7. CASE refused' = refused \cup {n} /\ queue' = queue
  <2>1. TypeOK'
    BY <1>1, <1>2, <1>7 DEF DeliveryInvariant, TypeOK
  <2>2. Queued' = Queued
    BY <1>7 DEF Queued
  <2>3. Accounted'
    BY <1>1, <1>2, <1>4, <1>5, <1>7, <2>2 DEF DeliveryInvariant, Accounted, Number
  <2>4. SendsCounted'
    BY <1>1, <1>2, <2>2 DEF DeliveryInvariant, SendsCounted, Number, TypeOK
  <2> QED  BY <1>1, <2>1, <2>3, <2>4
           DEF DeliveryInvariant, HandsFull, AttemptsBounded, NothingLostUntried
<1> QED  BY <1>6, <1>7 DEF Enqueue

\* Taking moves a number from the queue to a hand that was empty
\* (dispatcher.go work, drain).
LEMMA TakeKeeps ==
    ASSUME DeliveryInvariant, NEW d \in Deliverers, Take(d)
    PROVE  DeliveryInvariant'
<1> DEFINE n == Head(queue).number
<1>1. /\ phase[d] = "idle" /\ queue # <<>> /\ queue' = Tail(queue)
      /\ item' = [item EXCEPT ![d] = Head(queue)]
      /\ phase' = [phase EXCEPT ![d] = "send"]
      /\ UNCHANGED <<attempt, ended, offered, refused, lost, delivered, sends, arrived>>
  BY DEF Take
<1>2. item[d] = None /\ attempt[d] = 0
  BY <1>1 DEF DeliveryInvariant, HandsFull
<1>3. Head(queue) \in Delivery /\ n \in 1..MaxAlerts /\ Head(queue) # None
  BY <1>1, HeadAndTail DEF DeliveryInvariant, Delivery
<1>4. TypeOK'
  BY <1>1, <1>3, HeadAndTail DEF DeliveryInvariant, TypeOK
<1>5. Queued' = Queued \ {n} /\ n \in Queued
  <2>1. /\ 1 \in DOMAIN queue /\ n = queue[1].number
        /\ \A i \in DOMAIN queue' : /\ i + 1 \in DOMAIN queue /\ i + 1 # 1
                                    /\ queue'[i].number = queue[i + 1].number
        /\ \A i \in DOMAIN queue : i # 1 => /\ i - 1 \in DOMAIN queue'
                                            /\ queue'[i - 1].number = queue[i].number
    <3>1. /\ 1 \in DOMAIN queue /\ Head(queue) = queue[1]
          /\ \A i \in DOMAIN queue' : i + 1 \in DOMAIN queue /\ queue'[i] = queue[i + 1]
          /\ \A i \in DOMAIN queue : i # 1 => i - 1 \in DOMAIN queue' /\ queue'[i - 1] = queue[i]
          /\ DOMAIN queue' \subseteq Nat \ {0}
      BY <1>1, HeadAndTail DEF DeliveryInvariant, TypeOK
    <3> QED  BY ONLY <3>1
  <2>2. \A i \in DOMAIN queue : i # 1 => queue[i].number # n
    BY <2>1 DEF DeliveryInvariant, Accounted
  <2>3. ASSUME NEW x \in Queued' PROVE x \in Queued \ {n}
    <3>1. PICK i \in DOMAIN queue' : x = queue'[i].number
      BY <2>3 DEF Queued
    <3> QED  BY <2>1, <2>2, <3>1 DEF Queued
  <2>4. ASSUME NEW x \in Queued \ {n} PROVE x \in Queued'
    <3>1. PICK i \in DOMAIN queue : x = queue[i].number
      BY <2>4 DEF Queued
    <3> QED  BY <2>1, <3>1, <2>4 DEF Queued
  <2> QED  BY <2>1, <2>3, <2>4 DEF Queued
<1>6. /\ Number(d)' = n
      /\ \A e \in Deliverers \ {d} : Number(e)' = Number(e) /\ item'[e] = item[e]
  BY <1>1 DEF Number, DeliveryInvariant, TypeOK
<1>7. InHand' = InHand \cup {n}
  <2>1. item'[d] # None
    BY <1>1, <1>3 DEF DeliveryInvariant, TypeOK
  <2> QED  BY <1>2, <1>6, <2>1 DEF InHand
<1>8. \A i, j \in DOMAIN queue' : i # j => queue'[i].number # queue'[j].number
  <2> SUFFICES ASSUME NEW i \in DOMAIN queue', NEW j \in DOMAIN queue', i # j
               PROVE  queue'[i].number # queue'[j].number
    OBVIOUS
  <2>1. /\ i + 1 \in DOMAIN queue /\ queue'[i] = queue[i + 1]
        /\ j + 1 \in DOMAIN queue /\ queue'[j] = queue[j + 1]
    BY <1>1, HeadAndTail DEF DeliveryInvariant
  <2>2. i \in Nat /\ j \in Nat
    BY <1>4 DEF TypeOK
  <2> QED  BY <2>1, <2>2 DEF DeliveryInvariant, Accounted
<1>9. n \notin InHand
  BY <1>5 DEF DeliveryInvariant, Accounted
<1>10. \A e, f \in Deliverers :
          e # f /\ item'[e] # None /\ item'[f] # None => Number(e)' # Number(f)'
  BY <1>6, <1>9 DEF DeliveryInvariant, Accounted, InHand
<1>11. Accounted'
  BY <1>1, <1>5, <1>7, <1>8, <1>10 DEF DeliveryInvariant, Accounted
<1>12. SendsCounted'
  BY <1>1, <1>2, <1>5, <1>6 DEF DeliveryInvariant, SendsCounted, Accounted
<1>13. HandsFull'
  BY <1>1, <1>2, <1>3, <1>6 DEF DeliveryInvariant, HandsFull, TypeOK
<1> QED  BY <1>1, <1>4, <1>11, <1>12, <1>13
         DEF DeliveryInvariant, AttemptsBounded, NothingLostUntried

\* A goroutine that goes on or returns, its delivery unchanged
\* (dispatcher.go work, drain, deliver).
LEMMA MoveKeeps ==
    ASSUME DeliveryInvariant, NEW d \in Deliverers, Return(d) \/ Wait(d)
    PROVE  DeliveryInvariant'
<1>1. UNCHANGED <<queue, item, attempt, ended, offered, refused, lost, delivered, sends, arrived>>
  BY DEF Return, Wait
<1>2. \/ phase[d] = "idle" /\ phase' = [phase EXCEPT ![d] = "returned"]
      \/ phase[d] = "wait" /\ phase' = [phase EXCEPT ![d] = "send"]
      \/ phase[d] = "wait" /\ phase' = [phase EXCEPT ![d] = "last"]
  BY DEF Return, Wait
<1>3. TypeOK'
  BY <1>1, <1>2 DEF DeliveryInvariant, TypeOK
<1>4. HandsFull'
  BY <1>1, <1>2 DEF DeliveryInvariant, HandsFull, TypeOK
<1>5. Accounted' /\ SendsCounted'
  BY <1>1 DEF DeliveryInvariant, Accounted, SendsCounted, InHand, Queued, Number
<1> QED  BY <1>1, <1>3, <1>4, <1>5 DEF DeliveryInvariant, AttemptsBounded, NothingLostUntried

\* A call of Send is one more for the delivery in hand, within the limit
\* (dispatcher.go deliver).
LEMMA CallCounts ==
    ASSUME DeliveryInvariant, NEW d \in Deliverers, item[d] # None, NEW o, SendCalled(d, o)
    PROVE  /\ o \in {"ok", "permanent", "passing", "unsure"}
           /\ sends' \in [1..MaxAlerts -> Nat] /\ arrived' \subseteq 1..MaxAlerts
           /\ sends'[Number(d)] = attempt[d] + 1
           /\ \A n \in 1..MaxAlerts \ {Number(d)} : sends'[n] = sends[n]
           /\ AttemptsBounded'
           /\ arrived \subseteq arrived' /\ (o = "ok" => Number(d) \in arrived')
<1>1. Number(d) \in 1..MaxAlerts
  BY ItemType DEF DeliveryInvariant
<1>2. /\ sends[Number(d)] = attempt[d] /\ attempt[d] < MaxAttempts /\ attempt[d] \in Nat
  BY DEF DeliveryInvariant, SendsCounted, TypeOK
<1>3. /\ sends' = [sends EXCEPT ![Number(d)] = @ + 1]
      /\ arrived' = IF o \in {"ok", "unsure"} THEN arrived \cup {Number(d)} ELSE arrived
      /\ o \in {"ok", "permanent", "passing", "unsure"}
  BY DEF SendCalled, Outcomes
<1>4. /\ sends' \in [1..MaxAlerts -> Nat] /\ arrived' \subseteq 1..MaxAlerts
      /\ sends'[Number(d)] = attempt[d] + 1
      /\ \A n \in 1..MaxAlerts \ {Number(d)} : sends'[n] = sends[n]
  <2> DEFINE n == Number(d)
  <2>1. sends \in [1..MaxAlerts -> Nat] /\ arrived \subseteq 1..MaxAlerts
    BY DEF DeliveryInvariant, TypeOK
  <2>2. sends' = [sends EXCEPT ![n] = attempt[d] + 1]
    BY <1>2, <1>3
  <2> HIDE DEF n
  <2>3. arrived' \subseteq 1..MaxAlerts
    BY <1>1, <1>3, <2>1
  <2> QED  BY <1>1, <1>2, <2>1, <2>2, <2>3 DEF n
<1>5. AttemptsBounded'
  BY <1>1, <1>2, <1>4 DEF DeliveryInvariant, AttemptsBounded
<1> QED  BY <1>3, <1>4, <1>5

\* A delivery settled leaves the hand for one of the two sides
\* (dispatcher.go deliver).
LEMMA SettleKeeps ==
    ASSUME DeliveryInvariant, NEW d \in Deliverers, item[d] # None, NEW o, SendCalled(d, o),
           NEW ok \in BOOLEAN, Settle(d, ok), ok => o = "ok",
           UNCHANGED <<queue, ended, offered, refused>>
    PROVE  DeliveryInvariant'
<1> DEFINE n == Number(d)
<1>1. /\ delivered' = IF ok THEN delivered \cup {n} ELSE delivered
      /\ lost' = IF ok THEN lost ELSE lost \cup {n}
      /\ item' = [item EXCEPT ![d] = None]
      /\ attempt' = [attempt EXCEPT ![d] = 0]
      /\ phase' = [phase EXCEPT ![d] = "idle"]
  BY DEF Settle
<1>2. n \in 1..MaxAlerts /\ n \in InHand
  BY ItemType DEF DeliveryInvariant, InHand
<1>3. TypeOK'
  <2>1. /\ lost' \subseteq 1..MaxAlerts /\ delivered' \subseteq 1..MaxAlerts
        /\ item' \in [Deliverers -> Delivery \cup {None}]
        /\ attempt' \in [Deliverers -> 0..MaxAttempts]
        /\ phase' \in [Deliverers -> {"idle", "send", "wait", "last", "returned"}]
    <3> HIDE DEF n
    <3>1. 0 \in 0..MaxAttempts
      OBVIOUS
    <3> QED  BY <1>1, <1>2, <3>1 DEF DeliveryInvariant, TypeOK
  <2>2. sends' \in [1..MaxAlerts -> Nat] /\ arrived' \subseteq 1..MaxAlerts
    BY CallCounts
  <2> QED  BY <2>1, <2>2 DEF DeliveryInvariant, TypeOK
<1>4. item'[d] = None /\ \A e \in Deliverers \ {d} : Number(e)' = Number(e) /\ item'[e] = item[e]
  BY <1>1 DEF Number, DeliveryInvariant, TypeOK
<1>5. \A e \in Deliverers \ {d} : item[e] # None => Number(e) # n
  BY DEF DeliveryInvariant, Accounted
<1>6. InHand' = InHand \ {n}
  BY <1>4, <1>5 DEF InHand
<1>7. Queued' = Queued
  BY DEF Queued
<1>8. Accounted'
  <2>1. \A e, f \in Deliverers :
           e # f /\ item'[e] # None /\ item'[f] # None => Number(e)' # Number(f)'
    BY <1>4 DEF DeliveryInvariant, Accounted
  <2> HIDE DEF n
  <2> QED  BY <1>1, <1>2, <1>6, <1>7, <2>1 DEF DeliveryInvariant, Accounted
<1>9. SendsCounted'
  <2>1. n \notin Queued /\ n \in 1..offered
    BY <1>2 DEF DeliveryInvariant, Accounted
  <2>2. \A x \in Queued \cup (offered + 1)..MaxAlerts : x \in 1..MaxAlerts /\ x # n
    BY <2>1 DEF DeliveryInvariant, Accounted, TypeOK
  <2>3. \A e \in Deliverers \ {d} :
           item[e] # None => Number(e) \in 1..MaxAlerts \ {n} /\ attempt'[e] = attempt[e]
    BY <1>1, <1>5, ItemType DEF DeliveryInvariant, TypeOK
  <2> QED  BY <1>4, <1>7, <2>2, <2>3, CallCounts DEF DeliveryInvariant, SendsCounted
<1>10. HandsFull'
  BY <1>1, <1>4 DEF DeliveryInvariant, HandsFull, TypeOK
<1>11. NothingLostUntried'
  <2>1. \A x \in lost : x \in 1..MaxAlerts /\ x # n
    BY <1>2 DEF DeliveryInvariant, TypeOK, Accounted
  <2>2. sends'[n] > 0
    BY CallCounts DEF DeliveryInvariant, TypeOK
  <2> QED  BY <1>1, <2>1, <2>2, CallCounts DEF DeliveryInvariant, NothingLostUntried
<1> QED  BY <1>3, <1>8, <1>9, <1>10, <1>11, CallCounts DEF DeliveryInvariant

\* A failed attempt that is not the last one leaves the delivery in hand,
\* with one attempt more behind it (dispatcher.go deliver).
LEMMA RetryKeeps ==
    ASSUME DeliveryInvariant, NEW d \in Deliverers, item[d] # None, NEW o, SendCalled(d, o),
           ~ LastAttempt(d), attempt' = [attempt EXCEPT ![d] = @ + 1],
           phase' = [phase EXCEPT ![d] = "wait"],
           UNCHANGED <<queue, item, ended, offered, refused, lost, delivered>>
    PROVE  DeliveryInvariant'
<1> DEFINE n == Number(d)
<1>1. attempt[d] + 1 < MaxAttempts /\ attempt'[d] = attempt[d] + 1 /\ attempt[d] \in Nat
  BY DEF DeliveryInvariant, SendsCounted, LastAttempt, TypeOK
<1>2. n \in 1..MaxAlerts /\ n \in InHand
  BY ItemType DEF DeliveryInvariant, InHand
<1>3. TypeOK'
  <2>1. /\ attempt' \in [Deliverers -> 0..MaxAttempts]
        /\ phase' \in [Deliverers -> {"idle", "send", "wait", "last", "returned"}]
    BY <1>1 DEF DeliveryInvariant, TypeOK
  <2>2. sends' \in [1..MaxAlerts -> Nat] /\ arrived' \subseteq 1..MaxAlerts
    BY CallCounts
  <2> QED  BY <2>1, <2>2 DEF DeliveryInvariant, TypeOK
<1>4. Accounted'
  BY DEF DeliveryInvariant, Accounted, InHand, Queued, Number
<1>5. SendsCounted'
  <2>1. n \notin Queued /\ n \in 1..offered
    BY <1>2 DEF DeliveryInvariant, Accounted
  <2>2. \A x \in Queued \cup (offered + 1)..MaxAlerts : x \in 1..MaxAlerts /\ x # n
    BY <2>1 DEF DeliveryInvariant, Accounted, TypeOK
  <2>3. \A e \in Deliverers \ {d} :
           item[e] # None => Number(e) \in 1..MaxAlerts \ {n} /\ attempt'[e] = attempt[e]
    BY ItemType DEF DeliveryInvariant, TypeOK, Accounted
  <2>4. Queued' = Queued /\ \A e \in Deliverers : Number(e)' = Number(e)
    BY DEF Queued, Number
  <2> QED  BY <1>1, <2>2, <2>3, <2>4, CallCounts DEF DeliveryInvariant, SendsCounted
<1>6. HandsFull'
  BY DEF DeliveryInvariant, HandsFull, TypeOK
<1>7. NothingLostUntried'
  <2>1. \A x \in lost : x \in 1..MaxAlerts /\ x # n
    BY <1>2 DEF DeliveryInvariant, TypeOK, Accounted
  <2> QED  BY <2>1, CallCounts DEF DeliveryInvariant, NothingLostUntried
<1> QED  BY <1>3, <1>4, <1>5, <1>6, <1>7, CallCounts DEF DeliveryInvariant

\* Every step accounts for every alert (dispatcher.go Enqueue, Run).
LEMMA DeliveryStep == DeliveryInvariant /\ [Next]_vars => DeliveryInvariant'
<1> SUFFICES ASSUME DeliveryInvariant, [Next]_vars PROVE DeliveryInvariant'
  OBVIOUS
<1>1. ASSUME NEW c \in Channels, Enqueue(c) PROVE DeliveryInvariant'
  BY <1>1, EnqueueKeeps
<1>2. CASE End \/ UNCHANGED vars
  <2>1. /\ UNCHANGED <<queue, item, attempt, phase, offered, refused, lost, delivered,
                       sends, arrived>>
        /\ ended' \in BOOLEAN
    BY <1>2 DEF End, vars, DeliveryInvariant, TypeOK
  <2>2. TypeOK' /\ HandsFull' /\ AttemptsBounded' /\ NothingLostUntried'
    BY <2>1 DEF DeliveryInvariant, TypeOK, HandsFull, AttemptsBounded, NothingLostUntried
  <2>3. Accounted' /\ SendsCounted'
    BY <2>1 DEF DeliveryInvariant, Accounted, SendsCounted, InHand, Queued, Number
  <2> QED  BY <2>2, <2>3 DEF DeliveryInvariant
<1>3. ASSUME NEW d \in Deliverers, Step(d) PROVE DeliveryInvariant'
  <2>1. CASE Take(d)
    BY <2>1, TakeKeeps
  <2>2. CASE Return(d) \/ Wait(d)
    BY <2>2, MoveKeeps
  <2>3. CASE Send(d)
    <3>1. item[d] # None
      BY <2>3 DEF Send, DeliveryInvariant, HandsFull
    <3>2. PICK o \in Outcomes(item[d].channel) :
             /\ SendCalled(d, o)
             /\ \/ o = "ok" /\ Settle(d, TRUE)
                \/ Settle(d, FALSE)
                \/ /\ ~ LastAttempt(d)
                   /\ attempt' = [attempt EXCEPT ![d] = @ + 1]
                   /\ phase' = [phase EXCEPT ![d] = "wait"]
                   /\ UNCHANGED <<item, delivered, lost>>
      BY <2>3 DEF Send
    <3>3. UNCHANGED <<queue, ended, offered, refused>>
      BY <2>3 DEF Send
    <3> QED  BY <3>1, <3>2, <3>3, SettleKeeps, RetryKeeps
  <2>4. CASE LastSend(d)
    <3>1. item[d] # None
      BY <2>4 DEF LastSend, DeliveryInvariant, HandsFull
    <3>2. PICK o \in Outcomes(item[d].channel) : SendCalled(d, o) /\ Settle(d, o = "ok")
      BY <2>4 DEF LastSend
    <3>3. UNCHANGED <<queue, ended, offered, refused>>
      BY <2>4 DEF LastSend
    <3> QED  BY <3>1, <3>2, <3>3, SettleKeeps
  <2> QED  BY <1>3, <2>1, <2>2, <2>3, <2>4 DEF Step
<1> QED  BY <1>1, <1>2, <1>3 DEF Next

\* What every alert went through is known at any time
\* (dispatcher.go Enqueue, work, deliver, drain).
THEOREM Invariance == Spec => []DeliveryInvariant
<1> QED  BY InitInvariant, DeliveryStep, PTL DEF Spec

\* Every alert offered is in one place, and in one only
\* (dispatcher.go Enqueue, work, deliver, drain).
THEOREM EveryAlertAccounted == Spec => []Accounted
<1>1. DeliveryInvariant => Accounted
  BY DEF DeliveryInvariant
<1> QED  BY <1>1, Invariance, PTL

\* No destination is called more often than allowed (dispatcher.go deliver).
THEOREM AttemptsStayBounded == Spec => []AttemptsBounded
<1>1. DeliveryInvariant => AttemptsBounded
  BY DEF DeliveryInvariant
<1> QED  BY <1>1, Invariance, PTL

\* What is counted as delivered did arrive, and what is given up on was tried
\* (dispatcher.go deliver).
THEOREM OutcomesAreTrue == Spec => []NothingLostUntried
<1>1. DeliveryInvariant => NothingLostUntried
  BY DEF DeliveryInvariant
<1> QED  BY <1>1, Invariance, PTL

-----------------------------------------------------------------------------
(***************************************************************************)
(* How one alert leaves by a channel: the conversation, its refusals, and  *)
(* what may be said in it.                                                 *)
(***************************************************************************)
Dlv == INSTANCE Delivery

\* No configuration and no code is an absence, who reads an e-mail is a list,
\* and a token is for ntfy alone (notifier/ntfy.go, NtfyConfig).
DeliverySorts ==
    /\ None \notin Configs /\ None \notin Codes /\ Codes \subseteq Nat
    /\ \A c \in Configs : /\ Dlv!Mail(c) => c.to \in Seq(Dlv!Readers(c))
                          /\ c.kind \notin {"email", "ntfy"} => ~ c.token

Opened == {"auth", "mail", "rcpt", "data", "write", "quit"}
Speaking == {"dial", "greeting", "starttls", "post"} \cup Opened
Silence == [step: {"idle", "waiting"}, once: BOOLEAN]
People == UNION {Dlv!Readers(c) : c \in Configs}
Conversation == [step: Speaking, once: BOOLEAN, secure: BOOLEAN, next: Nat,
                 accepted: SUBSET People, hopeless: BOOLEAN, later: BOOLEAN,
                 plain: BOOLEAN, away: BOOLEAN, bodiless: BOOLEAN]

DeliveryShapes ==
    /\ channel \in Configs \cup {None} /\ talk \in Silence \cup Conversation
    /\ lost \in Nat /\ tries \in Nat
    /\ channel = None => /\ talk.step = "idle" /\ result = "none" /\ clear = {} /\ ~ pinged
                         /\ got \in [{} -> Nat]
    /\ channel # None => Dlv!Accepts(channel) /\ got \in [Dlv!Readers(channel) -> Nat]

\* What the conversation t of channel c has said, and has not.
SpeaksRightly(t, c) ==
    /\ t.step = "post" <=> ~ Dlv!Mail(c)
    /\ t.step \in Opened /\ c.security # "none" => t.secure
    /\ t.step = "greeting" /\ c.security = "tls" => t.secure
    /\ t.accepted \subseteq Dlv!Readers(c)
    /\ t.step \in {"dial", "greeting", "starttls", "auth", "mail"} => t.next = 1
    /\ t.step = "rcpt" => t.next \in DOMAIN c.to
    /\ t.step \in {"data", "write", "quit"} => t.accepted # {}

\* An alert is in course until it is delivered or dropped; only a message that
\* was accepted has been received with nothing lost.
InCourse ==
    /\ talk.step = "waiting" => ~ talk.once
    /\ talk.step # "idle" => result = "none"
    /\ talk \in Conversation => SpeaksRightly(talk, channel)
    /\ talk.step = "rcpt" => "broken" \notin heard /\ ("later" \in heard => talk.later)
    /\ talk.step \notin {"idle", "quit"} \/ result = "dropped" => \A r \in DOMAIN got : got[r] <= lost
    /\ talk.step = "quit" => \E r \in DOMAIN got : got[r] > 0

MessageInvariant ==
    /\ DeliveryShapes /\ InCourse
    /\ Dlv!NothingInTheClear /\ Dlv!NoSecondCopy /\ Dlv!GivesUpOnlyWhenHopeless /\ Dlv!TellsWhatItMay

\* Where there is talk there is a channel, that was accepted.
LEMMA TalkHasChannel ==
    ASSUME DeliverySorts, MessageInvariant, talk.step \in Speaking
    PROVE  /\ channel \in Configs /\ channel # None /\ Dlv!Accepts(channel)
           /\ talk \in Conversation /\ SpeaksRightly(talk, channel)
           /\ result = "none" /\ lost \in Nat
           /\ got \in [Dlv!Readers(channel) -> Nat]
BY DEF DeliverySorts, MessageInvariant, DeliveryShapes, InCourse, Speaking, Opened, Silence

\* An attempt fails: the alert waits for another, or is given up
\* (dispatcher.go, deliver).
LEMMA AttemptFails ==
    ASSUME DeliverySorts, MessageInvariant, talk.step \in Speaking, NEW hopeless \in BOOLEAN,
           Dlv!Fails(hopeless), Dlv!Keep, lost' \in Nat, got' \in [Dlv!Readers(channel) -> Nat],
           \A r \in DOMAIN got' : got'[r] <= lost',
           hopeless => "refused" \in heard' /\ heard' \cap {"later", "broken"} = {},
           Dlv!NothingInTheClear', Dlv!TellsWhatItMay'
    PROVE  MessageInvariant'
<1>1. /\ channel' = channel /\ tries' = tries /\ channel \in Configs /\ channel # None
      /\ Dlv!Accepts(channel) /\ talk.once \in BOOLEAN /\ result = "none" /\ tries \in Nat
  BY TalkHasChannel DEF Dlv!Keep, Conversation, MessageInvariant, DeliveryShapes
<1>2. CASE hopeless \/ tries >= MaxAttempts \/ talk.once
  <2>1. talk' = [step |-> "idle", once |-> talk.once] /\ result' = "dropped"
    BY <1>2 DEF Dlv!Fails, Dlv!Idle
  <2>2. talk' \in Silence /\ talk'.step = "idle" /\ talk'.once = talk.once
    BY <1>1, <2>1 DEF Silence
  <2>3. talk' \notin Conversation
    BY <2>2 DEF Conversation, Speaking, Opened
  <2>4. DeliveryShapes'
    BY <1>1, <2>2 DEF DeliveryShapes, Dlv!Accepts, Dlv!Readers, Dlv!Mail
  <2>5. InCourse'
    BY <2>1, <2>2, <2>3 DEF InCourse
  <2>6. Dlv!NoSecondCopy'
    <3>1. \A r \in DOMAIN got' : got'[r] \in Nat
      OBVIOUS
    <3> QED  BY <2>1, <3>1 DEF Dlv!NoSecondCopy
  <2>7. Dlv!GivesUpOnlyWhenHopeless'
    BY <1>1, <1>2, <2>2 DEF Dlv!GivesUpOnlyWhenHopeless
  <2> QED  BY <2>4, <2>5, <2>6, <2>7 DEF MessageInvariant
<1>3. CASE ~ (hopeless \/ tries >= MaxAttempts \/ talk.once)
  <2>1. talk' = [step |-> "waiting", once |-> FALSE] /\ result' = "none"
    BY <1>1, <1>3 DEF Dlv!Fails
  <2>2. talk' \in Silence /\ talk'.step = "waiting" /\ talk'.once = FALSE
    BY <2>1 DEF Silence
  <2>3. talk' \notin Conversation
    BY <2>2 DEF Conversation, Speaking, Opened
  <2>4. DeliveryShapes'
    BY <1>1, <2>2 DEF DeliveryShapes, Dlv!Accepts, Dlv!Readers, Dlv!Mail
  <2>5. InCourse'
    BY <2>1, <2>2, <2>3 DEF InCourse
  <2>6. Dlv!NoSecondCopy' /\ Dlv!GivesUpOnlyWhenHopeless'
    BY <2>1 DEF Dlv!NoSecondCopy, Dlv!GivesUpOnlyWhenHopeless
  <2> QED  BY <2>4, <2>5, <2>6 DEF MessageInvariant
<1> QED  BY <1>2, <1>3

\* An attempt goes on: nobody has received it yet.
LEMMA AttemptGoesOn ==
    ASSUME DeliverySorts, MessageInvariant, talk.step \in Speaking, talk.step # "quit",
           Dlv!Keep, UNCHANGED <<got, lost, told, pinged>>, result' = result,
           talk' \in Conversation, talk'.step # "quit", SpeaksRightly(talk', channel),
           talk'.step = "rcpt" => "broken" \notin heard' /\ ("later" \in heard' => talk'.later),
           Dlv!NothingInTheClear'
    PROVE  MessageInvariant'
<1>1. /\ channel' = channel /\ tries' = tries /\ channel \in Configs /\ channel # None
      /\ Dlv!Accepts(channel) /\ result = "none" /\ lost \in Nat
      /\ got \in [Dlv!Readers(channel) -> Nat] /\ tries \in Nat
  BY TalkHasChannel DEF Dlv!Keep, MessageInvariant, DeliveryShapes
<1>2. \A r \in DOMAIN got : got[r] <= lost
  BY DEF MessageInvariant, InCourse, Speaking, Opened
<1>3. talk'.step \in Speaking /\ talk'.step \notin {"idle", "waiting"}
  BY DEF Conversation, Speaking, Opened
<1>4. DeliveryShapes'
  BY <1>1, <1>3 DEF DeliveryShapes, Dlv!Accepts, Dlv!Readers, Dlv!Mail
<1>5. InCourse'
  BY <1>1, <1>2, <1>3 DEF InCourse, SpeaksRightly, Dlv!Readers, Dlv!Mail
<1>6. Dlv!NoSecondCopy' /\ Dlv!GivesUpOnlyWhenHopeless' /\ Dlv!TellsWhatItMay'
  BY <1>1, <1>2 DEF Dlv!NoSecondCopy, Dlv!GivesUpOnlyWhenHopeless, Dlv!TellsWhatItMay, MessageInvariant
<1> QED  BY <1>4, <1>5, <1>6 DEF MessageInvariant

\* A configuration is stored if it is accepted (handleCreateChannel).
LEMMA ChannelIsStored ==
    ASSUME DeliverySorts, MessageInvariant, NEW c \in Configs, Dlv!Submit(c)
    PROVE  MessageInvariant'
<1>1. /\ channel = None /\ channel' = c /\ Dlv!Accepts(c) /\ got' = [r \in Dlv!Readers(c) |-> 0]
      /\ UNCHANGED <<talk, tries, result, lost, heard, clear, told, pinged>> /\ channel' # None
  BY DEF Dlv!Submit, DeliverySorts
<1>2. /\ talk.step = "idle" /\ result = "none" /\ clear = {} /\ ~ pinged
      /\ talk \in Silence \cup Conversation /\ lost \in Nat /\ tries \in Nat
  BY <1>1 DEF MessageInvariant, DeliveryShapes
<1>3. talk \notin Conversation
  BY <1>2 DEF Conversation, Speaking, Opened
<1>4. got' \in [Dlv!Readers(c) -> Nat] /\ \A r \in DOMAIN got' : got'[r] = 0
  BY <1>1
<1>5. Dlv!Accepts(channel)' /\ Dlv!Readers(channel)' = Dlv!Readers(c)
  BY <1>1 DEF Dlv!Accepts, Dlv!Readers, Dlv!Mail
<1>6. DeliveryShapes'
  BY <1>1, <1>2, <1>4, <1>5 DEF DeliveryShapes
<1>7. InCourse'
  BY <1>1, <1>2, <1>3 DEF InCourse
<1>8. Dlv!NothingInTheClear' /\ Dlv!GivesUpOnlyWhenHopeless'
  BY <1>1, <1>2 DEF Dlv!NothingInTheClear, Dlv!GivesUpOnlyWhenHopeless
<1>9. Dlv!NoSecondCopy' /\ Dlv!TellsWhatItMay'
  BY <1>1, <1>2, <1>4 DEF Dlv!NoSecondCopy, Dlv!TellsWhatItMay, MessageInvariant
<1> QED  BY <1>6, <1>7, <1>8, <1>9 DEF MessageInvariant

\* A conversation begins with nothing said (email.go, connect).
LEMMA IsDialled ==
    ASSUME DeliverySorts, MessageInvariant, NEW once \in BOOLEAN, channel # None
    PROVE  /\ Dlv!Dialled(once) \in Conversation /\ SpeaksRightly(Dlv!Dialled(once), channel)
           /\ Dlv!Dialled(once).step \in {"dial", "post"}
<1>1. Dlv!Dialled(once) = [step |-> IF Dlv!Mail(channel) THEN "dial" ELSE "post", once |-> once,
          secure |-> FALSE, next |-> 1, accepted |-> {}, hopeless |-> FALSE, later |-> FALSE,
          plain |-> ~ Dlv!Mail(channel) /\ channel.url = "http", away |-> FALSE, bodiless |-> FALSE]
  BY DEF Dlv!Dialled
<1>2. Dlv!Dialled(once) \in Conversation
  BY <1>1 DEF Conversation, Speaking
<1>3. /\ Dlv!Dialled(once).step = (IF Dlv!Mail(channel) THEN "dial" ELSE "post")
      /\ Dlv!Dialled(once).accepted = {} /\ Dlv!Dialled(once).next = 1
  BY <1>1
<1> QED  BY <1>2, <1>3 DEF SpeaksRightly, Opened

LEMMA AlertBegins ==
    ASSUME DeliverySorts, MessageInvariant, NEW e, NEW once \in BOOLEAN, Dlv!Begin(e, once)
    PROVE  MessageInvariant'
<1>1. /\ channel # None /\ channel' = channel /\ clear' = clear /\ talk' = Dlv!Dialled(once)
      /\ result' = "none" /\ got' = [r \in DOMAIN got |-> 0] /\ lost' = 0
      /\ told' = "nothing" /\ pinged' = FALSE /\ tries' = 1
  BY DEF Dlv!Begin
<1>2. channel \in Configs /\ Dlv!Accepts(channel) /\ got \in [Dlv!Readers(channel) -> Nat]
  BY <1>1 DEF MessageInvariant, DeliveryShapes
<1>3. /\ talk' \in Conversation /\ SpeaksRightly(talk', channel) /\ talk'.step \in {"dial", "post"}
  BY <1>1, IsDialled
<1>4. got' \in [Dlv!Readers(channel) -> Nat] /\ \A r \in DOMAIN got' : got'[r] = 0
  BY <1>1, <1>2
<1>5. DeliveryShapes'
  <2>1. /\ Dlv!Accepts(channel)' /\ Dlv!Readers(channel)' = Dlv!Readers(channel) /\ channel' # None
    BY <1>1, <1>2 DEF Dlv!Accepts, Dlv!Readers, Dlv!Mail
  <2>2. /\ channel' \in Configs /\ talk' \in Conversation /\ lost' \in Nat /\ tries' \in Nat
        /\ got' \in [Dlv!Readers(channel)' -> Nat]
    BY <1>1, <1>2, <1>3, <1>4, <2>1
  <2> QED  BY <2>1, <2>2 DEF DeliveryShapes
<1>6. InCourse'
  BY <1>1, <1>3, <1>4 DEF InCourse, SpeaksRightly, Dlv!Readers, Dlv!Mail
<1>7. Dlv!NothingInTheClear' /\ Dlv!NoSecondCopy' /\ Dlv!GivesUpOnlyWhenHopeless' /\ Dlv!TellsWhatItMay'
  BY <1>1, <1>4 DEF Dlv!NothingInTheClear, Dlv!NoSecondCopy, Dlv!GivesUpOnlyWhenHopeless,
     Dlv!TellsWhatItMay, MessageInvariant, Dlv!Mail
<1> QED  BY <1>5, <1>6, <1>7 DEF MessageInvariant

LEMMA AlertIsRetried ==
    ASSUME DeliverySorts, MessageInvariant, NEW stopping \in BOOLEAN, Dlv!Retry(stopping)
    PROVE  MessageInvariant'
<1>1. /\ talk.step = "waiting" /\ talk' = Dlv!Dialled(stopping)
      /\ tries' = tries + 1 /\ UNCHANGED <<channel, result, got, lost, clear, told, pinged>>
  BY DEF Dlv!Retry, Dlv!ghosts
<1>2. /\ channel \in Configs /\ channel # None /\ Dlv!Accepts(channel)
      /\ got \in [Dlv!Readers(channel) -> Nat] /\ lost \in Nat /\ tries \in Nat /\ result = "none"
      /\ \A r \in DOMAIN got : got[r] <= lost
  BY <1>1 DEF MessageInvariant, DeliveryShapes, InCourse
<1>3. /\ talk' \in Conversation /\ SpeaksRightly(talk', channel) /\ talk'.step \in {"dial", "post"}
  BY <1>1, <1>2, IsDialled
<1>4. DeliveryShapes'
  <2>1. lost' \in Nat /\ tries' \in Nat
    BY <1>1, <1>2
  <2> QED  BY <1>1, <1>2, <1>3, <2>1 DEF DeliveryShapes, Dlv!Accepts, Dlv!Readers, Dlv!Mail
<1>5. InCourse'
  BY <1>1, <1>2, <1>3 DEF InCourse, SpeaksRightly, Dlv!Readers, Dlv!Mail
<1>6. Dlv!NothingInTheClear' /\ Dlv!NoSecondCopy' /\ Dlv!GivesUpOnlyWhenHopeless' /\ Dlv!TellsWhatItMay'
  BY <1>1, <1>2 DEF Dlv!NothingInTheClear, Dlv!NoSecondCopy, Dlv!GivesUpOnlyWhenHopeless,
     Dlv!TellsWhatItMay, MessageInvariant, Dlv!Mail
<1> QED  BY <1>4, <1>5, <1>6 DEF MessageInvariant

\* What does not cross the network, or crosses it by a safe connection.
LEMMA ClearStays ==
    ASSUME DeliverySorts, MessageInvariant, channel' = channel, clear' = clear
    PROVE  Dlv!NothingInTheClear'
BY DEF MessageInvariant, Dlv!NothingInTheClear, Dlv!Mail

LEMMA TellsTheSame ==
    ASSUME DeliverySorts, MessageInvariant, UNCHANGED <<channel, told, pinged>>
    PROVE  Dlv!TellsWhatItMay'
BY DEF MessageInvariant, Dlv!TellsWhatItMay

\* An answer that ends the attempt, with nothing received of it.
LEMMA AnswerFails ==
    ASSUME DeliverySorts, MessageInvariant, talk.step \in Speaking, talk.step # "quit",
           NEW hopeless \in BOOLEAN, Dlv!Fails(hopeless), Dlv!Keep,
           UNCHANGED <<got, lost, told, pinged>>, Dlv!NothingInTheClear',
           hopeless => "refused" \in heard' /\ heard' \cap {"later", "broken"} = {}
    PROVE  MessageInvariant'
<1>1. lost' \in Nat /\ got' \in [Dlv!Readers(channel) -> Nat]
  BY TalkHasChannel
<1>2. \A r \in DOMAIN got' : got'[r] <= lost'
  BY DEF MessageInvariant, InCourse, Speaking, Opened
<1>3. Dlv!TellsWhatItMay'
  BY TellsTheSame DEF Dlv!Keep
<1> QED  BY <1>1, <1>2, <1>3, AttemptFails

\* The same, of the answer to one step.
LEMMA StepFails ==
    ASSUME DeliverySorts, MessageInvariant, talk.step \in Speaking \ {"quit", "rcpt"},
           NEW reply, Dlv!Fails(Dlv!Hopeless(reply)), Dlv!Keep, Dlv!Hears(reply),
           UNCHANGED <<got, lost, told, pinged>>, Dlv!NothingInTheClear'
    PROVE  MessageInvariant'
<1>1. heard' = {reply}
  BY DEF Dlv!Hears
<1>2. Dlv!Hopeless(reply) \in BOOLEAN /\ (Dlv!Hopeless(reply) => reply = "refused")
  BY DEF Dlv!Hopeless
<1> HIDE DEF Dlv!Hopeless
<1> QED  BY <1>1, <1>2, AnswerFails

\* The connection (email.go, connect).
LEMMA ServerIsDialled ==
    ASSUME DeliverySorts, MessageInvariant, NEW reply, Dlv!Dial(reply)
    PROVE  MessageInvariant'
<1>1. /\ talk.step = "dial" /\ Dlv!Keep /\ UNCHANGED <<got, lost, clear, told, pinged>> /\ channel' = channel
  BY DEF Dlv!Dial, Dlv!ghosts, Dlv!Keep
<1>2. talk.step \in Speaking /\ talk.step # "quit" /\ Dlv!NothingInTheClear'
  BY <1>1, ClearStays DEF Speaking
<1>3. CASE reply = "ok"
  <2>1. talk' = [talk EXCEPT !.step = "greeting", !.secure = channel.security = "tls"] /\ result' = result
    BY <1>3 DEF Dlv!Dial
  <2>2. talk \in Conversation /\ SpeaksRightly(talk, channel)
    BY <1>2, TalkHasChannel
  <2>3. /\ talk' \in Conversation /\ talk'.step = "greeting" /\ talk'.accepted = talk.accepted
        /\ talk'.next = talk.next /\ talk'.secure = (channel.security = "tls")
    BY <2>1, <2>2 DEF Conversation, Speaking
  <2>4. SpeaksRightly(talk', channel)
    BY <1>1, <2>2, <2>3 DEF SpeaksRightly, Opened
  <2> QED  BY <1>1, <1>2, <2>1, <2>3, <2>4, AttemptGoesOn
<1>4. CASE reply # "ok"
  BY <1>1, <1>2, <1>4, AnswerFails DEF Dlv!Dial
<1> QED  BY <1>3, <1>4

\* One more step of a conversation that is as safe as it ought to be.
LEMMA StepGoesOn ==
    ASSUME DeliverySorts, MessageInvariant, talk.step \in Speaking \ {"post", "quit", "rcpt"},
           NEW step \in {"starttls", "auth", "mail", "data", "write"}, Dlv!Goes(step), Dlv!Keep,
           UNCHANGED <<got, lost, told, pinged>>, Dlv!NothingInTheClear',
           step \in Opened /\ channel.security # "none" => talk.secure,
           IF step \in {"data", "write"} THEN talk.accepted # {} ELSE talk.next = 1
    PROVE  MessageInvariant'
<1>1. talk' = [talk EXCEPT !.step = step] /\ result' = result
  BY DEF Dlv!Goes
<1>2. talk \in Conversation /\ SpeaksRightly(talk, channel)
  BY TalkHasChannel
<1>3. step \in Speaking /\ step \notin {"post", "quit", "rcpt", "greeting"}
  BY DEF Speaking, Opened
<1>4. /\ talk' \in Conversation /\ talk'.step = step /\ talk'.secure = talk.secure
      /\ talk'.accepted = talk.accepted /\ talk'.next = talk.next
  BY <1>1, <1>2, <1>3 DEF Conversation
<1>5. SpeaksRightly(talk', channel)
  BY <1>2, <1>3, <1>4 DEF SpeaksRightly
<1> QED  BY <1>1, <1>3, <1>4, <1>5, AttemptGoesOn

\* The first commands are safe where the server ought to encrypt.
LEMMA ServerGreets ==
    ASSUME DeliverySorts, MessageInvariant, NEW reply, Dlv!Greeting(reply)
    PROVE  MessageInvariant'
<1>1. /\ talk.step = "greeting" /\ Dlv!Keep /\ UNCHANGED <<got, lost, clear, told, pinged>>
      /\ channel' = channel /\ Dlv!Hears(reply)
  BY DEF Dlv!Greeting, Dlv!ghosts, Dlv!Keep
<1>2. talk.step \in Speaking \ {"post", "quit", "rcpt"} /\ Dlv!NothingInTheClear'
  BY <1>1, ClearStays DEF Speaking
<1>3. /\ SpeaksRightly(talk, channel) /\ Dlv!Accepts(channel) /\ channel \in Configs
  BY <1>2, TalkHasChannel
<1>4. CASE reply = "ok"
  <2> PICK step : step = IF channel.security = "starttls" THEN "starttls" ELSE Dlv!Opening
    OBVIOUS
  <2>1. Dlv!Goes(step)
    BY <1>4 DEF Dlv!Greeting, Dlv!Goes
  <2>2. step \in {"starttls", "auth", "mail"}
    BY DEF Dlv!Opening
  <2>3. Dlv!Mail(channel)
    BY <1>1, <1>3 DEF SpeaksRightly
  <2>4. channel.security \in {"starttls", "tls", "none"}
    BY <1>3, <2>3 DEF Dlv!Accepts, Dlv!AcceptsMail, Dlv!Mail
  <2>5. (step \in Opened /\ channel.security # "none" => talk.secure) /\ talk.next = 1
    BY <1>1, <1>3, <2>4 DEF SpeaksRightly, Opened
  <2> QED  BY <1>1, <1>2, <2>1, <2>2, <2>5, StepGoesOn
<1>5. CASE reply # "ok"
  <2>1. Dlv!Fails(Dlv!Hopeless(reply)) /\ talk.step \in Speaking \ {"quit", "rcpt"}
    BY <1>2, <1>5 DEF Dlv!Greeting
  <2> QED  BY <1>1, <1>2, <2>1, StepFails
<1> QED  BY <1>4, <1>5

\* A server that does not encrypt is left (email.go, connect).
LEMMA ServerEncrypts ==
    ASSUME DeliverySorts, MessageInvariant, NEW offers \in BOOLEAN, NEW reply,
           Dlv!StartTLS(offers, reply)
    PROVE  MessageInvariant'
<1>1. /\ talk.step = "starttls" /\ Dlv!Keep /\ UNCHANGED <<got, lost, clear, told, pinged>>
      /\ channel' = channel
  BY DEF Dlv!StartTLS, Dlv!ghosts, Dlv!Keep
<1>2. talk.step \in Speaking /\ talk.step # "quit" /\ Dlv!NothingInTheClear'
  BY <1>1, ClearStays DEF Speaking
<1>3. CASE offers /\ reply = "ok"
  <2>1. talk' = [talk EXCEPT !.step = Dlv!Opening, !.secure = TRUE] /\ result' = result
    BY <1>3 DEF Dlv!StartTLS
  <2>2. talk \in Conversation /\ SpeaksRightly(talk, channel)
    BY <1>2, TalkHasChannel
  <2>3. Dlv!Opening \in {"auth", "mail"}
    BY DEF Dlv!Opening
  <2>4. /\ talk' \in Conversation /\ talk'.step \in {"auth", "mail"} /\ talk'.accepted = talk.accepted
        /\ talk'.secure = TRUE /\ talk'.next = talk.next
    BY <2>1, <2>2, <2>3 DEF Conversation, Speaking, Opened
  <2>5. SpeaksRightly(talk', channel)
    BY <1>1, <2>2, <2>4 DEF SpeaksRightly
  <2>6. talk'.step \notin {"quit", "rcpt"}
    BY <2>4
  <2> QED  BY <1>1, <1>2, <2>1, <2>4, <2>5, <2>6, AttemptGoesOn
<1>4. CASE ~ (offers /\ reply = "ok")
  <2>1. Dlv!Fails(FALSE)
    BY <1>4 DEF Dlv!StartTLS, Dlv!MustOffer
  <2> QED  BY <1>1, <1>2, <2>1, AnswerFails
<1> QED  BY <1>3, <1>4

\* A password is said by an encrypted connection alone (email.go, auth).
LEMMA UserIsAuthenticated ==
    ASSUME DeliverySorts, MessageInvariant, NEW reply, Dlv!Auth(reply)
    PROVE  MessageInvariant'
<1>1. /\ talk.step = "auth" /\ Dlv!Keep /\ UNCHANGED <<got, lost, told, pinged>>
      /\ channel' = channel /\ Dlv!Hears(reply)
  BY DEF Dlv!Auth, Dlv!Keep
<1>2. clear' = clear
  BY DEF Dlv!Auth, Dlv!Crosses
<1>3. /\ talk.step \in Speaking \ {"post", "quit", "rcpt"} /\ talk.step \in Opened
      /\ talk.step \in Speaking \ {"quit", "rcpt"} /\ Dlv!NothingInTheClear'
  BY <1>1, <1>2, ClearStays DEF Speaking, Opened
<1>4. SpeaksRightly(talk, channel)
  BY <1>3, TalkHasChannel
<1>5. CASE reply = "ok"
  <2>1. Dlv!Goes("mail")
    BY <1>5 DEF Dlv!Auth
  <2>2. (channel.security # "none" => talk.secure) /\ talk.next = 1
    BY <1>1, <1>3, <1>4 DEF SpeaksRightly
  <2> QED  BY <1>1, <1>3, <2>1, <2>2, StepGoesOn
<1>6. CASE reply # "ok"
  BY <1>1, <1>3, <1>6, StepFails DEF Dlv!Auth
<1> QED  BY <1>5, <1>6

\* The sender: the recipients are next, and nothing they said is known yet.
LEMMA SenderIsSaid ==
    ASSUME DeliverySorts, MessageInvariant, NEW reply, Dlv!Sender(reply)
    PROVE  MessageInvariant'
<1>1. /\ talk.step = "mail" /\ Dlv!Keep /\ UNCHANGED <<got, lost, clear, told, pinged>>
      /\ channel' = channel /\ Dlv!Hears(reply)
  BY DEF Dlv!Sender, Dlv!ghosts, Dlv!Keep
<1>2. /\ talk.step \in Speaking \ {"quit", "rcpt"} /\ talk.step \in Opened /\ Dlv!NothingInTheClear'
  BY <1>1, ClearStays DEF Speaking, Opened
<1>3. /\ SpeaksRightly(talk, channel) /\ Dlv!Accepts(channel) /\ channel \in Configs
      /\ talk \in Conversation
  BY <1>2, TalkHasChannel
<1>4. CASE reply = "ok"
  <2>1. talk' = [talk EXCEPT !.step = "rcpt"] /\ result' = result /\ heard' = {"ok"}
    BY <1>1, <1>4 DEF Dlv!Sender, Dlv!Goes, Dlv!Hears
  <2>2. /\ talk' \in Conversation /\ talk'.step = "rcpt" /\ talk'.secure = talk.secure
        /\ talk'.accepted = talk.accepted /\ talk'.next = talk.next
    BY <1>3, <2>1 DEF Conversation, Speaking, Opened
  <2>3. Dlv!Mail(channel)
    BY <1>1, <1>3 DEF SpeaksRightly
  <2>4. talk.next \in DOMAIN channel.to
    <3>1. channel.to # <<>> /\ channel.to \in Seq(Dlv!Readers(channel))
      BY <1>3, <2>3 DEF Dlv!Accepts, Dlv!AcceptsMail, Dlv!Mail, DeliverySorts
    <3>2. talk.next = 1
      BY <1>1, <1>3 DEF SpeaksRightly
    <3> QED  BY <3>1, <3>2
  <2>5. SpeaksRightly(talk', channel)
    BY <1>2, <1>3, <2>2, <2>3, <2>4 DEF SpeaksRightly, Opened
  <2> QED  BY <1>1, <1>2, <2>1, <2>2, <2>5, AttemptGoesOn
<1>5. CASE reply # "ok"
  BY <1>1, <1>2, <1>5, StepFails DEF Dlv!Sender
<1> QED  BY <1>4, <1>5

\* One recipient answers: the attempt is given up for good only if each was
\* refused (email.go, recipients).
LEMMA RecipientAnswers ==
    ASSUME DeliverySorts, MessageInvariant, NEW reply \in Dlv!Replies, Dlv!Recipient(reply)
    PROVE  MessageInvariant'
<1> DEFINE t == [talk EXCEPT !.next = @ + 1,
                    !.accepted = IF reply = "ok" THEN @ \cup {channel.to[talk.next]} ELSE @,
                    !.hopeless = @ \/ Dlv!Hopeless(reply), !.later = @ \/ reply = "later"]
<1>1. /\ talk.step = "rcpt" /\ Dlv!Keep /\ UNCHANGED <<got, lost, clear, told, pinged>>
      /\ channel' = channel /\ heard' = heard \cup {reply}
      /\ IF reply = "broken" THEN Dlv!Fails(FALSE)
         ELSE IF t.next <= Len(channel.to) THEN talk' = t /\ result' = result
         ELSE IF Dlv!Verdict(t, reply) = "go on" THEN talk' = [t EXCEPT !.step = "data"] /\ result' = result
         ELSE Dlv!Fails(Dlv!Verdict(t, reply) = "hopeless")
  BY DEF Dlv!Recipient, Dlv!ghosts, Dlv!Keep, Dlv!Hears
<1>2. /\ talk.step \in Speaking /\ talk.step # "quit" /\ talk.step \in Opened /\ Dlv!NothingInTheClear'
  BY <1>1, ClearStays DEF Speaking, Opened
<1>3. /\ SpeaksRightly(talk, channel) /\ Dlv!Accepts(channel) /\ channel \in Configs
      /\ talk \in Conversation
  BY <1>2, TalkHasChannel
<1>4. /\ talk.next \in DOMAIN channel.to /\ Dlv!Mail(channel)
      /\ channel.to[talk.next] \in Dlv!Readers(channel) /\ talk.accepted \subseteq Dlv!Readers(channel)
      /\ Dlv!Readers(channel) \subseteq People
  BY <1>1, <1>3 DEF SpeaksRightly, Dlv!Readers, Dlv!Mail, People
<1>5. Len(channel.to) \in Nat /\ DOMAIN channel.to = 1..Len(channel.to)
  BY <1>3, <1>4 DEF DeliverySorts
<1>6. t \in Conversation
  <2>1. /\ talk.next \in Nat /\ talk.accepted \in SUBSET People
        /\ talk.hopeless \in BOOLEAN /\ talk.later \in BOOLEAN
    BY <1>3 DEF Conversation
  <2> PICK whom \in SUBSET People :
             whom = IF reply = "ok" THEN talk.accepted \cup {channel.to[talk.next]} ELSE talk.accepted
    BY <1>4, <2>1
  <2> PICK hopeless \in BOOLEAN : hopeless = (talk.hopeless \/ Dlv!Hopeless(reply))
    OBVIOUS
  <2> PICK later \in BOOLEAN : later = (talk.later \/ reply = "later")
    OBVIOUS
  <2>2. t = [step |-> talk.step, once |-> talk.once, secure |-> talk.secure, next |-> talk.next + 1,
             accepted |-> whom, hopeless |-> hopeless, later |-> later,
             plain |-> talk.plain, away |-> talk.away, bodiless |-> talk.bodiless]
    <3>1. t = [talk EXCEPT !.next = talk.next + 1, !.accepted = whom, !.hopeless = hopeless, !.later = later]
      BY Zenon
    <3> HIDE DEF t
    <3> QED  BY <1>3, <3>1 DEF Conversation
  <2> HIDE DEF t
  <2>3. /\ talk.step \in Speaking /\ talk.once \in BOOLEAN /\ talk.secure \in BOOLEAN
        /\ talk.plain \in BOOLEAN /\ talk.away \in BOOLEAN /\ talk.bodiless \in BOOLEAN
    BY <1>3 DEF Conversation
  <2>4. talk.next + 1 \in Nat
    BY <2>1
  <2> QED  BY <2>2, <2>3, <2>4 DEF Conversation
<1>7. /\ t.step = "rcpt" /\ t.secure = talk.secure /\ t.next = talk.next + 1
      /\ t.accepted = (IF reply = "ok" THEN talk.accepted \cup {channel.to[talk.next]} ELSE talk.accepted)
      /\ t.later <=> talk.later \/ reply = "later"
  BY <1>1, <1>3 DEF Conversation
<1> HIDE DEF t
<1>8. t.accepted \subseteq Dlv!Readers(channel) /\ (reply = "ok" => t.accepted # {})
  BY <1>4, <1>7
<1>9. "broken" \notin heard /\ ("later" \in heard => talk.later)
  BY <1>1 DEF MessageInvariant, InCourse
<1>10. CASE reply = "broken"
  BY <1>1, <1>2, <1>10, AnswerFails
<1>11. CASE reply # "broken" /\ t.next <= Len(channel.to)
  <2>1. talk' = t /\ result' = result
    BY <1>1, <1>11
  <2>2. t.next \in DOMAIN channel.to
    BY <1>5, <1>4, <1>7, <1>11
  <2>3. SpeaksRightly(talk', channel)
    BY <1>2, <1>3, <1>4, <1>7, <1>8, <2>1, <2>2 DEF SpeaksRightly, Opened
  <2>4. "broken" \notin heard' /\ ("later" \in heard' => talk'.later)
    BY <1>1, <1>7, <1>9, <1>11, <2>1
  <2> QED  BY <1>1, <1>2, <1>6, <1>7, <2>1, <2>3, <2>4, AttemptGoesOn
<1>12. CASE reply # "broken" /\ ~ (t.next <= Len(channel.to)) /\ t.accepted # {}
  <2>1. talk' = [t EXCEPT !.step = "data"] /\ result' = result
    BY <1>1, <1>12 DEF Dlv!Verdict
  <2>2. /\ talk' \in Conversation /\ talk'.step = "data" /\ talk'.secure = t.secure
        /\ talk'.accepted = t.accepted
    BY <1>6, <2>1 DEF Conversation, Speaking, Opened
  <2>3. SpeaksRightly(talk', channel)
    BY <1>2, <1>3, <1>4, <1>7, <1>8, <1>12, <2>2 DEF SpeaksRightly
  <2> QED  BY <1>1, <1>2, <2>1, <2>2, <2>3, AttemptGoesOn
<1>13. CASE reply # "broken" /\ ~ (t.next <= Len(channel.to)) /\ t.accepted = {}
  <2> PICK hopeless \in BOOLEAN : hopeless <=> Dlv!Verdict(t, reply) = "hopeless"
    OBVIOUS
  <2>1. Dlv!Verdict(t, reply) = (IF t.later THEN "later" ELSE "hopeless")
    BY <1>13 DEF Dlv!Verdict
  <2>2. Dlv!Fails(hopeless)
    BY <1>1, <1>13, <2>1 DEF Dlv!Fails
  <2>3. hopeless => ~ t.later
    BY <2>1
  <2>4. reply # "ok"
    BY <1>8, <1>13
  <2>5. reply \in {"later", "refused"}
    BY <1>13, <2>4 DEF Dlv!Replies
  <2>6. hopeless => "refused" \in heard' /\ heard' \cap {"later", "broken"} = {}
    BY <1>1, <1>7, <1>9, <2>3, <2>5
  <2> QED  BY <1>1, <1>2, <2>2, <2>6, AnswerFails
<1> QED  BY <1>10, <1>11, <1>12, <1>13

LEMMA DataIsAnnounced ==
    ASSUME DeliverySorts, MessageInvariant, NEW reply, Dlv!Data(reply)
    PROVE  MessageInvariant'
<1>1. /\ talk.step = "data" /\ Dlv!Keep /\ UNCHANGED <<got, lost, clear, told, pinged>>
      /\ channel' = channel /\ Dlv!Hears(reply)
  BY DEF Dlv!Data, Dlv!ghosts, Dlv!Keep
<1>2. /\ talk.step \in Speaking \ {"post", "quit", "rcpt"} /\ talk.step \in Opened
      /\ talk.step \in Speaking \ {"quit", "rcpt"} /\ Dlv!NothingInTheClear'
  BY <1>1, ClearStays DEF Speaking, Opened
<1>3. (channel.security # "none" => talk.secure) /\ talk.accepted # {}
  BY <1>1, <1>2, TalkHasChannel DEF SpeaksRightly
<1>4. CASE reply = "ok"
  <2>1. Dlv!Goes("write")
    BY <1>4 DEF Dlv!Data
  <2> QED  BY <1>1, <1>2, <1>3, <2>1, StepGoesOn
<1>5. CASE reply # "ok"
  BY <1>1, <1>2, <1>5, StepFails DEF Dlv!Data
<1> QED  BY <1>4, <1>5

\* What the message says is the template's text, or nothing of it
\* (notifier.go, renderWith).
LEMMA TextIsRendered ==
    ASSUME DeliverySorts, MessageInvariant, NEW whom, Dlv!Arrives(whom),
           channel' = channel, channel # None
    PROVE  Dlv!TellsWhatItMay'
<1>1. told' = Dlv!Text(channel, event) /\ pinged' = (pinged \/ Dlv!Pings(channel, event))
  BY DEF Dlv!Arrives
<1>2. Dlv!Text(channel, event) # "config"
  BY DEF Dlv!Text, Dlv!Executes, Dlv!Visible
<1>3. Dlv!Pings(channel, event) => channel.tmpl = "mention"
  BY DEF Dlv!Pings, Dlv!Text
<1> QED  BY <1>1, <1>2, <1>3 DEF Dlv!TellsWhatItMay, MessageInvariant

\* Each who is sent it has one more.
LEMMA CopiesArrive ==
    ASSUME NEW S, got \in [S -> Nat], NEW whom, Dlv!Arrives(whom)
    PROVE  /\ got' \in [S -> Nat]
           /\ \A r \in S : got'[r] <= got[r] + 1 /\ (r \in whom => got'[r] > 0)
BY DEF Dlv!Arrives

\* The end of DATA: the message crosses, and it or its answer may be lost.
LEMMA MessageIsWritten ==
    ASSUME DeliverySorts, MessageInvariant, NEW reply \in Dlv!Replies, Dlv!Write(reply)
    PROVE  MessageInvariant'
<1>1. /\ talk.step = "write" /\ Dlv!Keep /\ channel' = channel /\ Dlv!Hears(reply)
      /\ Dlv!Crosses("alert")
      /\ IF reply = "ok" THEN Dlv!Goes("quit") ELSE Dlv!Fails(Dlv!Hopeless(reply))
      /\ \/ reply \in {"ok", "broken"} /\ Dlv!Arrives(talk.accepted)
            /\ lost' = IF reply = "ok" THEN lost ELSE lost + 1
         \/ reply # "ok" /\ UNCHANGED <<got, lost, told, pinged>>
  BY DEF Dlv!Write, Dlv!Keep
<1>2. talk.step \in Speaking /\ talk.step \in Opened /\ talk.step # "quit"
  BY <1>1 DEF Speaking, Opened
<1>3. /\ SpeaksRightly(talk, channel) /\ talk \in Conversation /\ channel \in Configs
      /\ channel # None /\ Dlv!Accepts(channel) /\ result = "none" /\ lost \in Nat
      /\ got \in [Dlv!Readers(channel) -> Nat] /\ tries \in Nat /\ tries' = tries
  BY <1>1, <1>2, TalkHasChannel DEF Dlv!Keep, MessageInvariant, DeliveryShapes
<1>4. /\ Dlv!Mail(channel) /\ (channel.security # "none" => talk.secure)
      /\ talk.accepted # {} /\ talk.accepted \subseteq Dlv!Readers(channel)
  BY <1>1, <1>2, <1>3 DEF SpeaksRightly
<1>5. Dlv!NothingInTheClear'
  BY <1>1, <1>4 DEF Dlv!NothingInTheClear, Dlv!Crosses, MessageInvariant, Dlv!Mail
<1>6. \A r \in Dlv!Readers(channel) : got[r] <= lost
  BY <1>1, <1>3 DEF MessageInvariant, InCourse
<1>7. CASE Dlv!Arrives(talk.accepted) /\ reply = "ok"
  <2>1. /\ talk' = [talk EXCEPT !.step = "quit"] /\ result' = "none" /\ lost' = lost
    BY <1>1, <1>3, <1>7 DEF Dlv!Goes
  <2>2. /\ talk' \in Conversation /\ talk'.step = "quit" /\ talk'.secure = talk.secure
        /\ talk'.accepted = talk.accepted
    BY <1>3, <2>1 DEF Conversation, Speaking, Opened
  <2>3. /\ got' \in [Dlv!Readers(channel) -> Nat]
        /\ \A r \in Dlv!Readers(channel) : got'[r] <= got[r] + 1 /\ (r \in talk.accepted => got'[r] > 0)
    BY <1>3, <1>7, CopiesArrive
  <2>4. /\ \A r \in DOMAIN got' : got'[r] <= lost' + 1
        /\ \E r \in DOMAIN got' : got'[r] > 0
    BY <1>3, <1>4, <1>6, <2>1, <2>3
  <2>5. DeliveryShapes'
    BY <1>1, <1>3, <2>1, <2>2, <2>3 DEF DeliveryShapes, Dlv!Accepts, Dlv!Readers, Dlv!Mail
  <2>6. SpeaksRightly(talk', channel)
    BY <1>1, <1>2, <1>3, <1>4, <2>2 DEF SpeaksRightly
  <2>7. InCourse'
    BY <1>1, <2>1, <2>2, <2>4, <2>6 DEF InCourse, SpeaksRightly, Dlv!Readers, Dlv!Mail
  <2>8. Dlv!NoSecondCopy' /\ Dlv!GivesUpOnlyWhenHopeless'
    BY <2>1, <2>4 DEF Dlv!NoSecondCopy, Dlv!GivesUpOnlyWhenHopeless
  <2>9. Dlv!TellsWhatItMay'
    BY <1>1, <1>3, <1>7, TextIsRendered
  <2> QED  BY <1>5, <2>5, <2>7, <2>8, <2>9 DEF MessageInvariant
<1>8. CASE Dlv!Arrives(talk.accepted) /\ reply # "ok" /\ lost' = lost + 1 /\ reply = "broken"
  <2>1. Dlv!Fails(FALSE)
    BY <1>1, <1>8 DEF Dlv!Hopeless, Dlv!Fails
  <2>2. /\ got' \in [Dlv!Readers(channel) -> Nat]
        /\ \A r \in Dlv!Readers(channel) : got'[r] <= got[r] + 1
    BY <1>3, <1>8, CopiesArrive
  <2>3. \A r \in DOMAIN got' : got'[r] <= lost'
    BY <1>3, <1>6, <1>8, <2>2
  <2>4. Dlv!TellsWhatItMay'
    BY <1>1, <1>3, <1>8, TextIsRendered
  <2>5. lost' \in Nat
    BY <1>3, <1>8
  <2> QED  BY <1>1, <1>2, <1>5, <2>1, <2>2, <2>3, <2>4, <2>5, AttemptFails
<1>9. CASE reply # "ok" /\ UNCHANGED <<got, lost, told, pinged>>
  <2>1. Dlv!Fails(Dlv!Hopeless(reply)) /\ talk.step \in Speaking \ {"quit", "rcpt"}
    BY <1>1, <1>2, <1>9
  <2> QED  BY <1>1, <1>5, <1>9, <2>1, StepFails
<1>10. reply = "ok" \/ reply # "ok"
  OBVIOUS
<1> QED  BY <1>1, <1>7, <1>8, <1>9, <1>10

\* What was accepted is delivered, whatever is said to QUIT.
LEMMA ServerIsLeft ==
    ASSUME DeliverySorts, MessageInvariant, NEW reply, Dlv!Quit(reply)
    PROVE  MessageInvariant'
<1>1. /\ talk.step = "quit" /\ talk' = [step |-> "idle", once |-> talk.once] /\ result' = "delivered"
      /\ UNCHANGED <<channel, tries, got, lost, clear, told, pinged>>
  BY DEF Dlv!Quit, Dlv!Parting, Dlv!Succeeds, Dlv!Idle, Dlv!Keep, Dlv!ghosts
<1>2. talk.step \in Speaking
  BY <1>1 DEF Speaking, Opened
<1>3. /\ talk \in Conversation /\ channel \in Configs /\ channel # None /\ Dlv!Accepts(channel)
      /\ lost \in Nat /\ got \in [Dlv!Readers(channel) -> Nat] /\ tries \in Nat
      /\ \E r \in DOMAIN got : got[r] > 0
  BY <1>1, <1>2, TalkHasChannel DEF MessageInvariant, DeliveryShapes, InCourse
<1>4. talk' \in Silence /\ talk'.step = "idle"
  BY <1>1, <1>3 DEF Silence, Conversation
<1>5. talk' \notin Conversation
  BY <1>4 DEF Conversation, Speaking, Opened
<1>6. DeliveryShapes'
  BY <1>1, <1>3, <1>4 DEF DeliveryShapes, Dlv!Accepts, Dlv!Readers, Dlv!Mail
<1>7. InCourse'
  BY <1>1, <1>4, <1>5 DEF InCourse
<1>8. Dlv!NothingInTheClear' /\ Dlv!TellsWhatItMay'
  BY <1>1, ClearStays, TellsTheSame
<1>9. Dlv!NoSecondCopy' /\ Dlv!GivesUpOnlyWhenHopeless'
  BY <1>1, <1>3 DEF Dlv!NoSecondCopy, Dlv!GivesUpOnlyWhenHopeless, MessageInvariant
<1> QED  BY <1>6, <1>7, <1>8, <1>9 DEF MessageInvariant

\* A token goes in the clear by a redirect alone (ntfy.go, NewNtfy).
LEMMA RequestShows ==
    ASSUME DeliverySorts, MessageInvariant, talk.step = "post", Dlv!Shown, channel' = channel
    PROVE  /\ Dlv!NothingInTheClear' /\ Dlv!Readers(channel) = {Dlv!Them}
           /\ \A r \in Dlv!Readers(channel) : got[r] <= lost
<1>1. talk.step \in Speaking /\ SpeaksRightly(talk, channel) /\ Dlv!Accepts(channel) /\ channel \in Configs
      /\ got \in [Dlv!Readers(channel) -> Nat]
  BY TalkHasChannel DEF Speaking
<1>2. ~ Dlv!Mail(channel)
  BY <1>1 DEF SpeaksRightly
<1>3. channel.url = "http" => ~ channel.token
  BY <1>1, <1>2 DEF Dlv!Accepts, Dlv!AcceptsTopic, Dlv!Mail, DeliverySorts
<1>4. clear' \cap {"password", "token"} = {}
  BY <1>3 DEF Dlv!Shown, MessageInvariant, Dlv!NothingInTheClear
<1>5. Dlv!NothingInTheClear'
  BY <1>2, <1>4 DEF Dlv!NothingInTheClear, Dlv!Mail
<1>6. \A r \in DOMAIN got : got[r] <= lost
  BY DEF MessageInvariant, InCourse
<1> QED  BY <1>1, <1>2, <1>5, <1>6 DEF Dlv!Readers

\* What the other side has received after a request, that arrived or not.
LEMMA RequestArrives ==
    ASSUME DeliverySorts, MessageInvariant, talk.step = "post", NEW arrives \in BOOLEAN,
           Dlv!Readers(channel) = {Dlv!Them},
           IF arrives THEN Dlv!Arrives({Dlv!Them}) ELSE UNCHANGED <<got, pinged>>
    PROVE  /\ got' \in [Dlv!Readers(channel) -> Nat]
           /\ \A r \in Dlv!Readers(channel) :
                 IF arrives THEN got'[r] <= got[r] + 1 /\ got'[r] > 0 ELSE got'[r] = got[r]
<1>1. got \in [Dlv!Readers(channel) -> Nat]
  BY TalkHasChannel DEF Speaking
<1>2. CASE arrives
  BY <1>1, <1>2, CopiesArrive
<1>3. CASE ~ arrives
  BY <1>1, <1>3
<1> QED  BY <1>2, <1>3

\* A request is sent on: it is still nobody's but for an answer that does not
\* tell (notifier.go, postRawVia).
LEMMA RequestIsSentOn ==
    ASSUME DeliverySorts, MessageInvariant, NEW code \in Codes \cup {None}, NEW plain \in BOOLEAN,
           NEW away \in BOOLEAN, NEW arrives \in BOOLEAN, Dlv!Redirect(code, plain, away, arrives)
    PROVE  MessageInvariant'
<1> DEFINE empties == code \in 301..303
           open == plain /\ (away \/ channel.url # "local")
<1>1. /\ talk.step = "post" /\ Dlv!Shown /\ result' = result /\ heard' = heard
      /\ UNCHANGED <<channel, event, tries, alerts>>
      /\ talk' = [talk EXCEPT !.bodiless = @ \/ empties, !.away = @ \/ away, !.plain = open]
      /\ IF arrives THEN Dlv!Arrives({Dlv!Them}) ELSE UNCHANGED <<got, told, pinged>>
      /\ lost' = IF arrives THEN lost + 1 ELSE lost
  BY DEF Dlv!Redirect, Dlv!Keep, Dlv!Empties
<1>2. /\ SpeaksRightly(talk, channel) /\ talk \in Conversation /\ channel \in Configs
      /\ channel # None /\ Dlv!Accepts(channel) /\ result = "none" /\ lost \in Nat /\ tries \in Nat
  BY <1>1, TalkHasChannel DEF Speaking, MessageInvariant, DeliveryShapes
<1>3. /\ Dlv!NothingInTheClear' /\ Dlv!Readers(channel) = {Dlv!Them}
      /\ \A r \in Dlv!Readers(channel) : got[r] <= lost
  BY <1>1, RequestShows
<1>4. /\ got' \in [Dlv!Readers(channel) -> Nat]
      /\ \A r \in Dlv!Readers(channel) :
            IF arrives THEN got'[r] <= got[r] + 1 /\ got'[r] > 0 ELSE got'[r] = got[r]
  BY <1>1, <1>3, RequestArrives
<1>5. lost' \in Nat /\ \A r \in DOMAIN got' : got'[r] <= lost'
  <2>1. lost' \in Nat /\ lost' = (IF arrives THEN lost + 1 ELSE lost)
    BY <1>1, <1>2
  <2>2. got \in [Dlv!Readers(channel) -> Nat]
    BY <1>1, TalkHasChannel DEF Speaking
  <2> QED  BY <1>2, <1>3, <1>4, <2>1, <2>2
<1>6. /\ talk' \in Conversation /\ talk'.step = "post" /\ talk'.accepted = talk.accepted
      /\ talk'.next = talk.next
  <2> PICK bare \in BOOLEAN : bare = (talk.bodiless \/ empties)
    OBVIOUS
  <2> PICK gone \in BOOLEAN : gone = (talk.away \/ away)
    OBVIOUS
  <2> PICK shown \in BOOLEAN : shown = open
    OBVIOUS
  <2>1. talk' = [talk EXCEPT !.bodiless = bare, !.away = gone, !.plain = shown]
    BY <1>1, Zenon
  <2> HIDE DEF empties, open
  <2> QED  BY ONLY <1>1, <1>2, <2>1, bare \in BOOLEAN, gone \in BOOLEAN, shown \in BOOLEAN DEF Conversation
<1>7. channel' = channel /\ tries' = tries
  BY <1>1
<1>8. DeliveryShapes'
  BY ONLY <1>2, <1>4, <1>5, <1>6, <1>7 DEF DeliveryShapes, Dlv!Accepts, Dlv!Readers, Dlv!Mail
<1>9. SpeaksRightly(talk', channel')
  BY <1>1, <1>2, <1>6 DEF SpeaksRightly, Opened
<1>10. InCourse'
  BY <1>1, <1>2, <1>5, <1>6, <1>9 DEF InCourse
<1>11. Dlv!TellsWhatItMay'
  BY <1>1, <1>2, TellsTheSame, TextIsRendered
<1>12. Dlv!NoSecondCopy' /\ Dlv!GivesUpOnlyWhenHopeless'
  <2>1. result' = "none"
    BY <1>1, <1>2
  <2>2. \A r \in DOMAIN got' : got'[r] <= lost' + 1
    BY <1>4, <1>5
  <2> QED  BY <2>1, <2>2 DEF Dlv!NoSecondCopy, Dlv!GivesUpOnlyWhenHopeless
<1> QED  BY <1>3, <1>8, <1>10, <1>11, <1>12 DEF MessageInvariant

\* The request of the channels that are not e-mail (notifier.go, postRaw).
LEMMA RequestIsPosted ==
    ASSUME DeliverySorts, MessageInvariant, NEW code \in Codes \cup {None}, NEW arrives \in BOOLEAN,
           Dlv!Post(code, arrives)
    PROVE  MessageInvariant'
<1> DEFINE fine == code # None /\ code < 300
           bad == code # None /\ Dlv!HopelessCode(code)
<1>1. /\ talk.step = "post" /\ Dlv!Keep /\ channel' = channel /\ Dlv!Shown
      /\ (fine => arrives \/ talk.bodiless)
      /\ IF fine THEN Dlv!Succeeds ELSE Dlv!Fails(bad)
      /\ IF arrives THEN Dlv!Arrives({Dlv!Them})
                    ELSE UNCHANGED <<got, pinged>> /\ told' = IF fine THEN "visit" ELSE told
      /\ lost' = IF arrives /\ ~ fine THEN lost + 1 ELSE lost
  BY DEF Dlv!Post, Dlv!Keep
<1>2. talk.step \in Speaking /\ talk.step # "quit"
  BY <1>1 DEF Speaking
<1>3. /\ SpeaksRightly(talk, channel) /\ talk \in Conversation /\ channel \in Configs
      /\ channel # None /\ Dlv!Accepts(channel) /\ result = "none" /\ lost \in Nat
      /\ got \in [Dlv!Readers(channel) -> Nat] /\ tries \in Nat /\ tries' = tries
  BY <1>1, <1>2, TalkHasChannel DEF Dlv!Keep, MessageInvariant, DeliveryShapes
<1>4. /\ Dlv!NothingInTheClear' /\ Dlv!Readers(channel) = {Dlv!Them}
      /\ \A r \in Dlv!Readers(channel) : got[r] <= lost
  BY <1>1, RequestShows
<1>5. IF arrives THEN Dlv!Arrives({Dlv!Them}) ELSE UNCHANGED <<got, pinged>>
  BY <1>1
<1>6. /\ got' \in [Dlv!Readers(channel) -> Nat]
      /\ \A r \in Dlv!Readers(channel) :
            IF arrives THEN got'[r] <= got[r] + 1 /\ got'[r] > 0 ELSE got'[r] = got[r]
  BY <1>1, <1>4, <1>5, RequestArrives
<1>7. Dlv!TellsWhatItMay'
  <2>1. CASE arrives
    BY <1>1, <1>3, <2>1, TextIsRendered
  <2>2. CASE ~ arrives
    BY <1>1, <2>2 DEF MessageInvariant, Dlv!TellsWhatItMay
  <2> QED  BY <2>1, <2>2
<1>8. CASE fine
  <2>1. /\ talk' = [step |-> "idle", once |-> talk.once] /\ result' = "delivered" /\ lost' = lost
        /\ (~ arrives => told' = "visit")
    BY <1>1, <1>8 DEF Dlv!Succeeds, Dlv!Idle
  <2>2. talk' \in Silence /\ talk'.step = "idle"
    BY <1>3, <2>1 DEF Silence, Conversation
  <2>3. talk' \notin Conversation
    BY <2>2 DEF Conversation, Speaking, Opened
  <2>4. DeliveryShapes'
    BY <1>1, <1>3, <1>6, <2>1, <2>2 DEF DeliveryShapes, Dlv!Accepts, Dlv!Readers, Dlv!Mail
  <2>5. InCourse'
    BY <2>1, <2>2, <2>3 DEF InCourse
  <2>6. \A r \in DOMAIN got' : got'[r] <= lost' + 1
    BY <1>3, <1>4, <1>6, <2>1
  <2>7. told' # "visit" => \E r \in DOMAIN got' : got'[r] > 0
    BY <1>4, <1>6, <2>1
  <2>8. Dlv!NoSecondCopy' /\ Dlv!GivesUpOnlyWhenHopeless'
    BY <2>1, <2>6, <2>7 DEF Dlv!NoSecondCopy, Dlv!GivesUpOnlyWhenHopeless
  <2> QED  BY <1>4, <1>7, <2>4, <2>5, <2>8 DEF MessageInvariant
<1>9. CASE ~ fine
  <2>1. lost' = (IF arrives THEN lost + 1 ELSE lost) /\ lost' \in Nat
    BY <1>1, <1>3, <1>9
  <2>2. \A r \in DOMAIN got' : got'[r] <= lost'
    BY <1>3, <1>4, <1>6, <2>1
  <2>3. bad \in BOOLEAN /\ Dlv!Fails(bad)
    BY <1>1, <1>9 DEF Dlv!HopelessCode
  <2>4. bad => "refused" \in heard' /\ heard' \cap {"later", "broken"} = {}
    <3> SUFFICES ASSUME bad  PROVE heard' = {"refused"}
      OBVIOUS
    <3>1. code # None /\ code \in {400, 401, 403, 404, 413, 422}
      BY DEF Dlv!HopelessCode
    <3>2. ~ (code < 300) /\ code \in 400..428 \ {408}
      BY <3>1
    <3> QED  BY <1>1, <3>1, <3>2 DEF Dlv!Post, Dlv!Hears
  <2> HIDE DEF bad
  <2> QED  BY <1>1, <1>2, <1>4, <1>6, <1>7, <2>1, <2>2, <2>3, <2>4, AttemptFails
<1> QED  BY <1>8, <1>9

LEMMA DeliveryInitially ==
    ASSUME DeliverySorts, Dlv!Init  PROVE MessageInvariant
<1>1. /\ channel = None /\ talk = [step |-> "idle", once |-> FALSE] /\ tries = 0 /\ result = "none"
      /\ got = [r \in {} |-> 0] /\ lost = 0 /\ clear = {} /\ told = "nothing" /\ pinged = FALSE
  BY DEF Dlv!Init, Dlv!Idle
<1>2. talk \in Silence /\ talk.step = "idle"
  BY <1>1 DEF Silence
<1>3. talk \notin Conversation
  BY <1>2 DEF Conversation, Speaking, Opened
<1>4. DeliveryShapes
  BY <1>1, <1>2 DEF DeliveryShapes
<1>5. InCourse
  BY <1>1, <1>2, <1>3 DEF InCourse
<1>6. /\ Dlv!NothingInTheClear /\ Dlv!NoSecondCopy /\ Dlv!GivesUpOnlyWhenHopeless
      /\ Dlv!TellsWhatItMay
  BY <1>1 DEF Dlv!NothingInTheClear, Dlv!NoSecondCopy, Dlv!GivesUpOnlyWhenHopeless, Dlv!TellsWhatItMay
<1> QED  BY <1>4, <1>5, <1>6 DEF MessageInvariant

LEMMA DeliveryNext ==
    ASSUME DeliverySorts, MessageInvariant, [Dlv!Next]_(Dlv!vars)  PROVE MessageInvariant'
<1>1. CASE UNCHANGED Dlv!vars
  <2>1. UNCHANGED <<channel, event, talk, tries, result, got, lost, heard, clear, told, pinged>>
    BY <1>1 DEF Dlv!vars
  <2>2. DeliveryShapes'
    BY <2>1 DEF MessageInvariant, DeliveryShapes, Dlv!Accepts, Dlv!Readers, Dlv!Mail
  <2>3. InCourse'
    BY <2>1 DEF MessageInvariant, InCourse, SpeaksRightly, Dlv!Readers, Dlv!Mail
  <2>4. Dlv!NothingInTheClear' /\ Dlv!TellsWhatItMay'
    BY <2>1, ClearStays, TellsTheSame
  <2>5. Dlv!NoSecondCopy' /\ Dlv!GivesUpOnlyWhenHopeless'
    BY <2>1 DEF MessageInvariant, Dlv!NoSecondCopy, Dlv!GivesUpOnlyWhenHopeless
  <2> QED  BY <2>2, <2>3, <2>4, <2>5 DEF MessageInvariant
<1>2. CASE Dlv!Next
  BY <1>2, ChannelIsStored, AlertBegins, AlertIsRetried, ServerIsDialled, ServerGreets,
     ServerEncrypts, UserIsAuthenticated, SenderIsSaid, RecipientAnswers, DataIsAnnounced,
     MessageIsWritten, ServerIsLeft, RequestIsPosted, RequestIsSentOn DEF Dlv!Next
<1> QED  BY <1>1, <1>2

\* A conversation says only what it may at that point, and until it ends well
\* nobody has received anything of which the answer was not lost
\* (notifier/email.go, notifier.go).
THEOREM MessageKept ==
    ASSUME DeliverySorts  PROVE Dlv!Spec => []MessageInvariant
<1>1. Dlv!Init => MessageInvariant
  BY DeliveryInitially
<1>2. MessageInvariant /\ [Dlv!Next]_(Dlv!vars) => MessageInvariant'
  BY DeliveryNext
<1> QED  BY <1>1, <1>2, PTL DEF Dlv!Spec

\* No credential goes in the clear but by a redirect of the server it is for;
\* nobody receives an alert twice but for an answer that was lost, and one that
\* counts as delivered was received unless a redirect made a GET of it; an alert
\* is given up early on refusals alone, and a message tells what its template may
\* see (notifier/email.go, notifier.go).
THEOREM DeliveryIsSound ==
    ASSUME DeliverySorts  PROVE Dlv!Spec => []Dlv!DeliverySound
<1>1. MessageInvariant => Dlv!DeliverySound
  BY DEF MessageInvariant, Dlv!DeliverySound
<1> QED  BY <1>1, MessageKept, PTL
=============================================================================
