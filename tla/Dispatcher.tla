----------------------------- MODULE Dispatcher -----------------------------
(***************************************************************************)
(* The dispatcher of alerts (internal/notifier/dispatcher.go): a bounded   *)
(* queue nobody blocks on, workers that retry a delivery with growing      *)
(* delays, and the drain of the queue when the process stops.              *)
(*                                                                         *)
(* Run's own goroutine, which drains the queue after the workers returned, *)
(* is one more deliverer, Drainer.  A delivery is its number in the order  *)
(* of Enqueue and its channel.  How long a retry waits is left out: the    *)
(* wait may end at any moment.                                             *)
(***************************************************************************)
EXTENDS Naturals, Sequences, FiniteSets

CONSTANTS
    Channels,
    Workers,
    Drainer,      \* the goroutine of Run
    None,         \* no delivery
    MaxAlerts,    \* bound on the deliveries offered
    QueueSize,    \* capacity of the queue
    MaxAttempts,  \* attempts of one delivery
    Dead,         \* the channels that never answer but with a passing error
    CanStop       \* the process may be asked to stop

Deliverers == Workers \cup {Drainer}
Delivery == [number: 1..MaxAlerts, channel: Channels]

ASSUME DispatcherAssumption ==
    /\ Drainer \notin Workers
    /\ None \notin Delivery
    /\ MaxAlerts \in Nat /\ QueueSize \in Nat \ {0} /\ MaxAttempts \in Nat \ {0}
    /\ Dead \subseteq Channels /\ CanStop \in BOOLEAN

VARIABLES
    queue,      \* Dispatcher.queue
    item,       \* what each goroutine is delivering
    attempt,    \* the attempts it has made of it
    phase,      \* where each goroutine is
    ended,      \* the context of Run is done
    offered,    \* deliveries offered to Enqueue
    refused,    \* those the full queue turned away
    lost,       \* those given up on
    delivered,  \* those reported as delivered
    sends,      \* Channel.Send calls made for each delivery
    arrived     \* those that reached their destination at least once

vars == <<queue, item, attempt, phase, ended, offered, refused, lost, delivered, sends, arrived>>

TypeOK ==
    /\ queue \in Seq(Delivery) /\ Len(queue) <= QueueSize
    /\ item \in [Deliverers -> Delivery \cup {None}]
    /\ attempt \in [Deliverers -> 0..MaxAttempts]
    /\ phase \in [Deliverers -> {"idle", "send", "wait", "last", "returned"}]
    /\ ended \in BOOLEAN
    /\ offered \in 0..MaxAlerts
    /\ refused \subseteq 1..MaxAlerts /\ lost \subseteq 1..MaxAlerts
    /\ delivered \subseteq 1..MaxAlerts /\ arrived \subseteq 1..MaxAlerts
    /\ sends \in [1..MaxAlerts -> Nat]

Init ==
    /\ queue = <<>>
    /\ item = [d \in Deliverers |-> None]
    /\ attempt = [d \in Deliverers |-> 0]
    /\ phase = [d \in Deliverers |-> "idle"]
    /\ ended = FALSE
    /\ offered = 0
    /\ refused = {} /\ lost = {} /\ delivered = {} /\ arrived = {}
    /\ sends = [n \in 1..MaxAlerts |-> 0]

-----------------------------------------------------------------------------
\* Mutants of Enqueue: the queue has no limit; what it has no room for is not
\* counted.
EnqueueAnyway(c) ==
    /\ offered < MaxAlerts
    /\ offered' = offered + 1
    /\ queue' = Append(queue, [number |-> offered + 1, channel |-> c])
    /\ UNCHANGED <<item, attempt, phase, ended, refused, lost, delivered, sends, arrived>>
EnqueueSilently(c) ==
    /\ offered < MaxAlerts
    /\ offered' = offered + 1
    /\ queue' = IF Len(queue) = QueueSize THEN queue
                ELSE Append(queue, [number |-> offered + 1, channel |-> c])
    /\ UNCHANGED <<item, attempt, phase, ended, refused, lost, delivered, sends, arrived>>

\* An alert for one channel is offered; a full queue drops it, and counts it.
\* Whether anybody still reads the queue makes no difference.
Enqueue(c) ==
    /\ offered < MaxAlerts
    /\ offered' = offered + 1
    /\ \/ /\ Len(queue) < QueueSize
          /\ queue' = Append(queue, [number |-> offered + 1, channel |-> c])
          /\ UNCHANGED refused
       \/ /\ Len(queue) = QueueSize
          /\ refused' = refused \cup {offered + 1}
          /\ UNCHANGED queue
    /\ UNCHANGED <<item, attempt, phase, ended, lost, delivered, sends, arrived>>

End ==
    /\ CanStop /\ ~ ended
    /\ ended' = TRUE
    /\ UNCHANGED <<queue, item, attempt, phase, offered, refused, lost, delivered, sends, arrived>>

-----------------------------------------------------------------------------
(***************************************************************************)
(* work and drain.                                                         *)
(***************************************************************************)
\* The workers take from the queue, even with the context done (select picks
\* either); the goroutine of Run only once they all returned.
MayTake(d) == d = Drainer => \A w \in Workers : phase[w] = "returned"

Take(d) ==
    /\ phase[d] = "idle" /\ MayTake(d)
    /\ queue # <<>>
    /\ item' = [item EXCEPT ![d] = Head(queue)]
    /\ queue' = Tail(queue)
    /\ phase' = [phase EXCEPT ![d] = "send"]
    /\ UNCHANGED <<attempt, ended, offered, refused, lost, delivered, sends, arrived>>

\* A worker sees the context done; Run's goroutine sees the queue empty.
Return(d) ==
    /\ phase[d] = "idle" /\ MayTake(d)
    /\ IF d = Drainer THEN queue = <<>> ELSE ended
    /\ phase' = [phase EXCEPT ![d] = "returned"]
    /\ UNCHANGED <<queue, item, attempt, ended, offered, refused, lost, delivered, sends, arrived>>

(***************************************************************************)
(* deliver.                                                                *)
(***************************************************************************)
Number(d) == item[d].number

\* Send is called, and returns one of: no error, an error no retry can cure,
\* any other error, after which the destination may have the alert anyway.
Outcomes(c) == IF c \in Dead THEN {"passing"} ELSE {"ok", "permanent", "passing", "unsure"}

SendCalled(d, outcome) ==
    /\ outcome \in Outcomes(item[d].channel)
    /\ sends' = [sends EXCEPT ![Number(d)] = @ + 1]
    /\ arrived' = IF outcome \in {"ok", "unsure"} THEN arrived \cup {Number(d)} ELSE arrived

\* deliver returns: the delivery is counted on one side or the other.
Settle(d, ok) ==
    /\ delivered' = IF ok THEN delivered \cup {Number(d)} ELSE delivered
    /\ lost' = IF ok THEN lost ELSE lost \cup {Number(d)}
    /\ item' = [item EXCEPT ![d] = None]
    /\ attempt' = [attempt EXCEPT ![d] = 0]
    /\ phase' = [phase EXCEPT ![d] = "idle"]

\* Mutant of LastAttempt: one attempt too many.
LastAttemptLate(d) == attempt[d] = MaxAttempts

\* The attempt in course is the last one allowed.
LastAttempt(d) == attempt[d] + 1 = MaxAttempts

Send(d) ==
    /\ phase[d] = "send"
    /\ \E outcome \in Outcomes(item[d].channel) :
          /\ SendCalled(d, outcome)
          /\ \/ outcome = "ok" /\ Settle(d, TRUE)
             \/ /\ outcome = "permanent" \/ (outcome # "ok" /\ LastAttempt(d))
                /\ Settle(d, FALSE)
             \/ /\ outcome \in {"passing", "unsure"} /\ ~ LastAttempt(d)
                /\ attempt' = [attempt EXCEPT ![d] = @ + 1]
                /\ phase' = [phase EXCEPT ![d] = "wait"]
                /\ UNCHANGED <<item, delivered, lost>>
    /\ UNCHANGED <<queue, ended, offered, refused>>

\* Mutant of Wait: only the end of the process cuts the wait short.
WaitForContext(d) ==
    /\ phase[d] = "wait"
    /\ ended /\ d # Drainer /\ phase' = [phase EXCEPT ![d] = "last"]
    /\ UNCHANGED <<queue, item, attempt, ended, offered, refused, lost, delivered, sends, arrived>>

\* The wait for the next attempt ends, or is cut short by the context, which
\* leaves one last attempt.  The drain waits in full.
Wait(d) ==
    /\ phase[d] = "wait"
    /\ \/ phase' = [phase EXCEPT ![d] = "send"]
       \/ ended /\ d # Drainer /\ phase' = [phase EXCEPT ![d] = "last"]
    /\ UNCHANGED <<queue, item, attempt, ended, offered, refused, lost, delivered, sends, arrived>>

\* Mutant of LastSend: its result is not looked at.
LastSendBlind(d) ==
    /\ phase[d] = "last"
    /\ \E outcome \in Outcomes(item[d].channel) :
          SendCalled(d, outcome) /\ Settle(d, TRUE)
    /\ UNCHANGED <<queue, ended, offered, refused>>

LastSend(d) ==
    /\ phase[d] = "last"
    /\ \E outcome \in Outcomes(item[d].channel) :
          SendCalled(d, outcome) /\ Settle(d, outcome = "ok")
    /\ UNCHANGED <<queue, ended, offered, refused>>

Step(d) == Take(d) \/ Return(d) \/ Send(d) \/ Wait(d) \/ LastSend(d)

Next == \/ \E c \in Channels : Enqueue(c)
        \/ End
        \/ \E d \in Deliverers : Step(d)

Spec == Init /\ [][Next]_vars

\* Goroutines go on: Send has a timeout, and the wait for a retry ends.
FairSpec == Spec /\ \A d \in Deliverers : WF_vars(Step(d))

-----------------------------------------------------------------------------
InHand == {Number(d) : d \in {x \in Deliverers : item[x] # None}}
Queued == {queue[i].number : i \in DOMAIN queue}

\* Every alert offered is in exactly one place: queued, being delivered,
\* delivered, or counted as discarded.  None is lost in silence or delivered
\* by two workers (dispatcher.go Enqueue, work, deliver, drain).
Accounted ==
    /\ refused \cup lost \cup delivered \cup InHand \cup Queued = 1..offered
    /\ refused \cap (lost \cup delivered \cup InHand \cup Queued) = {}
    /\ lost \cap (delivered \cup InHand \cup Queued) = {}
    /\ delivered \cap (InHand \cup Queued) = {}
    /\ InHand \cap Queued = {}
    /\ \A d, e \in Deliverers :
          d # e /\ item[d] # None /\ item[e] # None => Number(d) # Number(e)
    /\ \A i, j \in DOMAIN queue : i # j => queue[i].number # queue[j].number

\* A destination is never called more often than the attempts allowed, the
\* last attempt of a stopping process included (dispatcher.go deliver).
AttemptsBounded == \A n \in 1..MaxAlerts : sends[n] <= MaxAttempts

\* What is reported as delivered did arrive, and nothing is given up on that
\* the destination was not called for (dispatcher.go deliver).
NothingLostUntried ==
    /\ delivered \subseteq arrived
    /\ \A n \in lost : sends[n] > 0

(***************************************************************************)
(* The inductive invariant behind the three: how often the destination of  *)
(* each alert was called so far.                                           *)
(***************************************************************************)
\* What waits, or is not offered yet, was not sent; what is in hand was sent
\* once for each attempt counted, and may be sent once more.
SendsCounted ==
    /\ \A n \in Queued \cup (offered + 1)..MaxAlerts : sends[n] = 0
    /\ \A d \in Deliverers :
          item[d] # None => sends[Number(d)] = attempt[d] /\ attempt[d] < MaxAttempts

\* A goroutine holds an alert exactly while it delivers it.
HandsFull ==
    \A d \in Deliverers :
        /\ item[d] # None <=> phase[d] \in {"send", "wait", "last"}
        /\ item[d] = None => attempt[d] = 0

\* Together with the types they are kept by every step (dispatcher.go
\* Enqueue, work, deliver, drain).
DeliveryInvariant ==
    TypeOK /\ Accounted /\ SendsCounted /\ HandsFull /\ AttemptsBounded /\ NothingLostUntried

\* Every alert accepted before the process is told to stop is settled some
\* day, one channel that never answers notwithstanding, and the stop
\* notwithstanding (dispatcher.go deliver, work, drain).
EverySettled ==
    \A n \in 1..MaxAlerts : offered >= n /\ ~ ended ~> n \in refused \cup lost \cup delivered
=============================================================================
