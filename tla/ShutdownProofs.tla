--------------------------- MODULE ShutdownProofs ---------------------------
(***************************************************************************)
(* What TLAPS proves of the process that stops, for any number of          *)
(* monitors, slots, channels and workers and any capacities: what was      *)
(* accepted before the signal is settled by the exit, or written, if it    *)
(* fits in the backlog while no flush can commit.  The three parts move    *)
(* one at a time, but what each needs of the others is part of one         *)
(* invariant: the writer commits because the scheduler hands it entries    *)
(* alive, and nobody returns before the one signal.                        *)
(***************************************************************************)
EXTENDS Shutdown, TLAPS

USE ShutdownAssumption

-----------------------------------------------------------------------------
(***************************************************************************)
(* The invariant.                                                          *)
(***************************************************************************)
NumbersOf(s) == {s[i].number : i \in DOMAIN s}

Steps == {"free", "check", "submit", "reschedule", "signal"}

\* The scheduler: an entry some place points at is alive, and no two places
\* point at the same one.
EntriesAlive ==
    /\ entry \in [Entries -> S!Entry \cup {None}]
    /\ index \in [Monitors -> Entries \cup {None}]
    /\ queue \subseteq Entries /\ due \subseteq Entries
    /\ step \in [Slots -> Steps] /\ holds \in [Slots -> Entries \cup {None}]
    /\ S!OnePlace
    /\ \A s \in Slots : step[s] \in {"check", "submit", "reschedule"} => holds[s] # None
    /\ \A m \in Monitors :
          index[m] # None => entry[index[m]] # None /\ entry[index[m]].monitor = m

\* What waits for the writer: less than a batch until a flush is due, and once
\* the signal came no more than what waited then and what came after it.
WaitingBounded ==
    /\ Len(in) <= QueueSize
    /\ ~ halted => Len(buf) <= MaxBatch /\ (writer # "flush" => Len(buf) < MaxBatch)
    /\ halted => Len(buf) + Len(in) <= MaxBatch + QueueSize + (accepted - promised.beats)

\* The writer: while the backlog holds it, what was accepted is in the queue,
\* in the buffer or written, and what the queue holds once it was seen empty is
\* younger than the signal.
BeatsKept ==
    /\ in \in Seq(W!Beat) /\ buf \in Seq(W!Beat) /\ written \in Seq(1..MaxBeats)
    /\ accepted \in 0..MaxBeats /\ available = TRUE /\ rows = Monitors
    /\ (halted => BacklogHolds) =>
          1..accepted \subseteq ToSet(written) \cup NumbersOf(buf) \cup NumbersOf(in)
    /\ WaitingBounded
    /\ writer \in {"select", "flush", "drain", "flushAll", "stopped"}
    /\ writer = "stopped" => buf = <<>>
    /\ writer \in {"flushAll", "stopped"} => \A n \in NumbersOf(in) : promised.beats < n

\* The dispatcher: what was offered is queued, in a hand or settled, and what
\* the queue holds once the drain saw it empty is younger than the signal.
AlertsKept ==
    /\ alerts \in Seq(D!Delivery)
    /\ item \in [D!Deliverers -> D!Delivery \cup {None}]
    /\ phase \in [D!Deliverers -> {"idle", "send", "wait", "last", "returned"}]
    /\ offered \in 0..MaxAlerts
    /\ 1..offered \subseteq refused \cup lost \cup delivered \cup D!InHand \cup NumbersOf(alerts)
    /\ \A d \in D!Deliverers : phase[d] \in {"idle", "returned"} => item[d] = None
    /\ phase[Drainer] = "returned" => \A w \in Workers : phase[w] = "returned"
    /\ phase[Drainer] = "returned" => \A n \in NumbersOf(alerts) : promised.alerts < n

\* The signal: nobody leaves before it, and what it promises was accepted.
Signalled ==
    /\ promised \in [beats: Nat, alerts: Nat]
    /\ promised.beats <= accepted /\ promised.alerts <= offered
    /\ writer \in {"drain", "flushAll", "stopped"} => halted
    /\ \A w \in Workers : phase[w] = "returned" => ended
    /\ halted <=> ended

ShutdownInvariant == EntriesAlive /\ BeatsKept /\ AlertsKept /\ Signalled

-----------------------------------------------------------------------------
(***************************************************************************)
(* The numbers of a queue.                                                 *)
(***************************************************************************)
\* What enters at the end adds its number (writer.go Submit, dispatcher.go
\* Enqueue).
LEMMA AppendedNumber ==
    ASSUME NEW T, NEW s \in Seq(T), NEW b \in T
    PROVE  Append(s, b) \in Seq(T) /\ NumbersOf(Append(s, b)) = NumbersOf(s) \cup {b.number}
<1> DEFINE t == Append(s, b)
<1>1. /\ t \in Seq(T) /\ DOMAIN t = DOMAIN s \cup {Len(s) + 1} /\ Len(s) + 1 \notin DOMAIN s
      /\ t[Len(s) + 1] = b /\ \A i \in DOMAIN s : t[i] = s[i]
  OBVIOUS
<1> HIDE DEF t
<1>2. NumbersOf(t) = NumbersOf(s) \cup {b.number}
  BY <1>1 DEF NumbersOf
<1> QED  BY <1>1, <1>2 DEF t

\* What leaves at the head takes its number (writer.go Run, dispatcher.go
\* work).
LEMMA HeadNumber ==
    ASSUME NEW T, NEW s \in Seq(T), s # <<>>
    PROVE  /\ Head(s) \in T /\ Tail(s) \in Seq(T)
           /\ NumbersOf(s) = {Head(s).number} \cup NumbersOf(Tail(s))
<1> DEFINE t == Tail(s)
           h == Head(s)
<1>1. /\ t \in Seq(T) /\ h \in T /\ 1 \in DOMAIN s /\ h = s[1]
      /\ \A i \in DOMAIN t : i + 1 \in DOMAIN s /\ t[i] = s[i + 1]
      /\ \A i \in DOMAIN s : i # 1 => i - 1 \in DOMAIN t /\ t[i - 1] = s[i]
  OBVIOUS
<1> HIDE DEF t, h
<1>2. NumbersOf(s) = {h.number} \cup NumbersOf(t)
  BY <1>1 DEF NumbersOf
<1> QED  BY <1>1, <1>2 DEF t, h

\* A sequence cut in two keeps its numbers (writer.go flush).
LEMMA CutNumbers ==
    ASSUME NEW T, NEW s \in Seq(T), NEW k \in 0..Len(s)
    PROVE  /\ SubSeq(s, 1, k) \in Seq(T) /\ SubSeq(s, k + 1, Len(s)) \in Seq(T)
           /\ Len(SubSeq(s, 1, k)) = k /\ Len(SubSeq(s, k + 1, Len(s))) = Len(s) - k
           /\ NumbersOf(s) \subseteq NumbersOf(SubSeq(s, 1, k))
                                       \cup NumbersOf(SubSeq(s, k + 1, Len(s)))
<1> DEFINE a == SubSeq(s, 1, k)
           b == SubSeq(s, k + 1, Len(s))
<1>1. /\ a \in Seq(T) /\ Len(a) = k /\ b \in Seq(T) /\ Len(b) = Len(s) - k
      /\ \A i \in DOMAIN s : i <= k => i \in DOMAIN a /\ a[i] = s[i]
      /\ \A i \in DOMAIN s : i > k => i - k \in DOMAIN b /\ b[i - k] = s[i]
  OBVIOUS
<1>2. DOMAIN s = 1..Len(s)
  OBVIOUS
<1> HIDE DEF a, b
<1>3. NumbersOf(s) \subseteq NumbersOf(a) \cup NumbersOf(b)
  <2> SUFFICES ASSUME NEW i \in DOMAIN s
               PROVE  s[i].number \in NumbersOf(a) \cup NumbersOf(b)
    BY DEF NumbersOf
  <2>1. CASE i <= k
    BY <1>1, <2>1 DEF NumbersOf
  <2>2. CASE i > k
    BY <1>1, <2>2 DEF NumbersOf
  <2> QED  BY <1>2, <2>1, <2>2
<1> QED  BY <1>1, <1>3 DEF a, b

\* Two sequences one after the other hold what each held.
LEMMA Joined ==
    ASSUME NEW T, NEW a \in Seq(T), NEW b \in Seq(T)
    PROVE  a \o b \in Seq(T) /\ ToSet(a) \cup ToSet(b) \subseteq ToSet(a \o b)
<1>1. /\ Len(a) \in Nat /\ Len(b) \in Nat
      /\ DOMAIN a = 1..Len(a) /\ DOMAIN b = 1..Len(b)
  OBVIOUS
<1>2. a \o b \in Seq(T) /\ Len(a \o b) = Len(a) + Len(b)
  OBVIOUS
<1>3. DOMAIN (a \o b) = 1..(Len(a) + Len(b))
  BY <1>2
<1>4. \A i \in 1..Len(a) : (a \o b)[i] = a[i]
  BY <1>1
<1>5. \A i \in 1..Len(b) : (a \o b)[Len(a) + i] = b[i]
  BY <1>1
<1>6. ToSet(a) \subseteq ToSet(a \o b)
  <2>1. \A i \in 1..Len(a) : i \in 1..(Len(a) + Len(b))
    BY <1>1
  <2> QED  BY <1>1, <1>3, <1>4, <2>1 DEF ToSet
<1>7. ToSet(b) \subseteq ToSet(a \o b)
  <2>1. \A i \in 1..Len(b) : Len(a) + i \in 1..(Len(a) + Len(b))
    BY <1>1
  <2> QED  BY <1>1, <1>3, <1>5, <2>1 DEF ToSet
<1> QED  BY <1>2, <1>6, <1>7

\* What is written stays written, and the batch joins it (timeseries.go
\* WriteHeartbeats).
LEMMA JoinedNumbers ==
    ASSUME NEW w \in Seq(1..MaxBeats), NEW s \in Seq(W!Beat)
    PROVE  /\ w \o W!Numbers(s) \in Seq(1..MaxBeats)
           /\ ToSet(w) \cup NumbersOf(s) \subseteq ToSet(w \o W!Numbers(s))
<1> DEFINE n == W!Numbers(s)
<1>1. n \in Seq(1..MaxBeats) /\ DOMAIN n = DOMAIN s /\ \A i \in DOMAIN s : n[i] = s[i].number
  <2>1. DOMAIN s = 1..Len(s) /\ Len(s) \in Nat /\ \A i \in 1..Len(s) : s[i] \in W!Beat
    <3> HIDE DEF n
    <3> QED  OBVIOUS
  <2>2. \A i \in 1..Len(s) : s[i].number \in 1..MaxBeats
    BY <2>1 DEF W!Beat
  <2>3. n \in [1..Len(s) -> 1..MaxBeats] /\ \A i \in 1..Len(s) : n[i] = s[i].number
    BY <2>2 DEF W!Numbers
  <2> HIDE DEF n
  <2>4. n \in Seq(1..MaxBeats)
    BY <2>1, <2>3
  <2>5. DOMAIN n = DOMAIN s
    BY <2>1, <2>3
  <2> QED  BY <2>1, <2>3, <2>4, <2>5
<1> HIDE DEF n
<1>2. w \o n \in Seq(1..MaxBeats) /\ ToSet(w) \cup ToSet(n) \subseteq ToSet(w \o n)
  BY <1>1, Joined
<1>3. NumbersOf(s) \subseteq ToSet(n)
  BY <1>1 DEF ToSet, NumbersOf
<1> QED  BY <1>2, <1>3 DEF n

-----------------------------------------------------------------------------
(***************************************************************************)
(* The writer.                                                             *)
(***************************************************************************)
\* The numbers there are to compare.
LEMMA Counted ==
    ASSUME BeatsKept, Signalled
    PROVE  /\ accepted \in Nat /\ promised.beats \in Nat
           /\ Len(in) \in Nat /\ Len(buf) \in Nat
           /\ WaitingBounded
           /\ MaxBatch \in Nat /\ MaxBatch > 0 /\ QueueSize \in Nat /\ MaxBacklog \in Nat
<1>0. MaxBatch \in Nat /\ MaxBatch > 0 /\ QueueSize \in Nat /\ MaxBacklog \in Nat
  OBVIOUS
<1>1. accepted \in Nat /\ WaitingBounded
  BY DEF BeatsKept
<1>2. in \in Seq(W!Beat) /\ buf \in Seq(W!Beat)
  BY DEF BeatsKept
<1>3. promised.beats \in Nat
  BY DEF Signalled
<1> QED  BY <1>0, <1>1, <1>2, <1>3

\* A heartbeat accepted joins the queue with the next number (writer.go
\* Submit).
LEMMA SubmitKeeps ==
    ASSUME BeatsKept, Signalled, NEW m \in Monitors, W!Submit(m), UNCHANGED promised
    PROVE  BeatsKept' /\ accepted <= accepted' /\ UNCHANGED <<writer, halted>>
<1> DEFINE b == [number |-> accepted + 1, monitor |-> m]
<1>1. /\ accepted < MaxBeats /\ in' = Append(in, b) /\ accepted' = accepted + 1
      /\ UNCHANGED <<buf, writer, halted, available, rows, written, dropped, failed>>
  BY DEF W!Submit
<1>2. b \in W!Beat /\ accepted' \in 0..MaxBeats /\ 1..accepted' = 1..accepted \cup {accepted + 1}
  <2>1. accepted \in 0..MaxBeats
    BY DEF BeatsKept
  <2>2. accepted + 1 \in 1..MaxBeats /\ accepted' \in 0..MaxBeats
    BY <1>1, <2>1
  <2>3. 1..accepted' = 1..accepted \cup {accepted + 1}
    BY <1>1, <2>1
  <2> QED  BY <2>2, <2>3 DEF W!Beat
<1>3. in' \in Seq(W!Beat) /\ NumbersOf(in') = NumbersOf(in) \cup {accepted + 1}
  BY <1>1, <1>2, AppendedNumber DEF BeatsKept
<1>4. promised.beats < accepted + 1
  BY DEF Signalled, BeatsKept
<1>5. NumbersOf(buf') = NumbersOf(buf)
  BY <1>1
<1>6. \A n \in NumbersOf(in') : n \in NumbersOf(in) \/ n = accepted + 1
  BY <1>3
<1>7. writer' \in {"flushAll", "stopped"} => \A n \in NumbersOf(in') : promised'.beats < n
  BY <1>1, <1>4, <1>6 DEF BeatsKept
<1>8. accepted <= accepted'
  BY <1>1 DEF BeatsKept
<1>9. (halted' => BacklogHolds') =>
          1..accepted' \subseteq ToSet(written') \cup NumbersOf(buf') \cup NumbersOf(in')
  <2>1. BacklogHolds' => BacklogHolds
    <3>1. accepted' = accepted + 1 /\ promised'.beats = promised.beats
      BY <1>1
    <3> QED  BY ONLY <3>1, Counted, BeatsKept, Signalled DEF BacklogHolds
  <2> QED  BY <1>1, <1>2, <1>3, <2>1 DEF BeatsKept
<1>10. WaitingBounded'
  <2>1. Len(in) < QueueSize
    BY DEF W!Submit
  <2>2. in \in Seq(W!Beat)
    BY DEF BeatsKept
  <2>3. Len(in') = Len(in) + 1
    BY <1>1, <1>2, <2>2
  <2>4. /\ UNCHANGED <<buf, writer, halted>> /\ accepted' = accepted + 1
        /\ promised'.beats = promised.beats
    BY <1>1
  <2>5. WaitingBounded /\ Len(in) \in Nat /\ Len(buf) \in Nat /\ Len(buf') = Len(buf)
        /\ accepted \in Nat /\ promised.beats \in Nat /\ QueueSize \in Nat /\ MaxBatch \in Nat
    BY <2>4, Counted
  <2>6. Len(in') <= QueueSize
    BY ONLY <2>1, <2>3, <2>5
  <2>7. CASE halted
    <3>1. Len(buf) + Len(in) <= MaxBatch + QueueSize + (accepted - promised.beats)
      BY <2>5, <2>7 DEF WaitingBounded
    <3>2. Len(buf') + Len(in') <= MaxBatch + QueueSize + (accepted' - promised'.beats)
      BY ONLY <2>3, <2>4, <2>5, <3>1
    <3> QED  BY <2>4, <2>6, <2>7, <3>2 DEF WaitingBounded
  <2>8. CASE ~ halted
    BY <2>4, <2>5, <2>6, <2>8 DEF WaitingBounded
  <2> QED  BY <2>7, <2>8
<1> QED  BY <1>1, <1>2, <1>3, <1>7, <1>8, <1>9, <1>10 DEF BeatsKept

\* The transaction commits whenever it can begin, and the batch goes from the
\* buffer to the disk (writer.go flush).
LEMMA FlushCommits ==
    ASSUME BeatsKept, W!Flush, buf # <<>>
    PROVE  /\ buf' \in Seq(W!Beat) /\ written' \in Seq(1..MaxBeats) /\ Len(buf') < Len(buf)
           /\ Len(buf) <= MaxBatch => Len(buf') = 0
           /\ ToSet(written) \cup NumbersOf(buf) \subseteq ToSet(written') \cup NumbersOf(buf')
<1>0. PICK k \in 0..Len(buf) : k = W!Smaller(Len(buf), MaxBatch) /\ k # 0
  BY DEF W!Smaller, BeatsKept
<1> DEFINE batch == SubSeq(buf, 1, k)
           rest == SubSeq(buf, k + 1, Len(buf))
<1>1. buf \in Seq(W!Beat) /\ k \in 1..Len(buf)
  BY <1>0 DEF BeatsKept
<1>2. /\ batch \in Seq(W!Beat) /\ rest \in Seq(W!Beat) /\ Len(batch) = k
      /\ Len(rest) = Len(buf) - k /\ NumbersOf(buf) \subseteq NumbersOf(batch) \cup NumbersOf(rest)
  <2>1. k \in 0..Len(buf)
    BY <1>1
  <2> QED  BY ONLY <1>1, <2>1, CutNumbers
<1>3. W!Batch = batch
  BY <1>0 DEF W!Batch
<1>4. \A i \in DOMAIN batch : batch[i].monitor \in Monitors
  <2> HIDE DEF batch
  <2>1. \A i \in DOMAIN batch : batch[i] \in W!Beat
    BY <1>2
  <2> QED  BY <2>1 DEF W!Beat
<1>5. W!Commits
  BY <1>3, <1>4 DEF W!Commits, BeatsKept
<1>6. written' = written \o W!Numbers(batch) /\ buf' = rest
  BY <1>2, <1>3, <1>5 DEF W!Flush
<1> HIDE DEF batch, rest
<1>7. /\ written' \in Seq(1..MaxBeats)
      /\ ToSet(written) \cup NumbersOf(batch) \subseteq ToSet(written')
  BY <1>2, <1>6, JoinedNumbers DEF BeatsKept
<1>8. Len(buf') < Len(buf) /\ (Len(buf) <= MaxBatch => Len(buf') = 0)
  BY <1>0, <1>1, <1>2, <1>6 DEF BeatsKept, W!Smaller
<1> QED  BY <1>2, <1>6, <1>7, <1>8

\* A flush under the ended context keeps all of a buffer that fits in the
\* backlog (writer.go retain).
LEMMA RetainKeeps ==
    ASSUME BeatsKept, Signalled, halted, W!Retain
    PROVE  /\ buf' \in Seq(W!Beat) /\ Len(buf') <= Len(buf) /\ written' = written
           /\ BacklogHolds => NumbersOf(buf) \subseteq NumbersOf(buf')
<1>1. buf \in Seq(W!Beat) /\ Len(buf) \in Nat /\ Len(in) \in Nat
  BY DEF BeatsKept
<1>2. PICK k \in 0..Len(buf) : k = W!Excess
  BY <1>1 DEF W!Excess
<1>3. buf' = SubSeq(buf, k + 1, Len(buf)) /\ written' = written
  BY <1>2 DEF W!Retain
<1> DEFINE first == SubSeq(buf, 1, k)
<1>4. /\ first \in Seq(W!Beat) /\ Len(first) = k
      /\ buf' \in Seq(W!Beat) /\ Len(buf') = Len(buf) - k
      /\ NumbersOf(buf) \subseteq NumbersOf(first) \cup NumbersOf(buf')
  BY <1>1, <1>3, CutNumbers
<1> HIDE DEF first
<1>5. ASSUME BacklogHolds PROVE NumbersOf(buf) \subseteq NumbersOf(buf')
  <2>1. Len(buf) <= MaxBacklog
    BY <1>5, Counted DEF BacklogHolds, WaitingBounded
  <2>2. k = 0
    BY <1>1, <1>2, <2>1 DEF W!Excess
  <2>3. NumbersOf(first) = {}
    BY <1>4, <2>2 DEF NumbersOf
  <2> QED  BY <1>4, <2>3
<1>6. Len(buf') <= Len(buf)
  BY <1>1, <1>4
<1> QED  BY <1>3, <1>4, <1>5, <1>6

\* Run keeps what was accepted, and begins to leave after the signal only
\* (writer.go Run, drainQueue, flushAll).
LEMMA RunKeeps ==
    ASSUME BeatsKept, Signalled, W!Run, UNCHANGED promised
    PROVE  /\ BeatsKept' /\ UNCHANGED <<accepted, halted>>
           /\ writer' \in {"drain", "flushAll", "stopped"} => halted'
<1>1. UNCHANGED <<available, rows, accepted, halted>>
  BY DEF W!Run, W!Receive, W!Timer, W!FlushOnce, W!Leave, W!Drain, W!FlushAll
<1>2. BacklogHolds' <=> BacklogHolds
  BY <1>1 DEF BacklogHolds
<1>3. /\ Len(buf) \in Nat /\ Len(in) \in Nat
      /\ accepted \in Nat /\ promised'.beats = promised.beats /\ promised.beats \in Nat
      /\ MaxBatch \in Nat /\ MaxBatch > 0 /\ QueueSize \in Nat
      /\ WaitingBounded
      /\ writer \in {"drain", "flushAll", "stopped"} => halted
  BY Counted DEF Signalled
\* What a step has to show of the places of the heartbeats.
<1>4. ASSUME in' \in Seq(W!Beat), buf' \in Seq(W!Beat), written' \in Seq(1..MaxBeats),
             (halted => BacklogHolds) =>
                ToSet(written) \cup NumbersOf(buf) \cup NumbersOf(in) \subseteq
                   ToSet(written') \cup NumbersOf(buf') \cup NumbersOf(in'),
             WaitingBounded',
             writer' \in {"select", "flush", "drain", "flushAll", "stopped"},
             writer' = "stopped" => buf' = <<>>,
             writer' \in {"flushAll", "stopped"} => \A n \in NumbersOf(in') : promised.beats < n,
             writer' \in {"drain", "flushAll", "stopped"} => halted
      PROVE  /\ BeatsKept' /\ UNCHANGED <<accepted, halted>>
             /\ writer' \in {"drain", "flushAll", "stopped"} => halted'
  <2>1. (halted' => BacklogHolds') =>
            1..accepted' \subseteq ToSet(written') \cup NumbersOf(buf') \cup NumbersOf(in')
    BY <1>1, <1>2, <1>4 DEF BeatsKept
  <2> QED  BY <1>1, <1>4, <2>1 DEF BeatsKept
<1>5. ASSUME in # <<>>, buf' = Append(buf, Head(in)), in' = Tail(in), UNCHANGED written
      PROVE  /\ in' \in Seq(W!Beat) /\ buf' \in Seq(W!Beat) /\ written' \in Seq(1..MaxBeats)
             /\ ToSet(written) \cup NumbersOf(buf) \cup NumbersOf(in) \subseteq
                   ToSet(written') \cup NumbersOf(buf') \cup NumbersOf(in')
             /\ Len(buf') = Len(buf) + 1 /\ Len(in') = Len(in) - 1 /\ Len(in) >= 1
  <2>0. in \in Seq(W!Beat) /\ buf \in Seq(W!Beat) /\ written \in Seq(1..MaxBeats)
    BY DEF BeatsKept
  <2>1. /\ Head(in) \in W!Beat /\ in' \in Seq(W!Beat)
        /\ NumbersOf(in) = {Head(in).number} \cup NumbersOf(in')
    BY <1>5, <2>0, HeadNumber
  <2>2. buf' \in Seq(W!Beat) /\ NumbersOf(buf') = NumbersOf(buf) \cup {Head(in).number}
    BY <1>5, <2>0, <2>1, AppendedNumber
  <2>3. Len(buf') = Len(buf) + 1 /\ Len(in') = Len(in) - 1 /\ Len(in) >= 1
    BY <1>5, <2>0
  <2> QED  BY <1>5, <2>0, <2>1, <2>2, <2>3
<1>6. CASE W!Receive
  <2>1. /\ in # <<>> /\ buf' = Append(buf, Head(in)) /\ in' = Tail(in) /\ UNCHANGED written
        /\ writer = "select"
        /\ writer' = IF Len(buf') >= MaxBatch THEN "flush" ELSE "select"
    BY <1>6 DEF W!Receive
  <2>2. /\ in' \in Seq(W!Beat) /\ buf' \in Seq(W!Beat) /\ written' \in Seq(1..MaxBeats)
        /\ ToSet(written) \cup NumbersOf(buf) \cup NumbersOf(in) \subseteq
              ToSet(written') \cup NumbersOf(buf') \cup NumbersOf(in')
        /\ Len(buf') = Len(buf) + 1 /\ Len(in') = Len(in) - 1 /\ Len(in) >= 1
    BY <1>5, <2>1
  <2>3. WaitingBounded'
    BY ONLY <1>1, <1>3, <2>1, <2>2 DEF WaitingBounded
  <2> QED  BY <1>4, <2>1, <2>2, <2>3
<1>7. CASE W!Timer \/ W!Leave
  <2>1. /\ UNCHANGED <<in, buf, written>> /\ writer = "select"
        /\ writer' = "flush" \/ (writer' = "drain" /\ halted)
    BY <1>7 DEF W!Timer, W!Leave
  <2>2. WaitingBounded'
    BY ONLY <1>1, <1>3, <2>1 DEF WaitingBounded
  <2>3. in' \in Seq(W!Beat) /\ buf' \in Seq(W!Beat) /\ written' \in Seq(1..MaxBeats)
    BY <2>1 DEF BeatsKept
  <2>4. NumbersOf(in') = NumbersOf(in) /\ NumbersOf(buf') = NumbersOf(buf)
    BY <2>1
  <2> QED  BY <1>4, <2>1, <2>2, <2>3, <2>4
<1>8. CASE W!FlushOnce
  <2>1. /\ writer = "flush" /\ writer' = "select" /\ in' = in
        /\ \/ ~ halted /\ W!Flush
           \/ halted /\ W!Retain
    BY <1>8 DEF W!FlushOnce
  <2>2. in' \in Seq(W!Beat) /\ NumbersOf(in') = NumbersOf(in)
    BY <2>1 DEF BeatsKept
  <2>3. CASE halted
    <3>1. /\ buf' \in Seq(W!Beat) /\ Len(buf') <= Len(buf) /\ written' = written
          /\ BacklogHolds => NumbersOf(buf) \subseteq NumbersOf(buf')
      BY <2>1, <2>3, RetainKeeps
    <3>2. Len(buf') \in Nat /\ written' \in Seq(1..MaxBeats)
      BY <3>1 DEF BeatsKept
    <3>3. WaitingBounded'
      BY ONLY <1>1, <1>3, <2>1, <2>3, <3>1, <3>2 DEF WaitingBounded
    <3> QED  BY <1>4, <2>1, <2>2, <2>3, <3>1, <3>2, <3>3
  <2>4. CASE ~ halted /\ buf # <<>>
    <3>1. /\ buf' \in Seq(W!Beat) /\ written' \in Seq(1..MaxBeats)
          /\ Len(buf) <= MaxBatch => Len(buf') = 0
          /\ ToSet(written) \cup NumbersOf(buf) \subseteq ToSet(written') \cup NumbersOf(buf')
      BY <2>1, <2>4, FlushCommits
    <3>2. WaitingBounded'
      BY ONLY <1>1, <1>3, <2>1, <2>4, <3>1 DEF WaitingBounded
    <3> QED  BY <1>4, <2>1, <2>2, <3>1, <3>2
  <2>5. CASE ~ halted /\ buf = <<>>
    <3>1. W!Batch = <<>> /\ W!Excess = 0
      BY <2>5 DEF W!Batch, W!Smaller, W!Excess
    <3>2. W!Commits
      BY <3>1 DEF W!Commits, BeatsKept
    <3>3. written' = written \o W!Numbers(<<>>) /\ buf' = <<>>
      BY <2>1, <2>5, <3>1, <3>2 DEF W!Flush
    <3>4. written' \in Seq(1..MaxBeats) /\ ToSet(written) \subseteq ToSet(written')
      <4>1. <<>> \in Seq(W!Beat)
        OBVIOUS
      <4> QED  BY <3>3, <4>1, JoinedNumbers DEF BeatsKept
    <3>5. WaitingBounded'
      BY ONLY <1>1, <1>3, <2>1, <2>5, <3>3 DEF WaitingBounded
    <3>6. NumbersOf(buf') = NumbersOf(buf) /\ buf' \in Seq(W!Beat)
      BY <2>5, <3>3
    <3> QED  BY <1>4, <2>1, <2>2, <3>4, <3>5, <3>6
  <2> QED  BY <2>3, <2>4, <2>5
<1>9. CASE W!Drain
  <2>0. writer = "drain" /\ halted
    BY <1>3, <1>9 DEF W!Drain
  <2>1. CASE in # <<>>
    <3>1. buf' = Append(buf, Head(in)) /\ in' = Tail(in) /\ UNCHANGED <<written, writer>>
      BY <1>9, <2>1 DEF W!Drain
    <3>2. /\ in' \in Seq(W!Beat) /\ buf' \in Seq(W!Beat) /\ written' \in Seq(1..MaxBeats)
          /\ ToSet(written) \cup NumbersOf(buf) \cup NumbersOf(in) \subseteq
                ToSet(written') \cup NumbersOf(buf') \cup NumbersOf(in')
          /\ Len(buf') = Len(buf) + 1 /\ Len(in') = Len(in) - 1 /\ Len(in) >= 1
      BY <1>5, <2>1, <3>1
    <3>3. WaitingBounded'
      BY ONLY <1>1, <1>3, <2>0, <3>1, <3>2 DEF WaitingBounded
    <3> QED  BY <1>4, <2>0, <3>1, <3>2, <3>3
  <2>2. CASE in = <<>>
    <3>1. writer' = "flushAll" /\ UNCHANGED <<in, buf, written>>
      BY <1>9, <2>2 DEF W!Drain
    <3>2. NumbersOf(in') = {} /\ NumbersOf(in) = {} /\ NumbersOf(buf') = NumbersOf(buf)
      BY <2>2, <3>1 DEF NumbersOf
    <3>3. WaitingBounded'
      BY ONLY <1>1, <1>3, <2>0, <3>1 DEF WaitingBounded
    <3>4. in' \in Seq(W!Beat) /\ buf' \in Seq(W!Beat) /\ written' \in Seq(1..MaxBeats)
      BY <3>1 DEF BeatsKept
    <3> QED  BY <1>4, <2>0, <3>1, <3>2, <3>3, <3>4
  <2> QED  BY <2>1, <2>2
<1>10. CASE W!FlushAll
  <2>1. in' = in /\ halted /\ writer = "flushAll"
    BY <1>3, <1>10 DEF W!FlushAll
  <2>2. /\ in' \in Seq(W!Beat) /\ NumbersOf(in') = NumbersOf(in)
        /\ \A n \in NumbersOf(in') : promised.beats < n
    BY <2>1 DEF BeatsKept
  <2>3. CASE buf = <<>>
    <3>1. writer' = "stopped" /\ UNCHANGED <<buf, written>>
      BY <1>10, <2>3 DEF W!FlushAll
    <3>2. WaitingBounded'
      BY ONLY <1>1, <1>3, <2>1, <3>1 DEF WaitingBounded
    <3>3. /\ buf' \in Seq(W!Beat) /\ written' \in Seq(1..MaxBeats)
          /\ NumbersOf(buf') = NumbersOf(buf)
      BY <3>1 DEF BeatsKept
    <3> QED  BY <1>4, <2>1, <2>2, <2>3, <3>1, <3>2, <3>3
  <2>4. CASE buf # <<>>
    <3>1. W!Flush /\ writer' = IF Len(buf') < Len(buf) THEN "flushAll" ELSE "stopped"
      BY <1>10, <2>4 DEF W!FlushAll
    <3>2. /\ buf' \in Seq(W!Beat) /\ written' \in Seq(1..MaxBeats) /\ Len(buf') < Len(buf)
          /\ ToSet(written) \cup NumbersOf(buf) \subseteq ToSet(written') \cup NumbersOf(buf')
      BY <2>4, <3>1, FlushCommits
    <3>3. writer' = "flushAll" /\ Len(buf') \in Nat
      BY <3>1, <3>2
    <3>4. WaitingBounded'
      BY ONLY <1>1, <1>3, <2>1, <3>2, <3>3 DEF WaitingBounded
    <3> QED  BY <1>4, <2>1, <2>2, <3>2, <3>3, <3>4
  <2> QED  BY <2>3, <2>4
<1> QED  BY <1>6, <1>7, <1>8, <1>9, <1>10 DEF W!Run

-----------------------------------------------------------------------------
(***************************************************************************)
(* The dispatcher.                                                         *)
(***************************************************************************)
\* An alert offered joins the queue with the next number, or is refused
\* (dispatcher.go Enqueue).
LEMMA EnqueueKeeps ==
    ASSUME AlertsKept, Signalled, NEW c \in Channels, D!Enqueue(c), UNCHANGED promised
    PROVE  AlertsKept' /\ offered <= offered' /\ UNCHANGED <<phase, ended>>
<1> DEFINE a == [number |-> offered + 1, channel |-> c]
<1>1. /\ offered < MaxAlerts /\ offered' = offered + 1
      /\ UNCHANGED <<item, attempt, phase, ended, lost, delivered, sends, arrived>>
  BY DEF D!Enqueue
<1>2. a \in D!Delivery /\ offered' \in 0..MaxAlerts /\ 1..offered' = 1..offered \cup {offered + 1}
  BY <1>1 DEF AlertsKept, D!Delivery
<1>3. promised.alerts < offered + 1 /\ offered <= offered'
  BY <1>1 DEF Signalled, AlertsKept
<1>4. D!InHand' = D!InHand
  BY <1>1 DEF D!InHand, D!Number
<1>5. CASE alerts' = Append(alerts, a) /\ refused' = refused
  <2>1. alerts' \in Seq(D!Delivery) /\ NumbersOf(alerts') = NumbersOf(alerts) \cup {offered + 1}
    BY <1>2, <1>5, AppendedNumber DEF AlertsKept
  <2>2. phase'[Drainer] = "returned" => \A n \in NumbersOf(alerts') : promised'.alerts < n
    BY <1>1, <1>3, <2>1 DEF AlertsKept
  <2> QED  BY <1>1, <1>2, <1>3, <1>4, <1>5, <2>1, <2>2 DEF AlertsKept
<1>6. CASE refused' = refused \cup {offered + 1} /\ alerts' = alerts
  BY <1>1, <1>2, <1>3, <1>4, <1>6 DEF AlertsKept
<1> QED  BY <1>5, <1>6 DEF D!Enqueue

\* A step of a worker, or of the drain, keeps what was offered; a worker
\* returns after the signal only, and the drain after the workers
\* (dispatcher.go work, deliver, drain).
LEMMA StepKeeps ==
    ASSUME AlertsKept, Signalled, NEW d \in D!Deliverers, D!Step(d), UNCHANGED promised
    PROVE  /\ AlertsKept' /\ UNCHANGED <<offered, ended>>
           /\ \A w \in Workers : phase'[w] = "returned" => ended'
<1> USE DEF AlertsKept
<1>1. Drainer \in D!Deliverers /\ Workers \subseteq D!Deliverers
  BY DEF D!Deliverers
<1>2. UNCHANGED <<offered, ended, refused>>
  BY DEF D!Step, D!Take, D!Return, D!Send, D!Wait, D!LastSend, D!SendCalled, D!Settle
<1>3. CASE D!Take(d)
  <2>1. /\ phase[d] = "idle" /\ alerts # <<>> /\ item[d] = None
        /\ item' = [item EXCEPT ![d] = Head(alerts)] /\ alerts' = Tail(alerts)
        /\ phase' = [phase EXCEPT ![d] = "send"] /\ UNCHANGED <<lost, delivered>>
        /\ d = Drainer => \A w \in Workers : phase[w] = "returned"
    BY <1>3 DEF D!Take, D!MayTake
  <2>2. /\ Head(alerts) \in D!Delivery /\ alerts' \in Seq(D!Delivery)
        /\ NumbersOf(alerts) = {Head(alerts).number} \cup NumbersOf(alerts')
    BY <2>1, HeadNumber
  <2>3. Head(alerts) # None
    BY <2>2
  <2>4. D!InHand \cup {Head(alerts).number} \subseteq D!InHand'
    <3>1. \A x \in D!Deliverers : item[x] # None => x # d /\ item'[x] = item[x]
      BY <2>1
    <3>2. item'[d] # None /\ D!Number(d)' = Head(alerts).number
      BY <2>1, <2>3 DEF D!Number
    <3>3. \A x \in D!Deliverers : item[x] # None => D!Number(x)' = D!Number(x)
      BY <3>1 DEF D!Number
    <3> QED  BY <3>1, <3>2, <3>3 DEF D!InHand
  <2>5. 1..offered' \subseteq refused' \cup lost' \cup delivered' \cup D!InHand' \cup NumbersOf(alerts')
    BY <1>2, <2>1, <2>2, <2>4
  <2>6. /\ item' \in [D!Deliverers -> D!Delivery \cup {None}]
        /\ phase' \in [D!Deliverers -> {"idle", "send", "wait", "last", "returned"}]
    BY <2>1, <2>2
  <2>7. \A x \in D!Deliverers : phase'[x] \in {"idle", "returned"} => item'[x] = None
    BY <2>1
  <2>8. /\ phase'[Drainer] = "returned" => phase[Drainer] = "returned"
        /\ \A w \in Workers : phase[w] = "returned" <=> phase'[w] = "returned"
    BY <1>1, <2>1
  <2>9. phase'[Drainer] = "returned" => \A n \in NumbersOf(alerts') : promised'.alerts < n
    BY <2>2, <2>8
  <2> QED  BY <1>2, <2>2, <2>5, <2>6, <2>7, <2>8, <2>9 DEF Signalled
<1>4. CASE D!Return(d)
  <2>1. /\ phase[d] = "idle" /\ phase' = [phase EXCEPT ![d] = "returned"]
        /\ UNCHANGED <<alerts, item, lost, delivered>>
        /\ d = Drainer => alerts = <<>> /\ \A w \in Workers : phase[w] = "returned"
        /\ d # Drainer => ended
    BY <1>4 DEF D!Return, D!MayTake
  <2>2. D!InHand' = D!InHand
    BY <2>1 DEF D!InHand, D!Number
  <2>3. \A w \in Workers : phase[w] = "returned" => phase'[w] = "returned"
    BY <1>1, <2>1
  <2>4. phase'[Drainer] = "returned" => \A w \in Workers : phase'[w] = "returned"
    BY <1>1, <2>1, <2>3
  <2>5. phase'[Drainer] = "returned" => \A n \in NumbersOf(alerts') : promised'.alerts < n
    <3>1. CASE d = Drainer
      BY <2>1, <3>1 DEF NumbersOf
    <3>2. CASE d # Drainer
      BY <1>1, <2>1, <3>2
    <3> QED  BY <3>1, <3>2
  <2>6. \A w \in Workers : phase'[w] = "returned" => ended'
    BY <1>1, <1>2, <2>1 DEF Signalled
  <2> QED  BY <1>2, <2>1, <2>2, <2>4, <2>5, <2>6
\* What the settling of an alert does, on whichever side it counts.
<1>5. ASSUME NEW ok \in BOOLEAN, D!Settle(d, ok), phase[d] \notin {"idle", "returned"},
             UNCHANGED alerts
      PROVE  /\ AlertsKept' /\ \A w \in Workers : phase'[w] = "returned" => ended'
  <2>1. /\ item' = [item EXCEPT ![d] = None] /\ phase' = [phase EXCEPT ![d] = "idle"]
        /\ delivered \cup lost \cup {D!Number(d)} \subseteq delivered' \cup lost'
    BY <1>5 DEF D!Settle
  <2>2. D!InHand \subseteq D!InHand' \cup {D!Number(d)}
    <3>1. \A x \in D!Deliverers : x # d => D!Number(x)' = D!Number(x) /\ item'[x] = item[x]
      BY <2>1 DEF D!Number
    <3> QED  BY <3>1 DEF D!InHand
  <2>3. 1..offered' \subseteq refused' \cup lost' \cup delivered' \cup D!InHand' \cup NumbersOf(alerts')
    BY <1>2, <1>5, <2>1, <2>2
  <2>4. \A x \in D!Deliverers : phase'[x] = "returned" <=> phase[x] = "returned"
    BY <1>5, <2>1
  <2>5. \A x \in D!Deliverers : phase'[x] \in {"idle", "returned"} => item'[x] = None
    BY <2>1
  <2> QED  BY <1>1, <1>2, <1>5, <2>1, <2>3, <2>4, <2>5 DEF Signalled
\* What a step that keeps the alert in hand does.
<1>6. ASSUME UNCHANGED <<alerts, item, lost, delivered>>, phase[d] \notin {"idle", "returned"},
             NEW p \in {"send", "wait", "last"}, phase' = [phase EXCEPT ![d] = p]
      PROVE  /\ AlertsKept' /\ \A w \in Workers : phase'[w] = "returned" => ended'
  <2>1. D!InHand' = D!InHand
    BY <1>6 DEF D!InHand, D!Number
  <2>2. \A x \in D!Deliverers : phase'[x] = "returned" <=> phase[x] = "returned"
    BY <1>6
  <2>3. \A x \in D!Deliverers : phase'[x] \in {"idle", "returned"} => item'[x] = None
    BY <1>6
  <2> QED  BY <1>1, <1>2, <1>6, <2>1, <2>2, <2>3 DEF Signalled
<1>7. CASE D!Send(d)
  <2>1. phase[d] = "send" /\ UNCHANGED alerts
    BY <1>7 DEF D!Send
  <2>2. \/ \E ok \in BOOLEAN : D!Settle(d, ok)
        \/ phase' = [phase EXCEPT ![d] = "wait"] /\ UNCHANGED <<item, lost, delivered>>
    BY <1>7 DEF D!Send
  <2> QED  BY <1>2, <1>5, <1>6, <2>1, <2>2
<1>8. CASE D!Wait(d)
  <2>1. /\ phase[d] = "wait" /\ UNCHANGED <<alerts, item, lost, delivered>>
        /\ \E p \in {"send", "wait", "last"} : phase' = [phase EXCEPT ![d] = p]
    BY <1>8 DEF D!Wait
  <2> QED  BY <1>2, <1>6, <2>1
<1>9. CASE D!LastSend(d)
  <2>1. phase[d] = "last" /\ UNCHANGED alerts /\ \E ok \in BOOLEAN : D!Settle(d, ok)
    BY <1>9 DEF D!LastSend
  <2> QED  BY <1>2, <1>5, <2>1
<1> QED  BY <1>3, <1>4, <1>7, <1>8, <1>9 DEF D!Step

-----------------------------------------------------------------------------
(***************************************************************************)
(* The scheduler.                                                          *)
(***************************************************************************)
\* The API edits the queue (scheduler.go Upsert, Remove).
LEMMA EditKeeps ==
    ASSUME EntriesAlive, NEW m \in Monitors, S!Enter(m) \/ S!Change(m) \/ S!Leave(m)
    PROVE  EntriesAlive'
<1> USE DEF EntriesAlive, S!OnePlace, S!OneCheckPerEntry
<1>1. /\ UNCHANGED <<due, step, holds>>
      /\ S!Held' = S!Held /\ S!Held \subseteq Entries
  BY DEF S!Enter, S!Change, S!Leave, S!tasks, S!Held
<1>2. CASE S!Enter(m)
  <2>1. S!NewEntry \in Entries /\ entry[S!NewEntry] = None
    <3>1. \E e \in Entries : entry[e] = None
      BY <1>2 DEF S!Enter
    <3> QED  BY <3>1 DEF S!NewEntry
  <2>2. PICK e \in Entries : e = S!NewEntry
    BY <2>1
  <2>3. PICK r \in S!Entry : entry' = [entry EXCEPT ![e] = r] /\ r.monitor = m
    <3>1. PICK i \in Intervals : \E d \in 0..(i - 1) :
             entry' = [entry EXCEPT ![e] =
                         [monitor |-> m, interval |-> i, delay |-> d, inFlight |-> FALSE]]
      BY <1>2, <2>2 DEF S!Enter
    <3>2. PICK d \in 0..(i - 1) :
             entry' = [entry EXCEPT ![e] =
                         [monitor |-> m, interval |-> i, delay |-> d, inFlight |-> FALSE]]
      BY <3>1
    <3>3. i \in Nat /\ d \in Nat
      OBVIOUS
    <3>4. [monitor |-> m, interval |-> i, delay |-> d, inFlight |-> FALSE] \in S!Entry
      BY <3>3 DEF S!Entry
    <3> QED  BY <3>2, <3>4
  <2>4. index' = [index EXCEPT ![m] = e] /\ queue' = queue \cup {e} /\ entry[e] = None
    BY <1>2, <2>1, <2>2 DEF S!Enter
  <2>5. e \notin queue \cup due \cup S!Held
    BY <2>4
  <2>6. \A x \in Monitors :
           index'[x] # None => entry'[index'[x]] # None /\ entry'[index'[x]].monitor = x
    BY <2>3, <2>4
  <2>7. S!OnePlace'
    BY <1>1, <2>3, <2>4, <2>5
  <2> QED  BY <1>1, <2>3, <2>4, <2>6, <2>7
<1>3. CASE S!Change(m)
  <2>1. PICK e \in Entries : e = index[m]
    BY <1>3 DEF S!Change
  <2>2. entry[e] \in S!Entry /\ UNCHANGED <<index, queue>>
    <3>1. index[m] # None /\ UNCHANGED <<index, queue>>
      BY <1>3 DEF S!Change
    <3> QED  BY <2>1, <3>1
  <2>3. PICK r \in S!Entry : entry' = [entry EXCEPT ![e] = r] /\ r.monitor = entry[e].monitor
    <3>1. PICK i \in Intervals :
             entry' = [entry EXCEPT ![e].interval = i,
                                    ![e].delay = IF i # entry[e].interval /\ ~ entry[e].inFlight
                                                   THEN i ELSE @]
      BY <1>3, <2>1 DEF S!Change
    <3>2. PICK d \in Nat : entry' = [entry EXCEPT ![e].interval = i, ![e].delay = d]
      BY <3>1, <2>2 DEF S!Entry
    <3>3. entry' = [entry EXCEPT ![e] = [entry[e] EXCEPT !.interval = i, !.delay = d]]
      BY <3>2, <2>2
    <3>4. [entry[e] EXCEPT !.interval = i, !.delay = d] \in S!Entry
      BY <2>2 DEF S!Entry
    <3> QED  BY <3>3, <3>4, <2>2 DEF S!Entry
  <2>4. S!OnePlace'
    BY <1>1, <2>2, <2>3
  <2> QED  BY <1>1, <2>2, <2>3, <2>4
<1>4. CASE S!Leave(m)
  <2>1. PICK e \in Entries : e = index[m]
    BY <1>4 DEF S!Leave
  <2>2. /\ queue' = queue \ {e} /\ index' = [index EXCEPT ![m] = None]
        /\ entry' = IF e \in queue THEN [entry EXCEPT ![e] = None] ELSE entry
        /\ entry[e].monitor = m
    BY <1>4, <2>1 DEF S!Leave
  <2>3. \A x \in queue' \cup due' \cup S!Held' : entry'[x] = entry[x]
    BY <1>1, <2>2
  <2>4. S!OnePlace'
    BY <1>1, <2>2, <2>3
  <2>5. ASSUME NEW x \in Monitors, index'[x] # None
        PROVE  entry'[index'[x]] # None /\ entry'[index'[x]].monitor = x
    <3>1. x # m /\ index'[x] = index[x] /\ index[x] \in Entries
      BY <2>2, <2>5
    <3>2. index[x] # e
      BY <2>2, <3>1
    <3> QED  BY <2>2, <3>1, <3>2
  <2> QED  BY <1>1, <2>2, <2>4, <2>5
<1> QED  BY <1>2, <1>3, <1>4

\* An entry given back is alive in the queue, or gone from everywhere
\* (scheduler.go reschedule).
LEMMA GiveBackKeeps ==
    ASSUME EntriesAlive, NEW e \in due \cup S!Held, S!GiveBack(e), UNCHANGED index,
           due' \cup S!Held' \subseteq (due \cup S!Held) \ {e}, due' \cap S!Held' = {},
           S!OneCheckPerEntry', due' \subseteq Entries,
           step' \in [Slots -> Steps], holds' \in [Slots -> Entries \cup {None}],
           \A s \in Slots : step'[s] \in {"check", "submit", "reschedule"} => holds'[s] # None
    PROVE  EntriesAlive'
<1> USE DEF EntriesAlive, S!OnePlace
<1>1. e \in Entries /\ entry[e] \in S!Entry /\ e \notin queue
  BY DEF S!Held
<1>2. CASE index[entry[e].monitor] = e
  <2>1. PICK r \in S!Entry : entry' = [entry EXCEPT ![e] = r] /\ r.monitor = entry[e].monitor
    <3> DEFINE r == [entry[e] EXCEPT !.inFlight = FALSE, !.delay = entry[e].interval]
    <3>1. entry' = [entry EXCEPT ![e] = r]
      <4>1. entry' = [entry EXCEPT ![e].inFlight = FALSE, ![e].delay = entry[e].interval]
        BY <1>2 DEF S!GiveBack
      <4>2. entry \in [Entries -> S!Entry \cup {None}]
        OBVIOUS
      <4> QED  BY <1>1, <4>1, <4>2
    <3>2. entry[e].interval \in Nat
      BY <1>1 DEF S!Entry
    <3>3. r \in S!Entry /\ r.monitor = entry[e].monitor
      BY <1>1, <3>2 DEF S!Entry
    <3> QED  BY <3>1, <3>3
  <2>2. queue' = queue \cup {e}
    BY <1>2 DEF S!GiveBack
  <2>3. \A x \in queue' \cup due' \cup S!Held' : entry'[x] # None
    BY <1>1, <2>1, <2>2
  <2>4. S!OnePlace'
    BY <1>1, <2>2, <2>3
  <2>5. \A m \in Monitors :
           index'[m] # None => entry'[index'[m]] # None /\ entry'[index'[m]].monitor = m
    BY <1>1, <2>1
  <2> QED  BY <1>1, <2>1, <2>2, <2>4, <2>5
<1>3. CASE index[entry[e].monitor] # e
  <2>1. entry' = [entry EXCEPT ![e] = None] /\ queue' = queue
    BY <1>3 DEF S!GiveBack
  <2>2. \A x \in queue' \cup due' \cup S!Held' : entry'[x] # None
    BY <1>1, <2>1
  <2>3. S!OnePlace'
    BY <1>1, <2>1, <2>2
  <2>4. \A m \in Monitors : index[m] # None => index[m] # e
    BY <1>1, <1>3
  <2> QED  BY <1>1, <2>1, <2>3, <2>4
<1> QED  BY <1>2, <1>3

\* The steps that move no entry.
LEMMA StillKeeps ==
    ASSUME EntriesAlive, UNCHANGED <<entry, index, queue, due, holds>>, step' \in [Slots -> Steps],
           \A s \in Slots : step'[s] \in {"check", "submit", "reschedule"} =>
                               step[s] \in {"check", "submit", "reschedule"}
    PROVE  EntriesAlive'
<1>1. S!Held' = S!Held
  BY DEF S!Held
<1> QED  BY <1>1 DEF EntriesAlive, S!OnePlace, S!OneCheckPerEntry

\* The loop takes what is due, starts checks and winds down (scheduler.go
\* Run, takeDue).
LEMMA LoopKeeps ==
    ASSUME EntriesAlive,
           \/ S!TakeDue \/ S!WindDown \/ S!Tick
           \/ \E s \in Slots : S!Start(s)
    PROVE  EntriesAlive'
<1> USE DEF EntriesAlive, S!OnePlace
<1>1. CASE S!TakeDue
  <2>1. /\ S!Expired \subseteq queue /\ due' = S!Expired /\ queue' = queue \ S!Expired
        /\ entry' = [e \in Entries |-> IF e \in S!Expired THEN [entry[e] EXCEPT !.inFlight = TRUE]
                                                           ELSE entry[e]]
        /\ UNCHANGED <<index, step, holds>>
    BY <1>1 DEF S!TakeDue, S!Expired, S!tasks
  <2>2. \A e \in S!Expired : e \in Entries /\ entry[e] \in S!Entry
    BY <2>1
  <2>3. \A e \in S!Expired : entry'[e] \in S!Entry /\ entry'[e].monitor = entry[e].monitor
    BY <2>1, <2>2 DEF S!Entry
  <2>4. \A e \in Entries \ S!Expired : entry'[e] = entry[e]
    BY <2>1
  <2>5. S!Held' = S!Held /\ S!Held \subseteq Entries
    BY <2>1 DEF S!Held
  <2>9. ASSUME NEW e \in Entries, entry[e] # None
        PROVE  entry'[e] # None /\ entry'[e].monitor = entry[e].monitor
    <3>1. CASE e \in S!Expired
      BY <2>3, <3>1
    <3>2. CASE e \notin S!Expired
      BY <2>4, <2>9, <3>2
    <3> QED  BY <3>1, <3>2
  <2>6. S!OnePlace'
    BY <2>1, <2>5, <2>9 DEF S!OneCheckPerEntry
  <2>7. entry' \in [Entries -> S!Entry \cup {None}]
    BY <2>1, <2>3, <2>4
  <2>8. \A m \in Monitors :
           index'[m] # None => entry'[index'[m]] # None /\ entry'[index'[m]].monitor = m
    BY <2>1, <2>9
  <2> QED  BY <2>1, <2>6, <2>7, <2>8
<1>2. CASE S!WindDown
  <2>1. UNCHANGED <<index, step, holds>> /\ due' = {} /\ S!Held' = S!Held
    BY <1>2 DEF S!WindDown, S!tasks, S!Held
  <2>2. CASE UNCHANGED <<entry, queue>>
    BY <2>1, <2>2 DEF S!OneCheckPerEntry
  <2>3. CASE \E e \in due : S!GiveBack(e)
    <3>1. PICK e \in due : S!GiveBack(e)
      BY <2>3
    <3>2. S!OneCheckPerEntry'
      BY <2>1 DEF S!OneCheckPerEntry
    <3> QED  BY <2>1, <3>1, <3>2, GiveBackKeeps
  <2> QED  BY <1>2, <2>2, <2>3 DEF S!WindDown
<1>3. CASE S!Tick
  <2>1. /\ UNCHANGED <<index, queue, due, step, holds>>
        /\ entry' = [e \in Entries |-> IF e \in queue THEN [entry[e] EXCEPT !.delay = S!Less(@)]
                                                      ELSE entry[e]]
    BY <1>3 DEF S!Tick, S!tasks
  <2>2. \A n \in Nat : S!Less(n) \in Nat
    BY DEF S!Less
  <2>3. ASSUME NEW e \in queue
        PROVE  entry'[e] \in S!Entry /\ entry'[e].monitor = entry[e].monitor
    <3>1. e \in Entries /\ entry[e] \in S!Entry
      BY <2>3
    <3>2. PICK d \in Nat : entry'[e] = [entry[e] EXCEPT !.delay = d]
      BY <2>1, <2>2, <3>1 DEF S!Entry
    <3> QED  BY <3>1, <3>2 DEF S!Entry
  <2>4. \A e \in Entries \ queue : entry'[e] = entry[e]
    BY <2>1
  <2>5. S!Held' = S!Held /\ S!Held \subseteq Entries
    BY <2>1 DEF S!Held
  <2>9. ASSUME NEW e \in Entries, entry[e] # None
        PROVE  entry'[e] # None /\ entry'[e].monitor = entry[e].monitor
    <3>1. CASE e \in queue
      BY <2>3, <3>1
    <3>2. CASE e \notin queue
      BY <2>4, <2>9, <3>2
    <3> QED  BY <3>1, <3>2
  <2>6. S!OnePlace'
    BY <2>1, <2>5, <2>9 DEF S!OneCheckPerEntry
  <2>7. entry' \in [Entries -> S!Entry \cup {None}]
    BY <2>1, <2>3, <2>4
  <2>8. \A m \in Monitors :
           index'[m] # None => entry'[index'[m]] # None /\ entry'[index'[m]].monitor = m
    BY <2>1, <2>9
  <2> QED  BY <2>1, <2>6, <2>7, <2>8
<1>4. ASSUME NEW s \in Slots, S!Start(s) PROVE EntriesAlive'
  <2>1. PICK e \in due : due' = due \ {e} /\ holds' = [holds EXCEPT ![s] = e]
    BY <1>4 DEF S!Start
  <2>2. UNCHANGED <<entry, index, queue>> /\ step' = [step EXCEPT ![s] = "check"]
    BY <1>4 DEF S!Start, S!heap
  <2>3. e \in Entries /\ e # None /\ e \notin queue /\ e \notin S!Held
    BY <2>1
  <2>4. S!Held' \subseteq S!Held \cup {e} /\ e \notin due'
    BY <2>1, <2>2, <2>3 DEF S!Held
  <2>5. S!OneCheckPerEntry'
    BY <2>1, <2>2, <2>3 DEF S!OneCheckPerEntry, S!Held
  <2>6. S!OnePlace'
    BY <2>1, <2>2, <2>3, <2>4, <2>5
  <2>7. \A t \in Slots : step'[t] \in {"check", "submit", "reschedule"} => holds'[t] # None
    BY <2>1, <2>2, <2>3
  <2> QED  BY <2>1, <2>2, <2>3, <2>6, <2>7 DEF Steps
<1> QED  BY <1>1, <1>2, <1>3, <1>4

\* The goroutine of a check goes from step to step and gives its entry back
\* (scheduler.go runCheck, reschedule).
LEMMA TaskKeeps ==
    ASSUME EntriesAlive, NEW s \in Slots,
           S!Checked(s) \/ S!Submitted(s) \/ S!Reschedule(s) \/ S!Finish(s)
    PROVE  EntriesAlive'
<1>1. CASE S!Checked(s) \/ S!Submitted(s) \/ S!Finish(s)
  <2>1. /\ UNCHANGED <<entry, index, queue, due, holds>>
        /\ \/ step[s] = "check" /\ step' = [step EXCEPT ![s] = "submit"]
           \/ step[s] = "submit" /\ step' = [step EXCEPT ![s] = "reschedule"]
           \/ step[s] = "signal" /\ step' = [step EXCEPT ![s] = "free"]
    BY <1>1 DEF S!Checked, S!Submitted, S!Finish, S!heap
  <2>2. step' \in [Slots -> Steps]
    BY <2>1 DEF EntriesAlive, Steps
  <2>3. \A t \in Slots : step'[t] \in {"check", "submit", "reschedule"} =>
                            step[t] \in {"check", "submit", "reschedule"}
    BY <2>1 DEF EntriesAlive
  <2> QED  BY <2>1, <2>2, <2>3, StillKeeps
<1>2. CASE S!Reschedule(s)
  <2>1. PICK e \in Entries : e = holds[s]
    BY <1>2 DEF S!Reschedule, EntriesAlive
  <2>2. /\ S!GiveBack(e) /\ step' = [step EXCEPT ![s] = "signal"]
        /\ holds' = [holds EXCEPT ![s] = None] /\ UNCHANGED <<index, due>>
    BY <1>2, <2>1 DEF S!Reschedule
  <2>3. e # None /\ e \in S!Held
    BY <2>1 DEF S!Held
  <2>4. S!Held' \subseteq S!Held \ {e}
    BY <2>1, <2>2, <2>3 DEF S!Held, EntriesAlive, S!OnePlace, S!OneCheckPerEntry
  <2>5. S!OneCheckPerEntry'
    BY <2>2 DEF EntriesAlive, S!OnePlace, S!OneCheckPerEntry
  <2>6. /\ due' \cup S!Held' \subseteq (due \cup S!Held) \ {e} /\ due' \cap S!Held' = {}
    BY <2>2, <2>3, <2>4 DEF EntriesAlive, S!OnePlace
  <2>7. /\ step' \in [Slots -> Steps] /\ holds' \in [Slots -> Entries \cup {None}]
        /\ \A t \in Slots : step'[t] \in {"check", "submit", "reschedule"} => holds'[t] # None
    BY <2>2 DEF EntriesAlive, Steps
  <2>8. due' \subseteq Entries
    BY <2>2 DEF EntriesAlive
  <2> QED  BY <2>2, <2>3, <2>5, <2>6, <2>7, <2>8, GiveBackKeeps
<1> QED  BY <1>1, <1>2

-----------------------------------------------------------------------------
(***************************************************************************)
(* The process.                                                            *)
(***************************************************************************)
\* The process starts with nothing accepted (main.go run).
LEMMA InitInvariant == Init => ShutdownInvariant
<1> SUFFICES ASSUME Init PROVE ShutdownInvariant
  OBVIOUS
<1> USE DEF Init
<1>1. EntriesAlive
  <2>1. S!Held = {}
    BY DEF S!Init, S!Held
  <2> QED  BY <2>1 DEF S!Init, EntriesAlive, Steps, S!OnePlace, S!OneCheckPerEntry
<1>2. BeatsKept
  <2>1. /\ in = <<>> /\ buf = <<>> /\ written = <<>> /\ accepted = 0 /\ available = TRUE
        /\ rows = Monitors /\ writer = "select"
    BY DEF W!Init
  <2>2. /\ in \in Seq(W!Beat) /\ buf \in Seq(W!Beat) /\ written \in Seq(1..MaxBeats)
        /\ accepted \in 0..MaxBeats /\ 1..accepted = {}
    BY <2>1
  <2>3. WaitingBounded
    <3>1. Len(in) = 0 /\ Len(buf) = 0 /\ ~ halted
      BY <2>1 DEF W!Init
    <3> QED  BY <3>1 DEF WaitingBounded
  <2> QED  BY <2>1, <2>2, <2>3 DEF BeatsKept
<1>3. AlertsKept
  <2>1. /\ alerts = <<>> /\ item = [d \in D!Deliverers |-> None]
        /\ phase = [d \in D!Deliverers |-> "idle"] /\ offered = 0
    BY DEF D!Init
  <2>2. alerts \in Seq(D!Delivery) /\ offered \in 0..MaxAlerts /\ 1..offered = {}
    BY <2>1
  <2>3. Drainer \in D!Deliverers
    BY DEF D!Deliverers
  <2> QED  BY <2>1, <2>2, <2>3 DEF AlertsKept
<1>4. Signalled
  <2>1. \A w \in Workers : phase[w] = "idle"
    BY DEF D!Init, D!Deliverers
  <2>2. /\ promised = [beats |-> 0, alerts |-> 0] /\ accepted = 0 /\ offered = 0
        /\ writer = "select" /\ halted = FALSE /\ ended = FALSE
    BY DEF W!Init, D!Init
  <2> QED  BY <2>1, <2>2 DEF Signalled
<1> QED  BY <1>1, <1>2, <1>3, <1>4 DEF ShutdownInvariant

\* The signal comes before anybody left, so that it promises what is still
\* in good hands (main.go run).
LEMMA CancelKeeps == ShutdownInvariant /\ Cancel => ShutdownInvariant'
<1> SUFFICES ASSUME ShutdownInvariant, Cancel PROVE ShutdownInvariant'
  OBVIOUS
<1> USE DEF ShutdownInvariant
<1>1. /\ ~ halted /\ ~ ended /\ halted' = TRUE /\ ended' = TRUE
      /\ promised' = [beats |-> accepted, alerts |-> offered]
      /\ UNCHANGED <<in, buf, writer, available, rows, accepted, written>>
      /\ UNCHANGED <<alerts, item, phase, offered, refused, lost, delivered>>
      /\ UNCHANGED <<entry, index, queue, due, step, holds>>
  BY DEF Cancel, W!Halt, D!End, S!Stop, S!heap, S!tasks
<1>2. EntriesAlive'
  BY <1>1, StillKeeps DEF EntriesAlive
<1>3. BeatsKept'
  <2>1. WaitingBounded'
    <3>1. Len(buf) \in Nat /\ Len(in) \in Nat /\ accepted \in Nat
      BY DEF BeatsKept
    <3>2. Len(buf) <= MaxBatch /\ Len(in) <= QueueSize
      BY <1>1, Counted DEF WaitingBounded
    <3>3. accepted' - promised'.beats = 0
      BY <1>1, <3>1
    <3> QED  BY <1>1, <3>1, <3>2, <3>3 DEF WaitingBounded
  <2>2. NumbersOf(in') = NumbersOf(in) /\ NumbersOf(buf') = NumbersOf(buf)
    BY <1>1
  <2>3. writer' \notin {"flushAll", "stopped"}
    BY <1>1 DEF Signalled
  <2> QED  BY <1>1, <2>1, <2>2, <2>3 DEF BeatsKept
<1>4. AlertsKept'
  <2>1. D!InHand' = D!InHand
    BY <1>1 DEF D!InHand, D!Number
  <2>2. phase[Drainer] # "returned"
    BY <1>1 DEF AlertsKept, Signalled
  <2> QED  BY <1>1, <2>1, <2>2 DEF AlertsKept
<1>5. Signalled'
  BY <1>1 DEF Signalled, BeatsKept, AlertsKept
<1> QED  BY <1>2, <1>3, <1>4, <1>5

\* The steps that leave a part alone leave what is known of it.
LEMMA WriterRests ==
    ASSUME BeatsKept, UNCHANGED writerVars, UNCHANGED promised
    PROVE  BeatsKept'
BY DEF BeatsKept, WaitingBounded, BacklogHolds, writerVars

LEMMA DispatcherRests ==
    ASSUME AlertsKept, UNCHANGED dispatcherVars, UNCHANGED promised
    PROVE  AlertsKept'
<1>1. UNCHANGED <<alerts, item, phase, offered, refused, lost, delivered>>
  BY DEF dispatcherVars
<1>2. D!InHand' = D!InHand
  BY <1>1 DEF D!InHand, D!Number
<1> QED  BY <1>1, <1>2 DEF AlertsKept

LEMMA SchedulerRests ==
    ASSUME EntriesAlive, UNCHANGED schedulerVars
    PROVE  EntriesAlive'
<1>1. UNCHANGED <<entry, index, queue, due, step, holds>>
  BY DEF schedulerVars
<1> QED  BY <1>1, StillKeeps DEF EntriesAlive

\* Every step of the process keeps the three parts and the promise
\* (main.go run).
LEMMA ShutdownStep == ShutdownInvariant /\ [Next]_vars => ShutdownInvariant'
<1> SUFFICES ASSUME ShutdownInvariant, [Next]_vars PROVE ShutdownInvariant'
  OBVIOUS
<1> USE DEF ShutdownInvariant
\* What is promised stands while more is accepted and nobody leaves early.
<1>0. ASSUME EntriesAlive', BeatsKept', AlertsKept', UNCHANGED promised,
             UNCHANGED <<halted, ended>>, accepted <= accepted', offered <= offered',
             writer' \in {"drain", "flushAll", "stopped"} => halted,
             \A w \in Workers : phase'[w] = "returned" => ended
      PROVE  ShutdownInvariant'
  <2>1. promised'.beats <= accepted' /\ promised'.alerts <= offered'
    <3>1. /\ promised'.beats = promised.beats /\ promised'.alerts = promised.alerts
          /\ promised.beats \in Nat /\ promised.alerts \in Nat
          /\ promised.beats <= accepted /\ promised.alerts <= offered
      BY <1>0 DEF Signalled
    <3>2. accepted \in Nat /\ offered \in Nat /\ accepted' \in Nat /\ offered' \in Nat
      BY <1>0 DEF BeatsKept, AlertsKept
    <3> QED  BY <1>0, <3>1, <3>2
  <2> QED  BY <1>0, <2>1 DEF Signalled
<1>1. accepted <= accepted /\ offered <= offered
  BY DEF BeatsKept, AlertsKept
<1>2. CASE Cancel
  BY <1>2, CancelKeeps
<1>3. ASSUME NEW s \in Slots, Forward(s) PROVE ShutdownInvariant'
  <2>1. /\ UNCHANGED <<schedulerVars, dispatcherVars, promised>> /\ step[s] = "submit"
        /\ \/ W!Submit(entry[holds[s]].monitor)
           \/ UNCHANGED writerVars
    BY <1>3 DEF Forward
  <2>2. EntriesAlive' /\ AlertsKept'
    BY <2>1, SchedulerRests, DispatcherRests
  <2>3. UNCHANGED <<phase, ended, offered>>
    BY <2>1 DEF dispatcherVars
  <2>4. CASE UNCHANGED writerVars
    <3>1. BeatsKept' /\ UNCHANGED <<writer, halted, accepted>>
      BY <2>1, <2>4, WriterRests DEF writerVars
    <3> QED  BY <1>0, <1>1, <2>1, <2>2, <2>3, <3>1 DEF Signalled
  <2>5. CASE W!Submit(entry[holds[s]].monitor)
    <3>1. entry[holds[s]].monitor \in Monitors
      <4>1. holds[s] \in Entries /\ holds[s] # None
        BY <2>1 DEF EntriesAlive
      <4>2. holds[s] \in S!Held
        BY <4>1 DEF S!Held
      <4>3. entry[holds[s]] \in S!Entry
        BY <4>1, <4>2 DEF EntriesAlive, S!OnePlace
      <4> QED  BY <4>3 DEF S!Entry
    <3>2. PICK m \in Monitors : m = entry[holds[s]].monitor
      BY <3>1
    <3>3. W!Submit(m)
      BY <2>5, <3>2
    <3>4. BeatsKept' /\ accepted <= accepted' /\ UNCHANGED <<writer, halted>>
      BY <2>1, <3>3, SubmitKeeps
    <3> QED  BY <1>0, <1>1, <2>1, <2>2, <2>3, <3>4 DEF Signalled
  <2> QED  BY <2>1, <2>4, <2>5
<1>4. ASSUME NEW s \in Slots, Evaluate(s) PROVE ShutdownInvariant'
  <2>1. /\ S!Submitted(s) /\ UNCHANGED <<writerVars, promised>>
        /\ (\E c \in Channels : D!Enqueue(c)) \/ UNCHANGED dispatcherVars
    BY <1>4 DEF Evaluate
  <2>2. EntriesAlive' /\ BeatsKept'
    BY <2>1, TaskKeeps, WriterRests
  <2>3. UNCHANGED <<writer, halted, accepted>>
    BY <2>1 DEF writerVars
  <2>4. AlertsKept' /\ offered <= offered' /\ UNCHANGED <<phase, ended>>
    <3>1. CASE \E c \in Channels : D!Enqueue(c)
      BY <2>1, <3>1, EnqueueKeeps
    <3>2. CASE UNCHANGED dispatcherVars
      BY <1>1, <2>1, <3>2, DispatcherRests DEF dispatcherVars
    <3> QED  BY <2>1, <3>1, <3>2
  <2> QED  BY <1>0, <1>1, <2>1, <2>2, <2>3, <2>4 DEF Signalled
<1>5. CASE SchedulerSteps
  <2>1. UNCHANGED <<writerVars, dispatcherVars, promised>>
    BY <1>5 DEF SchedulerSteps
  <2>2. BeatsKept' /\ AlertsKept'
    BY <2>1, WriterRests, DispatcherRests
  <2>3. UNCHANGED <<writer, halted, accepted, phase, ended, offered>>
    BY <2>1 DEF writerVars, dispatcherVars
  <2>4. EntriesAlive'
    <3>1. ASSUME NEW m \in Monitors, S!Enter(m) \/ S!Change(m) \/ S!Leave(m) PROVE EntriesAlive'
      BY <3>1, EditKeeps
    <3>2. CASE S!Signal \/ S!Arm \/ S!Woken \/ S!Return
      <4>1. UNCHANGED <<entry, index, queue, due, step, holds>>
        BY <3>2 DEF S!Signal, S!Arm, S!Woken, S!Return, S!heap, S!tasks
      <4> QED  BY <4>1, StillKeeps DEF EntriesAlive
    <3>3. CASE S!TakeDue \/ S!WindDown \/ S!Tick \/ \E s \in Slots : S!Start(s)
      BY <3>3, LoopKeeps
    <3>4. ASSUME NEW s \in Slots, S!Checked(s) \/ S!Reschedule(s) \/ S!Finish(s)
          PROVE  EntriesAlive'
      BY <3>4, TaskKeeps
    <3> QED  BY <1>5, <3>1, <3>2, <3>3, <3>4 DEF SchedulerSteps
  <2> QED  BY <1>0, <1>1, <2>1, <2>2, <2>3, <2>4 DEF Signalled
<1>6. CASE WriterSteps
  <2>1. W!Run /\ UNCHANGED <<schedulerVars, dispatcherVars, promised>>
    BY <1>6 DEF WriterSteps
  <2>2. /\ BeatsKept' /\ UNCHANGED <<accepted, halted>>
        /\ writer' \in {"drain", "flushAll", "stopped"} => halted'
    BY <2>1, RunKeeps
  <2>3. EntriesAlive' /\ AlertsKept'
    BY <2>1, SchedulerRests, DispatcherRests
  <2>4. UNCHANGED <<phase, ended, offered>>
    BY <2>1 DEF dispatcherVars
  <2> QED  BY <1>0, <1>1, <2>1, <2>2, <2>3, <2>4 DEF Signalled
<1>7. CASE DispatcherSteps
  <2>1. PICK d \in D!Deliverers :
           D!Step(d) /\ UNCHANGED <<schedulerVars, writerVars, promised>>
    BY <1>7 DEF DispatcherSteps, D!Deliverers
  <2>2. /\ AlertsKept' /\ UNCHANGED <<offered, ended>>
        /\ \A w \in Workers : phase'[w] = "returned" => ended'
    BY <2>1, StepKeeps
  <2>3. EntriesAlive' /\ BeatsKept'
    BY <2>1, SchedulerRests, WriterRests
  <2>4. UNCHANGED <<writer, halted, accepted>>
    BY <2>1 DEF writerVars
  <2> QED  BY <1>0, <1>1, <2>1, <2>2, <2>3, <2>4 DEF Signalled
<1>8. CASE UNCHANGED vars
  <2>1. UNCHANGED <<schedulerVars, writerVars, dispatcherVars, promised>>
    BY <1>8 DEF vars
  <2>2. EntriesAlive' /\ BeatsKept' /\ AlertsKept'
    BY <2>1, SchedulerRests, WriterRests, DispatcherRests
  <2>3. UNCHANGED <<writer, halted, accepted, phase, ended, offered>>
    BY <2>1 DEF writerVars, dispatcherVars
  <2> QED  BY <1>0, <1>1, <2>1, <2>2, <2>3 DEF Signalled
<1> QED  BY <1>2, <1>3, <1>4, <1>5, <1>6, <1>7, <1>8 DEF Next

\* The parts keep what they took in, whoever goes first (main.go run,
\* scheduler.go Run, writer.go Run, dispatcher.go Run).
THEOREM Invariance == Spec => []ShutdownInvariant
<1> QED  BY InitInvariant, ShutdownStep, PTL DEF Spec

\* By the exit of the process every alert it had accepted when it was told to
\* stop is delivered, given up on or refused, and every heartbeat is written, if
\* a batch, a queue and what came after the signal fit under the ceiling of the
\* backlog (writer.go Run, dispatcher.go Run, main.go run).
THEOREM StopKeepsPromises == Spec => []PromisesKept
<1>1. ShutdownInvariant => PromisesKept
  <2> SUFFICES ASSUME ShutdownInvariant, Exited
               PROVE  /\ BacklogHolds => 1..promised.beats \subseteq ToSet(written)
                      /\ 1..promised.alerts \subseteq refused \cup lost \cup delivered
    BY DEF PromisesKept
  <2> USE DEF ShutdownInvariant, Exited
  <2>1. ASSUME BacklogHolds PROVE 1..promised.beats \subseteq ToSet(written)
    <3>1. NumbersOf(buf) = {} /\ \A n \in NumbersOf(in) : promised.beats < n
      BY DEF BeatsKept, NumbersOf
    <3>2. promised.beats \in Nat /\ accepted \in Nat /\ promised.beats <= accepted
      BY DEF Signalled, BeatsKept
    <3>3. ASSUME NEW n \in 1..promised.beats PROVE n \in 1..accepted /\ n \notin NumbersOf(in)
      BY <3>1, <3>2
    <3> QED  BY <2>1, <3>1, <3>3 DEF BeatsKept
  <2>2. 1..promised.alerts \subseteq refused \cup lost \cup delivered
    <3>1. \A n \in NumbersOf(alerts) : promised.alerts < n
      BY DEF AlertsKept
    <3>2. promised.alerts \in Nat /\ offered \in Nat /\ promised.alerts <= offered
      BY DEF Signalled, AlertsKept
    <3>3. D!InHand = {}
      <4>1. \A d \in D!Deliverers : phase[d] = "returned"
        BY DEF AlertsKept, D!Deliverers
      <4> QED  BY <4>1 DEF AlertsKept, D!InHand
    <3>4. ASSUME NEW n \in 1..promised.alerts
          PROVE  n \in 1..offered /\ n \notin NumbersOf(alerts)
      BY <3>1, <3>2
    <3> QED  BY <3>3, <3>4 DEF AlertsKept
  <2> QED  BY <2>1, <2>2
<1> QED  BY <1>1, Invariance, PTL

\* Nobody leaves before the process is told to: the writer writes on, and
\* the drain waits for the workers (writer.go Run, dispatcher.go Run).
NobodyLeavesEarly ==
    /\ writer = "stopped" => halted
    /\ phase[Drainer] = "returned" => ended

THEOREM NobodyLeavesBeforeTheSignal == Spec => []NobodyLeavesEarly
<1>1. ShutdownInvariant => NobodyLeavesEarly
  BY DEF ShutdownInvariant, Signalled, AlertsKept, NobodyLeavesEarly
<1> QED  BY <1>1, Invariance, PTL
=============================================================================
