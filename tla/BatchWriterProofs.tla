-------------------------- MODULE BatchWriterProofs --------------------------
(***************************************************************************)
(* What TLAPS proves of the batch writer, for any number of heartbeats,    *)
(* any size of queue, batch and backlog, and any behaviour of the database, *)
(* and of the pages in which the heartbeats are read, the module Timeline. *)
(***************************************************************************)
EXTENDS BatchWriter, Integers, FiniteSetTheorems, SequenceTheorems, TLAPS

\* The constants and the variables of Timeline.
CONSTANTS None, Times, Origins, Limits, Starts, MaxWrites, MaxPages

VARIABLES changes, beats, outages, reader, found, writes, pages, steady

USE WriterAssumption

-----------------------------------------------------------------------------
(***************************************************************************)
(* Sequences of heartbeats.                                                *)
(***************************************************************************)
\* The numbers of a sequence of heartbeats, one by one
\* (domain/heartbeat.go Heartbeat).
LEMMA NumbersOf ==
    ASSUME NEW b \in Seq(Beat)
    PROVE  /\ Numbers(b) \in Seq(1..MaxBeats) /\ Len(Numbers(b)) = Len(b)
           /\ DOMAIN Numbers(b) = 1..Len(b) /\ DOMAIN b = 1..Len(b) /\ Len(b) \in Nat
           /\ \A i \in 1..Len(b) : /\ Numbers(b)[i] = b[i].number
                                   /\ b[i] \in Beat /\ b[i].number \in 1..MaxBeats
<1>1. /\ DOMAIN b = 1..Len(b) /\ Len(b) \in Nat
      /\ \A i \in 1..Len(b) : b[i] \in Beat
  OBVIOUS
<1>2. \A i \in 1..Len(b) : b[i].number \in 1..MaxBeats
  BY <1>1 DEF Beat
<1>3. Numbers(b) \in [1..Len(b) -> 1..MaxBeats] /\ \A i \in 1..Len(b) : Numbers(b)[i] = b[i].number
  BY <1>2 DEF Numbers
<1>4. Numbers(b) \in Seq(1..MaxBeats) /\ Len(Numbers(b)) = Len(b)
  BY <1>1, <1>3
<1> QED  BY <1>1, <1>2, <1>3, <1>4

\* What is left of the buffer when its first k heartbeats are taken away
\* (writer.go flush, retain).
LEMMA Rest ==
    ASSUME NEW b \in Seq(Beat), NEW k \in 0..Len(b)
    PROVE  LET r == SubSeq(b, k + 1, Len(b)) IN
           /\ r \in Seq(Beat) /\ Len(r) = Len(b) - k
           /\ \A i \in 1..Len(r) : i + k \in 1..Len(b) /\ r[i] = b[i + k]
BY SMTT(20)

\* The first k heartbeats of the buffer (writer.go flush).
LEMMA First ==
    ASSUME NEW b \in Seq(Beat), NEW k \in 0..Len(b)
    PROVE  LET f == SubSeq(b, 1, k) IN
           /\ f \in Seq(Beat) /\ Len(f) = k
           /\ \A i \in 1..k : f[i] = b[i]
BY SMTT(20)

\* Two sequences with the same elements at the same places are equal.
LEMMA SameSequence ==
    ASSUME NEW S, NEW s \in Seq(S), NEW t \in Seq(S), Len(s) = Len(t),
           \A i \in 1..Len(s) : s[i] = t[i]
    PROVE  s = t
OBVIOUS

\* Two sequences joined, element by element.
LEMMA JoinOf ==
    ASSUME NEW S, NEW s \in Seq(S), NEW t \in Seq(S)
    PROVE  /\ s \o t \in Seq(S) /\ Len(s \o t) = Len(s) + Len(t)
           /\ \A i \in 1..(Len(s) + Len(t)) :
                 (s \o t)[i] = IF i <= Len(s) THEN s[i] ELSE t[i - Len(s)]
OBVIOUS

\* To append an element is to join a sequence of one.
LEMMA AppendIsJoin ==
    ASSUME NEW S, NEW s \in Seq(S), NEW n \in S, NEW g \in Seq(S), Len(g) = 1, g[1] = n
    PROVE  Append(s, n) = s \o g
<1>1. Append(s, n) \in Seq(S) /\ Len(Append(s, n)) = Len(s) + 1 /\ Len(s) \in Nat
  OBVIOUS
<1>2. /\ s \o g \in Seq(S) /\ Len(s \o g) = Len(s) + Len(g)
      /\ \A i \in 1..(Len(s) + Len(g)) :
            (s \o g)[i] = IF i <= Len(s) THEN s[i] ELSE g[i - Len(s)]
  BY JoinOf
<1>3. ASSUME NEW i \in 1..(Len(s) + 1) PROVE Append(s, n)[i] = (s \o g)[i]
  <2>1. CASE i = Len(s) + 1
    <3>1. ~ (i <= Len(s)) /\ i - Len(s) = 1
      BY <1>1, <2>1
    <3>2. (s \o g)[i] = g[1]
      BY <1>2, <3>1
    <3> QED  BY <1>1, <2>1, <3>2
  <2>2. CASE i # Len(s) + 1
    <3>1. i <= Len(s) /\ i \in 1..Len(s)
      BY <1>1, <2>2
    <3>2. (s \o g)[i] = s[i]
      BY <1>2, <3>1
    <3> QED  BY <1>1, <3>1, <3>2
  <2> QED  BY <2>1, <2>2
<1>4. s \o g \in Seq(S) /\ Len(s \o g) = Len(s) + 1
  BY <1>2, Zenon
<1> QED  BY <1>1, <1>3, <1>4, SameSequence

\* A heartbeat put last, and its number (writer.go Submit, Run).
LEMMA AppendNumbers ==
    ASSUME NEW b \in Seq(Beat), NEW e \in Beat, NEW u, u = Append(b, e)
    PROVE  /\ u \in Seq(Beat) /\ Len(u) = Len(b) + 1
           /\ Numbers(u) = Append(Numbers(b), e.number)
<1>1. /\ u \in Seq(Beat) /\ Len(u) = Len(b) + 1 /\ Len(b) \in Nat
      /\ u[Len(b) + 1] = e /\ \A i \in 1..Len(b) : u[i] = b[i]
  OBVIOUS
<1>2. /\ Numbers(b) \in Seq(1..MaxBeats) /\ Len(Numbers(b)) = Len(b)
      /\ \A i \in 1..Len(b) : Numbers(b)[i] = b[i].number
  BY NumbersOf
<1>3. /\ Numbers(u) \in Seq(1..MaxBeats) /\ Len(Numbers(u)) = Len(b) + 1
      /\ \A i \in 1..(Len(b) + 1) : Numbers(u)[i] = u[i].number
  BY <1>1, NumbersOf
<1>4. e.number \in 1..MaxBeats
  BY DEF Beat
<1> DEFINE s == Numbers(b)
           n == e.number
           a == Append(s, n)
<1> HIDE DEF s, n
<1>5. /\ a \in Seq(1..MaxBeats) /\ Len(a) = Len(b) + 1
      /\ a[Len(b) + 1] = n /\ \A i \in 1..Len(b) : a[i] = s[i]
  BY <1>1, <1>2, <1>4 DEF s, n
<1> HIDE DEF a
<1>6. ASSUME NEW i \in 1..(Len(b) + 1) PROVE Numbers(u)[i] = a[i]
  <2>1. CASE i = Len(b) + 1
    BY <1>1, <1>3, <1>5, <2>1 DEF n
  <2>2. CASE i # Len(b) + 1
    <3>1. i \in 1..Len(b)
      BY <1>1, <2>2
    <3> QED  BY <1>1, <1>2, <1>3, <1>5, <3>1 DEF s
  <2> QED  BY <2>1, <2>2
<1>7. Numbers(u) = a
  BY <1>3, <1>5, <1>6, SameSequence
<1> QED  BY <1>1, <1>7 DEF a, s, n

\* A batch is the first heartbeats of a buffer that has some
\* (writer.go flush).
LEMMA BatchIsFirst ==
    ASSUME TypeOK, buf # <<>>
    PROVE  \E k \in 1..Len(buf) : Batch = SubSeq(buf, 1, k) /\ k <= MaxBatch /\ Len(Batch) = k
                                  /\ (k < MaxBatch => k = Len(buf))
<1>1. buf \in Seq(Beat) /\ Len(buf) \in Nat /\ Len(buf) > 0
  BY DEF TypeOK
<1>2. Smaller(Len(buf), MaxBatch) \in 1..Len(buf) /\ Smaller(Len(buf), MaxBatch) <= MaxBatch
      /\ (Smaller(Len(buf), MaxBatch) < MaxBatch => Smaller(Len(buf), MaxBatch) = Len(buf))
  BY <1>1 DEF Smaller
<1> QED  BY <1>1, <1>2, First DEF Batch

\* Two sequences of numbers in order, one before the other, are in order
\* together (writer.go WriteHeartbeats appends to what is written).
LEMMA OrderedJoin ==
    ASSUME NEW s \in Seq(Nat), NEW t \in Seq(Nat), Ordered(s), Ordered(t), Before(s, t),
           NEW u, u = s \o t
    PROVE  /\ Ordered(u) /\ ToSet(u) = ToSet(s) \cup ToSet(t)
           /\ \A r : Before(r, s) /\ Before(r, t) => Before(r, u)
           /\ \A r : Before(s, r) /\ Before(t, r) => Before(u, r)
<1>1. /\ Len(s) \in Nat /\ Len(t) \in Nat
      /\ DOMAIN s = 1..Len(s) /\ DOMAIN t = 1..Len(t) /\ DOMAIN u = 1..(Len(s) + Len(t))
      /\ \A i \in 1..(Len(s) + Len(t)) :
            u[i] = IF i <= Len(s) THEN s[i] ELSE t[i - Len(s)]
  OBVIOUS
<1>2. \A i \in 1..Len(s) : i \in DOMAIN u /\ u[i] = s[i]
  BY <1>1
<1>3. \A i \in 1..Len(t) : i + Len(s) \in DOMAIN u /\ u[i + Len(s)] = t[i]
  BY <1>1
<1>4. \A i \in DOMAIN u :
         \/ i \in 1..Len(s) /\ u[i] = s[i]
         \/ i - Len(s) \in 1..Len(t) /\ u[i] = t[i - Len(s)]
  <2> TAKE i \in DOMAIN u
  <2>0. i \in 1..(Len(s) + Len(t))
    BY <1>1
  <2>1. CASE i \in 1..Len(s)
    BY <1>2, <2>1
  <2>2. CASE ~ (i \in 1..Len(s))
    <3>1. i - Len(s) \in 1..Len(t) /\ (i - Len(s)) + Len(s) = i
      BY <1>1, <2>0, <2>2
    <3> QED  BY <1>3, <3>1
  <2> QED  BY <2>1, <2>2
<1>5. Ordered(u)
  <2> SUFFICES ASSUME NEW i \in DOMAIN u, NEW j \in DOMAIN u, i < j PROVE u[i] < u[j]
    BY DEF Ordered
  <2> QED  BY <1>1, <1>4 DEF Ordered, Before
<1>6. ToSet(u) = ToSet(s) \cup ToSet(t)
  <2>1. ASSUME NEW x \in ToSet(u) PROVE x \in ToSet(s) \cup ToSet(t)
    <3>1. PICK i \in DOMAIN u : x = u[i]
      BY <2>1 DEF ToSet
    <3> QED  BY <1>1, <1>4, <3>1 DEF ToSet
  <2>2. ASSUME NEW x \in ToSet(s) PROVE x \in ToSet(u)
    BY <1>1, <1>2, <2>2 DEF ToSet
  <2>3. ASSUME NEW x \in ToSet(t) PROVE x \in ToSet(u)
    BY <1>1, <1>3, <2>3 DEF ToSet
  <2> QED  BY <2>1, <2>2, <2>3
<1>7. ASSUME NEW r, Before(r, s), Before(r, t) PROVE Before(r, u)
  BY <1>1, <1>4, <1>7 DEF Before
<1>8. ASSUME NEW r, Before(s, r), Before(t, r) PROVE Before(u, r)
  BY <1>1, <1>4, <1>8 DEF Before
<1> QED  BY <1>5, <1>6, <1>7, <1>8

\* One before the other, they have no number in common
\* (writer.go: a heartbeat is written once).
LEMMA BeforeIsApart ==
    ASSUME NEW s \in Seq(Nat), NEW t \in Seq(Nat), Before(s, t)
    PROVE  ToSet(s) \cap ToSet(t) = {}
<1> SUFFICES ASSUME NEW i \in DOMAIN s, NEW j \in DOMAIN t, s[i] = t[j] PROVE FALSE
  BY DEF ToSet
<1>1. s[i] < t[j] /\ s[i] \in Nat
  BY DEF Before
<1> QED  BY <1>1

\* The first k heartbeats of a sequence and the others
\* (writer.go flush, retain, Run).
CutAt(b, k, head, tail) ==
    /\ k \in 0..Len(b)
    /\ head = SubSeq(b, 1, k)
    /\ tail = SubSeq(b, k + 1, Len(b))

\* Numbers put after others (timeseries.go WriteHeartbeats, writer.go Run).
Joined(s, t, u) == u = s \o t

\* Heartbeats in order, cut in two (writer.go flush, retain, Run).
LEMMA Cut ==
    ASSUME NEW b \in Seq(Beat), Ordered(Numbers(b)),
           NEW k, NEW head, NEW tail, CutAt(b, k, head, tail),
           NEW first, first = Numbers(head), NEW rest, rest = Numbers(tail)
    PROVE  /\ first \in Seq(1..MaxBeats) /\ rest \in Seq(1..MaxBeats)
           /\ Ordered(first) /\ Ordered(rest) /\ Before(first, rest)
           /\ ToSet(Numbers(b)) = ToSet(first) \cup ToSet(rest)
           /\ \A r : Before(r, Numbers(b)) => Before(r, first) /\ Before(r, rest)
           /\ \A r : Before(Numbers(b), r) => Before(first, r) /\ Before(rest, r)
<1>0. /\ k \in 0..Len(b)
      /\ first = Numbers(SubSeq(b, 1, k)) /\ rest = Numbers(SubSeq(b, k + 1, Len(b)))
  BY DEF CutAt
<1>1. /\ first \in Seq(1..MaxBeats) /\ DOMAIN first = 1..k
      /\ \A i \in 1..k : first[i] = Numbers(b)[i] /\ i \in 1..Len(b)
  <2> DEFINE f == SubSeq(b, 1, k)
  <2>1. f \in Seq(Beat) /\ Len(f) = k /\ \A i \in 1..k : f[i] = b[i] /\ i \in 1..Len(b)
    BY <1>0, First
  <2>2. first = Numbers(f)
    BY <1>0
  <2> HIDE DEF f
  <2>3. /\ Numbers(f) \in Seq(1..MaxBeats) /\ DOMAIN Numbers(f) = 1..k
        /\ \A i \in 1..k : Numbers(f)[i] = f[i].number
    BY <2>1, NumbersOf
  <2>4. \A i \in 1..Len(b) : Numbers(b)[i] = b[i].number
    BY NumbersOf
  <2> QED  BY <2>1, <2>2, <2>3, <2>4
<1>2. /\ rest \in Seq(1..MaxBeats) /\ DOMAIN rest = 1..(Len(b) - k)
      /\ \A i \in 1..(Len(b) - k) : rest[i] = Numbers(b)[i + k] /\ i + k \in 1..Len(b)
  <2> DEFINE r == SubSeq(b, k + 1, Len(b))
  <2>1. /\ r \in Seq(Beat) /\ Len(r) = Len(b) - k
        /\ \A i \in 1..(Len(b) - k) : r[i] = b[i + k] /\ i + k \in 1..Len(b)
    BY <1>0, Rest
  <2>2. rest = Numbers(r) /\ Len(b) - k \in Nat
    BY <1>0
  <2> HIDE DEF r
  <2>3. /\ Numbers(r) \in Seq(1..MaxBeats) /\ DOMAIN Numbers(r) = 1..(Len(b) - k)
        /\ \A i \in 1..(Len(b) - k) : Numbers(r)[i] = r[i].number
    BY <2>1, NumbersOf
  <2>4. \A i \in 1..Len(b) : Numbers(b)[i] = b[i].number
    BY NumbersOf
  <2> QED  BY <2>1, <2>2, <2>3, <2>4
<1>3. DOMAIN Numbers(b) = 1..Len(b) /\ Len(b) \in Nat /\ k \in Nat
  BY <1>0, NumbersOf
<1> DEFINE all == Numbers(b)
<1> HIDE DEF all
<1>4. \A i \in 1..k : i \in DOMAIN all /\ first[i] = all[i]
  BY <1>1, <1>3 DEF all
<1>5. \A i \in 1..(Len(b) - k) : i + k \in DOMAIN all /\ rest[i] = all[i + k]
  BY <1>2, <1>3 DEF all
<1>6. \A i \in DOMAIN all : \/ i \in 1..k /\ all[i] = first[i]
                            \/ i - k \in 1..(Len(b) - k) /\ all[i] = rest[i - k]
  <2> SUFFICES ASSUME NEW i \in 1..Len(b), ~ (i \in 1..k)
               PROVE  i - k \in 1..(Len(b) - k) /\ all[i] = rest[i - k]
    BY <1>3, <1>4 DEF all
  <2>1. i - k \in 1..(Len(b) - k) /\ (i - k) + k = i
    BY <1>3
  <2> QED  BY <1>5, <2>1
<1>7. Ordered(first)
  BY <1>1, <1>4 DEF Ordered, all
<1>8. Ordered(rest)
  <2> SUFFICES ASSUME NEW i \in 1..(Len(b) - k), NEW j \in 1..(Len(b) - k), i < j
               PROVE  rest[i] < rest[j]
    BY <1>2 DEF Ordered
  <2>1. i + k < j + k
    BY <1>3
  <2> QED  BY <1>5, <2>1 DEF Ordered, all
<1>9. Before(first, rest)
  <2> SUFFICES ASSUME NEW i \in 1..k, NEW j \in 1..(Len(b) - k) PROVE first[i] < rest[j]
    BY <1>1, <1>2 DEF Before
  <2>1. i < j + k
    BY <1>3
  <2> QED  BY <1>4, <1>5, <2>1 DEF Ordered, all
<1>10. ToSet(all) = ToSet(first) \cup ToSet(rest)
  <2>1. ASSUME NEW x \in ToSet(all) PROVE x \in ToSet(first) \cup ToSet(rest)
    <3>1. PICK i \in DOMAIN all : x = all[i]
      BY <2>1 DEF ToSet
    <3> QED  BY <1>1, <1>2, <1>6, <3>1 DEF ToSet
  <2>2. ASSUME NEW x \in ToSet(first) PROVE x \in ToSet(all)
    BY <1>1, <1>4, <2>2 DEF ToSet
  <2>3. ASSUME NEW x \in ToSet(rest) PROVE x \in ToSet(all)
    BY <1>2, <1>5, <2>3 DEF ToSet
  <2> QED  BY <2>1, <2>2, <2>3
<1>11. /\ \A r : Before(r, all) => Before(r, first) /\ Before(r, rest)
       /\ \A r : Before(all, r) => Before(first, r) /\ Before(rest, r)
  BY <1>1, <1>2, <1>4, <1>5 DEF Before
<1> QED  BY <1>1, <1>2, <1>7, <1>8, <1>9, <1>10, <1>11 DEF all

-----------------------------------------------------------------------------
(***************************************************************************)
(* The invariant.                                                          *)
(***************************************************************************)
\* The three places a heartbeat may be in, as sequences of numbers
\* (writer.go BatchWriter).
LEMMA Places ==
    ASSUME TypeOK
    PROVE  /\ written \in Seq(1..MaxBeats) /\ buf \in Seq(Beat) /\ in \in Seq(Beat)
           /\ Numbers(buf) \in Seq(1..MaxBeats) /\ Numbers(in) \in Seq(1..MaxBeats)
           /\ written \in Seq(Nat) /\ Numbers(buf) \in Seq(Nat) /\ Numbers(in) \in Seq(Nat)
<1>1. written \in Seq(1..MaxBeats) /\ buf \in Seq(Beat) /\ in \in Seq(Beat)
  BY DEF TypeOK
<1>2. Numbers(buf) \in Seq(1..MaxBeats) /\ Numbers(in) \in Seq(1..MaxBeats)
  BY <1>1, NumbersOf
<1>3. \A s \in Seq(1..MaxBeats) : s \in Seq(Nat)
  OBVIOUS
<1> QED  BY <1>1, <1>2, <1>3

\* A writer starts with nothing accepted (writer.go NewBatchWriter).
LEMMA InitInvariant == Init => WriterInvariant
<1> SUFFICES ASSUME Init PROVE WriterInvariant
  OBVIOUS
<1>1. TypeOK
  <2>1. /\ in = <<>> /\ buf = <<>> /\ written = <<>> /\ dropped = {} /\ accepted = 0
        /\ writer = "select" /\ rows = Monitors
        /\ halted = FALSE /\ available = TRUE /\ failed = FALSE
    BY DEF Init
  <2>2. <<>> \in Seq(Beat) /\ <<>> \in Seq(1..MaxBeats) /\ Len(<<>>) = 0
    OBVIOUS
  <2>3. 0 <= QueueSize /\ 0 \in 0..MaxBeats
    OBVIOUS
  <2>4. in \in Seq(Beat) /\ Len(in) <= QueueSize /\ buf \in Seq(Beat)
    BY <2>1, <2>2, <2>3
  <2>5. written \in Seq(1..MaxBeats) /\ accepted \in 0..MaxBeats
    BY <2>1, <2>2, <2>3
  <2>6. dropped \subseteq 1..MaxBeats /\ rows \subseteq Monitors
    BY <2>1
  <2>7. writer \in {"select", "flush", "drain", "flushAll", "stopped"}
    BY <2>1
  <2> QED  BY <2>1, <2>4, <2>5, <2>6, <2>7 DEF TypeOK
<1>2. Numbers(buf) = <<>> /\ Numbers(in) = <<>> /\ written = <<>>
  BY DEF Init, Numbers
<1>3. Conserved
  <2>1. ToSet(<<>>) = {} /\ 1..accepted = {} /\ dropped = {}
    BY DEF ToSet, Init
  <2>2. Ordered(<<>>) /\ Before(<<>>, <<>>)
    BY DEF Ordered, Before
  <2> QED  BY <1>2, <2>1, <2>2 DEF Conserved
<1>4. DroppedIsOld /\ FlushesSome /\ BacklogBounded /\ AwayIsFailed /\ StopsEmpty
  BY DEF Init, DroppedIsOld, FlushesSome, BacklogBounded, AwayIsFailed, StopsEmpty
<1> QED  BY <1>1, <1>3, <1>4 DEF WriterInvariant

\* Moving the first heartbeats of one sequence to the end of the one before
\* keeps every heartbeat and the order (writer.go Run, drainQueue, flush).
LEMMA MoveKeepsAll ==
    ASSUME NEW s \in Seq(1..MaxBeats), NEW b \in Seq(Beat),
           Ordered(s), Ordered(Numbers(b)), Before(s, Numbers(b)),
           NEW k, NEW head, NEW tail, CutAt(b, k, head, tail),
           NEW t, Joined(s, Numbers(head), t),
           NEW rest, rest = Numbers(tail)
    PROVE  /\ t \in Seq(1..MaxBeats)
           /\ Ordered(t) /\ Ordered(rest) /\ Before(t, rest)
           /\ ToSet(t) \cup ToSet(rest) = ToSet(s) \cup ToSet(Numbers(b))
           /\ ToSet(rest) \subseteq ToSet(Numbers(b))
           /\ \A r : Before(s, r) /\ Before(Numbers(b), r) => Before(t, r) /\ Before(rest, r)
           /\ \A r : Before(r, s) /\ Before(r, Numbers(b)) => Before(r, t) /\ Before(r, rest)
<1> DEFINE f == Numbers(head)
<1>1. /\ f \in Seq(1..MaxBeats) /\ rest \in Seq(1..MaxBeats)
      /\ Ordered(f) /\ Ordered(rest) /\ Before(f, rest)
      /\ ToSet(Numbers(b)) = ToSet(f) \cup ToSet(rest)
      /\ \A r : Before(r, Numbers(b)) => Before(r, f) /\ Before(r, rest)
      /\ \A r : Before(Numbers(b), r) => Before(f, r) /\ Before(rest, r)
  BY Cut
<1>2. t = s \o f
  BY DEF Joined
<1> HIDE DEF f
<1>3. s \in Seq(Nat) /\ f \in Seq(Nat)
  <2>1. \A x \in Seq(1..MaxBeats) : x \in Seq(Nat)
    OBVIOUS
  <2> QED  BY <1>1, <2>1
<1>4. Before(s, f)
  BY <1>1
<1>7. t \in Seq(1..MaxBeats)
  <2>1. \A x, y \in Seq(1..MaxBeats) : x \o y \in Seq(1..MaxBeats)
    OBVIOUS
  <2> QED  BY <1>1, <1>2, <2>1
<1>5. /\ Ordered(t) /\ ToSet(t) = ToSet(s) \cup ToSet(f)
      /\ \A r : Before(r, s) /\ Before(r, f) => Before(r, t)
      /\ \A r : Before(s, r) /\ Before(f, r) => Before(t, r)
  <2>1. Ordered(s) /\ Ordered(f)
    BY <1>1
  <2> QED  BY ONLY <1>2, <1>3, <1>4, <2>1, OrderedJoin
<1>6. Before(s, rest)
  BY <1>1
<1> QED  BY <1>1, <1>5, <1>6, <1>7

\* A number greater than all the others, put last (writer.go Submit).
LEMMA LargestLast ==
    ASSUME NEW s \in Seq(Nat), NEW n \in Nat, Ordered(s), \A x \in ToSet(s) : x < n,
           NEW u, u = Append(s, n)
    PROVE  /\ Ordered(u) /\ ToSet(u) = ToSet(s) \cup {n}
           /\ \A r : Before(r, s) /\ (\A x \in ToSet(r) : x < n) => Before(r, u)
<1>1. /\ Len(s) \in Nat /\ DOMAIN s = 1..Len(s) /\ DOMAIN u = 1..(Len(s) + 1)
      /\ \A i \in 1..Len(s) : u[i] = s[i]
      /\ u[Len(s) + 1] = n
  OBVIOUS
<1>2. \A i \in DOMAIN u :
         \/ i \in DOMAIN s /\ u[i] = s[i]
         \/ i = Len(s) + 1 /\ u[i] = n
  <2> SUFFICES ASSUME NEW i \in 1..(Len(s) + 1), i # Len(s) + 1 PROVE i \in 1..Len(s)
    BY <1>1
  <2> QED  BY <1>1
<1>3. \A i \in DOMAIN s : s[i] \in ToSet(s) /\ s[i] < n /\ i \in DOMAIN u /\ u[i] = s[i]
                         /\ i < Len(s) + 1
  <2>1. \A i \in DOMAIN s : s[i] \in ToSet(s)
    BY DEF ToSet
  <2> QED  BY <1>1, <2>1
<1>4. Ordered(u)
  <2> SUFFICES ASSUME NEW i \in DOMAIN u, NEW j \in DOMAIN u, i < j PROVE u[i] < u[j]
    BY DEF Ordered
  <2>1. i # Len(s) + 1
    BY <1>1
  <2>2. i \in DOMAIN s /\ u[i] = s[i]
    BY <1>2, <2>1
  <2> QED  BY <1>2, <1>3, <2>2 DEF Ordered
<1>5. ToSet(u) = ToSet(s) \cup {n}
  <2>1. ASSUME NEW x \in ToSet(u) PROVE x \in ToSet(s) \cup {n}
    <3>1. PICK i \in DOMAIN u : x = u[i]
      BY <2>1 DEF ToSet
    <3> QED  BY <1>2, <1>3, <3>1
  <2>2. ASSUME NEW x \in ToSet(s) PROVE x \in ToSet(u)
    BY <1>3, <2>2 DEF ToSet
  <2>3. n \in ToSet(u)
    <3>1. Len(s) + 1 \in DOMAIN u
      BY <1>1
    <3> QED  BY <1>1, <3>1 DEF ToSet
  <2> QED  BY <2>1, <2>2, <2>3
<1>6. ASSUME NEW r, Before(r, s), \A x \in ToSet(r) : x < n PROVE Before(r, u)
  <2>1. \A i \in DOMAIN r : r[i] < n
    BY <1>6 DEF ToSet
  <2> QED  BY <1>2, <1>6, <2>1 DEF Before
<1> QED  BY <1>4, <1>5, <1>6

-----------------------------------------------------------------------------
(***************************************************************************)
(* The four ways a heartbeat moves.                                        *)
(***************************************************************************)
\* It enters the queue (writer.go Submit).
LEMMA Submitted ==
    ASSUME TypeOK, Conserved, DroppedIsOld, NEW m \in Monitors, Submit(m)
    PROVE  /\ in' \in Seq(Beat) /\ Len(in') <= QueueSize /\ accepted' \in 0..MaxBeats
           /\ Conserved' /\ DroppedIsOld'
<1> DEFINE n == accepted + 1
           beat == [number |-> n, monitor |-> m]
<1>1. /\ in' = Append(in, beat) /\ accepted' = n
      /\ buf' = buf /\ written' = written /\ dropped' = dropped
      /\ n \in 1..MaxBeats /\ Len(in) < QueueSize /\ accepted \in Nat
  BY DEF Submit, TypeOK
<1>2. beat \in Beat /\ beat.number = n
  BY <1>1 DEF Beat
<1> HIDE DEF beat
<1>3. in \in Seq(Beat) /\ Len(in) \in Nat
  BY DEF TypeOK
<1>4. in' \in Seq(Beat) /\ Len(in') = Len(in) + 1 /\ Numbers(in') = Append(Numbers(in), n)
  BY <1>1, <1>2, <1>3, AppendNumbers
<1>5. /\ \A x \in ToSet(written) \cup ToSet(Numbers(buf)) \cup ToSet(Numbers(in)) \cup dropped : x < n
      /\ 1..n = 1..accepted \cup {n}
      /\ n \notin 1..accepted
  <2>1. ToSet(written) \cup ToSet(Numbers(buf)) \cup ToSet(Numbers(in)) \cup dropped = 1..accepted
    BY DEF Conserved
  <2>2. /\ \A x \in 1..accepted : x < n
        /\ 1..n = 1..accepted \cup {n}
        /\ n \notin 1..accepted
    BY <1>1
  <2> QED  BY <2>1, <2>2
<1>6. /\ Ordered(Numbers(in')) /\ ToSet(Numbers(in')) = ToSet(Numbers(in)) \cup {n}
      /\ \A r : Before(r, Numbers(in)) /\ (\A x \in ToSet(r) : x < n) => Before(r, Numbers(in'))
  <2>1. Numbers(in) \in Seq(Nat) /\ n \in Nat
    BY <1>1, Places
  <2>2. Ordered(Numbers(in))
    BY DEF Conserved
  <2> QED  BY <1>4, <1>5, <2>1, <2>2, LargestLast
<1> HIDE DEF n
<1>7. Conserved'
  <2>1. Before(written, Numbers(in')) /\ Before(Numbers(buf), Numbers(in'))
    BY <1>5, <1>6 DEF Conserved
  <2>2. dropped \cup ToSet(written) \cup ToSet(Numbers(buf)) \cup ToSet(Numbers(in')) = 1..n
    BY <1>5, <1>6 DEF Conserved
  <2>3. dropped \cap (ToSet(written) \cup ToSet(Numbers(buf)) \cup ToSet(Numbers(in'))) = {}
    <3>1. dropped \subseteq 1..accepted
      BY DEF Conserved
    <3> QED  BY <1>5, <1>6, <3>1 DEF Conserved
  <2> QED  BY <1>1, <1>6, <2>1, <2>2, <2>3 DEF Conserved
<1>8. DroppedIsOld'
  BY <1>1, <1>5, <1>6 DEF DroppedIsOld
<1>9. Len(in') <= QueueSize /\ accepted' \in 0..MaxBeats
  BY <1>1, <1>3, <1>4 DEF n
<1> QED  BY <1>4, <1>7, <1>8, <1>9

\* It goes from the queue to the buffer (writer.go Run, drainQueue).
LEMMA Taken ==
    ASSUME TypeOK, Conserved, DroppedIsOld, in # <<>>,
           buf' = Append(buf, Head(in)), in' = Tail(in),
           accepted' = accepted, written' = written, dropped' = dropped
    PROVE  /\ in' \in Seq(Beat) /\ Len(in') <= QueueSize
           /\ buf' \in Seq(Beat) /\ Len(buf') = Len(buf) + 1
           /\ Conserved' /\ DroppedIsOld'
<1>1. in \in Seq(Beat) /\ buf \in Seq(Beat) /\ Len(in) <= QueueSize
  BY DEF TypeOK
<1>2. /\ Len(in) \in Nat /\ Len(in) >= 1 /\ Len(buf) \in Nat
      /\ Head(in) = in[1] /\ in[1] \in Beat
  BY <1>1
<1> DEFINE rest == SubSeq(in, 1 + 1, Len(in))
           first == SubSeq(in, 1, 1)
<1>3. in' = rest /\ in' \in Seq(Beat) /\ Len(in') = Len(in) - 1
  <2>1. 1 \in 0..Len(in)
    BY <1>2
  <2>2. rest \in Seq(Beat) /\ Len(rest) = Len(in) - 1
        /\ \A i \in 1..Len(rest) : rest[i] = in[i + 1]
    BY <1>1, <2>1, Rest
  <2> HIDE DEF rest
  <2>3. in' \in Seq(Beat) /\ Len(in') = Len(in) - 1
        /\ \A i \in 1..(Len(in) - 1) : in'[i] = in[i + 1]
    BY <1>1, <1>2
  <2>4. in' = rest
    BY <2>2, <2>3, SameSequence
  <2> QED  BY <2>3, <2>4
<1>4. buf' \in Seq(Beat) /\ Len(buf') = Len(buf) + 1
      /\ Numbers(buf') = Append(Numbers(buf), in[1].number)
  BY <1>1, <1>2, AppendNumbers
<1>5. Numbers(buf') = Numbers(buf) \o Numbers(first)
  <2>1. 1 \in 0..Len(in) /\ 1 \in 1..1
    BY <1>2
  <2>2. first \in Seq(Beat) /\ Len(first) = 1 /\ first[1] = in[1]
    BY <1>1, <2>1, First
  <2> HIDE DEF first
  <2>3. Numbers(first) \in Seq(1..MaxBeats) /\ Len(Numbers(first)) = 1
        /\ Numbers(first)[1] = in[1].number
    BY <2>1, <2>2, NumbersOf
  <2>4. Numbers(buf) \in Seq(1..MaxBeats)
    BY <1>1, NumbersOf
  <2> DEFINE s == Numbers(buf)
             g == Numbers(first)
             n == in[1].number
  <2>5. s \in Seq(1..MaxBeats) /\ g \in Seq(1..MaxBeats) /\ Len(g) = 1 /\ g[1] = n
    BY <2>3, <2>4
  <2> HIDE DEF s, g, n
  <2>6. Append(s, n) = s \o g
    <3>1. n \in 1..MaxBeats
      BY <1>2 DEF n, Beat
    <3> QED  BY <2>5, <3>1, AppendIsJoin
  <2> QED  BY <1>4, <2>6 DEF s, g, n
<1>6. /\ Ordered(Numbers(buf')) /\ Ordered(Numbers(in')) /\ Before(Numbers(buf'), Numbers(in'))
      /\ ToSet(Numbers(buf')) \cup ToSet(Numbers(in')) = ToSet(Numbers(buf)) \cup ToSet(Numbers(in))
      /\ \A r : Before(r, Numbers(buf)) /\ Before(r, Numbers(in))
               => Before(r, Numbers(buf')) /\ Before(r, Numbers(in'))
  <2>1. Numbers(buf) \in Seq(1..MaxBeats) /\ 1 \in 0..Len(in)
    BY <1>1, <1>2, NumbersOf
  <2>2. /\ Ordered(Numbers(buf)) /\ Ordered(Numbers(in)) /\ Before(Numbers(buf), Numbers(in))
    BY DEF Conserved
  <2> DEFINE s == Numbers(buf)
             t == Numbers(buf')
             r == Numbers(in')
  <2>4. s \in Seq(1..MaxBeats) /\ Ordered(s) /\ Before(s, Numbers(in))
    BY <2>1, <2>2
  <2>5. Joined(s, Numbers(first), t) /\ r = Numbers(in')
    BY <1>5 DEF Joined
  <2> HIDE DEF s, t, r
  <2>6. /\ Ordered(t) /\ Ordered(r) /\ Before(t, r)
        /\ ToSet(t) \cup ToSet(r) = ToSet(s) \cup ToSet(Numbers(in))
        /\ \A q : Before(q, s) /\ Before(q, Numbers(in)) => Before(q, t) /\ Before(q, r)
    <3>1. Ordered(Numbers(in)) /\ CutAt(in, 1, first, in')
      BY <1>3, <2>1, <2>2 DEF CutAt
    <3> HIDE DEF first
    <3> QED  BY <1>1, <2>4, <2>5, <3>1, MoveKeepsAll
  <2> QED  BY <2>6 DEF s, t, r
<1>7. Conserved'
  BY <1>6 DEF Conserved
<1>8. DroppedIsOld'
  BY <1>6 DEF DroppedIsOld
<1>9. Len(in') <= QueueSize
  BY <1>1, <1>2, <1>3
<1> QED  BY <1>3, <1>4, <1>7, <1>8, <1>9

\* It is written, with its batch (writer.go flush, timeseries.go
\* WriteHeartbeats).
LEMMA Written ==
    ASSUME TypeOK, Conserved, DroppedIsOld, buf # <<>>,
           written' = written \o Numbers(Batch),
           buf' = SubSeq(buf, Len(Batch) + 1, Len(buf)),
           in' = in, accepted' = accepted, dropped' = dropped
    PROVE  /\ written' \in Seq(1..MaxBeats) /\ buf' \in Seq(Beat)
           /\ Len(buf') < Len(buf)
           /\ Len(buf') = 0 \/ Len(buf') + MaxBatch = Len(buf)
           /\ Conserved' /\ DroppedIsOld'
<1>1. in \in Seq(Beat) /\ buf \in Seq(Beat) /\ Len(buf) \in Nat
  BY DEF TypeOK
<1>2. PICK k \in 1..Len(buf) : /\ Batch = SubSeq(buf, 1, k) /\ Len(Batch) = k
                               /\ k <= MaxBatch /\ (k < MaxBatch => k = Len(buf))
  BY BatchIsFirst
<1>3. buf' = SubSeq(buf, k + 1, Len(buf)) /\ k \in 0..Len(buf)
  BY <1>1, <1>2
<1>4. buf' \in Seq(Beat) /\ Len(buf') = Len(buf) - k
  BY <1>1, <1>3, Rest
<1>5. CutAt(buf, k, Batch, buf')
  BY <1>2, <1>3 DEF CutAt
<1>6. Joined(written, Numbers(Batch), written')
  BY DEF Joined
<1>7. /\ written \in Seq(1..MaxBeats) /\ Ordered(written) /\ Ordered(Numbers(buf))
      /\ Before(written, Numbers(buf))
  BY DEF TypeOK, Conserved
<1>8. /\ written' \in Seq(1..MaxBeats)
      /\ Ordered(written') /\ Ordered(Numbers(buf')) /\ Before(written', Numbers(buf'))
      /\ ToSet(written') \cup ToSet(Numbers(buf')) = ToSet(written) \cup ToSet(Numbers(buf))
      /\ ToSet(Numbers(buf')) \subseteq ToSet(Numbers(buf))
      /\ \A r : Before(written, r) /\ Before(Numbers(buf), r)
               => Before(written', r) /\ Before(Numbers(buf'), r)
  <2> DEFINE t == written'
             rest == Numbers(buf')
  <2>1. Joined(written, Numbers(Batch), t) /\ rest = Numbers(buf')
    BY <1>6
  <2> HIDE DEF t, rest
  <2>2. /\ t \in Seq(1..MaxBeats) /\ Ordered(t) /\ Ordered(rest) /\ Before(t, rest)
        /\ ToSet(t) \cup ToSet(rest) = ToSet(written) \cup ToSet(Numbers(buf))
        /\ ToSet(rest) \subseteq ToSet(Numbers(buf))
        /\ \A r : Before(written, r) /\ Before(Numbers(buf), r) => Before(t, r) /\ Before(rest, r)
    BY <1>1, <1>5, <1>7, <2>1, MoveKeepsAll
  <2> QED  BY <2>2 DEF t, rest
<1>9. Conserved'
  BY <1>8 DEF Conserved
<1>10. DroppedIsOld'
  BY <1>8 DEF DroppedIsOld
<1>11. Len(buf') < Len(buf) /\ (Len(buf') = 0 \/ Len(buf') + MaxBatch = Len(buf))
  <2> DEFINE n == Len(buf)
             left == Len(buf')
  <2>1. /\ n \in Nat /\ left = n - k /\ k \in 1..n /\ MaxBatch \in Nat
        /\ k <= MaxBatch /\ (k < MaxBatch => k = n)
    BY <1>1, <1>2, <1>4
  <2> HIDE DEF n, left
  <2>2. k = n \/ k = MaxBatch
    BY <2>1
  <2>3. left < n /\ (left = 0 \/ left + MaxBatch = n)
    BY <2>1, <2>2
  <2> QED  BY <2>3 DEF n, left
<1> QED  BY <1>4, <1>8, <1>9, <1>10, <1>11

\* It is discarded (writer.go retain).
LEMMA Discarded ==
    ASSUME TypeOK, Conserved, DroppedIsOld, Retain, in' = in, accepted' = accepted
    PROVE  /\ written' = written /\ dropped' \subseteq 1..MaxBeats /\ buf' \in Seq(Beat)
           /\ Len(buf') <= MaxBacklog
           /\ Conserved' /\ DroppedIsOld'
<1>1. /\ in \in Seq(Beat) /\ buf \in Seq(Beat) /\ Len(buf) \in Nat
      /\ written \in Seq(1..MaxBeats) /\ dropped \subseteq 1..MaxBeats
  BY DEF TypeOK
<1>2. Excess \in 0..Len(buf) /\ Len(buf) - Excess <= MaxBacklog
  BY <1>1 DEF Excess
<1> DEFINE head == SubSeq(buf, 1, Excess)
           gone == Numbers(head)
           left == Numbers(buf')
<1>3. /\ buf' = SubSeq(buf, Excess + 1, Len(buf)) /\ written' = written
      /\ dropped' = dropped \cup ToSet(gone)
  BY DEF Retain
<1>4. buf' \in Seq(Beat) /\ Len(buf') = Len(buf) - Excess
  BY <1>1, <1>2, <1>3, Rest
<1>5. CutAt(buf, Excess, head, buf')
  BY <1>2, <1>3 DEF CutAt
<1> HIDE DEF head
<1>6. gone = Numbers(head) /\ left = Numbers(buf')
  OBVIOUS
<1> HIDE DEF gone, left
<1>7. /\ Ordered(written) /\ Ordered(Numbers(buf)) /\ Ordered(Numbers(in))
      /\ Before(written, Numbers(buf)) /\ Before(written, Numbers(in))
      /\ Before(Numbers(buf), Numbers(in))
  BY DEF Conserved
<1>8. /\ gone \in Seq(1..MaxBeats) /\ left \in Seq(1..MaxBeats)
      /\ Ordered(left) /\ Before(gone, left)
      /\ ToSet(Numbers(buf)) = ToSet(gone) \cup ToSet(left)
      /\ \A r : Before(r, Numbers(buf)) => Before(r, gone) /\ Before(r, left)
      /\ \A r : Before(Numbers(buf), r) => Before(gone, r) /\ Before(left, r)
  BY <1>1, <1>5, <1>6, <1>7, Cut
<1>9. /\ Before(written, gone) /\ Before(written, left)
      /\ Before(gone, Numbers(in)) /\ Before(left, Numbers(in))
  BY <1>7, <1>8
<1>10. gone \in Seq(Nat) /\ left \in Seq(Nat) /\ written \in Seq(Nat) /\ Numbers(in) \in Seq(Nat)
  <2>1. \A s \in Seq(1..MaxBeats) : s \in Seq(Nat)
    OBVIOUS
  <2> QED  BY <1>8, <2>1, Places
<1>11. /\ ToSet(written) \cap ToSet(gone) = {} /\ ToSet(gone) \cap ToSet(left) = {}
       /\ ToSet(gone) \cap ToSet(Numbers(in)) = {}
  BY <1>8, <1>9, <1>10, BeforeIsApart
<1>12. Conserved'
  <2>1. dropped' \cup ToSet(written) \cup ToSet(left) \cup ToSet(Numbers(in)) = 1..accepted
    <3>1. dropped \cup ToSet(written) \cup ToSet(Numbers(buf)) \cup ToSet(Numbers(in)) = 1..accepted
      BY DEF Conserved
    <3> QED  BY <1>3, <1>8, <3>1
  <2>2. dropped' \cap (ToSet(written) \cup ToSet(left) \cup ToSet(Numbers(in))) = {}
    <3>1. dropped \cap (ToSet(written) \cup ToSet(Numbers(buf)) \cup ToSet(Numbers(in))) = {}
      BY DEF Conserved
    <3> QED  BY <1>3, <1>8, <1>11, <3>1
  <2> QED  BY <1>3, <1>6, <1>7, <1>8, <1>9, <2>1, <2>2 DEF Conserved
<1>13. DroppedIsOld'
  <2>1. ASSUME NEW d \in ToSet(gone), NEW n \in ToSet(left) \cup ToSet(Numbers(in)) PROVE d < n
    <3>1. PICK i \in DOMAIN gone : d = gone[i]
      BY <2>1 DEF ToSet
    <3>2. CASE n \in ToSet(left)
      BY <1>8, <3>1, <3>2 DEF Before, ToSet
    <3>3. CASE n \in ToSet(Numbers(in))
      BY <1>9, <3>1, <3>3 DEF Before, ToSet
    <3> QED  BY <2>1, <3>2, <3>3
  <2>2. ASSUME NEW d \in dropped, NEW n \in ToSet(left) \cup ToSet(Numbers(in)) PROVE d < n
    BY <1>8, <2>2 DEF DroppedIsOld
  <2>3. \A d \in dropped', n \in ToSet(left) \cup ToSet(Numbers(in)) : d < n
    BY <1>3, <2>1, <2>2
  <2> QED  BY <1>6, <2>3 DEF DroppedIsOld
<1>14. dropped' \subseteq 1..MaxBeats
  <2>1. ToSet(gone) \subseteq 1..MaxBeats
    BY <1>8 DEF ToSet
  <2> QED  BY <1>1, <1>3, <2>1
<1> QED  BY <1>2, <1>3, <1>4, <1>12, <1>13, <1>14

-----------------------------------------------------------------------------
(***************************************************************************)
(* Every action keeps the invariant.                                       *)
(***************************************************************************)
\* A worker submits (writer.go Submit).
LEMMA SubmitStep ==
    ASSUME WriterInvariant, NEW m \in Monitors, Submit(m)
    PROVE  WriterInvariant'
<1>1. TypeOK /\ Conserved /\ DroppedIsOld
  BY DEF WriterInvariant
<1>2. /\ in' \in Seq(Beat) /\ Len(in') <= QueueSize /\ accepted' \in 0..MaxBeats
      /\ Conserved' /\ DroppedIsOld'
  BY <1>1, Submitted
<1>3. UNCHANGED <<buf, writer, halted, available, rows, written, dropped, failed>>
  BY DEF Submit
<1>4. TypeOK'
  BY <1>1, <1>2, <1>3 DEF TypeOK
<1>5. FlushesSome' /\ BacklogBounded' /\ AwayIsFailed' /\ StopsEmpty'
  BY <1>3 DEF WriterInvariant, FlushesSome, BacklogBounded, AwayIsFailed, StopsEmpty
<1> QED  BY <1>2, <1>4, <1>5 DEF WriterInvariant

\* What moves no heartbeat: the database, the rows of the monitors, the
\* request to stop, and the steps of Run that only choose what comes next.
LEMMA StillStep ==
    ASSUME WriterInvariant, UNCHANGED <<in, buf, accepted, written, dropped>>,
           writer' \in {"select", "flush", "drain", "flushAll", "stopped"},
           halted' \in BOOLEAN, available' \in BOOLEAN, failed' \in BOOLEAN,
           rows' \subseteq Monitors
    PROVE  TypeOK' /\ Conserved' /\ DroppedIsOld'
<1>1. TypeOK /\ Conserved /\ DroppedIsOld
  BY DEF WriterInvariant
<1>2. TypeOK'
  BY <1>1 DEF TypeOK
<1>3. Conserved' /\ DroppedIsOld'
  BY <1>1 DEF Conserved, DroppedIsOld
<1> QED  BY <1>2, <1>3

\* The database, the deletion of a monitor, the request to stop.
LEMMA EnvironmentStep ==
    ASSUME WriterInvariant,
           DatabaseChanges \/ Halt \/ \E m \in Monitors : DeleteRow(m)
    PROVE  WriterInvariant'
<1>1. UNCHANGED <<in, buf, writer, accepted, written, dropped>>
  BY DEF DatabaseChanges, Halt, DeleteRow
<1>2. TypeOK /\ AwayIsFailed /\ StopsEmpty /\ FlushesSome /\ BacklogBounded
  BY DEF WriterInvariant
<1>3. /\ writer' \in {"select", "flush", "drain", "flushAll", "stopped"}
      /\ halted' \in BOOLEAN /\ available' \in BOOLEAN /\ failed' \in BOOLEAN
      /\ rows' \subseteq Monitors
      /\ rows' = Monitors => rows = Monitors
      /\ failed => failed'
      /\ available' \/ failed'
  <2>1. /\ rows \subseteq Monitors
        /\ available \/ failed
        /\ halted \in BOOLEAN /\ available \in BOOLEAN /\ failed \in BOOLEAN
        /\ writer \in {"select", "flush", "drain", "flushAll", "stopped"}
    BY <1>2 DEF TypeOK, AwayIsFailed
  <2>2. ASSUME DatabaseChanges
        PROVE  /\ available' = ~ available /\ failed' = TRUE
               /\ writer' = writer /\ halted' = halted /\ rows' = rows
    BY <2>2 DEF DatabaseChanges
  <2>3. ASSUME Halt
        PROVE  /\ halted' = TRUE /\ available' = available /\ failed' = failed
               /\ writer' = writer /\ rows' = rows
    BY <2>3 DEF Halt
  <2>4. ASSUME NEW m \in Monitors, DeleteRow(m)
        PROVE  /\ halted' = halted /\ available' = available /\ failed' = failed
               /\ writer' = writer
               /\ rows' = rows \ {m}
    BY <2>4 DEF DeleteRow
  <2>5. /\ halted' \in BOOLEAN /\ available' \in BOOLEAN /\ failed' \in BOOLEAN
        /\ failed => failed'
        /\ available' \/ failed'
    BY <2>1, <2>2, <2>3, <2>4, Zenon
  <2>6. /\ rows' \subseteq Monitors
        /\ rows' = Monitors => rows = Monitors
    <3>1. rows \subseteq Monitors
      BY <2>1
    <3>2. CASE rows' = rows
      BY <3>1, <3>2
    <3>3. ASSUME NEW m \in Monitors, rows' = rows \ {m}
          PROVE  rows' \subseteq Monitors /\ m \notin rows'
      BY <3>1, <3>3
    <3>4. rows' = rows \/ \E m \in Monitors : rows' = rows \ {m}
      BY <2>2, <2>3, <2>4, Zenon
    <3> QED  BY <3>2, <3>3, <3>4
  <2>7. writer' \in {"select", "flush", "drain", "flushAll", "stopped"}
    BY <2>1, <2>2, <2>3, <2>4, Zenon
  <2> QED  BY <2>5, <2>6, <2>7
<1>4. TypeOK' /\ Conserved' /\ DroppedIsOld'
  BY <1>1, <1>3, StillStep
<1>5. AwayIsFailed' /\ StopsEmpty' /\ FlushesSome' /\ BacklogBounded'
  BY <1>1, <1>2, <1>3 DEF AwayIsFailed, StopsEmpty, FlushesSome, BacklogBounded
<1> QED  BY <1>4, <1>5 DEF WriterInvariant

\* Run takes a heartbeat, to flush or to wait again (writer.go Run).
LEMMA ReceiveStep == WriterInvariant /\ Receive => WriterInvariant'
<1> SUFFICES ASSUME WriterInvariant, Receive PROVE WriterInvariant'
  OBVIOUS
<1>1. TypeOK /\ Conserved /\ DroppedIsOld /\ BacklogBounded
  BY DEF WriterInvariant
<1>2. /\ writer = "select" /\ in # <<>> /\ buf' = Append(buf, Head(in)) /\ in' = Tail(in)
      /\ writer' = IF Len(buf') >= MaxBatch THEN "flush" ELSE "select"
      /\ UNCHANGED <<halted, available, rows, accepted, written, dropped, failed>>
  BY DEF Receive
<1>3. /\ in' \in Seq(Beat) /\ Len(in') <= QueueSize
      /\ buf' \in Seq(Beat) /\ Len(buf') = Len(buf) + 1
      /\ Conserved' /\ DroppedIsOld'
  BY <1>1, <1>2, Taken
<1>4. TypeOK'
  BY <1>1, <1>2, <1>3 DEF TypeOK
<1>5. buf' # <<>> /\ Len(buf) \in Nat
  BY <1>1, <1>3 DEF TypeOK
<1>6. Len(buf) <= MaxBacklog \/ Len(buf) < MaxBatch
  BY <1>1, <1>2 DEF BacklogBounded
<1>7. FlushesSome'
  <2>1. Len(buf') <= MaxBacklog + 1 \/ Len(buf') <= MaxBatch
    BY <1>3, <1>5, <1>6
  <2> QED  BY <1>5, <2>1 DEF FlushesSome
<1>8. BacklogBounded'
  BY <1>2, <1>3, <1>5 DEF BacklogBounded
<1>9. AwayIsFailed' /\ StopsEmpty'
  BY <1>2 DEF WriterInvariant, AwayIsFailed, StopsEmpty
<1> QED  BY <1>3, <1>4, <1>7, <1>8, <1>9 DEF WriterInvariant

\* The timer fires, or Run leaves its loop (writer.go Run).
LEMMA TimerStep == WriterInvariant /\ (Timer \/ Leave) => WriterInvariant'
<1> SUFFICES ASSUME WriterInvariant, Timer \/ Leave PROVE WriterInvariant'
  OBVIOUS
<1>1. /\ UNCHANGED <<in, buf, halted, available, rows, accepted, written, dropped, failed>>
      /\ \/ writer' = "flush" /\ buf # <<>> /\ writer = "select"
         \/ writer' = "drain"
  BY DEF Timer, Leave
<1>2. TypeOK /\ BacklogBounded
  BY DEF WriterInvariant
<1>3. TypeOK' /\ Conserved' /\ DroppedIsOld'
  <2>1. /\ halted \in BOOLEAN /\ available \in BOOLEAN /\ failed \in BOOLEAN
        /\ rows \subseteq Monitors
    BY <1>2 DEF TypeOK
  <2>2. writer' \in {"select", "flush", "drain", "flushAll", "stopped"}
    BY <1>1
  <2> QED  BY <1>1, <2>1, <2>2, StillStep
<1>4. FlushesSome'
  <2>1. Len(buf) \in Nat /\ MaxBacklog \in Nat
    BY <1>2 DEF TypeOK
  <2>2. CASE writer' = "flush"
    <3>1. buf # <<>> /\ (Len(buf) <= MaxBacklog \/ Len(buf) < MaxBatch)
      BY <1>1, <1>2, <2>2 DEF BacklogBounded
    <3>2. Len(buf) <= MaxBacklog + 1 \/ Len(buf) <= MaxBatch
      BY <2>1, <3>1
    <3> QED  BY <1>1, <3>1, <3>2 DEF FlushesSome
  <2>3. CASE writer' # "flush"
    BY <2>3 DEF FlushesSome
  <2> QED  BY <2>2, <2>3
<1>5. BacklogBounded' /\ AwayIsFailed' /\ StopsEmpty'
  BY <1>1 DEF WriterInvariant, BacklogBounded, AwayIsFailed, StopsEmpty
<1> QED  BY <1>3, <1>4, <1>5 DEF WriterInvariant

\* drainQueue takes a heartbeat, or has seen the queue empty.
LEMMA DrainStep == WriterInvariant /\ Drain => WriterInvariant'
<1> SUFFICES ASSUME WriterInvariant, Drain PROVE WriterInvariant'
  OBVIOUS
<1>1. TypeOK /\ Conserved /\ DroppedIsOld
  BY DEF WriterInvariant
<1>2. /\ writer = "drain" /\ writer' \in {"drain", "flushAll"}
      /\ UNCHANGED <<halted, available, rows, accepted, written, dropped, failed>>
  BY DEF Drain
<1>3. TypeOK' /\ Conserved' /\ DroppedIsOld'
  <2>1. CASE UNCHANGED <<in, buf>>
    <3>1. /\ halted \in BOOLEAN /\ available \in BOOLEAN /\ failed \in BOOLEAN
          /\ rows \subseteq Monitors
      BY <1>1 DEF TypeOK
    <3>2. writer' \in {"select", "flush", "drain", "flushAll", "stopped"}
      BY <1>2
    <3> QED  BY <1>2, <2>1, <3>1, <3>2, StillStep
  <2>2. CASE in # <<>> /\ buf' = Append(buf, Head(in)) /\ in' = Tail(in)
    <3>1. /\ in' \in Seq(Beat) /\ Len(in') <= QueueSize /\ buf' \in Seq(Beat)
          /\ Conserved' /\ DroppedIsOld'
      BY <1>1, <1>2, <2>2, Taken
    <3>2. TypeOK'
      BY <1>1, <1>2, <3>1 DEF TypeOK
    <3> QED  BY <3>1, <3>2
  <2> QED  BY <2>1, <2>2 DEF Drain
<1>4. FlushesSome' /\ BacklogBounded' /\ AwayIsFailed' /\ StopsEmpty'
  BY <1>2 DEF WriterInvariant, FlushesSome, BacklogBounded, AwayIsFailed, StopsEmpty
<1> QED  BY <1>3, <1>4 DEF WriterInvariant

\* flush, of a buffer that has some: what it writes or discards, and what is
\* left (writer.go flush, retain).
LEMMA Flushed ==
    ASSUME WriterInvariant, buf # <<>>, Flush \/ Retain,
           UNCHANGED <<in, halted, available, rows, accepted, failed>>,
           writer' \in {"select", "flush", "drain", "flushAll", "stopped"}
    PROVE  /\ TypeOK' /\ Conserved' /\ DroppedIsOld'
           /\ \/ Len(buf') = 0
              \/ Len(buf') + MaxBatch = Len(buf)
              \/ Len(buf') <= MaxBacklog
           /\ Flush /\ Commits => Len(buf') < Len(buf)
           /\ Len(buf') \in Nat /\ Len(buf) \in Nat
<1>1. TypeOK /\ Conserved /\ DroppedIsOld
  BY DEF WriterInvariant
<1>2. CASE Flush /\ Commits
  <2>1. /\ written' = written \o Numbers(Batch)
        /\ buf' = SubSeq(buf, Len(Batch) + 1, Len(buf)) /\ dropped' = dropped
    BY <1>2 DEF Flush
  <2>2. /\ written' \in Seq(1..MaxBeats) /\ buf' \in Seq(Beat)
        /\ Len(buf') < Len(buf)
        /\ Len(buf') = 0 \/ Len(buf') + MaxBatch = Len(buf)
        /\ Conserved' /\ DroppedIsOld'
    BY <1>1, <2>1, Written
  <2>3. TypeOK'
    BY <1>1, <2>1, <2>2 DEF TypeOK
  <2>4. Len(buf') \in Nat /\ Len(buf) \in Nat
    BY <1>1, <2>2 DEF TypeOK
  <2> QED  BY <2>2, <2>3, <2>4
<1>3. CASE Retain /\ ~ (Flush /\ Commits)
  <2>1. Retain
    BY <1>3
  <2>2. /\ written' = written /\ dropped' \subseteq 1..MaxBeats /\ buf' \in Seq(Beat)
        /\ Len(buf') <= MaxBacklog
        /\ Conserved' /\ DroppedIsOld'
    BY <1>1, <2>1, Discarded
  <2>3. TypeOK'
    BY <1>1, <2>2 DEF TypeOK
  <2>4. Len(buf') \in Nat /\ Len(buf) \in Nat
    BY <1>1, <2>2 DEF TypeOK
  <2> QED  BY <1>3, <2>2, <2>3, <2>4
<1> QED  BY <1>2, <1>3 DEF Flush

\* The flush that a full batch or the timer asked for (writer.go Run).
LEMMA FlushOnceStep == WriterInvariant /\ FlushOnce => WriterInvariant'
<1> SUFFICES ASSUME WriterInvariant, FlushOnce PROVE WriterInvariant'
  OBVIOUS
<1>1. /\ writer = "flush" /\ writer' = "select" /\ (Flush \/ Retain)
      /\ UNCHANGED <<in, halted, available, rows, accepted, failed>>
  BY DEF FlushOnce
<1>2. buf # <<>> /\ (Len(buf) <= MaxBacklog + 1 \/ Len(buf) <= MaxBatch)
  BY <1>1 DEF WriterInvariant, FlushesSome
<1>3. writer' \in {"select", "flush", "drain", "flushAll", "stopped"}
  BY <1>1
<1>4. /\ TypeOK' /\ Conserved' /\ DroppedIsOld'
      /\ \/ Len(buf') = 0
         \/ Len(buf') + MaxBatch = Len(buf)
         \/ Len(buf') <= MaxBacklog
      /\ Len(buf') \in Nat /\ Len(buf) \in Nat
  BY <1>1, <1>2, <1>3, Flushed
<1>5. Len(buf') <= MaxBacklog \/ Len(buf') < MaxBatch
  <2> DEFINE n == Len(buf)
             left == Len(buf')
  <2>1. /\ n \in Nat /\ left \in Nat
        /\ n <= MaxBacklog + 1 \/ n <= MaxBatch
        /\ left = 0 \/ left + MaxBatch = n \/ left <= MaxBacklog
    BY <1>2, <1>4
  <2> HIDE DEF n, left
  <2>2. left <= MaxBacklog \/ left < MaxBatch
    BY <2>1
  <2> QED  BY <2>2 DEF left
<1>6. FlushesSome' /\ BacklogBounded' /\ AwayIsFailed' /\ StopsEmpty'
  BY <1>1, <1>5 DEF WriterInvariant, FlushesSome, BacklogBounded, AwayIsFailed, StopsEmpty
<1> QED  BY <1>4, <1>6 DEF WriterInvariant

\* One turn of flushAll; it gives up only on a batch the database refused
\* (writer.go flushAll).
LEMMA FlushAllStep == WriterInvariant /\ FlushAll => WriterInvariant'
<1> SUFFICES ASSUME WriterInvariant, FlushAll PROVE WriterInvariant'
  OBVIOUS
<1>1. /\ writer = "flushAll" /\ UNCHANGED <<in, halted, available, rows, accepted, failed>>
      /\ writer' \in {"select", "flush", "drain", "flushAll", "stopped"}
      /\ writer' \in {"flushAll", "stopped"}
  BY DEF FlushAll
<1>2. TypeOK /\ AwayIsFailed
  BY DEF WriterInvariant
<1>3. FlushesSome' /\ BacklogBounded'
  BY <1>1 DEF FlushesSome, BacklogBounded
<1>4. AwayIsFailed'
  BY <1>1, <1>2 DEF AwayIsFailed
<1>5. CASE buf = <<>>
  <2>1. UNCHANGED <<buf, written, dropped>>
    BY <1>5 DEF FlushAll
  <2>2. TypeOK' /\ Conserved' /\ DroppedIsOld'
    <3>1. /\ halted' \in BOOLEAN /\ available' \in BOOLEAN /\ failed' \in BOOLEAN
          /\ rows' \subseteq Monitors
      BY <1>1, <1>2 DEF TypeOK
    <3> QED  BY <1>1, <2>1, <3>1, StillStep
  <2>3. StopsEmpty'
    BY <1>5, <2>1 DEF StopsEmpty
  <2> QED  BY <1>3, <1>4, <2>2, <2>3 DEF WriterInvariant
<1>6. CASE buf # <<>>
  <2>1. /\ Flush
        /\ writer' = IF Len(buf') < Len(buf) THEN "flushAll" ELSE "stopped"
    BY <1>6 DEF FlushAll
  <2>2. /\ TypeOK' /\ Conserved' /\ DroppedIsOld'
        /\ Flush /\ Commits => Len(buf') < Len(buf)
    BY <1>1, <1>6, <2>1, Flushed
  <2>3. StopsEmpty'
    <3> SUFFICES ASSUME ~ failed, rows = Monitors PROVE Commits
      BY <1>1, <2>1, <2>2 DEF StopsEmpty
    <3>1. available
      BY <1>2 DEF AwayIsFailed
    <3>2. PICK k \in 1..Len(buf) : Batch = SubSeq(buf, 1, k)
      BY <1>2, <1>6, BatchIsFirst
    <3>3. buf \in Seq(Beat) /\ k \in 0..Len(buf)
      BY <1>2 DEF TypeOK
    <3>4. Batch \in Seq(Beat)
      BY <3>2, <3>3, First
    <3>5. \A i \in DOMAIN Batch : Batch[i] \in Beat
      BY <3>4
    <3>6. \A i \in DOMAIN Batch : Batch[i].monitor \in Monitors
      BY <3>5 DEF Beat
    <3> QED  BY <3>1, <3>6 DEF Commits
  <2> QED  BY <1>3, <1>4, <2>2, <2>3 DEF WriterInvariant
<1> QED  BY <1>5, <1>6

\* A step that changes nothing.
LEMMA StutteringStep == WriterInvariant /\ UNCHANGED vars => WriterInvariant'
<1> SUFFICES ASSUME WriterInvariant, UNCHANGED vars PROVE WriterInvariant'
  OBVIOUS
<1>1. TypeOK
  BY DEF WriterInvariant
<1>2. TypeOK' /\ Conserved' /\ DroppedIsOld'
  <2>1. /\ writer' \in {"select", "flush", "drain", "flushAll", "stopped"}
        /\ halted' \in BOOLEAN /\ available' \in BOOLEAN /\ failed' \in BOOLEAN
        /\ rows' \subseteq Monitors
    BY <1>1 DEF TypeOK, vars
  <2>2. UNCHANGED <<in, buf, accepted, written, dropped>>
    BY DEF vars
  <2> QED  BY <2>1, <2>2, StillStep
<1>3. FlushesSome' /\ BacklogBounded' /\ AwayIsFailed' /\ StopsEmpty'
  BY DEF vars, WriterInvariant, FlushesSome, BacklogBounded, AwayIsFailed, StopsEmpty
<1> QED  BY <1>2, <1>3 DEF WriterInvariant

-----------------------------------------------------------------------------
(***************************************************************************)
(* The theorems.                                                           *)
(***************************************************************************)
\* The inductive invariant: every heartbeat accepted is in one place, in
\* order, and what was dropped is older than what waits (writer.go).
THEOREM Invariance == Spec => []WriterInvariant
<1>1. Init => WriterInvariant
  BY InitInvariant
<1>2. WriterInvariant /\ [Next]_vars => WriterInvariant'
  <2> SUFFICES ASSUME WriterInvariant, [Next]_vars PROVE WriterInvariant'
    OBVIOUS
  <2>1. CASE \E m \in Monitors : Submit(m)
    BY <2>1, SubmitStep
  <2>2. CASE DatabaseChanges \/ Halt \/ \E m \in Monitors : DeleteRow(m)
    BY <2>2, EnvironmentStep
  <2>3. CASE Run
    BY <2>3, ReceiveStep, TimerStep, FlushOnceStep, DrainStep, FlushAllStep DEF Run
  <2>4. CASE UNCHANGED vars
    BY <2>4, StutteringStep
  <2> QED  BY <2>1, <2>2, <2>3, <2>4 DEF Next
<1> QED  BY <1>1, <1>2, PTL DEF Spec

\* Every heartbeat the queue accepted is written once and in order, waits in
\* memory, or is counted as dropped (writer.go flush, retain, drainQueue).
THEOREM EveryHeartbeatConserved == Spec => []Conserved
<1>1. WriterInvariant => Conserved
  BY DEF WriterInvariant
<1> QED  BY <1>1, Invariance, PTL

\* However long the database fails, no heartbeat is discarded while an older
\* one waits in the buffer (writer.go retain).
THEOREM OldestDroppedFirst == Spec => []TheRecentSurvives
<1>1. WriterInvariant => TheRecentSurvives
  <2> SUFFICES ASSUME TypeOK, DroppedIsOld, NEW d \in dropped, NEW i \in DOMAIN buf
               PROVE  d < buf[i].number
    BY DEF WriterInvariant, TheRecentSurvives
  <2>1. buf \in Seq(Beat)
    BY DEF TypeOK
  <2>2. i \in DOMAIN Numbers(buf) /\ Numbers(buf)[i] = buf[i].number
    BY <2>1, NumbersOf
  <2> QED  BY <2>2 DEF DroppedIsOld, ToSet
<1> QED  BY <1>1, Invariance, PTL

\* Whatever the database does, what waits between two flushes is below the
\* ceiling or below a batch (writer.go retain).
THEOREM BacklogStaysBounded == Spec => []BacklogBounded
<1>1. WriterInvariant => BacklogBounded
  BY DEF WriterInvariant
<1> QED  BY <1>1, Invariance, PTL

\* A writer that stops with the database answering and no monitor deleted
\* has emptied its buffer (writer.go flushAll).
THEOREM StopLeavesNothing == Spec => []StopsEmpty
<1>1. WriterInvariant => StopsEmpty
  BY DEF WriterInvariant
<1> QED  BY <1>1, Invariance, PTL

-----------------------------------------------------------------------------
(***************************************************************************)
(* Sets in the order of a relation, given as the set of its pairs.         *)
(***************************************************************************)
Orders(L, S) ==
    /\ \A a \in S : <<a, a>> \notin L
    /\ \A a, b, c \in S : <<a, b>> \in L /\ <<b, c>> \in L => <<a, c>> \in L
    /\ \A a, b \in S : a # b => <<a, b>> \in L \/ <<b, a>> \in L
Ahead(L, S, a) == {b \in S : <<b, a>> \in L}

\* Who comes later has more ahead.
LEMMA AheadGrows ==
    ASSUME NEW L, NEW S, IsFiniteSet(S), Orders(L, S), NEW a \in S, NEW b \in S, <<a, b>> \in L
    PROVE  /\ Cardinality(Ahead(L, S, a)) \in Nat /\ Cardinality(Ahead(L, S, b)) \in Nat
           /\ Cardinality(Ahead(L, S, a)) < Cardinality(Ahead(L, S, b))
<1>1. Ahead(L, S, a) \in SUBSET Ahead(L, S, b) /\ Ahead(L, S, b) \in SUBSET S
  BY DEF Ahead, Orders
<1>2. a \in Ahead(L, S, b) /\ a \notin Ahead(L, S, a)
  BY DEF Ahead, Orders
<1>3. IsFiniteSet(Ahead(L, S, b))
  BY <1>1, FS_Subset
<1>4. /\ IsFiniteSet(Ahead(L, S, a))
      /\ Cardinality(Ahead(L, S, a)) <= Cardinality(Ahead(L, S, b))
      /\ Cardinality(Ahead(L, S, b)) = Cardinality(Ahead(L, S, a)) => Ahead(L, S, b) = Ahead(L, S, a)
  BY <1>1, <1>3, FS_Subset
<1>5. Cardinality(Ahead(L, S, a)) \in Nat /\ Cardinality(Ahead(L, S, b)) \in Nat
  BY <1>3, <1>4, FS_CardinalityType
<1> QED  BY <1>2, <1>4, <1>5

\* Each place in the order is somebody's, and of one only.
LEMMA EachPlaceIsTaken ==
    ASSUME NEW L, NEW S, IsFiniteSet(S), Orders(L, S)
    PROVE  /\ Cardinality(S) \in Nat
           /\ \A k \in 1..Cardinality(S) : \E a \in S : Cardinality(Ahead(L, S, a)) = k - 1
           /\ \A a \in S : Cardinality(Ahead(L, S, a)) + 1 \in 1..Cardinality(S)
           /\ \A a, b \in S : Cardinality(Ahead(L, S, a)) = Cardinality(Ahead(L, S, b)) => a = b
<1> DEFINE n == Cardinality(S)
           rank == [a \in S |-> Cardinality(Ahead(L, S, a))]
<1>1. n \in Nat
  BY FS_CardinalityType
<1>2. ASSUME NEW a \in S  PROVE rank[a] \in 0..n - 1
  <2>1. Ahead(L, S, a) \in SUBSET S /\ a \notin Ahead(L, S, a)
    BY DEF Ahead, Orders
  <2>2. /\ IsFiniteSet(Ahead(L, S, a)) /\ Cardinality(Ahead(L, S, a)) <= n
        /\ n = Cardinality(Ahead(L, S, a)) => S = Ahead(L, S, a)
    BY <2>1, FS_Subset
  <2>3. Cardinality(Ahead(L, S, a)) \in Nat
    BY <2>2, FS_CardinalityType
  <2> QED  BY <1>1, <2>1, <2>2, <2>3
<1>3. ASSUME NEW a \in S, NEW b \in S, rank[a] = rank[b]  PROVE a = b
  <2> SUFFICES ASSUME a # b  PROVE FALSE
    OBVIOUS
  <2>1. <<a, b>> \in L \/ <<b, a>> \in L
    BY DEF Orders
  <2> QED  BY <1>3, <2>1, AheadGrows
<1>4. rank \in [S -> 0..n - 1]
  BY <1>2
<1>5. rank \in Injection(S, 0..n - 1)
  BY <1>3, <1>4 DEF Injection, IsInjective
<1>6. IsFiniteSet(0..n - 1) /\ Cardinality(0..n - 1) = n
  BY <1>1, FS_Interval
<1>7. rank \in Surjection(S, 0..n - 1)
  BY <1>5, <1>6, FS_Injection
<1>8. \A k \in 0..n - 1 : \E a \in S : rank[a] = k
  BY <1>7 DEF Surjection
<1>9. ASSUME NEW k \in 1..n  PROVE \E a \in S : rank[a] = k - 1
  <2>1. k - 1 \in 0..n - 1
    BY <1>1
  <2> QED  BY <1>8, <2>1
<1>10. \A a \in S : rank[a] + 1 \in 1..n
  BY <1>1, <1>2
<1> QED  BY <1>1, <1>3, <1>9, <1>10

-----------------------------------------------------------------------------
(***************************************************************************)
(* What was written, read page by page while the tables change: each event *)
(* once, in order, and none skipped.                                       *)
(***************************************************************************)
Tml == INSTANCE Timeline

Happenings == [at: Nat, rank: {0, 1}, key: Nat]
Changes == [at: Times, id: Nat]
Beats == [at: Times, origin: Origins, failed: BOOLEAN]
Readers == [kind: {"all", "state", "failure", "outages"}, limit: Limits, before: Times \cup {None},
            cursor: Happenings \cup {None}, shown: Seq(Happenings), more: BOOLEAN]

\* One origin measures once in a millisecond.
MeasuredOnce(s) == \A b, c \in s : b.at = c.at /\ b.origin = c.origin => b = c

\* A page has a place at least (monitor_events.go), and a table at the start is
\* one the program wrote.
TimelineSorts ==
    /\ Times \subseteq Nat /\ Origins \subseteq Nat /\ Limits \subseteq Nat \ {0}
    /\ None \notin Nat \cup Happenings \cup Readers
    /\ MaxWrites \in Nat /\ MaxPages \in Nat
    /\ \A s \in Starts : /\ s.changes \subseteq Changes /\ IsFiniteSet(s.changes)
                         /\ s.beats \subseteq Beats /\ IsFiniteSet(s.beats) /\ MeasuredOnce(s.beats)
                         /\ s.outages \subseteq Nat /\ IsFiniteSet(s.outages)

TimelineShapes ==
    /\ changes \subseteq Changes /\ IsFiniteSet(changes)
    /\ beats \subseteq Beats /\ IsFiniteSet(beats) /\ MeasuredOnce(beats)
    /\ outages \subseteq Nat /\ IsFiniteSet(outages)
    /\ reader \in Readers \cup {None}
    /\ steady \subseteq Happenings
    /\ writes \in Nat

\* What a reader of a kind may be shown.
OfKind(kind, e) ==
    CASE kind = "state" -> e.rank = 0
      [] kind = "failure" -> e.rank = 1
      [] OTHER -> TRUE
Readable(kind) == IF kind = "outages" THEN {Tml!Outage(n) : n \in outages}
                  ELSE {e \in Tml!All : OfKind(kind, e)}

\* What a reader has still to be shown: all of it, or what comes after its cursor.
ToCome(kind, before, cursor) ==
    {e \in Readable(kind) :
        IF cursor = None THEN before # None => e.at < before
                         ELSE Tml!Precedes(cursor, e)}

\* What a reader was shown is in order, and up to its cursor.
InOrder(s) == \A j, k \in 1..Len(s) : j < k => Tml!Precedes(s[j], s[k])
ReadsOn ==
    reader # None =>
        /\ InOrder(reader.shown)
        /\ reader.cursor = None /\ reader.more => reader.shown = << >>
        /\ reader.cursor # None =>
             \A k \in 1..Len(reader.shown) :
                reader.more => \/ reader.shown[k] = reader.cursor
                               \/ Tml!Precedes(reader.shown[k], reader.cursor)
        /\ reader.kind = "outages" =>
             /\ reader.before = None
             /\ reader.cursor # None => reader.cursor.at = 0 /\ reader.cursor.rank = 0

\* What is after the cursor.
StillTo(e) == IF reader.cursor = None THEN reader.before # None => e.at < reader.before
              ELSE Tml!Precedes(reader.cursor, e)

\* A page has read the first of the changes there were then: all that is still
\* to be shown and was there all along is among those.
ChangesOf(K) ==
    /\ K \subseteq Happenings /\ IsFiniteSet(K) /\ found = Tml!First(K, reader.limit + 1)
    /\ \A e \in K : e.rank = 0 /\ StillTo(e)
    /\ \A e \in steady : e.rank = 0 /\ StillTo(e) => e \in K
ReadFirst ==
    found # None => /\ reader # None /\ reader.kind \in {"all", "state"}
                    /\ \E K : ChangesOf(K)

\* What a page has to show, K of the changes.
ToShow(K) == IF reader.kind = "outages" THEN ToCome(reader.kind, reader.before, reader.cursor)
             ELSE K \cup {e \in ToCome(reader.kind, reader.before, reader.cursor) : e.rank = 1}

StaysReadable ==
    reader # None => \A e \in steady : IF reader.kind = "outages" THEN e \in {Tml!Outage(n) : n \in outages}
                                                                  ELSE e \in Tml!All

TimelineInvariant ==
    /\ TimelineShapes /\ ReadsOn /\ ReadFirst /\ StaysReadable
    /\ Tml!NothingSkipped
-----------------------------------------------------------------------------
\* The order of events, and that of the heartbeats of a table.
Earlier(S) == {p \in S \X S : Tml!Precedes(p[1], p[2])}
Newer(b, c) == b.at > c.at \/ (b.at = c.at /\ b.origin > c.origin)
Recent(S) == {p \in S \X S : Newer(p[1], p[2])}
FirstOnes(L, S, n) == {a \in S : Cardinality(Ahead(L, S, a)) < n}

LEMMA PrecedesOrders ==
    /\ \A e \in Happenings : ~ Tml!Precedes(e, e)
    /\ \A e, f, g \in Happenings : Tml!Precedes(e, f) /\ Tml!Precedes(f, g) => Tml!Precedes(e, g)
    /\ \A e, f \in Happenings : e # f => Tml!Precedes(e, f) \/ Tml!Precedes(f, e)
<1>1. \A e \in Happenings : ~ Tml!Precedes(e, e)
  BY DEF Tml!Precedes, Happenings
<1>2. ASSUME NEW e \in Happenings, NEW f \in Happenings, NEW g \in Happenings,
             Tml!Precedes(e, f), Tml!Precedes(f, g)
      PROVE  Tml!Precedes(e, g)
  BY <1>2 DEF Tml!Precedes, Happenings
<1>3. ASSUME NEW e \in Happenings, NEW f \in Happenings, ~ Tml!Precedes(e, f), ~ Tml!Precedes(f, e)
      PROVE  e = f
  <2>1. e.at \in Nat /\ f.at \in Nat /\ e.rank \in {0, 1} /\ f.rank \in {0, 1}
        /\ e.key \in Nat /\ f.key \in Nat
    BY DEF Happenings
  <2>2. e.at = f.at /\ e.rank = f.rank /\ e.key = f.key
    BY <1>3, <2>1 DEF Tml!Precedes
  <2> QED  BY <2>2 DEF Happenings
<1> QED  BY <1>1, <1>2, <1>3

LEMMA EventsAreOrdered ==
    ASSUME NEW S, S \subseteq Happenings
    PROVE  /\ Orders(Earlier(S), S)
           /\ \A e \in S : Ahead(Earlier(S), S, e) = {f \in S : Tml!Precedes(f, e)}
<1>1. \A e, f \in S : <<e, f>> \in Earlier(S) <=> Tml!Precedes(e, f)
  BY DEF Earlier
<1>2. \A e \in S : Ahead(Earlier(S), S, e) = {f \in S : Tml!Precedes(f, e)}
  BY <1>1 DEF Ahead
<1>3. Orders(Earlier(S), S)
  BY <1>1, PrecedesOrders DEF Orders
<1> QED  BY <1>2, <1>3

LEMMA BeatsAreOrdered ==
    ASSUME TimelineSorts, NEW S, S \subseteq Beats, MeasuredOnce(S)
    PROVE  /\ Orders(Recent(S), S)
           /\ \A b \in S : Ahead(Recent(S), S, b) = {c \in S : Newer(c, b)}
<1>1. \A b, c \in S : <<b, c>> \in Recent(S) <=> Newer(b, c)
  BY DEF Recent
<1>2. \A b \in S : Ahead(Recent(S), S, b) = {c \in S : Newer(c, b)}
  BY <1>1 DEF Ahead
<1>3. \A b \in S : b.at \in Nat /\ b.origin \in Nat
  BY DEF Beats, TimelineSorts
<1>4. \A b \in S : ~ Newer(b, b)
  BY <1>3 DEF Newer
<1>5. \A b, c, d \in S : Newer(b, c) /\ Newer(c, d) => Newer(b, d)
  BY <1>3 DEF Newer
<1>6. \A b, c \in S : b # c => Newer(b, c) \/ Newer(c, b)
  BY <1>3 DEF Newer, MeasuredOnce
<1> QED  BY <1>1, <1>2, <1>4, <1>5, <1>6 DEF Orders

\* Whom the first n leave out has n of them ahead.
LEMMA FirstAreAhead ==
    ASSUME NEW L, NEW S, IsFiniteSet(S), Orders(L, S), NEW n \in Nat,
           NEW e \in S, e \notin FirstOnes(L, S, n)
    PROVE  /\ FirstOnes(L, S, n) \subseteq Ahead(L, S, e)
           /\ IsFiniteSet(FirstOnes(L, S, n)) /\ Cardinality(FirstOnes(L, S, n)) \in Nat
           /\ Cardinality(FirstOnes(L, S, n)) >= n
<1> PICK F : F = FirstOnes(L, S, n)
  OBVIOUS
<1>1. IsFiniteSet(F) /\ Cardinality(F) \in Nat
  BY FS_Subset, FS_CardinalityType DEF FirstOnes
<1>2. /\ Cardinality(S) \in Nat
      /\ \A k \in 1..Cardinality(S) : \E a \in S : Cardinality(Ahead(L, S, a)) = k - 1
      /\ \A a \in S : Cardinality(Ahead(L, S, a)) + 1 \in 1..Cardinality(S)
  BY EachPlaceIsTaken, Zenon
<1>3. n <= Cardinality(Ahead(L, S, e)) /\ Cardinality(Ahead(L, S, e)) + 1 \in 1..Cardinality(S)
      /\ Cardinality(Ahead(L, S, e)) \in Nat
  <2>1. Cardinality(Ahead(L, S, e)) \in Nat
    BY FS_Subset, FS_CardinalityType DEF Ahead
  <2> QED  BY <1>2, <2>1 DEF FirstOnes
<1>4. ASSUME NEW a \in F  PROVE a \in Ahead(L, S, e)
  <2>1. a \in S /\ Cardinality(Ahead(L, S, a)) < n /\ a # e
    BY DEF FirstOnes
  <2>2. CASE <<e, a>> \in L
    <3>1. Cardinality(Ahead(L, S, e)) < Cardinality(Ahead(L, S, a)) /\ Cardinality(Ahead(L, S, a)) \in Nat
      BY <2>1, <2>2, AheadGrows
    <3> QED  BY <1>3, <2>1, <3>1
  <2>3. CASE <<a, e>> \in L
    BY <2>1, <2>3 DEF Ahead
  <2> QED  BY <2>1, <2>2, <2>3 DEF Orders
<1> DEFINE at == [k \in 1..n |-> CHOOSE a \in S : Cardinality(Ahead(L, S, a)) = k - 1]
<1>5. ASSUME NEW k \in 1..n  PROVE at[k] \in F /\ Cardinality(Ahead(L, S, at[k])) = k - 1
  <2>1. k \in 1..Cardinality(S)
    BY <1>2, <1>3
  <2>2. at[k] \in S /\ Cardinality(Ahead(L, S, at[k])) = k - 1
    BY <1>2, <2>1
  <2> QED  BY <2>2 DEF FirstOnes
<1>6. at \in [1..n -> F]
  BY <1>5
<1> HIDE DEF at
<1>7. \A j, k \in 1..n : at[j] = at[k] => j = k
  BY <1>5
<1>8. at \in Injection(1..n, F)
  BY <1>6, <1>7 DEF Injection, IsInjective
<1>9. Cardinality(1..n) = n
  BY FS_Interval
<1> QED  BY <1>1, <1>4, <1>8, <1>9, FS_Injection

\* The first of a set of events: whom they leave out, they are all before.
LEMMA FirstEvents ==
    ASSUME NEW S, S \subseteq Happenings, IsFiniteSet(S), NEW n \in Nat
    PROVE  /\ Tml!First(S, n) \subseteq S /\ IsFiniteSet(Tml!First(S, n))
           /\ Cardinality(Tml!First(S, n)) \in Nat
           /\ \A e \in S \ Tml!First(S, n) :
                /\ \A f \in Tml!First(S, n) : Tml!Precedes(f, e)
                /\ Cardinality(Tml!First(S, n)) >= n
<1> PICK L : L = Earlier(S)
  OBVIOUS
<1>1. Orders(L, S) /\ \A e \in S : Ahead(L, S, e) = {f \in S : Tml!Precedes(f, e)}
  BY EventsAreOrdered
<1>2. ASSUME NEW e \in S
      PROVE  Tml!Place(e, S) = 1 + Cardinality(Ahead(L, S, e)) /\ Cardinality(Ahead(L, S, e)) \in Nat
  <2>1. Tml!Place(e, S) = 1 + Tml!Cardinality({f \in S : Tml!Precedes(f, e)})
    BY DEF Tml!Place
  <2>2. Tml!Cardinality({f \in S : Tml!Precedes(f, e)}) = Cardinality({f \in S : Tml!Precedes(f, e)})
    BY DEF Tml!Cardinality, Cardinality
  <2>3. Cardinality(Ahead(L, S, e)) \in Nat
    BY FS_Subset, FS_CardinalityType DEF Ahead
  <2> QED  BY <1>1, <2>1, <2>2, <2>3
<1>3. Tml!First(S, n) = FirstOnes(L, S, n)
  <2>1. \A e \in S : Tml!Place(e, S) <= n <=> Cardinality(Ahead(L, S, e)) < n
    BY <1>2
  <2> QED  BY <2>1 DEF Tml!First, FirstOnes
<1>4. FirstOnes(L, S, n) \subseteq S
  BY DEF FirstOnes
<1>5. IsFiniteSet(FirstOnes(L, S, n)) /\ Cardinality(FirstOnes(L, S, n)) \in Nat
  BY <1>4, FS_Subset, FS_CardinalityType
<1>6. ASSUME NEW e \in S, e \notin FirstOnes(L, S, n)
      PROVE  /\ \A f \in FirstOnes(L, S, n) : Tml!Precedes(f, e)
             /\ Cardinality(FirstOnes(L, S, n)) >= n
  <2>1. FirstOnes(L, S, n) \subseteq Ahead(L, S, e) /\ Cardinality(FirstOnes(L, S, n)) >= n
    BY <1>1, <1>6, FirstAreAhead
  <2> QED  BY <1>1, <2>1
<1> QED  BY <1>3, <1>4, <1>5, <1>6

\* The newest of a set of heartbeats, likewise.
LEMMA NewestBeats ==
    ASSUME TimelineSorts, NEW S, S \subseteq Beats, IsFiniteSet(S), MeasuredOnce(S), NEW n \in Nat
    PROVE  /\ Tml!Newest(S, n) \subseteq S /\ IsFiniteSet(Tml!Newest(S, n))
           /\ Cardinality(Tml!Newest(S, n)) \in Nat
           /\ \A b \in S \ Tml!Newest(S, n) :
                /\ \A c \in Tml!Newest(S, n) : Newer(c, b)
                /\ Cardinality(Tml!Newest(S, n)) >= n
           /\ Cardinality(S) <= n => Tml!Newest(S, n) = S
<1> PICK L : L = Recent(S)
  OBVIOUS
<1>1. Orders(L, S) /\ \A b \in S : Ahead(L, S, b) = {c \in S : Newer(c, b)}
  BY BeatsAreOrdered
<1>2. ASSUME NEW b \in S
      PROVE  /\ Tml!Cardinality({c \in S : c.at > b.at \/ (c.at = b.at /\ c.origin > b.origin)})
                  = Cardinality(Ahead(L, S, b))
             /\ Cardinality(Ahead(L, S, b)) + 1 \in 1..Cardinality(S)
             /\ Cardinality(S) \in Nat /\ Cardinality(Ahead(L, S, b)) \in Nat
  <2>1. {c \in S : c.at > b.at \/ (c.at = b.at /\ c.origin > b.origin)} = Ahead(L, S, b)
    BY <1>1 DEF Newer
  <2>2. Tml!Cardinality(Ahead(L, S, b)) = Cardinality(Ahead(L, S, b))
    BY DEF Tml!Cardinality, Cardinality
  <2>3. Cardinality(Ahead(L, S, b)) \in Nat
    BY FS_Subset, FS_CardinalityType DEF Ahead
  <2> QED  BY <1>1, <2>1, <2>2, <2>3, EachPlaceIsTaken
<1>3. Tml!Newest(S, n) = FirstOnes(L, S, n)
  <2>1. Tml!Newest(S, n) = {b \in S : Tml!Cardinality({c \in S : c.at > b.at \/ (c.at = b.at /\ c.origin > b.origin)}) < n}
    BY DEF Tml!Newest
  <2> QED  BY <1>2, <2>1, Zenon DEF FirstOnes
<1>4. FirstOnes(L, S, n) \subseteq S
  BY DEF FirstOnes
<1>5. IsFiniteSet(FirstOnes(L, S, n)) /\ Cardinality(FirstOnes(L, S, n)) \in Nat
  BY <1>4, FS_Subset, FS_CardinalityType
<1>6. ASSUME NEW b \in S, b \notin FirstOnes(L, S, n)
      PROVE  /\ \A c \in FirstOnes(L, S, n) : Newer(c, b)
             /\ Cardinality(FirstOnes(L, S, n)) >= n
  <2>1. FirstOnes(L, S, n) \subseteq Ahead(L, S, b) /\ Cardinality(FirstOnes(L, S, n)) >= n
    BY <1>1, <1>6, FirstAreAhead
  <2> QED  BY <1>1, <2>1
<1>7. Cardinality(S) <= n => FirstOnes(L, S, n) = S
  <2> SUFFICES ASSUME Cardinality(S) <= n, NEW b \in S  PROVE Cardinality(Ahead(L, S, b)) < n
    BY DEF FirstOnes
  <2>1. /\ Cardinality(Ahead(L, S, b)) + 1 \in 1..Cardinality(S)
        /\ Cardinality(S) \in Nat /\ Cardinality(Ahead(L, S, b)) \in Nat
    BY <1>2
  <2> QED  BY <2>1
<1> QED  BY <1>3, <1>4, <1>5, <1>6, <1>7

\* What is read of a table of changes.
LEMMA ChangesAreRead ==
    ASSUME TimelineSorts, TimelineShapes, NEW C, C \subseteq changes
    PROVE  /\ {Tml!Changed(c) : c \in C} \subseteq Happenings
           /\ IsFiniteSet({Tml!Changed(c) : c \in C})
<1> PICK f : f = [c \in C |-> Tml!Changed(c)]
  OBVIOUS
<1>1. \A c \in C : Tml!Changed(c) \in Happenings
  BY DEF TimelineShapes, TimelineSorts, Changes, Happenings, Tml!Changed
<1>2. IsFiniteSet(C)
  BY FS_Subset DEF TimelineShapes
<1> PICK I : I = {Tml!Changed(c) : c \in C}
  OBVIOUS
<1>3. f \in Surjection(C, I)
  BY DEF Surjection
<1>4. IsFiniteSet(I)
  BY <1>2, <1>3, FS_Surjection
<1> QED  BY <1>1, <1>4

LEMMA OutagesAreRead ==
    ASSUME TimelineSorts, TimelineShapes, NEW N, N \subseteq outages
    PROVE  /\ {Tml!Outage(n) : n \in N} \subseteq Happenings
           /\ IsFiniteSet({Tml!Outage(n) : n \in N})
<1> PICK f : f = [n \in N |-> Tml!Outage(n)]
  OBVIOUS
<1>1. \A n \in N : Tml!Outage(n) \in Happenings
  BY DEF TimelineShapes, Happenings, Tml!Outage
<1>2. IsFiniteSet(N)
  BY FS_Subset DEF TimelineShapes
<1> PICK I : I = {Tml!Outage(n) : n \in N}
  OBVIOUS
<1>3. f \in Surjection(N, I)
  BY DEF Surjection
<1>4. IsFiniteSet(I)
  BY <1>2, <1>3, FS_Surjection
<1> QED  BY <1>1, <1>4

\* The newest failures, as events.
LEMMA FailuresAreRead ==
    ASSUME TimelineSorts, TimelineShapes, NEW B, B \subseteq {b \in beats : b.failed}, NEW n \in Nat
    PROVE  LET H == Tml!Newest(B, n)
               F == {Tml!Failed(b) : b \in H} IN
           /\ H \subseteq B /\ F \subseteq Happenings /\ IsFiniteSet(F)
           /\ Cardinality(F) \in Nat
           /\ \A b \in B : Tml!Failed(b) \notin F =>
                /\ \A f \in F : Tml!Precedes(f, Tml!Failed(b))
                /\ Cardinality(F) >= n
<1> PICK H : H = Tml!Newest(B, n)
  OBVIOUS
<1> PICK F : F = {Tml!Failed(b) : b \in H}
  OBVIOUS
<1>1. B \subseteq Beats /\ IsFiniteSet(B) /\ MeasuredOnce(B) /\ \A b \in B : b.failed
  BY FS_Subset DEF TimelineShapes, MeasuredOnce
<1>2. /\ H \subseteq B /\ IsFiniteSet(H) /\ Cardinality(H) \in Nat
      /\ \A b \in B \ H : (\A c \in H : Newer(c, b)) /\ Cardinality(H) >= n
  BY <1>1, NewestBeats
<1>3. ASSUME NEW b \in B
      PROVE  Tml!Failed(b) \in Happenings /\ b.at \in Nat /\ b.origin \in Nat
             /\ Tml!Failed(b).at = b.at /\ Tml!Failed(b).rank = 1 /\ Tml!Failed(b).key = b.origin
  BY <1>1 DEF TimelineSorts, Beats, Happenings, Tml!Failed
<1> PICK f : f = [b \in H |-> Tml!Failed(b)]
  OBVIOUS
<1>4. f \in Surjection(H, F)
  BY DEF Surjection
<1>5. IsFiniteSet(F)
  BY <1>2, <1>4, FS_Surjection
<1>6. f \in Injection(H, F)
  <2>1. \A b, c \in H : f[b] = f[c] => b = c
    BY <1>1, <1>2, <1>3 DEF MeasuredOnce
  <2>2. f \in [H -> F]
    OBVIOUS
  <2> QED  BY <2>1, <2>2 DEF Injection, IsInjective
<1>7. Cardinality(H) <= Cardinality(F) /\ Cardinality(F) \in Nat
  BY <1>5, <1>6, FS_Injection, FS_CardinalityType
<1>8. ASSUME NEW b \in B, Tml!Failed(b) \notin F
      PROVE  (\A e \in F : Tml!Precedes(e, Tml!Failed(b))) /\ Cardinality(F) >= n
  <2>1. b \notin H
    BY <1>8
  <2>2. \A c \in H : Newer(c, b)
    BY <1>2, <2>1
  <2>3. Cardinality(F) >= n
    BY <1>2, <1>7, <2>1
  <2>4. \A c \in H : Tml!Precedes(Tml!Failed(c), Tml!Failed(b))
    BY <1>2, <1>3, <2>2 DEF Newer, Tml!Precedes
  <2> QED  BY <2>3, <2>4
<1>9. F \subseteq Happenings
  BY <1>2, <1>3
<1> QED  BY <1>2, <1>5, <1>7, <1>8, <1>9

LEMMA BeatsAreTimed ==
    ASSUME TimelineSorts, TimelineShapes
    PROVE  \A b \in beats : b.at \in Nat /\ b.origin \in Nat /\ 0 <= b.at
<1> SUFFICES ASSUME NEW b \in beats  PROVE b.at \in Nat /\ b.origin \in Nat /\ 0 <= b.at
  OBVIOUS
<1>1. b \in Beats /\ Times \subseteq Nat /\ Origins \subseteq Nat
  BY DEF TimelineShapes, TimelineSorts
<1>2. b.at \in Times /\ b.origin \in Origins
  BY <1>1 DEF Beats
<1>3. b.at \in Nat /\ b.origin \in Nat
  BY <1>1, <1>2, Zenon
<1> QED  BY <1>3

\* A page asks for one more than it shows, of each table.
LEMMA FoundSuffices ==
    ASSUME TimelineSorts, TimelineShapes, ReadsOn, reader # None,
           NEW K, K \subseteq Happenings, IsFiniteSet(K),
           reader.kind \in {"all", "state"} => found = Tml!First(K, reader.limit + 1),
           reader.kind = "failure" => K = {},
           NEW F, F = Tml!Found(reader), NEW C, C = ToShow(K)
    PROVE  /\ F \subseteq C /\ C \subseteq Happenings /\ IsFiniteSet(F)
           /\ \A e \in C \ F : Cardinality({f \in F : Tml!Precedes(f, e)}) >= reader.limit + 1
<1> PICK n : n = reader.limit + 1
  OBVIOUS
<1> PICK c : c = reader.cursor
  OBVIOUS
<1> PICK before : before = reader.before
  OBVIOUS
<1>1. /\ reader \in Readers /\ n \in Nat /\ c \in Happenings \cup {None} /\ before \in Times \cup {None}
      /\ reader.kind \in {"all", "state", "failure", "outages"}
      /\ Times \subseteq Nat /\ None \notin Nat /\ None \notin Happenings
      /\ c # None => c.at \in Nat /\ c.rank \in {0, 1} /\ c.key \in Nat
  <2>1. reader \in Readers /\ Times \subseteq Nat /\ None \notin Nat /\ None \notin Happenings
        /\ Limits \subseteq Nat
    BY DEF TimelineShapes, TimelineSorts
  <2>2. reader.limit \in Limits /\ reader.cursor \in Happenings \cup {None}
        /\ reader.before \in Times \cup {None} /\ reader.kind \in {"all", "state", "failure", "outages"}
    BY <2>1 DEF Readers
  <2>3. n \in Nat
    <3>1. reader.limit \in Nat
      BY <2>1, <2>2
    <3> QED  BY <3>1
  <2>4. c # None => c.at \in Nat /\ c.rank \in {0, 1} /\ c.key \in Nat
    BY <2>2 DEF Happenings
  <2> QED  BY <2>1, <2>2, <2>3, <2>4
<1>2. ASSUME NEW Y, Y \subseteq F, IsFiniteSet(F), NEW e, \A f \in Y : Tml!Precedes(f, e),
             Cardinality(Y) \in Nat, Cardinality(Y) >= n
      PROVE  Cardinality({f \in F : Tml!Precedes(f, e)}) >= n
  <2> PICK Z : Z = {f \in F : Tml!Precedes(f, e)}
    OBVIOUS
  <2>1. Y \subseteq Z /\ Z \subseteq F
    BY <1>2
  <2>2. IsFiniteSet(Z)
    BY <1>2, <2>1, FS_Subset
  <2>3. Cardinality(Y) <= Cardinality(Z) /\ Cardinality(Z) \in Nat
    BY <2>1, <2>2, FS_Subset, FS_CardinalityType
  <2> QED  BY <1>1, <1>2, <2>3
<1>3. CASE reader.kind = "outages"
  <2> PICK N : N = {m \in outages : c # None => m < c.key}
    OBVIOUS
  <2> PICK X : X = {Tml!Outage(m) : m \in N}
    OBVIOUS
  <2>1. X \subseteq Happenings /\ IsFiniteSet(X)
    BY OutagesAreRead
  <2>2. F = Tml!First(X, n)
    BY <1>3 DEF Tml!Found, Tml!OutagesFound
  <2>3. C = X
    <3>1. \A m \in outages : c # None => (Tml!Precedes(c, Tml!Outage(m)) <=> m < c.key)
      BY <1>1, <1>3 DEF ReadsOn, Tml!Precedes, Tml!Outage, TimelineShapes
    <3>2. before = None
      BY <1>3 DEF ReadsOn
    <3> QED  BY <1>3, <3>1, <3>2 DEF ToShow, ToCome, Readable
  <2>4. /\ F \subseteq X /\ IsFiniteSet(F) /\ Cardinality(F) \in Nat
        /\ \A e \in X \ F : (\A f \in F : Tml!Precedes(f, e)) /\ Cardinality(F) >= n
    <3>1. /\ Tml!First(X, n) \subseteq X /\ IsFiniteSet(Tml!First(X, n))
          /\ Cardinality(Tml!First(X, n)) \in Nat
          /\ \A e \in X \ Tml!First(X, n) : /\ \A f \in Tml!First(X, n) : Tml!Precedes(f, e)
                                           /\ Cardinality(Tml!First(X, n)) >= n
      BY <1>1, <2>1, FirstEvents
    <3> QED  BY <2>2, <3>1, Zenon
  <2>5. ASSUME NEW e \in C \ F  PROVE Cardinality({f \in F : Tml!Precedes(f, e)}) >= n
    <3>1. (\A f \in F : Tml!Precedes(f, e)) /\ Cardinality(F) >= n
      BY <2>3, <2>4, <2>5
    <3> QED  BY <1>2, <2>4, <3>1
  <2> QED  BY <2>1, <2>3, <2>4, <2>5
<1>4. CASE reader.kind # "outages"
  <2> PICK X : X = K
    OBVIOUS
  <2> PICK T : T = Tml!First(X, n)
    OBVIOUS
  <2>1. X \subseteq Happenings /\ IsFiniteSet(X)
    OBVIOUS
  <2>2. /\ T \subseteq X /\ IsFiniteSet(T) /\ Cardinality(T) \in Nat
        /\ \A e \in X \ T : (\A f \in T : Tml!Precedes(f, e)) /\ Cardinality(T) >= n
    BY <1>1, <2>1, FirstEvents
  <2> PICK B : B = {b \in beats : b.failed /\ (IF c = None THEN before # None => b.at < before
                                               ELSE Tml!Precedes(c, Tml!Failed(b)))}
    OBVIOUS
  <2> PICK H : H = Tml!Newest(B, n)
    OBVIOUS
  <2> PICK U : U = {Tml!Failed(b) : b \in H}
    OBVIOUS
  <2>3. /\ H \subseteq B /\ U \subseteq Happenings /\ IsFiniteSet(U) /\ Cardinality(U) \in Nat
        /\ \A b \in B : Tml!Failed(b) \notin U =>
             (\A f \in U : Tml!Precedes(f, Tml!Failed(b))) /\ Cardinality(U) >= n
    <3>1. B \subseteq {b \in beats : b.failed}
      OBVIOUS
    <3> QED  BY <1>1, <3>1, FailuresAreRead
  <2>4. F = (IF reader.kind # "failure" THEN T ELSE {}) \cup (IF reader.kind # "state" THEN U ELSE {})
    <3>1. reader.kind \in {"all", "state"} => found = T
      OBVIOUS
    <3>2. F = (IF reader.kind # "failure" THEN T ELSE {})
              \cup (IF reader.kind # "state" THEN {Tml!Failed(b) : b \in Tml!FailuresFound(reader)} ELSE {})
      BY <1>1, <1>4, <3>1 DEF Tml!Found, Tml!EventsFound
    <3>3. \A b \in beats : b.at \in Nat /\ b.origin \in Nat /\ 0 <= b.at
      BY BeatsAreTimed
    <3>4. CASE c = None
      <4>1. Tml!Heartbeats(0, before, TRUE, None, n) = H
        BY <3>3, <3>4 DEF Tml!Heartbeats, Tml!Before
      <4> QED  BY <3>2, <3>4, <4>1 DEF Tml!FailuresFound
    <3>5. CASE c # None /\ c.rank = 0
      <4>1. \A b \in beats : Tml!Precedes(c, Tml!Failed(b)) <=> b.at < c.at + 1
        BY <1>1, <3>3, <3>5 DEF Tml!Precedes, Tml!Failed
      <4>2. c.at + 1 # None
        BY <1>1, <3>5
      <4>3. {b \in beats : /\ 0 <= b.at /\ (c.at + 1 # None => b.at < c.at + 1)
                           /\ (TRUE => b.failed) /\ Tml!Before(b, None)} = B
        BY <3>3, <3>5, <4>1, <4>2 DEF Tml!Before
      <4>4. Tml!Heartbeats(0, c.at + 1, TRUE, None, n) = H
        BY <4>3 DEF Tml!Heartbeats
      <4> QED  BY <3>2, <3>5, <4>4 DEF Tml!FailuresFound, Tml!FailuresUntil
    <3>6. CASE c # None /\ c.rank # 0
      <4>1. \A b \in beats : Tml!Precedes(c, Tml!Failed(b)) <=> Tml!Before(b, c)
        BY <1>1, <3>3, <3>6 DEF Tml!Precedes, Tml!Failed, Tml!Before
      <4>2. {b \in beats : /\ 0 <= b.at /\ (None # None => b.at < None)
                           /\ (TRUE => b.failed) /\ Tml!Before(b, c)} = B
        BY <3>3, <3>6, <4>1
      <4>3. Tml!Heartbeats(0, None, TRUE, c, n) = H
        BY <4>2 DEF Tml!Heartbeats
      <4> QED  BY <3>2, <3>6, <4>3 DEF Tml!FailuresFound
    <3> QED  BY <3>4, <3>5, <3>6
  <2>6. \A b \in beats : Tml!Failed(b).rank = 1 /\ Tml!Failed(b).at = b.at
    BY DEF Tml!Failed
  <2>7. \A e : e \in C <=> \/ reader.kind # "failure" /\ e \in X
                           \/ reader.kind # "state" /\ \E b \in B : e = Tml!Failed(b)
    <3>1. \A e : e \in C <=>
            \/ e \in X
            \/ /\ \/ \E d \in changes : e = Tml!Changed(d)
                  \/ \E b \in {d \in beats : d.failed} : e = Tml!Failed(b)
               /\ OfKind(reader.kind, e) /\ e.rank = 1
               /\ IF c = None THEN before # None => e.at < before ELSE Tml!Precedes(c, e)
      BY <1>4, Zenon DEF ToShow, ToCome, Readable, Tml!All
    <3>2. \A d \in changes : Tml!Changed(d).rank = 0
      BY DEF Tml!Changed
    <3>3. \A b \in beats : OfKind(reader.kind, Tml!Failed(b)) <=> reader.kind # "state"
      BY <1>1, <2>6 DEF OfKind
    <3>4. reader.kind = "failure" => X = {}
      OBVIOUS
    <3>5. ASSUME NEW b \in {d \in beats : d.failed}
          PROVE  b \in B <=> IF c = None THEN before # None => Tml!Failed(b).at < before
                             ELSE Tml!Precedes(c, Tml!Failed(b))
      BY <2>6
    <3> QED  BY <2>6, <3>1, <3>2, <3>3, <3>4, <3>5
  <2>8. F \subseteq C
    BY <2>2, <2>3, <2>4, <2>7
  <2>9. C \subseteq Happenings
    <3>1. \A b \in B : Tml!Failed(b) \in Happenings
      BY DEF TimelineShapes, TimelineSorts, Beats, Happenings, Tml!Failed
    <3> QED  BY <2>1, <2>7, <3>1
  <2>10. IsFiniteSet(F)
    <3>1. IsFiniteSet({}) /\ IsFiniteSet(T) /\ IsFiniteSet(U)
      BY <2>2, <2>3, FS_EmptySet
    <3>2. IsFiniteSet(T \cup U) /\ IsFiniteSet(T \cup {}) /\ IsFiniteSet({} \cup U) /\ IsFiniteSet({} \cup {})
      BY <3>1, FS_Union
    <3> QED  BY <2>4, <3>2
  <2>11. ASSUME NEW e \in C \ F  PROVE Cardinality({f \in F : Tml!Precedes(f, e)}) >= n
    <3>1. CASE reader.kind # "failure" /\ e \in X
      <4>1. e \notin T /\ T \subseteq F
        BY <2>4, <2>11, <3>1
      <4>2. (\A f \in T : Tml!Precedes(f, e)) /\ Cardinality(T) >= n /\ Cardinality(T) \in Nat
        BY <2>2, <3>1, <4>1
      <4> QED  BY <1>2, <2>10, <4>1, <4>2
    <3>2. CASE reader.kind # "state" /\ \E b \in B : e = Tml!Failed(b)
      <4>1. e \notin U /\ U \subseteq F
        BY <2>4, <2>11, <3>2
      <4>2. (\A f \in U : Tml!Precedes(f, e)) /\ Cardinality(U) >= n /\ Cardinality(U) \in Nat
        BY <2>3, <3>2, <4>1
      <4> QED  BY <1>2, <2>10, <4>1, <4>2
    <3> QED  BY <2>7, <2>11, <3>1, <3>2
  <2> QED  BY <2>8, <2>9, <2>10, <2>11
<1> QED  BY <1>3, <1>4

\* A set of events, in order: each has its place.
InPlaces(s, S) ==
    /\ Cardinality(S) \in Nat /\ s \in Seq(Happenings) /\ Len(s) = Cardinality(S)
    /\ \A k \in 1..Cardinality(S) :
          s[k] \in S /\ Cardinality({f \in S : Tml!Precedes(f, s[k])}) = k - 1
    /\ \A j, k \in 1..Cardinality(S) : j < k => Tml!Precedes(s[j], s[k])
    /\ \A e \in S : \E k \in 1..Cardinality(S) : s[k] = e

LEMMA SortedEvents ==
    ASSUME NEW S, S \subseteq Happenings, IsFiniteSet(S)  PROVE InPlaces(Tml!Sorted(S), S)
<1> PICK s : s = Tml!Sorted(S)
  OBVIOUS
<1> PICK L : L = Earlier(S)
  OBVIOUS
<1> PICK n : n = Cardinality(S)
  OBVIOUS
<1>1. Orders(L, S) /\ \A e \in S : Ahead(L, S, e) = {f \in S : Tml!Precedes(f, e)}
  BY EventsAreOrdered
<1>2. /\ n \in Nat
      /\ \A k \in 1..n : \E a \in S : Cardinality(Ahead(L, S, a)) = k - 1
      /\ \A a \in S : Cardinality(Ahead(L, S, a)) + 1 \in 1..n
      /\ \A a, b \in S : Cardinality(Ahead(L, S, a)) = Cardinality(Ahead(L, S, b)) => a = b
  <2>1. /\ Cardinality(S) \in Nat
        /\ \A k \in 1..Cardinality(S) : \E a \in S : Cardinality(Ahead(L, S, a)) = k - 1
        /\ \A a \in S : Cardinality(Ahead(L, S, a)) + 1 \in 1..Cardinality(S)
        /\ \A a, b \in S : Cardinality(Ahead(L, S, a)) = Cardinality(Ahead(L, S, b)) => a = b
    BY <1>1, EachPlaceIsTaken
  <2> QED  BY <2>1, Zenon
<1>3. ASSUME NEW e \in S
      PROVE  Tml!Place(e, S) = 1 + Cardinality(Ahead(L, S, e)) /\ Cardinality(Ahead(L, S, e)) \in Nat
  <2>1. Tml!Place(e, S) = 1 + Tml!Cardinality({f \in S : Tml!Precedes(f, e)})
    BY DEF Tml!Place
  <2>2. Tml!Cardinality({f \in S : Tml!Precedes(f, e)}) = Cardinality({f \in S : Tml!Precedes(f, e)})
    BY DEF Tml!Cardinality, Cardinality
  <2>3. Cardinality(Ahead(L, S, e)) \in Nat
    BY FS_Subset, FS_CardinalityType DEF Ahead
  <2> QED  BY <1>1, <2>1, <2>2, <2>3
<1>4. s = [k \in 1..n |-> CHOOSE e \in S : Tml!Place(e, S) = k]
  <2>1. Tml!Cardinality(S) = n
    BY DEF Tml!Cardinality, Cardinality
  <2> QED  BY <2>1 DEF Tml!Sorted
<1>5. ASSUME NEW k \in 1..n
      PROVE  s[k] \in S /\ Cardinality(Ahead(L, S, s[k])) = k - 1
  <2>1. \E e \in S : Tml!Place(e, S) = k
    BY <1>2, <1>3
  <2>2. s[k] \in S /\ Tml!Place(s[k], S) = k
    BY <1>4, <2>1
  <2> QED  BY <1>3, <2>2
<1>6. s \in Seq(Happenings) /\ Len(s) = n
  <2>1. s \in [1..n -> Happenings]
    BY <1>4, <1>5
  <2> QED  BY <1>2, <2>1
<1>7. ASSUME NEW j \in 1..n, NEW k \in 1..n, j < k  PROVE Tml!Precedes(s[j], s[k])
  <2>1. s[j] \in S /\ s[k] \in S /\ Cardinality(Ahead(L, S, s[j])) = j - 1
        /\ Cardinality(Ahead(L, S, s[k])) = k - 1
    BY <1>5
  <2>2. s[j] # s[k]
    BY <1>7, <2>1
  <2>3. CASE Tml!Precedes(s[k], s[j])
    <3>1. <<s[k], s[j]>> \in L
      BY <2>1, <2>3 DEF Earlier
    <3>2. Cardinality(Ahead(L, S, s[k])) < Cardinality(Ahead(L, S, s[j]))
      BY <1>1, <2>1, <3>1, AheadGrows
    <3> QED  BY <1>2, <1>7, <2>1, <3>2
  <2> QED  BY <2>1, <2>2, <2>3, PrecedesOrders
<1>8. ASSUME NEW e \in S  PROVE \E k \in 1..n : s[k] = e
  <2> PICK k : k = Cardinality(Ahead(L, S, e)) + 1
    OBVIOUS
  <2>1. k \in 1..n /\ Cardinality(Ahead(L, S, e)) = k - 1
    BY <1>2, <1>3
  <2>2. s[k] \in S /\ Cardinality(Ahead(L, S, s[k])) = Cardinality(Ahead(L, S, e))
    BY <1>5, <2>1
  <2>3. s[k] = e
    BY <1>2, <2>2, Zenon
  <2> QED  BY <2>1, <2>3
<1> QED  BY <1>1, <1>2, <1>5, <1>6, <1>7, <1>8 DEF InPlaces

\* A page of a sorted table: what it leaves out comes after all of it.
PageFits(s, n, C) ==
    /\ C \subseteq Happenings /\ s \in Seq(Happenings) /\ n \in Nat \ {0}
    /\ \A k \in 1..Len(s) : s[k] \in C
    /\ \A j, k \in 1..Len(s) : j < k => Tml!Precedes(s[j], s[k])
    /\ Len(s) <= n => \A e \in C : \E k \in 1..Len(s) : s[k] = e
    /\ Len(s) > n => \A e \in C : Tml!Precedes(s[n], e) \/ \E k \in 1..n : s[k] = e

LEMMA PageIsFirst ==
    ASSUME TimelineSorts, TimelineInvariant, reader # None,
           NEW K, K \subseteq Happenings, IsFiniteSet(K),
           reader.kind \in {"all", "state"} => found = Tml!First(K, reader.limit + 1),
           reader.kind = "failure" => K = {}
    PROVE  PageFits(Tml!Sorted(Tml!Found(reader)), reader.limit, ToShow(K))
<1> PICK s : s = Tml!Sorted(Tml!Found(reader))
  OBVIOUS
<1> PICK n : n = reader.limit
  OBVIOUS
<1> PICK C : C = ToShow(K)
  OBVIOUS
<1> PICK F : F = Tml!Found(reader)
  OBVIOUS
<1>1. reader \in Readers /\ Limits \subseteq Nat \ {0} /\ n \in Nat \ {0}
  <2>1. reader \in Readers /\ Limits \subseteq Nat \ {0}
    BY DEF TimelineInvariant, TimelineShapes, TimelineSorts
  <2>2. n \in Limits
    BY <2>1 DEF Readers
  <2> QED  BY <2>1, <2>2, Zenon
<1>2. /\ F \subseteq C /\ C \subseteq Happenings /\ IsFiniteSet(F)
      /\ \A e \in C \ F : Cardinality({f \in F : Tml!Precedes(f, e)}) >= n + 1
  BY FoundSuffices DEF TimelineInvariant
<1>3. /\ Cardinality(F) \in Nat /\ s \in Seq(Happenings) /\ Len(s) = Cardinality(F)
      /\ \A k \in 1..Cardinality(F) : s[k] \in F
            /\ Cardinality({f \in F : Tml!Precedes(f, s[k])}) = k - 1
      /\ \A j, k \in 1..Cardinality(F) : j < k => Tml!Precedes(s[j], s[k])
      /\ \A e \in F : \E k \in 1..Cardinality(F) : s[k] = e
  <2>1. F \subseteq Happenings /\ IsFiniteSet(F) /\ s = Tml!Sorted(F)
    BY <1>2
  <2>2. InPlaces(s, F)
    BY <2>1, SortedEvents
  <2> QED  BY <2>2 DEF InPlaces
<1>4. ASSUME NEW e
      PROVE  /\ Cardinality({f \in F : Tml!Precedes(f, e)}) \in Nat
             /\ Cardinality({f \in F : Tml!Precedes(f, e)}) <= Cardinality(F)
             /\ IsFiniteSet({f \in F : Tml!Precedes(f, e)})
  BY <1>2, FS_Subset, FS_CardinalityType
<1>5. ASSUME Len(s) <= n, NEW e \in C  PROVE \E k \in 1..Len(s) : s[k] = e
  <2>1. e \in F
    <3> SUFFICES ASSUME e \notin F  PROVE FALSE
      OBVIOUS
    <3> PICK a : a = Cardinality({f \in F : Tml!Precedes(f, e)})
      OBVIOUS
    <3>1. a >= n + 1 /\ a \in Nat /\ a <= Cardinality(F) /\ Cardinality(F) <= n
      BY <1>2, <1>3, <1>4, <1>5
    <3> QED  BY <1>1, <1>3, <3>1
  <2> QED  BY <1>3, <2>1
<1>6. ASSUME Len(s) > n, NEW e \in C, ~ Tml!Precedes(s[n], e)  PROVE \E k \in 1..n : s[k] = e
  <2>7. n \in 1..Cardinality(F)
    BY ONLY <1>1, <1>3, <1>6
  <2>1. n \in 1..Cardinality(F) /\ s[n] \in F /\ Cardinality({f \in F : Tml!Precedes(f, s[n])}) = n - 1
    BY <1>3, <2>7
  <2>2. e \in Happenings /\ s[n] \in Happenings
    BY <1>2, <2>1
  <2>3. e = s[n] \/ Tml!Precedes(e, s[n])
    BY <1>6, <2>2, PrecedesOrders
  <2>4. e \in F
    <3> SUFFICES ASSUME e \notin F  PROVE FALSE
      OBVIOUS
    <3>1. Tml!Precedes(e, s[n])
      BY <2>1, <2>3
    <3>2. {f \in F : Tml!Precedes(f, e)} \subseteq {f \in F : Tml!Precedes(f, s[n])}
      BY <1>2, <2>2, <3>1, PrecedesOrders
    <3>3. Cardinality({f \in F : Tml!Precedes(f, e)}) <= Cardinality({f \in F : Tml!Precedes(f, s[n])})
      BY <1>4, <3>2, FS_Subset
    <3>4. Cardinality({f \in F : Tml!Precedes(f, e)}) >= n + 1
      BY <1>2
    <3>5. Cardinality({f \in F : Tml!Precedes(f, e)}) \in Nat
      BY <1>4
    <3> QED  BY <1>1, <2>1, <3>3, <3>4, <3>5
  <2>5. PICK k \in 1..Cardinality(F) : s[k] = e
    BY <1>3, <2>4
  <2>6. k <= n
    <3> SUFFICES ASSUME k > n  PROVE FALSE
      BY <1>1, <1>3, <2>5
    <3>1. Tml!Precedes(s[n], s[k])
      BY <1>3, <2>1, <2>5
    <3> QED  BY <1>6, <2>5, <3>1
  <2> QED  BY <1>1, <1>3, <2>5, <2>6
<1>7. PageFits(s, n, C)
  BY <1>1, <1>2, <1>3, <1>5, <1>6 DEF PageFits
<1> QED  BY <1>7

\* All that was there and comes before where the reader stands was shown.
AllShown(r) ==
    \A e \in steady :
        /\ OfKind(r.kind, e)
        /\ r.before # None => e.at < r.before
        /\ r.more => r.cursor # None /\ ~ Tml!Precedes(r.cursor, e)
        => \E k \in 1..Len(r.shown) : r.shown[k] = e

LEMMA NothingSkippedIs ==
    ASSUME reader # None, reader.shown \in Seq(Happenings)
    PROVE  Tml!NothingSkipped <=> AllShown(reader)
<1>1. DOMAIN reader.shown = 1..Len(reader.shown)
  OBVIOUS
<1> QED  BY <1>1 DEF Tml!NothingSkipped, AllShown, OfKind

LEMMA InOrderIs ==
    ASSUME NEW s, NEW n, Len(s) = n, \A j, k \in 1..n : j < k => Tml!Precedes(s[j], s[k])
    PROVE  InOrder(s)
BY DEF InOrder

LEMMA AllShownIs ==
    ASSUME NEW r, NEW n, Len(r.shown) = n,
           \A e \in steady :
              /\ OfKind(r.kind, e)
              /\ r.before # None => e.at < r.before
              /\ r.more => r.cursor # None /\ ~ Tml!Precedes(r.cursor, e)
              => \E k \in 1..n : r.shown[k] = e
    PROVE  AllShown(r)
BY DEF AllShown

LEMMA PlacesShift ==
    ASSUME NEW l \in Nat, NEW m \in Nat, NEW n \in Nat, m <= n, NEW j \in 1..l + m, NEW k \in 1..l + m,
           j \notin 1..l, k \notin 1..l, j < k
    PROVE  j - l \in 1..n /\ k - l \in 1..n /\ j - l < k - l
OBVIOUS

LEMMA PageIsShown ==
    ASSUME TimelineSorts, TimelineInvariant, Tml!Page
    PROVE  TimelineInvariant'
<1> PICK s : s = Tml!Sorted(Tml!Found(reader))
  OBVIOUS
<1> PICK n : n = reader.limit
  OBVIOUS
<1>0. \E K : /\ K \subseteq Happenings /\ IsFiniteSet(K)
             /\ reader.kind \in {"all", "state"} => ChangesOf(K)
             /\ reader.kind = "failure" => K = {}
             /\ \A e \in K : StillTo(e)
  <2>1. CASE reader.kind \in {"all", "state"}
    <3>1. PICK K : ChangesOf(K)
      BY <2>1 DEF Tml!Page, TimelineInvariant, ReadFirst
    <3> QED  BY <2>1, <3>1 DEF ChangesOf
  <2>2. CASE reader.kind \notin {"all", "state"}
    BY <2>2, FS_EmptySet
  <2> QED  BY <2>1, <2>2
<1> PICK K : /\ K \subseteq Happenings /\ IsFiniteSet(K)
             /\ reader.kind \in {"all", "state"} => ChangesOf(K)
             /\ reader.kind = "failure" => K = {}
             /\ \A e \in K : StillTo(e)
  BY <1>0
<1> PICK C : C = ToShow(K)
  OBVIOUS
<1> PICK more \in BOOLEAN : more <=> Len(s) > n
  OBVIOUS
<1> PICK items : items = IF more THEN SubSeq(s, 1, n) ELSE s
  OBVIOUS
<1> PICK cursor : cursor = IF more THEN items[n] ELSE reader.cursor
  OBVIOUS
<1> PICK shown : shown = reader.shown \o items
  OBVIOUS
<1>1. reader # None /\ reader.more /\ found' = None /\ UNCHANGED <<changes, beats, outages, writes, steady>>
  BY DEF Tml!Page
<1>2. reader' = [reader EXCEPT !.shown = shown, !.more = more, !.cursor = cursor]
  <2>1. reader' = [reader EXCEPT !.shown = @ \o (IF Len(s) > n THEN SubSeq(s, 1, n) ELSE s),
                                 !.more = Len(s) > n,
                                 !.cursor = IF Len(s) > n THEN (IF Len(s) > n THEN SubSeq(s, 1, n) ELSE s)[n] ELSE @]
    BY Zenon DEF Tml!Page
  <2>2. (Len(s) > n) = more
    OBVIOUS
  <2> QED  BY <2>1, <2>2, Zenon
<1>3. /\ C \subseteq Happenings /\ s \in Seq(Happenings) /\ n \in Nat \ {0}
      /\ \A k \in 1..Len(s) : s[k] \in C
      /\ \A j, k \in 1..Len(s) : j < k => Tml!Precedes(s[j], s[k])
      /\ Len(s) <= n => \A e \in C : \E k \in 1..Len(s) : s[k] = e
      /\ Len(s) > n => \A e \in C : Tml!Precedes(s[n], e) \/ \E k \in 1..n : s[k] = e
  <2>1. reader.kind \in {"all", "state"} => found = Tml!First(K, reader.limit + 1)
    BY DEF ChangesOf
  <2>2. PageFits(s, n, C)
    BY <1>1, <2>1, PageIsFirst
  <2> QED  BY <2>2 DEF PageFits
<1>4. reader \in Readers /\ None \notin Readers /\ reader.shown \in Seq(Happenings)
      /\ reader.cursor \in Happenings \cup {None}
  BY <1>1 DEF TimelineInvariant, TimelineShapes, TimelineSorts, Readers
<1> PICK m : m = IF more THEN n ELSE Len(s)
  OBVIOUS
<1>5. /\ m \in Nat /\ m <= Len(s) /\ (more => n \in 1..Len(s))
      /\ items \in Seq(Happenings) /\ Len(items) = m /\ \A k \in 1..m : items[k] = s[k]
  <2>1. Len(s) \in Nat /\ \A k \in 1..Len(s) : s[k] \in Happenings
    BY <1>3
  <2>2. CASE more
    <3>1. n \in 1..Len(s) /\ m = n
      BY <1>3, <2>1, <2>2
    <3>2. \A k \in 1..n : s[k] \in Happenings
      BY <2>1, <3>1
    <3>3. /\ SubSeq(s, 1, n) \in Seq(Happenings)
          /\ Len(SubSeq(s, 1, n)) = IF 1 <= n THEN n - 1 + 1 ELSE 0
          /\ \A k \in 1..n - 1 + 1 : SubSeq(s, 1, n)[k] = s[1 + k - 1]
      BY <1>3, <3>2, SubSeqProperties
    <3>4. items = SubSeq(s, 1, n)
      BY <2>2
    <3>5. n - 1 + 1 = n /\ \A k \in 1..n : 1 + k - 1 = k
      BY <1>3
    <3>6. items \in Seq(Happenings) /\ Len(items) = n /\ \A k \in 1..n : items[k] = s[k]
      BY <1>3, <3>3, <3>4, <3>5
    <3> QED  BY <3>1, <3>6
  <2>3. CASE ~ more
    BY <1>3, <2>1, <2>3
  <2> QED  BY <2>2, <2>3
<1> PICK l : l = Len(reader.shown)
  OBVIOUS
<1>6. /\ l \in Nat /\ shown \in Seq(Happenings) /\ Len(shown) = l + m
      /\ \A k \in 1..l : shown[k] = reader.shown[k]
      /\ \A k \in 1..m : shown[l + k] = s[k]
  <2>1. /\ shown \in Seq(Happenings) /\ Len(shown) = l + m
        /\ \A k \in 1..l + m : shown[k] = IF k <= l THEN reader.shown[k] ELSE items[k - l]
    <3> PICK t \in Seq(Happenings) : t = reader.shown
      BY <1>4
    <3>1. /\ t \o items \in Seq(Happenings) /\ Len(t \o items) = Len(t) + Len(items)
          /\ \A k \in 1..Len(t) + Len(items) :
               (t \o items)[k] = IF k <= Len(t) THEN t[k] ELSE items[k - Len(t)]
      <4>1. t \in Seq(Happenings) /\ items \in Seq(Happenings)
        BY <1>5
      <4> QED  BY ONLY <4>1, ConcatProperties
    <3>2. shown = t \o items /\ Len(t) = l /\ Len(items) = m
      BY <1>5
    <3>3. ASSUME NEW k \in 1..l + m  PROVE shown[k] = IF k <= l THEN reader.shown[k] ELSE items[k - l]
      BY ONLY <3>1, <3>2, <3>3, t = reader.shown
    <3>4. shown \in Seq(Happenings) /\ Len(shown) = l + m
      BY ONLY <3>1, <3>2
    <3> QED  BY ONLY <3>3, <3>4
  <2>2. l \in Nat
    BY <1>4
  <2>3. ASSUME NEW k \in 1..m  PROVE shown[l + k] = s[k]
    <3>1. l + k \in 1..l + m /\ ~ (l + k <= l) /\ l + k - l = k
      BY <1>5, <2>2
    <3>2. shown[l + k] = items[k]
      BY <2>1, <3>1
    <3> QED  BY <1>5, <3>2
  <2>4. ASSUME NEW k \in 1..l  PROVE shown[k] = reader.shown[k]
    <3>1. k \in 1..l + m /\ k <= l
      BY ONLY <1>5, <2>2, <2>4
    <3> QED  BY ONLY <2>1, <3>1
  <2> QED  BY ONLY <2>1, <2>2, <2>3, <2>4
<1>21. l \in Nat /\ m \in Nat /\ Len(s) \in Nat /\ m <= Len(s) /\ Len(shown) = l + m
  BY <1>3, <1>5, <1>6
<1> PICK w : w = l + m
  OBVIOUS
<1>22. w \in Nat /\ Len(shown) = w
  BY <1>21
<1>7. cursor \in Happenings \cup {None}
      /\ (more => cursor = s[n] /\ cursor \in C /\ cursor # None)
  <2>1. more => cursor = s[n] /\ s[n] \in C /\ s[n] \in Happenings
    BY <1>3, <1>5
  <2> QED  BY <1>4, <2>1 DEF TimelineSorts
<1>8. /\ reader' \in Readers /\ reader' # None
      /\ reader'.kind = reader.kind /\ reader'.limit = reader.limit /\ reader'.before = reader.before
      /\ reader'.shown = shown /\ reader'.more = more /\ reader'.cursor = cursor
  BY <1>2, <1>4, <1>6, <1>7 DEF Readers
<1>9. \A k \in 1..l : \A e \in C : Tml!Precedes(reader.shown[k], e)
  <2> SUFFICES ASSUME NEW k \in 1..l, NEW e \in C  PROVE Tml!Precedes(reader.shown[k], e)
    OBVIOUS
  <2>1. reader.cursor # None
    BY <1>1, <1>6 DEF TimelineInvariant, ReadsOn
  <2>2. Tml!Precedes(reader.cursor, e)
    BY <2>1 DEF ToShow, ToCome, StillTo
  <2>3. reader.shown[k] = reader.cursor \/ Tml!Precedes(reader.shown[k], reader.cursor)
    BY <1>1, <2>1 DEF TimelineInvariant, ReadsOn
  <2>4. reader.shown[k] \in Happenings /\ e \in Happenings /\ reader.cursor \in Happenings
    BY <1>3, <1>4, <2>1
  <2> QED  BY <2>2, <2>3, <2>4, PrecedesOrders
<1>10. \A k \in 1..l + m : k \notin 1..l => k - l \in 1..m /\ shown[k] = s[k - l] /\ s[k - l] \in C
  <2> SUFFICES ASSUME NEW k \in 1..l + m, k \notin 1..l
               PROVE  k - l \in 1..m /\ shown[k] = s[k - l] /\ s[k - l] \in C
    OBVIOUS
  <2>1. k - l \in 1..m /\ l + (k - l) = k
    <3>1. k \in 1..l + m /\ k \notin 1..l
      OBVIOUS
    <3> QED  BY ONLY <1>21, <3>1
  <2>2. shown[k] = s[k - l]
    BY <1>6, <2>1
  <2>3. k - l \in 1..Len(s)
    BY <1>3, <1>5, <2>1
  <2> QED  BY <1>3, <2>1, <2>2, <2>3
<1>11. InOrder(shown)
  <2> SUFFICES ASSUME NEW j \in 1..w, NEW k \in 1..w, j < k
               PROVE  Tml!Precedes(shown[j], shown[k])
    <3>2. (\A j, k \in 1..w : j < k => Tml!Precedes(shown[j], shown[k])) => InOrder(shown)
      BY <1>22, InOrderIs
    <3> QED  BY <3>2
  <2>1. CASE k \in 1..l
    <3>1. j \in 1..l
      BY <1>5, <1>6, <2>1
    <3>2. shown[j] = reader.shown[j] /\ shown[k] = reader.shown[k]
      BY <1>6, <2>1, <3>1
    <3> QED  BY <1>1, <2>1, <3>1, <3>2 DEF TimelineInvariant, ReadsOn, InOrder
  <2>2. CASE k \notin 1..l /\ j \in 1..l
    <3>1. shown[j] = reader.shown[j]
      BY ONLY <1>6, <2>2
    <3>2. k - l \in 1..m /\ shown[k] = s[k - l] /\ s[k - l] \in C
      <4>1. k \in 1..l + m
        OBVIOUS
      <4> QED  BY ONLY <1>10, <2>2, <4>1
    <3> QED  BY ONLY <1>9, <2>2, <3>1, <3>2
  <2>3. CASE k \notin 1..l /\ j \notin 1..l
    <3>1. j - l \in 1..Len(s) /\ k - l \in 1..Len(s) /\ j - l < k - l
      <4>1. l \in Nat /\ m \in Nat /\ Len(s) \in Nat /\ m <= Len(s)
        BY <1>21
      <4>2. j \in 1..l + m /\ k \in 1..l + m
        OBVIOUS
      <4> QED  BY <2>3, <4>1, <4>2, PlacesShift
    <3>2. Tml!Precedes(s[j - l], s[k - l])
      BY <1>3, <3>1
    <3> QED  BY <1>10, <2>3, <3>2
  <2> QED  BY <2>1, <2>2, <2>3
<1>12. more => \A k \in 1..w : shown[k] = cursor \/ Tml!Precedes(shown[k], cursor)
  <2> SUFFICES ASSUME more, NEW k \in 1..w  PROVE shown[k] = cursor \/ Tml!Precedes(shown[k], cursor)
    OBVIOUS
  <2>1. CASE k \in 1..l
    BY <1>6, <1>7, <1>9, <2>1
  <2>2. CASE k \notin 1..l
    <3>1. n \in 1..Len(s) /\ m = n
      BY <1>5
    <3>3. k - l \in 1..n /\ shown[k] = s[k - l]
      BY <1>10, <2>2, <3>1
    <3>4. k - l \in 1..Len(s)
      BY <1>21, <3>1, <3>3
    <3>2. k - l = n \/ k - l < n
      BY <1>3, <3>3
    <3> QED  BY <1>3, <1>7, <3>1, <3>2, <3>3, <3>4
  <2> QED  BY <2>1, <2>2
<1>13. reader.kind = "outages" =>
         reader.before = None /\ (cursor # None => cursor.at = 0 /\ cursor.rank = 0)
  <2> SUFFICES ASSUME reader.kind = "outages"
               PROVE  reader.before = None /\ (cursor # None => cursor.at = 0 /\ cursor.rank = 0)
    OBVIOUS
  <2>1. reader.before = None /\ (reader.cursor # None => reader.cursor.at = 0 /\ reader.cursor.rank = 0)
    BY <1>1 DEF TimelineInvariant, ReadsOn
  <2>2. \A e \in C : e.at = 0 /\ e.rank = 0
    BY DEF ToShow, ToCome, Readable, Tml!Outage
  <2> QED  BY <1>7, <2>1, <2>2
<1>14. ReadsOn'
  <2>1. InOrder(reader'.shown)
    BY <1>8, <1>11
  <2>2. reader'.more => reader'.cursor # None
    BY <1>7, <1>8
  <2>3. reader'.more => \A k \in 1..Len(reader'.shown) :
          reader'.shown[k] = reader'.cursor \/ Tml!Precedes(reader'.shown[k], reader'.cursor)
    <3>1. Len(reader'.shown) = w
      BY <1>8, <1>22
    <3> QED  BY <1>8, <1>12, <3>1
  <2>4. reader'.kind = "outages" =>
          /\ reader'.before = None
          /\ reader'.cursor # None => reader'.cursor.at = 0 /\ reader'.cursor.rank = 0
    BY <1>8, <1>13
  <2> QED  BY <2>1, <2>2, <2>3, <2>4 DEF ReadsOn, InOrder, Tml!Precedes
<1>15. TimelineShapes'
  BY <1>1, <1>8 DEF TimelineInvariant, TimelineShapes
<1>16. StaysReadable'
  BY <1>1, <1>8 DEF TimelineInvariant, StaysReadable, Tml!All
<1>17. AllShown(reader)
  BY <1>1, <1>4, NothingSkippedIs DEF TimelineInvariant
<1>18. ASSUME NEW e \in steady, OfKind(reader.kind, e), reader.before # None => e.at < reader.before,
              more => ~ Tml!Precedes(cursor, e)
       PROVE  \E k \in 1..w : shown[k] = e
  <2>1. CASE \E k \in 1..l : reader.shown[k] = e
    BY <1>5, <1>6, <2>1
  <2>2. CASE ~ \E k \in 1..l : reader.shown[k] = e
    <3>1. reader.cursor = None \/ Tml!Precedes(reader.cursor, e)
      BY <1>1, <1>17, <1>18, <2>2 DEF AllShown
    <3>2. e \in Readable(reader.kind)
      BY <1>1, <1>18 DEF TimelineInvariant, StaysReadable, Readable
    <3>3. e \in C
      <4>1. e \in ToCome(reader.kind, reader.before, reader.cursor) /\ StillTo(e)
        BY <1>18, <3>1, <3>2 DEF ToCome, StillTo
      <4>2. e.rank \in {0, 1}
        BY <1>18 DEF TimelineInvariant, TimelineShapes, Happenings
      <4>3. CASE reader.kind = "outages" \/ e.rank = 1
        BY <4>1, <4>3 DEF ToShow
      <4>4. CASE reader.kind # "outages" /\ e.rank = 0
        <5>1. reader.kind \in {"all", "state"}
          BY <1>4, <1>18, <4>4 DEF OfKind, Readers
        <5> QED  BY <1>18, <4>1, <4>4, <5>1 DEF ChangesOf, ToShow
      <4> QED  BY <4>2, <4>3, <4>4
    <3>4. PICK k \in 1..m : s[k] = e
      <4>1. CASE more
        BY <1>3, <1>5, <1>7, <1>18, <3>3, <4>1
      <4>2. CASE ~ more
        <5>1. Len(s) <= n /\ m = Len(s)
          BY <1>3, <4>2
        <5> QED  BY <1>3, <3>3, <5>1
      <4> QED  BY <4>1, <4>2
    <3>5. l + k \in 1..w /\ shown[l + k] = e
      <4>1. k \in 1..m /\ w = l + m
        OBVIOUS
      <4>2. l + k \in 1..w
        BY ONLY <1>21, <4>1
      <4> QED  BY ONLY <1>6, <3>4, <4>1, <4>2
    <3> QED  BY <3>5
  <2> QED  BY <2>1, <2>2
<1>19. AllShown(reader')
  <2> PICK r : r = reader'
    OBVIOUS
  <2>1. Len(r.shown) = w
    BY <1>8, <1>22
  <2>2. ASSUME NEW e \in steady, OfKind(r.kind, e), r.before # None => e.at < r.before,
               r.more => r.cursor # None /\ ~ Tml!Precedes(r.cursor, e)
        PROVE  \E k \in 1..w : r.shown[k] = e
    <3>1. r.kind = reader.kind /\ r.before = reader.before /\ r.more = more /\ r.cursor = cursor /\ r.shown = shown
      BY <1>8
    <3>2. more => ~ Tml!Precedes(cursor, e)
      BY <2>2, <3>1, Zenon
    <3>3. OfKind(reader.kind, e) /\ (reader.before # None => e.at < reader.before)
      BY <2>2, <3>1, Zenon
    <3>4. \E k \in 1..w : shown[k] = e
      BY <1>18, <3>2, <3>3
    <3> QED  BY <3>1, <3>4, Zenon
  <2>3. AllShown(r)
    BY <2>1, <2>2, AllShownIs
  <2> QED  BY <2>3
<1>20. Tml!NothingSkipped'
  <2>1. DOMAIN shown = 1..Len(shown)
    BY <1>6
  <2> QED  BY <1>1, <1>8, <1>19, <2>1 DEF Tml!NothingSkipped, AllShown, OfKind, Tml!Precedes
<1>23. ReadFirst'
  BY <1>1 DEF ReadFirst
<1> QED  BY <1>14, <1>15, <1>16, <1>20, <1>23 DEF TimelineInvariant

\* The tables change under the reader.
LEMMA ReaderWaits ==
    ASSUME TimelineInvariant, reader' = reader, found' = found, steady' \subseteq steady,
           TimelineShapes', StaysReadable'
    PROVE  TimelineInvariant'
<1>1. ReadsOn'
  BY DEF TimelineInvariant, ReadsOn, InOrder, Tml!Precedes
<1>2. Tml!NothingSkipped'
  BY DEF TimelineInvariant, Tml!NothingSkipped, Tml!Precedes
<1>3. ReadFirst'
  <2> SUFFICES ASSUME found # None  PROVE \E K : ChangesOf(K)'
    BY DEF TimelineInvariant, ReadFirst
  <2>1. PICK K : ChangesOf(K)
    BY DEF TimelineInvariant, ReadFirst
  <2>2. \A e : StillTo(e)' <=> StillTo(e)
    BY DEF StillTo, Tml!Precedes
  <2>3. Tml!First(K, reader.limit + 1)' = Tml!First(K, reader.limit + 1)
    BY DEF Tml!First, Tml!Place, Tml!Precedes
  <2>4. ChangesOf(K)'
    BY <2>1, <2>2, <2>3 DEF ChangesOf
  <2> QED  BY <2>4
<1> QED  BY <1>1, <1>2, <1>3 DEF TimelineInvariant

\* The changes of a page, as they are when it reads them.
LEMMA ChangesAreFound ==
    ASSUME TimelineSorts, TimelineInvariant, Tml!ReadChanges
    PROVE  TimelineInvariant'
<1> PICK c : c = reader.cursor
  OBVIOUS
<1> PICK before : before = reader.before
  OBVIOUS
<1> PICK at : at = IF c = None THEN before ELSE c.at
  OBVIOUS
<1> PICK id : id = IF c # None /\ c.rank = 0 THEN c.key ELSE None
  OBVIOUS
<1> PICK D : D = {d \in changes : at # None => (d.at < at \/ (id # None /\ d.at = at /\ d.id < id))}
  OBVIOUS
<1> PICK K : K = {Tml!Changed(d) : d \in D}
  OBVIOUS
<1>1. /\ reader # None /\ reader.kind \in {"all", "state"} /\ found' = Tml!ChangesFound(reader)
      /\ UNCHANGED <<changes, beats, outages, reader, writes, pages, steady>>
  BY DEF Tml!ReadChanges
<1>2. /\ c \in Happenings \cup {None} /\ before \in Times \cup {None}
      /\ Times \subseteq Nat /\ None \notin Nat /\ None \notin Happenings
      /\ c # None => c.at \in Nat /\ c.rank \in {0, 1} /\ c.key \in Nat
  <2>1. reader \in Readers /\ Times \subseteq Nat /\ None \notin Nat /\ None \notin Happenings
    BY <1>1 DEF TimelineInvariant, TimelineShapes, TimelineSorts
  <2>2. reader.cursor \in Happenings \cup {None} /\ reader.before \in Times \cup {None}
    BY <2>1 DEF Readers
  <2>3. c # None => c.at \in Nat /\ c.rank \in {0, 1} /\ c.key \in Nat
    BY <2>2 DEF Happenings
  <2> QED  BY <2>1, <2>2, <2>3
<1>3. ASSUME NEW d \in changes
      PROVE  Tml!Changed(d).rank = 0 /\ (d \in D <=> StillTo(Tml!Changed(d)))
  <2>1. d.at \in Nat /\ d.id \in Nat
    BY <1>2, <1>3 DEF TimelineInvariant, TimelineShapes, Changes
  <2>2. Tml!Changed(d).rank = 0 /\ Tml!Changed(d).at = d.at /\ Tml!Changed(d).key = d.id
    BY DEF Tml!Changed
  <2>3. d \in D <=> (at # None => d.at < at \/ (id # None /\ d.at = at /\ d.id < id))
    BY <1>3
  <2>4. CASE c = None
    BY <1>2, <2>2, <2>3, <2>4 DEF StillTo
  <2>5. CASE c # None
    <3>1. at = c.at /\ at # None /\ (id # None <=> c.rank = 0) /\ (c.rank = 0 => id = c.key)
      BY <1>2, <2>5
    <3>2. Tml!Precedes(c, Tml!Changed(d)) <=>
             d.at < c.at \/ (d.at = c.at /\ c.rank = 0 /\ d.id < c.key)
      BY <1>2, <2>1, <2>2, <2>5 DEF Tml!Precedes
    <3> QED  BY <2>2, <2>3, <2>5, <3>1, <3>2 DEF StillTo
  <2> QED  BY <2>4, <2>5
<1>4. K \subseteq Happenings /\ IsFiniteSet(K)
  BY ChangesAreRead DEF TimelineInvariant
<1>5. found' = Tml!First(K, reader.limit + 1)
  <2>1. Tml!Transitions(at, id, reader.limit + 1) = Tml!First(K, reader.limit + 1)
    BY DEF Tml!Transitions
  <2>2. CASE c = None
    <3>1. at = before /\ id = None
      BY <2>2
    <3> QED  BY <1>1, <2>1, <2>2, <3>1 DEF Tml!ChangesFound
  <2>3. CASE c # None
    <3>1. at = c.at /\ id = IF c.rank = 0 THEN c.key ELSE None
      BY <2>3
    <3> QED  BY <1>1, <2>1, <2>3, <3>1 DEF Tml!ChangesFound
  <2> QED  BY <2>2, <2>3
<1>6. \A e \in K : e.rank = 0 /\ StillTo(e)
  BY <1>3
<1>7. ASSUME NEW e \in steady, e.rank = 0, StillTo(e)  PROVE e \in K
  <2>1. e \in Tml!All
    BY <1>1, <1>7 DEF TimelineInvariant, StaysReadable
  <2>2. \A b \in beats : Tml!Failed(b).rank = 1
    BY DEF Tml!Failed
  <2>3. PICK d \in changes : e = Tml!Changed(d)
    BY <1>7, <2>1, <2>2 DEF Tml!All
  <2> QED  BY <1>3, <1>7, <2>3
<1>8. ReadFirst'
  <2>1. \A e : StillTo(e)' <=> StillTo(e)
    BY <1>1 DEF StillTo, Tml!Precedes
  <2>2. Tml!First(K, reader.limit + 1)' = Tml!First(K, reader.limit + 1)
    BY <1>1 DEF Tml!First, Tml!Place, Tml!Precedes
  <2>3. ChangesOf(K)'
    BY <1>1, <1>4, <1>5, <1>6, <1>7, <2>1, <2>2 DEF ChangesOf
  <2> QED  BY <1>1, <2>3 DEF ReadFirst
<1>9. ReadsOn' /\ TimelineShapes' /\ StaysReadable' /\ Tml!NothingSkipped'
  <2>1. ReadsOn' /\ Tml!NothingSkipped'
    BY <1>1 DEF TimelineInvariant, ReadsOn, InOrder, Tml!Precedes, Tml!NothingSkipped
  <2>2. TimelineShapes' /\ StaysReadable'
    BY <1>1 DEF TimelineInvariant, TimelineShapes, StaysReadable, Tml!All
  <2> QED  BY <2>1, <2>2
<1> QED  BY <1>8, <1>9 DEF TimelineInvariant

\* One that begins has everything to come.
LEMMA ReaderBegins ==
    ASSUME TimelineSorts, TimelineInvariant, NEW kind \in {"all", "state", "failure", "outages"},
           NEW limit \in Limits, NEW before \in Times \cup {None}, Tml!Begin(kind, limit, before)
    PROVE  TimelineInvariant'
<1> PICK r : r = [kind |-> kind, limit |-> limit, before |-> before, cursor |-> None,
                  shown |-> <<>>, more |-> TRUE]
  OBVIOUS
<1>1. /\ reader' = r /\ (kind = "outages" => before = None)
      /\ steady' = IF kind = "outages" THEN {Tml!Outage(n) : n \in outages} ELSE Tml!All
      /\ UNCHANGED <<changes, beats, outages, found, writes, pages>>
      /\ reader = None
  BY DEF Tml!Begin
<1>2. /\ r \in Readers /\ r # None /\ r.kind = kind /\ r.before = before /\ r.cursor = None
      /\ r.shown = <<>> /\ r.more
  <2>1. <<>> \in Seq(Happenings)
    OBVIOUS
  <2>2. r \in Readers
    BY <2>1 DEF Readers
  <2>3. None \notin Readers
    BY DEF TimelineSorts
  <2>4. /\ r.kind = kind /\ r.before = before /\ r.cursor = None
        /\ r.shown = <<>> /\ r.more
    OBVIOUS
  <2>5. r # None
    BY <2>2, <2>3
  <2> QED  BY <2>2, <2>4, <2>5
<1>3. Tml!All \subseteq Happenings
  <2>1. {Tml!Changed(c) : c \in changes} \subseteq Happenings
    BY ChangesAreRead DEF TimelineInvariant
  <2>2. \A b \in beats : Tml!Failed(b) \in Happenings
    BY BeatsAreTimed DEF TimelineInvariant, Happenings, Tml!Failed
  <2> QED  BY <2>1, <2>2 DEF Tml!All
<1>4. {Tml!Outage(n) : n \in outages} \subseteq Happenings
  BY OutagesAreRead DEF TimelineInvariant
<1>5. TimelineShapes'
  BY <1>1, <1>2, <1>3, <1>4 DEF TimelineInvariant, TimelineShapes
<1>6. StaysReadable'
  BY <1>1, <1>2 DEF StaysReadable, Tml!All
<1>7. ReadsOn'
  BY <1>1, <1>2 DEF ReadsOn, InOrder
<1>8. Tml!NothingSkipped'
  BY <1>1, <1>2 DEF Tml!NothingSkipped
<1>9. ReadFirst'
  BY <1>1 DEF TimelineInvariant, ReadFirst
<1> QED  BY <1>5, <1>6, <1>7, <1>8, <1>9 DEF TimelineInvariant

LEMMA ChangeIsRecorded ==
    ASSUME TimelineSorts, TimelineInvariant, NEW t \in Times, Tml!Record(t)
    PROVE  TimelineInvariant'
<1> PICK c : c = [at |-> t, id |-> Tml!Cardinality(changes) + 1]
  OBVIOUS
<1>1. /\ changes' = changes \cup {c} /\ writes' = writes + 1
      /\ UNCHANGED <<reader, found, beats, outages, steady>>
  BY DEF Tml!Record, Tml!Write
<1>2. Cardinality(changes) \in Nat /\ Tml!Cardinality(changes) = Cardinality(changes)
  <2>1. Tml!Cardinality(changes) = Cardinality(changes)
    BY DEF Tml!Cardinality, Cardinality
  <2> QED  BY <2>1, FS_CardinalityType DEF TimelineInvariant, TimelineShapes
<1>3. c \in Changes
  BY <1>2 DEF Changes
<1>4. IsFiniteSet(changes')
  BY <1>1, FS_AddElement DEF TimelineInvariant, TimelineShapes
<1>5. TimelineShapes'
  BY <1>1, <1>3, <1>4 DEF TimelineInvariant, TimelineShapes, MeasuredOnce
<1>6. Tml!All \subseteq Tml!All'
  BY <1>1 DEF Tml!All
<1>7. StaysReadable'
  BY <1>1, <1>6 DEF TimelineInvariant, StaysReadable
<1> QED  BY <1>1, <1>5, <1>7, ReaderWaits

LEMMA BeatIsWritten ==
    ASSUME TimelineSorts, TimelineInvariant, NEW t \in Times, NEW o \in Origins, NEW fails \in BOOLEAN,
           Tml!WriteBeat(t, o, fails)
    PROVE  TimelineInvariant'
<1> PICK b : b = [at |-> t, origin |-> o, failed |-> fails]
  OBVIOUS
<1>1. /\ beats' = beats \cup {b} /\ writes' = writes + 1
      /\ \A a \in beats : a.at # t \/ a.origin # o
      /\ UNCHANGED <<reader, found, changes, outages, steady>>
  BY DEF Tml!WriteBeat, Tml!Write
<1>2. b \in Beats /\ b.at = t /\ b.origin = o
  BY DEF Beats
<1>3. IsFiniteSet(beats')
  BY <1>1, FS_AddElement DEF TimelineInvariant, TimelineShapes
<1>4. MeasuredOnce(beats')
  BY <1>1, <1>2 DEF TimelineInvariant, TimelineShapes, MeasuredOnce
<1>5. TimelineShapes'
  BY <1>1, <1>2, <1>3, <1>4 DEF TimelineInvariant, TimelineShapes, MeasuredOnce
<1>6. Tml!All \subseteq Tml!All'
  BY <1>1 DEF Tml!All
<1>7. StaysReadable'
  BY <1>1, <1>6 DEF TimelineInvariant, StaysReadable
<1> QED  BY <1>1, <1>5, <1>7, ReaderWaits

LEMMA BeatsArePruned ==
    ASSUME TimelineSorts, TimelineInvariant, NEW t \in Times, Tml!PruneHeartbeats(t)
    PROVE  TimelineInvariant'
<1>1. /\ beats' = {b \in beats : b.at >= t} /\ writes' = writes + 1
      /\ steady' = {e \in steady : e.rank = 1 => e.at >= t}
      /\ UNCHANGED <<reader, found, changes, outages>>
  BY DEF Tml!PruneHeartbeats, Tml!Write
<1>2. beats' \subseteq beats /\ IsFiniteSet(beats')
  BY <1>1, FS_Subset DEF TimelineInvariant, TimelineShapes
<1>3. TimelineShapes'
  BY <1>1, <1>2 DEF TimelineInvariant, TimelineShapes, MeasuredOnce
<1>4. ASSUME NEW e \in Tml!All, e.rank = 1 => e.at >= t  PROVE e \in Tml!All'
  <2>1. CASE \E c \in changes : e = Tml!Changed(c)
    BY <1>1, <2>1 DEF Tml!All
  <2>2. CASE \E b \in {d \in beats : d.failed} : e = Tml!Failed(b)
    <3> PICK b \in {d \in beats : d.failed} : e = Tml!Failed(b)
      BY <2>2
    <3>1. b \in beats'
      BY <1>1, <1>4 DEF Tml!Failed
    <3>2. Tml!Failed(b)' = Tml!Failed(b)
      BY DEF Tml!Failed
    <3> QED  BY <3>1 DEF Tml!All
  <2> QED  BY <2>1, <2>2 DEF Tml!All
<1>5. StaysReadable'
  BY <1>1, <1>4 DEF TimelineInvariant, StaysReadable
<1> QED  BY <1>1, <1>3, <1>5, ReaderWaits

LEMMA OutageOpens ==
    ASSUME TimelineSorts, TimelineInvariant, Tml!OpenIncident
    PROVE  TimelineInvariant'
<1>1. PICK n \in 1..(Tml!Cardinality(outages) + writes + 1) :
        /\ outages' = outages \cup {n} /\ writes' = writes + 1
        /\ UNCHANGED <<reader, found, changes, beats, steady>>
  BY DEF Tml!OpenIncident, Tml!Write
<1>2. IsFiniteSet(outages') /\ n \in Nat
  BY <1>1, FS_AddElement DEF TimelineInvariant, TimelineShapes
<1>3. TimelineShapes'
  BY <1>1, <1>2 DEF TimelineInvariant, TimelineShapes, MeasuredOnce
<1>4. StaysReadable'
  BY <1>1 DEF TimelineInvariant, StaysReadable, Tml!All
<1> QED  BY <1>1, <1>3, <1>4, ReaderWaits

LEMMA OutageIsDeleted ==
    ASSUME TimelineSorts, TimelineInvariant, NEW n \in outages, Tml!DeleteIncident(n)
    PROVE  TimelineInvariant'
<1>1. /\ outages' = outages \ {n} /\ writes' = writes + 1 /\ steady' = steady \ {Tml!Outage(n)}
      /\ UNCHANGED <<reader, found, changes, beats>>
  BY DEF Tml!DeleteIncident, Tml!Write
<1>2. outages' \subseteq outages /\ IsFiniteSet(outages')
  BY <1>1, FS_Subset DEF TimelineInvariant, TimelineShapes
<1>3. TimelineShapes'
  BY <1>1, <1>2 DEF TimelineInvariant, TimelineShapes, MeasuredOnce
<1>4. \A m \in outages : Tml!Outage(m) # Tml!Outage(n) => m \in outages'
  BY <1>1
<1>5. StaysReadable'
  BY <1>1, <1>4 DEF TimelineInvariant, StaysReadable, Tml!All
<1> QED  BY <1>1, <1>3, <1>5, ReaderWaits

LEMMA TimelineInitially ==
    ASSUME TimelineSorts, Tml!Init  PROVE TimelineInvariant
<1>1. PICK s \in Starts : changes = s.changes /\ beats = s.beats /\ outages = s.outages
  BY DEF Tml!Init
<1>2. reader = None /\ found = None /\ writes = 0 /\ steady = {}
  BY DEF Tml!Init
<1>3. TimelineShapes
  BY <1>1, <1>2 DEF TimelineShapes, TimelineSorts
<1> QED  BY <1>2, <1>3 DEF TimelineInvariant, ReadsOn, ReadFirst, StaysReadable, Tml!NothingSkipped

LEMMA TimelineNext ==
    ASSUME TimelineSorts, TimelineInvariant, [Tml!Next]_(Tml!vars)  PROVE TimelineInvariant'
<1>1. CASE UNCHANGED Tml!vars
  <2>1. UNCHANGED <<changes, beats, outages, reader, found, writes, steady>>
    BY <1>1 DEF Tml!vars
  <2>2. TimelineShapes' /\ StaysReadable'
    BY <2>1 DEF TimelineInvariant, TimelineShapes, StaysReadable, Tml!All, MeasuredOnce
  <2> QED  BY <2>1, <2>2, ReaderWaits
<1>2. CASE Tml!Next
  BY <1>2, ReaderBegins, ChangesAreFound, PageIsShown, ChangeIsRecorded, BeatIsWritten, BeatsArePruned, OutageOpens,
     OutageIsDeleted DEF Tml!Next
<1> QED  BY <1>1, <1>2

Window(a, z) == {b \in beats : a <= b.at /\ b.at < z}

\* What is read of a window.
LEMMA WindowIsRead ==
    ASSUME TimelineSorts, TimelineInvariant, NEW a \in Nat, NEW z \in Nat, NEW n \in Nat
    PROVE  /\ Tml!Heartbeats(a, z, FALSE, None, n) = Tml!Newest(Window(a, z), n)
           /\ Window(a, z) \subseteq beats /\ IsFiniteSet(Window(a, z)) /\ MeasuredOnce(Window(a, z))
           /\ Window(a, z) \subseteq Beats
           /\ Cardinality(Window(a, z)) \in Nat /\ Cardinality(Window(a, z)) <= Cardinality(beats)
<1>1. /\ IsFiniteSet(beats) /\ MeasuredOnce(beats) /\ beats \subseteq Beats /\ None \notin Nat
  BY DEF TimelineInvariant, TimelineShapes, TimelineSorts
<1>2. {b \in beats : /\ a <= b.at /\ (z # None => b.at < z)
                     /\ (FALSE => b.failed) /\ Tml!Before(b, None)} = Window(a, z)
  BY <1>1 DEF Tml!Before, Window
<1>3. Tml!Heartbeats(a, z, FALSE, None, n) = Tml!Newest(Window(a, z), n)
  BY <1>2, Zenon DEF Tml!Heartbeats
<1>4. Window(a, z) \subseteq beats
  BY DEF Window
<1> PICK W : W = Window(a, z)
  OBVIOUS
<1>5. W \subseteq beats /\ IsFiniteSet(W) /\ Cardinality(W) \in Nat /\ Cardinality(W) <= Cardinality(beats)
  BY <1>1, <1>4, FS_Subset, FS_CardinalityType
<1> QED  BY <1>1, <1>3, <1>5 DEF MeasuredOnce

\* A limit keeps the newest heartbeats of a window.
LEMMA WindowEndsNow ==
    ASSUME TimelineSorts, TimelineInvariant, NEW a \in Nat, NEW z \in Nat, NEW n \in Nat \ {0},
           NEW b \in Window(a, z)
    PROVE  \E c \in Tml!Heartbeats(a, z, FALSE, None, n) : b.at <= c.at
<1>1. \A d \in beats : d.at \in Nat
  BY BeatsAreTimed DEF TimelineInvariant
<1> PICK W : W = Window(a, z)
  OBVIOUS
<1>2. Tml!Heartbeats(a, z, FALSE, None, n) = Tml!Newest(W, n)
      /\ W \subseteq beats /\ IsFiniteSet(W) /\ MeasuredOnce(W) /\ W \subseteq Beats
  BY WindowIsRead
<1>3. /\ Tml!Newest(W, n) \subseteq W /\ IsFiniteSet(Tml!Newest(W, n))
      /\ \A d \in W \ Tml!Newest(W, n) :
            (\A c \in Tml!Newest(W, n) : Newer(c, d)) /\ Cardinality(Tml!Newest(W, n)) >= n
  BY <1>2, NewestBeats
<1> PICK N : N = Tml!Newest(W, n)
  OBVIOUS
<1>6. Tml!Heartbeats(a, z, FALSE, None, n) = N /\ b \in W /\ b.at \in Nat /\ b.at <= b.at
  <2>1. Tml!Heartbeats(a, z, FALSE, None, n) = N
    BY <1>2, Zenon
  <2>2. b \in W /\ b \in beats
    BY <1>2, Zenon
  <2>3. b.at \in Nat /\ b.at <= b.at
    BY <1>1, <2>2
  <2> QED  BY <2>1, <2>2, <2>3, Zenon
<1>4. CASE b \in N
  BY <1>4, <1>6
<1>5. CASE b \notin N
  <2>1. (\A c \in N : Newer(c, b)) /\ Cardinality(N) >= n
    BY <1>3, <1>5
  <2>2. N # {}
    BY <2>1, FS_EmptySet
  <2>3. PICK c \in N : TRUE
    BY <2>2
  <2>4. Newer(c, b) /\ c.at \in Nat /\ b.at \in Nat
    BY <1>1, <1>2, <1>3, <2>1, <2>3
  <2>5. b.at <= c.at
    BY <2>4 DEF Newer
  <2> QED  BY <1>6, <2>3, <2>5
<1> QED  BY <1>4, <1>5

\* With room for every heartbeat a window is read whole.
LEMMA WindowIsWhole ==
    ASSUME TimelineSorts, TimelineInvariant, NEW a \in Nat, NEW z \in Nat
    PROVE  Tml!Heartbeats(a, z, FALSE, None, Tml!Cardinality(beats)) = Window(a, z)
<1>1. Tml!Cardinality(beats) = Cardinality(beats)
  BY DEF Tml!Cardinality, Cardinality
<1>2. Cardinality(beats) \in Nat
  BY FS_CardinalityType DEF TimelineInvariant, TimelineShapes
<1>7. ASSUME NEW k \in Nat
      PROVE  Tml!Heartbeats(a, z, FALSE, None, k) = Tml!Newest(Window(a, z), k)
  BY WindowIsRead
<1> PICK n \in Nat : n = Cardinality(beats)
  BY <1>2
<1>3. Tml!Heartbeats(a, z, FALSE, None, n) = Tml!Newest(Window(a, z), n)
  BY <1>7
<1>5. /\ IsFiniteSet(Window(a, z)) /\ MeasuredOnce(Window(a, z)) /\ Window(a, z) \subseteq Beats
      /\ Cardinality(Window(a, z)) <= Cardinality(beats)
  BY WindowIsRead
<1>6. Cardinality(Window(a, z)) <= n
  BY <1>5
<1> PICK W : W = Window(a, z)
  OBVIOUS
<1>4. Tml!Newest(W, n) = W
  BY <1>5, <1>6, NewestBeats
<1> QED  BY <1>1, <1>3, <1>4

\* Two windows side by side hold each heartbeat once.
LEMMA WindowsMeet ==
    ASSUME TimelineInvariant, TimelineSorts, NEW a \in Nat, NEW m \in Nat, NEW z \in Nat, a <= m, m <= z
    PROVE  /\ Window(a, m) \cap Window(m, z) = {}
           /\ Window(a, m) \cup Window(m, z) = Window(a, z)
<1>1. \A d \in beats : d.at \in Nat
  BY BeatsAreTimed DEF TimelineInvariant
<1> QED  BY <1>1 DEF Window

LEMMA WindowsAreWhole ==
    ASSUME TimelineSorts, TimelineInvariant  PROVE Tml!WindowsEndNow
<1> SUFFICES ASSUME NEW to \in Times, NEW from \in {t \in Times : t < to}
             PROVE  /\ \A limit \in Limits : \A b \in Window(from, to) :
                         \E c \in Tml!Heartbeats(from, to, FALSE, None, limit) : b.at <= c.at
                    /\ \A mid \in from..to :
                         LET n == Tml!Cardinality(beats)
                             left == Tml!Heartbeats(from, mid, FALSE, None, n)
                             right == Tml!Heartbeats(mid, to, FALSE, None, n)
                         IN left \cap right = {} /\ left \cup right = Window(from, to)
  BY Zenon DEF Tml!WindowsEndNow, Window
<1>1. Times \subseteq Nat /\ Limits \subseteq Nat \ {0}
  BY DEF TimelineSorts
<1>2. from \in Nat /\ to \in Nat
  BY <1>1, Zenon
<1>3. ASSUME NEW limit \in Limits, NEW b \in Window(from, to)
      PROVE  \E c \in Tml!Heartbeats(from, to, FALSE, None, limit) : b.at <= c.at
  <2>1. limit \in Nat \ {0}
    BY <1>1, Zenon
  <2> QED  BY <1>2, <2>1, WindowEndsNow
<1>4. ASSUME NEW mid \in from..to
      PROVE  LET n == Tml!Cardinality(beats)
                 left == Tml!Heartbeats(from, mid, FALSE, None, n)
                 right == Tml!Heartbeats(mid, to, FALSE, None, n)
             IN left \cap right = {} /\ left \cup right = Window(from, to)
  <2>1. mid \in Nat /\ from <= mid /\ mid <= to
    BY <1>2
  <2>2. /\ Tml!Heartbeats(from, mid, FALSE, None, Tml!Cardinality(beats)) = Window(from, mid)
        /\ Tml!Heartbeats(mid, to, FALSE, None, Tml!Cardinality(beats)) = Window(mid, to)
    BY <1>2, <2>1, WindowIsWhole
  <2>3. /\ Window(from, mid) \cap Window(mid, to) = {}
        /\ Window(from, mid) \cup Window(mid, to) = Window(from, to)
    BY <1>2, <2>1, WindowsMeet
  <2> QED  BY <2>2, <2>3
<1> QED  BY <1>3, <1>4

\* What the reader was shown is in order, and nothing that was there is left
\* out before its cursor (monitor_events.go, incident_handlers.go), while
\* checks write and the worker prunes.
THEOREM TimelineKept ==
    ASSUME TimelineSorts  PROVE Tml!Spec => []TimelineInvariant
<1>1. Tml!Init => TimelineInvariant
  BY TimelineInitially
<1>2. TimelineInvariant /\ [Tml!Next]_(Tml!vars) => TimelineInvariant'
  BY TimelineNext
<1> QED  BY <1>1, <1>2, PTL DEF Tml!Spec

\* Each event once and in order, none skipped however many share an instant,
\* and a window ends with its newest heartbeat (eventCursor.compare,
\* handleMonitorEvents, QueryHeartbeats).
THEOREM TimelineIsSound ==
    ASSUME TimelineSorts  PROVE Tml!Spec => []Tml!TimelineSound
<1>1. ASSUME TimelineInvariant  PROVE Tml!ShownOnceInOrder
  <2> SUFFICES ASSUME reader # None, NEW j \in DOMAIN reader.shown, NEW k \in DOMAIN reader.shown, j < k
               PROVE  LET e == reader.shown[j]
                          f == reader.shown[k] IN
                      e.at > f.at \/ (e.at = f.at /\ e.rank <= f.rank /\ e # f)
    BY DEF Tml!ShownOnceInOrder
  <2>1. reader.shown \in Seq(Happenings)
    BY <1>1 DEF TimelineInvariant, TimelineShapes, Readers
  <2>2. j \in 1..Len(reader.shown) /\ k \in 1..Len(reader.shown)
    BY <2>1
  <2> PICK e : e = reader.shown[j]
    OBVIOUS
  <2> PICK f : f = reader.shown[k]
    OBVIOUS
  <2>3. Tml!Precedes(e, f) /\ e \in Happenings /\ f \in Happenings
    BY <1>1, <2>1, <2>2 DEF TimelineInvariant, ReadsOn, InOrder
  <2>4. e # f
    BY <2>3, PrecedesOrders
  <2> QED  BY <2>3, <2>4 DEF Tml!Precedes, Happenings
<1>2. TimelineInvariant => Tml!TimelineSound
  BY <1>1, WindowsAreWhole DEF TimelineInvariant, Tml!TimelineSound
<1> QED  BY <1>2, TimelineKept, PTL
=============================================================================
