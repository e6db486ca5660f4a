---------------------------- MODULE BatchWriter ----------------------------
(***************************************************************************)
(* The batch writer (internal/store/writer.go): the queue the workers of   *)
(* the scheduler submit heartbeats to, the buffer of its one goroutine,    *)
(* and the transaction that writes a batch or nothing                      *)
(* (internal/store/sqlstore/timeseries.go, WriteHeartbeats).               *)
(*                                                                         *)
(* A heartbeat is its number in the order of acceptance and its monitor.   *)
(* The flush interval is a timer that may fire whenever Run waits.         *)
(***************************************************************************)
EXTENDS Naturals, SequencesExt

CONSTANTS
    Monitors,
    MaxBeats,   \* bound on the heartbeats submitted
    QueueSize,  \* capacity of the queue
    MaxBatch,   \* size of a batch, which triggers a flush
    MaxBacklog, \* ceiling of what is retained when writing fails
    CanFail,    \* the database may be unavailable
    CanDelete,  \* monitors may be deleted
    CanStop     \* the process may be asked to stop

Beat == [number: 1..MaxBeats, monitor: Monitors]

ASSUME WriterAssumption ==
    /\ MaxBeats \in Nat
    /\ QueueSize \in Nat \ {0} /\ MaxBatch \in Nat \ {0} /\ MaxBacklog \in Nat \ {0}
    /\ {CanFail, CanDelete, CanStop} \subseteq BOOLEAN

VARIABLES
    in,        \* the queue
    buf,       \* the buffer of Run
    writer,    \* where Run is
    halted,    \* its context is done
    available, \* the database answers
    rows,      \* the monitors that have a row, to which heartbeats refer
    accepted,  \* how many heartbeats Submit accepted
    written,   \* the heartbeats written, in order (table heartbeat)
    dropped,   \* the heartbeats discarded, which are counted
    failed     \* ghost: the database was unavailable at some time

vars == <<in, buf, writer, halted, available, rows, accepted, written, dropped, failed>>

TypeOK ==
    /\ in \in Seq(Beat) /\ Len(in) <= QueueSize
    /\ buf \in Seq(Beat)
    /\ writer \in {"select", "flush", "drain", "flushAll", "stopped"}
    /\ halted \in BOOLEAN /\ available \in BOOLEAN /\ failed \in BOOLEAN
    /\ rows \subseteq Monitors
    /\ accepted \in 0..MaxBeats
    /\ written \in Seq(1..MaxBeats)
    /\ dropped \subseteq 1..MaxBeats

Init ==
    /\ in = <<>>
    /\ buf = <<>>
    /\ writer = "select"
    /\ halted = FALSE
    /\ available = TRUE
    /\ rows = Monitors
    /\ accepted = 0
    /\ written = <<>>
    /\ dropped = {}
    /\ failed = FALSE

Numbers(beats) == [i \in 1..Len(beats) |-> beats[i].number]

-----------------------------------------------------------------------------
(***************************************************************************)
(* The environment: the workers, the database, the API, the operator.      *)
(***************************************************************************)
\* Mutant of Submit: the queue has no limit.
SubmitAnyway(m) ==
    /\ accepted < MaxBeats
    /\ in' = Append(in, [number |-> accepted + 1, monitor |-> m])
    /\ accepted' = accepted + 1
    /\ UNCHANGED <<buf, writer, halted, available, rows, written, dropped, failed>>

\* A worker gets its heartbeat into the queue.  While there is no room it
\* waits, and after its deadline it gives up with an error.  Whether Run
\* still reads the queue makes no difference.
Submit(m) ==
    /\ accepted < MaxBeats
    /\ Len(in) < QueueSize
    /\ in' = Append(in, [number |-> accepted + 1, monitor |-> m])
    /\ accepted' = accepted + 1
    /\ UNCHANGED <<buf, writer, halted, available, rows, written, dropped, failed>>

DatabaseChanges ==
    /\ CanFail
    /\ available' = ~ available
    /\ failed' = TRUE
    /\ UNCHANGED <<in, buf, writer, halted, rows, accepted, written, dropped>>

DeleteRow(m) ==
    /\ CanDelete /\ m \in rows
    /\ rows' = rows \ {m}
    /\ UNCHANGED <<in, buf, writer, halted, available, accepted, written, dropped, failed>>

Halt ==
    /\ CanStop /\ ~ halted
    /\ halted' = TRUE
    /\ UNCHANGED <<in, buf, writer, available, rows, accepted, written, dropped, failed>>

-----------------------------------------------------------------------------
(***************************************************************************)
(* flush and retain.                                                       *)
(***************************************************************************)
Smaller(i, j) == IF i < j THEN i ELSE j
Batch == SubSeq(buf, 1, Smaller(Len(buf), MaxBatch))

\* The transaction of a context that is not done commits: the database answers
\* and every heartbeat of the batch refers to a monitor with a row.
Commits == available /\ \A i \in DOMAIN Batch : Batch[i].monitor \in rows

\* What is above the ceiling goes, the oldest first.
Excess == IF Len(buf) > MaxBacklog THEN Len(buf) - MaxBacklog ELSE 0

\* Mutants of Retain: the newest go; nothing goes.
RetainOldest ==
    /\ buf' = SubSeq(buf, 1, Len(buf) - Excess)
    /\ dropped' = dropped \cup ToSet(Numbers(SubSeq(buf, Len(buf) - Excess + 1, Len(buf))))
    /\ UNCHANGED written
RetainAll == UNCHANGED <<buf, dropped, written>>

Retain ==
    /\ buf' = SubSeq(buf, Excess + 1, Len(buf))
    /\ dropped' = dropped \cup ToSet(Numbers(SubSeq(buf, 1, Excess)))
    /\ UNCHANGED written

\* Mutant of Flush: the buffer is emptied, more than one batch or not.
FlushForgets ==
    \/ /\ Commits
       /\ written' = written \o Numbers(Batch)
       /\ buf' = <<>>
       /\ UNCHANGED dropped
    \/ ~ Commits /\ Retain

Flush ==
    \/ /\ Commits
       /\ written' = written \o Numbers(Batch)
       /\ buf' = SubSeq(buf, Len(Batch) + 1, Len(buf))
       /\ UNCHANGED dropped
    \/ ~ Commits /\ Retain

-----------------------------------------------------------------------------
(***************************************************************************)
(* Run.                                                                    *)
(***************************************************************************)
Receive ==
    /\ writer = "select" /\ in # <<>>
    /\ buf' = Append(buf, Head(in))
    /\ in' = Tail(in)
    /\ writer' = IF Len(buf') >= MaxBatch THEN "flush" ELSE "select"
    /\ UNCHANGED <<halted, available, rows, accepted, written, dropped, failed>>

\* Mutant of Timer: it waits for a full batch.
TimerForFullBatch ==
    /\ writer = "select" /\ Len(buf) >= MaxBatch
    /\ writer' = "flush"
    /\ UNCHANGED <<in, buf, halted, available, rows, accepted, written, dropped, failed>>

Timer ==
    /\ writer = "select" /\ buf # <<>>
    /\ writer' = "flush"
    /\ UNCHANGED <<in, buf, halted, available, rows, accepted, written, dropped, failed>>

\* The flush of a full batch or of the timer has Run's own context: once that
\* is done no transaction can begin, and the buffer waits for flushAll.
FlushOnce ==
    /\ writer = "flush"
    /\ \/ ~ halted /\ Flush
       \/ halted /\ Retain
    /\ writer' = "select"
    /\ UNCHANGED <<in, halted, available, rows, accepted, failed>>

Leave ==
    /\ writer = "select" /\ halted
    /\ writer' = "drain"
    /\ UNCHANGED <<in, buf, halted, available, rows, accepted, written, dropped, failed>>

\* drainQueue, one heartbeat at a time, until the queue is seen empty.
Drain ==
    /\ writer = "drain"
    /\ \/ /\ in # <<>>
          /\ buf' = Append(buf, Head(in)) /\ in' = Tail(in)
          /\ UNCHANGED writer
       \/ in = <<>> /\ writer' = "flushAll" /\ UNCHANGED <<in, buf>>
    /\ UNCHANGED <<halted, available, rows, accepted, written, dropped, failed>>

\* Mutant of FlushAll: one batch and no more.
FlushAllOnce ==
    /\ writer = "flushAll"
    /\ IF buf = <<>> THEN UNCHANGED <<buf, written, dropped>> ELSE Flush
    /\ writer' = "stopped"
    /\ UNCHANGED <<in, halted, available, rows, accepted, failed>>

\* Mutant of FlushAll: it has the context that is done.
FlushAllCancelled ==
    /\ writer = "flushAll"
    /\ Retain
    /\ writer' = IF Len(buf') < Len(buf) THEN "flushAll" ELSE "stopped"
    /\ UNCHANGED <<in, halted, available, rows, accepted, failed>>

\* flushAll: batch after batch, under a context of its own, for as long as the
\* buffer gets shorter.
FlushAll ==
    /\ writer = "flushAll"
    /\ \/ buf = <<>> /\ writer' = "stopped" /\ UNCHANGED <<buf, written, dropped>>
       \/ /\ buf # <<>> /\ Flush
          /\ writer' = IF Len(buf') < Len(buf) THEN "flushAll" ELSE "stopped"
    /\ UNCHANGED <<in, halted, available, rows, accepted, failed>>

Run == Receive \/ Timer \/ FlushOnce \/ Leave \/ Drain \/ FlushAll

Next ==
    \/ \E m \in Monitors : Submit(m) \/ DeleteRow(m)
    \/ DatabaseChanges \/ Halt
    \/ Run

Spec == Init /\ [][Next]_vars

\* The goroutine of Run goes on, and its timer fires.
FairSpec == Spec /\ WF_vars(Run)

-----------------------------------------------------------------------------
\* The numbers of a sequence of heartbeats are in order.
Ordered(numbers) == \A i, j \in DOMAIN numbers : i < j => numbers[i] < numbers[j]

\* Every number of the first sequence is before every one of the second.
Before(first, second) ==
    \A i \in DOMAIN first, j \in DOMAIN second : first[i] < second[j]

\* Every heartbeat accepted is in one place: on disk, in the buffer, in the
\* queue, or counted as dropped; and those on disk got there in order, once
\* (writer.go flush, retain, drainQueue).
Conserved ==
    /\ Ordered(written) /\ Ordered(Numbers(buf)) /\ Ordered(Numbers(in))
    /\ Before(written, Numbers(buf)) /\ Before(written, Numbers(in))
    /\ Before(Numbers(buf), Numbers(in))
    /\ dropped \cup ToSet(written) \cup ToSet(Numbers(buf)) \cup ToSet(Numbers(in))
          = 1..accepted
    /\ dropped \cap (ToSet(written) \cup ToSet(Numbers(buf)) \cup ToSet(Numbers(in))) = {}

\* A long failure of the database costs the oldest heartbeats of the
\* backlog, never a recent one (writer.go retain).
TheRecentSurvives ==
    \A d \in dropped : \A i \in DOMAIN buf : d < buf[i].number

\* Whatever the database does, what waits in memory between two flushes is
\* below the ceiling, or below the size of a batch (writer.go retain, Run).
BacklogBounded ==
    writer = "select" => Len(buf) <= MaxBacklog \/ Len(buf) < MaxBatch

\* The writer that stopped with the database answering left nothing of what
\* it had taken from the queue unwritten (writer.go flushAll).
StopsEmpty == writer = "stopped" /\ ~ failed /\ rows = Monitors => buf = <<>>

(***************************************************************************)
(* The inductive invariant behind the four.                                *)
(***************************************************************************)
\* Whoever flushes has something to write, and no more than one heartbeat
\* above what the last flush may have left.
FlushesSome ==
    writer = "flush" => /\ buf # <<>>
                        /\ Len(buf) <= MaxBacklog + 1 \/ Len(buf) <= MaxBatch

\* What was dropped is older than what is still to be written.
DroppedIsOld ==
    \A d \in dropped, n \in ToSet(Numbers(buf)) \cup ToSet(Numbers(in)) : d < n

\* The ghost: the database is away only if it failed.
AwayIsFailed == available \/ failed

\* Together with the types they are kept by every step (writer.go Submit,
\* Run, flush, retain).
WriterInvariant ==
    TypeOK /\ Conserved /\ DroppedIsOld /\ FlushesSome /\ BacklogBounded
           /\ AwayIsFailed /\ StopsEmpty

\* Heartbeats are discarded only when the database failed for long
\* (writer.go DefaultMaxBacklog).
DropsOnlyIfDatabaseFailed == dropped # {} => failed

\* Once the database answers for good, in a process that is not stopped and
\* with no monitor deleted, every heartbeat accepted is written, or was
\* dropped before (writer.go Run, flush).
EventuallyWritten ==
    <>[](available /\ ~ halted /\ rows = Monitors) =>
        \A i \in 1..MaxBeats : accepted >= i ~> i \in dropped \cup ToSet(written)
=============================================================================
