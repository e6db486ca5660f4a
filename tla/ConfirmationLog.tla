-------------------------- MODULE ConfirmationLog --------------------------
(***************************************************************************)
(* One monitor fed a sequence of observations, with the whole sequence     *)
(* kept: the confirmation machine is compared with a definition that looks *)
(* at the recorded observations and remembers nothing.                     *)
(***************************************************************************)
EXTENDS Confirmation, Sequences

CONSTANTS
    Thresholds,     \* the confirmation thresholds a monitor may be given
    MaxObservations \* bound on the number of observations

VARIABLES
    threshold,    \* this monitor's confirmation threshold
    state,        \* what the machine remembers
    observations, \* how many there were
    measured,     \* those of them that measured something, oldest first
    announced     \* the events so far, as <<from, to>>

vars == <<threshold, state, observations, measured, announced>>

TypeOK ==
    /\ threshold \in Thresholds
    /\ state \in MonitorState
    /\ observations \in Nat
    /\ measured \in Seq(Status)
    /\ announced \in Seq(Status \X Status)

Init ==
    /\ threshold \in Thresholds
    /\ state = NeverMeasured
    /\ observations = 0
    /\ measured = <<>>
    /\ announced = <<>>

\* One observation goes through the machine.
Observe(status) ==
    /\ observations < MaxObservations
    /\ observations' = observations + 1
    /\ measured' = IF status = "unknown" THEN measured ELSE Append(measured, status)
    /\ state' = NextState(state, status, threshold)
    /\ announced' = IF Announces(state, status, threshold)
                      THEN Append(announced, <<state.status, status>>)
                      ELSE announced
    /\ UNCHANGED threshold

Next == \E status \in Status : Observe(status)

Spec == Init /\ [][Next]_vars

-----------------------------------------------------------------------------
N == EffectiveThreshold(threshold)

\* The last n of the first k measurements agree.
Agree(seq, n, k) == k >= n /\ \A i \in (k - n + 1)..k : seq[i] = seq[k]

\* The status of the last agreement among the first k measurements.
LastAgreement(seq, n, k, status) ==
    \/ status = "unknown" /\ \A i \in 1..k : ~ Agree(seq, n, i)
    \/ \E i \in 1..k : /\ Agree(seq, n, i) /\ seq[i] = status
                      /\ \A j \in (i + 1)..k : ~ Agree(seq, n, j)

\* The confirmed status is always the one the last N agreeing measurements
\* gave, whatever came between them: an observation without a measurement
\* neither counts nor restarts the count, and a contrary one restarts it
\* (incident/state.go, Next).
StatusIsLastAgreement == LastAgreement(measured, N, Len(measured), state.status)

StatusAfter(k) == CHOOSE status \in Status : LastAgreement(measured, N, k, status)

\* An event is announced for each confirmed change and for nothing else, in
\* order, except the first time a target is found to be up
\* (incident/state.go, confirm).
OneEventPerChange ==
    LET told == SelectSeq([i \in 1..Len(measured) |-> <<StatusAfter(i - 1), StatusAfter(i)>>],
                          LAMBDA c : c[1] # c[2] /\ c # <<"unknown", "up">>)
    IN  announced = told
=============================================================================
