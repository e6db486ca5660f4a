---------------------------- MODULE Confirmation ----------------------------
(***************************************************************************)
(* The confirmation machine of internal/incident/state.go: a pure function *)
(* from the state remembered between two checks and one observation to the *)
(* next state and at most one event.  It is kept free of variables so that *)
(* the engine, and the reference definition it is checked against, use the *)
(* same operators.                                                         *)
(*                                                                         *)
(* The instants of a state (Since) and of an event (At, Duration) are left *)
(* out: they are copied, never compared, by this machine.                  *)
(***************************************************************************)
EXTENDS Naturals

\* The four results a check can have.
Status == {"unknown", "up", "degraded", "down"}

\* The target answered, well or slowly.
Responsive(s) == s \in {"up", "degraded"}

\* What is remembered of a monitor between two checks.
MonitorState == [status: Status, candidate: Status, consecutive: Nat]

\* The zero value of MonitorState: a monitor that was never measured.
NeverMeasured == [status |-> "unknown", candidate |-> "unknown", consecutive |-> 0]

\* A missing or absurd threshold counts as one.
EffectiveThreshold(n) == IF n < 1 THEN 1 ELSE n

\* Mutants of Count: the count runs backwards; another candidate does not
\* restart it.
CountBackwards(s, observed) ==
    IF observed = s.candidate THEN s.consecutive - 1 ELSE 0
CountAcross(s, observed) == s.consecutive + 1

\* The run of the candidate once `observed' is added to it.
Count(s, observed) ==
    IF observed = s.candidate THEN s.consecutive + 1 ELSE 1

\* `observed' moves the machine at all: it is a measurement, and it differs
\* from the confirmed status.
Moves(s, observed) == observed # "unknown" /\ observed # s.status

\* `observed' is the observation that confirms a change.
Confirms(s, observed, threshold) ==
    /\ Moves(s, observed)
    /\ Count(s, observed) >= EffectiveThreshold(threshold)

\* The state after one observation.
NextState(s, observed, threshold) ==
    CASE observed = "unknown" -> s
      [] observed # "unknown" /\ observed = s.status ->
            [s EXCEPT !.candidate = "unknown", !.consecutive = 0]
      [] Moves(s, observed) /\ ~ Confirms(s, observed, threshold) ->
            [s EXCEPT !.candidate = observed, !.consecutive = Count(s, observed)]
      [] Confirms(s, observed, threshold) ->
            [status |-> observed, candidate |-> "unknown", consecutive |-> 0]

\* Mutants of Announces: the first "up" is announced; nothing is announced of
\* a monitor that never was up.
AnnouncesAll(s, observed, threshold) == Confirms(s, observed, threshold)
AnnouncesFromUp(s, observed, threshold) ==
    Confirms(s, observed, threshold) /\ s.status # "unknown"

\* The confirmed change is worth an event: the first "up" of a monitor is not.
Announces(s, observed, threshold) ==
    /\ Confirms(s, observed, threshold)
    /\ ~ (s.status = "unknown" /\ observed = "up")

\* Mutant of Resolves: a degraded target leaves the incident open.
ResolvesWhenUp(s, observed) == s.status = "down" /\ observed = "up"

\* A change from s.status to `observed' ends an outage.
Resolves(s, observed) == s.status = "down" /\ observed # "down"
=============================================================================
