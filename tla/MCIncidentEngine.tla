-------------------------- MODULE MCIncidentEngine --------------------------
(***************************************************************************)
(* Instances of IncidentEngine for TLC: the monitors, the configurations   *)
(* an operator may give them, and the dependency between two of them.      *)
(***************************************************************************)
EXTENDS IncidentEngine

CONSTANTS m1, m2, c1, c2

\* An active monitor of a pull type: every check is an observation.
Pull(parent, threshold) ==
    [enabled |-> TRUE, parent |-> parent, threshold |-> threshold,
     interval |-> 1, grace |-> 0]

\* A push monitor: the checks between two signals repeat the last one.
Push(parent, threshold) == [Pull(parent, threshold) EXCEPT !.grace = 1]

Paused(r) == [r EXCEPT !.enabled = FALSE]

OneMonitor == {m1}
TwoMonitors == {m1, m2}
OneCall == {c1}
TwoCalls == {c1, c2}
Nobody == {}

\* One monitor, whose threshold and type are edited while it is checked.
EditedAlone == [m \in {m1} |-> {Pull(None, 2), Push(None, 3)}]
StartsAlone == [m \in {m1} |-> Pull(None, 2)]
ThresholdEdited == [m \in {m1} |-> {Pull(None, 2), Pull(None, 3)}]

\* m2 depends on m1.  The threshold of the parent is raised, and lowered to
\* the count it has reached; it may be paused, and the child set free.
Family == [m \in {m1, m2} |->
              IF m = m1 THEN {Pull(None, 1), Pull(None, 2), Paused(Pull(None, 1))}
                        ELSE {Pull(m1, 1), Pull(None, 1)}]
StartsFamily == [m \in {m1, m2} |-> Pull(IF m = m1 THEN None ELSE m1, 1)]

\* m2 depends on m1, a push monitor, and nobody edits them.
PushFamily == [m \in {m1, m2} |-> IF m = m1 THEN Push(None, 2) ELSE Pull(m1, 2)]
Fixed == [m \in {m1, m2} |-> {PushFamily[m]}]
=============================================================================
