---------------------------- MODULE AlertContract ----------------------------
(***************************************************************************)
(* What the incident engine promises whoever receives its alerts: each     *)
(* confirmed outage of a monitor is told at most once, and only while it   *)
(* lasts.  An outage may go untold (the process stopped, the channels      *)
(* could not be read), and several monitors may change at once (the        *)
(* process restarts from what it saved).                                   *)
(***************************************************************************)
CONSTANT Monitors

VARIABLES
    outage, \* the monitors in a confirmed outage, as a function to BOOLEAN
    told    \* the outage in course was told

Init ==
    /\ outage = [m \in Monitors |-> FALSE]
    /\ told = [m \in Monitors |-> FALSE]

\* Nothing happens to m.
Same(m) == outage'[m] = outage[m] /\ told'[m] = told[m]

\* An outage of m is confirmed; nobody was told of it yet.
Starts(m) == ~ outage[m] /\ outage'[m] /\ ~ told[m] /\ ~ told'[m]

\* The alert of m's outage goes out.
Tells(m) == outage[m] /\ outage'[m] /\ ~ told[m] /\ told'[m]

\* The outage of m is over, and the next one may be told.
Ends(m) == outage[m] /\ ~ outage'[m] /\ ~ told'[m]

Next ==
    /\ outage' \in [Monitors -> BOOLEAN] /\ told' \in [Monitors -> BOOLEAN]
    /\ \A m \in Monitors : Same(m) \/ Starts(m) \/ Tells(m) \/ Ends(m)

Spec == Init /\ [][Next]_<<outage, told>>
=============================================================================
