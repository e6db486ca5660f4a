---------------------------- MODULE MCScheduler ----------------------------
(***************************************************************************)
(* Instances of Scheduler for TLC.                                         *)
(***************************************************************************)
EXTENDS Scheduler

CONSTANTS m1, m2, e1, e2, e3, s1, s2

OneMonitor == {m1}
TwoMonitors == {m1, m2}
TwoEntries == {e1, e2}
ThreeEntries == {e1, e2, e3}
TwoSlots == {s1, s2}
=============================================================================
