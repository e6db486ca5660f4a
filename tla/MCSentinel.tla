----------------------------- MODULE MCSentinel -----------------------------
(***************************************************************************)
(* An instance of Sentinel for TLC.                                        *)
(***************************************************************************)
EXTENDS Sentinel

CONSTANT a1

OneAsker == {a1}
=============================================================================
