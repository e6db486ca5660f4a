--------------------------- MODULE MCBatchWriter ---------------------------
(***************************************************************************)
(* Instances of BatchWriter for TLC.                                       *)
(***************************************************************************)
EXTENDS BatchWriter

CONSTANTS a, b

TwoMonitors == {a, b}
=============================================================================
