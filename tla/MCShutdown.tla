----------------------------- MODULE MCShutdown -----------------------------
(***************************************************************************)
(* Instances of Shutdown for TLC.                                          *)
(***************************************************************************)
EXTENDS Shutdown

CONSTANTS m1, e1, s1, chat, w1, run

OneMonitor == {m1}
OneEntry == {e1}
OneSlot == {s1}
OneChannel == {chat}
OneWorker == {w1}
=============================================================================
