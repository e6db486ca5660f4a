---------------------------- MODULE MCDispatcher ----------------------------
(***************************************************************************)
(* Instances of Dispatcher for TLC.                                        *)
(***************************************************************************)
EXTENDS Dispatcher

CONSTANTS chat, mail, w1, w2, run

TwoChannels == {chat, mail}
TwoWorkers == {w1, w2}
ChatIsDead == {chat}
=============================================================================
