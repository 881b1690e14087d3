---------------------------- MODULE MCMsgboxEvt -----------------------------
(***************************************************************************)
(* MsgboxEvt for TLC: two texts, three entries.                            *)
(***************************************************************************)
EXTENDS MsgboxEvt

CONSTANTS t1, t2, e1, e2, e3
=============================================================================
