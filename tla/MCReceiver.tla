----------------------------- MODULE MCReceiver -----------------------------
(***************************************************************************)
(* Receiver for TLC: two clients, a buffer of three characters, read two   *)
(* at a time; requests that fit it, one of them without a word, and one    *)
(* that does not fit.                                                      *)
(***************************************************************************)
EXTENDS Receiver

CONSTANTS c1, c2, a, S, E, Z

MCFitting == {<<a, E, E>>, <<a, a, E>>}
MCStreams == {<<a, E, E>>, <<S, E>>, <<a, a, a, E>>}
MCChars == {a, S, E}
=============================================================================
