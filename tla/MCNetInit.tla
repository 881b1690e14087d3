----------------------------- MODULE MCNetInit ------------------------------
(***************************************************************************)
(* NetInit for TLC: two attempts, two tries for the address, a transient   *)
(* and a permanent error of IOS, the errno numbers of newlib.              *)
(***************************************************************************)
EXTENDS NetInit

MCHandles == 0 .. 2
MCErrors == {-6, -8}
=============================================================================
