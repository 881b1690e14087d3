-------------------------- MODULE MCCommandManager --------------------------
(***************************************************************************)
(* CommandManager for TLC: requests of up to MaxLength characters over two *)
(* letters and the space, a command `a' of one and a command `b' of two    *)
(* arguments.                                                              *)
(***************************************************************************)
EXTENDS CommandManager, TLC

CONSTANTS a, b, MaxLength

MCChars == {a, b, Sep}
MCTexts == UNION {[1 .. n -> MCChars] : n \in 0 .. MaxLength}
MCNames == {<<a>>, <<b>>}
MCargc == <<a>> :> 1 @@ <<b>> :> 2
MCInitial == <<<<a>>, <<b>>>>
MCAny == -1
=============================================================================
