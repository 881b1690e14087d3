---------------------------- MODULE MsgboxProofs ----------------------------
(***************************************************************************)
(* Whatever the number of texts and entries and however late the command   *)
(* stores the text into its entry, no script uses a text that was deleted, *)
(* and every key_off of a message box meets its key_on.                    *)
(***************************************************************************)
EXTENDS MsgboxEvt, FiniteSetTheorems, TLAPS

\* TypeOK without the counts of the keys, which are a matter of KeysBalanced.
Shape ==
  /\ pc \in {"idle", "entry", "store", "halted"}
  /\ text \in Texts \cup {NoText}
  /\ evt \in Entries \cup {NoEntry}
  /\ heap \in [Texts -> {"free", "allocated"}]
  /\ script \in [Entries -> {"free", "fwd", "box", "game"}]
  /\ at \in [Entries -> {"start", "continue", "post"}]
  /\ lw \in [Entries -> Texts \cup {NoText}]
  /\ shown \subseteq Texts \cup {NoText}
  /\ reInits \in 0 .. MaxReInits
  /\ cut \subseteq Texts

\* The text the command is about to hand over is allocated, and no script has
\* it yet.
Pending ==
  /\ pc \in {"entry", "store"} =>
       /\ text \in Texts
       /\ heap[text] = "allocated"
       /\ \A e \in Entries : Holds(e) => lw[e] # text
  /\ pc = "store" => evt \in Entries

Inv == Shape /\ Pending /\ NoTextUsedAfterDelete

\* It holds at first: there is no text and no script.
LEMMA InvInit == Init => Inv
BY MsgboxAssumption DEF Init, Inv, Shape, Pending, NoTextUsedAfterDelete, Holds

\* Every step keeps it.
LEMMA InvNext == Inv /\ [Next]_vars => Inv'
<1> SUFFICES ASSUME Inv, [Next]_vars PROVE Inv'
  OBVIOUS
<1> USE MsgboxAssumption DEF Inv, Shape, Pending, NoTextUsedAfterDelete, Holds
<1>1. CASE Allocate
  BY <1>1 DEF Allocate, manager, history
<1>2. CASE EvtEntry
  BY <1>2 DEF EvtEntry, Enter, Overflow, manager, history
<1>3. CASE Store
  BY <1>3 DEF Store, history
<1>4. ASSUME NEW e \in Entries, Forward(e) PROVE Inv'
  <2>1. CASE Overflow
    BY <1>4, <2>1 DEF Forward, Overflow, manager
  <2>2. CASE ~ Overflow
    BY <1>4, <2>2 DEF Forward, command
  <2> QED
    BY <2>1, <2>2
<1>5. ASSUME NEW e \in Entries, Display(e) PROVE Inv'
  BY <1>5 DEF Display, command, history
<1>6. ASSUME NEW e \in Entries, Continue(e) PROVE Inv'
  BY <1>6 DEF Continue, command, history
<1>7. ASSUME NEW e \in Entries, Post(e) PROVE Inv'
  BY <1>7 DEF Post, Free, command, history
<1>8. ASSUME NEW e \in Entries, GameEnters(e) PROVE Inv'
  <2>1. CASE Overflow
    BY <1>8, <2>1 DEF GameEnters, Overflow, manager, history
  <2>2. CASE ~ Overflow
    BY <1>8, <2>2 DEF GameEnters, Enter, command, history
  <2> QED
    BY <2>1, <2>2
<1>9. ASSUME NEW e \in Entries, GameReturns(e) PROVE Inv'
  BY <1>9 DEF GameReturns, Free, command, history
<1>10. CASE UNCHANGED vars
  BY <1>10 DEF vars, command, manager, history
<1>11. CASE ReInit
  BY <1>11 DEF ReInit, command
<1> QED
  BY <1>1, <1>2, <1>3, <1>4, <1>5, <1>6, <1>7, <1>8, <1>9, <1>10, <1>11 DEF Next, Command, Box, Game

\* No message box displays or deletes a text that was deleted before.
THEOREM NoUseAfterDelete == Spec => []NoTextUsedAfterDelete
<1>1. Inv => NoTextUsedAfterDelete
  BY DEF Inv
<1> QED
  BY InvInit, InvNext, <1>1, PTL DEF Spec

-----------------------------------------------------------------------------
(* The keys                                                                *)

\* No more boxes are open than there are entries.
LEMMA OpenFinite == IsFiniteSet(Open) /\ Cardinality(Open) \in 0 .. Cardinality(Entries)
<1>1. Open \subseteq Entries
  BY DEF Open
<1> QED
  BY <1>1, MsgboxAssumption, FS_Subset, FS_CardinalityType

\* The cleared boxes are counted.
Counted == stranded \in Nat

\* Every step changes keysOff as it changes the open boxes.
LEMMA KeysNext == Shape /\ Counted /\ KeysBalanced /\ [Next]_vars => Counted' /\ KeysBalanced'
<1> DEFINE Goal == stranded' \in Nat /\ keysOff' = Cardinality(Open') + stranded'
<1> SUFFICES ASSUME Shape, stranded \in Nat, KeysBalanced, [Next]_vars PROVE Goal
  BY DEF Counted, KeysBalanced
<1>0. keysOff = Cardinality(Open) + stranded /\ Cardinality(Open) \in Nat
  BY OpenFinite DEF KeysBalanced
<1>1. ASSUME Open' = Open, UNCHANGED <<keysOff, stranded>> PROVE Goal
  BY <1>0, <1>1
<1>2. CASE Allocate \/ Store
  BY <1>1, <1>2 DEF Allocate, Store, manager, history, Open
<1>3. ASSUME NEW e \in Entries, NEW s \in {"fwd", "game"}, NEW w, Enter(e, s, w),
             UNCHANGED <<keysOff, stranded>>
      PROVE  Goal
  BY <1>1, <1>3 DEF Enter, Open, Shape
<1>a. ASSUME Overflow, UNCHANGED <<keysOff, stranded>> PROVE Goal
  BY <1>1, <1>a DEF Overflow, manager, Open
<1>4. ASSUME NEW e \in Entries, Forward(e) PROVE Goal
  <2>1. UNCHANGED <<keysOff, stranded>>
    BY <1>4 DEF Forward
  <2>2. CASE Overflow
    BY <1>a, <2>1, <2>2
  <2>3. CASE ~ Overflow
    BY <1>1, <1>4, <2>1, <2>3 DEF Forward, Open, Shape
  <2> QED
    BY <2>2, <2>3
<1>5. ASSUME NEW e \in Entries, Display(e) PROVE Goal
  <2>1. Open' = Open \cup {e} /\ e \notin Open /\ keysOff' = keysOff + 1 /\ stranded' = stranded
    BY <1>5 DEF Display, Open, Shape, history
  <2>2. Cardinality(Open') = Cardinality(Open) + 1
    BY <2>1, OpenFinite, FS_AddElement
  <2> QED
    BY <1>0, <2>1, <2>2
<1>6. ASSUME NEW e \in Entries, Continue(e) PROVE Goal
  BY <1>1, <1>6 DEF Continue, Open, Shape, history
<1>7. ASSUME NEW e \in Entries, Post(e) PROVE Goal
  <2>1. Open' = Open \ {e} /\ e \in Open /\ keysOff' = keysOff - 1 /\ stranded' = stranded
    BY <1>7 DEF Post, Free, Open, Shape, history
  <2>2. Cardinality(Open') = Cardinality(Open) - 1
    BY <2>1, OpenFinite, FS_RemoveElement
  <2> QED
    BY <1>0, <2>1, <2>2
<1>8. ASSUME NEW e \in Entries, GameReturns(e) PROVE Goal
  BY <1>1, <1>8 DEF GameReturns, Free, Open, Shape, history
<1>9. CASE UNCHANGED vars
  BY <1>1, <1>9 DEF vars, manager, history, Open
<1>10. CASE ReInit
  <2>1. Open' = {} /\ keysOff' = keysOff /\ stranded' = stranded + Cardinality(Open)
    BY <1>10 DEF ReInit, Open
  <2> QED
    BY <1>0, <2>1, FS_EmptySet
<1>11. CASE EvtEntry
  <2>1. UNCHANGED <<keysOff, stranded>>
    BY <1>11 DEF EvtEntry, history
  <2> QED
    BY <1>3, <1>a, <1>11, <2>1 DEF EvtEntry
<1>12. ASSUME NEW e \in Entries, GameEnters(e) PROVE Goal
  <2>1. UNCHANGED <<keysOff, stranded>>
    BY <1>12 DEF GameEnters, history
  <2> QED
    BY <1>3, <1>a, <1>12, <2>1 DEF GameEnters
<1> QED
  BY <1>2, <1>4, <1>5, <1>6, <1>7, <1>8, <1>9, <1>10, <1>11, <1>12
     DEF Next, Command, Box, Game

\* The keys are off exactly as often as a message box is open or was cleared
\* while it was.
THEOREM KeysAreBalanced == Spec => []KeysBalanced
<1>1. Init => KeysBalanced /\ Counted
  <2>1. Init => Open = {}
    BY DEF Init, Open
  <2> QED
    BY <2>1, FS_EmptySet DEF Init, KeysBalanced, Counted
<1>2. Inv => Shape
  BY DEF Inv
<1> QED
  BY <1>1, <1>2, InvInit, InvNext, KeysNext, PTL DEF Spec

-----------------------------------------------------------------------------
(* No text is lost                                                         *)

\* While no script was overtaken, the entry the command is about to store its
\* text into still runs fwd_msgbox_cmd, with a null local word.
EntryWaits ==
  ~overtaken => /\ pc = "store" => script[evt] = "fwd" /\ lw[evt] = NoText
                /\ pc = "idle" => text = NoText

\* The history of overtaking is a truth value.
LEMMA OvertakenBoolean == Spec => [](overtaken \in BOOLEAN)
<1>1. Init => overtaken \in BOOLEAN
  BY DEF Init
<1>2. overtaken \in BOOLEAN /\ [Next]_vars => (overtaken \in BOOLEAN)'
  <2> SUFFICES ASSUME overtaken \in BOOLEAN, [Next]_vars PROVE overtaken' \in BOOLEAN
    OBVIOUS
  <2>1. ASSUME overtaken' = overtaken PROVE overtaken' \in BOOLEAN
    BY <2>1, Zenon
  <2>4. CASE ReInit
    BY <2>4 DEF ReInit
  <2>2. CASE \E e \in Entries : Forward(e)
    <3>1. PICK e \in Entries : overtaken' = (overtaken \/ (pc = "store" /\ evt = e))
      BY <2>2 DEF Forward
    <3> QED
      BY <3>1
  <2>3. overtaken' = overtaken \/ ReInit \/ \E e \in Entries : Forward(e)
    BY DEF Next, Command, Box, Game, Allocate, EvtEntry, Store, Display, Continue, Post,
           GameEnters, GameReturns, vars, history
  <2> QED
    BY <2>1, <2>2, <2>3, <2>4
<1> QED
  BY <1>1, <1>2, PTL DEF Spec

\* Unless a script overtakes its store, every text stays somebody's.
LEMMA OwnedNext == Inv /\ EntryWaits /\ TextsOwned /\ [Next]_vars
                     => EntryWaits' /\ TextsOwned'
<1> DEFINE Waits == /\ pc = "store" => script[evt] = "fwd" /\ lw[evt] = NoText
                    /\ pc = "idle" => text = NoText
           Owned == \A t \in Texts : heap[t] = "allocated" =>
                      text = t \/ t \in cut \/ \E e \in Entries : Holds(e) /\ lw[e] = t
           Goal  == Waits' /\ Owned'
<1> SUFFICES ASSUME Inv, EntryWaits, TextsOwned, [Next]_vars, ~overtaken' PROVE Goal
  BY DEF EntryWaits, TextsOwned
<1>0. ~overtaken
  BY DEF Next, Command, Box, Game, Allocate, EvtEntry, Store, Forward, Display, Continue, Post,
         GameEnters, GameReturns, ReInit, vars, history
<1>a. Waits /\ Owned
  BY <1>0 DEF EntryWaits, TextsOwned
<1> USE MsgboxAssumption, <1>a DEF Inv, Shape, Pending, NoTextUsedAfterDelete, Holds
<1>1. CASE Allocate
  BY <1>1 DEF Allocate, manager, history
<1>2. CASE EvtEntry
  BY <1>2 DEF EvtEntry, Enter, Overflow, manager, history
<1>3. CASE Store
  BY <1>3 DEF Store, history
<1>4. ASSUME NEW e \in Entries, Forward(e) PROVE Goal
  <2>1. ~(pc = "store" /\ evt = e)
    BY <1>4 DEF Forward
  <2>2. CASE Overflow
    BY <1>4, <2>2 DEF Forward, Overflow, manager
  <2>3. CASE ~ Overflow
    BY <1>4, <2>1, <2>3 DEF Forward, command
  <2> QED
    BY <2>2, <2>3
<1>5. ASSUME NEW e \in Entries, Display(e) PROVE Goal
  BY <1>5 DEF Display, command, history
<1>6. ASSUME NEW e \in Entries, Continue(e) PROVE Goal
  BY <1>6 DEF Continue, command, history
<1>7. ASSUME NEW e \in Entries, Post(e) PROVE Goal
  BY <1>7 DEF Post, Free, command, history
<1>8. ASSUME NEW e \in Entries, GameEnters(e) PROVE Goal
  <2>1. CASE Overflow
    BY <1>8, <2>1 DEF GameEnters, Overflow, manager, history
  <2>2. CASE ~ Overflow
    BY <1>8, <2>2 DEF GameEnters, Enter, command, history
  <2> QED
    BY <2>1, <2>2
<1>9. ASSUME NEW e \in Entries, GameReturns(e) PROVE Goal
  BY <1>9 DEF GameReturns, Free, command, history
<1>10. CASE UNCHANGED vars
  BY <1>10 DEF vars, command, manager, history
<1>11. CASE ReInit
  BY <1>11 DEF ReInit, command
<1> QED
  BY <1>1, <1>2, <1>3, <1>4, <1>5, <1>6, <1>7, <1>8, <1>9, <1>10, <1>11 DEF Next, Command, Box, Game

\* While the main thread never runs the script before its text is stored, every
\* text that was allocated is held by the command or by a script, unless the game
\* has cleared that script.
THEOREM NoTextLost == Spec => []TextsOwned
<1>1. Init => EntryWaits /\ TextsOwned
  BY DEF Init, EntryWaits, TextsOwned
<1> QED
  BY <1>1, InvInit, InvNext, OwnedNext, PTL DEF Spec

\* Every behaviour is well typed: no message box switches the keys on again
\* without having switched them off.
THEOREM TypeCorrect == Spec => []TypeOK
<1>1. Shape /\ Counted /\ KeysBalanced /\ overtaken \in BOOLEAN => TypeOK
  BY OpenFinite DEF Shape, Counted, KeysBalanced, TypeOK
<1>2. Init => Counted
  BY DEF Init, Counted
<1>3. Inv => Shape
  BY DEF Inv
<1> QED
  BY <1>1, <1>2, <1>3, InvInit, InvNext, KeysNext, KeysAreBalanced, OvertakenBoolean, PTL DEF Spec
=============================================================================
