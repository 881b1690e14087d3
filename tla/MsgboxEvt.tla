----------------------------- MODULE MsgboxEvt ------------------------------
(***************************************************************************)
(* The msgbox command of source/commands.cpp: the receiver thread enters a *)
(* script and hands it the text, the event manager of the game runs the    *)
(* scripts fwd_msgbox_cmd and msgbox_cmd in the main thread.  The threads  *)
(* share the entries of the event manager and the heap, with no lock.      *)
(*                                                                         *)
(* A text is the buffer msgboxText points to.  The event manager (external)*)
(* runs a script until it waits; RUN_EVT gives the new entry a copy of the *)
(* local words; an entry is free again when its script returns.  Neither   *)
(* evtEntry nor RUN_EVT waits for a free entry: the limits of              *)
(* spm/evtmgr.h:14-18 are those of the game's asserts, which halt it.      *)
(***************************************************************************)
EXTENDS Integers, FiniteSets

CONSTANTS Texts,     \* the buffers msgbox requests get from the heap
          NoText,    \* a null pointer
          Entries,   \* the entries of the event manager
          NoEntry,   \* evt before evtEntry has returned
          MaxGame,   \* bound on the scripts of the game at a time
          MaxReInits \* bound on the calls of evtmgrReInit

ASSUME MsgboxAssumption == /\ NoText \notin Texts
                           /\ NoEntry \notin Entries
                           /\ IsFiniteSet(Entries)
                           /\ MaxGame \in Nat
                           /\ MaxReInits \in Nat

VARIABLES
  pc,      \* where the msgbox command is: idle, entry, store; or "halted",
           \* when an assert of the game has stopped both threads
  text,    \* msgboxText
  evt,     \* evt, the entry evtEntry returned
  heap,    \* heap[t]: is t free or allocated?
  script,  \* script[e]: free, fwd, box, or game (another script of the game)
  at,      \* at[e]: the next command of e's script
  lw,      \* lw[e]: local word 0
  shown,   \* the texts displayed since they were allocated (NoText: a null
           \* pointer was)
  keysOff, \* calls of evt_mario_key_off without their evt_mario_key_on
  reInits, \* calls of evtmgrReInit so far
  overtaken, \* history: has a script run, or been cleared, before its text
             \* was stored?
  cut,       \* history: the texts of the scripts that were cleared
  stranded   \* history: how many of them had switched the keys off

command == <<pc, text, evt>>
manager == <<script, at, lw>>
history == <<overtaken, cut, stranded>>
vars    == <<command, heap, manager, shown, keysOff, reInits, history>>

Init ==
  /\ pc = "idle"
  /\ text = NoText
  /\ evt = NoEntry
  /\ heap = [t \in Texts |-> "free"]
  /\ script = [e \in Entries |-> "free"]
  /\ at = [e \in Entries |-> "start"]
  /\ lw = [e \in Entries |-> NoText]
  /\ shown = {}
  /\ keysOff = 0
  /\ reInits = 0
  /\ overtaken = FALSE
  /\ cut = {}
  /\ stranded = 0

-----------------------------------------------------------------------------
(* The command, in the receiver thread.                                    *)

\* isValidBase64 has accepted the request: the text is allocated and decoded.
Allocate ==
  /\ pc = "idle"
  /\ \E t \in Texts : /\ heap[t] = "free"
                      /\ text' = t
                      /\ heap' = [heap EXCEPT ![t] = "allocated"]
                      /\ shown' = shown \ {t}
  /\ pc' = "entry"
  /\ UNCHANGED <<evt, manager, keysOff, reInits, history>>

\* Entry e is given a script; its local words are null.
Enter(e, s, w) ==
  /\ script[e] = "free"
  /\ script' = [script EXCEPT ![e] = s]
  /\ at' = [at EXCEPT ![e] = "start"]
  /\ lw' = [lw EXCEPT ![e] = w]

\* No entry is free: the assert of the event manager halts the game.
Overflow == /\ \A e \in Entries : script[e] # "free"
            /\ pc' = "halted"
            /\ UNCHANGED <<text, evt, manager>>

EvtEntry ==
  /\ pc = "entry"
  /\ \/ /\ \E e \in Entries : Enter(e, "fwd", NoText) /\ evt' = e
        /\ pc' = "store"
        /\ UNCHANGED text
     \/ Overflow
  /\ UNCHANGED <<heap, shown, keysOff, reInits, history>>

\* evt->lw[0] = msgboxText, whatever the entry is used for by now.
Store ==
  /\ pc = "store"
  /\ lw' = [lw EXCEPT ![evt] = text]
  /\ pc' = "idle"
  /\ text' = NoText
  /\ evt' = NoEntry
  /\ UNCHANGED <<heap, script, at, shown, keysOff, reInits, history>>

-----------------------------------------------------------------------------
(* The event manager, in the main thread.                                  *)

Free(e) == script' = [script EXCEPT ![e] = "free"]

\* The definitions named Wrong... are the code with a plausible mistake; no
\* action uses them, the properties are tested against them.
WrongForward(e) ==  \* the local words are not handed on
  /\ script[e] = "fwd"
  /\ \/ /\ \E f \in Entries :
             /\ script[f] = "free"
             /\ script' = [script EXCEPT ![f] = "box", ![e] = "free"]
             /\ at' = [at EXCEPT ![f] = "start"]
             /\ lw' = [lw EXCEPT ![f] = NoText]
        /\ UNCHANGED command
     \/ Overflow
  /\ overtaken' = (overtaken \/ (pc = "store" /\ evt = e))
  /\ UNCHANGED <<heap, shown, keysOff, reInits, cut, stranded>>

KeepsForward(e) ==  \* fwd_msgbox_cmd does not return
  /\ script[e] = "fwd"
  /\ \/ /\ \E f \in Entries :
             /\ script[f] = "free"
             /\ script' = [script EXCEPT ![f] = "box"]
             /\ at' = [at EXCEPT ![f] = "start"]
             /\ lw' = [lw EXCEPT ![f] = lw[e]]
        /\ UNCHANGED command
     \/ Overflow
  /\ overtaken' = (overtaken \/ (pc = "store" /\ evt = e))
  /\ UNCHANGED <<heap, shown, keysOff, reInits, cut, stranded>>

\* fwd_msgbox_cmd: RUN_EVT(msgbox_cmd), RETURN.
Forward(e) ==
  /\ script[e] = "fwd"
  /\ \/ /\ \E f \in Entries :
             /\ script[f] = "free"
             /\ script' = [script EXCEPT ![f] = "box", ![e] = "free"]
             /\ at' = [at EXCEPT ![f] = "start"]
             /\ lw' = [lw EXCEPT ![f] = lw[e]]
        /\ UNCHANGED command
     \/ Overflow
  /\ overtaken' = (overtaken \/ (pc = "store" /\ evt = e))
  /\ UNCHANGED <<heap, shown, keysOff, reInits, cut, stranded>>

WrongContinue(e) ==  \* the keys are switched on twice
  /\ script[e] = "box" /\ at[e] = "continue"
  /\ at' = [at EXCEPT ![e] = "post"]
  /\ keysOff' = keysOff - 1
  /\ UNCHANGED <<command, heap, script, lw, shown, reInits, history>>

\* msgbox_cmd: evt_mario_key_off, then evt_msg_print opens the box.
Display(e) ==
  /\ script[e] = "box" /\ at[e] = "start"
  /\ keysOff' = keysOff + 1
  /\ shown' = shown \cup {lw[e]}
  /\ at' = [at EXCEPT ![e] = "continue"]
  /\ UNCHANGED <<command, heap, script, lw, reInits, history>>

\* evt_msg_continue: the player closes the box, which ends its use of the text.
Continue(e) ==
  /\ script[e] = "box" /\ at[e] = "continue"
  /\ at' = [at EXCEPT ![e] = "post"]
  /\ UNCHANGED <<command, heap, script, lw, shown, keysOff, reInits, history>>

WrongPost(e) ==  \* the keys are switched on only for a box that had a text
  /\ script[e] = "box" /\ at[e] = "post"
  /\ heap' = [t \in Texts |-> IF t = lw[e] THEN "free" ELSE heap[t]]
  /\ keysOff' = IF lw[e] = NoText THEN keysOff ELSE keysOff - 1
  /\ Free(e)
  /\ UNCHANGED <<command, at, lw, shown, reInits, history>>

EarlyReturn(e) ==  \* the script returns before evt_post_msgbox
  /\ script[e] = "box" /\ at[e] = "post"
  /\ keysOff' = keysOff - 1
  /\ Free(e)
  /\ UNCHANGED <<command, heap, at, lw, shown, reInits, history>>

\* evt_post_msgbox deletes the text, evt_mario_key_on, RETURN.
Post(e) ==
  /\ script[e] = "box" /\ at[e] = "post"
  /\ heap' = [t \in Texts |-> IF t = lw[e] THEN "free" ELSE heap[t]]
  /\ keysOff' = keysOff - 1
  /\ Free(e)
  /\ UNCHANGED <<command, at, lw, shown, reInits, history>>

\* The game enters scripts of its own, one too many perhaps, and they return.
GameEnters(e) ==
  /\ Cardinality({f \in Entries : script[f] = "game"}) < MaxGame
  /\ \/ Enter(e, "game", NoText) /\ UNCHANGED command
     \/ Overflow
  /\ UNCHANGED <<heap, shown, keysOff, reInits, history>>

GameReturns(e) ==
  /\ script[e] = "game"
  /\ Free(e)
  /\ UNCHANGED <<command, heap, at, lw, shown, keysOff, reInits, history>>

Holds(e) == script[e] \in {"fwd", "box"}

\* The message boxes that have switched the keys off and not yet on.
Open == {e \in Entries : script[e] = "box" /\ at[e] # "start"}

\* evtmgrReInit: the game zeros all entries, those of message boxes too.
ReInit ==
  /\ reInits < MaxReInits
  /\ reInits' = reInits + 1
  /\ script' = [e \in Entries |-> "free"]
  /\ at' = [e \in Entries |-> "start"]
  /\ lw' = [e \in Entries |-> NoText]
  /\ overtaken' = (overtaken \/ pc = "store")
  /\ cut' = cut \cup {t \in Texts : \E e \in Entries : Holds(e) /\ lw[e] = t}
  /\ stranded' = stranded + Cardinality(Open)
  /\ UNCHANGED <<command, heap, shown, keysOff>>

Command == Allocate \/ EvtEntry \/ Store

\* What the event manager does with entry e, until the game halts.
Box(e) == pc # "halted" /\ (Forward(e) \/ Display(e) \/ Continue(e) \/ Post(e))

Game == pc # "halted" /\ (ReInit \/ \E e \in Entries : GameEnters(e) \/ GameReturns(e))

Next == Command \/ Game \/ \E e \in Entries : Box(e)

Spec == Init /\ [][Next]_vars

\* The command goes on once it has started, the event manager runs every entry
\* of a message box (the game resumes the scripts it pauses) and the player
\* closes a box some time.  The scripts of the game owe nothing.
FairSpec == /\ Spec
            /\ WF_vars(EvtEntry) /\ WF_vars(Store)
            /\ \A e \in Entries : WF_vars(Box(e))

-----------------------------------------------------------------------------
(* Properties.                                                             *)

\* The shape of every variable.
TypeOK ==
  /\ pc \in {"idle", "entry", "store", "halted"}
  /\ text \in Texts \cup {NoText}
  /\ evt \in Entries \cup {NoEntry}
  /\ heap \in [Texts -> {"free", "allocated"}]
  /\ script \in [Entries -> {"free", "fwd", "box", "game"}]
  /\ at \in [Entries -> {"start", "continue", "post"}]
  /\ lw \in [Entries -> Texts \cup {NoText}]
  /\ shown \subseteq Texts \cup {NoText}
  /\ keysOff \in Nat
  /\ reInits \in 0 .. MaxReInits
  /\ overtaken \in BOOLEAN
  /\ cut \subseteq Texts
  /\ stranded \in Nat

\* Even when the store comes late, no message box displays or deletes a text
\* that was deleted before, and no two scripts hold one text: delete[] in
\* evt_post_msgbox is called at most once for every new[] of the command.
NoTextUsedAfterDelete ==
  \A e \in Entries : Holds(e) /\ lw[e] # NoText =>
    /\ heap[lw[e]] = "allocated"
    /\ \A f \in Entries : Holds(f) /\ lw[f] = lw[e] => f = e

\* Mario can be controlled again once no message box is open: every key_off
\* of msgbox_cmd has met its key_on, but for those whose script the game has
\* cleared in between, which nothing makes up for.
KeysBalanced == keysOff = Cardinality(Open) + stranded

\* No text is lost while no script was overtaken: what the command has allocated
\* is held by the command or by a script that will delete it, or that script
\* was cleared by the game.
TextsOwned ==
  ~overtaken => \A t \in Texts : heap[t] = "allocated" =>
                  \/ text = t \/ t \in cut
                  \/ \E e \in Entries : Holds(e) /\ lw[e] = t

Displayed(t) == t \in shown /\ heap[t] = "free"

\* README.md:30: the command "will spawn a system message box" with the text
\* it was given, and that text is deleted afterwards.
Delivered == \A t \in Texts : heap[t] = "allocated" ~> Displayed(t)

\* It does so, for a player who closes the boxes, unless the main thread runs or
\* clears the script in the window between evtEntry and the store, or clears it
\* later on, or the entries run out, which halts the game.
DeliveredUnlessCut ==
  \A t \in Texts :
    heap[t] = "allocated" ~> (Displayed(t) \/ overtaken \/ t \in cut \/ pc = "halted")
=============================================================================
