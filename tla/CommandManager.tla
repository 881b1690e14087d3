--------------------------- MODULE CommandManager ---------------------------
(***************************************************************************)
(* The command manager of source/commandmanager.cpp: the commands that are *)
(* registered, and parseAndExecute, which finds the command a request      *)
(* names and calls it with the request's other words; it is cut into words *)
(* by split, one turn of its loop a step (Tokenizer).                      *)
(*                                                                         *)
(* The words are the strings of a temporary vector; attrs keeps pointers   *)
(* into them, and the vector is released when the loop over it ends.  What *)
(* a pointer then reads is up to the heap, which the threads of the game   *)
(* use at the same time.                                                   *)
(***************************************************************************)
EXTENDS Integers, Sequences, FiniteSets

CONSTANTS Chars, Sep, \* the characters of requests, the space among them
          Texts,      \* the requests
          Other,      \* what released memory reads as once it is used again
          Names,      \* the names of the commands there are
          argc,       \* argc[n]: how many arguments command n takes, or ANY_ARGC
          ANY_ARGC,
          Initial     \* the commands initCommands adds, in their order

ASSUME CommandAssumption ==
  /\ Sep \in Chars
  /\ Texts \subseteq Seq(Chars)
  /\ Names \subseteq Seq(Chars \ {Sep})
  /\ Other \notin Seq(Chars)
  /\ ANY_ARGC = -1
  /\ argc \in [Names -> Nat \cup {ANY_ARGC}]
  /\ Initial \in Seq(Names)

VARIABLES
  pc,        \* init, idle, split, find, call, done; crashed
  commands,  \* the vector of registered commands
  text,      \* str
  input,     \* split's input: what it has left of str
  word,      \* split's word
  tokens,    \* split's attrs: the words it has found
  memory,    \* memory[p]: what the string at p reads as
  attrs,     \* the pointers: positions in memory
  command,   \* pCmd: the name of the command found
  args,      \* the arguments its handler has read
  outcome    \* none, answered, usage (wrong argument count), unknown; failed

splitting == <<text, input, word, tokens>>
vars == <<pc, commands, splitting, memory, attrs, command, args, outcome>>

Tok == INSTANCE Tokenizer WITH attrs <- tokens

NoName == Other
Registered == {commands[i] : i \in 1 .. Len(commands)}

Init ==
  /\ pc = "init"
  /\ commands = <<>>
  /\ text = <<>>
  /\ input = <<>>
  /\ word = <<>>
  /\ tokens = <<>>
  /\ memory = <<>>
  /\ attrs = <<>>
  /\ command = NoName
  /\ args = <<>>
  /\ outcome = "none"

\* addCommand: a name that is registered already is not added again.
Add(cmds, n) ==
  IF \E i \in 1 .. Len(cmds) : cmds[i] = n THEN cmds ELSE Append(cmds, n)

\* CreateInstance and the three calls of addCommand.
InitCommands ==
  /\ pc = "init"
  /\ LET added[i \in 0 .. Len(Initial)] ==
           IF i = 0 THEN commands ELSE Add(added[i - 1], Initial[i])
     IN  commands' = added[Len(Initial)]
  /\ pc' = "idle"
  /\ UNCHANGED <<splitting, memory, attrs, command, args, outcome>>

AddCommand(n) ==
  /\ pc = "idle"
  /\ commands' = Add(commands, n)
  /\ UNCHANGED <<pc, splitting, memory, attrs, command, args, outcome>>

\* removeCommand passes erase the address of its local variable for a position
\* in the vector: depending on where the stack lies, the last command goes, or
\* the memory from the stack to the vector is moved.
RemoveCommand(n) ==
  /\ pc = "idle"
  /\ n \in Registered
  /\ \/ commands' = SubSeq(commands, 1, Len(commands) - 1) /\ UNCHANGED pc
     \/ pc' = "crashed" /\ UNCHANGED commands
  /\ UNCHANGED <<splitting, memory, attrs, command, args, outcome>>

\* parseAndExecute is called with the text t; split starts.
Request(t) ==
  /\ pc = "idle"
  /\ text' = t
  /\ input' = t
  /\ pc' = "split"
  /\ UNCHANGED <<commands, word, tokens, memory, attrs, command, args, outcome>>

\* One turn of split's loop.
SplitTurn ==
  /\ pc = "split"
  /\ Tok!Turn
  /\ UNCHANGED <<pc, commands, memory, attrs, command, args, outcome>>

\* The definitions named Wrong... are the code with a plausible mistake; no
\* action uses them, the properties are tested against them.
WrongParse ==  \* the pointers are one off
  /\ pc = "split"
  /\ input = word
  /\ memory' = tokens
  /\ attrs' = [i \in 1 .. Len(tokens) |-> i + 1]
  /\ pc' = "find"
  /\ UNCHANGED <<commands, splitting, command, args, outcome>>

\* split has returned: the loop that fills attrs with pointers to the words,
\* and the release of the temporary vector at its end.
Parse ==
  /\ pc = "split"
  /\ input = word
  /\ memory' = tokens
  /\ attrs' = [i \in 1 .. Len(tokens) |-> i]
  /\ pc' = "find"
  /\ UNCHANGED <<commands, splitting, command, args, outcome>>

\* Another thread is given the released memory of the string at p.
Reuse(p) ==
  /\ pc \in {"find", "call"}
  /\ memory' = [memory EXCEPT ![p] = Other]
  /\ UNCHANGED <<pc, commands, splitting, attrs, command, args, outcome>>

\* What parseAndExecute and execute do once command n was found: attrs without
\* the name, and the test of the count.
Dispatch(n, rest, count) ==
  /\ command' = n
  /\ attrs' = rest
  /\ IF count # argc[n] /\ argc[n] # ANY_ARGC
     THEN pc' = "done" /\ outcome' = "usage"
     ELSE pc' = "call" /\ UNCHANGED outcome

WrongFindCommand ==  \* the arguments are counted before the name is erased
  /\ pc = "find" /\ attrs # <<>>
  /\ LET n == memory[attrs[1]] IN
     IF n \notin Registered
     THEN pc' = "done" /\ outcome' = "unknown" /\ UNCHANGED <<attrs, command>>
     ELSE Dispatch(n, Tail(attrs), Len(attrs))
  /\ UNCHANGED <<commands, splitting, memory, args>>

WrongErase ==  \* the last word is erased instead of the name
  /\ pc = "find" /\ attrs # <<>>
  /\ LET n == memory[attrs[1]] IN
     IF n \notin Registered
     THEN pc' = "done" /\ outcome' = "unknown" /\ UNCHANGED <<attrs, command>>
     ELSE Dispatch(n, SubSeq(attrs, 1, Len(attrs) - 1), Len(attrs) - 1)
  /\ UNCHANGED <<commands, splitting, memory, args>>

\* findCommand(attrs[0]); attrs[0] of an empty vector reads at address 0.
\* Then the erase of attrs[0], and the test of the argument count.
FindCommand ==
  /\ pc = "find"
  /\ IF attrs = <<>>
     THEN pc' = "crashed" /\ UNCHANGED <<attrs, command, outcome>>
     ELSE LET n == memory[attrs[1]] IN
          IF n \notin Registered
          THEN pc' = "done" /\ outcome' = "unknown" /\ UNCHANGED <<attrs, command>>
          ELSE Dispatch(n, Tail(attrs), Len(attrs) - 1)
  /\ UNCHANGED <<commands, splitting, memory, args>>

\* The handler reads its next argument.
ReadArgument ==
  /\ pc = "call"
  /\ Len(args) < Len(attrs)
  /\ args' = Append(args, memory[attrs[Len(args) + 1]])
  /\ UNCHANGED <<pc, commands, splitting, memory, attrs, command, outcome>>

\* The handler has its arguments and answers.
Answer ==
  /\ pc = "call"
  /\ Len(args) = Len(attrs)
  /\ outcome' = "answered"
  /\ pc' = "done"
  /\ UNCHANGED <<commands, splitting, memory, attrs, command, args>>

\* An allocation fails: of split's strings, of the vectors, or of the buffer a
\* handler makes.  Nothing tests new, and the thread does not come back.
OutOfMemory ==
  /\ pc \in {"split", "call"}
  /\ pc' = "crashed"
  /\ outcome' = "failed"
  /\ UNCHANGED <<commands, splitting, memory, attrs, command, args>>

\* parseAndExecute returns, and its locals with it.
Return ==
  /\ pc = "done"
  /\ text' = <<>>
  /\ input' = <<>>
  /\ word' = <<>>
  /\ tokens' = <<>>
  /\ memory' = <<>>
  /\ attrs' = <<>>
  /\ command' = NoName
  /\ args' = <<>>
  /\ outcome' = "none"
  /\ pc' = "idle"
  /\ UNCHANGED commands

\* What the receiver thread does once a request has come in.
Serve == SplitTurn \/ Parse \/ FindCommand \/ ReadArgument \/ Answer \/ Return

Next == \/ InitCommands \/ Serve \/ OutOfMemory
        \/ \E t \in Texts : Request(t)
        \/ \E n \in Names : AddCommand(n) \/ RemoveCommand(n)
        \/ \E p \in 1 .. Len(memory) : Reuse(p)

Spec == Init /\ [][Next]_vars

\* The thread goes on with the request it serves.
FairSpec == Spec /\ WF_vars(Serve)

-----------------------------------------------------------------------------
(* Properties.                                                             *)

Word == Seq(Chars \ {Sep})

\* The shape of every variable.
TypeOK ==
  /\ pc \in {"init", "idle", "split", "find", "call", "done", "crashed"}
  /\ commands \in Seq(Names)
  /\ text \in Texts \cup {<<>>}
  /\ Tok!TypeOK
  /\ memory \in Seq(Word \cup {Other})
  /\ attrs \in Seq(1 .. Len(memory))
  /\ command \in Names \cup {NoName}
  /\ args \in Seq(Word \cup {Other})
  /\ outcome \in {"none", "answered", "usage", "unknown", "failed"}

\* No two commands have one name, whatever is added and removed: otherwise the
\* second could never be found.
NamesDistinct ==
  \A i, j \in 1 .. Len(commands) : commands[i] = commands[j] => i = j

\* Handlers index their arguments without a test, so a handler is called only
\* with as many as it takes, also when the words were overwritten since they
\* were counted; and only the one registered under the name.
HandlerGetsItsArguments ==
  /\ NamesDistinct
  /\ pc = "call" => /\ command \in Registered
                    /\ argc[command] \in {Len(attrs), ANY_ARGC}
                    /\ Len(args) <= Len(attrs)

\* split has returned.
HasSplit == pc \in {"find", "call", "done"}

\* split finds the words of the text in their order, except that a last word
\* is lost when it equals the one before it and a single space parts them:
\* the rest of the input then equals the last word, which ends the loop.
SplitResult ==
  HasSplit => LET ws == Tok!WordsOf(text) IN
              tokens = IF Tok!EndsTwice(text) THEN SubSeq(ws, 1, Len(ws) - 1) ELSE ws

\* README.md:11-32: a request is answered by the command it names, with the
\* other words of its text for arguments, whoever was served before.  A text
\* that ends with one word twice is left out by name: split drops the second, so
\* `read 8 8', which README.md:14 (`read address n') allows, has one argument.
AnswersRequest ==
  outcome = "answered" /\ ~Tok!EndsTwice(text) => <<command>> \o args = Tok!WordsOf(text)

\* Nobody else was given the memory of a released word.
Undisturbed == memory = tokens

\* That is so while nobody else uses the heap between the release of the words
\* and the last use of a pointer to them.
AnswersUndisturbed == Undisturbed => AnswersRequest

\* What the words ws ask for, given the registered commands.
Asked(ws) == /\ ws # <<>> /\ ws[1] \in Registered
             /\ argc[ws[1]] \in {Len(ws) - 1, ANY_ARGC}

\* While nobody else uses the heap, a request whose text names a registered
\* command with its number of words is not turned down, unless the text ends
\* with one word twice: README.md:14 to the contrary, `read 8 8' is.
RejectsOnlyMalformed ==
  [][/\ pc = "find" /\ Undisturbed /\ ~Tok!EndsTwice(text)
     /\ outcome' \in {"unknown", "usage"}
     => ~Asked(Tok!WordsOf(text))]_vars

\* Every request with a word is done with, also one with no space at all, for
\* which split's index + 1 wraps around, and one whose words are overwritten: the
\* next may be served.  Two things end the thread: a request without a word, for
\* which parseAndExecute reads attrs[0] of an empty vector, and a failing
\* allocation.
RequestEnds ==
  pc = "split" ~> \/ pc = "idle"
                  \/ pc = "crashed" /\ (Tok!WordsOf(text) = <<>> \/ outcome = "failed")
=============================================================================
