---------------------------- MODULE CommandProofs ----------------------------
(***************************************************************************)
(* Whatever the commands, the texts and the use that other threads make of *)
(* the released words: a handler is called with as many arguments as it    *)
(* takes, only an overwritten word makes an answer or a refusal wrong, and *)
(* split finds the words of a text but a last one that repeats.            *)
(***************************************************************************)
EXTENDS CommandManager, NumberInduction, SequenceTheorems, FiniteSetTheorems

\* The registers: sequences of names that are all different.
Register == {c \in Seq(Names) : \A i, j \in 1 .. Len(c) : c[i] = c[j] => i = j}

\* The beginning of a sequence.
LEMMA Beginning ==
  ASSUME NEW S, NEW s \in Seq(S), NEW k \in Nat, k <= Len(s)
  PROVE  /\ SubSeq(s, 1, k) \in Seq(S) /\ Len(SubSeq(s, 1, k)) = k
         /\ \A i \in 1 .. k : SubSeq(s, 1, k)[i] = s[i]
OBVIOUS

\* addCommand keeps the names distinct.
LEMMA AddKeeps == ASSUME NEW c \in Register, NEW n \in Names PROVE Add(c, n) \in Register
<1>1. CASE \E i \in 1 .. Len(c) : c[i] = n
  BY <1>1 DEF Add
<1>2. CASE ~\E i \in 1 .. Len(c) : c[i] = n
  <2>1. c \in Seq(Names) /\ Len(c) \in Nat
    BY DEF Register
  <2> DEFINE d == Append(c, n)
  <2>2. /\ d \in Seq(Names) /\ Len(d) = Len(c) + 1 /\ d[Len(c) + 1] = n
        /\ \A i \in 1 .. Len(c) : d[i] = c[i]
    BY <2>1
  <2> HIDE DEF d
  <2>3. \A i, j \in 1 .. Len(d) : d[i] = d[j] => i = j
    BY <1>2, <2>1, <2>2 DEF Register
  <2>4. Add(c, n) = d
    BY <1>2 DEF Add, d
  <2> QED
    BY <2>2, <2>3, <2>4 DEF Register
<1> QED
  BY <1>1, <1>2

\* So do the commands that initCommands adds one by one.
LEMMA InitialKeeps ==
  ASSUME commands \in Register, InitCommands
  PROVE  commands' \in Register
<1> DEFINE N == Len(Initial)
           IsAdded(f) == f = [i \in 0 .. N |-> IF i = 0 THEN commands ELSE Add(f[i - 1], Initial[i])]
           added == CHOOSE f : IsAdded(f)
           g == [c \in Register |-> [i \in Nat |-> IF i \in 1 .. N THEN Add(c, Initial[i]) ELSE c]]
<1>1. N \in Nat /\ \A i \in 1 .. N : Initial[i] \in Names
  BY CommandAssumption
<1>2. commands' = added[N]
  BY DEF InitCommands
<1> HIDE DEF N
<1>3. g \in [Register -> [Nat -> Register]]
  BY <1>1, AddKeeps
<1>4. \A c \in Register : \A i \in 1 .. N : g[c][i] = Add(c, Initial[i])
  BY <1>1
<1> HIDE DEF g
<1>5. PICK f : Recurses(f, Register, commands, g, N)
  BY <1>1, <1>3, Recursion
<1>6. ASSUME NEW i \in 1 .. N PROVE f[i] = Add(f[i - 1], Initial[i])
  <2>1. f[i - 1] \in Register /\ f[i] = g[f[i - 1]][i]
    BY <1>1, <1>5 DEF Recurses
  <2> QED
    BY <1>4, <2>1
<1>7. IsAdded(f)
  BY <1>1, <1>5, <1>6 DEF Recurses
<1>8. IsAdded(added)
  BY <1>7
<1> HIDE DEF added
<1>9. added[0] = commands /\ \A i \in 1 .. N : added[i] = Add(added[i - 1], Initial[i])
  <2>1. ASSUME NEW i \in 0 .. N
        PROVE  added[i] = IF i = 0 THEN commands ELSE Add(added[i - 1], Initial[i])
    BY <1>8
  <2>2. 0 \in 0 .. N /\ \A i \in 1 .. N : i \in 0 .. N /\ i # 0
    BY <1>1
  <2> QED
    BY <2>1, <2>2, Zenon
<1> DEFINE S == {i \in Nat : i <= N => added[i] \in Register}
<1>10. 0 \in S
  BY <1>9
<1>11. ASSUME NEW i \in Nat, i \in S PROVE i + 1 \in S
  <2>1. CASE i + 1 <= N
    <3>1. added[i] \in Register /\ i + 1 \in 1 .. N /\ (i + 1) - 1 = i
      BY <1>1, <1>11, <2>1
    <3>2. added[i + 1] = Add(added[i], Initial[i + 1])
      BY <1>9, <3>1
    <3>3. added[i + 1] \in Register
      BY <1>1, <3>1, <3>2, AddKeeps
    <3> QED
      BY <3>3
  <2>2. CASE ~(i + 1 <= N)
    BY <2>2
  <2> QED
    BY <2>1, <2>2
<1> HIDE DEF S
<1>12. N \in S
  BY <1>1, <1>10, <1>11, Induction
<1> QED
  BY <1>1, <1>2, <1>12 DEF S

-----------------------------------------------------------------------------
(* The words.                                                              *)

\* find_first_of finds the first separator, or the end.
LEMMA FirstSepIs ==
  ASSUME NEW s \in Seq(Chars)
  PROVE  /\ Tok!FirstSep(s) \in 1 .. Len(s) + 1
         /\ Tok!FirstSep(s) <= Len(s) => s[Tok!FirstSep(s)] = Sep
         /\ \A j \in 1 .. Tok!FirstSep(s) - 1 : s[j] # Sep
<1> DEFINE S == {i \in 1 .. Len(s) + 1 : i <= Len(s) => s[i] = Sep}
<1>1. Len(s) \in Nat
  OBVIOUS
<1>2. Len(s) + 1 \in S /\ S \in SUBSET Nat
  BY <1>1
<1>3. PICK i \in S : \A j \in S : i <= j
  BY <1>2, Least
<1>4. ASSUME NEW j \in 1 .. i - 1 PROVE s[j] # Sep
  BY <1>1, <1>3
<1>5. \E k \in 1 .. Len(s) + 1 : /\ k <= Len(s) => s[k] = Sep
                                 /\ \A j \in 1 .. k - 1 : s[j] # Sep
  BY <1>3, <1>4
<1> QED
  BY <1>5 DEF Tok!FirstSep

Splits == input \in Seq(Chars) /\ tokens \in Seq(Seq(Chars))

\* A turn cuts the word and the rest out of the input.
LEMMA TurnKeeps == ASSUME Splits, Tok!Turn PROVE Splits'
<1> DEFINE i == Tok!FirstSep(input)
           next == SubSeq(input, 1, i - 1)
<1>1. /\ input' = Tok!After(input, i)
      /\ tokens' = IF next = <<>> THEN tokens ELSE Append(tokens, next)
  BY DEF Tok!Turn
<1>2. i \in 1 .. Len(input) + 1 /\ Len(input) \in Nat
  BY FirstSepIs DEF Splits
<1> HIDE DEF i
<1>3. SubSeq(input, 1, i - 1) \in Seq(Chars)
  BY <1>2 DEF Splits
<1>4. Tok!After(input, i) \in Seq(Chars)
  <2>1. CASE i > Len(input)
    BY <2>1 DEF Splits, Tok!After
  <2>2. CASE i <= Len(input)
    <3>1. SubSeq(input, i + 1, Len(input)) \in Seq(Chars)
      BY <1>2, <2>2 DEF Splits
    <3> QED
      BY <1>2, <2>2, <3>1 DEF Tok!After
  <2> QED
    BY <1>2, <2>1, <2>2
<1> QED
  BY <1>1, <1>3, <1>4 DEF Splits

-----------------------------------------------------------------------------
(* The pointers.                                                           *)

\* Where each pointer points, and what it may read: the word it was made for,
\* or what another thread left there, for good.
Released == pc \in {"find", "call", "done"} =>
  /\ memory \in Seq(Seq(Chars) \cup {Other}) /\ Len(memory) = Len(tokens)
  /\ \A p \in 1 .. Len(tokens) : memory[p] \in {tokens[p], Other}
  /\ pc = "find" => attrs = [i \in 1 .. Len(tokens) |-> i]

\* The command that was found, and the arguments its handler has read so far.
Called == pc = "call" \/ outcome = "answered" =>
  /\ tokens # <<>> /\ command = tokens[1]
  /\ attrs \in Seq(Nat) /\ Len(attrs) = Len(tokens) - 1
  /\ \A i \in 1 .. Len(attrs) : attrs[i] = i + 1
  /\ args \in Seq(Seq(Chars) \cup {Other}) /\ Len(args) <= Len(attrs)
  /\ \A i \in 1 .. Len(args) : args[i] = tokens[i + 1] \/ memory[i + 1] = Other
  /\ outcome = "answered" => Len(args) = Len(attrs)

Inv ==
  /\ pc \in {"init", "idle", "split", "find", "call", "done", "crashed"}
  /\ commands \in Register
  /\ Splits
  /\ pc \notin {"call", "done", "crashed"} => args = <<>>
  /\ pc \notin {"done", "crashed"} => outcome = "none"
  /\ outcome = "answered" => pc = "done"
  /\ pc = "call" => command \in Registered /\ argc[command] \in {Len(attrs), ANY_ARGC}
  /\ Released
  /\ Called

\* It holds at first.
LEMMA InvInit == Init => Inv
<1> SUFFICES ASSUME Init PROVE Inv
  OBVIOUS
<1>1. commands \in Register
  BY DEF Init, Register
<1> QED
  BY <1>1 DEF Init, Inv, Splits, Released, Called

\* findCommand compares what attrs[0] reads as with the registered names.
LEMMA FindStep == Inv /\ FindCommand => Inv'
<1> SUFFICES ASSUME Inv, FindCommand PROVE Inv'
  OBVIOUS
<1>1. /\ pc = "find" /\ UNCHANGED <<commands, text, input, word, tokens, memory, args>>
      /\ args = <<>> /\ outcome = "none"
      /\ attrs = [i \in 1 .. Len(tokens) |-> i] /\ tokens \in Seq(Seq(Chars)) /\ Len(tokens) \in Nat
      /\ \A p \in 1 .. Len(tokens) : memory[p] \in {tokens[p], Other}
  BY DEF Inv, FindCommand, splitting, Released, Splits
<1>2. Splits' /\ commands' \in Register
  BY <1>1 DEF Inv, Splits
<1>3. CASE attrs = <<>>
  <2>1. pc' = "crashed" /\ UNCHANGED outcome
    BY <1>3 DEF FindCommand
  <2> QED
    BY <1>1, <1>2, <2>1 DEF Inv, Released, Called
<1>4. CASE attrs # <<>>
  <2> DEFINE n == memory[attrs[1]]
  <2>1. Len(tokens) >= 1 /\ tokens # <<>> /\ attrs[1] = 1
    BY <1>1, <1>4
  <2>2. CASE n \notin Registered
    <3>1. pc' = "done" /\ outcome' = "unknown"
      BY <1>4, <2>2 DEF FindCommand
    <3> QED
      BY <1>1, <1>2, <3>1 DEF Inv, Released, Called
  <2>3. CASE n \in Registered
    <3>1. Dispatch(n, Tail(attrs), Len(attrs) - 1)
      BY <1>4, <2>3 DEF FindCommand
    <3>2. n = tokens[1]
      <4>1. n \in Names
        BY <2>3 DEF Inv, Register, Registered
      <4>2. n # Other
        BY <4>1, CommandAssumption
      <4> QED
        BY <1>1, <2>1, <4>2
    <3>3. attrs \in Seq(Nat) /\ Len(attrs) = Len(tokens)
      BY <1>1
    <3>4. /\ Tail(attrs) \in Seq(Nat) /\ Len(Tail(attrs)) = Len(tokens) - 1
          /\ \A i \in 1 .. Len(tokens) - 1 : Tail(attrs)[i] = i + 1
      BY <1>1, <1>4, <2>1, <3>3
    <3>5. Registered' = Registered
      BY <1>1 DEF Registered
    <3>6. command' = n /\ attrs' = Tail(attrs)
      BY <3>1 DEF Dispatch
    <3>7. CASE pc' = "done" /\ outcome' = "usage"
      BY <1>1, <1>2, <3>7 DEF Inv, Released, Called
    <3>8. CASE pc' = "call" /\ UNCHANGED outcome /\ argc[n] \in {Len(attrs) - 1, ANY_ARGC}
      <4>1. Called'
        BY <1>1, <2>1, <3>2, <3>4, <3>6, <3>8, SMTT(30) DEF Called
      <4>2. Released'
        BY <1>1, <3>8 DEF Inv, Released
      <4>3. command' \in Registered' /\ argc[command'] \in {Len(attrs'), ANY_ARGC}
        BY <2>3, <3>3, <3>4, <3>5, <3>6, <3>8
      <4> QED
        BY <1>1, <1>2, <3>8, <4>1, <4>2, <4>3 DEF Inv
    <3> QED
      BY <3>1, <3>7, <3>8 DEF Dispatch
  <2> QED
    BY <2>2, <2>3
<1> QED
  BY <1>3, <1>4

\* A handler reads a word, or what has become of it.
LEMMA ReadStep == Inv /\ ReadArgument => Inv'
<1> SUFFICES ASSUME Inv, ReadArgument PROVE Inv'
  OBVIOUS
<1>1. /\ pc = "call" /\ Len(args) < Len(attrs) /\ args' = Append(args, memory[attrs[Len(args) + 1]])
      /\ UNCHANGED <<pc, commands, text, input, word, tokens, memory, attrs, command, outcome>>
  BY DEF ReadArgument, splitting
<1>2. /\ tokens # <<>> /\ command = tokens[1]
      /\ attrs \in Seq(Nat) /\ Len(attrs) = Len(tokens) - 1
      /\ \A i \in 1 .. Len(attrs) : attrs[i] = i + 1
      /\ args \in Seq(Seq(Chars) \cup {Other})
      /\ \A i \in 1 .. Len(args) : args[i] = tokens[i + 1] \/ memory[i + 1] = Other
  BY <1>1 DEF Inv, Called
<1> DEFINE k == Len(args) + 1
<1>3. k \in 1 .. Len(attrs) /\ k + 1 \in 1 .. Len(tokens) /\ Len(args) \in Nat
  BY <1>1, <1>2
<1>4. attrs[k] = k + 1
  BY <1>2, <1>3
<1>5. /\ memory[k + 1] \in {tokens[k + 1], Other}
      /\ memory \in Seq(Seq(Chars) \cup {Other}) /\ Len(memory) = Len(tokens)
  BY <1>1, <1>3 DEF Inv, Released
<1>6. memory[k + 1] \in Seq(Chars) \cup {Other}
  BY <1>3, <1>5
<1>7. /\ args' \in Seq(Seq(Chars) \cup {Other}) /\ Len(args') = k
      /\ args'[k] = memory[k + 1] /\ \A i \in 1 .. Len(args) : args'[i] = args[i]
  BY <1>1, <1>2, <1>3, <1>4, <1>6
<1>8. ASSUME NEW i \in 1 .. Len(args') PROVE args'[i] = tokens[i + 1] \/ memory[i + 1] = Other
  <2>1. i = k \/ i \in 1 .. Len(args)
    BY <1>3, <1>7
  <2> QED
    BY <1>2, <1>5, <1>7, <2>1
<1>9. Called'
  BY <1>1, <1>2, <1>3, <1>7, <1>8, SMTT(30) DEF Inv, Called
<1>10. Splits' /\ Released' /\ Registered' = Registered
  BY <1>1 DEF Inv, Splits, Released, Registered
<1> QED
  BY <1>1, <1>9, <1>10 DEF Inv

\* Memory that was reused stays so: no argument becomes right again.
LEMMA ReuseStep == ASSUME Inv, NEW p \in 1 .. Len(memory), Reuse(p) PROVE Inv'
<1>1. /\ pc \in {"find", "call"} /\ memory' = [memory EXCEPT ![p] = Other]
      /\ UNCHANGED <<pc, commands, text, input, word, tokens, attrs, command, args, outcome>>
  BY DEF Reuse, splitting
<1>2. /\ memory \in Seq(Seq(Chars) \cup {Other}) /\ Len(memory) = Len(tokens)
      /\ \A i \in 1 .. Len(tokens) : memory[i] \in {tokens[i], Other}
      /\ pc = "find" => attrs = [i \in 1 .. Len(tokens) |-> i]
  BY <1>1 DEF Inv, Released
<1>3. /\ memory' \in Seq(Seq(Chars) \cup {Other}) /\ Len(memory') = Len(tokens)
      /\ \A i \in 1 .. Len(tokens) : memory'[i] = IF i = p THEN Other ELSE memory[i]
  BY <1>1, <1>2
<1>4. Released'
  BY <1>1, <1>2, <1>3 DEF Released
<1>5. Called'
  <2> SUFFICES ASSUME pc = "call" \/ outcome = "answered"
               PROVE  \A i \in 1 .. Len(args) : args[i] = tokens[i + 1] \/ memory'[i + 1] = Other
    BY <1>1 DEF Inv, Called
  <2>1. /\ \A i \in 1 .. Len(args) : args[i] = tokens[i + 1] \/ memory[i + 1] = Other
        /\ Len(args) <= Len(tokens) - 1 /\ Len(args) \in Nat /\ Len(tokens) \in Nat
    BY SMTT(30) DEF Inv, Called, Splits
  <2>2. \A i \in 1 .. Len(args) : i + 1 \in 1 .. Len(tokens)
    BY <2>1
  <2> QED
    BY <1>3, <2>1, <2>2
<1>6. Splits' /\ Registered' = Registered
  BY <1>1 DEF Inv, Splits, Registered
<1> QED
  BY <1>1, <1>4, <1>5, <1>6 DEF Inv

\* Every step of the thread, of the commands and of other threads keeps it.
LEMMA InvStep == Inv /\ [Next]_vars => Inv'
<1> SUFFICES ASSUME Inv, [Next]_vars PROVE Inv'
  OBVIOUS
<1> USE DEF splitting
<1>1. CASE InitCommands
  <2>1. commands' \in Register
    BY <1>1, InitialKeeps DEF Inv
  <2>2. Splits'
    BY <1>1 DEF InitCommands, Inv, Splits
  <2> QED
    BY <1>1, <2>1, <2>2 DEF InitCommands, Inv, Released, Called
<1>2. ASSUME NEW t \in Texts, Request(t) PROVE Inv'
  <2>1. Splits'
    BY <1>2, CommandAssumption DEF Request, Inv, Splits
  <2> QED
    BY <1>2, <2>1 DEF Request, Inv, Released, Called
<1>3. ASSUME NEW n \in Names, AddCommand(n) PROVE Inv'
  <2>1. commands' \in Register
    BY <1>3, AddKeeps DEF AddCommand, Inv
  <2>2. Splits'
    BY <1>3 DEF AddCommand, Inv, Splits
  <2> QED
    BY <1>3, <2>1, <2>2 DEF AddCommand, Inv, Released, Called
<1>4. ASSUME NEW n \in Names, RemoveCommand(n) PROVE Inv'
  <2>1. commands' \in Register
    <3>1. commands \in Seq(Names) /\ Len(commands) \in Nat
          /\ \A i, j \in 1 .. Len(commands) : commands[i] = commands[j] => i = j
      BY DEF Inv, Register
    <3>2. CASE commands' = commands
      BY <3>2 DEF Inv
    <3>3. CASE commands' = SubSeq(commands, 1, Len(commands) - 1)
      <4> DEFINE k == Len(commands) - 1
      <4>1. Len(commands) >= 1
        BY <1>4, <3>1 DEF RemoveCommand, Registered
      <4>2. k \in Nat /\ k < Len(commands)
        BY <3>1, <4>1
      <4> HIDE DEF k
      <4>3. /\ SubSeq(commands, 1, k) \in Seq(Names) /\ Len(SubSeq(commands, 1, k)) = k
            /\ \A i \in 1 .. k : SubSeq(commands, 1, k)[i] = commands[i]
        BY <3>1, <4>2, Beginning
      <4>4. commands' = SubSeq(commands, 1, k)
        BY <3>3 DEF k
      <4> DEFINE c == SubSeq(commands, 1, k)
      <4>5. c \in Seq(Names) /\ Len(c) = k /\ \A i \in 1 .. k : c[i] = commands[i]
        BY <4>3
      <4>6. commands' = c
        BY <4>4
      <4> HIDE DEF c
      <4>7. \A i, j \in 1 .. Len(c) : c[i] = c[j] => i = j
        BY <3>1, <4>2, <4>5
      <4> QED
        BY <4>5, <4>6, <4>7 DEF Register
    <3> QED
      BY <1>4, <3>2, <3>3 DEF RemoveCommand
  <2>2. Splits'
    BY <1>4 DEF RemoveCommand, Inv, Splits
  <2> QED
    BY <1>4, <2>1, <2>2 DEF RemoveCommand, Inv, Released, Called
<1>5. CASE SplitTurn
  <2>1. Splits'
    BY <1>5, TurnKeeps DEF SplitTurn, Inv
  <2> QED
    BY <1>5, <2>1 DEF SplitTurn, Inv, Released, Called
<1>6. CASE Parse
  <2>1. Splits'
    BY <1>6 DEF Parse, Inv, Splits
  <2>2. Released'
    BY <1>6 DEF Parse, Inv, Splits, Released
  <2> QED
    BY <1>6, <2>1, <2>2 DEF Parse, Inv, Called
<1>7. CASE FindCommand
  BY <1>7, FindStep
<1>8. CASE ReadArgument
  BY <1>8, ReadStep
<1>9. CASE Answer
  <2>1. Splits' /\ Released' /\ Called'
    BY <1>9 DEF Answer, Inv, Splits, Released, Called
  <2> QED
    BY <1>9, <2>1 DEF Answer, Inv
<1>10. CASE Return
  <2>1. Splits'
    BY <1>10 DEF Return, Splits
  <2> QED
    BY <1>10, <2>1 DEF Return, Inv, Released, Called
<1>11. ASSUME NEW p \in 1 .. Len(memory), Reuse(p) PROVE Inv'
  BY <1>11, ReuseStep
<1>12. CASE OutOfMemory
  <2>1. Splits'
    BY <1>12 DEF OutOfMemory, Inv, Splits
  <2> QED
    BY <1>12, <2>1 DEF OutOfMemory, Inv, Released, Called
<1>13. CASE UNCHANGED vars
  BY <1>13 DEF vars, Inv, Splits, Released, Called, Registered
<1> QED
  BY <1>1, <1>2, <1>3, <1>4, <1>5, <1>6, <1>7, <1>8, <1>9, <1>10, <1>11, <1>12, <1>13 DEF Next, Serve

\* So it always holds.
LEMMA InvAlways == Spec => []Inv
BY InvInit, InvStep, PTL DEF Spec

\* A handler is called only with as many arguments as it takes, and its name is
\* registered once, also when the words change after they were counted.
THEOREM HandlersGetArguments == Spec => []HandlerGetsItsArguments
<1>1. Inv => HandlerGetsItsArguments
  BY DEF Inv, Register, Called, NamesDistinct, HandlerGetsItsArguments
<1> QED
  BY <1>1, InvAlways, PTL

-----------------------------------------------------------------------------
(* The words that split finds.                                             *)

\* What is left of a text from the place p on, and that a word can start there.
Rest(s, p) == SubSeq(s, p, Len(s))
Boundary(s, p) == p = 1 \/ s[p - 1] = Sep

\* The words that start before p are found.
Before(s, p) == {j \in Tok!Starts(s) : j < p}
Found(s, ts, p) ==
  /\ ts \in Seq(Word) /\ Len(ts) = Cardinality(Before(s, p))
  /\ \A k \in 1 .. Len(ts) : ts[k] = Tok!WordsOf(s)[k]

\* A turn is to come, or the loop is to end, at the place p; w is what lies
\* between the last two separators.
Cutting(s, p, w, ts) ==
  /\ Boundary(s, p) /\ Found(s, ts, p)
  /\ w \in Word
  /\ p = 1 => w = <<>>
  /\ p > 1 => /\ Len(w) <= p - 2 /\ w = SubSeq(s, p - 1 - Len(w), p - 2)
              /\ Boundary(s, p - 1 - Len(w))

\* The last turn found no separator: all words are found, and none is lost.
Ended(s, p, w, ts) ==
  /\ w \in Word /\ w = Rest(s, p) /\ ts = Tok!WordsOf(s)
  /\ ~Tok!EndsTwice(s)

\* What split returns.
Result(s) ==
  IF Tok!EndsTwice(s) THEN SubSeq(Tok!WordsOf(s), 1, Len(Tok!WordsOf(s)) - 1) ELSE Tok!WordsOf(s)

SplitInv ==
  /\ text \in Texts \cup {<<>>}
  /\ word \in Word /\ tokens \in Seq(Word) /\ Len(word) <= Len(text)
  /\ \E p \in 1 .. Len(text) + 1 : /\ input = Rest(text, p)
                                   /\ pc = "split" => \/ Cutting(text, p, word, tokens)
                                                      \/ Ended(text, p, word, tokens)
  /\ pc \in {"init", "idle"} => text = <<>> /\ word = <<>> /\ tokens = <<>>
  /\ pc \notin {"init", "idle", "split"} =>
       /\ Len(tokens) <= Len(Tok!WordsOf(text))
       /\ pc # "crashed" => tokens = Result(text)

\* A part of a text, place by place.
LEMMA PartOf ==
  ASSUME NEW T, NEW s \in Seq(T), NEW a \in 1 .. Len(s) + 1, NEW b \in a - 1 .. Len(s)
  PROVE  /\ SubSeq(s, a, b) \in Seq(T) /\ Len(SubSeq(s, a, b)) = b - a + 1
         /\ \A i \in 1 .. b - a + 1 : SubSeq(s, a, b)[i] = s[a + i - 1]
<1>1. Len(s) \in Nat
  OBVIOUS
<1>2. \A i \in a .. b : s[i] \in T
  BY <1>1
<1>3. SubSeq(s, a, b) \in Seq(T) /\ Len(SubSeq(s, a, b)) = b - a + 1
  BY <1>1, <1>2, SubSeqProperties
<1>4. \A i \in 1 .. b - a + 1 : SubSeq(s, a, b)[i] = s[a + i - 1]
  BY <1>1, SMTT(30)
<1> QED
  BY <1>3, <1>4

\* A text without a separator is a word.
LEMMA IsWord ==
  ASSUME NEW s \in Seq(Chars)
  PROVE  s \in Word <=> \A i \in 1 .. Len(s) : s[i] # Sep
<1>1. ASSUME \A i \in 1 .. Len(s) : s[i] # Sep PROVE s \in Word
  <2>1. s = [i \in 1 .. Len(s) |-> s[i]] /\ Len(s) \in Nat
    OBVIOUS
  <2>2. \A i \in 1 .. Len(s) : s[i] \in Chars \ {Sep}
    BY <1>1
  <2>3. [i \in 1 .. Len(s) |-> s[i]] \in Seq(Chars \ {Sep})
    BY <2>1, <2>2
  <2> QED
    BY <2>1, <2>3, Zenon DEF Word
<1>2. ASSUME s \in Word, NEW i \in 1 .. Len(s) PROVE s[i] # Sep
  <2>1. s[i] \in Chars \ {Sep}
    BY <1>2 DEF Word
  <2> QED
    BY <2>1
<1> QED
  BY <1>1, <1>2

\* A word is a text.
LEMMA WordsAreTexts == ASSUME NEW w \in Word PROVE w \in Seq(Chars) /\ Len(w) \in Nat
<1>1. w \in Seq(Chars \ {Sep})
  BY DEF Word
<1>2. w \in Seq(Chars)
  BY <1>1, SeqMonotonic
<1> QED
  BY <1>2

\* The instance of Tokenizer has the same cardinalities.
LEMMA SameCardinality == \A S : Tok!Cardinality(S) = Cardinality(S)
BY DEF Tok!Cardinality, Cardinality

\* There are finitely many starts.
LEMMA StartsFinite ==
  ASSUME NEW s \in Seq(Chars), NEW p
  PROVE  /\ IsFiniteSet(Tok!Starts(s)) /\ Cardinality(Tok!Starts(s)) \in Nat
         /\ IsFiniteSet(Before(s, p)) /\ Cardinality(Before(s, p)) \in Nat
<1>1. Tok!Starts(s) \in SUBSET (1 .. Len(s)) /\ Before(s, p) \in SUBSET Tok!Starts(s) /\ Len(s) \in Int
  BY DEF Tok!Starts, Before
<1>2. IsFiniteSet(1 .. Len(s))
  BY <1>1, FS_Interval
<1>3. IsFiniteSet(Tok!Starts(s))
  BY <1>1, <1>2, FS_Subset
<1>4. IsFiniteSet(Before(s, p))
  BY <1>1, <1>3, FS_Subset
<1> QED
  BY <1>3, <1>4, FS_CardinalityType

\* A later word has more words before it.
LEMMA LaterMore ==
  ASSUME NEW s \in Seq(Chars), NEW i \in Tok!Starts(s), NEW j \in Tok!Starts(s), i < j
  PROVE  Cardinality(Before(s, i)) < Cardinality(Before(s, j))
<1>1. i \in Nat /\ j \in Nat /\ \A k \in Tok!Starts(s) : k \in Nat
  BY DEF Tok!Starts
<1>2. i \notin Before(s, i) /\ (Before(s, i) \cup {i}) \in SUBSET Before(s, j)
  <2>1. i \notin Before(s, i)
    BY <1>1 DEF Before
  <2>2. ASSUME NEW k \in Before(s, i) PROVE k \in Before(s, j)
    BY <1>1 DEF Before
  <2>3. i \in Before(s, j)
    BY DEF Before
  <2> QED
    BY <2>1, <2>2, <2>3
<1>3. Cardinality(Before(s, i) \cup {i}) = Cardinality(Before(s, i)) + 1
  BY <1>2, StartsFinite, FS_AddElement
<1>4. Cardinality(Before(s, i) \cup {i}) <= Cardinality(Before(s, j))
  BY <1>2, StartsFinite, FS_Subset
<1> QED
  BY <1>3, <1>4, StartsFinite

\* A word is the one after those that start before it.
LEMMA Ranked ==
  ASSUME NEW s \in Seq(Chars), NEW i \in Tok!Starts(s)
  PROVE  /\ Cardinality(Before(s, i)) + 1 \in 1 .. Cardinality(Tok!Starts(s))
         /\ Tok!WordsOf(s)[Cardinality(Before(s, i)) + 1] = Tok!WordAt(s, i)
<1> DEFINE k == Cardinality(Before(s, i)) + 1
           P(j) == Tok!Cardinality({h \in Tok!Starts(s) : h < j}) = k - 1
<1>1. k \in Nat /\ k - 1 = Cardinality(Before(s, i))
  BY StartsFinite
<1>0. P(i)
  <2>1. {h \in Tok!Starts(s) : h < i} = Before(s, i)
    BY DEF Before
  <2> QED
    BY <1>1, <2>1, SameCardinality
<1>2. k \in 1 .. Cardinality(Tok!Starts(s))
  <2>1. i \notin Before(s, i) /\ (Before(s, i) \cup {i}) \in SUBSET Tok!Starts(s)
    BY DEF Before, Tok!Starts
  <2>2. Cardinality(Before(s, i) \cup {i}) = k
    BY <2>1, StartsFinite, FS_AddElement
  <2>3. k <= Cardinality(Tok!Starts(s))
    BY <2>1, <2>2, StartsFinite, FS_Subset
  <2> QED
    BY <1>1, <2>3, StartsFinite
<1>3. ASSUME NEW j \in Tok!Starts(s), P(j) PROVE j = i
  <2>1. Cardinality(Before(s, j)) = Cardinality(Before(s, i))
    <3>1. {h \in Tok!Starts(s) : h < j} = Before(s, j)
      BY DEF Before
    <3> QED
      BY <1>1, <1>3, <3>1, SameCardinality
  <2>2. i \in Nat /\ j \in Nat
    BY DEF Tok!Starts
  <2>3. ~(i < j) /\ ~(j < i)
    BY <2>1, LaterMore, StartsFinite
  <2> QED
    BY <2>2, <2>3
<1>4. (CHOOSE j \in Tok!Starts(s) : P(j)) = i
  <2> HIDE DEF P
  <2> QED
    BY <1>0, <1>3
<1>5. Tok!WordsOf(s)[k] = Tok!WordAt(s, CHOOSE j \in Tok!Starts(s) : P(j))
  <2> HIDE DEF k
  <2>1. k \in 1 .. Tok!Cardinality(Tok!Starts(s))
    BY <1>2, SameCardinality
  <2> QED
    BY <2>1 DEF Tok!WordsOf
<1> QED
  BY <1>2, <1>4, <1>5

\* There is one word for each start.
LEMMA OneForEach ==
  ASSUME NEW s \in Seq(Chars)
  PROVE  Len(Tok!WordsOf(s)) = Cardinality(Tok!Starts(s)) /\ DOMAIN Tok!WordsOf(s) = 1 .. Cardinality(Tok!Starts(s))
<1>1. Tok!Cardinality(Tok!Starts(s)) = Cardinality(Tok!Starts(s)) /\ Cardinality(Tok!Starts(s)) \in Nat
  BY SameCardinality, StartsFinite
<1>2. DOMAIN Tok!WordsOf(s) = 1 .. Cardinality(Tok!Starts(s))
  BY <1>1 DEF Tok!WordsOf
<1> QED
  BY <1>1, <1>2

\* What is left of a text, place by place.
LEMMA RestType ==
  ASSUME NEW s \in Seq(Chars), NEW p \in 1 .. Len(s) + 1
  PROVE  /\ Rest(s, p) \in Seq(Chars) /\ Len(Rest(s, p)) = Len(s) - p + 1
         /\ \A i \in 1 .. Len(s) - p + 1 : Rest(s, p)[i] = s[p + i - 1]
BY PartOf DEF Rest

\* Where a turn goes on: behind the separator, or at the end.
LEMMA AfterRest ==
  ASSUME NEW s \in Seq(Chars), NEW p \in 1 .. Len(s) + 1, NEW i \in 1 .. Len(s) - p + 1
  PROVE  Tok!After(Rest(s, p), i) = Rest(s, p + i)
<1> DEFINE a == Rest(s, p)
           b == Rest(s, p + i)
           c == SubSeq(a, i + 1, Len(a))
<1>1. /\ a \in Seq(Chars) /\ Len(a) = Len(s) - p + 1 /\ Len(s) \in Nat
      /\ \A j \in 1 .. Len(s) - p + 1 : a[j] = s[p + j - 1]
  BY RestType
<1>2. p + i \in 1 .. Len(s) + 1
  BY <1>1
<1>3. /\ b \in Seq(Chars) /\ Len(b) = Len(s) - (p + i) + 1
      /\ \A j \in 1 .. Len(s) - (p + i) + 1 : b[j] = s[p + i + j - 1]
  BY <1>2, RestType
<1>4. Tok!After(a, i) = c
  BY <1>1 DEF Tok!After
<1> HIDE DEF a, b
<1>5. i + 1 \in 1 .. Len(a) + 1 /\ Len(a) \in (i + 1) - 1 .. Len(a)
  BY <1>1
<1>6. /\ c \in Seq(Chars) /\ Len(c) = Len(a) - (i + 1) + 1
      /\ \A j \in 1 .. Len(a) - (i + 1) + 1 : c[j] = a[(i + 1) + j - 1]
  BY <1>1, <1>5, PartOf
<1> HIDE DEF c
<1>7. ASSUME NEW j \in 1 .. Len(c) PROVE c[j] = b[j]
  <2>0. /\ j \in 1 .. Len(a) - (i + 1) + 1 /\ (i + 1) + j - 1 = i + j
        /\ i + j \in 1 .. Len(s) - p + 1 /\ p + (i + j) - 1 = p + i + j - 1
        /\ j \in 1 .. Len(s) - (p + i) + 1
    BY <1>1, <1>6
  <2>1. c[j] = a[i + j]
    BY <1>6, <2>0
  <2>2. a[i + j] = s[p + (i + j) - 1]
    BY <1>1, <2>0
  <2>3. b[j] = s[p + i + j - 1]
    BY <1>3, <2>0
  <2> QED
    BY <2>0, <2>1, <2>2, <2>3
<1>8. Len(c) = Len(b)
  BY <1>1, <1>3, <1>6
<1>9. c = b
  BY <1>3, <1>6, <1>7, <1>8, SeqEqual
<1> QED
  BY <1>4, <1>9 DEF a, b

\* Where the next separator is in what is left, the word that is cut off there,
\* the place where the next turn goes on, and the words with that word.
SepAt(s, p) == Tok!FirstSep(Rest(s, p))
WordCut(s, p) == SubSeq(Rest(s, p), 1, SepAt(s, p) - 1)
PlaceAfter(s, p) == IF SepAt(s, p) > Len(Rest(s, p)) THEN Len(s) + 1 ELSE p + SepAt(s, p)
Collected(ts, w) == IF w = <<>> THEN ts ELSE Append(ts, w)

\* A turn cuts the word at p, if there is one, and none starts behind it before
\* the place where the next turn goes on.
LEMMA Cut ==
  ASSUME NEW s \in Seq(Chars), NEW p \in 1 .. Len(s) + 1, Boundary(s, p)
  PROVE  /\ SepAt(s, p) \in 1 .. Len(Rest(s, p)) + 1
         /\ PlaceAfter(s, p) \in p .. Len(s) + 1
         /\ WordCut(s, p) \in Word /\ Len(WordCut(s, p)) = SepAt(s, p) - 1
         /\ \A j \in 1 .. SepAt(s, p) - 1 : WordCut(s, p)[j] = Rest(s, p)[j]
         /\ Before(s, PlaceAfter(s, p)) = Before(s, p) \cup (IF SepAt(s, p) = 1 THEN {} ELSE {p})
         /\ SepAt(s, p) # 1 => p \in Tok!Starts(s) /\ Tok!WordAt(s, p) = WordCut(s, p)
<1> DEFINE a == Rest(s, p)
           i == SepAt(s, p)
           e == PlaceAfter(s, p)
           n == WordCut(s, p)
<1>0. i = Tok!FirstSep(a) /\ n = SubSeq(a, 1, i - 1)
      /\ e = IF i > Len(a) THEN Len(s) + 1 ELSE p + i
  BY DEF SepAt, WordCut, PlaceAfter
<1> HIDE DEF i, e, n
<1>1. /\ a \in Seq(Chars) /\ Len(a) = Len(s) - p + 1 /\ Len(s) \in Nat
      /\ \A j \in 1 .. Len(s) - p + 1 : a[j] = s[p + j - 1]
  <2>1. Len(s) \in Nat
    OBVIOUS
  <2> QED
    BY <2>1, RestType, Zenon
<1>2. /\ i \in 1 .. Len(a) + 1
      /\ i <= Len(a) => a[i] = Sep
      /\ \A j \in 1 .. i - 1 : a[j] # Sep
  BY <1>0, <1>1, FirstSepIs
<1>3. e \in p .. Len(s) + 1
  <2> HIDE DEF a
  <2>1. Len(a) = Len(s) - p + 1 /\ Len(s) \in Nat /\ i \in 1 .. Len(a) + 1
    BY <1>1, <1>2
  <2>2. e = IF i > Len(a) THEN Len(s) + 1 ELSE p + i
    BY <1>0
  <2> QED
    BY <2>1, <2>2
<1>4. n \in Word /\ Len(n) = i - 1 /\ \A j \in 1 .. i - 1 : n[j] = a[j]
  <2> HIDE DEF a
  <2>1. i - 1 \in Nat /\ i - 1 <= Len(a)
    BY <1>1, <1>2
  <2>2. n \in Seq(Chars) /\ Len(n) = i - 1 /\ \A j \in 1 .. i - 1 : n[j] = a[j]
    BY <1>0, <1>1, <2>1, Beginning
  <2> QED
    BY <1>2, <2>2, IsWord
<1>5. i # 1 => p \in Tok!Starts(s) /\ p < e
  <2> SUFFICES ASSUME i # 1 PROVE p \in Tok!Starts(s) /\ p < e
    OBVIOUS
  <2>1. a[1] # Sep /\ a[1] = s[p] /\ p \in 1 .. Len(s)
    BY <1>1, <1>2
  <2>2. p > 1 => s[p - 1] = Sep
    BY DEF Boundary
  <2>3. p \in Tok!Starts(s)
    BY <2>1, <2>2 DEF Tok!Starts
  <2>4. p < e
    BY <1>0, <1>1, <1>2
  <2> QED
    BY <2>3, <2>4
<1>6. ASSUME NEW j \in Tok!Starts(s), j < e, j >= p PROVE j = p /\ i # 1
  <2>1. j \in 1 .. Len(s) /\ s[j] # Sep /\ (j > 1 => s[j - 1] = Sep)
    BY DEF Tok!Starts
  <2> DEFINE m == j - p + 1
  <2>2. m \in 1 .. Len(a) /\ a[m] = s[j]
    <3>1. m \in 1 .. Len(a) /\ p + m - 1 = j
      BY <1>1, <1>6, <2>1
    <3>2. a[m] = s[p + m - 1]
      BY <1>1, <3>1
    <3> QED
      BY <3>1, <3>2
  <2>3. m < i
    <3>1. CASE i > Len(a)
      BY <1>1, <1>2, <2>2, <3>1
    <3>2. CASE i <= Len(a)
      <4>1. j < p + i /\ m # i
        <5>1. j < e /\ e = p + i
          BY <1>0, <1>1, <1>2, <1>6, <3>2
        <5>2. m # i
          BY <1>2, <2>1, <2>2, <3>2
        <5> QED
          BY <5>1, <5>2
      <4> QED
        BY <1>2, <2>1, <4>1
    <3> QED
      BY <1>1, <1>2, <3>1, <3>2
  <2>4. m # 1 => m - 1 \in 1 .. i - 1 /\ a[m - 1] = s[j - 1] /\ j > 1
    BY <1>1, <1>2, <2>1, <2>2, <2>3
  <2>5. m = 1
    BY <1>2, <2>1, <2>4
  <2> QED
    BY <2>1, <2>3, <2>5
<1>7. Before(s, e) = Before(s, p) \cup (IF i = 1 THEN {} ELSE {p})
  <2>1. ASSUME NEW j \in Before(s, e) PROVE j \in Before(s, p) \cup (IF i = 1 THEN {} ELSE {p})
    <3>1. j \in Tok!Starts(s) /\ j < e /\ j \in Nat
      BY DEF Before, Tok!Starts
    <3>2. CASE j < p
      BY <3>1, <3>2 DEF Before
    <3>3. CASE j >= p
      BY <1>6, <3>1, <3>3
    <3> QED
      BY <3>1, <3>2, <3>3
  <2>2. ASSUME NEW j \in Before(s, p) PROVE j \in Before(s, e)
    <3>1. j \in Tok!Starts(s) /\ j < p /\ j \in Nat
      BY DEF Before, Tok!Starts
    <3>2. j < e
      BY <1>1, <1>3, <3>1
    <3> QED
      BY <3>1, <3>2 DEF Before
  <2>3. i # 1 => p \in Before(s, e)
    BY <1>5 DEF Before
  <2> QED
    BY <2>1, <2>2, <2>3
<1>8. Tok!WordAt(s, p) = n
  BY <1>0 DEF Tok!WordAt, Rest
<1> QED
  BY <1>2, <1>3, <1>4, <1>5, <1>7, <1>8 DEF i, e, n

\* With the word at p, if there is one, the words before e are found.
LEMMA Grows ==
  ASSUME NEW s \in Seq(Chars), NEW p \in 1 .. Len(s) + 1, NEW e, NEW ts, NEW w \in Word,
         Found(s, ts, p),
         NEW none \in BOOLEAN,
         Before(s, e) = Before(s, p) \cup (IF none THEN {} ELSE {p}),
         ~none => p \in Tok!Starts(s) /\ Tok!WordAt(s, p) = w
  PROVE  Found(s, IF none THEN ts ELSE Append(ts, w), e)
<1>1. CASE none
  <2>1. Before(s, e) = Before(s, p)
    BY <1>1
  <2> QED
    BY <1>1, <2>1 DEF Found
<1>2. CASE ~none
  <2> DEFINE us == Append(ts, w)
             K == Cardinality(Before(s, p))
  <2>1. /\ ts \in Seq(Word) /\ Len(ts) = K /\ K \in Nat
        /\ \A k \in 1 .. Len(ts) : ts[k] = Tok!WordsOf(s)[k]
    BY StartsFinite DEF Found
  <2>2. Cardinality(Before(s, e)) = K + 1
    <3>1. p \notin Before(s, p) /\ Before(s, e) = Before(s, p) \cup {p}
      BY <1>2 DEF Before
    <3> QED
      BY <3>1, StartsFinite, FS_AddElement
  <2>3. Tok!WordsOf(s)[K + 1] = w
    BY <1>2, Ranked
  <2> HIDE DEF K
  <2>4. us \in Seq(Word) /\ Len(us) = K + 1 /\ us[K + 1] = w /\ \A k \in 1 .. K : us[k] = ts[k]
    BY <2>1
  <2> HIDE DEF us
  <2>5. ASSUME NEW k \in 1 .. Len(us) PROVE us[k] = Tok!WordsOf(s)[k]
    <3>1. CASE k = K + 1
      BY <2>3, <2>4, <3>1
    <3>2. CASE k # K + 1
      <4>1. k \in 1 .. K
        BY <2>1, <2>4, <3>2
      <4> QED
        BY <2>1, <2>4, <4>1
    <3> QED
      BY <3>1, <3>2
  <2>6. Found(s, us, e)
    BY <2>2, <2>4, <2>5 DEF Found
  <2> QED
    BY <1>2, <2>6 DEF us
<1> QED
  BY <1>1, <1>2

\* Words that are found are words of the text.
LEMMA FoundFew ==
  ASSUME NEW s \in Seq(Chars), NEW p, NEW ts, Found(s, ts, p)
  PROVE  ts \in Seq(Word) /\ Len(ts) <= Len(Tok!WordsOf(s)) /\ Len(Tok!WordsOf(s)) \in Nat
<1>1. Before(s, p) \in SUBSET Tok!Starts(s)
  BY DEF Before
<1>2. Cardinality(Before(s, p)) <= Cardinality(Tok!Starts(s)) /\ Cardinality(Tok!Starts(s)) \in Nat
  BY <1>1, StartsFinite, FS_Subset
<1> QED
  BY <1>2, OneForEach DEF Found

\* At the end of the text all words are found.
LEMMA FoundAll ==
  ASSUME NEW s \in Seq(Chars), NEW ts, Found(s, ts, Len(s) + 1)
  PROVE  ts = Tok!WordsOf(s)
<1>1. Before(s, Len(s) + 1) = Tok!Starts(s)
  <2>1. \A j \in Tok!Starts(s) : j < Len(s) + 1
    BY DEF Tok!Starts
  <2> QED
    BY <2>1 DEF Before
<1>2. /\ ts \in Seq(Word) /\ Len(ts) = Cardinality(Tok!Starts(s))
      /\ \A k \in 1 .. Len(ts) : ts[k] = Tok!WordsOf(s)[k]
  BY <1>1 DEF Found
<1> DEFINE ws == Tok!WordsOf(s)
           N == Cardinality(Tok!Starts(s))
<1>3. DOMAIN ws = 1 .. N /\ ws = [k \in 1 .. N |-> ws[k]]
  <2>1. ws = [k \in DOMAIN ws |-> ws[k]]
    BY DEF Tok!WordsOf
  <2> QED
    BY <2>1, OneForEach
<1>4. ts = [k \in 1 .. N |-> ts[k]]
  BY <1>2
<1> HIDE DEF ws, N
<1>5. \A k \in 1 .. N : ts[k] = ws[k]
  BY <1>2 DEF ws, N
<1>6. ts = ws
  BY <1>3, <1>4, <1>5
<1> QED
  BY <1>6 DEF ws

\* All but the last, if that starts at p.
LEMMA FoundButOne ==
  ASSUME NEW s \in Seq(Chars), NEW p \in Tok!Starts(s), NEW ts, Found(s, ts, p),
         Before(s, Len(s) + 1) = Before(s, p) \cup {p}
  PROVE  ts = SubSeq(Tok!WordsOf(s), 1, Len(Tok!WordsOf(s)) - 1)
<1> DEFINE w == Tok!WordAt(s, p)
           us == Append(ts, w)
<1>1. ts \in Seq(Word) /\ Len(ts) = Cardinality(Before(s, p)) /\ Len(ts) \in Nat
      /\ \A k \in 1 .. Len(ts) : ts[k] = Tok!WordsOf(s)[k]
  BY StartsFinite DEF Found
<1>2. p \notin Before(s, p) /\ Before(s, Len(s) + 1) = Tok!Starts(s)
  <2>1. (\A j \in Tok!Starts(s) : j < Len(s) + 1) /\ ~(p < p)
    BY DEF Tok!Starts
  <2> QED
    BY <2>1 DEF Before
<1>3. Len(Tok!WordsOf(s)) = Len(ts) + 1
  <2>1. Cardinality(Before(s, p) \cup {p}) = Len(ts) + 1
    BY <1>1, <1>2, StartsFinite, FS_AddElement
  <2> QED
    BY <1>2, <2>1, OneForEach
<1> DEFINE vs == SubSeq(Tok!WordsOf(s), 1, Len(Tok!WordsOf(s)) - 1)
<1>4. \A k \in 1 .. Len(ts) : Tok!WordsOf(s)[k] \in Word
  BY <1>1
<1>5. vs = SubSeq(Tok!WordsOf(s), 1, Len(ts))
  BY <1>1, <1>3
<1>6. vs \in Seq(Word) /\ Len(vs) = Len(ts)
  BY <1>1, <1>4, <1>5, SubSeqProperties
<1>7. \A k \in 1 .. Len(ts) : vs[k] = Tok!WordsOf(s)[k]
  BY <1>1, <1>5
<1> HIDE DEF vs
<1>8. ts = vs
  BY <1>1, <1>6, <1>7, SeqEqual
<1> QED
  BY <1>8 DEF vs

\* A word, a separator and the word once more, place by place.
LEMMA TwiceType ==
  ASSUME NEW v \in Seq(Chars)
  PROVE  /\ v \o <<Sep>> \o v \in Seq(Chars) /\ Len(v \o <<Sep>> \o v) = 2 * Len(v) + 1
         /\ \A k \in 1 .. Len(v) : /\ (v \o <<Sep>> \o v)[k] = v[k]
                                   /\ (v \o <<Sep>> \o v)[Len(v) + 1 + k] = v[k]
         /\ (v \o <<Sep>> \o v)[Len(v) + 1] = Sep
<1> DEFINE x == v \o <<Sep>>
           y == x \o v
           L == Len(v)
<1>1. L \in Nat /\ <<Sep>> \in Seq(Chars) /\ Len(<<Sep>>) = 1 /\ <<Sep>>[1] = Sep
  BY CommandAssumption
<1>2. /\ x \in Seq(Chars) /\ Len(x) = L + 1
      /\ \A k \in 1 .. L + 1 : x[k] = IF k <= L THEN v[k] ELSE Sep
  BY <1>1
<1> HIDE DEF x
<1>3. /\ y \in Seq(Chars) /\ Len(y) = 2 * L + 1
      /\ \A k \in 1 .. 2 * L + 1 : y[k] = IF k <= L + 1 THEN x[k] ELSE v[k - (L + 1)]
  BY <1>1, <1>2
<1> HIDE DEF y
<1>4. \A k \in 1 .. L : y[k] = v[k] /\ y[L + 1 + k] = v[k]
  <2> TAKE k \in 1 .. L
  <2>1. k \in 1 .. 2 * L + 1 /\ k \in 1 .. L + 1 /\ L + 1 + k \in 1 .. 2 * L + 1 /\ (L + 1 + k) - (L + 1) = k
    BY <1>1
  <2> QED
    BY <1>1, <1>2, <1>3, <2>1
<1>5. y[L + 1] = Sep
  BY <1>1, <1>2, <1>3
<1> QED
  BY <1>3, <1>4, <1>5 DEF x, y

\* What the last word w before p is, place by place.
LEMMA LastWord ==
  ASSUME NEW s \in Seq(Chars), NEW p \in 2 .. Len(s) + 1, NEW w, NEW ts, Cutting(s, p, w, ts)
  PROVE  /\ s[p - 1] = Sep /\ w \in Seq(Chars) /\ Len(w) \in 0 .. p - 2
         /\ \A k \in 1 .. Len(w) : w[k] # Sep /\ w[k] = s[p - 2 - Len(w) + k]
         /\ Boundary(s, p - 1 - Len(w))
<1> DEFINE L == Len(w)
<1>1. /\ s[p - 1] = Sep /\ w \in Word /\ Len(s) \in Nat
      /\ L <= p - 2 /\ w = SubSeq(s, p - 1 - L, p - 2) /\ Boundary(s, p - 1 - L)
  BY DEF Cutting, Boundary
<1>2. w \in Seq(Chars) /\ L \in Nat /\ \A k \in 1 .. L : w[k] # Sep
  BY <1>1, IsWord, WordsAreTexts
<1> HIDE DEF L
<1>3. p - 1 - L \in 1 .. Len(s) + 1 /\ p - 2 \in (p - 1 - L) - 1 .. Len(s)
  BY <1>1, <1>2
<1>4. \A k \in 1 .. (p - 2) - (p - 1 - L) + 1 : SubSeq(s, p - 1 - L, p - 2)[k] = s[(p - 1 - L) + k - 1]
  BY <1>3, PartOf
<1>5. \A k \in 1 .. L : w[k] = s[p - 2 - L + k]
  <2> TAKE k \in 1 .. L
  <2>1. (p - 2) - (p - 1 - L) + 1 = L /\ (p - 1 - L) + k - 1 = p - 2 - L + k
    BY <1>2
  <2> QED
    BY <1>1, <1>4, <2>1
<1>6. L \in 0 .. p - 2
  BY <1>1, <1>2
<1> QED
  BY <1>1, <1>2, <1>5, <1>6, Zenon DEF L

\* If what is left is the word before it, the text ends with it twice.
LEMMA Repeated ==
  ASSUME NEW s \in Seq(Chars), NEW p \in 1 .. Len(s) + 1, NEW w, NEW ts, Cutting(s, p, w, ts),
         w = Rest(s, p), w # <<>>
  PROVE  Tok!EndsTwice(s) /\ p \in Tok!Starts(s)
<1> DEFINE L == Len(w)
           from == Len(s) - 2 * L
           c == SubSeq(s, from, Len(s))
           d == w \o <<Sep>> \o w
<1>1. p > 1
  BY DEF Cutting
<1>2. /\ s[p - 1] = Sep /\ w \in Seq(Chars) /\ L \in 0 .. p - 2
      /\ \A k \in 1 .. L : w[k] # Sep /\ w[k] = s[p - 2 - L + k]
      /\ Boundary(s, p - 1 - L)
  BY <1>1, LastWord
<1>3. L = Len(s) - p + 1 /\ L >= 1 /\ Len(s) \in Nat /\ \A k \in 1 .. L : w[k] = s[p + k - 1]
  <2>1. Len(w) = Len(s) - p + 1 /\ \A k \in 1 .. Len(s) - p + 1 : w[k] = s[p + k - 1]
    BY RestType, Zenon
  <2>2. Len(w) >= 1 /\ Len(s) \in Nat
    BY <1>2
  <2> QED
    BY <2>1, <2>2
<1>4. p \in Tok!Starts(s)
  <2>1. p \in 1 .. Len(s) /\ w[1] = s[p] /\ w[1] # Sep
    BY <1>1, <1>2, <1>3
  <2> QED
    BY <1>2, <2>1 DEF Tok!Starts
<1>5. from = p - 1 - L /\ from \in 1 .. Len(s)
  BY <1>2, <1>3
<1>6. from \in Tok!Starts(s)
  <2>1. s[from] = w[1] /\ w[1] # Sep
    BY <1>2, <1>3, <1>5
  <2>2. from > 1 => s[from - 1] = Sep
    BY <1>2, <1>5 DEF Boundary
  <2> QED
    BY <1>5, <2>1, <2>2 DEF Tok!Starts
<1>7. c \in Seq(Chars) /\ Len(c) = 2 * L + 1 /\ \A k \in 1 .. 2 * L + 1 : c[k] = s[from + k - 1]
  <2>1. from \in 1 .. Len(s) + 1 /\ Len(s) \in from - 1 .. Len(s) /\ Len(s) - from + 1 = 2 * L + 1
    BY <1>3, <1>5
  <2> HIDE DEF from, L
  <2> QED
    BY <2>1, PartOf
<1>8. /\ d \in Seq(Chars) /\ Len(d) = 2 * L + 1 /\ d[L + 1] = Sep
      /\ \A k \in 1 .. L : d[k] = w[k] /\ d[L + 1 + k] = w[k]
  BY <1>2, TwiceType
<1> HIDE DEF c, d
<1>9. ASSUME NEW k \in 1 .. 2 * L + 1 PROVE c[k] = d[k]
  <2>1. CASE k <= L
    <3>1. k \in 1 .. L /\ from + k - 1 = p - 2 - L + k
      BY <1>3, <1>5, <2>1
    <3> HIDE DEF from, L
    <3> QED
      BY <1>2, <1>7, <1>8, <3>1
  <2>2. CASE k = L + 1
    <3>1. from + k - 1 = p - 1
      BY <1>3, <1>5, <2>2
    <3> HIDE DEF from, L
    <3> QED
      BY <1>2, <1>7, <1>8, <2>2, <3>1
  <2>3. CASE k > L + 1
    <3> DEFINE m == k - (L + 1)
    <3>1. m \in 1 .. L /\ k = L + 1 + m /\ from + k - 1 = p + m - 1
      BY <1>3, <1>5, <2>3
    <3> HIDE DEF from, L, m
    <3>2. c[k] = s[p + m - 1]
      BY <1>7, <3>1
    <3>3. d[k] = w[m]
      BY <1>8, <3>1
    <3>4. w[m] = s[p + m - 1]
      BY <1>3, <3>1
    <3> QED
      BY <3>2, <3>3, <3>4
  <2> HIDE DEF from
  <2>4. L \in Nat /\ k \in Nat
    BY <1>2
  <2> HIDE DEF L
  <2> QED
    BY <2>1, <2>2, <2>3, <2>4
<1>10. c = d
  BY <1>7, <1>8, <1>9, SeqEqual
<1>11. w \in {SubSeq(s, i, Len(s)) : i \in Tok!Starts(s)}
  BY <1>4 DEF Rest
<1> QED
  BY <1>2, <1>4, <1>6, <1>10, <1>11 DEF Tok!EndsTwice, c, d

\* If the text ends with a word twice, that is what is left and the word before it.
LEMMA OnlyRepeated ==
  ASSUME NEW s \in Seq(Chars), NEW p \in 1 .. Len(s) + 1, NEW w, NEW ts, Cutting(s, p, w, ts),
         Rest(s, p) \in Word, Tok!EndsTwice(s)
  PROVE  w = Rest(s, p) /\ w # <<>>
<1>1. PICK b \in Tok!Starts(s) :
        LET v == SubSeq(s, b, Len(s))
            from == Len(s) - 2 * Len(v)
        IN  /\ \A k \in 1 .. Len(v) : v[k] # Sep
            /\ from \in Tok!Starts(s)
            /\ SubSeq(s, from, Len(s)) = v \o <<Sep>> \o v
  BY DEF Tok!EndsTwice
<1> DEFINE v == SubSeq(s, b, Len(s))
           L == Len(v)
           from == Len(s) - 2 * L
           c == SubSeq(s, from, Len(s))
           d == v \o <<Sep>> \o v
<1>2. /\ b \in 1 .. Len(s) /\ from \in 1 .. Len(s) /\ Len(s) \in Nat
      /\ from > 1 => s[from - 1] = Sep
      /\ \A k \in 1 .. L : v[k] # Sep
      /\ c = d
  <2>1. from \in Tok!Starts(s) /\ c = d /\ \A k \in 1 .. L : v[k] # Sep
    BY <1>1
  <2> HIDE DEF from, c, d, v
  <2> QED
    BY <2>1 DEF Tok!Starts
<1>3. v \in Seq(Chars) /\ L = Len(s) - b + 1 /\ L >= 1 /\ \A k \in 1 .. L : v[k] = s[b + k - 1]
  <2>1. b \in 1 .. Len(s) + 1 /\ Len(s) \in b - 1 .. Len(s)
    BY <1>2
  <2>2. /\ v \in Seq(Chars) /\ L = Len(s) - b + 1
        /\ \A k \in 1 .. Len(s) - b + 1 : v[k] = s[b + k - 1]
    BY <2>1, PartOf, Zenon
  <2>3. Len(s) - b + 1 >= 1
    BY <1>2
  <2> QED
    BY <2>2, <2>3, Zenon
<1>4. b - 1 = from + L
  BY <1>2, <1>3, SMTT(30)
<1> HIDE DEF v
<1>5. d[L + 1] = Sep /\ \A k \in 1 .. L : d[k] = v[k]
  BY <1>3, TwiceType
<1>6. \A k \in 1 .. 2 * L + 1 : c[k] = s[from + k - 1]
  <2>1. from \in 1 .. Len(s) + 1 /\ Len(s) \in from - 1 .. Len(s) /\ Len(s) - from + 1 = 2 * L + 1
    BY <1>2, <1>3
  <2> HIDE DEF from, L
  <2> QED
    BY <2>1, PartOf
<1> HIDE DEF c, d
<1>7. s[b - 1] = Sep /\ \A k \in 1 .. L : s[from + k - 1] = v[k]
  <2>1. L \in Nat /\ from \in Nat /\ L + 1 \in 1 .. 2 * L + 1
    BY <1>2, <1>3
  <2> HIDE DEF L, from
  <2>2. s[from + (L + 1) - 1] = Sep
    BY <1>2, <1>5, <1>6, <2>1
  <2>3. from + (L + 1) - 1 = b - 1
    BY <1>2, <1>4, <2>1
  <2>4. ASSUME NEW k \in 1 .. L PROVE s[from + k - 1] = v[k]
    <3>1. k \in 1 .. 2 * L + 1
      BY <2>1
    <3> QED
      BY <1>2, <1>5, <1>6, <3>1
  <2> QED
    BY <2>2, <2>3, <2>4
<1>8. \A j \in p .. Len(s) : s[j] # Sep
  <2> TAKE j \in p .. Len(s)
  <2>1. j - p + 1 \in 1 .. Len(s) - p + 1 /\ p + (j - p + 1) - 1 = j
    BY <1>2
  <2>2. Rest(s, p)[j - p + 1] = s[j]
    BY <2>1, RestType
  <2> QED
    BY <2>1, <2>2, RestType, IsWord
<1>9. \A j \in b .. Len(s) : s[j] # Sep
  <2> TAKE j \in b .. Len(s)
  <2>1. j - b + 1 \in 1 .. L /\ b + (j - b + 1) - 1 = j
    BY <1>2, <1>3
  <2> HIDE DEF L
  <2> QED
    BY <1>2, <1>3, <2>1
<1>10. p = b
  <2>1. p <= b
    <3> SUFFICES ASSUME p > b PROVE FALSE
      BY <1>2
    <3>1. s[p - 1] = Sep /\ p - 1 \in b .. Len(s)
      BY <1>2 DEF Cutting, Boundary
    <3> QED
      BY <1>9, <3>1
  <2>2. p > b - 1
    <3> SUFFICES ASSUME p <= b - 1 PROVE FALSE
      BY <1>2
    <3> QED
      BY <1>2, <1>7, <1>8
  <2> QED
    BY <1>2, <2>1, <2>2
<1>11. p > 1
  BY <1>2, <1>3, <1>4, <1>10
<1>12. /\ w \in Seq(Chars) /\ Len(w) \in 0 .. p - 2
       /\ \A k \in 1 .. Len(w) : w[k] # Sep /\ w[k] = s[p - 2 - Len(w) + k]
       /\ Boundary(s, p - 1 - Len(w))
  BY <1>11, LastWord
<1>13. from = p - 1 - L
  BY <1>2, <1>3, <1>4, <1>10
<1>14. Len(w) \in Nat /\ L \in Nat /\ p \in Nat /\ from \in Nat /\ from = p - 1 - L
  BY <1>2, <1>3, <1>12, <1>13
<1>15. Len(w) = L
  <2>1. CASE Len(w) > L
    <3>1. from > 1 /\ Len(w) - L \in 1 .. Len(w)
      BY <1>2, <1>3, <1>12, <1>13, <2>1
    <3>2. p - 2 - Len(w) + (Len(w) - L) = from - 1
      <4> HIDE DEF L, from
      <4> QED
        BY <1>14
    <3> QED
      BY <1>2, <1>12, <3>1, <3>2
  <2>2. CASE Len(w) < L
    <3> DEFINE m == L - Len(w)
    <3>1. m \in 1 .. L /\ p - 1 - Len(w) > 1 /\ from + m - 1 = p - 1 - Len(w) - 1
      BY <1>2, <1>3, <1>12, <1>13, <2>2
    <3>2. s[p - 1 - Len(w) - 1] = Sep
      BY <1>12, <3>1 DEF Boundary
    <3> HIDE DEF m, from, L
    <3>3. v[m] = Sep
      BY <1>7, <3>1, <3>2
    <3> QED
      BY <1>2, <3>1, <3>3
  <2> HIDE DEF L, from
  <2> QED
    BY <1>14, <2>1, <2>2
<1>16. ASSUME NEW k \in 1 .. L PROVE w[k] = v[k]
  <2>1. p - 2 - Len(w) + k = from + k - 1
    BY <1>3, <1>12, <1>13, <1>15
  <2> HIDE DEF from, L
  <2> QED
    BY <1>7, <1>12, <1>15, <2>1
<1>17. w = v
  BY <1>3, <1>12, <1>15, <1>16, SeqEqual
<1>18. w # <<>>
  BY <1>3, <1>15
<1> QED
  BY <1>10, <1>17, <1>18 DEF v, Rest

\* A turn goes on behind the next separator, or finds the last word.
LEMMA TurnFinds ==
  ASSUME NEW s \in Seq(Chars), NEW p \in 1 .. Len(s) + 1, NEW w, NEW ts, Cutting(s, p, w, ts),
         w # Rest(s, p)
  PROVE  /\ WordCut(s, p) \in Word /\ Len(WordCut(s, p)) <= Len(s)
         /\ Collected(ts, WordCut(s, p)) \in Seq(Word)
         /\ \E e \in 1 .. Len(s) + 1 :
              /\ Tok!After(Rest(s, p), SepAt(s, p)) = Rest(s, e)
              /\ \/ Cutting(s, e, WordCut(s, p), Collected(ts, WordCut(s, p)))
                 \/ Ended(s, e, WordCut(s, p), Collected(ts, WordCut(s, p)))
<1> DEFINE a == Rest(s, p)
           i == SepAt(s, p)
           e == PlaceAfter(s, p)
           n == WordCut(s, p)
           us == Collected(ts, n)
<1>1. /\ a \in Seq(Chars) /\ Len(a) = Len(s) - p + 1 /\ Len(s) \in Nat
      /\ \A j \in 1 .. Len(s) - p + 1 : a[j] = s[p + j - 1]
  <2>1. Len(s) \in Nat
    OBVIOUS
  <2> QED
    BY <2>1, RestType, Zenon
<1>2. Boundary(s, p) /\ Found(s, ts, p) /\ ts \in Seq(Word)
  BY DEF Cutting, Found
<1>3. /\ i \in 1 .. Len(a) + 1 /\ e \in p .. Len(s) + 1
      /\ n \in Word /\ Len(n) = i - 1 /\ \A j \in 1 .. i - 1 : n[j] = a[j]
      /\ Before(s, e) = Before(s, p) \cup (IF i = 1 THEN {} ELSE {p})
      /\ i # 1 => p \in Tok!Starts(s) /\ Tok!WordAt(s, p) = n
  BY <1>2, Cut, Zenon
<1>4. /\ i <= Len(a) => a[i] = Sep
      /\ e = IF i > Len(a) THEN Len(s) + 1 ELSE p + i
  BY <1>1, FirstSepIs DEF SepAt, PlaceAfter
<1>0. us = IF n = <<>> THEN ts ELSE Append(ts, n)
  BY DEF Collected
<1> HIDE DEF a, i, e, n, us
<1>5. n \in Seq(Chars) /\ Len(n) \in Nat
  BY <1>3, WordsAreTexts
<1>6. n = <<>> <=> i = 1
  BY <1>3, <1>5
<1>7. Found(s, us, e) /\ us \in Seq(Word)
  <2> DEFINE none == i = 1
  <2>1. us = IF none THEN ts ELSE Append(ts, n)
    BY <1>0, <1>6
  <2>2. none \in BOOLEAN /\ Before(s, e) = Before(s, p) \cup (IF none THEN {} ELSE {p})
        /\ (~none => p \in Tok!Starts(s) /\ Tok!WordAt(s, p) = n)
    BY <1>3
  <2> HIDE DEF none
  <2>3. Found(s, us, e)
    BY <1>2, <1>3, <2>1, <2>2, Grows
  <2> QED
    BY <2>3 DEF Found
<1>8. CASE i <= Len(a)
  <2>1. e = p + i /\ e \in 1 .. Len(s) + 1 /\ i \in 1 .. Len(s) - p + 1
    BY <1>1, <1>3, <1>4, <1>8
  <2>2. Tok!After(a, i) = Rest(s, e)
    BY <2>1, AfterRest DEF a
  <2>3. Boundary(s, e)
    <3>1. s[p + i - 1] = Sep
      BY <1>1, <1>4, <1>8, <2>1
    <3> QED
      BY <2>1, <3>1 DEF Boundary
  <2> DEFINE c == SubSeq(s, p, e - 2)
  <2>4. c \in Seq(Chars) /\ Len(c) = i - 1 /\ \A j \in 1 .. i - 1 : c[j] = s[p + j - 1]
    <3>1. e - 2 \in p - 1 .. Len(s) /\ (e - 2) - p + 1 = i - 1
      <4>1. i >= 1 /\ i \in Int /\ p \in Int
        BY <1>3
      <4> QED
        BY <1>1, <2>1, <4>1
    <3> QED
      BY <3>1, PartOf
  <2> HIDE DEF c
  <2>5. n = c
    <3>1. \A j \in 1 .. i - 1 : n[j] = c[j]
      <4> TAKE j \in 1 .. i - 1
      <4>1. j \in 1 .. Len(s) - p + 1
        BY <2>1
      <4> QED
        BY <1>1, <1>3, <2>4, <4>1
    <3> QED
      BY <1>3, <1>5, <2>4, <3>1, SeqEqual
  <2>6. e - 1 - Len(n) = p /\ Len(n) <= e - 2 /\ e > 1 /\ Len(n) <= Len(s)
    <3>1. i \in Nat \ {0} /\ p \in Nat \ {0} /\ Len(s) \in Nat
      BY <1>1, <1>3
    <3>2. Len(n) = i - 1 /\ e = p + i /\ i <= Len(s) - p + 1
      BY <1>1, <1>3, <2>1
    <3> QED
      BY <3>1, <3>2
  <2>7. Cutting(s, e, n, us)
    <3>1. n = SubSeq(s, e - 1 - Len(n), e - 2)
      BY <2>5, <2>6 DEF c
    <3>2. Boundary(s, e - 1 - Len(n))
      BY <1>2, <2>6
    <3>3. e # 1
      BY <2>1, <2>6
    <3> QED
      BY <1>3, <1>7, <2>3, <2>6, <3>1, <3>2, <3>3 DEF Cutting
  <2> QED
    BY <1>3, <1>7, <2>1, <2>2, <2>6, <2>7 DEF a, i, n, us
<1>9. CASE i > Len(a)
  <2>1. Tok!After(a, i) = a /\ e = Len(s) + 1 /\ Len(n) = Len(a) /\ Len(n) <= Len(s)
    BY <1>1, <1>3, <1>4, <1>5, <1>9 DEF Tok!After
  <2>2. n = a
    <3>1. \A j \in 1 .. Len(n) : n[j] = a[j]
      BY <1>3
    <3> QED
      BY <1>1, <1>5, <2>1, <3>1, SeqEqual
  <2>3. us = Tok!WordsOf(s)
    BY <1>7, <2>1, FoundAll
  <2>4. ~Tok!EndsTwice(s)
    <3>1. Rest(s, p) \in Word
      BY <1>3, <2>2 DEF a
    <3> QED
      BY <3>1, OnlyRepeated, Zenon
  <2>5. Ended(s, p, n, us)
    BY <1>3, <2>2, <2>3, <2>4 DEF Ended, a
  <2> QED
    BY <1>3, <1>7, <2>1, <2>5 DEF a, i, n, us
<1>10. i <= Len(a) \/ i > Len(a)
  <2>1. i \in Int /\ Len(a) \in Int
    BY <1>1, <1>3
  <2> QED
    BY <2>1
<1> QED
  BY <1>8, <1>9, <1>10

\* The loop ends with the words of the text, or all but the last one.
LEMMA LoopEnds ==
  ASSUME NEW s \in Seq(Chars), NEW p \in 1 .. Len(s) + 1, NEW w, NEW ts,
         Cutting(s, p, w, ts) \/ Ended(s, p, w, ts), w = Rest(s, p)
  PROVE  ts = Result(s) /\ Len(ts) <= Len(Tok!WordsOf(s))
<1>1. CASE Ended(s, p, w, ts)
  <2>1. ts = Tok!WordsOf(s) /\ Len(Tok!WordsOf(s)) \in Nat /\ ~Tok!EndsTwice(s)
    BY <1>1, OneForEach, StartsFinite DEF Ended
  <2> QED
    BY <2>1 DEF Result
<1>2. CASE Cutting(s, p, w, ts)
  <2>1. w \in Word /\ Boundary(s, p) /\ Found(s, ts, p)
    BY <1>2 DEF Cutting
  <2>2. Len(ts) <= Len(Tok!WordsOf(s))
    BY <2>1, FoundFew
  <2>3. Len(w) = Len(s) - p + 1 /\ Len(s) \in Nat /\ w \in Seq(Chars)
    <3>1. Len(s) \in Nat
      OBVIOUS
    <3>2. Rest(s, p) \in Seq(Chars) /\ Len(Rest(s, p)) = Len(s) - p + 1
      BY RestType, Zenon
    <3> QED
      BY <3>1, <3>2, Zenon
  <2>4. CASE w = <<>>
    <3>1. p = Len(s) + 1
      BY <2>3, <2>4
    <3>2. ts = Tok!WordsOf(s)
      BY <2>1, <3>1, FoundAll
    <3>3. ~Tok!EndsTwice(s)
      BY <1>2, <2>1, <2>4, OnlyRepeated
    <3> QED
      BY <2>2, <3>2, <3>3 DEF Result
  <2>5. CASE w # <<>>
    <3>1. Tok!EndsTwice(s) /\ p \in Tok!Starts(s)
      BY <1>2, <2>5, Repeated
    <3> DEFINE i == SepAt(s, p)
               e == PlaceAfter(s, p)
    <3>2. /\ i \in 1 .. Len(w) + 1 /\ (i <= Len(w) => w[i] = Sep)
          /\ e = IF i > Len(w) THEN Len(s) + 1 ELSE p + i
      BY <2>3, FirstSepIs DEF SepAt, PlaceAfter
    <3>3. Before(s, e) = Before(s, p) \cup (IF i = 1 THEN {} ELSE {p})
      BY <2>1, Cut, Zenon
    <3> HIDE DEF i, e
    <3>4. i = Len(w) + 1 /\ i # 1
      BY <2>1, <2>3, <2>5, <3>2, IsWord
    <3>5. e = Len(s) + 1
      BY <2>3, <3>2, <3>4
    <3>6. Before(s, Len(s) + 1) = Before(s, p) \cup {p}
      BY <3>3, <3>4, <3>5
    <3>7. ts = SubSeq(Tok!WordsOf(s), 1, Len(Tok!WordsOf(s)) - 1)
      BY <2>1, <3>1, <3>6, FoundButOne
    <3> QED
      BY <2>2, <3>1, <3>7 DEF Result
  <2> QED
    BY <2>4, <2>5
<1> QED
  BY <1>1, <1>2

\* The text is one of characters.
LEMMA TextType == SplitInv => text \in Seq(Chars)
<1>1. <<>> \in Seq(Chars)
  OBVIOUS
<1> QED
  BY <1>1, CommandAssumption DEF SplitInv

\* Nothing is found of the empty text.
LEMMA NothingYet ==
  /\ <<>> \in Word /\ <<>> \in Seq(Word) /\ Len(<<>>) = 0
  /\ Rest(<<>>, 1) = <<>> /\ 1 \in 1 .. Len(<<>>) + 1
<1>1. \A S : <<>> \in Seq(S)
  OBVIOUS
<1>2. Rest(<<>>, 1) = <<>>
  BY <1>1, SubSeqEmpty DEF Rest
<1> QED
  BY <1>1, <1>2 DEF Word

\* It holds at first.
LEMMA SplitInit == Init => SplitInv
BY NothingYet DEF Init, SplitInv

\* While split is not running its variables stay, and so does what is said of them.
LEMMA SplitStays ==
  ASSUME SplitInv, UNCHANGED splitting, pc # "split",
         \/ pc' = pc
         \/ pc \in {"init", "idle"} /\ pc' \in {"idle", "crashed"}
         \/ pc \notin {"init", "idle", "split"} /\ pc' \in {"call", "done", "crashed"} /\ pc # "crashed"
  PROVE  SplitInv'
<1>1. UNCHANGED <<text, input, word, tokens>>
  BY DEF splitting
<1>2. CASE pc' = pc
  BY <1>1, <1>2 DEF SplitInv
<1>3. CASE pc \in {"init", "idle"} /\ pc' \in {"idle", "crashed"}
  <2>1. text = <<>> /\ tokens = <<>>
    BY <1>3 DEF SplitInv
  <2>2. Len(tokens) <= Len(Tok!WordsOf(text))
    BY <2>1, TextType, OneForEach, StartsFinite
  <2> QED
    BY <1>1, <1>3, <2>2 DEF SplitInv
<1>4. CASE pc \notin {"init", "idle", "split"} /\ pc' \in {"call", "done", "crashed"} /\ pc # "crashed"
  BY <1>1, <1>4 DEF SplitInv
<1> QED
  BY <1>2, <1>3, <1>4

\* Every step keeps it: split is given a text, takes a turn, ends, and is left.
LEMMA SplitStep == Inv /\ SplitInv /\ [Next]_vars => SplitInv'
<1> SUFFICES ASSUME Inv, SplitInv, [Next]_vars PROVE SplitInv'
  OBVIOUS
<1>0. text \in Seq(Chars) /\ Len(text) \in Nat
  BY TextType
<1>1. CASE InitCommands
  BY <1>1, SplitStays DEF InitCommands
<1>2. ASSUME NEW t \in Texts, Request(t) PROVE SplitInv'
  <2>1. text' = t /\ input' = t /\ word' = <<>> /\ tokens' = <<>> /\ pc' = "split"
    BY <1>2 DEF Request, SplitInv
  <2>2. t \in Seq(Chars) /\ Len(t) \in Nat
    BY CommandAssumption
  <2>3. Rest(t, 1) = t /\ 1 \in 1 .. Len(t) + 1
    BY <2>2 DEF Rest
  <2>4. Found(t, <<>>, 1)
    <3>1. Before(t, 1) = {}
      BY DEF Before, Tok!Starts
    <3>2. Cardinality(Before(t, 1)) = 0
      BY <3>1, FS_EmptySet, Zenon
    <3>3. 1 .. Len(<<>>) = {}
      BY NothingYet
    <3> QED
      BY <3>2, <3>3, NothingYet, Zenon DEF Found
  <2>5. Cutting(t, 1, <<>>, <<>>)
    BY <2>4, NothingYet DEF Cutting, Boundary
  <2> QED
    BY <2>1, <2>2, <2>3, <2>5, NothingYet DEF SplitInv
<1>3. ASSUME NEW n \in Names, AddCommand(n) PROVE SplitInv'
  BY <1>3, SplitStays DEF AddCommand
<1>4. ASSUME NEW n \in Names, RemoveCommand(n) PROVE SplitInv'
  BY <1>4, SplitStays DEF RemoveCommand
<1>5. CASE SplitTurn
  <2>1. PICK p \in 1 .. Len(text) + 1 : /\ input = Rest(text, p)
                                        /\ \/ Cutting(text, p, word, tokens)
                                           \/ Ended(text, p, word, tokens)
    BY <1>5 DEF SplitTurn, SplitInv
  <2>2. /\ pc' = "split" /\ text' = text /\ input # word
        /\ word' = WordCut(text, p)
        /\ input' = Tok!After(Rest(text, p), SepAt(text, p))
        /\ tokens' = Collected(tokens, WordCut(text, p))
    BY <1>5, <2>1 DEF SplitTurn, Tok!Turn, WordCut, SepAt, Collected
  <2>3. Cutting(text, p, word, tokens)
    BY <2>1, <2>2 DEF Ended
  <2>4. /\ word' \in Word /\ Len(word') <= Len(text) /\ tokens' \in Seq(Word)
        /\ \E e \in 1 .. Len(text) + 1 : /\ input' = Rest(text, e)
                                         /\ \/ Cutting(text, e, word', tokens')
                                            \/ Ended(text, e, word', tokens')
    BY <1>0, <2>1, <2>2, <2>3, TurnFinds
  <2> QED
    BY <2>2, <2>4 DEF SplitInv
<1>6. CASE Parse
  <2>1. PICK p \in 1 .. Len(text) + 1 : /\ input = Rest(text, p)
                                        /\ \/ Cutting(text, p, word, tokens)
                                           \/ Ended(text, p, word, tokens)
    BY <1>6 DEF Parse, SplitInv
  <2>2. input = word /\ pc' = "find" /\ UNCHANGED <<text, input, word, tokens>>
    BY <1>6 DEF Parse, splitting
  <2>3. tokens = Result(text) /\ Len(tokens) <= Len(Tok!WordsOf(text))
    BY <1>0, <2>1, <2>2, LoopEnds
  <2> QED
    BY <2>2, <2>3 DEF SplitInv
<1>7. CASE FindCommand
  BY <1>7, SplitStays DEF FindCommand, Dispatch
<1>8. CASE ReadArgument
  BY <1>8, SplitStays DEF ReadArgument
<1>9. CASE Answer
  BY <1>9, SplitStays DEF Answer
<1>10. CASE Return
  <2>1. text' = <<>> /\ input' = <<>> /\ word' = <<>> /\ tokens' = <<>> /\ pc' = "idle"
    BY <1>10 DEF Return
  <2> QED
    BY <2>1, NothingYet DEF SplitInv
<1>11. ASSUME NEW p \in 1 .. Len(memory), Reuse(p) PROVE SplitInv'
  BY <1>11, SplitStays DEF Reuse
<1>12. CASE OutOfMemory
  <2>1. pc \in {"split", "call"} /\ pc' = "crashed" /\ UNCHANGED splitting
    BY <1>12 DEF OutOfMemory
  <2>2. CASE pc = "call"
    BY <2>1, <2>2, SplitStays
  <2>3. CASE pc = "split"
    <3>1. PICK p \in 1 .. Len(text) + 1 : \/ Cutting(text, p, word, tokens)
                                          \/ Ended(text, p, word, tokens)
      BY <2>3 DEF SplitInv
    <3>2. ASSUME Cutting(text, p, word, tokens) PROVE Len(tokens) <= Len(Tok!WordsOf(text))
      BY <1>0, <3>2, FoundFew DEF Cutting
    <3>3. ASSUME Ended(text, p, word, tokens) PROVE Len(tokens) <= Len(Tok!WordsOf(text))
      <4>1. Len(Tok!WordsOf(text)) \in Nat
        BY <1>0, OneForEach, StartsFinite
      <4> QED
        BY <3>3, <4>1 DEF Ended
    <3>4. Len(tokens) <= Len(Tok!WordsOf(text))
      BY <3>1, <3>2, <3>3
    <3> QED
      BY <2>1, <2>3, <3>4 DEF splitting, SplitInv
  <2> QED
    BY <2>1, <2>2, <2>3
<1>13. CASE UNCHANGED vars
  BY <1>13 DEF vars, splitting, SplitInv
<1> QED
  BY <1>1, <1>2, <1>3, <1>4, <1>5, <1>6, <1>7, <1>8, <1>9, <1>10, <1>11, <1>12, <1>13 DEF Next, Serve

\* So it always holds.
LEMMA SplitAlways == Spec => []SplitInv
BY SplitInit, SplitStep, InvAlways, PTL DEF Spec

\* For every text split returns its words, but the last one of two equal ones at
\* its very end.
THEOREM SplitFinds == Spec => []SplitResult
<1>1. SplitInv => SplitResult
  BY DEF SplitInv, SplitResult, HasSplit, Result
<1> QED
  BY <1>1, SplitAlways, PTL

-----------------------------------------------------------------------------
(* The answers.                                                            *)

\* Unless the text ends with one word twice, split has found all its words.
LEMMA SplitWhole ==
  ASSUME SplitInv, HasSplit, ~Tok!EndsTwice(text)
  PROVE  tokens = Tok!WordsOf(text)
BY DEF SplitInv, HasSplit, Result

\* A wrong answer is always the work of another thread: while the words are
\* intact, a request is answered by the command its text names with the text's
\* other words, unless the text ends with one word twice.
THEOREM OnlyReuseDisturbs == Spec => []AnswersUndisturbed
<1>1. Inv /\ SplitInv => AnswersUndisturbed
  <2> SUFFICES ASSUME Inv, SplitInv, memory = tokens, outcome = "answered", ~Tok!EndsTwice(text)
               PROVE  <<command>> \o args = Tok!WordsOf(text)
    BY DEF AnswersUndisturbed, AnswersRequest, Undisturbed
  <2>0. tokens = Tok!WordsOf(text)
    BY SplitWhole DEF Inv, HasSplit
  <2>1. /\ tokens # <<>> /\ command = tokens[1]
        /\ args \in Seq(Seq(Chars) \cup {Other}) /\ Len(args) = Len(tokens) - 1
        /\ \A i \in 1 .. Len(args) : args[i] = tokens[i + 1] \/ memory[i + 1] = Other
    BY DEF Inv, Called
  <2>2. tokens \in Seq(Seq(Chars)) /\ Len(tokens) \in Nat \ {0}
    BY <2>1 DEF Inv, Splits
  <2>3. ASSUME NEW i \in 1 .. Len(tokens) PROVE tokens[i] # Other
    <3>1. tokens[i] \in Seq(Chars)
      BY <2>2
    <3> QED
      BY <3>1, CommandAssumption
  <2>4. ASSUME NEW i \in 1 .. Len(args) PROVE args[i] = tokens[i + 1]
    <3>1. i + 1 \in 1 .. Len(tokens)
      BY <2>1, <2>2
    <3> QED
      BY <2>1, <2>3, <3>1
  <2> DEFINE whole == <<command>> \o args
  <2>5. command \in Seq(Chars) \cup {Other}
    BY <2>1, <2>2
  <2>6. /\ whole \in Seq(Seq(Chars) \cup {Other}) /\ Len(whole) = Len(tokens)
        /\ whole[1] = command /\ \A i \in 2 .. Len(tokens) : whole[i] = args[i - 1]
    BY <2>1, <2>2, <2>5
  <2> HIDE DEF whole
  <2>7. ASSUME NEW i \in 1 .. Len(tokens) PROVE whole[i] = tokens[i]
    <3>1. CASE i = 1
      BY <2>1, <2>6, <3>1
    <3>2. CASE i # 1
      <4>1. i \in 2 .. Len(tokens) /\ i - 1 \in 1 .. Len(args) /\ (i - 1) + 1 = i
        BY <2>1, <2>2, <3>2
      <4> QED
        BY <2>4, <2>6, <4>1
    <3> QED
      BY <3>1, <3>2
  <2>8. whole = tokens
    BY <2>2, <2>6, <2>7, SeqEqual
  <2> QED
    BY <2>0, <2>8 DEF whole
<1> QED
  BY <1>1, InvAlways, SplitAlways, PTL

\* While the words are intact, no request is turned down whose text names a
\* registered command and has as many words as that takes, unless the text ends
\* with one word twice.
THEOREM OnlyMalformedRejected == Spec => RejectsOnlyMalformed
<1> DEFINE Right == /\ pc = "find" /\ Undisturbed /\ ~Tok!EndsTwice(text)
                    /\ outcome' \in {"unknown", "usage"}
                    => ~Asked(Tok!WordsOf(text))
<1>1. Inv /\ SplitInv /\ [Next]_vars => [Right]_vars
  <2> SUFFICES ASSUME Inv, SplitInv, Next, pc = "find", Undisturbed, ~Tok!EndsTwice(text),
                      outcome' \in {"unknown", "usage"}, Asked(Tok!WordsOf(text))
               PROVE  FALSE
    OBVIOUS
  <2>0. Asked(tokens)
    BY SplitWhole DEF HasSplit
  <2>1. outcome = "none"
    BY DEF Inv
  <2>2. FindCommand
    BY <2>1 DEF Next, Serve, InitCommands, Request, AddCommand, RemoveCommand, SplitTurn, Parse,
                ReadArgument, Answer, Return, Reuse, OutOfMemory
  <2>3. /\ attrs = [i \in 1 .. Len(tokens) |-> i] /\ memory = tokens
        /\ tokens \in Seq(Seq(Chars)) /\ Len(tokens) \in Nat
    BY DEF Inv, Released, Splits, Undisturbed
  <2>4. tokens # <<>> /\ tokens[1] \in Registered /\ argc[tokens[1]] \in {Len(tokens) - 1, ANY_ARGC}
    BY <2>0 DEF Asked
  <2>5. attrs # <<>> /\ attrs[1] = 1 /\ Len(attrs) = Len(tokens)
    <3>1. Len(tokens) >= 1
      BY <2>3, <2>4
    <3>2. attrs \in Seq(Nat) /\ Len(attrs) = Len(tokens) /\ attrs[1] = 1
      BY <2>3, <3>1
    <3> QED
      BY <3>1, <3>2
  <2>6. Dispatch(tokens[1], Tail(attrs), Len(tokens) - 1)
    BY <2>2, <2>3, <2>4, <2>5 DEF FindCommand
  <2>7. UNCHANGED outcome
    BY <2>1, <2>4, <2>6 DEF Dispatch
  <2> QED
    BY <2>1, <2>7
<1> QED
  BY <1>1, InvAlways, SplitAlways, PTL DEF Spec, RejectsOnlyMalformed

-----------------------------------------------------------------------------
(* The types.                                                              *)

\* What the pointers, the command and the arguments can be.
Shapes ==
  /\ memory \in Seq(Word \cup {Other})
  /\ attrs \in Seq(1 .. Len(memory))
  /\ command \in Names \cup {NoName}
  /\ args \in Seq(Word \cup {Other})
  /\ outcome \in {"none", "answered", "usage", "unknown", "failed"}

\* They are so at first.
LEMMA ShapesInit == Init => Shapes
BY DEF Init, Shapes

\* Every step keeps them.
LEMMA ShapesStep == Inv /\ SplitInv /\ Shapes /\ [Next]_vars => Shapes'
<1> SUFFICES ASSUME Inv, SplitInv, Shapes, [Next]_vars PROVE Shapes'
  OBVIOUS
<1>0. memory \in Seq(Word \cup {Other}) /\ Len(memory) \in Nat /\ attrs \in Seq(1 .. Len(memory))
  BY DEF Shapes
<1>1. CASE UNCHANGED <<memory, attrs, command, args, outcome>>
  BY <1>1 DEF Shapes
<1>2. CASE Parse
  <2>1. /\ memory' = tokens /\ attrs' = [i \in 1 .. Len(tokens) |-> i]
        /\ UNCHANGED <<command, args, outcome>>
    BY <1>2 DEF Parse
  <2>2. tokens \in Seq(Word) /\ Len(tokens) \in Nat
    BY DEF SplitInv
  <2>3. tokens \in Seq(Word \cup {Other})
    BY <2>2, SeqMonotonic
  <2>4. [i \in 1 .. Len(tokens) |-> i] \in Seq(1 .. Len(tokens))
    BY <2>2
  <2> QED
    BY <2>1, <2>3, <2>4 DEF Shapes
<1>3. CASE FindCommand
  <2>1. UNCHANGED memory /\ UNCHANGED args
    BY <1>3 DEF FindCommand
  <2>2. CASE UNCHANGED <<attrs, command>> /\ outcome' \in {outcome, "unknown"}
    BY <2>1, <2>2 DEF Shapes
  <2>3. ASSUME attrs # <<>>, memory[attrs[1]] \in Registered,
               Dispatch(memory[attrs[1]], Tail(attrs), Len(attrs) - 1)
        PROVE  Shapes'
    <3>1. command' \in Names
      BY <2>3 DEF Dispatch, Inv, Register, Registered
    <3>2. attrs' \in Seq(1 .. Len(memory))
      BY <1>0, <2>3 DEF Dispatch
    <3>3. outcome' \in {outcome, "usage"}
      BY <2>3 DEF Dispatch
    <3> QED
      BY <2>1, <3>1, <3>2, <3>3 DEF Shapes
  <2> QED
    BY <1>3, <2>2, <2>3 DEF FindCommand
<1>4. CASE ReadArgument
  <2> DEFINE k == Len(args) + 1
  <2>1. /\ Len(args) < Len(attrs) /\ args' = Append(args, memory[attrs[k]])
        /\ UNCHANGED <<memory, attrs, command, outcome>>
    BY <1>4 DEF ReadArgument
  <2>2. args \in Seq(Word \cup {Other}) /\ Len(args) \in Nat
    BY DEF Shapes
  <2>3. k \in 1 .. Len(attrs)
    BY <1>0, <2>1, <2>2
  <2> HIDE DEF k
  <2>4. attrs[k] \in 1 .. Len(memory)
    BY <1>0, <2>3
  <2>5. memory[attrs[k]] \in Word \cup {Other}
    BY <1>0, <2>4
  <2>6. args' \in Seq(Word \cup {Other})
    BY <2>1, <2>2, <2>5
  <2> QED
    BY <2>1, <2>6 DEF Shapes
<1>5. CASE Answer
  BY <1>5 DEF Answer, Shapes
<1>6. CASE Return
  BY <1>6 DEF Return, Shapes
<1>7. ASSUME NEW p \in 1 .. Len(memory), Reuse(p) PROVE Shapes'
  <2>1. memory' = [memory EXCEPT ![p] = Other] /\ UNCHANGED <<attrs, command, args, outcome>>
    BY <1>7 DEF Reuse
  <2>2. memory' \in Seq(Word \cup {Other}) /\ Len(memory') = Len(memory)
    BY <1>0, <2>1, ExceptSeq
  <2> QED
    BY <2>1, <2>2 DEF Shapes
<1>8. CASE OutOfMemory
  BY <1>8 DEF OutOfMemory, Shapes
<1> QED
  BY <1>1, <1>2, <1>3, <1>4, <1>5, <1>6, <1>7, <1>8
     DEF Next, Serve, InitCommands, Request, AddCommand, RemoveCommand, SplitTurn, vars

\* What split cuts is part of its text, and it finds no more words than there are.
LEMMA Cuts == SplitInv => Tok!TypeOK
<1> SUFFICES ASSUME SplitInv PROVE Tok!TypeOK
  OBVIOUS
<1>0. text \in Seq(Chars) /\ Len(text) \in Nat
  BY TextType
<1>1. PICK p \in 1 .. Len(text) + 1 : /\ input = Rest(text, p)
                                      /\ pc = "split" => \/ Cutting(text, p, word, tokens)
                                                         \/ Ended(text, p, word, tokens)
  BY DEF SplitInv
<1>2. Len(input) = Len(text) - p + 1
  BY <1>0, <1>1, RestType
<1>3. Len(text) - Len(input) + 1 = p /\ Len(input) <= Len(text)
  BY <1>0, <1>2
<1>4. input = SubSeq(text, Len(text) - Len(input) + 1, Len(text))
  BY <1>1, <1>3 DEF Rest
<1>5. Len(Tok!WordsOf(text)) \in Nat
  BY <1>0, OneForEach, StartsFinite
<1>6. Len(tokens) <= Len(Tok!WordsOf(text))
  <2>1. CASE pc \in {"init", "idle"}
    BY <1>5, <2>1, NothingYet DEF SplitInv
  <2>2. CASE pc = "split"
    <3>1. CASE Cutting(text, p, word, tokens)
      BY <1>0, <3>1, FoundFew DEF Cutting
    <3>2. CASE Ended(text, p, word, tokens)
      BY <1>5, <3>2 DEF Ended
    <3> QED
      BY <1>1, <2>2, <3>1, <3>2
  <2> QED
    BY <2>1, <2>2 DEF SplitInv
<1> QED
  BY <1>3, <1>4, <1>6 DEF Tok!TypeOK, SplitInv

\* Every variable has its type, and the words are no more than the text has.
THEOREM TypeCorrect == Spec => []TypeOK
<1>1. Inv /\ SplitInv /\ Shapes => TypeOK
  BY Cuts DEF Inv, SplitInv, Shapes, Register, TypeOK
<1>2. Inv /\ SplitInv /\ Shapes /\ [Next]_vars => Shapes'
  BY ShapesStep
<1> QED
  BY <1>1, <1>2, ShapesInit, InvAlways, SplitAlways, PTL DEF Spec
=============================================================================
