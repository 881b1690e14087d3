----------------------------- MODULE Tokenizer ------------------------------
(***************************************************************************)
(* split of source/util.cpp, which cuts a request into words: its loop,    *)
(* one turn at a time, beside the words the text has.  CommandManager runs  *)
(* it for the requests it is given.                                        *)
(***************************************************************************)
EXTENDS Integers, Sequences, FiniteSets

CONSTANTS Chars,  \* the characters of requests
          Sep     \* delimiter

VARIABLES text,   \* the argument
          input,  \* what is left of it
          word,   \* the last word that was cut off
          attrs   \* the words found so far

\* find_first_of: the first separator of s; Len(s) + 1 when there is none.
FirstSep(s) ==
  CHOOSE i \in 1 .. Len(s) + 1 : /\ i <= Len(s) => s[i] = Sep
                                 /\ \A j \in 1 .. i - 1 : s[j] # Sep

\* The definitions named Wrong... are the code with a plausible mistake; the
\* properties are tested against them.
WrongAfter(s, i) == IF i > Len(s) THEN s ELSE SubSeq(s, i, Len(s))
WrongAfter2(s, i) == IF i > Len(s) THEN s ELSE SubSeq(s, i + 2, Len(s))

\* input.substr(index + 1): for npos index + 1 is 0, and nothing is cut off.
After(s, i) == IF i > Len(s) THEN s ELSE SubSeq(s, i + 1, Len(s))

WrongTurn ==  \* empty words are not skipped
  LET index == FirstSep(input)
      next  == SubSeq(input, 1, index - 1)
  IN  /\ input # word
      /\ word' = next
      /\ input' = After(input, index)
      /\ attrs' = Append(attrs, next)
      /\ UNCHANGED text

\* The loop ends as soon as the rest equals the last word.
Turn ==
  LET index == FirstSep(input)
      next  == SubSeq(input, 1, index - 1)
  IN  /\ input # word
      /\ word' = next
      /\ input' = After(input, index)
      /\ attrs' = IF next = <<>> THEN attrs ELSE Append(attrs, next)
      /\ UNCHANGED text

-----------------------------------------------------------------------------
(* What the words of a text are.                                           *)

Starts(s) == {i \in 1 .. Len(s) : s[i] # Sep /\ (i > 1 => s[i - 1] = Sep)}

WordAt(s, i) == LET rest == SubSeq(s, i, Len(s)) IN SubSeq(rest, 1, FirstSep(rest) - 1)

WordsOf(s) ==
  [k \in 1 .. Cardinality(Starts(s)) |->
     WordAt(s, CHOOSE i \in Starts(s) : Cardinality({j \in Starts(s) : j < i}) = k - 1)]

\* Two equal words at the very end, with one separator between them.
EndsTwice(s) ==
  \E w \in {SubSeq(s, i, Len(s)) : i \in Starts(s)} :
    LET from == Len(s) - 2 * Len(w) IN
    /\ \A i \in 1 .. Len(w) : w[i] # Sep
    /\ from \in Starts(s)
    /\ SubSeq(s, from, Len(s)) = w \o <<Sep>> \o w

-----------------------------------------------------------------------------
(* Properties.                                                             *)

\* The shape of every variable: all are cut out of the text.
TypeOK == /\ Len(input) <= Len(text)
          /\ input = SubSeq(text, Len(text) - Len(input) + 1, Len(text))
          /\ Len(word) <= Len(text)
          /\ Len(attrs) <= Len(WordsOf(text))
=============================================================================
