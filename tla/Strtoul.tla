------------------------------ MODULE Strtoul -------------------------------
(***************************************************************************)
(* strtoul of source/strtoul.c, with which the commands read their numbers.*)
(* A character is the digit it stands for (0 .. 35, letters from 10 on) or *)
(* one of the marks below; an unsigned long has Word values.               *)
(***************************************************************************)
EXTENDS Integers, Sequences

CONSTANT Word  \* ULONG_MAX + 1

ASSUME WordAssumption == Word \in Nat \ {0}

Space == -1
Minus == -2
Plus  == -3
Stop  == -4  \* the terminator, or a character that means nothing to strtoul
X     == 33  \* the letter x

\* The character at s[i] of the C string.
Char(s, i) == IF i <= Len(s) THEN s[i] ELSE Stop

\* The first character that is no space.
Skip(s) == CHOOSE i \in 1 .. Len(s) + 1 : /\ Char(s, i) # Space
                                          /\ \A j \in 1 .. i - 1 : s[j] = Space

\* The first character after the sign.
AfterSign(s) == IF Char(s, Skip(s)) \in {Minus, Plus} THEN Skip(s) + 1 ELSE Skip(s)

HasPrefix(s, base) == /\ base \in {0, 16}
                      /\ Char(s, AfterSign(s)) = 0
                      /\ Char(s, AfterSign(s) + 1) = X

Base(s, base) == IF HasPrefix(s, base) THEN 16
                 ELSE IF base # 0 THEN base
                 ELSE IF Char(s, AfterSign(s)) = 0 THEN 8 ELSE 10

FirstDigit(s, base) == IF HasPrefix(s, base) THEN AfterSign(s) + 2 ELSE AfterSign(s)

\* How many characters the loop takes: it ends at the first that is no digit.
Digits(s, base) ==
  LET from == FirstDigit(s, base)
  IN  CHOOSE n \in 0 .. Len(s) + 2 :
        /\ Char(s, from + n) \notin 0 .. Base(s, base) - 1
        /\ \A i \in 0 .. n - 1 : Char(s, from + i) \in 0 .. Base(s, base) - 1

\* The definitions named Wrong... are the code with a plausible mistake; the
\* properties are tested against them.
WrongTakeDigit(acc, c, base) ==  \* the last digit is not compared with cutlim
  IF acc.any < 0 \/ acc.value > (Word - 1) \div base
  THEN [acc EXCEPT !.any = -1]
  ELSE [any |-> 1, value |-> (acc.value * base + c) % Word]

\* One turn of the loop: cutoff and cutlim find the overflow before it happens.
TakeDigit(acc, c, base) ==
  IF \/ acc.any < 0
     \/ acc.value > (Word - 1) \div base
     \/ acc.value = (Word - 1) \div base /\ c > (Word - 1) % base
  THEN [acc EXCEPT !.any = -1]
  ELSE [any |-> 1, value |-> (acc.value * base + c) % Word]

strtoul(s, base) ==
  LET from == FirstDigit(s, base)
      b    == Base(s, base)
      loop[n \in 0 .. Digits(s, base)] ==
        IF n = 0 THEN [any |-> 0, value |-> 0]
        ELSE TakeDigit(loop[n - 1], Char(s, from + n - 1), b)
      end  == loop[Digits(s, base)]
  IN  IF end.any < 0 THEN Word - 1
      ELSE IF Char(s, Skip(s)) = Minus THEN (Word - end.value) % Word
      ELSE end.value

-----------------------------------------------------------------------------
(* What a numeral means.                                                   *)

\* The value of its digits, however large.
Value(s, base) ==
  LET value[n \in 0 .. Digits(s, base)] ==
        IF n = 0 THEN 0
        ELSE value[n - 1] * Base(s, base) + Char(s, FirstDigit(s, base) + n - 1)
  IN  value[Digits(s, base)]

\* strtoul yields the number the text denotes, ULONG_MAX for one that is too
\* large, and the two's complement of a negative one.
Denoted(s, base) ==
  LET v == Value(s, base)
  IN  IF v >= Word THEN Word - 1
      ELSE IF Char(s, Skip(s)) = Minus THEN (-v) % Word
      ELSE v
=============================================================================
