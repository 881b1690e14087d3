------------------------------- MODULE Base64 -------------------------------
(***************************************************************************)
(* source/base64.c.  A byte is four units of bits and a digit of Base64 is *)
(* three; U is the number of values of a unit, 4 in the code (bytes of 8   *)
(* bits, digits of 6).  A text is a sequence of digits and of other        *)
(* characters; its terminator is not part of the sequence.                 *)
(***************************************************************************)
EXTENDS Integers, Sequences

CONSTANT U

ASSUME UnitAssumption == U \in Nat /\ U >= 2

Byte  == 0 .. U ^ 4 - 1
Digit == 0 .. U ^ 3 - 1
Pad   == -1  \* '='
Bad   == -2  \* any other character

\* nprbytes: how many characters come before the first that is no digit.
Prefix(s) == CHOOSE n \in 0 .. Len(s) : /\ n < Len(s) => s[n + 1] \notin Digit
                                        /\ \A i \in 1 .. n : s[i] \in Digit

\* What is left of n characters when the loop has taken its groups of four.
Rest(n) == IF n = 0 THEN 0 ELSE ((n - 1) % 4) + 1

\* The bytes that Base64decode makes of them (a single character is ignored).
DecodedLength(n) == LET r == Rest(n) IN ((n - r) \div 4) * 3 + (IF r = 0 THEN 0 ELSE r - 1)

WrongDecodedByte(s, i) ==  \* the second byte is not cut to its width
  LET d(j) == s[((i - 1) \div 3) * 4 + j]
  IN  CASE (i - 1) % 3 = 0 -> d(1) * U + (d(2) \div U ^ 2)
        [] (i - 1) % 3 = 1 -> d(2) * U ^ 2 + (d(3) \div U)
        [] OTHER           -> ((d(3) * U ^ 3) % U ^ 4) + d(4)

\* The i-th of them.
DecodedByte(s, i) ==
  LET d(j) == s[((i - 1) \div 3) * 4 + j]
  IN  CASE (i - 1) % 3 = 0 -> d(1) * U + (d(2) \div U ^ 2)
        [] (i - 1) % 3 = 1 -> ((d(2) * U ^ 2) % U ^ 4) + (d(3) \div U)
        [] OTHER           -> ((d(3) * U ^ 3) % U ^ 4) + d(4)

\* What Base64decode stores, but for the terminator behind it.
Base64decode(s) == [i \in 1 .. DecodedLength(Prefix(s)) |-> DecodedByte(s, i)]

\* Base64decode_len: room enough for the bytes and the terminator.
Base64decode_len(s) == ((Prefix(s) + 3) \div 4) * 3 + 1

\* The i-th digit of Base64encode; a byte behind the last counts as 0.
EncodedDigit(b, i) ==
  LET c(j) == LET k == ((i - 1) \div 4) * 3 + j IN IF k <= Len(b) THEN b[k] ELSE 0
  IN  CASE (i - 1) % 4 = 0 -> c(1) \div U
        [] (i - 1) % 4 = 1 -> (c(1) % U) * U ^ 2 + (c(2) \div U ^ 2)
        [] (i - 1) % 4 = 2 -> (c(2) % U ^ 2) * U + (c(3) \div U ^ 3)
        [] OTHER           -> c(3) % U ^ 3

\* Base64encode: as many digits as the bytes need, padded to groups of four.
Base64encode(b) ==
  [i \in 1 .. ((Len(b) + 2) \div 3) * 4 |->
     IF i <= (Len(b) * 4 + 2) \div 3 THEN EncodedDigit(b, i) ELSE Pad]

\* isValidBase64(s, len): the first len characters are digits or '=', the
\* terminator being neither; a negative len is not looked at.
isValidBase64(s, len) ==
  \A i \in 1 .. len : i <= Len(s) /\ (s[i] \in Digit \/ s[i] = Pad)
=============================================================================
