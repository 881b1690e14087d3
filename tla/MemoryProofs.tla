---------------------------- MODULE MemoryProofs -----------------------------
(***************************************************************************)
(* Whatever the requests, the place of MEM1 and the size of a word, the    *)
(* commands read their numbers right and write inside of MEM1; with bytes  *)
(* of eight bits they also write, read and show the data they are given.   *)
(*                                                                         *)
(* First what their arguments stand for.  strtoul reads every text right,  *)
(* in words of any size: the number its digits denote, ULONG_MAX exactly   *)
(* for those that do not fit a word.  With bytes of eight bits,            *)
(* Base64decode gives back every data that Base64encode has coded.         *)
(***************************************************************************)
EXTENDS MemoryCommands, NumberInduction

-----------------------------------------------------------------------------
(* Where the scanning stops.                                               *)

\* The first character that is neither a blank nor a sign is one of s, or behind it.
LEMMA SkipType ==
  ASSUME NEW s \in Seq(Int)
  PROVE  Skip(s) \in 1 .. Len(s) + 1
<1> DEFINE S == {i \in Nat : i >= 1 /\ Char(s, i) # Space}
           Found(i) == /\ Char(s, i) # Space
                       /\ \A j \in 1 .. i - 1 : s[j] = Space
<1>1. Len(s) + 1 \in S
  BY DEF Char, Stop, Space
<1>2. PICK i \in S : \A j \in S : i <= j
  <2> HIDE DEF S
  <2>1. S \in SUBSET Nat
    BY DEF S
  <2> QED
    BY <1>1, <2>1, Least
<1>3. i \in 1 .. Len(s) + 1
  BY <1>1, <1>2
<1>4. ASSUME NEW j \in 1 .. i - 1 PROVE s[j] = Space
  <2>1. j \notin S
    BY <1>2, <1>3
  <2> QED
    BY <2>1, <1>3 DEF Char
<1>5. \E k \in 1 .. Len(s) + 1 : Found(k)
  BY <1>2, <1>3, <1>4
<1> QED
  BY <1>5 DEF Skip

\* So is the first digit, behind a 0x.
LEMMA FirstDigitType ==
  ASSUME NEW s \in Seq(Int), NEW base
  PROVE  FirstDigit(s, base) \in 1 .. Len(s) + 1
<1>1. Skip(s) \in 1 .. Len(s) + 1
  BY SkipType
<1>2. AfterSign(s) \in 1 .. Len(s) + 1
  BY <1>1 DEF AfterSign, Char, Stop, Minus, Plus
<1> QED
  BY <1>2 DEF FirstDigit, HasPrefix, Char, Stop, X

\* The base that is guessed, or asked for, is one of three.
LEMMA BaseType ==
  ASSUME NEW s, NEW base \in {0, 10, 16}
  PROVE  Base(s, base) \in {8, 10, 16}
BY DEF Base

\* The loop ends at the first character that is no digit.
LEMMA DigitsType ==
  ASSUME NEW s \in Seq(Int), NEW base \in {0, 10, 16}
  PROVE  /\ Digits(s, base) \in Nat
         /\ \A i \in 1 .. Digits(s, base) :
              Char(s, FirstDigit(s, base) + i - 1) \in 0 .. Base(s, base) - 1
<1> DEFINE from == FirstDigit(s, base)
           b == Base(s, base)
           S == {n \in Nat : Char(s, from + n) \notin 0 .. b - 1}
           Ended(n) == /\ Char(s, from + n) \notin 0 .. b - 1
                       /\ \A i \in 0 .. n - 1 : Char(s, from + i) \in 0 .. b - 1
<1>1. from \in 1 .. Len(s) + 1 /\ b \in {8, 10, 16} /\ Len(s) \in Nat
  BY FirstDigitType, BaseType
<1> HIDE DEF from, b
<1>2. Len(s) + 1 - from \in S
  BY <1>1 DEF Char, Stop
<1>3. PICK n \in S : \A m \in S : n <= m
  <2>1. S \in SUBSET Nat
    OBVIOUS
  <2> HIDE DEF S
  <2> QED
    BY <1>2, <2>1, Least
<1>4. n \in 0 .. Len(s) + 2
  BY <1>1, <1>2, <1>3
<1>5. \A i \in 0 .. n - 1 : Char(s, from + i) \in 0 .. b - 1
  BY <1>3, <1>4
<1>6. \E k \in 0 .. Len(s) + 2 : Ended(k)
  BY <1>3, <1>4, <1>5
<1>7. Digits(s, base) = CHOOSE k \in 0 .. Len(s) + 2 : Ended(k)
  BY DEF Digits, from, b
<1>8. Digits(s, base) \in 0 .. Len(s) + 2 /\ Ended(Digits(s, base))
  <2> HIDE DEF Ended
  <2> QED
    BY <1>6, <1>7
<1>9. ASSUME NEW i \in 1 .. Digits(s, base) PROVE Char(s, from + i - 1) \in 0 .. b - 1
  <2>1. i - 1 \in 0 .. Digits(s, base) - 1 /\ from + (i - 1) = from + i - 1
    BY <1>1, <1>8
  <2> QED
    BY <1>8, <2>1
<1> QED
  BY <1>1, <1>8, <1>9 DEF from, b

-----------------------------------------------------------------------------
(* The loop.                                                               *)

\* The test against cutoff and cutlim finds an overflow, and only that.
LEMMA Overflow ==
  ASSUME NEW b \in {8, 10, 16}, NEW v \in Nat, NEW c \in 0 .. b - 1
  PROVE  /\ v * b + c \in Nat /\ v <= v * b + c
         /\ v * b + c >= Word <=> \/ v > (Word - 1) \div b
                                  \/ v = (Word - 1) \div b /\ c > (Word - 1) % b
<1> USE WordAssumption
<1>1. CASE b = 8
  BY <1>1
<1>2. CASE b = 10
  BY <1>2
<1>3. CASE b = 16
  BY <1>3
<1> QED
  BY <1>1, <1>2, <1>3

\* The two's complement.
LEMMA Complement == ASSUME NEW v \in 1 .. Word - 1 PROVE (-v) % Word = Word - v
BY WordAssumption

\* A number that fits a word is the same modulo Word.
LEMMA Fits == ASSUME NEW v \in Nat, v < Word PROVE v % Word = v
BY WordAssumption

\* Whatever the digits and the size of a word, strtoul returns the number that
\* the text denotes (strtoul.c:98-126), the greatest word for one that is too
\* large, and the two's complement of a negative one.
THEOREM StrtoulIsExact ==
  ASSUME NEW s \in Seq(Int), NEW base \in {0, 10, 16}
  PROVE  strtoul(s, base) = Denoted(s, base) /\ strtoul(s, base) \in 0 .. Word - 1
<1> DEFINE from == FirstDigit(s, base)
           b == Base(s, base)
           D == Digits(s, base)
           c(n) == Char(s, from + n - 1)
           Acc == [any : {-1, 0, 1}, value : Int]
           IsLoop(f) == f = [n \in 0 .. D |-> IF n = 0 THEN [any |-> 0, value |-> 0]
                                              ELSE TakeDigit(f[n - 1], c(n), b)]
           IsValue(f) == f = [n \in 0 .. D |-> IF n = 0 THEN 0 ELSE f[n - 1] * b + c(n)]
           loop == CHOOSE f : IsLoop(f)
           value == CHOOSE f : IsValue(f)
<1>1. b \in {8, 10, 16} /\ D \in Nat /\ \A n \in 1 .. D : c(n) \in 0 .. b - 1
  BY BaseType, DigitsType
<1>2. strtoul(s, base) = IF loop[D].any < 0 THEN Word - 1
                         ELSE IF Char(s, Skip(s)) = Minus THEN (Word - loop[D].value) % Word
                         ELSE loop[D].value
  BY DEF strtoul
<1>3. Value(s, base) = value[D]
  BY DEF Value
<1> HIDE DEF from, b, D, c
<1>4. IsLoop(loop)
  <2> DEFINE g == [a \in Acc |-> [n \in Nat |-> IF n \in 1 .. D THEN TakeDigit(a, c(n), b) ELSE a]]
             e == [any |-> 0, value |-> 0]
  <2>1. ASSUME NEW a \in Acc, NEW n \in 1 .. D PROVE TakeDigit(a, c(n), b) \in Acc
    <3>1. (a.value * b + c(n)) % Word \in Int
      BY <1>1, WordAssumption
    <3> QED
      BY <3>1 DEF TakeDigit
  <2>2. g \in [Acc -> [Nat -> Acc]] /\ e \in Acc
    BY <2>1
  <2>3. \A a \in Acc : \A n \in 1 .. D : g[a][n] = TakeDigit(a, c(n), b)
    BY <1>1
  <2> HIDE DEF g, e, Acc
  <2>4. PICK f : Recurses(f, Acc, e, g, D)
    BY <2>2, <1>1, Recursion
  <2>5. ASSUME NEW n \in 1 .. D PROVE f[n] = TakeDigit(f[n - 1], c(n), b)
    <3>1. f[n - 1] \in Acc /\ f[n] = g[f[n - 1]][n]
      BY <1>1, <2>4 DEF Recurses
    <3> QED
      BY <2>3, <3>1
  <2>6. f = [n \in 0 .. D |-> IF n = 0 THEN e ELSE TakeDigit(f[n - 1], c(n), b)]
    BY <1>1, <2>4, <2>5 DEF Recurses
  <2> QED
    BY <2>6 DEF e
<1>5. IsValue(value)
  <2> DEFINE g == [a \in Int |-> [n \in Nat |-> IF n \in 1 .. D THEN a * b + c(n) ELSE a]]
  <2>1. g \in [Int -> [Nat -> Int]] /\ 0 \in Int
    BY <1>1
  <2>2. \A a \in Int : \A n \in 1 .. D : g[a][n] = a * b + c(n)
    BY <1>1
  <2> HIDE DEF g
  <2>3. PICK f : Recurses(f, Int, 0, g, D)
    BY <2>1, <1>1, Recursion
  <2>4. ASSUME NEW n \in 1 .. D PROVE f[n] = f[n - 1] * b + c(n)
    <3>1. f[n - 1] \in Int /\ f[n] = g[f[n - 1]][n]
      BY <1>1, <2>3 DEF Recurses
    <3> QED
      BY <2>2, <3>1
  <2>5. IsValue(f)
    BY <1>1, <2>3, <2>4 DEF Recurses
  <2> QED
    BY <2>5
<1> HIDE DEF loop, value
<1>6. /\ loop[0] = [any |-> 0, value |-> 0]
      /\ \A n \in 1 .. D : loop[n] = TakeDigit(loop[n - 1], c(n), b)
  <2>1. ASSUME NEW n \in 0 .. D
        PROVE  loop[n] = IF n = 0 THEN [any |-> 0, value |-> 0] ELSE TakeDigit(loop[n - 1], c(n), b)
    BY <1>4
  <2>2. 0 \in 0 .. D /\ \A n \in 1 .. D : n \in 0 .. D /\ n # 0
    BY <1>1
  <2> QED
    BY <2>1, <2>2, Zenon
<1>7. /\ value[0] = 0
      /\ \A n \in 1 .. D : value[n] = value[n - 1] * b + c(n)
  <2>1. ASSUME NEW n \in 0 .. D PROVE value[n] = IF n = 0 THEN 0 ELSE value[n - 1] * b + c(n)
    BY <1>5
  <2>2. 0 \in 0 .. D /\ \A n \in 1 .. D : n \in 0 .. D /\ n # 0
    BY <1>1
  <2> QED
    BY <2>1, <2>2, Zenon
<1> DEFINE Agree(n) == /\ value[n] \in Nat
                       /\ loop[n] \in Acc
                       /\ loop[n].any < 0 <=> value[n] >= Word
                       /\ value[n] < Word => loop[n].value = value[n]
           S == {n \in Nat : n <= D => Agree(n)}
<1>8. 0 \in S
  BY <1>6, <1>7, WordAssumption
<1>9. ASSUME NEW n \in Nat, n \in S PROVE n + 1 \in S
  <2>1. SUFFICES ASSUME n + 1 <= D PROVE Agree(n + 1)
    OBVIOUS
  <2>2. Agree(n) /\ n + 1 \in 1 .. D
    BY <1>1, <1>9, <2>1
  <2> DEFINE v == value[n]
             d == c(n + 1)
  <2>3. v \in Nat /\ d \in 0 .. b - 1
    BY <1>1, <2>2
  <2>4. value[n + 1] = v * b + d /\ loop[n + 1] = TakeDigit(loop[n], d, b)
    BY <1>6, <1>7, <2>2
  <2>5. /\ v * b + d \in Nat /\ v <= v * b + d
        /\ v * b + d >= Word <=> \/ v > (Word - 1) \div b
                                 \/ v = (Word - 1) \div b /\ d > (Word - 1) % b
    BY <1>1, <2>3, Overflow
  <2>6. CASE v >= Word
    <3>1. loop[n].any < 0 /\ loop[n] \in Acc
      BY <2>2, <2>6
    <3>2. loop[n + 1] = [loop[n] EXCEPT !.any = -1]
      BY <2>4, <3>1 DEF TakeDigit
    <3>3. v * b + d >= Word
      BY <2>3, <2>5, <2>6, WordAssumption
    <3> QED
      BY <2>4, <2>5, <3>1, <3>2, <3>3, WordAssumption
  <2>7. CASE v < Word /\ v * b + d >= Word
    <3>1. loop[n].any >= 0 /\ loop[n].value = v /\ loop[n] \in Acc
      BY <2>2, <2>7, WordAssumption
    <3>2. loop[n + 1] = [loop[n] EXCEPT !.any = -1]
      BY <2>4, <2>5, <2>7, <3>1 DEF TakeDigit
    <3> QED
      BY <2>4, <2>5, <2>7, <3>1, <3>2, WordAssumption
  <2>8. CASE v < Word /\ v * b + d < Word
    <3>1. ~(loop[n].any < 0) /\ loop[n].value = v
      BY <2>2, <2>8, WordAssumption
    <3>2. /\ ~(v > (Word - 1) \div b)
          /\ ~(v = (Word - 1) \div b /\ d > (Word - 1) % b)
      BY <2>5, <2>8, WordAssumption
    <3>3. loop[n + 1] = [any |-> 1, value |-> (v * b + d) % Word]
      BY <2>4, <3>1, <3>2, Zenon DEF TakeDigit
    <3>4. (v * b + d) % Word = v * b + d
      BY <2>5, <2>8, Fits
    <3> QED
      BY <2>4, <2>5, <2>8, <3>3, <3>4, WordAssumption
  <2> QED
    BY <2>3, <2>5, <2>6, <2>7, <2>8, WordAssumption
<1> HIDE DEF S, Agree
<1>10. Agree(D)
  <2>1. D \in S
    BY <1>1, <1>8, <1>9, Induction
  <2> QED
    BY <1>1, <2>1 DEF S
<1> USE DEF Agree
<1>11. CASE value[D] >= Word
  BY <1>2, <1>3, <1>10, <1>11, WordAssumption DEF Denoted
<1>12. CASE value[D] < Word /\ Char(s, Skip(s)) # Minus
  BY <1>2, <1>3, <1>10, <1>12, WordAssumption DEF Denoted
<1>13. CASE value[D] < Word /\ Char(s, Skip(s)) = Minus
  <2>1. value[D] \in 0 .. Word - 1
    BY <1>10, <1>13, WordAssumption
  <2>2. strtoul(s, base) = (Word - value[D]) % Word
    BY <1>2, <1>10, <1>13, WordAssumption
  <2>3. Denoted(s, base) = (-value[D]) % Word
    BY <1>3, <1>13, <2>1, WordAssumption DEF Denoted
  <2> HIDE DEF Agree
  <2>4. (Word - value[D]) % Word = (-value[D]) % Word /\ (-value[D]) % Word \in 0 .. Word - 1
    <3>1. CASE value[D] = 0
      BY <3>1, WordAssumption
    <3>2. CASE value[D] > 0
      <4>1. value[D] \in 1 .. Word - 1 /\ Word - value[D] \in Nat /\ Word - value[D] < Word
        BY <2>1, <3>2, WordAssumption
      <4>2. (Word - value[D]) % Word = Word - value[D]
        BY <4>1, Fits
      <4>3. (-value[D]) % Word = Word - value[D]
        BY <4>1, Complement
      <4> QED
        BY <4>1, <4>2, <4>3, WordAssumption
    <3> QED
      BY <2>1, <3>1, <3>2
  <2> QED
    BY <2>2, <2>3, <2>4
<1> QED
  BY <1>10, <1>11, <1>12, <1>13, WordAssumption

-----------------------------------------------------------------------------
(* Base64: the bits that the digits of a group share.                      *)

\* The units of the code: two bits.
Octets == U = 4

\* A byte is in the first digit and the upper bits of the second one.
LEMMA FirstDigitBits ==
  ASSUME NEW x \in 0 .. 255, NEW y \in 0 .. 255
  PROVE  /\ x \div 4 \in 0 .. 63
         /\ (x % 4) * 16 + (y \div 16) \in 0 .. 63
         /\ (x \div 4) * 4 + (((x % 4) * 16 + (y \div 16)) \div 16) = x
OBVIOUS

\* The last of three bytes is in the lower bits of the third digit and the fourth.
LEMMA ThirdDigitBits ==
  ASSUME NEW y \in 0 .. 255, NEW z \in 0 .. 255
  PROVE  /\ z % 64 \in 0 .. 63
         /\ ((((y % 16) * 4 + (z \div 64)) * 64) % 256) + (z % 64) = z
<1> DEFINE a == y % 16
           q == z \div 64
<1>1. a \in 0 .. 15 /\ q \in 0 .. 3 /\ z = q * 64 + (z % 64) /\ z % 64 \in 0 .. 63
  OBVIOUS
<1> HIDE DEF a, q
<1>2. (a * 4 + q) * 64 = a * 256 + q * 64 /\ q * 64 \in 0 .. 255
  BY <1>1
<1>3. (a * 256 + q * 64) % 256 = q * 64
  BY <1>1, <1>2
<1> QED
  BY <1>1, <1>2, <1>3 DEF a, q

-----------------------------------------------------------------------------
(* Lengths.                                                                *)

\* How many digits n bytes have.
Coded(n) == (n * 4 + 2) \div 3

\* The digits of the j-th byte of a group are within the coded text.
LEMMA Room ==
  ASSUME NEW n \in Nat, NEW m \in Nat, NEW j \in 1 .. 3, m * 3 + j <= n
  PROVE  m * 4 + j + 1 <= Coded(n)
BY DEF Coded

\* The length of coded data gives that of the data back.
LEMMA Lengths ==
  ASSUME NEW n \in Nat
  PROVE  /\ Coded(n) \in Nat
         /\ Coded(n) <= ((n + 2) \div 3) * 4
         /\ DecodedLength(Coded(n)) = n
<1> DEFINE m == n \div 3
<1>1. m \in Nat /\ (n = 3 * m \/ n = 3 * m + 1 \/ n = 3 * m + 2)
  OBVIOUS
<1> HIDE DEF m
<1>2. CASE n = 3 * m
  BY <1>1, <1>2 DEF Coded, DecodedLength, Rest
<1>3. CASE n = 3 * m + 1
  BY <1>1, <1>3 DEF Coded, DecodedLength, Rest
<1>4. CASE n = 3 * m + 2
  BY <1>1, <1>4 DEF Coded, DecodedLength, Rest
<1> QED
  BY <1>1, <1>2, <1>3, <1>4

-----------------------------------------------------------------------------
(* Texts.                                                                  *)

\* Every character of the first Coded(Len(b)) is a digit, and no other one is.
LEMMA EncodedPrefix ==
  ASSUME Octets, NEW b \in Seq(Byte)
  PROVE  /\ Base64encode(b) \in Seq(Digit \cup {Pad})
         /\ Prefix(Base64encode(b)) = Coded(Len(b))
         /\ \A i \in 1 .. Coded(Len(b)) : Base64encode(b)[i] = EncodedDigit(b, i)
<1> DEFINE K == Coded(Len(b))
           N == ((Len(b) + 2) \div 3) * 4
           e == Base64encode(b)
<1>1. /\ Byte = 0 .. 255 /\ Digit = 0 .. 63 /\ U = 4
      /\ U ^ 2 = 16 /\ U ^ 3 = 64
  BY DEF Octets, Byte, Digit
<1>2. K \in Nat /\ N \in Nat /\ K <= N /\ Len(b) \in Nat
  <2>1. Len(b) \in Nat
    OBVIOUS
  <2>2. N \in Nat
    BY <2>1
  <2> QED
    BY <2>1, <2>2, Lengths
<1>3. ASSUME NEW i \in 1 .. K PROVE EncodedDigit(b, i) \in 0 .. 63
  <2> DEFINE c(j) == LET k == ((i - 1) \div 4) * 3 + j IN IF k <= Len(b) THEN b[k] ELSE 0
  <2>1. ASSUME NEW j \in 1 .. 3 PROVE c(j) \in 0 .. 255
    <3> DEFINE k == ((i - 1) \div 4) * 3 + j
    <3>1. k \in Nat \ {0}
      BY <1>2
    <3> HIDE DEF k
    <3>2. ASSUME k <= Len(b) PROVE b[k] \in 0 .. 255
      <4>1. k \in 1 .. Len(b)
        BY <1>2, <3>1, <3>2
      <4>2. b[k] \in Byte
        BY <4>1
      <4> QED
        BY <1>1, <4>2
    <3>3. c(j) = IF k <= Len(b) THEN b[k] ELSE 0
      BY DEF k
    <3> HIDE DEF c
    <3> QED
      BY <3>2, <3>3
  <2>2. EncodedDigit(b, i) =
          CASE (i - 1) % 4 = 0 -> c(1) \div 4
            [] (i - 1) % 4 = 1 -> (c(1) % 4) * 16 + (c(2) \div 16)
            [] (i - 1) % 4 = 2 -> (c(2) % 16) * 4 + (c(3) \div 64)
            [] OTHER           -> c(3) % 64
    BY <1>1 DEF EncodedDigit
  <2> HIDE DEF c
  <2> DEFINE x == c(1)
             y == c(2)
             z == c(3)
  <2>3. x \in 0 .. 255 /\ y \in 0 .. 255 /\ z \in 0 .. 255
    BY <2>1
  <2> HIDE DEF x, y, z
  <2>4. x \div 4 \in 0 .. 63 /\ (x % 4) * 16 + (y \div 16) \in 0 .. 63
    BY <2>3, FirstDigitBits
  <2>5. (y % 16) * 4 + (z \div 64) \in 0 .. 63 /\ z % 64 \in 0 .. 63
    BY <2>3
  <2>6. (i - 1) % 4 \in 0 .. 3
    BY <1>2
  <2> QED
    BY <2>2, <2>4, <2>5, <2>6 DEF x, y, z
<1>4. e = [i \in 1 .. N |-> IF i <= K THEN EncodedDigit(b, i) ELSE Pad]
  BY DEF Base64encode, Coded
<1> HIDE DEF K, N, e
<1>5. /\ e \in Seq(Digit \cup {Pad}) /\ Len(e) = N
      /\ \A i \in 1 .. K : e[i] = EncodedDigit(b, i) /\ e[i] \in Digit
      /\ \A i \in K + 1 .. N : e[i] = Pad
  BY <1>1, <1>2, <1>3, <1>4
<1>6. \A n \in 0 .. N : (/\ n < N => e[n + 1] \notin Digit
                         /\ \A i \in 1 .. n : e[i] \in Digit) <=> n = K
  <2>1. Pad \notin Digit
    BY <1>1 DEF Pad
  <2>2. ASSUME NEW n \in 0 .. N, n < K PROVE n < N /\ e[n + 1] \in Digit
    BY <1>2, <1>5, <2>2
  <2>3. ASSUME NEW n \in 0 .. N, n > K PROVE K + 1 \in 1 .. n /\ e[K + 1] \notin Digit
    BY <1>2, <1>5, <2>1, <2>3
  <2>4. K \in 0 .. N /\ (K < N => e[K + 1] \notin Digit) /\ \A i \in 1 .. K : e[i] \in Digit
    BY <1>2, <1>5, <2>1
  <2> QED
    BY <1>2, <2>2, <2>3, <2>4
<1>7. Prefix(e) = K
  BY <1>2, <1>5, <1>6 DEF Prefix
<1> QED
  BY <1>5, <1>7 DEF e, K

-----------------------------------------------------------------------------
(* Decoding.                                                               *)

\* A byte behind the last counts as 0.
ByteAt(b, k) == IF k <= Len(b) THEN b[k] ELSE 0

\* What is coded behind the data is 0, so always a byte.
LEMMA ByteAtType ==
  ASSUME Octets, NEW b \in Seq(Byte), NEW k \in Nat \ {0}
  PROVE  ByteAt(b, k) \in 0 .. 255
<1>1. Byte = 0 .. 255
  BY DEF Octets, Byte
<1>2. ASSUME k <= Len(b) PROVE b[k] \in 0 .. 255
  <2>1. k \in 1 .. Len(b)
    BY <1>2
  <2>2. b[k] \in Byte
    BY <2>1
  <2> QED
    BY <1>1, <2>2
<1> QED
  BY <1>2 DEF ByteAt

\* A digit, from the bytes of its group.
LEMMA DigitOfGroup ==
  ASSUME Octets, NEW b, NEW i, NEW m, (i - 1) \div 4 = m
  PROVE  EncodedDigit(b, i) =
           CASE (i - 1) % 4 = 0 -> ByteAt(b, m * 3 + 1) \div 4
             [] (i - 1) % 4 = 1 -> (ByteAt(b, m * 3 + 1) % 4) * 16 + (ByteAt(b, m * 3 + 2) \div 16)
             [] (i - 1) % 4 = 2 -> (ByteAt(b, m * 3 + 2) % 16) * 4 + (ByteAt(b, m * 3 + 3) \div 64)
             [] OTHER           -> ByteAt(b, m * 3 + 3) % 64
<1>1. U = 4 /\ U ^ 2 = 16 /\ U ^ 3 = 64
  BY DEF Octets
<1> QED
  BY <1>1 DEF EncodedDigit, ByteAt

\* The four digits of a group of three bytes.
LEMMA Group ==
  ASSUME Octets, NEW b \in Seq(Byte), NEW m \in Nat
  PROVE  LET x == ByteAt(b, m * 3 + 1)
             y == ByteAt(b, m * 3 + 2)
             z == ByteAt(b, m * 3 + 3)
         IN  /\ EncodedDigit(b, m * 4 + 1) = x \div 4
             /\ EncodedDigit(b, m * 4 + 2) = (x % 4) * 16 + (y \div 16)
             /\ EncodedDigit(b, m * 4 + 3) = (y % 16) * 4 + (z \div 64)
             /\ EncodedDigit(b, m * 4 + 4) = z % 64
<1>1. ASSUME NEW r \in 1 .. 4
      PROVE  (m * 4 + r - 1) \div 4 = m /\ (m * 4 + r - 1) % 4 = r - 1
  OBVIOUS
<1>2. ASSUME NEW r \in 1 .. 4
      PROVE  EncodedDigit(b, m * 4 + r) =
               CASE r - 1 = 0 -> ByteAt(b, m * 3 + 1) \div 4
                 [] r - 1 = 1 -> (ByteAt(b, m * 3 + 1) % 4) * 16 + (ByteAt(b, m * 3 + 2) \div 16)
                 [] r - 1 = 2 -> (ByteAt(b, m * 3 + 2) % 16) * 4 + (ByteAt(b, m * 3 + 3) \div 64)
                 [] OTHER     -> ByteAt(b, m * 3 + 3) % 64
  <2> DEFINE i == m * 4 + r
  <2>1. (i - 1) \div 4 = m /\ (i - 1) % 4 = r - 1
    BY <1>1
  <2> HIDE DEF i
  <2>2. EncodedDigit(b, i) =
          CASE (i - 1) % 4 = 0 -> ByteAt(b, m * 3 + 1) \div 4
            [] (i - 1) % 4 = 1 -> (ByteAt(b, m * 3 + 1) % 4) * 16 + (ByteAt(b, m * 3 + 2) \div 16)
            [] (i - 1) % 4 = 2 -> (ByteAt(b, m * 3 + 2) % 16) * 4 + (ByteAt(b, m * 3 + 3) \div 64)
            [] OTHER           -> ByteAt(b, m * 3 + 3) % 64
    BY <2>1, DigitOfGroup
  <2> QED
    BY <2>1, <2>2 DEF i
<1> QED
  BY <1>2

\* A place is one of the three of its group.
LEMMA ByThrees ==
  ASSUME NEW i \in Nat \ {0}
  PROVE  /\ (i - 1) \div 3 \in Nat /\ (i - 1) % 3 \in 0 .. 2
         /\ i = ((i - 1) \div 3) * 3 + 1 + ((i - 1) % 3)
OBVIOUS

\* Base64decode inverts Base64encode, for data of any length.
THEOREM DecodeInvertsEncode ==
  ASSUME Octets, NEW b \in Seq(Byte)
  PROVE  Base64decode(Base64encode(b)) = b
<1> DEFINE e == Base64encode(b)
           K == Coded(Len(b))
<1>1. /\ U = 4 /\ U ^ 2 = 16 /\ U ^ 3 = 64 /\ U ^ 4 = 256
      /\ Len(b) \in Nat /\ Byte = 0 .. 255
  BY DEF Octets, Byte
<1>2. Prefix(e) = K /\ DecodedLength(K) = Len(b) /\ K \in Nat
  BY <1>1, EncodedPrefix, Lengths
<1>3. \A i \in 1 .. K : e[i] = EncodedDigit(b, i)
  BY EncodedPrefix
<1>4. ASSUME NEW i \in 1 .. Len(b) PROVE DecodedByte(e, i) = b[i]
  <2> DEFINE m == (i - 1) \div 3
             x == ByteAt(b, m * 3 + 1)
             y == ByteAt(b, m * 3 + 2)
             z == ByteAt(b, m * 3 + 3)
  <2>1. m \in Nat /\ (i - 1) % 3 \in 0 .. 2 /\ i = m * 3 + 1 + ((i - 1) % 3) /\ i <= Len(b)
    <3>1. i \in Nat \ {0}
      BY <1>1
    <3> QED
      BY <1>1, <3>1, ByThrees
  <2>2. DecodedByte(e, i) =
          CASE (i - 1) % 3 = 0 -> e[m * 4 + 1] * 4 + (e[m * 4 + 2] \div 16)
            [] (i - 1) % 3 = 1 -> ((e[m * 4 + 2] * 16) % 256) + (e[m * 4 + 3] \div 4)
            [] OTHER           -> ((e[m * 4 + 3] * 64) % 256) + e[m * 4 + 4]
    BY <1>1 DEF DecodedByte
  <2> HIDE DEF m, e
  <2>3. x \in 0 .. 255 /\ y \in 0 .. 255 /\ z \in 0 .. 255
    BY <2>1, ByteAtType
  <2>4. /\ EncodedDigit(b, m * 4 + 1) = x \div 4
        /\ EncodedDigit(b, m * 4 + 2) = (x % 4) * 16 + (y \div 16)
        /\ EncodedDigit(b, m * 4 + 3) = (y % 16) * 4 + (z \div 64)
        /\ EncodedDigit(b, m * 4 + 4) = z % 64
    BY <2>1, Group
  <2> HIDE DEF x, y, z
  <2>5. CASE (i - 1) % 3 = 0
    <3>1. m * 4 + 1 \in 1 .. K /\ m * 4 + 2 \in 1 .. K /\ i = m * 3 + 1
      <4>1. i = m * 3 + 1 /\ m * 3 + 1 <= Len(b)
        BY <1>1, <2>1, <2>5
      <4>2. m * 4 + 1 + 1 <= Coded(Len(b))
        BY <1>1, <2>1, <4>1, Room
      <4> QED
        BY <1>2, <2>1, <4>1, <4>2
    <3>2. DecodedByte(e, i) = (x \div 4) * 4 + (((x % 4) * 16 + (y \div 16)) \div 16)
      BY <1>3, <2>2, <2>4, <2>5, <3>1 DEF e
    <3>3. b[i] = x
      BY <1>1, <3>1 DEF x, ByteAt
    <3>4. (x \div 4) * 4 + (((x % 4) * 16 + (y \div 16)) \div 16) = x
      BY <2>3, FirstDigitBits
    <3> QED
      BY <3>2, <3>3, <3>4
  <2>6. CASE (i - 1) % 3 = 1
    <3>1. m * 4 + 2 \in 1 .. K /\ m * 4 + 3 \in 1 .. K /\ i = m * 3 + 2
      <4>1. i = m * 3 + 2 /\ m * 3 + 2 <= Len(b)
        BY <1>1, <2>1, <2>6
      <4>2. m * 4 + 2 + 1 <= Coded(Len(b))
        BY <1>1, <2>1, <4>1, Room
      <4> QED
        BY <1>2, <2>1, <4>1, <4>2
    <3>2. DecodedByte(e, i) = ((((x % 4) * 16 + (y \div 16)) * 16) % 256)
                                + (((y % 16) * 4 + (z \div 64)) \div 4)
      BY <1>3, <2>2, <2>4, <2>6, <3>1 DEF e
    <3>3. b[i] = y
      BY <1>1, <3>1 DEF y, ByteAt
    <3>4. ((((x % 4) * 16 + (y \div 16)) * 16) % 256)
            + (((y % 16) * 4 + (z \div 64)) \div 4) = y
      <4> DEFINE G(p, q, r) == ((((p % 4) * 16 + (q \div 16)) * 16) % 256)
                                 + (((q % 16) * 4 + (r \div 64)) \div 4)
      <4>1. ASSUME NEW p \in 0 .. 255, NEW q \in 0 .. 255, NEW r \in 0 .. 255
            PROVE  G(p, q, r) = q
        OBVIOUS
      <4> HIDE DEF G
      <4>2. G(x, y, z) = y
        BY <2>3, <4>1
      <4> QED
        BY <4>2 DEF G
    <3> QED
      BY <3>2, <3>3, <3>4
  <2>7. CASE (i - 1) % 3 = 2
    <3>1. m * 4 + 3 \in 1 .. K /\ m * 4 + 4 \in 1 .. K /\ i = m * 3 + 3
      <4>1. i = m * 3 + 3 /\ m * 3 + 3 <= Len(b)
        BY <1>1, <2>1, <2>7
      <4>2. m * 4 + 3 + 1 <= Coded(Len(b))
        BY <1>1, <2>1, <4>1, Room
      <4> QED
        BY <1>2, <2>1, <4>1, <4>2
    <3>2. DecodedByte(e, i) = ((((y % 16) * 4 + (z \div 64)) * 64) % 256) + (z % 64)
      BY <1>3, <2>2, <2>4, <2>7, <3>1 DEF e
    <3>3. b[i] = z
      BY <1>1, <3>1 DEF z, ByteAt
    <3>4. ((((y % 16) * 4 + (z \div 64)) * 64) % 256) + (z % 64) = z
      BY <2>3, ThirdDigitBits
    <3> QED
      BY <3>2, <3>3, <3>4
  <2> QED
    BY <2>1, <2>5, <2>6, <2>7
<1>5. Base64decode(e) = [i \in 1 .. Len(b) |-> DecodedByte(e, i)]
  BY <1>2 DEF Base64decode
<1> QED
  BY <1>1, <1>4, <1>5

-----------------------------------------------------------------------------
(* The sum of two numbers.                                                 *)

\* The sum of two words wraps around once.
LEMMA Sum ==
  ASSUME NEW x \in 0 .. Word - 1, NEW y \in 0 .. Word - 1
  PROVE  Plus32(x, y) = IF x + y < Word THEN x + y ELSE x + y - Word
<1>1. Word \in Nat /\ Word > 0
  BY WordAssumption
<1>2. CASE x + y < Word
  BY <1>1, <1>2 DEF Plus32
<1>3. CASE x + y >= Word
  <2> DEFINE z == x + y - Word
  <2>1. z \in 0 .. Word - 1 /\ x + y = z + Word
    BY <1>1, <1>3
  <2> HIDE DEF z
  <2>2. (z + Word) % Word = z
    BY <1>1, <2>1
  <2> QED
    BY <1>1, <1>3, <2>1, <2>2 DEF Plus32
<1> QED
  BY <1>1, <1>2, <1>3

-----------------------------------------------------------------------------
(* The numbers.                                                            *)

Using == pc \in {"decode", "use"}

\* The request of every place, and where an answer is.
Requested ==
  /\ pc \in {"idle", "read", "write", "msgbox", "decode", "use", "done", "crashed"}
  /\ request \in Requests \cup {NoRequest}
  /\ pc # "idle" => request \in Requests
  /\ pc \in {"read", "write", "msgbox"} => request.op = pc
  /\ Using => request.op \in {"write", "msgbox"}
  /\ answer # "none" => pc = "done"

\* What the tests of write and msgbox leave of the numbers.
Tested ==
  /\ Using /\ request.op = "write" => Size < Half /\ Lo <= Ptr /\ Ptr + Size <= Hi
  /\ Using /\ request.op = "msgbox" => Size + 1 < Half \/ Size = Word - 1
  /\ pc = "crashed" => Negative(Size)

\* Ptr and Size are words, and the ones that their texts denote.
LEMMA Numbers ==
  ASSUME Requested
  PROVE  /\ Ptr \in 0 .. Word - 1 /\ Size \in 0 .. Word - 1
         /\ NumbersRead
<1>1. request.at \in Seq(Int) /\ request.size \in Seq(Int)
  <2>1. CASE request \in Requests
    BY <2>1, MemoryAssumption
  <2>2. CASE request = NoRequest
    BY <2>2 DEF NoRequest
  <2> QED
    BY <2>1, <2>2 DEF Requested
<1>2. /\ Ptr = Denoted(request.at, 16) /\ Ptr \in 0 .. Word - 1
      /\ Size = Denoted(request.size, 10) /\ Size \in 0 .. Word - 1
  BY <1>1, StrtoulIsExact DEF Ptr, Size
<1> QED
  BY <1>2 DEF NumbersRead

\* An allocation that succeeds is of a number that is not negative.
LEMMA NumbersInit == Init => Requested /\ Tested
BY DEF Init, Requested, Tested, Using

\* Every step keeps what was read of the request and what the tests let through.
LEMMA NumbersStep == Requested /\ Tested /\ [Next]_vars => (Requested /\ Tested)'
<1> SUFFICES ASSUME Requested, Tested, [Next]_vars PROVE (Requested /\ Tested)'
  OBVIOUS
<1> USE DEF Requested, Using
<1>1. ASSUME NEW r \in Requests, Request(r) PROVE (Requested /\ Tested)'
  <2>1. r.op \in {"read", "write", "msgbox"}
    BY MemoryAssumption
  <2> QED
    BY <1>1, <2>1 DEF Request, Tested
<1>2. ASSUME UNCHANGED request PROVE Ptr' = Ptr /\ Size' = Size
  BY <1>2 DEF Ptr, Size
<1>3. CASE Read
  BY <1>3 DEF Read, Answer, Tested
<1>4. /\ Word \in Nat /\ Half \in Nat /\ Word = 2 * Half /\ Lo \in Nat /\ Hi \in Nat
      /\ Hi + 1 < Word /\ Hi - Lo < Half
      /\ Ptr \in 0 .. Word - 1 /\ Size \in 0 .. Word - 1
  BY MemoryAssumption, Numbers
<1>5. CASE Write
  <2>1. CASE Valid /\ isWithinMem1Range(Ptr) /\ isWithinMem1Range(Plus32(Ptr, Size))
    <3>1. Requested' /\ UNCHANGED request
      BY <1>5, <2>1 DEF Write, Allocate
    <3>2. pc' = IF Size >= Half THEN "crashed" ELSE "decode"
      BY <1>5, <2>1 DEF Write, Allocate, Negative
    <3>3. CASE Size >= Half
      BY <1>2, <1>5, <3>1, <3>2, <3>3 DEF Tested, Negative, Write
    <3>4. CASE Size < Half
      <4>1. Lo <= Ptr /\ Ptr + Size <= Hi
        <5>1. Plus32(Ptr, Size) = IF Ptr + Size < Word THEN Ptr + Size ELSE Ptr + Size - Word
          BY <1>4, Sum
        <5> QED
          BY <1>4, <2>1, <3>4, <5>1 DEF isWithinMem1Range
      <4>2. pc' = "decode" /\ request' = request /\ request.op = "write"
        BY <1>4, <1>5, <3>1, <3>2, <3>4 DEF Write
      <4> QED
        BY <1>2, <3>1, <3>4, <4>1, <4>2 DEF Tested
    <3> QED
      BY <1>4, <3>3, <3>4
  <2>2. CASE ~(Valid /\ isWithinMem1Range(Ptr) /\ isWithinMem1Range(Plus32(Ptr, Size)))
    BY <1>5, <2>2 DEF Write, Answer, Tested
  <2> QED
    BY <2>1, <2>2
<1>6. CASE Msgbox
  <2>1. CASE Valid
    <3> DEFINE n == Plus32(Size, 1)
    <3>1. Requested' /\ UNCHANGED request /\ request.op = "msgbox"
      BY <1>6, <2>1 DEF Msgbox, Allocate
    <3>2. pc' = IF n >= Half THEN "crashed" ELSE "decode"
      BY <1>6, <2>1 DEF Msgbox, Allocate, Negative
    <3>3. request \in Requests
      BY <1>6 DEF Msgbox
    <3>4. request.data \in Seq(Digit \cup {Pad, Bad}) /\ Len(request.data) + 1 < Half
      BY <3>3, MemoryAssumption
    <3>5. Len(request.data) \in Nat /\ 1 < Half
      BY <1>4, <3>4
    <3>6. n = IF Size + 1 < Word THEN Size + 1 ELSE 0
      <4>1. 1 \in 0 .. Word - 1
        BY <1>4, <3>5
      <4>2. n = IF Size + 1 < Word THEN Size + 1 ELSE Size + 1 - Word
        BY <1>4, <4>1, Sum
      <4> QED
        BY <1>4, <4>2
    <3> HIDE DEF n
    <3>7. ASSUME Size < Half PROVE Size <= Len(request.data)
      <4>1. isValidBase64(request.data, Size)
        BY <1>4, <2>1, <3>7 DEF Valid, Negative
      <4>2. CASE Size \in 1 .. Size
        BY <4>1, <4>2 DEF isValidBase64
      <4>3. CASE Size = 0
        BY <3>5, <4>3
      <4> QED
        BY <1>4, <4>2, <4>3
    <3>8. CASE n >= Half
      <4>1. Size >= Half
        BY <1>4, <3>4, <3>5, <3>6, <3>7, <3>8
      <4> QED
        BY <1>2, <3>1, <3>2, <3>8, <4>1 DEF Tested, Negative
    <3>9. CASE n < Half
      <4>1. Size + 1 < Half \/ Size = Word - 1
        BY <1>4, <3>6, <3>9
      <4>2. pc' = "decode"
        BY <1>4, <3>2, <3>6, <3>9
      <4> QED
        BY <1>2, <3>1, <4>1, <4>2 DEF Tested
    <3> QED
      BY <1>4, <3>6, <3>8, <3>9
  <2>2. CASE ~Valid
    BY <1>6, <2>2 DEF Msgbox, Answer, Tested
  <2> QED
    BY <2>1, <2>2
<1>7. CASE Decode
  <2>1. pc = "decode" /\ pc' = "use" /\ UNCHANGED <<request, answer>>
    BY <1>7 DEF Decode
  <2> QED
    BY <1>2, <2>1 DEF Tested
<1>8. CASE Copy
  BY <1>8 DEF Copy, Answer, Tested
<1>9. CASE Terminate
  BY <1>9 DEF Terminate, Answer, Tested
<1>10. CASE Return
  BY <1>10 DEF Return, Tested
<1>11. CASE UNCHANGED vars
  BY <1>2, <1>11 DEF vars, Tested
<1> QED
  BY <1>1, <1>3, <1>5, <1>6, <1>7, <1>8, <1>9, <1>10, <1>11 DEF Next

\* So the handler always works on what was read and tested.
THEOREM NumbersAlways == Spec => [](Requested /\ Tested)
BY NumbersInit, NumbersStep, PTL DEF Spec

\* The commands read every number right, whatever texts the requests hold.
THEOREM ReadRight == Spec => []NumbersRead
<1>1. Requested /\ Tested => NumbersRead
  BY Numbers
<1> QED
  BY <1>1, NumbersAlways, PTL

\* No request makes write store behind the end of MEM1, or before its start.
THEOREM WritesContained == Spec => []WritesWithinMem1
<1>1. Requested /\ Tested => WritesWithinMem1
  <2> SUFFICES ASSUME Requested, Tested, Using, request.op = "write"
               PROVE  Ptr .. Ptr + Size - 1 \subseteq MEM1
    BY DEF WritesWithinMem1, Using
  <2>1. Lo <= Ptr /\ Ptr + Size <= Hi
    BY DEF Tested
  <2>2. Lo \in Nat /\ Hi \in Nat /\ Word \in Nat /\ Ptr \in 0 .. Word - 1 /\ Size \in 0 .. Word - 1
    BY MemoryAssumption, Numbers
  <2> QED
    BY <2>1, <2>2 DEF MEM1
<1> QED
  BY <1>1, NumbersAlways, PTL

-----------------------------------------------------------------------------
(* What Base64decode stores.                                               *)

\* What is decoded is the digits at the beginning of the text.
LEMMA PrefixType ==
  ASSUME NEW S, NEW s \in Seq(S)
  PROVE  Prefix(s) \in 0 .. Len(s) /\ \A i \in 1 .. Prefix(s) : s[i] \in Digit
<1> DEFINE Ends == {n \in 0 .. Len(s) : n < Len(s) => s[n + 1] \notin Digit}
<1>1. Len(s) \in Nat
  OBVIOUS
<1>2. Ends \in SUBSET Nat /\ Ends # {}
  <2>1. Len(s) \in Ends
    BY <1>1
  <2> QED
    BY <1>1, <2>1
<1>3. PICK n \in Ends : \A m \in Ends : n <= m
  BY <1>2, Least
<1>4. ASSUME NEW i \in 1 .. n PROVE s[i] \in Digit
  <2>1. i - 1 \in 0 .. Len(s) /\ i - 1 < n /\ (i - 1) + 1 = i
    BY <1>1, <1>3
  <2>2. i - 1 \notin Ends
    BY <1>3, <2>1
  <2> QED
    BY <2>1, <2>2
<1>5. \E k \in 0 .. Len(s) : /\ k < Len(s) => s[k + 1] \notin Digit
                             /\ \A i \in 1 .. k : s[i] \in Digit
  BY <1>3, <1>4
<1> QED
  BY <1>5 DEF Prefix

\* A byte is made of characters that are there.
LEMMA DecodedFrom ==
  ASSUME NEW n \in Nat, NEW i \in 1 .. DecodedLength(n)
  PROVE  LET m == (i - 1) \div 3
         IN  /\ m \in Nat
             /\ (i - 1) % 3 \in 0 .. 2
             /\ (i - 1) % 3 = 0 => m * 4 + 2 <= n
             /\ (i - 1) % 3 = 1 => m * 4 + 3 <= n
             /\ (i - 1) % 3 = 2 => m * 4 + 4 <= n
<1> DEFINE m == (i - 1) \div 3
           c == (i - 1) % 3
           q == (n - Rest(n)) \div 4
           r == Rest(n)
<1>1. n = 4 * q + r /\ q \in Nat /\ r \in 0 .. 4 /\ (r = 0 => q = 0)
  BY DEF Rest
<1>2. DecodedLength(n) = q * 3 + IF r = 0 THEN 0 ELSE r - 1
  BY DEF DecodedLength
<1> HIDE DEF q, r
<1>3. i \in Nat \ {0} /\ i <= q * 3 + (IF r = 0 THEN 0 ELSE r - 1)
  BY <1>1, <1>2
<1>4. m \in Nat /\ c \in 0 .. 2 /\ i = m * 3 + 1 + c
  BY <1>3, ByThrees
<1> HIDE DEF m, c
<1>5. /\ c = 0 => m * 4 + 2 <= n
      /\ c = 1 => m * 4 + 3 <= n
      /\ c = 2 => m * 4 + 4 <= n
  <2>1. m <= q
    BY <1>1, <1>3, <1>4
  <2>2. CASE m = q
    BY <1>1, <1>3, <1>4, <2>2
  <2>3. CASE m + 1 <= q
    BY <1>1, <1>3, <1>4, <2>3
  <2> QED
    BY <1>1, <1>4, <2>1, <2>2, <2>3
<1> QED
  BY <1>4, <1>5 DEF m, c

\* A decoded length is a number.
LEMMA DecodedLengthType == ASSUME NEW n \in Nat PROVE DecodedLength(n) \in Nat
<1>1. Rest(n) \in Nat /\ Rest(n) <= n
  BY DEF Rest
<1> QED
  BY <1>1 DEF DecodedLength

\* Base64decode stores bytes, whatever the text.
LEMMA DecodeType ==
  ASSUME Octets, NEW S, NEW s \in Seq(S)
  PROVE  Base64decode(s) \in Seq(Byte)
<1>1. U = 4 /\ U ^ 2 = 16 /\ U ^ 3 = 64 /\ U ^ 4 = 256 /\ Byte = 0 .. 255 /\ Digit = 0 .. 63
  BY DEF Octets, Byte, Digit
<1>2. Prefix(s) \in Nat /\ \A i \in 1 .. Prefix(s) : s[i] \in Digit
  <2>1. Len(s) \in Nat
    OBVIOUS
  <2> QED
    BY <2>1, PrefixType
<1>3. ASSUME NEW i \in 1 .. DecodedLength(Prefix(s)) PROVE DecodedByte(s, i) \in Byte
  <2> DEFINE m == (i - 1) \div 3
             c == (i - 1) % 3
  <2>1. /\ m \in Nat /\ c \in 0 .. 2
        /\ c = 0 => m * 4 + 2 <= Prefix(s)
        /\ c = 1 => m * 4 + 3 <= Prefix(s)
        /\ c = 2 => m * 4 + 4 <= Prefix(s)
    BY <1>2, DecodedFrom
  <2>2. DecodedByte(s, i) =
          CASE c = 0 -> s[m * 4 + 1] * 4 + (s[m * 4 + 2] \div 16)
            [] c = 1 -> ((s[m * 4 + 2] * 16) % 256) + (s[m * 4 + 3] \div 4)
            [] OTHER -> ((s[m * 4 + 3] * 64) % 256) + s[m * 4 + 4]
    BY <1>1 DEF DecodedByte
  <2> HIDE DEF m, c
  <2>3. CASE c = 0
    <3> DEFINE x == s[m * 4 + 1]
               y == s[m * 4 + 2]
    <3>1. x \in 0 .. 63 /\ y \in 0 .. 63
      BY <1>1, <1>2, <2>1, <2>3
    <3>2. DecodedByte(s, i) = x * 4 + (y \div 16)
      BY <2>2, <2>3
    <3> HIDE DEF x, y
    <3> QED
      BY <1>1, <3>1, <3>2
  <2>4. CASE c = 1
    <3> DEFINE x == s[m * 4 + 2]
               y == s[m * 4 + 3]
    <3>1. x \in 0 .. 63 /\ y \in 0 .. 63
      BY <1>1, <1>2, <2>1, <2>4
    <3>2. DecodedByte(s, i) = ((x * 16) % 256) + (y \div 4)
      BY <2>2, <2>4
    <3> HIDE DEF x, y
    <3> QED
      BY <1>1, <3>1, <3>2
  <2>5. CASE c = 2
    <3> DEFINE x == s[m * 4 + 3]
               y == s[m * 4 + 4]
    <3>1. x \in 0 .. 63 /\ y \in 0 .. 63
      BY <1>1, <1>2, <2>1, <2>5
    <3>2. DecodedByte(s, i) = ((x * 64) % 256) + y
      BY <2>2, <2>5
    <3> HIDE DEF x, y
    <3> QED
      BY <1>1, <3>1, <3>2
  <2> QED
    BY <2>1, <2>3, <2>4, <2>5
<1>4. DecodedLength(Prefix(s)) \in Nat
  BY <1>2, DecodedLengthType
<1> QED
  BY <1>3, <1>4 DEF Base64decode

-----------------------------------------------------------------------------
(* The contents of MEM1, of decodedData or msgboxText, and of the answer.  *)

Stored == Append(Base64decode(request.data), 0)

\* TypeOK without the places.
Contents ==
  /\ memory \in [MEM1 -> Byte \cup {Junk}]
  /\ buffer \in Seq(Byte \cup {Junk})
  /\ overrun \in Nat
  /\ answer \in {"none", "error", "ok"}
  /\ bytes \in Seq(Byte \cup {Junk, Outside} \cup 0 .. Word - 1)

\* How long the buffer is, and what Base64decode has left in it.
Filled ==
  /\ Using => Len(buffer) = IF request.op = "write" THEN Size ELSE Plus32(Size, 1)
  /\ pc = "use" =>
       /\ \A i \in 1 .. Len(buffer) : i <= Len(Stored) => buffer[i] = Stored[i]
       /\ overrun = IF Len(Stored) > Len(buffer) THEN Len(Stored) - Len(buffer) ELSE 0

Inv == Requested /\ Tested /\ Contents /\ Filled /\ AnswersRight

\* The order of the sizes: where MEM1 lies in the words, and that an answer is small.
LEMMA Limits ==
  ASSUME Requested
  PROVE  /\ Word \in Nat /\ Half \in Nat /\ Word = 2 * Half /\ Half > 0
         /\ Lo \in Nat /\ Hi \in Nat /\ Hi + 1 < Word /\ responseSize < Half /\ responseSize \in Nat
         /\ Ptr \in 0 .. Word - 1 /\ Size \in 0 .. Word - 1
<1>1. Half > 0
  BY MemoryAssumption, WordAssumption
<1> QED
  BY <1>1, MemoryAssumption, Numbers

\* What an honest request makes Base64decode store.
LEMMA HonestStored ==
  ASSUME Octets, Requested, pc # "idle", NEW d \in Payloads, Honest(d)
  PROVE  /\ d \in Seq(Byte) /\ Len(d) = Size /\ Size < Word - 1
         /\ Stored = Append(d, 0) /\ Len(Stored) = Size + 1
<1>1. d \in Seq(Byte)
  BY MemoryAssumption
<1>2. Len(d) = Size /\ request.data = Base64encode(d)
  BY DEF Honest
<1>3. Stored = Append(d, 0)
  BY <1>1, <1>2, DecodeInvertsEncode DEF Stored
<1>4. Len(d) \in Nat /\ Len(Stored) = Len(d) + 1
  BY <1>1, <1>3
<1>5. Len(request.data) = ((Len(d) + 2) \div 3) * 4
  BY <1>2, <1>4 DEF Base64encode
<1>6. Len(request.data) + 1 < Half
  BY MemoryAssumption DEF Requested
<1>7. Size < Word - 1
  <2>1. Len(d) <= ((Len(d) + 2) \div 3) * 4
    BY <1>4
  <2>2. Size + 1 < Half
    BY <1>2, <1>4, <1>5, <1>6, <2>1, Limits
  <2> QED
    BY <1>2, <1>4, <2>2, Limits
<1> QED
  BY <1>1, <1>2, <1>3, <1>4, <1>7

\* It holds at first.
LEMMA InvInit == ASSUME Octets PROVE Init => Inv
<1> SUFFICES ASSUME Init PROVE Inv
  OBVIOUS
<1>1. Requested /\ Tested
  BY NumbersInit
<1>2. 0 \in Byte
  BY DEF Octets, Byte
<1>3. Contents
  BY <1>2 DEF Init, Contents
<1> QED
  BY <1>1, <1>3 DEF Init, Inv, Filled, AnswersRight, Using, ReadsRightUnlessWrapped, TextIsData

\* read: the bytes are those asked for where the end does not wrap around.
LEMMA ReadStep == Inv /\ Read => (Contents /\ Filled /\ AnswersRight)'
<1> SUFFICES ASSUME Inv, Read PROVE (Contents /\ Filled /\ AnswersRight)'
  OBVIOUS
<1>1. /\ pc = "read" /\ request.op = "read" /\ UNCHANGED <<request, memory, buffer, overrun>>
      /\ pc' = "done" /\ Ptr' = Ptr /\ Size' = Size
  BY DEF Inv, Requested, Read, Answer, Ptr, Size
<1>2. Filled'
  BY <1>1 DEF Filled, Using
<1>3. TextIsData'
  BY <1>1 DEF TextIsData
<1>4. CASE Size > responseSize \/ Ptr < Lo \/ Plus32(Ptr, Size) > Hi
  <2>1. answer' = "error" /\ bytes' = <<>>
    BY <1>4 DEF Read, Answer
  <2> QED
    BY <1>1, <1>2, <1>3, <2>1 DEF Inv, Contents, AnswersRight, ReadsRightUnlessWrapped
<1>5. CASE ~(Size > responseSize \/ Ptr < Lo \/ Plus32(Ptr, Size) > Hi)
  <2> DEFINE at(i) == Plus32(Ptr, i - 1)
             got(i) == IF at(i) \in MEM1 THEN memory[at(i)] ELSE Outside
  <2>1. answer' = "ok" /\ bytes' = [i \in 1 .. Size |-> got(i)]
    BY <1>5 DEF Read, Answer
  <2>2. \A i : got(i) \in Byte \cup {Junk, Outside}
    BY DEF Inv, Contents
  <2>3. Size \in Nat
    BY Limits DEF Inv
  <2>4. bytes' \in Seq(Byte \cup {Junk, Outside} \cup 0 .. Word - 1) /\ Len(bytes') = Size
    <3> HIDE DEF got
    <3> QED
      BY <2>1, <2>2, <2>3
  <2>5. ASSUME Ptr + Size < Word
        PROVE  /\ Ptr .. Ptr + Size - 1 \subseteq MEM1
               /\ \A i \in 1 .. Size : bytes'[i] = memory[Ptr + i - 1]
    <3>1. Plus32(Ptr, Size) = Ptr + Size
      BY <2>5, Limits, Sum DEF Inv
    <3>2. Ptr .. Ptr + Size - 1 \subseteq MEM1
      BY <1>5, <3>1, Limits DEF Inv, MEM1
    <3>3. ASSUME NEW i \in 1 .. Size PROVE bytes'[i] = memory[Ptr + i - 1]
      <4>1. i - 1 \in 0 .. Word - 1 /\ Ptr + (i - 1) < Word /\ Ptr + i - 1 = Ptr + (i - 1)
        BY <2>3, <2>5, Limits DEF Inv
      <4>2. at(i) = Ptr + (i - 1)
        BY <4>1, Limits, Sum DEF Inv
      <4>3. at(i) \in MEM1
        BY <2>3, <3>2, <4>1, <4>2, Limits DEF Inv
      <4>4. bytes'[i] = memory[at(i)]
        BY <2>1, <4>3
      <4> QED
        BY <4>1, <4>2, <4>4
    <3> QED
      BY <3>2, <3>3
  <2>6. ReadsRightUnlessWrapped'
    <3>1. CASE Ptr + Size < Word
      BY <1>1, <2>4, <2>5, <3>1 DEF ReadsRightUnlessWrapped
    <3>2. CASE Ptr + Size >= Word
      BY <1>1, <3>2 DEF ReadsRightUnlessWrapped, Wraps
    <3> QED
      BY <3>1, <3>2, <2>3, Limits DEF Inv
  <2> QED
    BY <1>1, <1>2, <1>3, <2>1, <2>4, <2>6 DEF Inv, Contents, AnswersRight
<1> QED
  BY <1>4, <1>5

\* write and msgbox, up to the decoding: an empty answer, a fresh buffer.
LEMMA AllocateStep == Inv /\ (Write \/ Msgbox) => (Contents /\ Filled /\ AnswersRight)'
<1> SUFFICES ASSUME Inv, Write \/ Msgbox PROVE (Contents /\ Filled /\ AnswersRight)'
  OBVIOUS
<1>1. /\ UNCHANGED <<request, memory, overrun>> /\ pc \in {"write", "msgbox"} /\ request.op = pc
      /\ answer = "none" /\ pc # "idle"
  BY DEF Inv, Requested, Contents, Write, Msgbox
<1>2. Ptr' = Ptr /\ Size' = Size
  BY <1>1 DEF Ptr, Size
<1> DEFINE n == IF request.op = "write" THEN Size ELSE Plus32(Size, 1)
<1>3. \/ UNCHANGED buffer /\ answer' = "error" /\ bytes' = <<>> /\ pc' = "done"
      \/ Allocate(n) /\ UNCHANGED <<answer, bytes>>
  BY <1>1 DEF Write, Msgbox, Answer
<1>4. CASE UNCHANGED buffer /\ answer' = "error" /\ bytes' = <<>> /\ pc' = "done"
  BY <1>1, <1>4 DEF Inv, Contents, Filled, Using, AnswersRight, ReadsRightUnlessWrapped, TextIsData
<1>5. CASE Allocate(n) /\ UNCHANGED <<answer, bytes>>
  <2>1. n \in Nat
    <3>1. 1 \in 0 .. Word - 1 /\ Size \in 0 .. Word - 1
      BY Limits DEF Inv
    <3>2. Plus32(Size, 1) \in Nat
      BY <3>1, Sum, Limits DEF Inv
    <3> QED
      BY <3>1, <3>2
  <2> HIDE DEF n
  <2>2. \/ pc' = "crashed" /\ UNCHANGED buffer
        \/ pc' = "decode" /\ buffer' = [i \in 1 .. n |-> Junk]
    BY <1>5 DEF Allocate
  <2>3. Contents'
    BY <1>1, <1>5, <2>1, <2>2 DEF Inv, Contents
  <2>4. ASSUME pc' = "decode" PROVE Len(buffer') = n
    BY <2>1, <2>2, <2>4
  <2>5. Filled'
    <3>1. pc' # "use"
      BY <2>2
    <3>2. Using' => pc' = "decode"
      BY <3>1 DEF Using
    <3> QED
      BY <1>1, <1>2, <2>4, <3>1, <3>2 DEF Filled, n
  <2> QED
    BY <1>1, <1>5, <2>3, <2>5 DEF AnswersRight, ReadsRightUnlessWrapped, TextIsData
<1> QED
  BY <1>3, <1>4, <1>5

\* What is decoded is the data that the request coded.
LEMMA DecodeStep == Octets /\ Inv /\ Decode => (Contents /\ Filled /\ AnswersRight)'
<1> SUFFICES ASSUME Octets, Inv, Decode PROVE (Contents /\ Filled /\ AnswersRight)'
  OBVIOUS
<1>1. /\ pc = "decode" /\ pc' = "use" /\ UNCHANGED <<request, memory, answer, bytes>>
      /\ buffer' = [i \in 1 .. Len(buffer) |-> IF i <= Len(Stored) THEN Stored[i] ELSE buffer[i]]
      /\ overrun' = IF Len(Stored) > Len(buffer) THEN Len(Stored) - Len(buffer) ELSE 0
  BY DEF Decode, Stored
<1>2. Ptr' = Ptr /\ Size' = Size /\ Stored' = Stored
  BY <1>1 DEF Ptr, Size, Stored
<1>3. answer = "none"
  BY <1>1 DEF Inv, Requested
<1>4. Stored \in Seq(Byte)
  <2>1. request.data \in Seq(Digit \cup {Pad, Bad})
    BY <1>1, MemoryAssumption DEF Inv, Requested
  <2>2. 0 \in Byte
    BY DEF Octets, Byte
  <2>3. Base64decode(request.data) \in Seq(Byte)
    BY <2>1, DecodeType
  <2> QED
    BY <2>2, <2>3 DEF Stored
<1>5. buffer \in Seq(Byte \cup {Junk})
  BY DEF Inv, Contents
<1>6. Len(buffer) \in Nat /\ Len(Stored) \in Nat
  BY <1>4, <1>5
<1>7. \A i \in 1 .. Len(buffer) :
        (IF i <= Len(Stored) THEN Stored[i] ELSE buffer[i]) \in Byte \cup {Junk}
  <2> SUFFICES ASSUME NEW i \in 1 .. Len(buffer)
               PROVE  (IF i <= Len(Stored) THEN Stored[i] ELSE buffer[i]) \in Byte \cup {Junk}
    OBVIOUS
  <2>1. CASE i <= Len(Stored)
    <3>1. i \in 1 .. Len(Stored)
      BY <1>6, <2>1
    <3>2. Stored[i] \in Byte
      BY <1>4, <3>1
    <3> QED
      BY <2>1, <3>2
  <2>2. CASE ~(i <= Len(Stored))
    BY <1>5, <2>2
  <2> QED
    BY <2>1, <2>2
<1>8. buffer' \in Seq(Byte \cup {Junk}) /\ Len(buffer') = Len(buffer)
  BY <1>1, <1>6, <1>7
<1>9. Contents'
  BY <1>1, <1>6, <1>8 DEF Inv, Contents
<1>10. Filled'
  BY <1>1, <1>2, <1>6, <1>8 DEF Inv, Filled, Using
<1> QED
  BY <1>1, <1>3, <1>9, <1>10 DEF AnswersRight, ReadsRightUnlessWrapped, TextIsData

\* What is copied to MEM1 is what was decoded.
LEMMA CopyStep == Inv /\ Copy => (Contents /\ Filled /\ AnswersRight)'
<1> SUFFICES ASSUME Inv, Copy PROVE (Contents /\ Filled /\ AnswersRight)'
  OBVIOUS
<1>1. /\ pc = "use" /\ request.op = "write" /\ pc' = "done" /\ UNCHANGED <<request, overrun>>
      /\ buffer' = <<>> /\ answer' = "ok" /\ bytes' = <<Size>>
  BY DEF Copy, Answer
<1>2. Size \in 0 .. Word - 1 /\ Ptr \in 0 .. Word - 1 /\ Word \in Nat
  BY Limits DEF Inv
<1>3. Len(buffer) = Size /\ buffer \in Seq(Byte \cup {Junk})
  BY <1>1 DEF Inv, Filled, Using, Contents
<1>4. ASSUME NEW a \in Ptr .. Ptr + Size - 1 PROVE buffer[a - Ptr + 1] \in Byte \cup {Junk}
  <2>1. a - Ptr + 1 \in 1 .. Len(buffer)
    BY <1>2, <1>3
  <2> QED
    BY <1>3, <2>1
<1>5. memory' \in [MEM1 -> Byte \cup {Junk}]
  BY <1>4 DEF Copy, Inv, Contents
<1>6. Contents'
  BY <1>1, <1>2, <1>5 DEF Inv, Contents
<1> QED
  BY <1>1, <1>6 DEF Filled, Using, AnswersRight, ReadsRightUnlessWrapped, TextIsData

\* msgbox: the text and its terminator fill the buffer.
LEMMA TerminateStep == Octets /\ Inv /\ Terminate => (Contents /\ Filled /\ AnswersRight)'
<1> SUFFICES ASSUME Octets, Inv, Terminate PROVE (Contents /\ Filled /\ AnswersRight)'
  OBVIOUS
<1>1. /\ pc = "use" /\ request.op = "msgbox" /\ pc' = "done" /\ UNCHANGED <<request, memory, overrun>>
      /\ buffer' = [i \in 1 .. Len(buffer) |-> IF i = Size + 1 THEN 0 ELSE buffer[i]]
      /\ answer' = "ok" /\ bytes' = <<Size>>
  BY DEF Terminate, Answer
<1>2. Size \in 0 .. Word - 1 /\ Word \in Nat
  BY Limits DEF Inv
<1>3. buffer \in Seq(Byte \cup {Junk}) /\ Len(buffer) \in Nat /\ 0 \in Byte
  BY DEF Inv, Contents, Octets, Byte
<1>4. buffer' \in Seq(Byte \cup {Junk}) /\ Len(buffer') = Len(buffer)
  BY <1>1, <1>3
<1>5. Contents'
  BY <1>1, <1>2, <1>4 DEF Inv, Contents
<1>6. ASSUME NEW d \in Payloads, Honest(d)
      PROVE  buffer' = Append(d, 0) /\ overrun' = 0
  <2>1. /\ d \in Seq(Byte) /\ Len(d) = Size /\ Size < Word - 1
        /\ Stored = Append(d, 0) /\ Len(Stored) = Size + 1
    BY <1>1, <1>6, HonestStored DEF Inv
  <2>2. Plus32(Size, 1) = Size + 1
    BY <1>2, <2>1, Sum, Limits DEF Inv
  <2>3. Len(buffer) = Size + 1
    BY <1>1, <2>2 DEF Inv, Filled, Using
  <2>4. overrun = 0 /\ \A i \in 1 .. Size + 1 : buffer[i] = Append(d, 0)[i]
    BY <1>1, <1>2, <2>1, <2>3 DEF Inv, Filled
  <2>5. Append(d, 0) \in Seq(Byte) /\ Len(Append(d, 0)) = Size + 1 /\ Append(d, 0)[Size + 1] = 0
    BY <1>2, <1>3, <2>1
  <2>6. \A i \in 1 .. Size + 1 : buffer'[i] = Append(d, 0)[i]
    BY <1>1, <1>2, <2>3, <2>4, <2>5
  <2>7. buffer' = Append(d, 0)
    BY <1>2, <1>4, <2>3, <2>5, <2>6
  <2> QED
    BY <1>1, <2>4, <2>7
<1>7. \A d \in Payloads : Honest(d)' <=> Honest(d)
  BY <1>1 DEF Honest, Size
<1>8. TextIsData'
  BY <1>6, <1>7 DEF TextIsData
<1> QED
  BY <1>1, <1>5, <1>8 DEF Filled, Using, AnswersRight, ReadsRightUnlessWrapped

\* Every step of a handler keeps it.
LEMMA InvStep == ASSUME Octets PROVE Inv /\ [Next]_vars => Inv'
<1> SUFFICES ASSUME Inv, [Next]_vars PROVE Inv'
  OBVIOUS
<1>1. (Requested /\ Tested)'
  BY NumbersStep DEF Inv
<1> SUFFICES (Contents /\ Filled /\ AnswersRight)'
  BY <1>1 DEF Inv
<1>2. ASSUME NEW r \in Requests, Request(r) PROVE (Contents /\ Filled /\ AnswersRight)'
  <2>1. answer' = "none" /\ pc' \notin {"decode", "use"}
    BY <1>2, MemoryAssumption DEF Request, Inv, Requested
  <2> QED
    BY <1>2, <2>1 DEF Request, Inv, Contents, Filled, Using, AnswersRight,
                      ReadsRightUnlessWrapped, TextIsData
<1>3. CASE Return
  <2>1. Contents'
    BY <1>3 DEF Return, Inv, Contents
  <2> QED
    BY <1>3, <2>1 DEF Return, Filled, Using, AnswersRight, ReadsRightUnlessWrapped, TextIsData
<1>4. CASE UNCHANGED vars
  <2>1. UNCHANGED <<Ptr, Size, Stored>> /\ \A d \in Payloads : Honest(d)' <=> Honest(d)
    BY <1>4 DEF vars, Ptr, Size, Stored, Honest
  <2>2. Contents'
    BY <1>4 DEF vars, Inv, Contents
  <2>3. Filled'
    BY <1>4, <2>1 DEF vars, Inv, Filled, Using
  <2>4. AnswersRight'
    BY <1>4, <2>1 DEF vars, Inv, AnswersRight, ReadsRightUnlessWrapped, Wraps, TextIsData
  <2> QED
    BY <2>2, <2>3, <2>4
<1> QED
  BY <1>2, <1>3, <1>4, ReadStep, AllocateStep, DecodeStep, CopyStep, TerminateStep DEF Next

\* So it always holds.
LEMMA InvAlways == ASSUME Octets PROVE Spec => []Inv
BY InvInit, InvStep, PTL DEF Spec

\* Every variable keeps its shape: no garbage gets into MEM1 but what the code
\* copies of a buffer that Base64decode has not filled.
THEOREM TypeCorrect == ASSUME Octets PROVE Spec => []TypeOK
<1>1. Inv => TypeOK
  BY DEF Inv, Requested, Contents, TypeOK
<1> QED
  BY <1>1, InvAlways, PTL

\* read answers with the bytes asked for, which are of MEM1, unless the end of its
\* range wraps around, and
\* msgbox shows what an honest client has sent, of any length, and the text fits.
THEOREM AnswersAreRight == ASSUME Octets PROVE Spec => []AnswersRight
<1>1. Inv => AnswersRight
  BY DEF Inv
<1> QED
  BY <1>1, InvAlways, PTL

\* The decoding stores one byte too many in decodedData and none in msgboxText,
\* and only lengths that are negative make an allocation fail.
THEOREM DecodingFits == ASSUME Octets PROVE Spec => []DecodesIntoItsBuffer
<1>1. Inv => DecodesIntoItsBuffer
  <2> SUFFICES ASSUME Inv PROVE DecodesIntoItsBuffer
    OBVIOUS
  <2>1. /\ Size \in 0 .. Word - 1 /\ Word \in Nat /\ Half \in Nat /\ Word = 2 * Half
        /\ Hi + 1 < Word /\ Half > 0
    BY Limits DEF Inv
  <2>2. ASSUME pc = "use", NEW d \in Payloads, Honest(d)
        PROVE  overrun = IF request.op = "write" THEN 1 ELSE 0
    <3>1. Len(Stored) = Size + 1 /\ Size < Word - 1
      BY <2>2, HonestStored DEF Inv
    <3>2. Plus32(Size, 1) = Size + 1
      BY <2>1, <3>1, Sum
    <3>3. Len(buffer) = IF request.op = "write" THEN Size ELSE Size + 1
      BY <2>2, <3>2 DEF Inv, Filled, Using
    <3> QED
      BY <2>1, <2>2, <3>1, <3>3 DEF Inv, Filled
  <2>3. ASSUME Using, Negative(Size) PROVE request.op = "msgbox" /\ Size = Word - 1
    <3>1. request.op \in {"write", "msgbox"} /\ Size >= Half
      BY <2>3 DEF Inv, Requested, Negative
    <3> QED
      BY <2>1, <2>3, <3>1 DEF Inv, Tested
  <2>4. pc = "crashed" => Negative(Size)
    BY DEF Inv, Tested
  <2> QED
    BY <2>2, <2>3, <2>4 DEF DecodesIntoItsBuffer, Using
<1> QED
  BY <1>1, InvAlways, PTL

\* An accepted write of an honest client puts its data in MEM1, every byte in
\* its place, and changes no other byte.
THEOREM WritesRight == ASSUME Octets PROVE Spec => WritesTheData
<1> DEFINE Right ==
      pc = "use" /\ request.op = "write" =>
        \A d \in Payloads : Honest(d) =>
          \A a \in MEM1 : memory'[a] = IF a \in Ptr .. Ptr + Len(d) - 1
                                       THEN d[a - Ptr + 1] ELSE memory[a]
<1>1. Inv /\ [Next]_vars => [Right]_vars
  <2> SUFFICES ASSUME Inv, Next, pc = "use", request.op = "write",
                      NEW d \in Payloads, Honest(d), NEW a \in MEM1
               PROVE  memory'[a] = IF a \in Ptr .. Ptr + Len(d) - 1
                                   THEN d[a - Ptr + 1] ELSE memory[a]
    OBVIOUS
  <2>1. Copy
    BY MemoryAssumption DEF Next, Request, Read, Write, Msgbox, Decode, Terminate, Return
  <2>2. /\ d \in Seq(Byte) /\ Len(d) = Size /\ Stored = Append(d, 0) /\ Len(Stored) = Size + 1
        /\ Len(buffer) = Size
        /\ \A i \in 1 .. Len(buffer) : i <= Len(Stored) => buffer[i] = Stored[i]
    BY HonestStored DEF Inv, Filled, Using
  <2>3. Ptr \in 0 .. Word - 1 /\ Size \in 0 .. Word - 1 /\ Word \in Nat
    BY Limits DEF Inv
  <2>4. memory'[a] = IF a \in Ptr .. Ptr + Size - 1 THEN buffer[a - Ptr + 1] ELSE memory[a]
    BY <2>1 DEF Copy
  <2>5. ASSUME a \in Ptr .. Ptr + Size - 1 PROVE buffer[a - Ptr + 1] = d[a - Ptr + 1]
    <3> DEFINE i == a - Ptr + 1
    <3>1. i \in 1 .. Size
      BY <2>3, <2>5
    <3> HIDE DEF i
    <3>2. buffer[i] = Append(d, 0)[i]
      BY <2>2, <2>3, <3>1
    <3>3. Append(d, 0)[i] = d[i]
      BY <2>2, <2>3, <3>1
    <3> QED
      BY <3>2, <3>3 DEF i
  <2> QED
    BY <2>2, <2>4, <2>5
<1> QED
  BY <1>1, InvAlways, PTL DEF Spec, WritesTheData
=============================================================================
