----------------------------- MODULE JsonProofs -----------------------------
(***************************************************************************)
(* coreJSON keeps to the text that it is given, whatever text that is: its *)
(* places, the stack of skipCollection and what it hands out.  For each    *)
(* function that skips something there is a lemma that says where it ends. *)
(***************************************************************************)
EXTENDS Json, NumberInduction, FiniteSetTheorems, SequenceTheorems

Text == Seq(STRING)

Statuses == {Partial, Success, IllegalDocument, MaxDepthExceeded, NotFound, BadParameter}

\* What a loop keeps from turn to turn, it keeps.
LEMMA LoopKeeps ==
  ASSUME NEW N \in Nat, NEW f, NEW T,
         f[0] \in T[0], \A n \in 1 .. N : f[n - 1] \in T[n - 1] => f[n] \in T[n]
  PROVE  f[N] \in T[N]
<1> DEFINE S == {n \in Nat : n <= N => f[n] \in T[n]}
<1>1. 0 \in S
  OBVIOUS
<1>2. ASSUME NEW n \in Nat, n \in S PROVE n + 1 \in S
  <2>1. n + 1 <= N => n + 1 \in 1 .. N /\ (n + 1) - 1 = n
    OBVIOUS
  <2> QED
    BY <1>2, <2>1
<1> HIDE DEF S
<1>3. N \in S
  BY <1>1, <1>2, Induction
<1> QED
  BY <1>3 DEF S

LEMMA LoopStays ==
  ASSUME NEW N \in Nat, NEW f, NEW T,
         f[0] \in T, \A n \in 1 .. N : f[n - 1] \in T => f[n] \in T
  PROVE  f[N] \in T
<1> DEFINE U == [n \in Nat |-> T]
<1>1. \A n \in 0 .. N : U[n] = T
  OBVIOUS
<1> HIDE DEF U
<1>2. f[0] \in U[0] /\ \A n \in 1 .. N : f[n - 1] \in U[n - 1] => f[n] \in U[n]
  BY <1>1
<1>3. f[N] \in U[N]
  BY <1>2, LoopKeeps
<1> QED
  BY <1>1, <1>3

\* The turns of a loop whose step g is a function on T.
Loops(f, T, e, g, N) ==
  f \in [0 .. N -> T] /\ f[0] = e /\ \A n \in 1 .. N : f[n] = g[f[n - 1]]

LEMMA Loop ==
  ASSUME NEW T, NEW e \in T, NEW g \in [T -> T], NEW N \in Nat
  PROVE  \E f : Loops(f, T, e, g, N)
<1> DEFINE h == [x \in T |-> [n \in Nat |-> g[x]]]
<1>1. h \in [T -> [Nat -> T]] /\ \A x \in T : \A n \in Nat : h[x][n] = g[x]
  OBVIOUS
<1> HIDE DEF h
<1>2. PICK f : Recurses(f, T, e, h, N)
  BY <1>1, Recursion
<1>3. ASSUME NEW n \in 1 .. N PROVE f[n] = g[f[n - 1]]
  <2>1. f[n - 1] \in T /\ f[n] = h[f[n - 1]][n]
    BY <1>2 DEF Recurses
  <2> QED
    BY <1>1, <2>1
<1> QED
  BY <1>2, <1>3 DEF Recurses, Loops

-----------------------------------------------------------------------------
(* Scalars.                                                                *)

LEMMA PastPlace ==
  ASSUME NEW b \in Text, NEW i \in Nat \ {0}, NEW S
  PROVE  LET p == Past(b, i, S) IN
         /\ p \in Nat /\ p >= i
         /\ IF i > Len(b) THEN p = i ELSE p <= Len(b) + 1
         /\ p <= Len(b) => b[p] \notin S
         /\ \A k \in i .. p - 1 : b[k] \in S
<1>1. Len(b) \in Nat
  BY DEF Text
<1>2. CASE i > Len(b)
  BY <1>1, <1>2 DEF Past
<1>3. CASE i <= Len(b)
  <2> DEFINE End(j) == /\ j <= Len(b) => b[j] \notin S
                       /\ \A k \in i .. j - 1 : b[k] \in S
             R == {j \in i .. Len(b) + 1 : j <= Len(b) => b[j] \notin S}
  <2>1. Past(b, i, S) = CHOOSE j \in i .. Len(b) + 1 : End(j)
    BY <1>1, <1>3 DEF Past
  <2>2. Len(b) + 1 \in R /\ R \in SUBSET Nat
    BY <1>1, <1>3
  <2>3. PICK j \in R : \A m \in R : j <= m
    BY <2>2, Least
  <2>4. ASSUME NEW k \in i .. j - 1 PROVE b[k] \in S
    <3>1. k \in i .. Len(b) + 1 /\ k < j
      BY <1>1, <2>2, <2>3
    <3> QED
      BY <2>3, <3>1
  <2>5. j \in i .. Len(b) + 1 /\ End(j)
    BY <2>3, <2>4
  <2> HIDE DEF End
  <2>6. Past(b, i, S) \in i .. Len(b) + 1 /\ End(Past(b, i, S))
    BY <2>1, <2>5
  <2> QED
    BY <1>1, <1>3, <2>6 DEF End
<1> QED
  BY <1>1, <1>2, <1>3

\* So it is for blanks: behind i, and at a character that is none.
LEMMA SpacePlace ==
  ASSUME NEW b \in Text, NEW i \in Nat \ {0}
  PROVE  LET p == skipSpace(b, i) IN
         /\ p \in Nat /\ p >= i
         /\ IF i > Len(b) THEN p = i ELSE p <= Len(b) + 1
         /\ p <= Len(b) => b[p] # Space
         /\ \A k \in i .. p - 1 : b[k] = Space
BY PastPlace DEF skipSpace

\* A place where something that begins at i is left behind, or none.
Skips(b, i, j) == j = Miss \/ j \in i + 1 .. Len(b) + 1

LEMMA EscapePlace ==
  ASSUME NEW b \in Text, NEW i \in 1 .. Len(b)
  PROVE  Skips(b, i, skipEscape(b, i))
<1>1. Len(b) \in Nat
  BY DEF Text
<1> DEFINE j == skipOneHexEscape(b, i)
           k == skipOneHexEscape(b, j)
<1>2. j = Miss \/ (j = i + 3 /\ j <= Len(b))
  BY <1>1 DEF skipOneHexEscape, Miss
<1>3. j # Miss => k = Miss \/ (k = j + 3 /\ k <= Len(b))
  BY <1>1, <1>2 DEF skipOneHexEscape, Miss
<1>4. skipHexEscape(b, i) \in {Miss, j, k} /\ (j = Miss => skipHexEscape(b, i) = Miss)
  BY DEF skipHexEscape, Paired
<1> HIDE DEF j, k
<1>5. Skips(b, i, skipHexEscape(b, i))
  BY <1>1, <1>2, <1>3, <1>4 DEF Skips, Miss
<1>6. i < Len(b) => skipEscape(b, i) \in {Miss, skipHexEscape(b, i), i + 2}
  BY <1>1 DEF skipEscape
<1>7. i = Len(b) => skipEscape(b, i) = Miss
  BY <1>1 DEF skipEscape
<1> QED
  BY <1>1, <1>5, <1>6, <1>7 DEF Skips, Miss

\* A string ends with a quote that is not the one it begins with.
LEMMA StringPlace ==
  ASSUME NEW b \in Text, NEW i \in Nat \ {0}
  PROVE  LET e == skipString(b, i) IN
         \/ e = Miss
         \/ i <= Len(b) /\ b[i] = Quote /\ e \in i + 2 .. Len(b) + 1 /\ b[e - 1] = Quote
<1> DEFINE N == Len(b)
           Ends(e) == e = Miss \/ (e \in i + 2 .. N + 1 /\ b[e - 1] = Quote)
           T == {c \in [at : 0 .. N + 1, on : BOOLEAN] :
                   IF c.on THEN c.at \in i + 1 .. N + 1 ELSE Ends(c.at)}
           Kept(n) == {c \in T : c.on => c.at >= i + 1 + n}
           IsLoop(f) == f = [n \in 0 .. N |-> IF n = 0 THEN On(i + 1) ELSE CharacterTurn(b, f[n - 1])]
           turns == CHOOSE f : IsLoop(f)
<1>1. N \in Nat
  BY DEF Text
<1> SUFFICES ASSUME Has(b, i, Quote) PROVE Ends(skipString(b, i))
  BY DEF skipString, Has
<1>2. i \in 1 .. N /\ b[i] = Quote
  BY <1>1 DEF Has
<1>3. skipString(b, i) = turns[N].at
  BY DEF skipString
<1>4. ASSUME NEW c \in T
      PROVE  LET d == CharacterTurn(b, c) IN d \in T /\ (c.on /\ d.on => d.at > c.at)
  <2> DEFINE after == IF b[c.at] = Escape THEN skipEscape(b, c.at) ELSE skipUTF8(b, c.at)
             d == CharacterTurn(b, c)
  <2>1. CASE ~c.on
    <3>1. d = c
      BY <2>1 DEF CharacterTurn
    <3> QED
      BY <2>1, <3>1
  <2>2. CASE c.on /\ c.at > N
    <3>1. d = Stop(Miss)
      BY <2>2 DEF CharacterTurn
    <3> QED
      BY <1>1, <3>1 DEF Stop, Miss
  <2>3. CASE c.on /\ c.at <= N
    <3>1. c.at \in 1 .. N /\ c.at >= i + 1
      BY <1>1, <1>2, <2>3
    <3>2. skipUTF8(b, c.at) \in {Miss, c.at + 1}
      BY DEF skipUTF8
    <3>3. Skips(b, c.at, after)
      <4>1. Skips(b, c.at, skipEscape(b, c.at))
        BY <3>1, EscapePlace
      <4>2. Skips(b, c.at, skipUTF8(b, c.at))
        BY <1>1, <3>1, <3>2 DEF Skips, Miss
      <4> QED
        BY <4>1, <4>2
    <3>4. CharacterTurn(b, c) = IF b[c.at] = Quote THEN Stop(c.at + 1)
                                ELSE IF b[c.at] \in Control \cup {Nul} \/ after = Miss THEN Stop(Miss)
                                ELSE On(after)
      BY <1>1, <2>3, <3>1 DEF CharacterTurn, OnUnlessMissed
    <3> HIDE DEF after
    <3>5. CASE d = Stop(c.at + 1) /\ b[c.at] = Quote
      <4>1. d.at = c.at + 1 /\ d.on = FALSE /\ d \in [at : 0 .. N + 1, on : BOOLEAN]
        BY <1>1, <3>1, <3>5 DEF Stop
      <4>2. (c.at + 1) - 1 = c.at /\ c.at + 1 \in i + 2 .. N + 1
        BY <1>1, <1>2, <3>1
      <4>3. Ends(d.at)
        BY <3>5, <4>1, <4>2
      <4>4. ASSUME NEW x \in [at : 0 .. N + 1, on : BOOLEAN], ~x.on, Ends(x.at) PROVE x \in T
        BY <4>4
      <4>5. d \in T
        BY <4>1, <4>3, <4>4
      <4> QED
        BY <4>1, <4>5
    <3>6. CASE d = Stop(Miss)
      BY <1>1, <3>6 DEF Stop, Miss
    <3>7. CASE d = On(after) /\ after # Miss
      <4>1. after \in c.at + 1 .. N + 1
        BY <3>3, <3>7 DEF Skips
      <4> QED
        BY <1>1, <3>1, <3>7, <4>1 DEF On
    <3> QED
      BY <3>4, <3>5, <3>6, <3>7
  <2> QED
    BY <1>1, <2>1, <2>2, <2>3
<1>5. On(i + 1) \in T
  BY <1>1, <1>2 DEF On
<1>6. \E f : IsLoop(f)
  <2> DEFINE g == [c \in T |-> CharacterTurn(b, c)]
  <2>1. g \in [T -> T]
    BY <1>4
  <2>2. \A c \in T : g[c] = CharacterTurn(b, c)
    OBVIOUS
  <2> HIDE DEF g, T, N
  <2>3. PICK f : Loops(f, T, On(i + 1), g, N)
    BY <1>1, <1>5, <2>1, Loop
  <2>4. \A n \in 1 .. N : f[n] = CharacterTurn(b, f[n - 1])
    BY <1>1, <2>2, <2>3 DEF Loops
  <2>5. IsLoop(f)
    BY <1>1, <2>3, <2>4 DEF Loops
  <2> QED
    BY <2>5
<1> HIDE DEF T, N
<1>7. IsLoop(turns)
  BY <1>6
<1> HIDE DEF turns
<1>8. turns[0] = On(i + 1) /\ \A n \in 1 .. N : turns[n] = CharacterTurn(b, turns[n - 1])
  <2>1. \A n \in 0 .. N : turns[n] = IF n = 0 THEN On(i + 1) ELSE CharacterTurn(b, turns[n - 1])
    BY <1>7
  <2>2. 0 \in 0 .. N /\ \A n \in 1 .. N : n \in 0 .. N /\ n # 0
    BY <1>1
  <2> QED
    BY <2>1, <2>2, Zenon
<1> DEFINE K == [n \in Nat |-> Kept(n)]
<1>9. \A n \in Nat : K[n] = Kept(n)
  OBVIOUS
<1> HIDE DEF K
<1>10. turns[0] \in K[0]
  BY <1>5, <1>8, <1>9 DEF On
<1>11. ASSUME NEW n \in 1 .. N, turns[n - 1] \in K[n - 1] PROVE turns[n] \in K[n]
  <2>1. n \in Nat /\ n - 1 \in Nat
    BY <1>1
  <2>2. turns[n - 1] \in T /\ (turns[n - 1].on => turns[n - 1].at >= i + 1 + (n - 1))
    BY <1>9, <1>11, <2>1
  <2>3. turns[n] \in T /\ (turns[n - 1].on /\ turns[n].on => turns[n].at > turns[n - 1].at)
    BY <1>4, <1>8, <2>2
  <2>4. turns[n].on => turns[n - 1].on
    BY <1>8 DEF CharacterTurn, Stop
  <2>5. turns[n].at \in Int /\ turns[n - 1].at \in Int
    BY <1>1, <2>2, <2>3 DEF T
  <2>6. turns[n].on => turns[n].at >= i + 1 + n
    BY <2>1, <2>2, <2>3, <2>4, <2>5
  <2> QED
    BY <1>9, <2>1, <2>3, <2>6
<1>12. turns[N] \in K[N]
  BY <1>1, <1>10, <1>11, LoopKeeps
<1>13. turns[N] \in T /\ (turns[N].on => turns[N].at >= i + 1 + N)
  BY <1>1, <1>9, <1>12
<1>14. ~turns[N].on
  BY <1>1, <1>2, <1>13 DEF T
<1> QED
  BY <1>3, <1>13, <1>14 DEF T

\* A number begins with a minus or a digit.
LEMMA NumberPlace ==
  ASSUME NEW b \in Text, NEW i \in Nat \ {0}
  PROVE  LET e == skipNumber(b, i) IN
         e = Miss \/ (i <= Len(b) /\ b[i] \in Digit \cup {"-"} /\ e \in i + 1 .. Len(b) + 1)
<1>1. Len(b) \in Nat
  BY DEF Text
<1>2. ASSUME NEW k \in Nat \ {0}
      PROVE  LET e == skipDigits(b, k) IN
             e = Miss \/ (k <= Len(b) /\ b[k] \in Digit /\ e \in k + 1 .. Len(b) + 1)
  <2> DEFINE p == Past(b, k, Digit)
  <2>1. /\ p \in Nat /\ p >= k
        /\ IF k > Len(b) THEN p = k ELSE p <= Len(b) + 1
        /\ p <= Len(b) => b[p] \notin Digit
        /\ \A n \in k .. p - 1 : b[n] \in Digit
    BY PastPlace
  <2>2. skipDigits(b, k) = IF p > k THEN p ELSE Miss
    BY DEF skipDigits
  <2> HIDE DEF p
  <2>3. p > k => k \in k .. p - 1 /\ k <= Len(b) /\ p \in k + 1 .. Len(b) + 1
    BY <1>1, <2>1
  <2> QED
    BY <2>1, <2>2, <2>3
<1>3. ASSUME NEW k \in 1 .. Len(b) + 1 PROVE skipDecimals(b, k) \in k .. Len(b) + 1
  <2> DEFINE e == IF Has(b, k, ".") THEN skipDigits(b, k + 1) ELSE Miss
  <2>1. e = Miss \/ e \in k + 2 .. Len(b) + 1
    BY <1>1, <1>2
  <2> HIDE DEF e
  <2>2. skipDecimals(b, k) = IF e # Miss THEN e ELSE k
    BY DEF skipDecimals, Or, e
  <2> QED
    BY <1>1, <2>1, <2>2
<1>4. ASSUME NEW k \in 1 .. Len(b) + 1 PROVE skipExponent(b, k) \in k .. Len(b) + 1
  <2> DEFINE sign == Has(b, k + 1, "-") \/ Has(b, k + 1, "+")
             e == IF Has(b, k, "e") THEN skipDigits(b, IF sign THEN k + 2 ELSE k + 1) ELSE Miss
  <2>1. e = Miss \/ e \in k + 2 .. Len(b) + 1
    <3> HIDE DEF sign
    <3>1. skipDigits(b, k + 2) = Miss \/ skipDigits(b, k + 2) \in k + 3 .. Len(b) + 1
      BY <1>1, <1>2
    <3>2. skipDigits(b, k + 1) = Miss \/ skipDigits(b, k + 1) \in k + 2 .. Len(b) + 1
      BY <1>1, <1>2
    <3> QED
      BY <1>1, <3>1, <3>2
  <2>2. skipExponent(b, k) = IF e # Miss THEN e ELSE k
    BY DEF skipExponent, Or, e
  <2> HIDE DEF e
  <2> QED
    BY <1>1, <2>1, <2>2
<1> DEFINE m == IF Has(b, i, "-") THEN i + 1 ELSE i
           j == IF Has(b, m, "0") THEN m + 1 ELSE skipDigits(b, m)
<1>5. m \in {i, i + 1} /\ (m = i + 1 => i <= Len(b) /\ b[i] = "-")
  BY DEF Has
<1>6. j = Miss \/ (m <= Len(b) /\ b[m] \in Digit /\ j \in m + 1 .. Len(b) + 1)
  <2> HIDE DEF m
  <2>1. m \in Nat \ {0}
    BY <1>5
  <2>2. CASE Has(b, m, "0")
    BY <1>1, <2>1, <2>2 DEF Has, Digit
  <2>3. CASE ~Has(b, m, "0")
    BY <1>2, <2>1, <2>3
  <2> QED
    BY <2>2, <2>3
<1>7. skipNumber(b, i) = IF j = Miss THEN Miss ELSE skipExponent(b, skipDecimals(b, j))
  BY DEF skipNumber
<1> HIDE DEF m, j
<1>8. CASE j # Miss
  <2>1. j \in 1 .. Len(b) + 1 /\ j >= i + 1 /\ i <= Len(b) /\ b[i] \in Digit \cup {"-"}
    BY <1>1, <1>5, <1>6, <1>8
  <2>2. skipDecimals(b, j) \in j .. Len(b) + 1
    BY <1>3, <2>1
  <2>3. skipExponent(b, skipDecimals(b, j)) \in skipDecimals(b, j) .. Len(b) + 1
    BY <1>1, <1>4, <2>1, <2>2
  <2> QED
    BY <1>1, <1>7, <1>8, <2>1, <2>2, <2>3
<1> QED
  BY <1>7, <1>8

\* A scalar begins with no bracket, and a string ends with a quote.
LEMMA ScalarPlace ==
  ASSUME NEW b \in Text, NEW i \in Nat \ {0}
  PROVE  LET e == skipAnyScalar(b, i) IN
         \/ e = Miss
         \/ /\ i <= Len(b) /\ e \in i + 1 .. Len(b) + 1 /\ b[i] \notin Open
            /\ b[i] = Quote => e >= i + 2 /\ b[e - 1] = Quote
<1>1. Len(b) \in Nat
  BY DEF Text
<1> DEFINE e == skipString(b, i)
           l == skipAnyLiteral(b, i)
           n == skipNumber(b, i)
<1>2. skipAnyScalar(b, i) = IF e # Miss THEN e ELSE IF l # Miss THEN l ELSE n
  BY DEF skipAnyScalar, Or
<1>3. \/ e = Miss
      \/ i <= Len(b) /\ b[i] = Quote /\ e \in i + 2 .. Len(b) + 1 /\ b[e - 1] = Quote
  BY StringPlace
<1>4. l = Miss \/ (i <= Len(b) /\ b[i] \in Literal /\ l = i + 1)
  BY DEF skipAnyLiteral
<1>5. n = Miss \/ (i <= Len(b) /\ b[i] \in Digit \cup {"-"} /\ n \in i + 1 .. Len(b) + 1)
  BY NumberPlace
<1> HIDE DEF e, l, n
<1>6. /\ \A c \in Literal \cup Digit \cup {"-"} : c # Quote /\ c \notin Open
      /\ Quote \notin Open
  BY DEF Literal, Digit, Quote, Open
<1>7. CASE e # Miss
  BY <1>1, <1>2, <1>3, <1>6, <1>7
<1>8. CASE e = Miss /\ l # Miss
  BY <1>1, <1>2, <1>4, <1>6, <1>8
<1>9. CASE e = Miss /\ l = Miss
  BY <1>1, <1>2, <1>5, <1>6, <1>9
<1> QED
  BY <1>7, <1>8, <1>9

\* Behind a comma there is something.
LEMMA CommaPlace ==
  ASSUME NEW b \in Text, NEW i \in 1 .. Len(b) + 1
  PROVE  LET c == skipSpaceAndComma(b, i) IN
         c \in [at : i .. Len(b) + 1, on : BOOLEAN] /\ (c.on => c.at <= Len(b))
<1>1. Len(b) \in Nat
  BY DEF Text
<1> DEFINE m == skipSpace(b, i)
           t == skipSpace(b, m + 1)
<1>2. m \in i .. Len(b) + 1
  <2>1. i \in Nat \ {0} /\ i <= Len(b) + 1
    BY <1>1
  <2>2. m \in Nat /\ m >= i /\ (IF i > Len(b) THEN m = i ELSE m <= Len(b) + 1)
    BY <2>1, SpacePlace
  <2> HIDE DEF m
  <2> QED
    BY <1>1, <2>1, <2>2
<1>3. skipSpaceAndComma(b, i) = IF Has(b, m, ",") /\ t <= Len(b) /\ b[t] \notin Close THEN On(t) ELSE Stop(m)
  BY DEF skipSpaceAndComma
<1>4. t \in Nat /\ t >= m + 1
  <2> HIDE DEF m
  <2>1. m + 1 \in Nat \ {0}
    BY <1>1, <1>2
  <2> QED
    BY <2>1, SpacePlace
<1> HIDE DEF m, t
<1>5. CASE skipSpaceAndComma(b, i) = Stop(m)
  BY <1>2, <1>5 DEF Stop
<1>6. CASE skipSpaceAndComma(b, i) = On(t) /\ t <= Len(b)
  <2>1. t \in i .. Len(b) + 1
    BY <1>1, <1>2, <1>4, <1>6
  <2> QED
    BY <1>6, <2>1 DEF On
<1> QED
  BY <1>3, <1>5, <1>6

LEMMA ArrayPlace ==
  ASSUME NEW b \in Text, NEW i \in 1 .. Len(b) + 1
  PROVE  skipArrayScalars(b, i) \in i .. Len(b) + 1
<1> DEFINE N == Len(b)
           T == [at : i .. N + 1, on : BOOLEAN]
           IsLoop(f) == f = [n \in 0 .. N |-> IF n = 0 THEN On(i) ELSE ArrayTurn(b, f[n - 1])]
           turns == CHOOSE f : IsLoop(f)
<1>1. N \in Nat /\ i \in Nat \ {0} /\ i <= N + 1
  BY DEF Text
<1>2. skipArrayScalars(b, i) = turns[N].at
  BY DEF skipArrayScalars
<1>3. ASSUME NEW c \in T PROVE ArrayTurn(b, c) \in T
  <2> DEFINE v == skipAnyScalar(b, c.at)
  <2>1. c.at \in Nat \ {0} /\ c.at \in i .. N + 1
    BY <1>1
  <2>2. v = Miss \/ v \in c.at + 1 .. N + 1
    BY <2>1, ScalarPlace
  <2>3. ArrayTurn(b, c) = IF ~c.on THEN c ELSE IF v = Miss THEN Stop(c.at) ELSE skipSpaceAndComma(b, v)
    BY DEF ArrayTurn, AfterScalar
  <2> HIDE DEF v
  <2>4. v # Miss => skipSpaceAndComma(b, v) \in [at : v .. N + 1, on : BOOLEAN] /\ v \in 1 .. N + 1
    <3>1. v # Miss => v \in 1 .. N + 1
      BY <1>1, <2>1, <2>2
    <3> QED
      BY <3>1, CommaPlace
  <2>5. v # Miss => skipSpaceAndComma(b, v) \in T
    BY <1>1, <2>1, <2>2, <2>4
  <2>6. Stop(c.at) \in T
    BY <2>1 DEF Stop
  <2> QED
    BY <2>3, <2>5, <2>6
<1>4. On(i) \in T
  BY <1>1 DEF On
<1> HIDE DEF T, N
<1>5. \E f : IsLoop(f)
  <2> DEFINE g == [c \in T |-> ArrayTurn(b, c)]
  <2>1. g \in [T -> T] /\ \A c \in T : g[c] = ArrayTurn(b, c)
    BY <1>3
  <2> HIDE DEF g
  <2>2. PICK f : Loops(f, T, On(i), g, N)
    BY <1>1, <1>4, <2>1, Loop
  <2>3. \A n \in 1 .. N : f[n] = ArrayTurn(b, f[n - 1])
    BY <1>1, <2>1, <2>2 DEF Loops
  <2>4. IsLoop(f)
    BY <1>1, <2>2, <2>3 DEF Loops
  <2> QED
    BY <2>4
<1>6. IsLoop(turns)
  BY <1>5
<1> HIDE DEF turns
<1>7. turns[0] = On(i) /\ \A n \in 1 .. N : turns[n] = ArrayTurn(b, turns[n - 1])
  <2>1. \A n \in 0 .. N : turns[n] = IF n = 0 THEN On(i) ELSE ArrayTurn(b, turns[n - 1])
    BY <1>6
  <2>2. 0 \in 0 .. N /\ \A n \in 1 .. N : n \in 0 .. N /\ n # 0
    BY <1>1
  <2> QED
    BY <2>1, <2>2, Zenon
<1>8. turns[N] \in T
  <2>1. turns[0] \in T /\ \A n \in 1 .. N : turns[n - 1] \in T => turns[n] \in T
    BY <1>3, <1>4, <1>7
  <2> QED
    BY <1>1, <2>1, LoopStays
<1> QED
  BY <1>2, <1>8 DEF T, N

LEMMA ObjectPlace ==
  ASSUME NEW b \in Text, NEW i \in 1 .. Len(b) + 1
  PROVE  skipObjectScalars(b, i) \in i .. Len(b) + 1
<1> DEFINE N == Len(b)
           T == [at : i .. N + 1, on : BOOLEAN]
           IsLoop(f) == f = [n \in 0 .. N |-> IF n = 0 THEN On(i) ELSE ObjectTurn(b, f[n - 1])]
           turns == CHOOSE f : IsLoop(f)
<1>1. N \in Nat /\ i \in Nat \ {0} /\ i <= N + 1
  BY DEF Text
<1>2. skipObjectScalars(b, i) = turns[N].at
  BY DEF skipObjectScalars
<1>3. ASSUME NEW c \in T PROVE ObjectTurn(b, c) \in T
  <2> DEFINE key   == skipString(b, c.at)
             colon == skipSpace(b, key)
             val   == SkipColon(b, colon)
             v     == skipAnyScalar(b, val)
  <2>1. c.at \in Nat \ {0} /\ c.at \in i .. N + 1
    BY <1>1
  <2>2. key = Miss \/ key \in c.at + 2 .. N + 1
    BY <2>1, StringPlace
  <2>3. ObjectTurn(b, c) = IF ~c.on THEN c
                           ELSE IF key = Miss \/ val = Miss THEN Stop(c.at)
                           ELSE IF val <= N /\ b[val] \in Open THEN Stop(val)
                           ELSE IF v = Miss THEN Stop(c.at) ELSE skipSpaceAndComma(b, v)
    BY DEF ObjectTurn, AfterKey, AfterScalar
  <2> HIDE DEF key
  <2>4. key # Miss => key \in Nat \ {0} /\ colon \in c.at + 2 .. N + 1
    <3>1. key # Miss => key \in Nat \ {0} /\ key <= N + 1 /\ key >= c.at + 2
      BY <1>1, <2>1, <2>2
    <3>2. key # Miss => colon \in Nat /\ colon >= key /\ (IF key > N THEN colon = key ELSE colon <= N + 1)
      BY <3>1, SpacePlace
    <3> HIDE DEF colon
    <3> QED
      BY <1>1, <2>1, <3>1, <3>2
  <2> HIDE DEF colon
  <2>5. key # Miss => val = Miss \/ (val \in Nat \ {0} /\ val >= c.at)
    <3>1. key # Miss => colon + 1 \in Nat \ {0} /\ colon + 1 >= c.at
      BY <1>1, <2>1, <2>4
    <3>2. key # Miss => skipSpace(b, colon + 1) \in Nat /\ skipSpace(b, colon + 1) >= colon + 1
      BY <3>1, SpacePlace
    <3>3. val = Miss \/ val = skipSpace(b, colon + 1)
      BY DEF SkipColon
    <3> HIDE DEF val
    <3> QED
      BY <1>1, <2>1, <2>4, <3>1, <3>2, <3>3
  <2> HIDE DEF val
  <2>6. key # Miss /\ val # Miss => v = Miss \/ v \in val + 1 .. N + 1
    BY <2>5, ScalarPlace
  <2> HIDE DEF v
  <2>7. ASSUME key # Miss, val # Miss, v # Miss PROVE skipSpaceAndComma(b, v) \in T
    <3>1. v \in 1 .. N + 1 /\ v >= i
      BY <1>1, <2>1, <2>5, <2>6, <2>7
    <3>2. skipSpaceAndComma(b, v) \in [at : v .. N + 1, on : BOOLEAN]
      BY <3>1, CommaPlace
    <3> QED
      BY <1>1, <3>1, <3>2
  <2>8. Stop(c.at) \in T
    BY <2>1 DEF Stop
  <2>9. key # Miss /\ val # Miss /\ val <= N => Stop(val) \in T
    <3>1. key # Miss /\ val # Miss /\ val <= N => val \in i .. N + 1
      BY <1>1, <2>1, <2>5
    <3> QED
      BY <3>1 DEF Stop
  <2> QED
    BY <2>3, <2>7, <2>8, <2>9
<1>4. On(i) \in T
  BY <1>1 DEF On
<1> HIDE DEF T, N
<1>5. \E f : IsLoop(f)
  <2> DEFINE g == [c \in T |-> ObjectTurn(b, c)]
  <2>1. g \in [T -> T] /\ \A c \in T : g[c] = ObjectTurn(b, c)
    BY <1>3
  <2> HIDE DEF g
  <2>2. PICK f : Loops(f, T, On(i), g, N)
    BY <1>1, <1>4, <2>1, Loop
  <2>3. \A n \in 1 .. N : f[n] = ObjectTurn(b, f[n - 1])
    BY <1>1, <2>1, <2>2 DEF Loops
  <2>4. IsLoop(f)
    BY <1>1, <2>2, <2>3 DEF Loops
  <2> QED
    BY <2>4
<1>6. IsLoop(turns)
  BY <1>5
<1> HIDE DEF turns
<1>7. turns[0] = On(i) /\ \A n \in 1 .. N : turns[n] = ObjectTurn(b, turns[n - 1])
  <2>1. \A n \in 0 .. N : turns[n] = IF n = 0 THEN On(i) ELSE ObjectTurn(b, turns[n - 1])
    BY <1>6
  <2>2. 0 \in 0 .. N /\ \A n \in 1 .. N : n \in 0 .. N /\ n # 0
    BY <1>1
  <2> QED
    BY <2>1, <2>2, Zenon
<1>8. turns[N] \in T
  <2>1. turns[0] \in T /\ \A n \in 1 .. N : turns[n - 1] \in T => turns[n] \in T
    BY <1>3, <1>4, <1>7
  <2> QED
    BY <1>1, <2>1, LoopStays
<1> QED
  BY <1>2, <1>8 DEF T, N

\* The scalars of a collection are skipped up to its next bracket, or to what
\* is wrong.
LEMMA ScalarsPlace ==
  ASSUME NEW b \in Text, NEW i \in 1 .. Len(b) + 1, NEW mode
  PROVE  skipScalars(b, i, mode) \in i .. Len(b) + 1
<1> DEFINE m == skipSpace(b, i)
<1>1. Len(b) \in Nat /\ i \in Nat \ {0} /\ i <= Len(b) + 1
  BY DEF Text
<1>2. m \in Nat /\ m >= i /\ (IF i > Len(b) THEN m = i ELSE m <= Len(b) + 1)
  BY <1>1, SpacePlace
<1>3. skipScalars(b, i, mode) \in {skipArrayScalars(b, m), skipObjectScalars(b, m)}
  BY DEF skipScalars
<1> HIDE DEF m
<1>4. m \in 1 .. Len(b) + 1 /\ m >= i
  BY <1>1, <1>2
<1>5. skipArrayScalars(b, m) \in m .. Len(b) + 1 /\ skipObjectScalars(b, m) \in m .. Len(b) + 1
  BY <1>4, ArrayPlace, ObjectPlace
<1> QED
  BY <1>1, <1>3, <1>4, <1>5

-----------------------------------------------------------------------------
(* The stack of skipCollection.                                            *)

\* at are the places of the brackets on the stack, the first of them i.
Places(b, i, c, at) ==
  /\ at \in [1 .. Len(c.stack) -> i .. c.i - 1]
  /\ \A k \in DOMAIN at : c.stack[k] \in Open /\ b[at[k]] = c.stack[k]
  /\ \A k, l \in DOMAIN at : k < l => at[k] < at[l]

TooDeep(b) == Cardinality({i \in DOMAIN b : b[i] \in Open}) > MaxDepth

\* The loop that began at i, after some turns.
Nests(b, i, c) ==
  /\ c \in [i : i .. Len(b) + 1, stack : Seq(Open), ret : Statuses]
  /\ Len(c.stack) <= MaxDepth
  /\ \E at : Places(b, i, c, at)
  /\ IF c.stack = <<>> THEN c.ret # Partial \/ c.i = i ELSE i <= Len(b) /\ c.stack[1] = b[i]
  /\ c.ret = Success => c.stack # <<>> /\ c.i > i /\ isMatchingBracket(b[i], b[c.i - 1])
  /\ c.ret = MaxDepthExceeded => TooDeep(b)

LEMMA BeginNests ==
  ASSUME NEW b \in Text, NEW i \in 1 .. Len(b) + 1
  PROVE  Nests(b, i, Collection(i))
<1> DEFINE c == Collection(i)
<1>1. c.i = i /\ c.stack = <<>> /\ c.ret = Partial /\ c \in [i : i .. Len(b) + 1, stack : Seq(Open), ret : Statuses]
  <2>1. <<>> \in Seq(Open)
    OBVIOUS
  <2>2. Partial \in Statuses
    BY DEF Statuses
  <2>3. Len(b) \in Nat /\ i \in i .. Len(b) + 1
    BY DEF Text
  <2> QED
    BY <2>1, <2>2, <2>3 DEF Collection
<1> HIDE DEF c
<1>2. Places(b, i, c, <<>>)
  BY <1>1 DEF Places
<1>3. Len(c.stack) <= MaxDepth
  BY <1>1, DepthAssumption
<1> QED
  BY <1>1, <1>2, <1>3 DEF Nests, Partial, Success, MaxDepthExceeded, c

\* A stack that is full and one bracket more: there are too many.
LEMMA FullIsTooDeep ==
  ASSUME NEW b \in Text, NEW i \in 1 .. Len(b), NEW c, Nests(b, i, c), c.i <= Len(b),
         Len(c.stack) = MaxDepth, b[c.i] \in Open
  PROVE  TooDeep(b)
<1> DEFINE M == MaxDepth + 1
           R == {k \in DOMAIN b : b[k] \in Open}
<1>1. Len(b) \in Nat /\ DOMAIN b = 1 .. Len(b) /\ M \in Nat /\ c.i \in i .. Len(b)
  BY DepthAssumption DEF Nests, Text
<1>2. PICK at : Places(b, i, c, at)
  BY DEF Nests
<1> DEFINE f == [k \in 1 .. M |-> IF k = M THEN c.i ELSE at[k]]
<1>3. ASSUME NEW k \in 1 .. M, k # M PROVE k \in DOMAIN at /\ at[k] \in i .. c.i - 1 /\ b[at[k]] \in Open
  <2>1. DOMAIN at = 1 .. MaxDepth
    BY <1>2 DEF Places
  <2>2. k \in DOMAIN at
    BY <1>3, <2>1, DepthAssumption
  <2> QED
    BY <1>2, <2>1, <2>2 DEF Places
<1>4. f \in [1 .. M -> R]
  <2>1. ASSUME NEW k \in 1 .. M PROVE f[k] \in R
    <3>1. CASE k = M
      BY <1>1, <3>1
    <3>2. CASE k # M
      BY <1>1, <1>3, <3>2
    <3> QED
      BY <3>1, <3>2
  <2> QED
    BY <2>1
<1>5. ASSUME NEW k \in 1 .. M, NEW l \in 1 .. M, k < l PROVE f[k] < f[l]
  <2>1. k # M /\ k \in DOMAIN at /\ at[k] \in i .. c.i - 1 /\ f[k] = at[k]
    BY <1>1, <1>3, <1>5
  <2>2. CASE l = M
    BY <1>1, <2>1, <2>2
  <2>3. CASE l # M
    <3>1. l \in DOMAIN at /\ f[l] = at[l]
      BY <1>3, <2>3
    <3> QED
      BY <1>2, <1>5, <2>1, <3>1 DEF Places
  <2> QED
    BY <2>2, <2>3
<1>6. f \in Injection(1 .. M, R)
  <2>1. \A k, l \in 1 .. M : f[k] = f[l] => k = l
    <3> SUFFICES ASSUME NEW k \in 1 .. M, NEW l \in 1 .. M, k # l PROVE f[k] # f[l]
      OBVIOUS
    <3>1. f[k] \in Int /\ f[l] \in Int
      BY <1>1, <1>4
    <3>2. k < l \/ l < k
      OBVIOUS
    <3> HIDE DEF f, M
    <3> QED
      BY <1>5, <3>1, <3>2
  <2> HIDE DEF f
  <2> QED
    BY <1>4, <2>1 DEF Injection, IsInjective
<1> HIDE DEF f
<1>7. IsFiniteSet(R)
  <2>1. IsFiniteSet(1 .. Len(b))
    BY <1>1, FS_Interval
  <2>2. R \in SUBSET (1 .. Len(b))
    BY <1>1
  <2> HIDE DEF R
  <2> QED
    BY <2>1, <2>2, FS_Subset
<1>8. Cardinality(1 .. M) = M
  BY <1>1, FS_Interval
<1>9. M <= Cardinality(R)
  <2> HIDE DEF R, M
  <2>1. Cardinality(1 .. M) <= Cardinality(R)
    BY <1>6, <1>7, FS_Injection
  <2> QED
    BY <1>8, <2>1
<1>10. Cardinality(R) \in Nat
  <2> HIDE DEF R
  <2> QED
    BY <1>7, FS_CardinalityType
<1> HIDE DEF R
<1>11. Cardinality(R) > MaxDepth
  BY <1>9, <1>10, DepthAssumption
<1> QED
  BY <1>11 DEF R, TooDeep

\* The places stay when the loop goes on behind them.
LEMMA PlacesStay ==
  ASSUME NEW b, NEW i \in Int, NEW c, NEW d, NEW at, Places(b, i, c, at), d.stack = c.stack,
         c.i \in Int, d.i \in Int, d.i >= c.i
  PROVE  Places(b, i, d, at)
<1>1. at \in [1 .. Len(d.stack) -> i .. c.i - 1]
  BY DEF Places
<1>2. i .. c.i - 1 \subseteq i .. d.i - 1
  OBVIOUS
<1>3. at \in [1 .. Len(d.stack) -> i .. d.i - 1]
  BY <1>1, <1>2
<1> QED
  BY <1>3 DEF Places

\* The loop ends behind the character at its place.
LEMMA EndNests ==
  ASSUME NEW b \in Text, NEW i \in 1 .. Len(b), NEW c, Nests(b, i, c), c.i <= Len(b),
         NEW r \in {Success, IllegalDocument, MaxDepthExceeded},
         r = Success => c.stack # <<>> /\ isMatchingBracket(b[i], b[c.i]),
         r = MaxDepthExceeded => TooDeep(b)
  PROVE  Nests(b, i, [c EXCEPT !.i = @ + 1, !.ret = r])
<1> DEFINE d == [c EXCEPT !.i = @ + 1, !.ret = r]
<1>1. Len(b) \in Nat /\ c \in [i : i .. Len(b) + 1, stack : Seq(Open), ret : Statuses]
  BY DEF Nests, Text
<1>2. d.i = c.i + 1 /\ d.stack = c.stack /\ d.ret = r
  BY <1>1
<1>3. d \in [i : i .. Len(b) + 1, stack : Seq(Open), ret : Statuses]
  <2>1. c.i + 1 \in i .. Len(b) + 1 /\ r \in Statuses
    BY <1>1 DEF Statuses
  <2> QED
    BY <1>1, <2>1
<1> HIDE DEF d
<1>4. PICK at : Places(b, i, c, at)
  BY DEF Nests
<1>5. Places(b, i, d, at)
  BY <1>1, <1>2, <1>4, PlacesStay
<1>6. IF d.stack = <<>> THEN d.ret # Partial \/ d.i = i ELSE i <= Len(b) /\ d.stack[1] = b[i]
  <2>1. r # Partial
    BY DEF Success, IllegalDocument, MaxDepthExceeded, Partial
  <2> QED
    BY <1>2, <2>1 DEF Nests
<1>7. d.i > i /\ d.i - 1 = c.i
  BY <1>1, <1>2
<1>8. Nests(b, i, d)
  BY <1>2, <1>3, <1>5, <1>6, <1>7 DEF Nests
<1> QED
  BY <1>8 DEF d

\* A bracket comes onto the stack.
LEMMA PushNests ==
  ASSUME NEW b \in Text, NEW i \in 1 .. Len(b), NEW c, Nests(b, i, c), c.i <= Len(b), c.ret = Partial,
         Len(c.stack) # MaxDepth, b[c.i] \in Open, NEW p \in c.i + 1 .. Len(b) + 1
  PROVE  Nests(b, i, [c EXCEPT !.i = p, !.stack = Append(@, b[c.i])])
<1> DEFINE d == [c EXCEPT !.i = p, !.stack = Append(@, b[c.i])]
           n == Len(c.stack)
<1>1. /\ Len(b) \in Nat /\ c \in [i : i .. Len(b) + 1, stack : Seq(Open), ret : Statuses]
      /\ n \in Nat /\ n <= MaxDepth
  BY DEF Nests, Text
<1>2. d.i = p /\ d.stack = Append(c.stack, b[c.i]) /\ d.ret = Partial
  BY <1>1
<1>3. d \in [i : i .. Len(b) + 1, stack : Seq(Open), ret : Statuses]
  <2>1. p \in i .. Len(b) + 1 /\ Append(c.stack, b[c.i]) \in Seq(Open)
    BY <1>1
  <2> QED
    BY <1>1, <2>1
<1> HIDE DEF d
<1>4. Len(d.stack) = n + 1 /\ d.stack[n + 1] = b[c.i] /\ \A k \in 1 .. n : d.stack[k] = c.stack[k]
  BY <1>1, <1>2
<1>5. PICK at : Places(b, i, c, at)
  BY DEF Nests
<1> DEFINE bt == [k \in 1 .. n + 1 |-> IF k = n + 1 THEN c.i ELSE at[k]]
<1>6. Places(b, i, d, bt)
  <2>1. \A k \in 1 .. n : k \in DOMAIN at /\ at[k] \in i .. c.i - 1 /\ bt[k] = at[k]
    BY <1>1, <1>5 DEF Places
  <2>2. n + 1 \in 1 .. n + 1 /\ bt[n + 1] = c.i /\ DOMAIN bt = 1 .. n + 1
    BY <1>1
  <2>3. \A k \in 1 .. n + 1 : k = n + 1 \/ k \in 1 .. n
    BY <1>1
  <2>4. bt \in [1 .. Len(d.stack) -> i .. d.i - 1]
    <3>1. \A k \in 1 .. n + 1 : bt[k] \in i .. p - 1
      <4> SUFFICES ASSUME NEW k \in 1 .. n + 1 PROVE bt[k] \in i .. p - 1
        OBVIOUS
      <4>1. c.i \in i .. p - 1
        BY <1>1
      <4>2. CASE k = n + 1
        BY <2>2, <4>1, <4>2
      <4>3. CASE k \in 1 .. n
        <5>1. bt[k] = at[k] /\ at[k] \in i .. c.i - 1
          BY <2>1, <4>3
        <5> HIDE DEF bt
        <5> QED
          BY <1>1, <4>1, <5>1
      <4> QED
        BY <2>3, <4>2, <4>3
    <3> QED
      BY <1>2, <1>4, <3>1
  <2> HIDE DEF bt, n
  <2>5. ASSUME NEW k \in DOMAIN bt PROVE d.stack[k] \in Open /\ b[bt[k]] = d.stack[k]
    <3>1. CASE k = n + 1
      BY <1>4, <2>2, <3>1
    <3>2. CASE k \in 1 .. n
      BY <1>4, <1>5, <2>1, <3>2 DEF Places
    <3> QED
      BY <2>2, <2>3, <3>1, <3>2
  <2>6. ASSUME NEW k \in DOMAIN bt, NEW l \in DOMAIN bt, k < l PROVE bt[k] < bt[l]
    <3>1. k \in 1 .. n
      BY <1>1, <2>2, <2>6
    <3>2. CASE l = n + 1
      BY <1>1, <2>1, <2>2, <3>1, <3>2
    <3>3. CASE l \in 1 .. n
      BY <1>5, <2>1, <2>6, <3>1, <3>3 DEF Places
    <3> QED
      BY <2>2, <2>3, <3>2, <3>3
  <2> QED
    BY <2>4, <2>5, <2>6 DEF Places
<1>7. d.stack # <<>> /\ i <= Len(b) /\ d.stack[1] = b[i]
  <2>1. CASE c.stack = <<>>
    <3>1. c.i = i /\ n = 0
      BY <2>1 DEF Nests
    <3> QED
      BY <1>1, <1>4, <3>1
  <2>2. CASE c.stack # <<>>
    <3>1. n >= 1 /\ c.stack[1] = b[i]
      BY <1>1, <2>2 DEF Nests
    <3> QED
      BY <1>1, <1>4, <3>1
  <2> QED
    BY <2>1, <2>2
<1>8. Len(d.stack) <= MaxDepth
  BY <1>1, <1>4, DepthAssumption
<1>9. Nests(b, i, d)
  BY <1>2, <1>3, <1>6, <1>7, <1>8 DEF Nests, Partial, Success, MaxDepthExceeded
<1> QED
  BY <1>9 DEF d

\* A bracket leaves the stack.
LEMMA PopNests ==
  ASSUME NEW b \in Text, NEW i \in 1 .. Len(b), NEW c, Nests(b, i, c), c.i <= Len(b), c.ret = Partial,
         NEW n \in Nat \ {0}, Len(c.stack) = n + 1, NEW p \in c.i + 1 .. Len(b) + 1
  PROVE  Nests(b, i, [c EXCEPT !.stack = Front(c.stack), !.i = p])
<1> DEFINE d == [c EXCEPT !.stack = Front(c.stack), !.i = p]
<1>1. /\ Len(b) \in Nat /\ c \in [i : i .. Len(b) + 1, stack : Seq(Open), ret : Statuses]
      /\ n + 1 <= MaxDepth
  BY DEF Nests, Text
<1>2. d.i = p /\ d.stack = SubSeq(c.stack, 1, n) /\ d.ret = Partial
  BY <1>1 DEF Front
<1>3. /\ d.stack \in Seq(Open) /\ Len(d.stack) = n
      /\ \A k \in 1 .. n : d.stack[k] = c.stack[k]
  <2> HIDE DEF d
  <2>1. \A k \in 1 .. n : c.stack[k] \in Open
    BY <1>1
  <2>2. n - 1 + 1 = n /\ 1 <= n /\ \A k \in 1 .. n : 1 + k - 1 = k
    BY <1>1
  <2> QED
    BY <1>1, <1>2
<1>4. d \in [i : i .. Len(b) + 1, stack : Seq(Open), ret : Statuses]
  <2>1. p \in i .. Len(b) + 1
    BY <1>1
  <2> QED
    BY <1>1, <1>2, <1>3, <2>1
<1> HIDE DEF d
<1>5. PICK at : Places(b, i, c, at)
  BY DEF Nests
<1> DEFINE bt == [k \in 1 .. n |-> at[k]]
<1>6. Places(b, i, d, bt)
  <2>1. \A k \in 1 .. n : k \in DOMAIN at /\ at[k] \in i .. c.i - 1 /\ bt[k] = at[k]
    <3>1. DOMAIN at = 1 .. n + 1 /\ \A k \in 1 .. n : k \in 1 .. n + 1
      BY <1>1, <1>5 DEF Places
    <3> QED
      BY <1>5, <3>1 DEF Places
  <2>2. bt \in [1 .. Len(d.stack) -> i .. d.i - 1] /\ DOMAIN bt = 1 .. n
    <3>1. \A k \in 1 .. n : bt[k] \in i .. d.i - 1
      BY <1>1, <1>2, <2>1
    <3> QED
      BY <1>3, <3>1
  <2> HIDE DEF bt
  <2>3. \A k \in DOMAIN bt : d.stack[k] \in Open /\ b[bt[k]] = d.stack[k]
    BY <1>3, <1>5, <2>1, <2>2 DEF Places
  <2>4. \A k, l \in DOMAIN bt : k < l => bt[k] < bt[l]
    BY <1>5, <2>1, <2>2 DEF Places
  <2> QED
    BY <2>2, <2>3, <2>4 DEF Places
<1>7. d.stack # <<>> /\ i <= Len(b) /\ d.stack[1] = b[i]
  <2>1. c.stack # <<>> /\ 1 \in 1 .. n
    BY <1>1
  <2> QED
    BY <1>3, <2>1 DEF Nests
<1>8. Len(d.stack) <= MaxDepth
  BY <1>1, <1>3, DepthAssumption
<1>9. Nests(b, i, d)
  BY <1>2, <1>4, <1>6, <1>7, <1>8 DEF Nests, Partial, Success, MaxDepthExceeded
<1> QED
  BY <1>9 DEF d

\* So every turn of the loop keeps it.
LEMMA TurnNests ==
  ASSUME NEW b \in Text, NEW i \in 1 .. Len(b) + 1, NEW c, Nests(b, i, c), ~Ended(b, c)
  PROVE  Nests(b, i, Turn(b, c))
<1>1. /\ Len(b) \in Nat /\ c \in [i : i .. Len(b) + 1, stack : Seq(Open), ret : Statuses]
      /\ Len(c.stack) <= MaxDepth /\ c.ret = Partial /\ ~(c.i > Len(b))
  BY DEF Nests, Ended, Text
<1>2. c.i <= Len(b) /\ i \in 1 .. Len(b) /\ c.i + 1 \in 1 .. Len(b) + 1 /\ c.i \in 1 .. Len(b)
  BY <1>1
<1> DEFINE m == Len(c.stack)
<1>3. m \in Nat /\ (c.stack # <<>> => m # 0)
  <2>1. c.stack \in Seq(Open)
    BY <1>1
  <2>2. ASSUME NEW x \in Seq(Open) PROVE Len(x) \in Nat /\ (x # <<>> => Len(x) # 0)
    OBVIOUS
  <2> QED
    BY <2>1, <2>2
<1>4. CASE b[c.i] \in Open
  <2>1. Turn(b, c) = OpenBracket(b, c)
    <3>1. b[c.i] \notin Close
      BY <1>4 DEF Open, Close
    <3> QED
      BY <1>4, <3>1 DEF Turn
  <2>2. CASE Len(c.stack) = MaxDepth
    <3>1. TooDeep(b)
      BY <1>2, <1>4, <2>2, FullIsTooDeep
    <3>2. OpenBracket(b, c) = [c EXCEPT !.i = @ + 1, !.ret = MaxDepthExceeded]
      BY <2>2 DEF OpenBracket
    <3>3. MaxDepthExceeded \in {Success, IllegalDocument, MaxDepthExceeded} /\ MaxDepthExceeded # Success
      BY DEF MaxDepthExceeded, Success
    <3>4. Nests(b, i, [c EXCEPT !.i = @ + 1, !.ret = MaxDepthExceeded])
      BY <1>2, <3>1, <3>3, EndNests
    <3> QED
      BY <2>1, <3>2, <3>4
  <2>3. CASE Len(c.stack) # MaxDepth
    <3> DEFINE p == skipScalars(b, c.i + 1, b[c.i])
    <3>1. p \in c.i + 1 .. Len(b) + 1
      BY <1>2, ScalarsPlace
    <3>2. OpenBracket(b, c) = [c EXCEPT !.i = p, !.stack = Append(@, b[c.i])]
      BY <2>3 DEF OpenBracket
    <3> HIDE DEF p
    <3>3. Nests(b, i, [c EXCEPT !.i = p, !.stack = Append(@, b[c.i])])
      BY <1>1, <1>2, <1>4, <2>3, <3>1, PushNests
    <3> QED
      BY <2>1, <3>2, <3>3
  <2> QED
    BY <2>2, <2>3
<1>5. ASSUME NEW r \in {Success, IllegalDocument}, r = Success => c.stack # <<>> /\ isMatchingBracket(b[i], b[c.i])
      PROVE  Nests(b, i, [c EXCEPT !.i = @ + 1, !.ret = r])
  <2>1. r \in {Success, IllegalDocument, MaxDepthExceeded} /\ r # MaxDepthExceeded
    BY DEF MaxDepthExceeded, Success, IllegalDocument
  <2> QED
    BY <1>2, <1>5, <2>1, EndNests
<1>6. CASE b[c.i] \in Close
  <2> DEFINE matches == c.stack # <<>> /\ isMatchingBracket(Last(c.stack), b[c.i])
  <2>1. Turn(b, c) = CloseBracket(b, c)
    <3>1. b[c.i] \notin Open
      BY <1>6 DEF Open, Close
    <3> QED
      BY <1>6, <3>1 DEF Turn
  <2>2. CASE matches /\ Len(c.stack) > 1
    <3> DEFINE a == skipSpaceAndComma(b, c.i + 1)
               p == IF a.on THEN skipScalars(b, a.at, Last(Front(c.stack))) ELSE a.at
    <3>1. CloseBracket(b, c) = [c EXCEPT !.stack = Front(c.stack), !.i = p]
      BY <2>2 DEF CloseBracket, Pop
    <3>2. a.at \in c.i + 1 .. Len(b) + 1
      BY <1>2, CommaPlace
    <3>3. p \in c.i + 1 .. Len(b) + 1
      <4> HIDE DEF a
      <4>1. a.at \in 1 .. Len(b) + 1
        BY <1>1, <1>2, <3>2
      <4>2. skipScalars(b, a.at, Last(Front(c.stack))) \in a.at .. Len(b) + 1
        BY <4>1, ScalarsPlace
      <4> QED
        BY <1>1, <1>2, <3>2, <4>2
    <3> HIDE DEF p
    <3>4. PICK n \in Nat \ {0} : Len(c.stack) = n + 1
      <4>1. m > 1 /\ m = Len(c.stack)
        BY <2>2
      <4> HIDE DEF m
      <4>2. \A x \in Nat : x > 1 => x - 1 \in Nat \ {0} /\ x = (x - 1) + 1
        OBVIOUS
      <4> QED
        BY <1>3, <4>1, <4>2
    <3>5. Nests(b, i, [c EXCEPT !.stack = Front(c.stack), !.i = p])
      BY <1>1, <1>2, <3>3, <3>4, PopNests
    <3> QED
      BY <2>1, <3>1, <3>5
  <2>3. CASE ~(matches /\ Len(c.stack) > 1)
    <3> DEFINE r == IF matches THEN Success ELSE IllegalDocument
    <3>1. CloseBracket(b, c) = [c EXCEPT !.i = @ + 1, !.ret = r]
      BY <2>3 DEF CloseBracket
    <3>2. r \in {Success, IllegalDocument}
      OBVIOUS
    <3>3. r = Success => c.stack # <<>> /\ isMatchingBracket(b[i], b[c.i])
      <4>1. r = Success => matches
        BY DEF Success, IllegalDocument
      <4>2. matches => Len(c.stack) = 1 /\ c.stack[1] = b[i]
        <5>1. c.stack # <<>> => c.stack[1] = b[i]
          BY DEF Nests
        <5>2. matches => c.stack # <<>> /\ ~(m > 1)
          BY <2>3
        <5>3. m \in Nat /\ ~(m > 1) /\ m # 0 => m = 1
          <6> HIDE DEF m
          <6> QED
            OBVIOUS
        <5> HIDE DEF matches
        <5> QED
          BY <1>3, <5>1, <5>2, <5>3
      <4>3. matches => isMatchingBracket(b[i], b[c.i])
        BY <4>2 DEF Last
      <4> QED
        BY <4>1, <4>3
    <3> HIDE DEF r
    <3>4. Nests(b, i, [c EXCEPT !.i = @ + 1, !.ret = r])
      BY <1>5, <3>2, <3>3
    <3> QED
      BY <2>1, <3>1, <3>4
  <2> QED
    BY <2>2, <2>3
<1>7. CASE b[c.i] \notin Open \cup Close
  <2>1. Turn(b, c) = Illegal(c)
    BY <1>7, Zenon DEF Turn
  <2>2. IllegalDocument \in {Success, IllegalDocument} /\ IllegalDocument # Success
    BY DEF Success, IllegalDocument
  <2>3. Nests(b, i, [c EXCEPT !.i = @ + 1, !.ret = IllegalDocument])
    BY <1>5, <2>2
  <2> QED
    BY <2>1, <2>3 DEF Illegal
<1> QED
  BY <1>4, <1>6, <1>7

\* Every turn goes on, behind the place it began at.
LEMMA TurnAdvances ==
  ASSUME NEW b \in Text, NEW i \in 1 .. Len(b) + 1, NEW c, Nests(b, i, c), ~Ended(b, c)
  PROVE  Turn(b, c).i > c.i
<1>1. /\ Len(b) \in Nat /\ c \in [i : i .. Len(b) + 1, stack : Seq(Open), ret : Statuses] /\ ~(c.i > Len(b))
  BY DEF Nests, Ended, Text
<1>2. c.i \in 1 .. Len(b) /\ c.i + 1 \in 1 .. Len(b) + 1
  BY <1>1
<1> DEFINE p == skipScalars(b, c.i + 1, b[c.i])
           a == skipSpaceAndComma(b, c.i + 1)
           f == skipScalars(b, a.at, Last(Front(c.stack)))
<1>3. p \in c.i + 1 .. Len(b) + 1 /\ a.at \in c.i + 1 .. Len(b) + 1
  BY <1>2, ScalarsPlace, CommaPlace
<1>4. f \in a.at .. Len(b) + 1
  <2> HIDE DEF a
  <2>1. a.at \in 1 .. Len(b) + 1
    BY <1>2, <1>3
  <2> QED
    BY <2>1, ScalarsPlace
<1>5. Turn(b, c).i \in {c.i + 1, p, a.at, f}
  <2>1. OpenBracket(b, c).i \in {c.i + 1, p}
    BY <1>1 DEF OpenBracket
  <2>2. Pop(b, c, Front(c.stack), a).i \in {a.at, f}
    BY <1>1 DEF Pop
  <2>3. CloseBracket(b, c).i \in {c.i + 1, Pop(b, c, Front(c.stack), a).i}
    BY <1>1 DEF CloseBracket
  <2>4. Illegal(c).i = c.i + 1
    BY <1>1 DEF Illegal
  <2>5. Turn(b, c) \in {OpenBracket(b, c), CloseBracket(b, c), Illegal(c)}
    BY Zenon DEF Turn
  <2> HIDE DEF p, a, f
  <2> QED
    BY <2>1, <2>2, <2>3, <2>4, <2>5
<1> HIDE DEF p, a, f
<1> QED
  BY <1>1, <1>2, <1>3, <1>4, <1>5

\* f are the turns of the loop that begins at i.
Runs(b, i, f) == f[0] = Collection(i) /\ \A n \in 1 .. Len(b) : f[n] = TurnOrEnd(b, f[n - 1])

\* So does the loop as a whole, and as many turns as the text has characters end it.
LEMMA CollectionRuns ==
  ASSUME NEW b \in Text, NEW i \in 1 .. Len(b) + 1
  PROVE  /\ Nests(b, i, skipCollection(b, i)) /\ Ended(b, skipCollection(b, i))
         /\ \E f : Runs(b, i, f) /\ f[Len(b)] = skipCollection(b, i)
<1> DEFINE N == Len(b)
           T == {c \in [i : i .. Len(b) + 1, stack : Seq(Open), ret : Statuses] : Nests(b, i, c)}
           Kept(n) == {c \in T : ~Ended(b, c) => c.i >= i + n}
           IsLoop(f) == f = [n \in 0 .. N |-> IF n = 0 THEN Collection(i) ELSE TurnOrEnd(b, f[n - 1])]
           turns == CHOOSE f : IsLoop(f)
<1>1. N \in Nat
  BY DEF Text
<1>2. skipCollection(b, i) = turns[N]
  BY DEF skipCollection
<1>3. ASSUME NEW c \in T PROVE TurnOrEnd(b, c) \in T
  <2>1. Ended(b, c) => TurnOrEnd(b, c) = c
    BY DEF TurnOrEnd
  <2>2. ~Ended(b, c) => Nests(b, i, TurnOrEnd(b, c))
    BY TurnNests DEF TurnOrEnd
  <2> QED
    BY <2>1, <2>2 DEF Nests
<1>4. Collection(i) \in T
  BY BeginNests DEF Nests
<1> HIDE DEF T, N
<1>5. \E f : IsLoop(f)
  <2> DEFINE g == [c \in T |-> TurnOrEnd(b, c)]
  <2>1. g \in [T -> T] /\ \A c \in T : g[c] = TurnOrEnd(b, c)
    BY <1>3
  <2> HIDE DEF g
  <2>2. PICK f : Loops(f, T, Collection(i), g, N)
    BY <1>1, <1>4, <2>1, Loop
  <2>3. \A n \in 1 .. N : f[n] = TurnOrEnd(b, f[n - 1])
    BY <1>1, <2>1, <2>2 DEF Loops
  <2>4. IsLoop(f)
    BY <1>1, <2>2, <2>3 DEF Loops
  <2> QED
    BY <2>4
<1>6. IsLoop(turns)
  BY <1>5
<1> HIDE DEF turns
<1>7. turns[0] = Collection(i) /\ \A n \in 1 .. N : turns[n] = TurnOrEnd(b, turns[n - 1])
  <2>1. \A n \in 0 .. N : turns[n] = IF n = 0 THEN Collection(i) ELSE TurnOrEnd(b, turns[n - 1])
    BY <1>6
  <2>2. 0 \in 0 .. N /\ \A n \in 1 .. N : n \in 0 .. N /\ n # 0
    BY <1>1
  <2> QED
    BY <2>1, <2>2, Zenon
<1> DEFINE K == [n \in Nat |-> Kept(n)]
<1>8. \A n \in Nat : K[n] = Kept(n)
  OBVIOUS
<1> HIDE DEF K
<1>9. turns[0] \in K[0]
  <2>1. Collection(i).i >= i + 0
    BY DEF Collection
  <2> QED
    BY <1>4, <1>7, <1>8, <2>1
<1>10. ASSUME NEW n \in 1 .. N, turns[n - 1] \in K[n - 1] PROVE turns[n] \in K[n]
  <2> DEFINE c == turns[n - 1]
  <2>1. n \in Nat /\ n - 1 \in Nat
    BY <1>1
  <2>2. c \in T /\ (~Ended(b, c) => c.i >= i + (n - 1)) /\ turns[n] = TurnOrEnd(b, c)
    BY <1>7, <1>8, <1>10, <2>1
  <2> HIDE DEF c
  <2>3. turns[n] \in T
    BY <1>3, <2>2
  <2>4. ASSUME ~Ended(b, turns[n]) PROVE turns[n].i >= i + n
    <3>1. ~Ended(b, c) /\ turns[n] = Turn(b, c)
      BY <2>2, <2>4 DEF TurnOrEnd
    <3>2. Turn(b, c).i > c.i
      BY <2>2, <3>1, TurnAdvances DEF T
    <3>3. c.i \in Int /\ turns[n].i \in Int /\ c.i >= i + (n - 1) /\ turns[n].i > c.i
      BY <1>1, <2>2, <2>3, <3>1, <3>2 DEF T, N
    <3> QED
      BY <1>1, <2>1, <3>3
  <2> QED
    BY <1>8, <2>1, <2>3, <2>4
<1>11. turns[N] \in K[N]
  BY <1>1, <1>9, <1>10, LoopKeeps
<1>12. turns[N] \in T /\ (~Ended(b, turns[N]) => turns[N].i >= i + N)
  BY <1>1, <1>8, <1>11
<1>13. Ended(b, turns[N])
  <2>1. turns[N].i \in Int /\ (turns[N].i > N => Ended(b, turns[N]))
    BY <1>1, <1>12 DEF T, N, Ended
  <2> QED
    BY <1>1, <1>12, <2>1
<1> QED
  BY <1>2, <1>7, <1>12, <1>13 DEF T, N, Runs

-----------------------------------------------------------------------------
(* Values and members.                                                     *)

\* There is a value from i up to e.
ValueAt(b, i, e) ==
  i \in 1 .. Len(b) /\ e \in i + 1 .. Len(b) + 1 /\ Closed(Cut(b, i, e))

LEMMA CutType ==
  ASSUME NEW b \in Text, NEW i \in 1 .. Len(b), NEW e \in i + 1 .. Len(b) + 1
  PROVE  /\ Cut(b, i, e) \in Text /\ Len(Cut(b, i, e)) = e - i
         /\ \A k \in 1 .. e - i : Cut(b, i, e)[k] = b[i + k - 1]
<1>1. Len(b) \in Nat
  BY DEF Text
<1>2. \A k \in i .. e - 1 : b[k] \in STRING
  BY <1>1 DEF Text
<1>3. /\ SubSeq(b, i, e - 1) \in Seq(STRING)
      /\ Len(SubSeq(b, i, e - 1)) = (IF i <= e - 1 THEN e - 1 - i + 1 ELSE 0)
      /\ \A k \in 1 .. e - 1 - i + 1 : SubSeq(b, i, e - 1)[k] = b[i + k - 1]
  <2>1. i \in Int /\ e - 1 \in Int
    BY <1>1
  <2> QED
    BY <1>2, <2>1, SubSeqProperties
<1>4. i <= e - 1 /\ e - 1 - i + 1 = e - i
  BY <1>1
<1> QED
  BY <1>3, <1>4 DEF Cut, Text

LEMMA ClosedCut ==
  ASSUME NEW b \in Text, NEW i \in 1 .. Len(b), NEW e \in i + 1 .. Len(b) + 1,
         b[i] \in Open => isMatchingBracket(b[i], b[e - 1]),
         b[i] = Quote => e >= i + 2 /\ b[e - 1] = Quote
  PROVE  ValueAt(b, i, e)
<1> DEFINE t == Cut(b, i, e)
<1>1. Len(b) \in Nat
  BY DEF Text
<1>2. t \in Text /\ Len(t) = e - i /\ \A k \in 1 .. e - i : t[k] = b[i + k - 1]
  BY CutType
<1>3. 1 \in 1 .. e - i /\ e - i \in 1 .. e - i /\ i + 1 - 1 = i /\ i + (e - i) - 1 = e - 1
  BY <1>1
<1> HIDE DEF t
<1>4. t[1] = b[i] /\ t[Len(t)] = b[e - 1] /\ t # <<>>
  <2>1. Len(t) # 0
    BY <1>1, <1>2
  <2> QED
    BY <1>2, <1>3, <2>1
<1>5. b[i] = Quote => Len(t) > 1
  BY <1>1, <1>2
<1>6. Closed(t)
  BY <1>4, <1>5 DEF Closed
<1> QED
  BY <1>6 DEF ValueAt, t

LEMMA CollectionValue ==
  ASSUME NEW b \in Text, NEW i \in 1 .. Len(b) + 1, NEW c, Nests(b, i, c), c.ret = Success
  PROVE  ValueAt(b, i, c.i)
<1>1. Len(b) \in Nat
  BY DEF Text
<1>2. i \in 1 .. Len(b) /\ c.i \in i + 1 .. Len(b) + 1 /\ isMatchingBracket(b[i], b[c.i - 1])
  BY <1>1 DEF Nests
<1>3. b[i] # Quote
  BY <1>2 DEF isMatchingBracket, Quote
<1> QED
  BY <1>2, <1>3, ClosedCut

LEMMA ScalarValue ==
  ASSUME NEW b \in Text, NEW i \in 1 .. Len(b) + 1, skipAnyScalar(b, i) # Miss
  PROVE  ValueAt(b, i, skipAnyScalar(b, i))
<1> DEFINE v == skipAnyScalar(b, i)
<1>1. Len(b) \in Nat /\ i \in Nat \ {0}
  BY DEF Text
<1>2. /\ i <= Len(b) /\ v \in i + 1 .. Len(b) + 1 /\ b[i] \notin Open
      /\ b[i] = Quote => v >= i + 2 /\ b[v - 1] = Quote
  BY <1>1, ScalarPlace
<1> HIDE DEF v
<1>3. i \in 1 .. Len(b)
  BY <1>1, <1>2
<1>4. ValueAt(b, i, v)
  BY <1>2, <1>3, ClosedCut
<1> QED
  BY <1>4 DEF v

LEMMA ValuePlace ==
  ASSUME NEW b \in Text, NEW i \in 1 .. Len(b) + 1
  PROVE  nextValue(b, i) = Miss \/ ValueAt(b, i, nextValue(b, i))
<1> DEFINE v == skipAnyScalar(b, i)
           c == skipCollection(b, i)
<1>1. nextValue(b, i) = IF v # Miss THEN v ELSE IF c.ret = Success THEN c.i ELSE Miss
  BY DEF nextValue, Behind, Or
<1>2. v # Miss => ValueAt(b, i, v)
  BY ScalarValue
<1>3. c.ret = Success => ValueAt(b, i, c.i)
  BY CollectionRuns, CollectionValue
<1> HIDE DEF v, c
<1> QED
  BY <1>1, <1>2, <1>3

\* The members that there can be in a text, or none.
Found(b) ==
  {m \in [key : 1 .. Len(b) + 1, quote : 1 .. Len(b) + 1, value : 1 .. Len(b) + 1, end : 0 .. Len(b) + 1] :
     m.end = Miss \/ ValueAt(b, m.value, m.end)}

LEMMA NoneFound ==
  ASSUME NEW b \in Text
  PROVE  NoMember \in Found(b)
<1>1. Len(b) \in Nat
  BY DEF Text
<1> QED
  BY <1>1 DEF NoMember, Found, Miss

LEMMA ItemFound ==
  ASSUME NEW b \in Text, NEW i \in 1 .. Len(b) + 1
  PROVE  LET m == nextItem(b, i) IN m \in Found(b) /\ m.value = i
<1> DEFINE e == nextValue(b, i)
<1>1. Len(b) \in Nat
  BY DEF Text
<1>2. e = Miss \/ ValueAt(b, i, e)
  BY ValuePlace
<1>3. nextItem(b, i) = [NoMember EXCEPT !.value = i, !.end = e]
  BY DEF nextItem
<1> HIDE DEF e
<1>4. e \in 0 .. Len(b) + 1
  BY <1>1, <1>2 DEF ValueAt, Miss
<1> DEFINE m == [NoMember EXCEPT !.value = i, !.end = e]
<1>5. /\ m \in [key : 1 .. Len(b) + 1, quote : 1 .. Len(b) + 1, value : 1 .. Len(b) + 1, end : 0 .. Len(b) + 1]
      /\ m.value = i /\ m.end = e
  <2>1. NoMember \in [key : 1 .. Len(b) + 1, quote : 1 .. Len(b) + 1, value : 1 .. Len(b) + 1, end : 0 .. Len(b) + 1]
    BY NoneFound DEF Found
  <2> QED
    BY <1>4, <2>1
<1> HIDE DEF m
<1>6. m \in Found(b)
  BY <1>2, <1>5 DEF Found
<1> QED
  BY <1>3, <1>5, <1>6 DEF m

\* A key between its quotes, and its value behind it: nothing but blanks and a
\* colon is between them.
PairAt(b, m) ==
  /\ m.key \in 2 .. m.quote /\ b[m.key - 1] = Quote /\ b[m.quote] = Quote
  /\ \E colon \in m.quote + 1 .. m.value - 1 :
       /\ b[colon] = ":"
       /\ \A k \in m.quote + 1 .. m.value - 1 : k # colon => b[k] = Space

LEMMA PairFound ==
  ASSUME NEW b \in Text, NEW i \in 1 .. Len(b) + 1
  PROVE  LET m == nextKeyValuePair(b, i)
         IN  m \in Found(b) /\ (m.end # Miss => PairAt(b, m) /\ m.value > i)
<1> DEFINE key   == skipString(b, i)
           colon == skipSpace(b, key)
           val   == skipSpace(b, colon + 1)
           e     == nextValue(b, val)
<1>1. Len(b) \in Nat /\ i \in Nat \ {0}
  BY DEF Text
<1>2. nextKeyValuePair(b, i) = IF key = Miss \/ ~Has(b, colon, ":") \/ e = Miss THEN NoMember
                               ELSE [key |-> i + 1, quote |-> key - 1, value |-> val, end |-> e]
  BY DEF nextKeyValuePair, Pair
<1>3. key = Miss \/ (b[i] = Quote /\ key \in i + 2 .. Len(b) + 1 /\ b[key - 1] = Quote)
  BY <1>1, StringPlace
<1> HIDE DEF key
<1>4. key # Miss => colon \in Nat /\ colon >= key /\ \A k \in key .. colon - 1 : b[k] = Space
  <2>1. key # Miss => key \in Nat \ {0}
    BY <1>1, <1>3
  <2> QED
    BY <2>1, SpacePlace
<1> HIDE DEF colon
<1>5. key # Miss /\ Has(b, colon, ":") =>
        /\ val \in 1 .. Len(b) + 1 /\ val >= colon + 1
        /\ \A k \in colon + 1 .. val - 1 : b[k] = Space
  <2>1. key # Miss /\ Has(b, colon, ":") => colon + 1 \in Nat \ {0} /\ colon + 1 <= Len(b) + 1
    BY <1>1, <1>3, <1>4 DEF Has
  <2>2. key # Miss /\ Has(b, colon, ":") =>
          /\ val \in Nat /\ val >= colon + 1
          /\ IF colon + 1 > Len(b) THEN val = colon + 1 ELSE val <= Len(b) + 1
          /\ \A k \in colon + 1 .. val - 1 : b[k] = Space
    BY <2>1, SpacePlace
  <2> HIDE DEF val
  <2> QED
    BY <1>1, <1>4, <2>1, <2>2
<1> HIDE DEF val
<1>6. key # Miss /\ Has(b, colon, ":") => e = Miss \/ ValueAt(b, val, e)
  BY <1>5, ValuePlace
<1> HIDE DEF e
<1>7. ASSUME key # Miss, Has(b, colon, ":"), e # Miss
      PROVE  LET m == [key |-> i + 1, quote |-> key - 1, value |-> val, end |-> e]
             IN  m \in Found(b) /\ PairAt(b, m) /\ m.value > i
  <2>1. i + 1 \in 1 .. Len(b) + 1 /\ key - 1 \in 1 .. Len(b) + 1
    BY <1>1, <1>3, <1>7
  <2>2. ValueAt(b, val, e) /\ val \in 1 .. Len(b) + 1
    BY <1>5, <1>6, <1>7
  <2>3. e \in 0 .. Len(b) + 1
    BY <1>1, <2>2 DEF ValueAt
  <2> DEFINE m == [key |-> i + 1, quote |-> key - 1, value |-> val, end |-> e]
  <2>4. m \in Found(b)
    BY <2>1, <2>2, <2>3 DEF Found
  <2>5. m.key = i + 1 /\ m.quote = key - 1 /\ m.value = val
    OBVIOUS
  <2> HIDE DEF m
  <2>6. m.key \in 2 .. m.quote /\ b[m.key - 1] = Quote /\ b[m.quote] = Quote
    <3>1. i + 1 \in 2 .. key - 1 /\ (i + 1) - 1 = i
      BY <1>1, <1>3, <1>7
    <3> QED
      BY <1>3, <1>7, <2>5, <3>1
  <2>7. colon \in m.quote + 1 .. m.value - 1 /\ b[colon] = ":" /\ val > i
    <3>1. colon \in (key - 1) + 1 .. val - 1 /\ val > i
      BY <1>1, <1>3, <1>4, <1>5, <1>7
    <3> QED
      BY <1>7, <2>5, <3>1 DEF Has
  <2>8. ASSUME NEW k \in m.quote + 1 .. m.value - 1, k # colon PROVE b[k] = Space
    <3>1. k \in key .. colon - 1 \/ k \in colon + 1 .. val - 1
      BY <1>1, <1>3, <1>4, <1>5, <1>7, <2>5, <2>8
    <3> QED
      BY <1>4, <1>5, <1>7, <3>1
  <2>9. PairAt(b, m)
    BY <2>6, <2>7, <2>8 DEF PairAt
  <2> QED
    BY <2>4, <2>5, <2>7, <2>9 DEF m
<1>8. CASE key = Miss \/ ~Has(b, colon, ":") \/ e = Miss
  <2>1. nextKeyValuePair(b, i) = NoMember
    BY <1>2, <1>8
  <2> QED
    BY <2>1, NoneFound DEF NoMember
<1>9. CASE ~(key = Miss \/ ~Has(b, colon, ":") \/ e = Miss)
  <2>1. nextKeyValuePair(b, i) = [key |-> i + 1, quote |-> key - 1, value |-> val, end |-> e]
    BY <1>2, <1>9
  <2> QED
    BY <1>7, <1>9, <2>1
<1> QED
  BY <1>8, <1>9

-----------------------------------------------------------------------------
(* Searches.                                                               *)

\* The states of a search through the members of a text.
Searches(b) == [at : 1 .. Len(b) + 1, on : BOOLEAN, index : Nat, found : Found(b)]

LEMMA SeekingType ==
  ASSUME NEW b \in Text, NEW i \in 1 .. Len(b) + 1
  PROVE  Seeking(i) \in Searches(b)
BY NoneFound DEF Seeking, Searches

LEMMA SoughtType ==
  ASSUME NEW b \in Text, NEW c \in Searches(b), NEW m \in Found(b)
  PROVE  Sought(c, m) \in Searches(b)
BY DEF Sought, Searches

LEMMA NextMemberType ==
  ASSUME NEW b \in Text, NEW c \in Searches(b), NEW m \in Found(b), m.end # Miss
  PROVE  NextMember(b, c, m) \in Searches(b)
<1> DEFINE n == skipSpaceAndComma(b, m.end)
<1>1. Len(b) \in Nat
  BY DEF Text
<1>2. m.end \in 1 .. Len(b) + 1
  BY <1>1 DEF Found, Miss
<1>3. n \in [at : m.end .. Len(b) + 1, on : BOOLEAN]
  BY <1>2, CommaPlace
<1>4. NextMember(b, c, m) = [c EXCEPT !.at = n.at, !.on = n.on, !.index = @ + 1]
  BY DEF NextMember
<1> HIDE DEF n
<1>5. n.at \in 1 .. Len(b) + 1 /\ n.on \in BOOLEAN
  BY <1>1, <1>2, <1>3
<1>6. c.index + 1 \in Nat
  BY DEF Searches
<1>7. ASSUME NEW x \in 1 .. Len(b) + 1, NEW y \in BOOLEAN, NEW z \in Nat
      PROVE  [c EXCEPT !.at = x, !.on = y, !.index = z] \in Searches(b)
  BY DEF Searches
<1>8. [c EXCEPT !.at = n.at, !.on = n.on, !.index = c.index + 1] \in Searches(b)
  BY <1>5, <1>6, <1>7, Zenon
<1> QED
  BY <1>4, <1>8

LEMMA InsidePlace ==
  ASSUME NEW b \in Text, NEW bracket
  PROVE  Inside(b, bracket) \in 1 .. Len(b) + 1
<1> DEFINE p == skipSpace(b, 1)
           t == skipSpace(b, p + 1)
<1>1. Len(b) \in Nat
  BY DEF Text
<1>2. p \in Nat /\ p >= 1
  <2>1. 1 \in Nat \ {0}
    OBVIOUS
  <2> QED
    BY <2>1, SpacePlace
<1>3. Inside(b, bracket) = IF Has(b, p, bracket) THEN t ELSE Len(b) + 1
  BY DEF Inside
<1> HIDE DEF p
<1>4. p + 1 \in Nat \ {0}
  BY <1>2
<1>5. t \in Nat /\ t >= p + 1 /\ (IF p + 1 > Len(b) THEN t = p + 1 ELSE t <= Len(b) + 1)
  BY <1>4, SpacePlace
<1> HIDE DEF t
<1> QED
  BY <1>1, <1>2, <1>3, <1>5 DEF Has

\* The member a search for key has come to.
Keyed(b, m, key) == m.end # Miss => PairAt(b, m) /\ Cut(b, m.key, m.quote) = key

LEMMA KeyFound ==
  ASSUME NEW b \in Text, NEW key
  PROVE  objectSearch(b, key) \in Found(b) /\ Keyed(b, objectSearch(b, key), key)
<1> DEFINE N == Len(b)
           T == {c \in Searches(b) : Keyed(b, c.found, key)}
           e == Seeking(Inside(b, "{"))
           IsLoop(f) == f = [n \in 0 .. N |-> IF n = 0 THEN e ELSE MemberTurn(b, key, f[n - 1])]
           turns == CHOOSE f : IsLoop(f)
<1>1. N \in Nat
  BY DEF Text
<1>2. objectSearch(b, key) = turns[N].found
  BY DEF objectSearch
<1>3. ASSUME NEW c \in T PROVE MemberTurn(b, key, c) \in T
  <2> DEFINE p == nextKeyValuePair(b, c.at)
  <2>1. p \in Found(b) /\ (p.end # Miss => PairAt(b, p))
    <3>1. c.at \in 1 .. Len(b) + 1
      BY DEF Searches
    <3> QED
      BY <3>1, PairFound
  <2>2. \/ MemberTurn(b, key, c) \in {c, Sought(c, NoMember)}
        \/ Cut(b, p.key, p.quote) = key /\ MemberTurn(b, key, c) = Sought(c, p)
        \/ p.end # Miss /\ MemberTurn(b, key, c) = NextMember(b, c, p)
    BY DEF MemberTurn, AtPair, IsKey
  <2> HIDE DEF p
  <2>3. c \in Searches(b) /\ Keyed(b, c.found, key)
    OBVIOUS
  <2>4. Sought(c, NoMember) \in T
    <3>1. Sought(c, NoMember) \in Searches(b)
      BY <2>3, SoughtType, NoneFound
    <3>2. Sought(c, NoMember).found = NoMember
      BY <2>3 DEF Sought, Searches
    <3> QED
      BY <3>1, <3>2 DEF Keyed, NoMember
  <2>5. Cut(b, p.key, p.quote) = key => Sought(c, p) \in T
    <3>1. Sought(c, p) \in Searches(b)
      BY <2>1, <2>3, SoughtType
    <3>2. Sought(c, p).found = p
      BY <2>3 DEF Sought, Searches
    <3> QED
      BY <2>1, <3>1, <3>2 DEF Keyed
  <2>6. p.end # Miss => NextMember(b, c, p) \in T
    <3>1. p.end # Miss => NextMember(b, c, p) \in Searches(b)
      BY <2>1, <2>3, NextMemberType
    <3>2. NextMember(b, c, p).found = c.found
      BY <2>3 DEF NextMember, Searches
    <3> QED
      BY <2>3, <3>1, <3>2
  <2> QED
    BY <2>2, <2>4, <2>5, <2>6
<1>4. e \in T
  <2>1. e \in Searches(b)
    BY InsidePlace, SeekingType
  <2>2. e.found = NoMember
    BY DEF Seeking
  <2>3. Keyed(b, e.found, key)
    <3> HIDE DEF e
    <3> QED
      BY <2>2 DEF Keyed, NoMember
  <2> HIDE DEF e
  <2> QED
    BY <2>1, <2>3
<1> HIDE DEF T, N, e
<1>5. \E f : IsLoop(f)
  <2> DEFINE g == [c \in T |-> MemberTurn(b, key, c)]
  <2>1. g \in [T -> T] /\ \A c \in T : g[c] = MemberTurn(b, key, c)
    BY <1>3
  <2> HIDE DEF g
  <2>2. PICK f : Loops(f, T, e, g, N)
    BY <1>1, <1>4, <2>1, Loop
  <2>3. \A n \in 1 .. N : f[n] = MemberTurn(b, key, f[n - 1])
    BY <1>1, <2>1, <2>2 DEF Loops
  <2>4. IsLoop(f)
    BY <1>1, <2>2, <2>3 DEF Loops
  <2> QED
    BY <2>4
<1>6. IsLoop(turns)
  BY <1>5
<1> HIDE DEF turns
<1>7. turns[0] = e /\ \A n \in 1 .. N : turns[n] = MemberTurn(b, key, turns[n - 1])
  <2>1. \A n \in 0 .. N : turns[n] = IF n = 0 THEN e ELSE MemberTurn(b, key, turns[n - 1])
    BY <1>6
  <2>2. 0 \in 0 .. N /\ \A n \in 1 .. N : n \in 0 .. N /\ n # 0
    BY <1>1
  <2> QED
    BY <2>1, <2>2, Zenon
<1>8. turns[N] \in T
  <2>1. turns[0] \in T /\ \A n \in 1 .. N : turns[n - 1] \in T => turns[n] \in T
    BY <1>3, <1>4, <1>7
  <2> QED
    BY <1>1, <2>1, LoopStays
<1> QED
  BY <1>2, <1>8 DEF T, Searches

LEMMA IndexFound ==
  ASSUME NEW b \in Text, NEW queryIndex
  PROVE  arraySearch(b, queryIndex) \in Found(b)
<1> DEFINE N == Len(b)
           T == Searches(b)
           e == Seeking(Inside(b, "["))
           IsLoop(f) == f = [n \in 0 .. N |-> IF n = 0 THEN e ELSE ItemTurn(b, queryIndex, f[n - 1])]
           turns == CHOOSE f : IsLoop(f)
<1>1. N \in Nat
  BY DEF Text
<1>2. arraySearch(b, queryIndex) = turns[N].found
  BY DEF arraySearch
<1>3. ASSUME NEW c \in T PROVE ItemTurn(b, queryIndex, c) \in T
  <2> DEFINE p == nextItem(b, c.at)
  <2>1. p \in Found(b)
    <3>1. c.at \in 1 .. Len(b) + 1
      BY DEF Searches
    <3> QED
      BY <3>1, ItemFound
  <2>2. ItemTurn(b, queryIndex, c) \in {c, Sought(c, NoMember), Sought(c, p)} \/ (p.end # Miss /\ ItemTurn(b, queryIndex, c) = NextMember(b, c, p))
    BY DEF ItemTurn, AtItem
  <2> HIDE DEF p
  <2>3. Sought(c, NoMember) \in T /\ Sought(c, p) \in T
    BY <2>1, SoughtType, NoneFound
  <2>4. p.end # Miss => NextMember(b, c, p) \in T
    BY <2>1, NextMemberType
  <2> QED
    BY <2>2, <2>3, <2>4
<1>4. e \in T
  BY InsidePlace, SeekingType
<1> HIDE DEF T, N, e
<1>5. \E f : IsLoop(f)
  <2> DEFINE g == [c \in T |-> ItemTurn(b, queryIndex, c)]
  <2>1. g \in [T -> T] /\ \A c \in T : g[c] = ItemTurn(b, queryIndex, c)
    BY <1>3
  <2> HIDE DEF g
  <2>2. PICK f : Loops(f, T, e, g, N)
    BY <1>1, <1>4, <2>1, Loop
  <2>3. \A n \in 1 .. N : f[n] = ItemTurn(b, queryIndex, f[n - 1])
    BY <1>1, <2>1, <2>2 DEF Loops
  <2>4. IsLoop(f)
    BY <1>1, <2>2, <2>3 DEF Loops
  <2> QED
    BY <2>4
<1>6. IsLoop(turns)
  BY <1>5
<1> HIDE DEF turns
<1>7. turns[0] = e /\ \A n \in 1 .. N : turns[n] = ItemTurn(b, queryIndex, turns[n - 1])
  <2>1. \A n \in 0 .. N : turns[n] = IF n = 0 THEN e ELSE ItemTurn(b, queryIndex, turns[n - 1])
    BY <1>6
  <2>2. 0 \in 0 .. N /\ \A n \in 1 .. N : n \in 0 .. N /\ n # 0
    BY <1>1
  <2> QED
    BY <2>1, <2>2, Zenon
<1>8. turns[N] \in T
  <2>1. turns[0] \in T /\ \A n \in 1 .. N : turns[n - 1] \in T => turns[n] \in T
    BY <1>3, <1>4, <1>7
  <2> QED
    BY <1>1, <2>1, LoopStays
<1> QED
  BY <1>2, <1>8 DEF T, Searches

\* The states of multiSearch: a value that lies in the text, where it begins and
\* the place in the query.
Within(b, t, at) ==
  at + Len(t) <= Len(b) + 1 /\ t = SubSeq(b, at, at + Len(t) - 1)

Paths(b) ==
  {c \in [i : Nat \ {0}, start : 1 .. Len(b), text : Text \ {<<>>}, ret : Statuses] : Within(b, c.text, c.start)}

\* A member of a value that lies in the text lies in it.
LEMMA CutWithin ==
  ASSUME NEW b \in Text, NEW t \in Text, NEW at \in 1 .. Len(b), Within(b, t, at),
         NEW v, NEW e, ValueAt(t, v, e)
  PROVE  /\ Cut(t, v, e) \in Text \ {<<>>} /\ at + v - 1 \in 1 .. Len(b) /\ Closed(Cut(t, v, e))
         /\ Within(b, Cut(t, v, e), at + v - 1)
<1>1. Len(b) \in Nat /\ Len(t) \in Nat
  BY DEF Text
<1>2. v \in 1 .. Len(t) /\ e \in v + 1 .. Len(t) + 1 /\ Closed(Cut(t, v, e))
  BY DEF ValueAt
<1>3. Cut(t, v, e) \in Text /\ Len(Cut(t, v, e)) = e - v /\ Cut(t, v, e) # <<>>
  BY <1>2, CutType DEF Closed
<1>4. Cut(t, v, e) = SubSeq(b, at + v - 1, at + (e - 1) - 1)
  <2> DEFINE j == at + Len(t) - 1
  <2>1. /\ j \in 1 .. Len(b) /\ j - at + 1 = Len(t)
        /\ v \in 1 .. Len(t) /\ e - 1 \in 1 .. Len(t)
    BY <1>1, <1>2 DEF Within
  <2>2. t = SubSeq(b, at, j) /\ b \in Seq(STRING)
    BY DEF Within, Text
  <2> HIDE DEF j
  <2>3. SubSeq(SubSeq(b, at, j), v, e - 1) = SubSeq(b, at + v - 1, at + (e - 1) - 1)
    BY <1>1, <2>1, <2>2, SubSeqOfSubSeq
  <2> QED
    BY <2>2, <2>3 DEF Cut
<1>5. at + v - 1 \in 1 .. Len(b) /\ (at + v - 1) + (e - v) <= Len(b) + 1
  BY <1>1, <1>2 DEF Within
<1>6. (at + v - 1) + (e - v) - 1 = at + (e - 1) - 1
  BY <1>1, <1>2
<1> QED
  BY <1>2, <1>3, <1>4, <1>5, <1>6 DEF Within

LEMMA SearchedPath ==
  ASSUME NEW b \in Text, NEW q, NEW c \in Paths(b), NEW i \in Nat \ {0}, NEW m \in Found(c.text)
  PROVE  LET d == Searched(q, c, i, m) IN d \in Paths(b) /\ (d.ret = Success => Closed(d.text))
<1>1. /\ Len(b) \in Nat
      /\ c \in [i : Nat \ {0}, start : 1 .. Len(b), text : Text \ {<<>>}, ret : Statuses]
      /\ Within(b, c.text, c.start)
  BY DEF Paths, Text
<1>2. CASE m.end = Miss
  <2> DEFINE d == [c EXCEPT !.ret = NotFound]
  <2>1. Searched(q, c, i, m) = d
    BY <1>2 DEF Searched
  <2>2. NotFound \in Statuses /\ NotFound # Success
    BY DEF NotFound, Success, Statuses
  <2>3. /\ d \in [i : Nat \ {0}, start : 1 .. Len(b), text : Text \ {<<>>}, ret : Statuses]
        /\ d.text = c.text /\ d.start = c.start /\ d.ret # Success
    BY <1>1, <2>2
  <2> HIDE DEF d
  <2>4. d \in Paths(b)
    BY <1>1, <2>3 DEF Paths
  <2> QED
    BY <2>1, <2>3, <2>4
<1>3. CASE m.end # Miss
  <2> DEFINE k == IF Has(q, i, ".") THEN i + 1 ELSE i
             t == Cut(c.text, m.value, m.end)
             d == [c EXCEPT !.i = k, !.start = @ + m.value - 1, !.text = t]
  <2>1. Searched(q, c, i, m) = d
    BY <1>3 DEF Searched
  <2>2. ValueAt(c.text, m.value, m.end)
    BY <1>3 DEF Found
  <2>3. /\ t \in Text \ {<<>>} /\ c.start + m.value - 1 \in 1 .. Len(b) /\ Closed(t)
        /\ Within(b, t, c.start + m.value - 1)
    <3>1. c.text \in Text /\ c.start \in 1 .. Len(b)
      BY <1>1
    <3> QED
      BY <1>1, <2>2, <3>1, CutWithin
  <2>4. k \in Nat \ {0}
    OBVIOUS
  <2> HIDE DEF k, t
  <2>5. /\ d \in [i : Nat \ {0}, start : 1 .. Len(b), text : Text \ {<<>>}, ret : Statuses]
        /\ d.text = t /\ d.start = c.start + m.value - 1
    BY <1>1, <2>3, <2>4
  <2> HIDE DEF d
  <2>6. d \in Paths(b)
    BY <2>3, <2>5 DEF Paths
  <2> QED
    BY <2>1, <2>3, <2>5, <2>6
<1> QED
  BY <1>2, <1>3

LEMMA QueryPartPlace ==
  ASSUME NEW q, Len(q) \in Nat, NEW i \in Nat \ {0}, i <= Len(q)
  PROVE  LET j == QueryPart(q, i) IN j \in i .. Len(q) + 1 /\ (j <= Len(q) => q[j] \in {".", "["})
<1> DEFINE End(j) == /\ j <= Len(q) => q[j] \in {".", "["}
                     /\ \A k \in i .. j - 1 : q[k] \notin {".", "["}
           R == {j \in i .. Len(q) + 1 : j <= Len(q) => q[j] \in {".", "["}}
<1>1. QueryPart(q, i) = CHOOSE j \in i .. Len(q) + 1 : End(j)
  BY DEF QueryPart
<1>2. Len(q) + 1 \in R /\ R \in SUBSET Nat
  OBVIOUS
<1>3. PICK j \in R : \A m \in R : j <= m
  BY <1>2, Least
<1>4. ASSUME NEW k \in i .. j - 1 PROVE q[k] \notin {".", "["}
  <2>1. k \in i .. Len(q) + 1 /\ k < j /\ k <= Len(q)
    BY <1>2, <1>3
  <2> QED
    BY <1>3, <2>1
<1>5. j \in i .. Len(q) + 1 /\ End(j)
  BY <1>3, <1>4
<1> HIDE DEF End
<1>6. QueryPart(q, i) \in i .. Len(q) + 1 /\ End(QueryPart(q, i))
  BY <1>1, <1>5
<1> QED
  BY <1>6 DEF End

\* A turn of it finds a value, unless it fails.
LEMMA SearchTurnPath ==
  ASSUME NEW b \in Text, NEW q \in Text, NEW c \in Paths(b)
  PROVE  LET d == SearchTurn(q, c) IN
         /\ d \in Paths(b)
         /\ d.ret = Success => Closed(d.text) \/ d = c
         /\ c.i = 1 /\ c.ret = Success /\ q # <<>> /\ d.ret = Success => Closed(d.text)
<1>1. /\ Len(b) \in Nat /\ Len(q) \in Nat /\ (q # <<>> => Len(q) # 0)
      /\ c \in [i : Nat \ {0}, start : 1 .. Len(b), text : Text \ {<<>>}, ret : Statuses]
  BY DEF Paths, Text
<1>2. BadParameter \in Statuses /\ BadParameter # Success
  BY DEF BadParameter, Success, Statuses
<1> DEFINE x == [c EXCEPT !.ret = BadParameter]
<1>3. x \in Paths(b) /\ x.ret # Success
  <2>1. /\ x \in [i : Nat \ {0}, start : 1 .. Len(b), text : Text \ {<<>>}, ret : Statuses]
        /\ x.text = c.text /\ x.start = c.start /\ x.ret # Success
    BY <1>1, <1>2
  <2> HIDE DEF x
  <2> QED
    BY <2>1 DEF Paths
<1>4. CASE c.i > Len(q) \/ c.ret # Success
  <2>1. SearchTurn(q, c) = c
    BY <1>4 DEF SearchTurn
  <2>2. ~(c.i = 1 /\ c.ret = Success /\ q # <<>>)
    BY <1>1, <1>4
  <2> QED
    BY <2>1, <2>2
<1>5. CASE ~(c.i > Len(q) \/ c.ret # Success)
  <2> DEFINE i == Past(q, c.i + 1, Digit)
             k == QueryPart(q, c.i)
             n == Index(Cut(q, c.i + 1, i))
             key == Cut(q, c.i, k)
  <2>1. i + 1 \in Nat \ {0} /\ k \in Nat \ {0}
    <3>1. c.i + 1 \in Nat \ {0} /\ c.i \in Nat \ {0} /\ c.i <= Len(q)
      BY <1>1, <1>5
    <3>2. i \in Nat
      BY <3>1, PastPlace
    <3>3. k \in c.i .. Len(q) + 1
      BY <1>1, <3>1, QueryPartPlace
    <3> HIDE DEF i, k
    <3> QED
      BY <1>1, <3>1, <3>2, <3>3
  <2>2. SearchTurn(q, c) \in {x, Searched(q, c, i + 1, arraySearch(c.text, n)),
                              Searched(q, c, k, objectSearch(c.text, key))}
    BY <1>5 DEF SearchTurn, SearchIndex, SearchKey
  <2> HIDE DEF i, k, n, key, x
  <2>3. arraySearch(c.text, n) \in Found(c.text) /\ objectSearch(c.text, key) \in Found(c.text)
    <3>1. c.text \in Text
      BY <1>1
    <3> QED
      BY <3>1, KeyFound, IndexFound
  <2>4. LET d == Searched(q, c, i + 1, arraySearch(c.text, n))
        IN  d \in Paths(b) /\ (d.ret = Success => Closed(d.text))
    BY <2>1, <2>3, SearchedPath
  <2>5. LET d == Searched(q, c, k, objectSearch(c.text, key))
        IN  d \in Paths(b) /\ (d.ret = Success => Closed(d.text))
    BY <2>1, <2>3, SearchedPath
  <2> QED
    BY <1>3, <2>2, <2>4, <2>5
<1> QED
  BY <1>4, <1>5

\* f are the turns of a search for q.
SearchRuns(b, q, f) ==
  /\ f[0] = [i |-> 1, start |-> 1, text |-> b, ret |-> Success]
  /\ \A n \in 1 .. Len(q) : f[n] = SearchTurn(q, f[n - 1])

LEMMA PathFound ==
  ASSUME NEW b \in Text, b # <<>>, NEW q \in Text, q # <<>>
  PROVE  /\ LET r == multiSearch(b, q) IN r \in Paths(b) /\ (r.ret = Success => Closed(r.text))
         /\ \E f : SearchRuns(b, q, f) /\ f[Len(q)] = multiSearch(b, q)
<1> DEFINE N == Len(q)
           T == Paths(b)
           e == [i |-> 1, start |-> 1, text |-> b, ret |-> Success]
           IsLoop(f) == f = [n \in 0 .. N |-> IF n = 0 THEN e ELSE SearchTurn(q, f[n - 1])]
           turns == CHOOSE f : IsLoop(f)
           Kept(n) == {c \in T : IF n = 0 THEN c.i = 1 /\ c.ret = Success ELSE c.ret = Success => Closed(c.text)}
           K == [n \in Nat |-> Kept(n)]
<1>1. N \in Nat /\ N # 0 /\ Len(b) \in Nat /\ Len(b) # 0
  BY DEF Text
<1>2. multiSearch(b, q) = turns[N]
  BY DEF multiSearch
<1>3. \A c \in T : SearchTurn(q, c) \in T
  BY SearchTurnPath
<1>4. e \in T /\ e.i = 1 /\ e.ret = Success
  <2>1. e.text = SubSeq(b, 1, Len(b)) /\ Len(e.text) = Len(b)
    BY SubSeqFull DEF Text
  <2>2. 1 + Len(b) - 1 = Len(b) /\ 1 + Len(b) <= Len(b) + 1
    BY <1>1
  <2>3. Within(b, e.text, e.start)
    BY <2>1, <2>2 DEF Within
  <2>4. e \in [i : Nat \ {0}, start : 1 .. Len(b), text : Text \ {<<>>}, ret : Statuses]
    BY <1>1 DEF Statuses
  <2> QED
    BY <2>3, <2>4 DEF Paths
<1> HIDE DEF T, N, e
<1>5. \E f : IsLoop(f)
  <2> DEFINE g == [c \in T |-> SearchTurn(q, c)]
  <2>1. g \in [T -> T] /\ \A c \in T : g[c] = SearchTurn(q, c)
    BY <1>3
  <2> HIDE DEF g
  <2>2. PICK f : Loops(f, T, e, g, N)
    BY <1>1, <1>4, <2>1, Loop
  <2>3. \A n \in 1 .. N : f[n] = SearchTurn(q, f[n - 1])
    BY <1>1, <2>1, <2>2 DEF Loops
  <2>4. IsLoop(f)
    BY <1>1, <2>2, <2>3 DEF Loops
  <2> QED
    BY <2>4
<1>6. IsLoop(turns)
  BY <1>5
<1> HIDE DEF turns
<1>7. turns[0] = e /\ \A n \in 1 .. N : turns[n] = SearchTurn(q, turns[n - 1])
  <2>1. \A n \in 0 .. N : turns[n] = IF n = 0 THEN e ELSE SearchTurn(q, turns[n - 1])
    BY <1>6
  <2>2. 0 \in 0 .. N /\ \A n \in 1 .. N : n \in 0 .. N /\ n # 0
    BY <1>1
  <2> QED
    BY <2>1, <2>2, Zenon
<1>8. \A n \in Nat : K[n] = Kept(n)
  OBVIOUS
<1> HIDE DEF K
<1>9. turns[0] \in K[0]
  BY <1>4, <1>7, <1>8
<1>10. ASSUME NEW n \in 1 .. N, turns[n - 1] \in K[n - 1] PROVE turns[n] \in K[n]
  <2>1. n \in Nat /\ n - 1 \in Nat /\ n # 0
    BY <1>1
  <2> DEFINE c == turns[n - 1]
             d == turns[n]
  <2>2. c \in T /\ IF n - 1 = 0 THEN c.i = 1 /\ c.ret = Success ELSE c.ret = Success => Closed(c.text)
    BY <1>8, <1>10, <2>1
  <2>3. d = SearchTurn(q, c)
    BY <1>7
  <2> HIDE DEF c, d
  <2>4. /\ d \in T
        /\ d.ret = Success => Closed(d.text) \/ d = c
        /\ c.i = 1 /\ c.ret = Success /\ q # <<>> /\ d.ret = Success => Closed(d.text)
    BY <2>2, <2>3, SearchTurnPath DEF T
  <2>5. d.ret = Success => Closed(d.text)
    BY <2>2, <2>4
  <2>6. d \in K[n]
    BY <1>8, <2>1, <2>4, <2>5
  <2> QED
    BY <2>6 DEF d
<1>11. turns[N] \in K[N]
  BY <1>1, <1>9, <1>10, LoopKeeps
<1>12. turns[N] \in T /\ (turns[N].ret = Success => Closed(turns[N].text))
  BY <1>1, <1>8, <1>11
<1>13. SearchRuns(b, q, turns)
  BY <1>7 DEF SearchRuns, N, e
<1> QED
  BY <1>2, <1>12, <1>13 DEF T, N

\* A query of a single key is one turn.
LEMMA PlainFound ==
  ASSUME NEW b \in Text, b # <<>>, NEW q \in Text, q # <<>>,
         \A k \in 1 .. Len(q) : q[k] \notin {".", "["},
         multiSearch(b, q).ret = Success
  PROVE  LET m == objectSearch(b, q)
             r == multiSearch(b, q)
         IN  m.end # Miss /\ r.text = Cut(b, m.value, m.end) /\ r.start = m.value
<1> DEFINE N == Len(q)
           e == [i |-> 1, start |-> 1, text |-> b, ret |-> Success]
           m == objectSearch(b, q)
           d == Searched(q, e, N + 1, m)
<1>1. N \in Nat \ {0} /\ 1 \in 1 .. N
  BY DEF Text
<1>2. QueryPart(q, 1) = N + 1
  <2>1. /\ QueryPart(q, 1) \in 1 .. N + 1
        /\ QueryPart(q, 1) <= N => q[QueryPart(q, 1)] \in {".", "["}
    BY <1>1, QueryPartPlace
  <2>2. QueryPart(q, 1) \notin 1 .. N
    BY <1>1, <2>1
  <2> QED
    BY <1>1, <2>1, <2>2
<1>3. Cut(q, 1, N + 1) = q
  <2>1. (N + 1) - 1 = N /\ SubSeq(q, 1, N) = q
    BY <1>1, SubSeqFull DEF Text
  <2> QED
    BY <2>1 DEF Cut
<1>4. e.i = 1 /\ e.text = b /\ e.start = 1 /\ e.ret = Success
  OBVIOUS
<1>5. m \in Found(b)
  BY KeyFound
<1> HIDE DEF e, m
<1>6. SearchTurn(q, e) = d
  <2>1. ~(e.i > Len(q) \/ e.ret # Success) /\ q[e.i] # "["
    BY <1>1, <1>4
  <2>2. SearchTurn(q, e) = SearchKey(q, e)
    BY <2>1 DEF SearchTurn
  <2>3. N + 1 # 1 /\ N + 1 # Len(q)
    BY <1>1
  <2>4. SearchKey(q, e) = d
    BY <1>2, <1>3, <1>4, <2>3 DEF SearchKey, m
  <2> QED
    BY <2>2, <2>4
<1>7. d.i > N \/ d.ret # Success
  <2>1. CASE m.end = Miss
    <3>1. d = [e EXCEPT !.ret = NotFound]
      BY <2>1 DEF Searched
    <3> QED
      BY <3>1 DEF e, NotFound, Success
  <2>2. CASE m.end # Miss
    <3>1. d.i = N + 1
      <4>1. ~Has(q, N + 1, ".")
        BY <1>1 DEF Has
      <4>2. d = [e EXCEPT !.i = IF Has(q, N + 1, ".") THEN (N + 1) + 1 ELSE N + 1, !.start = @ + m.value - 1,
                          !.text = Cut(@, m.value, m.end)]
        BY <2>2 DEF Searched
      <4>3. d.i = IF Has(q, N + 1, ".") THEN (N + 1) + 1 ELSE N + 1
        BY <4>2 DEF e
      <4> QED
        BY <4>1, <4>3
    <3> QED
      BY <1>1, <3>1
  <2> QED
    BY <2>1, <2>2
<1>8. PICK f : SearchRuns(b, q, f) /\ f[N] = multiSearch(b, q)
  BY PathFound
<1> HIDE DEF d
<1>9. f[N] = d
  <2> DEFINE K == [n \in Nat |-> IF n = 0 THEN {e} ELSE {d}]
  <2>1. K[0] = {e} /\ \A n \in 1 .. N : K[n] = {d} /\ (K[n - 1] = {d} \/ (n = 1 /\ K[n - 1] = {e}))
    BY <1>1
  <2> HIDE DEF K
  <2>2. f[0] \in K[0]
    BY <1>8, <2>1 DEF SearchRuns, e
  <2>3. ASSUME NEW n \in 1 .. N, f[n - 1] \in K[n - 1] PROVE f[n] \in K[n]
    <3>1. f[n] = SearchTurn(q, f[n - 1])
      BY <1>8 DEF SearchRuns
    <3>2. SearchTurn(q, d) = d
      BY <1>7 DEF SearchTurn
    <3> QED
      BY <1>6, <2>1, <2>3, <3>1, <3>2
  <2>4. f[N] \in K[N]
    BY <1>1, <2>2, <2>3, LoopKeeps
  <2> QED
    BY <1>1, <2>1, <2>4
<1>10. m.end # Miss
  <2> SUFFICES ASSUME m.end = Miss PROVE FALSE
    OBVIOUS
  <2>1. d = [e EXCEPT !.ret = NotFound]
    BY DEF Searched, d
  <2>2. d.ret = NotFound
    BY <2>1 DEF e
  <2> QED
    BY <1>8, <1>9, <2>2 DEF NotFound, Success
<1>11. d.text = Cut(b, m.value, m.end) /\ d.start = 1 + m.value - 1
  <2>1. d = [e EXCEPT !.i = IF Has(q, N + 1, ".") THEN (N + 1) + 1 ELSE N + 1, !.start = @ + m.value - 1,
                      !.text = Cut(@, m.value, m.end)]
    BY <1>10 DEF Searched, d
  <2> QED
    BY <2>1 DEF e
<1>12. m.value \in Nat /\ 1 + m.value - 1 = m.value
  BY <1>5 DEF Found, Text
<1> QED
  BY <1>8, <1>9, <1>10, <1>11, <1>12 DEF m

-----------------------------------------------------------------------------
(* What is handed out.                                                     *)

Kinds == {"JSONString", "JSONObject", "JSONArray", "JSONNumber"} \cup Literal

LEMMA KindType == ASSUME NEW c PROVE getType(c) \in Kinds
<1>1. CASE c = Quote
  BY <1>1, Zenon DEF getType, Kinds
<1>2. CASE c # Quote /\ c = "{"
  BY <1>2, Zenon DEF getType, Kinds
<1>3. CASE c # Quote /\ c # "{" /\ c = "["
  BY <1>3, Zenon DEF getType, Kinds
<1>4. CASE c # Quote /\ c # "{" /\ c # "[" /\ c \in Literal
  BY <1>4, Zenon DEF getType, Kinds
<1>5. CASE c # Quote /\ c # "{" /\ c # "[" /\ c \notin Literal
  BY <1>5, Zenon DEF getType, Kinds
<1> QED
  BY <1>1, <1>2, <1>3, <1>4, <1>5

LEMMA SubSeqType ==
  ASSUME NEW t \in Text, NEW i \in Nat \ {0}, NEW j \in Int, j <= Len(t)
  PROVE  SubSeq(t, i, j) \in Text
<1>1. \A k \in i .. j : t[k] \in STRING
  BY DEF Text
<1> QED
  BY <1>1, SubSeqProperties DEF Text

LEMMA StrippedType ==
  ASSUME NEW t \in Text
  PROVE  Stripped(t) \in Text
<1>1. Len(t) \in Nat
  BY DEF Text
<1>2. SubSeq(t, 2, Len(t) - 1) \in Text
  <2>1. 2 \in Nat \ {0} /\ Len(t) - 1 \in Int /\ Len(t) - 1 <= Len(t)
    BY <1>1
  <2> QED
    BY <2>1, SubSeqType
<1> QED
  BY <1>2 DEF Stripped

LEMMA ValueIsPart ==
  ASSUME buf \in Text, NEW i, NEW e, ValueAt(buf, i, e)
  PROVE  PartOf(Stripped(Cut(buf, i, e)), getType(buf[i]))
<1>1. Len(buf) \in Nat
  BY DEF Text
<1>2. i \in 1 .. Len(buf) /\ e - 1 \in 1 .. Len(buf) /\ i <= e - 1
  BY <1>1 DEF ValueAt
<1>3. Closed(SubSeq(buf, i, e - 1)) /\ Cut(buf, i, e) = SubSeq(buf, i, e - 1)
  BY DEF ValueAt, Cut
<1> QED
  BY <1>2, <1>3 DEF PartOf

LEMMA PathIsPart ==
  ASSUME buf \in Text, NEW c \in Paths(buf), Closed(c.text)
  PROVE  PartOf(Stripped(c.text), getType(buf[c.start]))
<1> DEFINE i == c.start
           j == i + Len(c.text) - 1
<1>1. /\ Len(buf) \in Nat /\ c.text \in Text /\ c.text # <<>> /\ i \in 1 .. Len(buf)
      /\ i + Len(c.text) <= Len(buf) + 1 /\ c.text = SubSeq(buf, i, j)
  BY DEF Paths, Within, Text
<1>2. Len(c.text) \in Nat /\ Len(c.text) # 0
  <2>1. ASSUME NEW t \in Text, t # <<>> PROVE Len(t) \in Nat /\ Len(t) # 0
    BY <2>1 DEF Text
  <2> QED
    BY <1>1, <2>1
<1>3. j \in 1 .. Len(buf) /\ i <= j
  BY <1>1, <1>2
<1> HIDE DEF j
<1>4. Closed(SubSeq(buf, i, j)) /\ Stripped(c.text) = Stripped(SubSeq(buf, i, j))
  BY <1>1
<1> QED
  BY <1>1, <1>3, <1>4 DEF PartOf

Pairs == Text \X Text \X Kinds

IsHandedOut(p) ==
  PartOf(p[2], p[3]) /\ \E i, j \in 1 .. Len(buf) + 1 : p[1] = Cut(buf, i, j)

LEMMA MemberHandedOut ==
  ASSUME buf \in Text, NEW m \in Found(buf), m.end # Miss
  PROVE  HandedOut(m) \in Pairs /\ IsHandedOut(HandedOut(m))
<1>1. /\ Len(buf) \in Nat /\ ValueAt(buf, m.value, m.end)
      /\ m.key \in 1 .. Len(buf) + 1 /\ m.quote \in 1 .. Len(buf) + 1
  BY DEF Found, Text
<1>2. Cut(buf, m.key, m.quote) \in Text
  <2>1. m.key \in Nat \ {0} /\ m.quote - 1 \in Int /\ m.quote - 1 <= Len(buf)
    BY <1>1
  <2> QED
    BY <2>1, SubSeqType DEF Cut
<1>3. Stripped(Cut(buf, m.value, m.end)) \in Text
  <2>1. Cut(buf, m.value, m.end) \in Text
    BY <1>1, CutType DEF ValueAt
  <2> QED
    BY <2>1, StrippedType
<1>4. PartOf(Stripped(Cut(buf, m.value, m.end)), getType(buf[m.value]))
  BY <1>1, ValueIsPart
<1>5. getType(buf[m.value]) \in Kinds
  BY KindType
<1> QED
  BY <1>1, <1>2, <1>3, <1>4, <1>5 DEF HandedOut, Pairs, IsHandedOut

LEMMA MemberFound ==
  ASSUME buf \in Text, NEW from, NEW at \in 1 .. Len(buf) + 1
  PROVE  LET m == Member(from, at) IN m \in Found(buf) /\ (m.end # Miss => m.value >= at)
<1>1. Len(buf) \in Nat /\ at \in Nat
  BY DEF Text
<1>2. Member(from, at) \in {nextItem(buf, at), nextKeyValuePair(buf, at), NoMember}
  BY DEF Member
<1>3. nextItem(buf, at) \in Found(buf) /\ nextItem(buf, at).value = at
  BY ItemFound
<1>4. LET m == nextKeyValuePair(buf, at) IN m \in Found(buf) /\ (m.end # Miss => m.value > at)
  BY PairFound
<1>5. nextKeyValuePair(buf, at).value \in Nat
  BY <1>1, <1>4 DEF Found
<1>6. NoMember \in Found(buf) /\ NoMember.end = Miss
  BY NoneFound DEF NoMember
<1> QED
  BY <1>1, <1>2, <1>3, <1>4, <1>5, <1>6

LEMMA ValueAccepted ==
  ASSUME buf \in Text, NEW r, NEW e, ValueAt(buf, skipSpace(buf, 1), e), Judged(r, e) = Success
  PROVE  /\ skipSpace(buf, 1) <= Len(buf)
         /\ \E i, j \in 1 .. Len(buf) :
              /\ i <= j /\ Closed(SubSeq(buf, i, j))
              /\ \A k \in 1 .. Len(buf) : k < i \/ k > j => buf[k] = Space
<1> DEFINE i == skipSpace(buf, 1)
           p == skipSpace(buf, e)
<1>1. Len(buf) \in Nat /\ 1 \in Nat \ {0}
  BY DEF Text
<1>2. i \in 1 .. Len(buf) /\ e \in i + 1 .. Len(buf) + 1 /\ Closed(Cut(buf, i, e))
  BY DEF ValueAt
<1>3. p = Len(buf) + 1
  BY DEF Judged, Success, IllegalDocument
<1>4. \A k \in 1 .. i - 1 : buf[k] = Space
  BY <1>1, SpacePlace
<1> HIDE DEF i
<1>5. \A k \in e .. p - 1 : buf[k] = Space
  <2>1. e \in Nat \ {0}
    BY <1>1, <1>2
  <2> QED
    BY <2>1, SpacePlace
<1> HIDE DEF p
<1>6. \A k \in 1 .. Len(buf) : k < i \/ k > e - 1 => buf[k] = Space
  <2> SUFFICES ASSUME NEW k \in 1 .. Len(buf), k < i \/ k > e - 1 PROVE buf[k] = Space
    OBVIOUS
  <2>1. k \in 1 .. i - 1 \/ k \in e .. p - 1
    BY <1>1, <1>2, <1>3
  <2> QED
    BY <1>4, <1>5, <2>1
<1>7. e - 1 \in 1 .. Len(buf) /\ i <= e - 1 /\ i <= Len(buf)
  BY <1>1, <1>2
<1>8. Closed(SubSeq(buf, i, e - 1))
  BY <1>2 DEF Cut
<1> QED
  BY <1>2, <1>6, <1>7, <1>8 DEF i

-----------------------------------------------------------------------------
(* The invariant.                                                          *)

\* What the functions keep to holds of all that the code has kept: s is the loop
\* of some place in the text, of its first character while the loop runs; what
\* JSON_Iterate is called with begins with a character that is no blank.
IInv ==
  /\ buf \in Text
  /\ start \in 1 .. Len(buf) + 1 /\ next \in 1 .. Len(buf) + 1
  /\ pc \in {"idle", "loaded", "collection", "judged"} => start = 1 /\ next = 1 /\ pairs = <<>>
  /\ pc = "idle" => s = Collection(1)
  /\ \E i \in 1 .. Len(buf) + 1 : Nests(buf, i, s)
  /\ pc = "collection" => Nests(buf, skipSpace(buf, 1), s)
  /\ pc \in {"judged", "iterate"} /\ ret = Success => skipSpace(buf, start) <= Len(buf)
  /\ AcceptsClosed /\ FindsPart
  /\ pairs \in Seq(Pairs) /\ \A n \in 1 .. Len(pairs) : IsHandedOut(pairs[n])

LEMMA InitIInv == Init => IInv
<1> SUFFICES ASSUME Init PROVE IInv
  OBVIOUS
<1>1. buf \in Text /\ Len(buf) = 0
  BY DEF Init, Text
<1>2. 1 \in 1 .. Len(buf) + 1
  BY <1>1
<1>3. Nests(buf, 1, s)
  BY <1>1, <1>2, BeginNests DEF Init
<1>4. pairs \in Seq(Pairs) /\ Len(pairs) = 0
  BY DEF Init
<1> QED
  BY <1>1, <1>2, <1>3, <1>4 DEF Init, IInv, AcceptsClosed, FindsPart

LEMMA InvariantImplies == IInv => StaysInText
<1> SUFFICES ASSUME IInv PROVE StaysInText
  OBVIOUS
<1>1. Len(buf) \in Nat
  BY DEF IInv, Text
<1>2. PICK i \in 1 .. Len(buf) + 1 : Nests(buf, i, s)
  BY DEF IInv
<1>3. PICK at : Places(buf, i, s, at)
  BY <1>2 DEF Nests
<1>4. s.i \in 1 .. Len(buf) + 1 /\ s.i \in i .. Len(buf) + 1 /\ Len(s.stack) <= MaxDepth
  BY <1>1, <1>2 DEF Nests
<1>5. at \in [1 .. Len(s.stack) -> 1 .. s.i - 1]
  <2>1. ASSUME NEW k \in 1 .. Len(s.stack) PROVE at[k] \in 1 .. s.i - 1
    <3>1. at[k] \in i .. s.i - 1
      BY <1>3 DEF Places
    <3> QED
      BY <1>1, <1>4, <3>1
  <2> QED
    BY <1>3, <2>1 DEF Places
<1>6. StackIsNesting
  BY <1>2, <1>3, <1>4, <1>5 DEF StackIsNesting, Places, Nests, TooDeep
<1>7. HandsOutParts
  BY DEF IInv, HandsOutParts, IsHandedOut
<1> QED
  BY <1>6, <1>7 DEF IInv, StaysInText

LEMMA FirstPlace == ASSUME buf \in Text PROVE skipSpace(buf, 1) \in 1 .. Len(buf) + 1
<1> DEFINE p == skipSpace(buf, 1)
<1>1. Len(buf) \in Nat /\ 1 \in Nat \ {0}
  BY DEF Text
<1>2. p \in Nat /\ p >= 1 /\ (IF 1 > Len(buf) THEN p = 1 ELSE p <= Len(buf) + 1)
  BY <1>1, SpacePlace
<1> HIDE DEF p
<1>3. p \in 1 .. Len(buf) + 1
  BY <1>1, <1>2
<1> QED
  BY <1>3 DEF p

LEMMA LoadIInv == ASSUME IInv, Load PROVE IInv'
<1>1. buf' \in Text
  BY DocumentAssumption DEF Load, Text
<1>2. pc' = "loaded" /\ s' = s /\ start' = 1 /\ next' = 1 /\ pairs' = <<>> /\ s = Collection(1)
  BY DEF IInv, Load
<1>3. Len(buf') \in Nat
  BY <1>1 DEF Text
<1>4. 1 \in 1 .. Len(buf') + 1
  BY <1>3
<1>5. Nests(buf', 1, s')
  BY <1>1, <1>2, <1>4, BeginNests
<1>6. (pairs \in Seq(Pairs) /\ \A n \in 1 .. Len(pairs) : IsHandedOut(pairs[n]))'
  <2>1. pairs' \in Seq(Pairs) /\ Len(pairs') = 0
    BY <1>2
  <2> QED
    BY <2>1
<1>7. AcceptsClosed' /\ FindsPart'
  BY <1>2 DEF AcceptsClosed, FindsPart
<1> QED
  BY <1>1, <1>2, <1>4, <1>5, <1>6, <1>7 DEF IInv

LEMMA ValidateIInv == ASSUME IInv, Validate PROVE IInv'
<1> DEFINE first  == skipSpace(buf, 1)
           scalar == skipAnyScalar(buf, first)
<1>1. /\ UNCHANGED <<tree, buf, query, value, start, next, pairs>> /\ pc = "loaded"
      /\ buf \in Text /\ start = 1 /\ pc' \in {"judged", "collection"}
  BY DEF IInv, Validate
<1>2. first \in 1 .. Len(buf) + 1
  BY <1>1, FirstPlace
<1>3. \E i \in 1 .. Len(buf) + 1 : Nests(buf, i, s')
  <2>1. s' = s \/ s' = Collection(first)
    BY DEF Validate
  <2>2. CASE s' = s
    BY <2>2 DEF IInv
  <2>3. CASE s' = Collection(first)
    <3>1. Nests(buf, first, s')
      BY <1>1, <1>2, <2>3, BeginNests
    <3> QED
      BY <1>2, <3>1
  <2> QED
    BY <2>1, <2>2, <2>3
<1>4. pc' = "collection" => Nests(buf, first, s')
  <2>1. pc' = "collection" => s' = Collection(first)
    BY DEF Validate
  <2> QED
    BY <1>1, <1>2, <2>1, BeginNests
<1>5. ASSUME pc' = "judged", ret' = Success
      PROVE  /\ first <= Len(buf)
             /\ \E i, j \in 1 .. Len(buf) :
                  /\ i <= j /\ Closed(SubSeq(buf, i, j))
                  /\ \A k \in 1 .. Len(buf) : k < i \/ k > j => buf[k] = Space
  <2>1. scalar # Miss /\ Judged(Success, scalar) = Success
    BY <1>5 DEF Validate, BadParameter, Success
  <2>2. ValueAt(buf, first, scalar)
    BY <1>1, <1>2, <2>1, ScalarValue
  <2> QED
    BY <1>1, <2>1, <2>2, ValueAccepted
<1> HIDE DEF first
<1>6. AcceptsClosed' /\ FindsPart'
  BY <1>1, <1>5 DEF AcceptsClosed, FindsPart
<1>7. pc' \in {"judged", "iterate"} /\ ret' = Success => skipSpace(buf', start') <= Len(buf')
  BY <1>1, <1>5 DEF first
<1>8. (pc \in {"idle", "loaded", "collection", "judged"} => start = 1 /\ next = 1 /\ pairs = <<>>)'
  BY <1>1 DEF IInv
<1>9. (\A n \in 1 .. Len(pairs) : IsHandedOut(pairs[n]))'
  BY <1>1 DEF IInv, IsHandedOut, PartOf
<1> QED
  BY <1>1, <1>3, <1>4, <1>6, <1>7, <1>8, <1>9 DEF IInv, first

LEMMA CollectionTurnIInv == ASSUME IInv, CollectionTurn PROVE IInv'
<1> DEFINE first == skipSpace(buf, 1)
<1>1. /\ UNCHANGED <<pc, tree, buf, ret, query, value, start, next, pairs>> /\ pc = "collection"
      /\ buf \in Text /\ Nests(buf, first, s) /\ ~Ended(buf, s) /\ s' = Turn(buf, s)
  BY DEF IInv, CollectionTurn
<1>2. first \in 1 .. Len(buf) + 1
  BY <1>1, FirstPlace
<1>3. Nests(buf, first, s')
  BY <1>1, <1>2, TurnNests
<1>4. AcceptsClosed' /\ FindsPart'
  BY <1>1 DEF AcceptsClosed, FindsPart
<1>5. (\A n \in 1 .. Len(pairs) : IsHandedOut(pairs[n]))'
  BY <1>1 DEF IInv, IsHandedOut, PartOf
<1> QED
  BY <1>1, <1>2, <1>3, <1>4, <1>5 DEF IInv

LEMMA CollectionEndIInv == ASSUME IInv, CollectionEnd PROVE IInv'
<1> DEFINE first == skipSpace(buf, 1)
<1>1. /\ UNCHANGED <<tree, buf, s, query, value, start, next, pairs>> /\ pc = "collection" /\ pc' = "judged"
      /\ buf \in Text /\ start = 1 /\ Nests(buf, first, s) /\ ret' = Judged(s.ret, s.i)
  BY DEF IInv, CollectionEnd
<1>2. first \in 1 .. Len(buf) + 1
  BY <1>1, FirstPlace
<1>3. ASSUME ret' = Success
      PROVE  /\ first <= Len(buf)
             /\ \E i, j \in 1 .. Len(buf) :
                  /\ i <= j /\ Closed(SubSeq(buf, i, j))
                  /\ \A k \in 1 .. Len(buf) : k < i \/ k > j => buf[k] = Space
  <2>1. s.ret = Success /\ Judged(s.ret, s.i) = Success
    BY <1>1, <1>3 DEF Judged, Success, IllegalDocument
  <2>2. ValueAt(buf, first, s.i)
    BY <1>1, <1>2, <2>1, CollectionValue
  <2> QED
    BY <1>1, <2>1, <2>2, ValueAccepted
<1> HIDE DEF first
<1>4. AcceptsClosed' /\ FindsPart'
  <2>1. FindsPart'
    BY <1>1 DEF FindsPart
  <2>2. buf' = buf
    BY <1>1
  <2>3. AcceptsClosed'
    BY <1>3, <2>2 DEF AcceptsClosed
  <2> QED
    BY <2>1, <2>3
<1>5. (\A n \in 1 .. Len(pairs) : IsHandedOut(pairs[n]))'
  BY <1>1 DEF IInv, IsHandedOut, PartOf
<1>6. ret' = Success => skipSpace(buf', start') <= Len(buf')
  BY <1>1, <1>3 DEF first
<1> QED
  BY <1>1, <1>4, <1>5, <1>6 DEF IInv

LEMMA SearchIInv == ASSUME IInv, Search PROVE IInv'
<1> DEFINE q == query'.text
           r == multiSearch(buf, q)
           bad == q = <<>> \/ buf = <<>>
<1>1. /\ UNCHANGED <<tree, buf, s, start, next, pairs>> /\ pc' = "found" /\ buf \in Text
      /\ ret' = IF bad THEN BadParameter ELSE r.ret
      /\ value' = IF ~bad /\ r.ret = Success
                  THEN [text |-> Stripped(r.text), type |-> getType(buf[r.start])] ELSE value
  BY DEF IInv, Search
<1>2. q \in Text
  BY DocumentAssumption DEF Search, Text
<1>3. FindsPart'
  <2> SUFFICES ASSUME ret' = Success PROVE PartOf(value.text, value.type)'
    BY DEF FindsPart
  <2>1. ~bad /\ r.ret = Success
    BY <1>1 DEF BadParameter, Success
  <2>2. r \in Paths(buf) /\ Closed(r.text)
    BY <1>1, <1>2, <2>1, PathFound
  <2> HIDE DEF r, bad
  <2>3. value'.text = Stripped(r.text) /\ value'.type = getType(buf[r.start])
    BY <1>1, <2>1
  <2>4. PartOf(value'.text, value'.type)
    BY <1>1, <2>2, <2>3, PathIsPart
  <2> QED
    BY <1>1, <2>4 DEF PartOf
<1> HIDE DEF q, r, bad
<1>4. AcceptsClosed'
  BY <1>1 DEF AcceptsClosed
<1>5. (\A n \in 1 .. Len(pairs) : IsHandedOut(pairs[n]))'
  BY <1>1 DEF IInv, IsHandedOut, PartOf
<1> QED
  BY <1>1, <1>3, <1>4, <1>5 DEF IInv

\* A character that is no blank is where it is, and the next one behind it.
LEMMA SpaceStays ==
  ASSUME NEW b \in Text, NEW p \in 1 .. Len(b), b[p] # Space
  PROVE  skipSpace(b, p) = p /\ skipSpace(b, p + 1) \in 1 .. Len(b) + 1
<1>1. Len(b) \in Nat /\ p \in Nat \ {0} /\ p + 1 \in Nat \ {0}
  BY DEF Text
<1> DEFINE t == skipSpace(b, p)
           r == skipSpace(b, p + 1)
<1>2. t \in Nat /\ t >= p /\ \A k \in p .. t - 1 : b[k] = Space
  BY <1>1, SpacePlace
<1>3. r \in Nat /\ r >= p + 1 /\ (IF p + 1 > Len(b) THEN r = p + 1 ELSE r <= Len(b) + 1)
  BY <1>1, SpacePlace
<1> HIDE DEF t, r
<1>4. t # p => p \in p .. t - 1
  BY <1>1, <1>2
<1>5. t = p
  BY <1>2, <1>4
<1>6. r \in 1 .. Len(b) + 1
  BY <1>1, <1>3
<1> QED
  BY <1>5, <1>6 DEF t, r

\* An iteration has come to a member m, at the place at, or to none.
Iterated(at, m) ==
  /\ at >= next /\ (m.end # Miss => m.value >= at)
  /\ IF m.end = Miss
     THEN next' = at /\ pairs' = pairs
     ELSE next' = skipSpaceAndComma(buf, m.end).at /\ pairs' = Append(pairs, HandedOut(m))

LEMMA IterateStep ==
  ASSUME IInv, Iterate
  PROVE  /\ start' \in 1 .. Len(buf) /\ buf[start'] # Space
         /\ \E at \in 1 .. Len(buf) + 1, m \in Found(buf) : Iterated(at, m)
<1> DEFINE at == IF next <= start' THEN skipSpace(buf, start' + 1) ELSE next
           m == Member(start', at)
<1>1. /\ start' = skipSpace(buf, start)
      /\ buf \in Text /\ Len(buf) \in Nat /\ start \in 1 .. Len(buf) + 1 /\ next \in 1 .. Len(buf) + 1
      /\ start' <= Len(buf)
  BY DEF IInv, Iterate, Text
<1>2. IF m.end = Miss
      THEN next' = at /\ pairs' = pairs
      ELSE next' = skipSpaceAndComma(buf, m.end).at /\ pairs' = Append(pairs, HandedOut(m))
  BY <1>1 DEF Iterate
<1>3. start' \in 1 .. Len(buf) /\ buf[start'] # Space
  <2>1. start \in Nat \ {0}
    BY <1>1
  <2>2. start' \in Nat /\ start' >= start /\ (start' <= Len(buf) => buf[start'] # Space)
    BY <1>1, <2>1, SpacePlace
  <2> QED
    BY <1>1, <2>1, <2>2
<1>4. at \in 1 .. Len(buf) + 1 /\ at >= next
  <2> DEFINE p == skipSpace(buf, start' + 1)
  <2>1. start' + 1 \in Nat \ {0}
    BY <1>1, <1>3
  <2>2. p >= start' + 1 /\ p \in 1 .. Len(buf) + 1
    BY <1>1, <1>3, <2>1, SpacePlace, SpaceStays
  <2> HIDE DEF p
  <2> QED
    BY <1>1, <1>3, <2>2 DEF p
<1> HIDE DEF at
<1>5. m \in Found(buf) /\ (m.end # Miss => m.value >= at)
  BY <1>1, <1>4, MemberFound
<1> HIDE DEF m
<1> QED
  BY <1>2, <1>3, <1>4, <1>5 DEF Iterated

LEMMA IterateIInv == ASSUME IInv, Iterate PROVE IInv'
<1>1. /\ UNCHANGED <<tree, buf, s, query, value>> /\ pc' = "iterate" /\ buf \in Text /\ Len(buf) \in Nat
  BY DEF IInv, Iterate, Text
<1>2. PICK at \in 1 .. Len(buf) + 1, m \in Found(buf) : Iterated(at, m)
  BY IterateStep
<1>3. start' \in 1 .. Len(buf) /\ buf[start'] # Space
  BY IterateStep
<1>4. IF m.end = Miss
      THEN next' = at /\ pairs' = pairs
      ELSE next' = skipSpaceAndComma(buf, m.end).at /\ pairs' = Append(pairs, HandedOut(m))
  BY <1>2 DEF Iterated
<1>5. m \in Found(buf)
  OBVIOUS
<1>6. next' \in 1 .. Len(buf) + 1
  <2>1. CASE m.end = Miss
    BY <1>4, <2>1
  <2>2. CASE m.end # Miss
    <3>1. m.end \in 1 .. Len(buf) + 1
      BY <1>1, <1>5, <2>2 DEF Found, Miss
    <3>2. skipSpaceAndComma(buf, m.end).at \in m.end .. Len(buf) + 1
      BY <1>1, <3>1, CommaPlace
    <3> QED
      BY <1>1, <1>4, <2>2, <3>1, <3>2
  <2> QED
    BY <2>1, <2>2
<1>7. (pairs \in Seq(Pairs) /\ \A n \in 1 .. Len(pairs) : IsHandedOut(pairs[n]))'
  <2>1. pairs \in Seq(Pairs) /\ \A n \in 1 .. Len(pairs) : IsHandedOut(pairs[n])
    BY DEF IInv
  <2>2. \A x : IsHandedOut(x) => IsHandedOut(x)'
    BY <1>1 DEF IsHandedOut, PartOf
  <2>3. CASE m.end = Miss
    <3>1. pairs' = pairs
      BY <1>4, <2>3
    <3> QED
      BY <2>1, <2>2, <3>1
  <2>4. CASE m.end # Miss
    <3> DEFINE h == HandedOut(m)
    <3>1. h \in Pairs /\ IsHandedOut(h) /\ pairs' = Append(pairs, h)
      BY <1>1, <1>4, <1>5, <2>4, MemberHandedOut
    <3> HIDE DEF h
    <3>2. /\ pairs' \in Seq(Pairs) /\ Len(pairs') = Len(pairs) + 1 /\ pairs'[Len(pairs) + 1] = h
          /\ \A n \in 1 .. Len(pairs) : pairs'[n] = pairs[n]
      BY <2>1, <3>1
    <3>3. ASSUME NEW n \in 1 .. Len(pairs') PROVE IsHandedOut(pairs'[n])
      <4>1. n = Len(pairs) + 1 \/ n \in 1 .. Len(pairs)
        BY <2>1, <3>2
      <4> QED
        BY <2>1, <3>1, <3>2, <4>1
    <3>4. (\A n \in 1 .. Len(pairs) : IsHandedOut(pairs[n]))'
      BY <1>1, <3>3 DEF IsHandedOut, PartOf
    <3> QED
      BY <3>2, <3>4
  <2> QED
    BY <2>3, <2>4
<1>8. skipSpace(buf, start') <= Len(buf)
  BY <1>1, <1>3, SpaceStays
<1>9. AcceptsClosed' /\ FindsPart'
  BY <1>1 DEF AcceptsClosed, FindsPart
<1>10. start' \in 1 .. Len(buf) + 1
  BY <1>1, <1>3
<1> QED
  BY <1>1, <1>6, <1>7, <1>8, <1>9, <1>10 DEF IInv

LEMMA UnloadIInv == ASSUME IInv, Unload PROVE IInv'
<1>1. /\ pc' = "idle" /\ buf' = <<>> /\ s' = Collection(1) /\ start' = 1 /\ next' = 1 /\ pairs' = <<>>
  BY DEF Unload
<1>2. buf' \in Text /\ Len(buf') = 0
  BY <1>1 DEF Text
<1>3. 1 \in 1 .. Len(buf') + 1
  BY <1>2
<1>4. Nests(buf', 1, s')
  BY <1>1, <1>2, <1>3, BeginNests
<1>5. (pairs \in Seq(Pairs) /\ \A n \in 1 .. Len(pairs) : IsHandedOut(pairs[n]))'
  <2>1. pairs' \in Seq(Pairs) /\ Len(pairs') = 0
    BY <1>1
  <2> QED
    BY <2>1
<1>6. AcceptsClosed' /\ FindsPart'
  BY <1>1 DEF AcceptsClosed, FindsPart
<1> QED
  BY <1>1, <1>2, <1>3, <1>4, <1>5, <1>6 DEF IInv

LEMMA StutterIInv == ASSUME IInv, UNCHANGED vars PROVE IInv'
<1>1. UNCHANGED <<pc, tree, buf, s, ret, query, value, start, next, pairs>>
  BY DEF vars
<1>2. AcceptsClosed'
  BY <1>1 DEF IInv, AcceptsClosed
<1>3. FindsPart'
  BY <1>1 DEF IInv, FindsPart, PartOf
<1>4. (\A n \in 1 .. Len(pairs) : IsHandedOut(pairs[n]))'
  BY <1>1 DEF IInv, IsHandedOut, PartOf
<1> QED
  BY <1>1, <1>2, <1>3, <1>4 DEF IInv

LEMMA Inductive == IInv /\ [Next]_vars => IInv'
<1> SUFFICES ASSUME IInv, [Next]_vars PROVE IInv'
  OBVIOUS
<1>1. CASE Load
  BY <1>1, LoadIInv
<1>2. CASE Validate
  BY <1>2, ValidateIInv
<1>3. CASE CollectionTurn
  BY <1>3, CollectionTurnIInv
<1>4. CASE CollectionEnd
  BY <1>4, CollectionEndIInv
<1>5. CASE Search
  BY <1>5, SearchIInv
<1>6. CASE Iterate
  BY <1>6, IterateIInv
<1>7. CASE Unload
  BY <1>7, UnloadIInv
<1>8. CASE UNCHANGED vars
  BY <1>8, StutterIInv
<1> QED
  BY <1>1, <1>2, <1>3, <1>4, <1>5, <1>6, <1>7, <1>8 DEF Next

\* Whatever text a program loads, the places that core_json.cpp keeps lie in it,
\* its stack has at most MaxDepth brackets, what it accepts is closed and what it
\* hands out is a part of the text.
THEOREM TextContains == Spec => []StaysInText
<1>1. Spec => []IInv
  BY InitIInv, Inductive, PTL DEF Spec
<1> QED
  BY <1>1, InvariantImplies, PTL

\* Every turn of skipCollection goes on in the text, so that JSON_Validate ends
\* after as many turns as the text has characters at the latest.
THEOREM ValidateAdvances ==
  Spec => [][pc = "collection" /\ pc' = "collection" => s'.i > s.i /\ s'.i <= Len(buf) + 1]_vars
<1>1. IInv /\ [Next]_vars =>
        [pc = "collection" /\ pc' = "collection" => s'.i > s.i /\ s'.i <= Len(buf) + 1]_vars
  <2> SUFFICES ASSUME IInv, Next, pc = "collection", pc' = "collection"
               PROVE  s'.i > s.i /\ s'.i <= Len(buf) + 1
    OBVIOUS
  <2>1. CollectionTurn
    BY DEF Next, Load, Validate, CollectionEnd, Search, Iterate, Unload
  <2> DEFINE first == skipSpace(buf, 1)
  <2>2. buf \in Text /\ Nests(buf, first, s) /\ ~Ended(buf, s) /\ s' = Turn(buf, s)
    BY <2>1 DEF IInv, CollectionTurn
  <2>3. first \in 1 .. Len(buf) + 1
    BY <2>2, FirstPlace
  <2> HIDE DEF first
  <2>4. s'.i > s.i /\ Nests(buf, first, s')
    BY <2>2, <2>3, TurnAdvances, TurnNests
  <2>5. s'.i \in first .. Len(buf) + 1
    BY <2>4 DEF Nests
  <2> QED
    BY <2>2, <2>3, <2>4, <2>5 DEF Text
<1>2. Spec => []IInv
  BY InitIInv, Inductive, PTL DEF Spec
<1> QED
  BY <1>1, <1>2, PTL DEF Spec

LEMMA IterateGoesOn ==
  ASSUME IInv, Iterate, pairs' # pairs
  PROVE  next' > next /\ next' <= Len(buf) + 1
<1>1. buf \in Text /\ Len(buf) \in Nat /\ next \in 1 .. Len(buf) + 1
  BY DEF IInv, Text
<1>2. PICK at \in 1 .. Len(buf) + 1, m \in Found(buf) : Iterated(at, m)
  BY IterateStep
<1>3. /\ m.end # Miss /\ m.value >= at /\ at >= next
      /\ next' = skipSpaceAndComma(buf, m.end).at
  BY <1>2 DEF Iterated
<1>4. m.value \in 1 .. Len(buf) /\ m.end \in m.value + 1 .. Len(buf) + 1
  BY <1>3 DEF Found, ValueAt
<1>5. m.end \in 1 .. Len(buf) + 1
  BY <1>1, <1>4
<1>6. next' \in m.end .. Len(buf) + 1
  BY <1>1, <1>3, <1>5, CommaPlace
<1> QED
  BY <1>1, <1>2, <1>3, <1>4, <1>6

\* JSON_Iterate goes on behind every value that it hands out, so that a program
\* that calls it until it finds no other one gets to its end, and gets no value
\* twice.
THEOREM IterationAdvances ==
  Spec => [][pc' = "iterate" /\ pairs' # pairs => next' > next /\ next' <= Len(buf) + 1]_vars
<1>1. IInv /\ [Next]_vars =>
        [pc' = "iterate" /\ pairs' # pairs => next' > next /\ next' <= Len(buf) + 1]_vars
  <2> SUFFICES ASSUME IInv, Next, pc' = "iterate", pairs' # pairs
               PROVE  next' > next /\ next' <= Len(buf) + 1
    OBVIOUS
  <2>1. Iterate
    BY DEF Next, Load, Validate, CollectionTurn, CollectionEnd, Search, Unload
  <2> QED
    BY <2>1, IterateGoesOn
<1>2. Spec => []IInv
  BY InitIInv, Inductive, PTL DEF Spec
<1> QED
  BY <1>1, <1>2, PTL DEF Spec

\* The value of a key is that of a member that has this key in the document.
FoundBehindKey ==
  pc = "found" /\ ret = Success /\ (\A k \in 1 .. Len(query.text) : query.text[k] \notin {".", "["}) =>
    \E m \in Found(buf) :
      /\ m.end # Miss /\ PairAt(buf, m)
      /\ Cut(buf, m.key, m.quote) = query.text
      /\ value = [text |-> Stripped(Cut(buf, m.value, m.end)), type |-> getType(buf[m.value])]

LEMMA SearchBehindKey == ASSUME IInv, Search PROVE FoundBehindKey'
<1> DEFINE q == query'.text
           r == multiSearch(buf, q)
           m == objectSearch(buf, q)
           bad == q = <<>> \/ buf = <<>>
<1>1. /\ buf' = buf /\ buf \in Text
      /\ ret' = IF bad THEN BadParameter ELSE r.ret
      /\ value' = IF ~bad /\ r.ret = Success
                  THEN [text |-> Stripped(r.text), type |-> getType(buf[r.start])] ELSE value
  BY DEF IInv, Search
<1>2. q \in Text
  BY DocumentAssumption DEF Search, Text
<1> SUFFICES ASSUME ret' = Success, \A k \in 1 .. Len(q) : q[k] \notin {".", "["}
             PROVE  \E x \in Found(buf) :
                      /\ x.end # Miss /\ PairAt(buf, x) /\ Cut(buf, x.key, x.quote) = q
                      /\ value' = [text |-> Stripped(Cut(buf, x.value, x.end)), type |-> getType(buf[x.value])]
  BY <1>1 DEF FoundBehindKey, Found, ValueAt, PairAt
<1>3. ~bad /\ r.ret = Success
  BY <1>1 DEF BadParameter, Success
<1>4. m.end # Miss /\ r.text = Cut(buf, m.value, m.end) /\ r.start = m.value
  BY <1>1, <1>2, <1>3, PlainFound
<1>5. m \in Found(buf) /\ PairAt(buf, m) /\ Cut(buf, m.key, m.quote) = q
  BY <1>1, <1>4, KeyFound DEF Keyed
<1> QED
  BY <1>1, <1>3, <1>4, <1>5

\* JSON_SearchConst, asked for a key, hands out a value that stands behind exactly
\* this key in the document, between its quotes, with a colon and blanks before it.
THEOREM SearchFindsKey == Spec => []FoundBehindKey
<1>1. Init => FoundBehindKey
  BY DEF Init, FoundBehindKey
<1>2. IInv /\ FoundBehindKey /\ [Next]_vars => FoundBehindKey'
  <2> SUFFICES ASSUME IInv, FoundBehindKey, [Next]_vars PROVE FoundBehindKey'
    OBVIOUS
  <2>1. CASE Search
    BY <2>1, SearchBehindKey
  <2>2. CASE UNCHANGED vars
    BY <2>2 DEF vars, FoundBehindKey, Found, ValueAt, PairAt
  <2>3. CASE ~Search /\ Next
    <3>1. pc' # "found"
      BY <2>3 DEF Next, Load, Validate, CollectionTurn, CollectionEnd, Iterate, Unload
    <3> QED
      BY <3>1 DEF FoundBehindKey
  <2> QED
    BY <2>1, <2>2, <2>3
<1>3. Spec => []IInv
  BY InitIInv, Inductive, PTL DEF Spec
<1> QED
  BY <1>1, <1>2, <1>3, PTL DEF Spec
=============================================================================
