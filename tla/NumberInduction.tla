--------------------------- MODULE NumberInduction ---------------------------
(***************************************************************************)
(* Induction over numbers, stated with sets of numbers, from the fact that *)
(* their order is well-founded; functions that are defined by recursion on *)
(* an interval; and the items of sequences that are cut and joined.        *)
(***************************************************************************)
EXTENDS Integers, Sequences, WellFoundedInduction, TLAPS

\* A set of numbers that is not empty has a least one.
LEMMA Least ==
  ASSUME NEW S \in SUBSET Nat, S # {}
  PROVE  \E n \in S : \A m \in S : n <= m
<1> DEFINE R == {ss \in Nat \X Nat : ss[1] < ss[2]}
<1>1. IsWellFoundedOn(R, Nat)
  BY NatLessThanWellFounded DEF OpToRel
<1>2. \A m, n \in Nat : m < n => <<m, n>> \in R
  OBVIOUS
<1> HIDE DEF R
<1>3. PICK n \in S : \A m \in S : ~(<<m, n>> \in R)
  BY <1>1, WFMin
<1>4. ASSUME NEW m \in S PROVE n <= m
  <2>1. m \in Nat /\ n \in Nat /\ ~(m < n)
    BY <1>2, <1>3
  <2> QED
    BY <2>1
<1> QED
  BY <1>4

\* A set with 0 and the successor of each of its numbers has all of them.
LEMMA Induction ==
  ASSUME NEW S, 0 \in S, \A n \in Nat : n \in S => n + 1 \in S
  PROVE  Nat \subseteq S
<1> SUFFICES ASSUME Nat \ S # {} PROVE FALSE
  OBVIOUS
<1>1. PICK n \in Nat \ S : \A m \in Nat \ S : n <= m
  BY Least
<1>2. n - 1 \in Nat
  OBVIOUS
<1>3. n - 1 \in S
  BY <1>1, <1>2
<1> QED
  BY <1>2, <1>3

\* f is e at first and g of the one before from then on.
Recurses(f, T, e, g, N) ==
  /\ f \in [0 .. N -> T]
  /\ f[0] = e
  /\ \A n \in 1 .. N : f[n] = g[f[n - 1]][n]

\* A recursive function on an interval is defined, whatever its step g.
LEMMA Recursion ==
  ASSUME NEW T, NEW e \in T, NEW g \in [T -> [Nat -> T]], NEW N \in Nat
  PROVE  \E f : Recurses(f, T, e, g, N)
<1> DEFINE Defined(f, n) == \A k \in 0 .. n : f[k] = IF k = 0 THEN e ELSE g[f[k - 1]][k]
           S == {n \in Nat : \E f \in [0 .. n -> T] : Defined(f, n)}
<1>1. 0 \in S
  <2> DEFINE f == [k \in 0 .. 0 |-> e]
  <2>1. f \in [0 .. 0 -> T] /\ Defined(f, 0)
    OBVIOUS
  <2> QED
    BY <2>1
<1>2. ASSUME NEW n \in Nat, n \in S PROVE n + 1 \in S
  <2>1. PICK f \in [0 .. n -> T] : Defined(f, n)
    BY <1>2
  <2> DEFINE h == [k \in 0 .. n + 1 |-> IF k = n + 1 THEN g[f[n]][n + 1] ELSE f[k]]
  <2>2. f[n] \in T /\ g[f[n]][n + 1] \in T
    OBVIOUS
  <2>3. h \in [0 .. n + 1 -> T]
    BY <2>2
  <2>4. \A k \in 0 .. n : h[k] = f[k]
    OBVIOUS
  <2>5. h[n + 1] = g[h[n]][n + 1]
    BY <2>4
  <2>6. ASSUME NEW k \in 0 .. n + 1 PROVE h[k] = IF k = 0 THEN e ELSE g[h[k - 1]][k]
    <3>1. CASE k = n + 1
      BY <3>1, <2>5
    <3>2. CASE k \in 1 .. n
      <4>1. h[k] = f[k] /\ h[k - 1] = f[k - 1]
        BY <3>2, <2>4
      <4>2. f[k] = g[f[k - 1]][k]
        BY <3>2, <2>1
      <4> HIDE DEF h
      <4> QED
        BY <3>2, <4>1, <4>2
    <3>3. CASE k = 0
      BY <3>3, <2>1, <2>4
    <3> QED
      BY <3>1, <3>2, <3>3
  <2> HIDE DEF h
  <2>7. Defined(h, n + 1)
    BY <2>6
  <2> HIDE DEF Defined
  <2>8. n + 1 \in Nat /\ \E f1 \in [0 .. n + 1 -> T] : Defined(f1, n + 1)
    BY <2>3, <2>7
  <2> QED
    BY <2>8
<1> HIDE DEF S
<1>3. N \in S
  BY <1>1, <1>2, Induction
<1>4. PICK f \in [0 .. N -> T] : Defined(f, N)
  BY <1>3 DEF S
<1>5. f[0] = e
  BY <1>4
<1>6. ASSUME NEW n \in 1 .. N PROVE f[n] = g[f[n - 1]][n]
  <2>1. n \in 0 .. N /\ n # 0
    OBVIOUS
  <2>2. f[n] = IF n = 0 THEN e ELSE g[f[n - 1]][n]
    BY <2>1, <1>4
  <2> QED
    BY <2>1, <2>2
<1> QED
  BY <1>4, <1>5, <1>6 DEF Recurses

-----------------------------------------------------------------------------
(* Sequences.                                                              *)

\* The items of a part of a sequence.
LEMMA SubSeqIs ==
  ASSUME NEW S, NEW b \in Seq(S), NEW i \in 1 .. Len(b) + 1, NEW j \in 0 .. Len(b), i <= j + 1
  PROVE  /\ SubSeq(b, i, j) \in Seq(S) /\ Len(SubSeq(b, i, j)) = j - i + 1
         /\ \A k \in 1 .. j - i + 1 : SubSeq(b, i, j)[k] = b[i + k - 1]
OBVIOUS

\* Parts of two sequences with the same items are the same.
LEMMA SameSubSeq ==
  ASSUME NEW S, NEW a \in Seq(S), NEW b \in Seq(S), Len(a) = Len(b),
         NEW i \in 1 .. Len(a) + 1, NEW j \in 0 .. Len(a), i <= j + 1,
         \A k \in i .. j : a[k] = b[k]
  PROVE  SubSeq(a, i, j) = SubSeq(b, i, j)
<1> DEFINE x == SubSeq(a, i, j)
           y == SubSeq(b, i, j)
<1>1. /\ x \in Seq(S) /\ Len(x) = j - i + 1
      /\ \A k \in 1 .. j - i + 1 : x[k] = a[i + k - 1]
  BY SubSeqIs
<1>2. /\ y \in Seq(S) /\ Len(y) = j - i + 1
      /\ \A k \in 1 .. j - i + 1 : y[k] = b[i + k - 1]
  BY SubSeqIs
<1>3. \A k \in 1 .. j - i + 1 : a[i + k - 1] = b[i + k - 1]
  OBVIOUS
<1> HIDE DEF x, y
<1>4. \A k \in 1 .. j - i + 1 : x[k] = y[k]
  BY <1>1, <1>2, <1>3
<1>5. x = [k \in 1 .. j - i + 1 |-> x[k]] /\ y = [k \in 1 .. j - i + 1 |-> y[k]]
  BY <1>1, <1>2
<1>6. x = y
  BY <1>4, <1>5
<1> QED
  BY <1>6 DEF x, y

\* Sequences with the same items are the same.
LEMMA SameItems ==
  ASSUME NEW S, NEW a \in Seq(S), NEW b \in Seq(S), Len(a) = Len(b),
         \A i \in 1 .. Len(a) : a[i] = b[i]
  PROVE  a = b
<1>1. a = [i \in 1 .. Len(a) |-> a[i]] /\ b = [i \in 1 .. Len(b) |-> b[i]]
  OBVIOUS
<1>2. [i \in 1 .. Len(a) |-> a[i]] = [i \in 1 .. Len(b) |-> b[i]]
  OBVIOUS
<1> QED
  BY <1>1, <1>2

\* The items of two sequences one behind the other.
LEMMA JoinIs ==
  ASSUME NEW S, NEW a \in Seq(S), NEW b \in Seq(S)
  PROVE  /\ a \o b \in Seq(S) /\ Len(a \o b) = Len(a) + Len(b)
         /\ \A i \in 1 .. Len(a) + Len(b) : (a \o b)[i] = IF i <= Len(a) THEN a[i] ELSE b[i - Len(a)]
  OBVIOUS

\* Three sequences are joined from either side.
JoinsEitherWay(S) == \A a, b, c \in Seq(S) : (a \o b) \o c = a \o (b \o c)

LEMMA JoinTwice == ASSUME NEW S PROVE JoinsEitherWay(S)
<1> SUFFICES ASSUME NEW a \in Seq(S), NEW b \in Seq(S), NEW c \in Seq(S)
             PROVE  (a \o b) \o c = a \o (b \o c)
  BY DEF JoinsEitherWay
<1> DEFINE x == (a \o b) \o c
           y == a \o (b \o c)
           ab == a \o b
           bc == b \o c
<1>1. Len(a) \in Nat /\ Len(b) \in Nat /\ Len(c) \in Nat
  OBVIOUS
<1>2. /\ ab \in Seq(S) /\ Len(ab) = Len(a) + Len(b)
      /\ \A i \in 1 .. Len(a) + Len(b) : ab[i] = IF i <= Len(a) THEN a[i] ELSE b[i - Len(a)]
  BY JoinIs
<1>3. /\ bc \in Seq(S) /\ Len(bc) = Len(b) + Len(c)
      /\ \A i \in 1 .. Len(b) + Len(c) : bc[i] = IF i <= Len(b) THEN b[i] ELSE c[i - Len(b)]
  BY JoinIs
<1> HIDE DEF x, y, ab, bc
<1>4. /\ ab \o c \in Seq(S) /\ Len(ab \o c) = Len(ab) + Len(c)
      /\ \A i \in 1 .. Len(ab) + Len(c) : (ab \o c)[i] = IF i <= Len(ab) THEN ab[i] ELSE c[i - Len(ab)]
  <2>1. ab \in Seq(S) /\ c \in Seq(S)
    BY <1>2
  <2> QED
    BY <2>1, JoinIs, Zenon
<1>5. /\ a \o bc \in Seq(S) /\ Len(a \o bc) = Len(a) + Len(bc)
      /\ \A i \in 1 .. Len(a) + Len(bc) : (a \o bc)[i] = IF i <= Len(a) THEN a[i] ELSE bc[i - Len(a)]
  <2>1. a \in Seq(S) /\ bc \in Seq(S)
    BY <1>3
  <2>2. /\ a \o bc \in Seq(S) /\ Len(a \o bc) = Len(a) + Len(bc)
        /\ \A i \in 1 .. Len(a) + Len(bc) : (a \o bc)[i] = IF i <= Len(a) THEN a[i] ELSE bc[i - Len(a)]
    BY <2>1, JoinIs, Zenon
  <2> QED
    BY <2>2
<1> DEFINE u == ab \o c
           v == a \o bc
<1> HIDE DEF u, v
<1>6. /\ u \in Seq(S) /\ Len(u) = Len(a) + Len(b) + Len(c)
      /\ v \in Seq(S) /\ Len(v) = Len(a) + Len(b) + Len(c)
  BY <1>1, <1>2, <1>3, <1>4, <1>5 DEF u, v
<1>7. ASSUME NEW i \in 1 .. Len(u) PROVE u[i] = v[i]
  <2>1. CASE i <= Len(a)
    <3>1. i \in 1 .. Len(ab) + Len(c) /\ i \in 1 .. Len(a) + Len(b) /\ i <= Len(ab)
      BY <1>1, <1>2, <1>6, <2>1
    <3>2. i \in 1 .. Len(a) + Len(bc)
      BY <1>1, <1>3, <1>6, <2>1
    <3> QED
      BY <1>2, <1>4, <1>5, <2>1, <3>1, <3>2 DEF u, v
  <2>2. CASE i > Len(a) /\ i <= Len(a) + Len(b)
    <3> DEFINE j == i - Len(a)
    <3>1. i \in 1 .. Len(ab) + Len(c) /\ i \in 1 .. Len(a) + Len(b) /\ i <= Len(ab) /\ ~(i <= Len(a))
      BY <1>1, <1>2, <1>6, <2>2
    <3>2. i \in 1 .. Len(a) + Len(bc) /\ j \in 1 .. Len(b) + Len(c) /\ j <= Len(b)
      BY <1>1, <1>3, <1>6, <2>2
    <3>3. u[i] = b[j]
      BY <1>2, <1>4, <3>1 DEF u
    <3>4. v[i] = bc[j] /\ bc[j] = b[j]
      BY <1>3, <1>5, <3>1, <3>2 DEF v
    <3> QED
      BY <3>3, <3>4
  <2>3. CASE i > Len(a) + Len(b)
    <3> DEFINE j == i - Len(a)
               k == i - Len(ab)
    <3>1. i \in 1 .. Len(ab) + Len(c) /\ ~(i <= Len(ab)) /\ ~(i <= Len(a))
      BY <1>1, <1>2, <1>6, <2>3
    <3>2. i \in 1 .. Len(a) + Len(bc) /\ j \in 1 .. Len(b) + Len(c) /\ ~(j <= Len(b)) /\ j - Len(b) = k
      BY <1>1, <1>2, <1>3, <1>6, <2>3
    <3>3. u[i] = c[k]
      BY <1>4, <3>1 DEF u
    <3>4. v[i] = bc[j]
      BY <1>5, <3>1, <3>2 DEF v
    <3>5. bc[j] = c[j - Len(b)]
      BY <1>3, <3>2
    <3> QED
      BY <3>2, <3>3, <3>4, <3>5
  <2> QED
    BY <1>1, <1>6, <2>1, <2>2, <2>3
<1>8. u = v
  BY <1>6, <1>7, SameItems
<1> QED
  BY <1>8 DEF x, y, u, v, ab, bc

\* The two parts that a sequence is cut into are the whole.
LEMMA CutInTwo ==
  ASSUME NEW S, NEW a \in Seq(S), NEW n \in 1 .. Len(a)
  PROVE  /\ SubSeq(a, 1, n) \in Seq(S) /\ SubSeq(a, n + 1, Len(a)) \in Seq(S)
         /\ SubSeq(a, 1, n) \o SubSeq(a, n + 1, Len(a)) = a
<1> DEFINE x == SubSeq(a, 1, n)
           y == SubSeq(a, n + 1, Len(a))
<1>1. Len(a) \in Nat
  OBVIOUS
<1>2. /\ x \in Seq(S) /\ Len(x) = n
      /\ \A i \in 1 .. n : x[i] = a[i]
  <2>1. 1 \in 1 .. Len(a) + 1 /\ n \in 0 .. Len(a) /\ 1 <= n + 1 /\ n - 1 + 1 = n
        /\ \A i \in 1 .. n : 1 + i - 1 = i
    BY <1>1, SMTT(30)
  <2> QED
    BY <2>1, SubSeqIs
<1>3. /\ y \in Seq(S) /\ Len(y) = Len(a) - n
      /\ \A i \in 1 .. Len(a) - n : y[i] = a[n + i]
  <2>1. n + 1 \in 1 .. Len(a) + 1 /\ Len(a) \in 0 .. Len(a) /\ n + 1 <= Len(a) + 1
        /\ Len(a) - (n + 1) + 1 = Len(a) - n /\ \A i \in 1 .. Len(a) - n : (n + 1) + i - 1 = n + i
    BY <1>1
  <2> DEFINE m == n + 1
  <2>2. m \in 1 .. Len(a) + 1 /\ Len(a) \in 0 .. Len(a) /\ m <= Len(a) + 1
    BY <2>1
  <2>3. /\ SubSeq(a, m, Len(a)) \in Seq(S) /\ Len(SubSeq(a, m, Len(a))) = Len(a) - m + 1
        /\ \A i \in 1 .. Len(a) - m + 1 : SubSeq(a, m, Len(a))[i] = a[m + i - 1]
    <3> HIDE DEF m
    <3> QED
      BY <2>2, SubSeqIs, SMTT(30)
  <2>4. y \in Seq(S) /\ Len(y) = Len(a) - n
    BY <2>1, <2>3
  <2>5. \A i \in 1 .. Len(a) - n : y[i] = a[(n + 1) + i - 1]
    BY <2>1, <2>3
  <2> QED
    BY <2>1, <2>4, <2>5
<1> HIDE DEF x, y
<1>4. /\ x \o y \in Seq(S) /\ Len(x \o y) = Len(a)
      /\ \A i \in 1 .. Len(a) : (x \o y)[i] = IF i <= n THEN x[i] ELSE y[i - n]
  <2>1. Len(x) = n /\ Len(x) + Len(y) = Len(a)
    BY <1>1, <1>2, <1>3
  <2>2. /\ x \o y \in Seq(S) /\ Len(x \o y) = Len(x) + Len(y)
        /\ \A i \in 1 .. Len(x) + Len(y) : (x \o y)[i] = IF i <= Len(x) THEN x[i] ELSE y[i - Len(x)]
    BY <1>2, <1>3, JoinIs
  <2> QED
    BY <2>1, <2>2
<1> DEFINE z == x \o y
<1> HIDE DEF z
<1>5. ASSUME NEW i \in 1 .. Len(a) PROVE z[i] = a[i]
  <2>1. CASE i <= n
    BY <1>2, <1>4, <2>1 DEF z
  <2>2. CASE i > n
    <3>1. i - n \in 1 .. Len(a) - n /\ n + (i - n) = i /\ ~(i <= n)
      BY <1>1, <2>2
    <3> QED
      BY <1>3, <1>4, <3>1 DEF z
  <2> QED
    BY <1>1, <2>1, <2>2
<1>6. z = a
  BY <1>4, <1>5, SameItems DEF z
<1> QED
  BY <1>2, <1>3, <1>6 DEF x, y, z
=============================================================================
