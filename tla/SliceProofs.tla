---------------------------- MODULE SliceProofs ----------------------------
(***************************************************************************)
(* What the proofs about several parts share: induction over the natural   *)
(* numbers, the lengths of slices, and the number of entries of a matrix.  *)
(***************************************************************************)
EXTENDS Encode, FiniteSetTheorems, WellFoundedInduction, TLAPS

\* Induction over the natural numbers, for a set of numbers: the first-order
\* form of the library's principle, from the least element of a set.
LEMMA SetInduction ==
  ASSUME NEW T \in SUBSET Nat, 0 \in T, \A n \in T : n + 1 \in T
  PROVE  \A n \in Nat : n \in T
<1> SUFFICES ASSUME NEW k \in Nat, k \notin T PROVE FALSE
  OBVIOUS
<1> DEFINE Less == OpToRel(<, Nat)
           U    == Nat \ T
<1>1. IsWellFoundedOn(Less, Nat) BY NatLessThanWellFounded
<1>2. \A a, b \in Nat : a < b => <<a, b>> \in Less BY DEF OpToRel
<1> HIDE DEF Less
<1>3. PICK x \in U : \A n \in U : ~ (<<n, x>> \in Less)
  <2>1. U \subseteq Nat /\ U # {} OBVIOUS
  <2> HIDE DEF U
  <2> QED BY <1>1, <2>1, WFMin, Zenon
<1>4. x # 0 /\ x \in Nat OBVIOUS
<1>5. x - 1 \in Nat /\ x - 1 < x /\ (x - 1) + 1 = x BY <1>4
<1>6. x - 1 \notin U BY <1>2, <1>3, <1>4, <1>5
<1> QED BY <1>3, <1>5, <1>6

\* len(make([]byte, n)) = n.
LEMMA LenOfSlice ==
  ASSUME NEW n \in Nat, NEW S, NEW s \in SliceOf(n, S)
  PROVE  SliceLen(s) = n
<1>1. DOMAIN s = 0 .. n - 1
  BY DEF SliceOf
<1>2. Cardinality(0 .. n - 1) = n
  <2>1. CASE n = 0
    <3>1. 0 .. n - 1 = {}
      BY <2>1
    <3> QED
      BY <3>1, <2>1, FS_EmptySet
  <2>2. CASE n # 0
    BY <2>2, FS_Interval
  <2> QED
    BY <2>1, <2>2
<1> QED
  BY <1>1, <1>2 DEF SliceLen

\* The same up to a bound.
LEMMA BoundedInduction ==
  ASSUME NEW n \in Nat, NEW T, 0 \in T, \A i \in 1 .. n : i - 1 \in T => i \in T
  PROVE  \A i \in 0 .. n : i \in T
<1> DEFINE U == {i \in Nat : i <= n => i \in T}
<1>1. U \in SUBSET Nat /\ 0 \in U OBVIOUS
<1>2. ASSUME NEW i \in U PROVE i + 1 \in U
  <2> SUFFICES ASSUME i + 1 <= n PROVE i + 1 \in T
    OBVIOUS
  <2>1. i + 1 \in 1 .. n /\ (i + 1) - 1 = i /\ i \in T OBVIOUS
  <2> QED BY <2>1
<1> HIDE DEF U
<1>3. \A i \in Nat : i \in U BY <1>1, <1>2, SetInduction
<1> QED BY <1>3 DEF U

\* A function whose values follow from the value before.
Recursion(n, S, base, step, g) ==
  /\ g \in [0 .. n -> S] /\ g[0] = base
  /\ \A i \in 1 .. n : g[i] = step[<<i, g[i - 1]>>]

LEMMA RecursionExists ==
  ASSUME NEW n \in Nat, NEW S, NEW base \in S, NEW step \in [(1 .. n) \X S -> S]
  PROVE  \E g : Recursion(n, S, base, step, g)
<1> DEFINE Good(k, g) == g[0] = base /\ \A i \in 1 .. k : g[i] = step[<<i, g[i - 1]>>]
           T == {k \in 0 .. n : \E g \in [0 .. k -> S] : Good(k, g)}
<1>1. 0 \in T
  <2> DEFINE g == [i \in 0 .. 0 |-> base]
  <2>1. g \in [0 .. 0 -> S] /\ g[0] = base OBVIOUS
  <2>2. \A i \in 1 .. 0 : FALSE OBVIOUS
  <2> HIDE DEF g
  <2>3. Good(0, g) BY <2>1, <2>2
  <2> QED BY <2>1, <2>3
<1>2. ASSUME NEW k \in 1 .. n, k - 1 \in T PROVE k \in T
  <2>1. PICK g \in [0 .. k - 1 -> S] : Good(k - 1, g) BY <1>2
  <2> DEFINE h == [i \in 0 .. k |-> IF i = k THEN step[<<k, g[k - 1]>>] ELSE g[i]]
  <2>2. g[k - 1] \in S /\ step[<<k, g[k - 1]>>] \in S OBVIOUS
  <2>3. h \in [0 .. k -> S] BY <2>2
  <2>4. h[0] = base BY <2>1
  <2>5. ASSUME NEW i \in 1 .. k PROVE h[i] = step[<<i, h[i - 1]>>]
    <3>1. CASE i = k
      <4>1. h[i] = step[<<k, g[k - 1]>>] /\ h[i - 1] = g[k - 1] BY <3>1
      <4> QED BY <3>1, <4>1
    <3>2. CASE i # k
      <4>1. h[i] = g[i] /\ h[i - 1] = g[i - 1] /\ i \in 1 .. k - 1 BY <3>2
      <4> QED BY <2>1, <4>1
    <3> QED BY <3>1, <3>2
  <2> HIDE DEF h
  <2>6. Good(k, h) BY <2>4, <2>5
  <2>7. k \in 0 .. n OBVIOUS
  <2> HIDE DEF Good
  <2> QED BY <2>3, <2>6, <2>7
<1> HIDE DEF T
<1>3. \A i \in 0 .. n : i \in T BY <1>1, <1>2, BoundedInduction, Zenon
<1>4. n \in 0 .. n OBVIOUS
<1> QED BY <1>3, <1>4 DEF T, Recursion

-----------------------------------------------------------------------------
(* Numbers *)

\* The prefixes of digits, as Horner's rule takes them.
Horner(base, n, s, f) ==
  /\ f \in [0 .. n -> Nat] /\ f[0] = 0
  /\ \A i \in 1 .. n : f[i] = (base * f[i - 1]) + s[i - 1]

LEMMA NumberIsHorner ==
  ASSUME NEW base \in Nat \ {0}, NEW n \in Nat, NEW s \in SliceOf(n, 0 .. base - 1)
  PROVE  \E f : Horner(base, n, s, f) /\ Number(base, s) = f[n]
<1>1. SliceLen(s) = n BY LenOfSlice
<1>2. \A i \in 1 .. n : s[i - 1] \in Nat BY DEF SliceOf
<1> DEFINE step == [p \in (1 .. n) \X Nat |-> (base * p[2]) + s[p[1] - 1]]
           body(f) == [i \in 0 .. n |-> IF i = 0 THEN 0 ELSE (base * f[i - 1]) + s[i - 1]]
           f == CHOOSE f : f = body(f)
<1>3. step \in [(1 .. n) \X Nat -> Nat] BY <1>2
<1>4. \A i \in 1 .. n, x \in Nat : step[<<i, x>>] = (base * x) + s[i - 1] OBVIOUS
<1> HIDE DEF step
<1>0. 0 \in Nat OBVIOUS
<1>a. PICK g : Recursion(n, Nat, 0, step, g) BY <1>0, <1>3, RecursionExists, Zenon
<1>5. g \in [0 .. n -> Nat] /\ g[0] = 0 /\ \A i \in 1 .. n : g[i] = step[<<i, g[i - 1]>>]
  BY <1>a DEF Recursion
<1>6. \A i \in 1 .. n : g[i - 1] \in Nat
  <2>1. \A i \in 1 .. n : i - 1 \in 0 .. n OBVIOUS
  <2>2. \A i \in 0 .. n : g[i] \in Nat BY <1>5
  <2> QED BY <2>1, <2>2, Zenon
<1>7. g = body(g)
  <2>1. ASSUME NEW i \in 1 .. n PROVE g[i] = (base * g[i - 1]) + s[i - 1]
    BY <1>4, <1>5, <1>6, Zenon
  <2>2. \A i \in 0 .. n : g[i] = IF i = 0 THEN 0 ELSE (base * g[i - 1]) + s[i - 1] BY <1>5, <2>1
  <2>3. body(g) = [i \in 0 .. n |-> g[i]] BY <2>2
  <2>4. g = [i \in 0 .. n |-> g[i]] BY <1>5
  <2> QED BY <2>3, <2>4
<1>8. f = body(f) BY <1>7
<1>9. Number(base, s) = f[n] BY <1>1 DEF Number
<1> HIDE DEF f
<1>10. f[0] = 0 /\ \A i \in 1 .. n : f[i] = (base * f[i - 1]) + s[i - 1] BY <1>8
<1>11. \A i \in 0 .. n : f[i] \in Nat
  <2> DEFINE T == {i \in 0 .. n : f[i] \in Nat}
  <2>1. 0 \in T BY <1>10
  <2>2. ASSUME NEW i \in 1 .. n, i - 1 \in T PROVE i \in T
    <3>1. f[i - 1] \in Nat /\ s[i - 1] \in Nat /\ f[i] = (base * f[i - 1]) + s[i - 1]
      BY <1>2, <1>10, <2>2
    <3>2. base * f[i - 1] \in Nat BY <3>1
    <3> QED BY <3>1, <3>2
  <2> HIDE DEF T
  <2>3. \A i \in 0 .. n : i \in T BY <2>1, <2>2, BoundedInduction, Zenon
  <2> QED BY <2>3 DEF T
<1>12. f \in [0 .. n -> Nat] BY <1>8, <1>11
<1> QED BY <1>9, <1>10, <1>12 DEF Horner

LEMMA DigitsUnique ==
  ASSUME NEW base \in Nat \ {0}, NEW u \in Nat, NEW v \in Nat,
         NEW a \in 0 .. base - 1, NEW b \in 0 .. base - 1, (base * u) + a = (base * v) + b
  PROVE  u = v /\ a = b
<1>1. ASSUME NEW x \in Nat, NEW w \in Nat, x < w PROVE base * x + base <= base * w
  <2>1. PICK d \in Nat : w = x + 1 + d BY <1>1
  <2>2. base * (x + 1 + d) = base * x + base + base * d OBVIOUS
  <2>3. base * d \in Nat /\ base * x \in Nat OBVIOUS
  <2> QED BY <2>1, <2>2, <2>3
<1>2. base * u \in Nat /\ base * v \in Nat OBVIOUS
<1>3. ~(u < v) BY <1>1, <1>2
<1>4. ~(v < u) BY <1>1, <1>2
<1>5. u = v BY <1>3, <1>4
<1> QED BY <1>2, <1>5

\* Different slices of the same length are different numbers.
LEMMA NumberInjective ==
  ASSUME NEW base \in Nat \ {0}, NEW n \in Nat,
         NEW s \in SliceOf(n, 0 .. base - 1), NEW t \in SliceOf(n, 0 .. base - 1),
         Number(base, s) = Number(base, t)
  PROVE  s = t
<1>1. PICK f : Horner(base, n, s, f) /\ Number(base, s) = f[n] BY NumberIsHorner
<1>2. PICK g : Horner(base, n, t, g) /\ Number(base, t) = g[n] BY NumberIsHorner
<1> DEFINE T == {k \in 0 .. n : f[n - k] = g[n - k] /\ \A i \in n - k .. n - 1 : s[i] = t[i]}
<1>3. 0 \in T
  <2>1. n - 0 = n /\ \A i \in n .. n - 1 : FALSE OBVIOUS
  <2>2. f[n] = g[n] BY <1>1, <1>2
  <2> QED BY <2>1, <2>2
<1>4. ASSUME NEW k \in 1 .. n, k - 1 \in T PROVE k \in T
  <2> DEFINE i == n - k
  <2>1. /\ i \in 0 .. n - 1 /\ i + 1 \in 1 .. n /\ (i + 1) - 1 = i /\ n - (k - 1) = i + 1
        /\ f[i + 1] = g[i + 1] /\ \A l \in i + 1 .. n - 1 : s[l] = t[l]
    BY <1>4
  <2>2. /\ f[i] \in Nat /\ g[i] \in Nat /\ s[i] \in 0 .. base - 1 /\ t[i] \in 0 .. base - 1
    BY <1>1, <1>2, <2>1 DEF Horner, SliceOf
  <2>3. f[i + 1] = (base * f[i]) + s[i] BY <1>1, <2>1 DEF Horner
  <2>4. g[i + 1] = (base * g[i]) + t[i] BY <1>2, <2>1 DEF Horner
  <2> HIDE DEF i
  <2>5. f[i] = g[i] /\ s[i] = t[i]
    <3>1. (base * f[i]) + s[i] = (base * g[i]) + t[i] BY <2>1, <2>3, <2>4
    <3> QED BY <2>2, <3>1, DigitsUnique, Zenon
  <2>6. \A l \in i .. n - 1 : s[l] = t[l] BY <2>1, <2>5
  <2> QED BY <1>4, <2>5, <2>6 DEF i
<1> HIDE DEF T
<1>5. n \in T
  <2>1. \A i \in 0 .. n : i \in T BY <1>3, <1>4, BoundedInduction, Zenon
  <2> QED BY <2>1
<1>6. \A i \in 0 .. n - 1 : s[i] = t[i] BY <1>5 DEF T
<1> QED BY <1>6 DEF SliceOf

\* The digits base-1 throughout make the largest number.
LEMMA NumberBound ==
  ASSUME NEW base \in Nat \ {0}, NEW n \in Nat, NEW s \in SliceOf(n, 0 .. base - 1)
  PROVE  /\ Number(base, s) \in Nat
         /\ Number(base, [i \in 0 .. n - 1 |-> base - 1]) \in Nat
         /\ Number(base, s) <= Number(base, [i \in 0 .. n - 1 |-> base - 1])
<1> DEFINE t == [i \in 0 .. n - 1 |-> base - 1]
<1>0. t \in SliceOf(n, 0 .. base - 1) BY DEF SliceOf
<1>00. \A i \in 0 .. n - 1 : t[i] = base - 1 OBVIOUS
<1> HIDE DEF t
<1>1. PICK f : Horner(base, n, s, f) /\ Number(base, s) = f[n] BY NumberIsHorner
<1>2. PICK g : Horner(base, n, t, g) /\ Number(base, t) = g[n] BY <1>0, NumberIsHorner
<1> DEFINE T == {i \in 0 .. n : f[i] <= g[i]}
<1>3. 0 \in T BY <1>1, <1>2 DEF Horner
<1>4. ASSUME NEW i \in 1 .. n, i - 1 \in T PROVE i \in T
  <2>1. /\ f[i - 1] \in Nat /\ g[i - 1] \in Nat /\ f[i - 1] <= g[i - 1] /\ s[i - 1] \in 0 .. base - 1
        /\ f[i] = (base * f[i - 1]) + s[i - 1] /\ g[i] = (base * g[i - 1]) + (base - 1)
    BY <1>1, <1>2, <1>4, <1>00 DEF Horner, SliceOf
  <2>2. base * f[i - 1] <= base * g[i - 1]
    <3>1. \A x, w \in Nat : x <= w => base * x <= base * w OBVIOUS
    <3> QED BY <2>1, <3>1
  <2>3. base * f[i - 1] \in Nat /\ base * g[i - 1] \in Nat BY <2>1
  <2>4. f[i] <= g[i] BY <2>1, <2>2, <2>3
  <2> QED BY <2>4
<1> HIDE DEF T
<1>5. n \in T
  <2>1. \A i \in 0 .. n : i \in T BY <1>3, <1>4, BoundedInduction, Zenon
  <2> QED BY <2>1
<1>6. f[n] \in Nat /\ g[n] \in Nat /\ f[n] <= g[n] BY <1>1, <1>2, <1>5 DEF Horner, T
<1> QED BY <1>1, <1>2, <1>6 DEF t

-----------------------------------------------------------------------------
(* How many positions a matrix has *)

\* All positions of a rectangle.
LEMMA RectangleCount ==
  ASSUME NEW r \in Nat, NEW c \in Nat
  PROVE  Cardinality(Positions(r, c, FALSE)) = r * c
<1>1. Positions(r, c, FALSE) = (0 .. r - 1) \X (0 .. c - 1)
  BY DEF Positions
<1>2. ASSUME NEW n \in Nat
      PROVE  IsFiniteSet(0 .. n - 1) /\ Cardinality(0 .. n - 1) = n
  BY FS_Interval
<1>3. /\ IsFiniteSet(0 .. r - 1) /\ IsFiniteSet(0 .. c - 1)
      /\ Cardinality(0 .. r - 1) = r /\ Cardinality(0 .. c - 1) = c
  BY <1>2
<1> QED
  BY <1>1, <1>3, FS_Product

\* Those of an upper triangle: with its mirror image, it covers the square and
\* the diagonal twice.
LEMMA TriangleCount ==
  ASSUME NEW r \in Nat
  PROVE  Cardinality(Positions(r, r, TRUE)) = ((r + 1) * r) \div 2
<1> DEFINE I == 0 .. r - 1
           U == Positions(r, r, TRUE)
           L == {p \in I \X I : p[2] < p[1]}
           S == {p \in I \X I : p[1] < p[2]}
           D == {p \in I \X I : p[1] = p[2]}
           swap == [p \in S |-> <<p[2], p[1]>>]
           twice == [i \in I |-> <<i, i>>]
<1>0. I \subseteq Int
  OBVIOUS
<1>1. IsFiniteSet(I) /\ Cardinality(I) = r
  BY FS_Interval
<1>2. IsFiniteSet(I \X I) /\ Cardinality(I \X I) = r * r
  BY <1>1, FS_Product
<1>3. U = S \cup D /\ S \cap D = {} /\ U \cup L = I \X I /\ U \cap L = {}
  BY <1>0 DEF Positions
<1>4. IsFiniteSet(S) /\ IsFiniteSet(D) /\ IsFiniteSet(U) /\ IsFiniteSet(L)
  <2>1. S \subseteq I \X I /\ D \subseteq I \X I /\ U \subseteq I \X I /\ L \subseteq I \X I
    BY DEF Positions
  <2> HIDE DEF I, S, D, U, L
  <2> QED
    BY <1>2, <2>1, FS_Subset
<1>5. Cardinality(L) = Cardinality(S)
  <2>1. swap \in Injection(S, L)
    <3>1. swap \in [S -> L]
      OBVIOUS
    <3>2. \A p, q \in S : swap[p] = swap[q] => p = q
      OBVIOUS
    <3> HIDE DEF swap, S, L
    <3> QED
      BY <3>1, <3>2 DEF Injection, IsInjective
  <2>2. swap \in Surjection(S, L)
    <3>1. swap \in [S -> L]
      OBVIOUS
    <3>2. \A p \in L : <<p[2], p[1]>> \in S /\ swap[<<p[2], p[1]>>] = p
      OBVIOUS
    <3>3. \A p \in L : \E q \in S : swap[q] = p
      BY <3>2
    <3> HIDE DEF swap, S, L
    <3> QED
      BY <3>1, <3>3, Zenon DEF Surjection
  <2> HIDE DEF swap, S, L
  <2> QED
    BY <1>4, <2>1, <2>2, FS_Bijection, Zenon DEF ExistsBijection, Bijection
<1>6. Cardinality(D) = r
  <2>1. twice \in Injection(I, D)
    <3>1. twice \in [I -> D]
      OBVIOUS
    <3>2. \A i, j \in I : twice[i] = twice[j] => i = j
      OBVIOUS
    <3> HIDE DEF twice, D, I
    <3> QED
      BY <3>1, <3>2 DEF Injection, IsInjective
  <2>2. twice \in Surjection(I, D)
    <3>1. twice \in [I -> D]
      OBVIOUS
    <3>2. \A p \in D : p[1] \in I /\ twice[p[1]] = p
      OBVIOUS
    <3>3. \A p \in D : \E i \in I : twice[i] = p
      BY <3>2
    <3> HIDE DEF twice, D, I
    <3> QED
      BY <3>1, <3>3, Zenon DEF Surjection
  <2> HIDE DEF twice, D, I
  <2>3. Cardinality(D) = Cardinality(I)
    BY <1>1, <2>1, <2>2, FS_Bijection, Zenon DEF ExistsBijection, Bijection
  <2> QED
    BY <1>1, <2>3
<1> HIDE DEF I, U, L, S, D
<1>7. /\ Cardinality(S) \in Nat /\ Cardinality(D) \in Nat /\ Cardinality(U) \in Nat
      /\ Cardinality(L) \in Nat
  BY <1>4, FS_CardinalityType
<1>8. Cardinality(U) = Cardinality(S) + r
  <2>1. Cardinality(S \cap D) = 0
    BY <1>3, FS_EmptySet
  <2>2. Cardinality(S \cup D) = Cardinality(S) + Cardinality(D) - Cardinality(S \cap D)
    BY <1>4, FS_Union
  <2> QED
    BY <1>3, <1>6, <1>7, <2>1, <2>2
<1>9. Cardinality(U) + Cardinality(S) = r * r
  <2>1. Cardinality(U \cap L) = 0
    BY <1>3, FS_EmptySet
  <2>2. Cardinality(U \cup L) = Cardinality(U) + Cardinality(L) - Cardinality(U \cap L)
    BY <1>4, FS_Union
  <2>3. Cardinality(U \cup L) = r * r
    BY <1>2, <1>3
  <2> QED
    BY <1>5, <1>7, <2>1, <2>2, <2>3
<1> DEFINE u == Cardinality(U)
           square == r * r
<1>10. (r + 1) * r = square + r
  OBVIOUS
<1>11. u \in Nat /\ square \in Nat /\ 2 * u = square + r
  <2> DEFINE s == Cardinality(S)
  <2>1. u \in Nat /\ s \in Nat /\ square \in Nat /\ u = s + r /\ u + s = square
    BY <1>7, <1>8, <1>9
  <2> HIDE DEF u, s, square
  <2> QED
    BY <2>1
<1>12. u = (square + r) \div 2
  <2> HIDE DEF u, square
  <2> QED
    BY <1>11
<1> QED
  BY <1>10, <1>12 DEF U, u
=============================================================================
