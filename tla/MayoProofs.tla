----------------------------- MODULE MayoProofs -----------------------------
(***************************************************************************)
(* Proofs about the signature scheme, module MayoApi, and the packing it   *)
(* uses, module Packing.  In this order:                                   *)
(*   - the field, vectors and matrices as the code's loops compute them,   *)
(*     and the two packings;                                               *)
(*   - the reduction modulo f is linear, and the subtractions of Verify    *)
(*     with the running ell are Horner's rule: VerifyComputesPStar;        *)
(*   - the quadratic forms of a matrix in blocks, what key generation and  *)
(*     expansion make of a seed: OilSpaceVanishes;                         *)
(*   - the system of an attempt is P* at its signature: SystemIsPStar;     *)
(*   - the bytes of a signature and of a signed message;                   *)
(*   - the inductive invariant ApiInv and the properties of MayoApi;       *)
(*   - what SampleSolution assumes of its constants, for the field and the *)
(*     inner product of the code: SolverAssumptionsHold.                   *)
(***************************************************************************)
EXTENDS MayoApi, Packing, SliceProofs

-----------------------------------------------------------------------------
(* The field *)

LEMMA FieldType ==
  /\ 0 \in Gf16 /\ 1 \in Gf16
  /\ \A a, b \in Gf16 : GfXor(a, b) \in Gf16 /\ GfMul(a, b) \in Gf16
  BY FieldLaws DEF Gf16

LEMMA XorComm == \A a, b \in Gf16 : GfXor(a, b) = GfXor(b, a)
  BY FieldLaws
LEMMA MulComm == \A a, b \in Gf16 : GfMul(a, b) = GfMul(b, a)
  BY FieldLaws
LEMMA XorAssoc == \A a, b, c \in Gf16 : GfXor(a, GfXor(b, c)) = GfXor(GfXor(a, b), c)
  BY FieldLaws
LEMMA MulAssoc == \A a, b, c \in Gf16 : GfMul(a, GfMul(b, c)) = GfMul(GfMul(a, b), c)
  BY FieldLaws
LEMMA Distribute ==
  \A a, b, c \in Gf16 : GfMul(a, GfXor(b, c)) = GfXor(GfMul(a, b), GfMul(a, c))
  BY FieldLaws
LEMMA Neutral ==
  \A a \in Gf16 : /\ GfXor(a, 0) = a /\ GfXor(0, a) = a /\ GfXor(a, a) = 0
                  /\ GfMul(a, 0) = 0 /\ GfMul(0, a) = 0
                  /\ GfMul(a, 1) = a /\ GfMul(1, a) = a
  BY FieldLaws, FieldType

LEMMA XorExchange ==
  ASSUME NEW a \in Gf16, NEW b \in Gf16, NEW c \in Gf16
  PROVE  GfXor(a, GfXor(b, c)) = GfXor(b, GfXor(a, c))
<1>1. GfXor(a, GfXor(b, c)) = GfXor(GfXor(a, b), c) /\ GfXor(b, GfXor(a, c)) = GfXor(GfXor(b, a), c)
  BY FieldLaws
<1>2. GfXor(a, b) = GfXor(b, a)
  BY FieldLaws
<1> QED
  BY <1>1, <1>2

LEMMA FourTerms ==
  \A a, b, c, d \in Gf16 : GfXor(GfXor(a, b), GfXor(c, d)) = GfXor(GfXor(a, c), GfXor(b, d))
<1> TAKE a, b, c, d \in Gf16
<1>1. GfXor(GfXor(a, b), GfXor(c, d)) = GfXor(a, GfXor(b, GfXor(c, d)))
  BY FieldLaws, FieldType
<1>2. GfXor(GfXor(a, c), GfXor(b, d)) = GfXor(a, GfXor(c, GfXor(b, d)))
  BY FieldLaws, FieldType
<1>3. GfXor(b, GfXor(c, d)) = GfXor(c, GfXor(b, d))
  BY XorExchange
<1> QED
  BY <1>1, <1>2, <1>3

(* Sums over finite sets *)

\* Induction over the subsets of a finite set, for a set of sets.
LEMMA SubsetInduction ==
  ASSUME NEW D, IsFiniteSet(D), NEW U, {} \in U,
         \A s \in SUBSET D, x \in D : s \in U /\ x \notin s => s \cup {x} \in U
  PROVE  \A s \in SUBSET D : s \in U
<1> DEFINE T == {i \in Nat : \A s \in SUBSET D : Cardinality(s) = i => s \in U}
<1>1. \A s \in SUBSET D : IsFiniteSet(s) /\ Cardinality(s) \in Nat
  BY FS_Subset, FS_CardinalityType
<1>2. 0 \in T
  BY <1>1, FS_EmptySet
<1>3. ASSUME NEW i \in T PROVE i + 1 \in T
  <2> SUFFICES ASSUME NEW s \in SUBSET D, Cardinality(s) = i + 1 PROVE s \in U
    OBVIOUS
  <2>1. IsFiniteSet(s)
    BY <1>1
  <2>2. s # {}
    <3>1. i \in Nat /\ i + 1 # 0
      OBVIOUS
    <3> QED
      BY <2>1, <3>1, FS_EmptySet
  <2>3. PICK x \in s : TRUE
    BY <2>2
  <2>4. Cardinality(s \ {x}) = i
    <3>1. i \in Nat /\ (i + 1) - 1 = i
      OBVIOUS
    <3>2. Cardinality(s \ {x}) = Cardinality(s) - 1
      BY <2>1, <2>3, FS_RemoveElement
    <3> QED
      BY <3>1, <3>2
  <2>5. s \ {x} \in U
    BY <2>4
  <2>6. (s \ {x}) \cup {x} = s /\ x \notin s \ {x} /\ s \ {x} \in SUBSET D /\ x \in D
    BY <2>3
  <2> QED
    BY <2>5, <2>6
<1> HIDE DEF T
<1>4. T \in SUBSET Nat
  BY DEF T
<1>5. \A i \in Nat : i \in T
  BY <1>2, <1>3, <1>4, SetInduction
<1> QED
  BY <1>1, <1>5 DEF T

\* The fold of the community modules, as an equation.
Folded(D, f, g) ==
  g = [s \in SUBSET D |-> IF s = {} THEN 0
                          ELSE LET x == CHOOSE x \in s : TRUE IN GfXor(f[x], g[s \ {x}])]

\* Partial sums: a subset at a time, whichever element is taken first.
Sums(D, f, g) ==
  /\ g \in [SUBSET D -> Gf16] /\ g[{}] = 0
  /\ \A s \in SUBSET D, x \in D : x \in s => g[s] = GfXor(f[x], g[s \ {x}])

First(s) == CHOOSE x \in s : TRUE

\* The same for the subsets with at most i elements.
SizeAtMost(D, i) == {s \in SUBSET D : Cardinality(s) <= i}
PartialFold(D, f, i, g) ==
  /\ g \in [SizeAtMost(D, i) -> Gf16]
  /\ \A s \in SizeAtMost(D, i) :
       g[s] = IF s = {} THEN 0 ELSE GfXor(f[First(s)], g[s \ {First(s)}])

LEMMA PartialFoldExists ==
  ASSUME NEW D, IsFiniteSet(D), NEW f \in [D -> Gf16]
  PROVE  \A i \in Nat : \E g : PartialFold(D, f, i, g)
<1> DEFINE T == {i \in Nat : \E g : PartialFold(D, f, i, g)}
<1>0. \A s \in SUBSET D : IsFiniteSet(s) /\ Cardinality(s) \in Nat
  BY FS_Subset, FS_CardinalityType
<1>1. 0 \in T
  <2> DEFINE g == [s \in SizeAtMost(D, 0) |-> 0]
  <2>1. \A s \in SizeAtMost(D, 0) : s = {}
    BY <1>0, FS_EmptySet DEF SizeAtMost
  <2>2. g \in [SizeAtMost(D, 0) -> Gf16]
    BY DEF Gf16
  <2>3. PartialFold(D, f, 0, g)
    BY <2>1, <2>2 DEF PartialFold
  <2> QED
    BY <2>3
<1>2. ASSUME NEW i \in T PROVE i + 1 \in T
  <2>0. i \in Nat
    OBVIOUS
  <2>1. PICK g : PartialFold(D, f, i, g)
    OBVIOUS
  <2> DEFINE step(s) == IF s = {} THEN 0 ELSE GfXor(f[First(s)], g[s \ {First(s)}])
             h == [s \in SizeAtMost(D, i + 1) |-> step(s)]
  <2>2. ASSUME NEW s \in SizeAtMost(D, i + 1), s # {}
        PROVE  First(s) \in D /\ s \ {First(s)} \in SizeAtMost(D, i)
    <3>1. First(s) \in s
      BY <2>2 DEF First
    <3>2. Cardinality(s \ {First(s)}) = Cardinality(s) - 1
      BY <1>0, <3>1, FS_RemoveElement DEF SizeAtMost
    <3>3. s \in SUBSET D /\ Cardinality(s) <= i + 1 /\ Cardinality(s) \in Nat
      BY <1>0 DEF SizeAtMost
    <3>4. Cardinality(s \ {First(s)}) <= i
      BY <2>0, <3>2, <3>3
    <3> QED
      BY <3>1, <3>3, <3>4 DEF SizeAtMost
  <2>3. SizeAtMost(D, i) \subseteq SizeAtMost(D, i + 1)
    BY <1>0, <2>0 DEF SizeAtMost
  <2>4. \A s \in SizeAtMost(D, i) : h[s] = g[s]
    BY <2>1, <2>3 DEF PartialFold
  <2>5. \A s \in SizeAtMost(D, i + 1) : step(s) \in Gf16
    <3>1. 0 \in Gf16
      BY DEF Gf16
    <3>2. \A s \in SizeAtMost(D, i + 1) :
            s # {} => f[First(s)] \in Gf16 /\ g[s \ {First(s)}] \in Gf16
      BY <2>1, <2>2 DEF PartialFold
    <3> QED
      BY <3>1, <3>2, FieldLaws
  <2>6. h \in [SizeAtMost(D, i + 1) -> Gf16]
    BY <2>5
  <2>7. \A s \in SizeAtMost(D, i + 1) :
          h[s] = IF s = {} THEN 0 ELSE GfXor(f[First(s)], h[s \ {First(s)}])
    <3> HIDE DEF h
    <3>1. \A s \in SizeAtMost(D, i + 1) : s # {} => h[s \ {First(s)}] = g[s \ {First(s)}]
      BY <2>2, <2>4
    <3>2. \A s \in SizeAtMost(D, i + 1) : h[s] = step(s)
      BY DEF h
    <3> QED
      BY <3>1, <3>2
  <2>8. PartialFold(D, f, i + 1, h)
    BY <2>6, <2>7 DEF PartialFold
  <2> QED
    BY <2>8
<1> HIDE DEF T
<1>3. T \in SUBSET Nat
  BY DEF T
<1>4. \A i \in Nat : i \in T
  BY <1>1, <1>2, <1>3, SetInduction
<1> QED
  BY <1>4 DEF T

LEMMA FoldExists ==
  ASSUME NEW D, IsFiniteSet(D), NEW f \in [D -> Gf16]
  PROVE  \E g : Folded(D, f, g)
<1>1. PICK n \in Nat : n = Cardinality(D)
  BY FS_CardinalityType
<1>2. PICK g : PartialFold(D, f, n, g)
  BY PartialFoldExists
<1>3. SizeAtMost(D, n) = SUBSET D
  BY <1>1, FS_Subset DEF SizeAtMost
<1>4. /\ g = [s \in SUBSET D |-> g[s]]
      /\ \A s \in SUBSET D : g[s] = IF s = {} THEN 0 ELSE GfXor(f[First(s)], g[s \ {First(s)}])
  BY <1>2, <1>3 DEF PartialFold
<1>5. Folded(D, f, g)
  BY <1>4 DEF Folded, First
<1> QED
  BY <1>5

LEMMA SumIsFold ==
  ASSUME NEW D, NEW f, DOMAIN f = D, \E g : Folded(D, f, g)
  PROVE  \E g : Folded(D, f, g) /\ SumOf(f) = g[D]
<1> DEFINE g == CHOOSE g : Folded(D, f, g)
<1>1. Folded(D, f, g)
  OBVIOUS
<1>2. SumOf(f) = g[D]
  BY Zenon DEF SumOf, FoldFunction, FoldFunctionOnSet, MapThenFoldSet, Folded
<1> QED
  BY <1>1, <1>2

\* An element can be taken first whichever it is.
LEMMA FoldAnyOrder ==
  ASSUME NEW D, IsFiniteSet(D), NEW f \in [D -> Gf16], NEW g, Folded(D, f, g)
  PROVE  Sums(D, f, g)
<1>0. \A s \in SUBSET D : g[s] = IF s = {} THEN 0 ELSE GfXor(f[First(s)], g[s \ {First(s)}])
  BY DEF Folded, First
<1> DEFINE Fits(s) == g[s] \in Gf16 /\ \A x \in s : g[s] = GfXor(f[x], g[s \ {x}])
           T == {i \in Nat : \A s \in SUBSET D : Cardinality(s) <= i => Fits(s)}
<1>1. \A s \in SUBSET D : IsFiniteSet(s) /\ Cardinality(s) \in Nat
  BY FS_Subset, FS_CardinalityType
<1>2. Fits({})
  BY <1>0 DEF Gf16
<1>3. 0 \in T
  <2>1. ASSUME NEW s \in SUBSET D, Cardinality(s) <= 0 PROVE s = {}
    <3>1. Cardinality(s) = 0
      BY <1>1, <2>1
    <3> QED
      BY <1>1, <3>1, FS_EmptySet
  <2> HIDE DEF Fits
  <2> QED
    BY <1>2, <2>1
<1>4. ASSUME NEW i \in T PROVE i + 1 \in T
  <2>0. i \in Nat /\ \A s \in SUBSET D : Cardinality(s) <= i => Fits(s)
    OBVIOUS
  <2> HIDE DEF T
  <2>a. ASSUME NEW s \in SUBSET D, Cardinality(s) = i + 1 PROVE Fits(s)
    <3>1. IsFiniteSet(s) /\ s # {}
      <4>1. i + 1 # 0
        BY <2>0
      <4> QED
        BY <1>1, <2>a, <4>1, FS_EmptySet
    <3> DEFINE e == First(s)
    <3>2. e \in s
      BY <3>1 DEF First
    <3>3. \A x \in s : x \in D /\ f[x] \in Gf16
      OBVIOUS
    <3>4. ASSUME NEW x \in s
          PROVE  s \ {x} \in SUBSET D /\ Cardinality(s \ {x}) = i /\ IsFiniteSet(s \ {x})
      <4>1. (i + 1) - 1 = i
        BY <2>0
      <4> QED
        BY <2>a, <3>1, <4>1, FS_RemoveElement
    <3>5. \A x \in s : Fits(s \ {x})
      <4> HIDE DEF Fits
      <4> QED
        BY <2>0, <3>4
    <3>6. g[s] = GfXor(f[e], g[s \ {e}])
      BY <1>0, <3>1
    <3> HIDE DEF e
    <3>7. g[s] \in Gf16
      <4>1. f[e] \in Gf16 /\ g[s \ {e}] \in Gf16
        BY <3>2, <3>3, <3>5
      <4> QED
        BY <3>6, <4>1, FieldType
    <3>8. ASSUME NEW x \in s PROVE g[s] = GfXor(f[x], g[s \ {x}])
      <4>1. CASE x = e
        BY <3>6, <4>1
      <4>2. CASE x # e
        <5> DEFINE r == s \ {x, e}
        <5>1. (s \ {e}) \ {x} = r /\ (s \ {x}) \ {e} = r /\ x \in s \ {e} /\ e \in s \ {x}
          BY <3>2, <4>2
        <5>2. g[s \ {e}] = GfXor(f[x], g[r]) /\ g[s \ {x}] = GfXor(f[e], g[r])
          BY <3>2, <3>5, <5>1
        <5>3. g[r] \in Gf16
          <6>1. r \in SUBSET D /\ r \subseteq s \ {x}
            OBVIOUS
          <6>2. Cardinality(r) <= i
            <7>1. Cardinality(s \ {x}) = i /\ IsFiniteSet(s \ {x})
              BY <3>4
            <7> HIDE DEF r
            <7> QED
              BY <6>1, <7>1, FS_Subset
          <6> HIDE DEF r
          <6> QED
            BY <2>0, <6>1, <6>2
        <5> HIDE DEF r
        <5>4. GfXor(f[x], GfXor(f[e], g[r])) = GfXor(f[e], GfXor(f[x], g[r]))
          BY <3>2, <3>3, <5>3, XorExchange
        <5> QED
          BY <3>6, <5>2, <5>4
      <4> QED
        BY <4>1, <4>2
    <3> QED
      BY <3>7, <3>8
  <2>b. \A s \in SUBSET D : Cardinality(s) <= i + 1 => Cardinality(s) <= i \/ Cardinality(s) = i + 1
    BY <1>1, <2>0
  <2> HIDE DEF Fits
  <2>c. \A s \in SUBSET D : Cardinality(s) <= i + 1 => Fits(s)
    BY <2>0, <2>a, <2>b
  <2> QED
    BY <2>0, <2>c DEF T
<1> HIDE DEF T
<1>5. T \in SUBSET Nat
  BY DEF T
<1>6. \A i \in Nat : i \in T
  BY <1>3, <1>4, <1>5, SetInduction
<1>7. \A s \in SUBSET D : Fits(s)
  <2> HIDE DEF Fits
  <2>1. \A i \in Nat : \A s \in SUBSET D : Cardinality(s) <= i => Fits(s)
    BY <1>6 DEF T
  <2>2. \A s \in SUBSET D : Cardinality(s) <= Cardinality(s)
    BY <1>1
  <2> QED
    BY <1>1, <2>1, <2>2
<1>8. g \in [SUBSET D -> Gf16]
  BY <1>7 DEF Folded
<1> QED
  BY <1>0, <1>7, <1>8 DEF Sums

\* The sum of the entries is the last of the partial sums.
LEMMA SumIsLast ==
  ASSUME NEW D, IsFiniteSet(D), NEW f \in [D -> Gf16]
  PROVE  \E g : Sums(D, f, g) /\ SumOf(f) = g[D]
<1>1. PICK g : Folded(D, f, g) /\ SumOf(f) = g[D]
  BY FoldExists, SumIsFold
<1> QED
  BY <1>1, FoldAnyOrder

LEMMA SumType ==
  ASSUME NEW D, IsFiniteSet(D), NEW f \in [D -> Gf16]
  PROVE  SumOf(f) \in Gf16
<1>1. PICK g : Sums(D, f, g) /\ SumOf(f) = g[D]
  BY SumIsLast
<1> QED
  BY <1>1 DEF Sums

LEMMA SumEmpty ==
  ASSUME NEW f \in [{} -> Gf16]
  PROVE  SumOf(f) = 0
<1>1. IsFiniteSet({})
  BY FS_EmptySet
<1> QED
  BY <1>1, SumIsLast DEF Sums

\* Partial sums of functions that agree are the same.
LEMMA SumsAgree ==
  ASSUME NEW D, NEW C \in SUBSET D, IsFiniteSet(D), NEW f, NEW g, NEW h, NEW e,
         Sums(D, f, g), Sums(C, h, e), \A x \in C : f[x] = h[x]
  PROVE  \A s \in SUBSET C : g[s] = e[s]
<1> DEFINE U == {s \in SUBSET C : g[s] = e[s]}
<1>1. IsFiniteSet(C)
  BY FS_Subset
<1>2. {} \in U
  BY DEF Sums
<1>3. ASSUME NEW s \in SUBSET C, NEW x \in C, s \in U, x \notin s
      PROVE  s \cup {x} \in U
  <2>1. (s \cup {x}) \ {x} = s /\ s \cup {x} \in SUBSET C /\ s \cup {x} \in SUBSET D /\ x \in D
    BY <1>3
  <2>2. g[s \cup {x}] = GfXor(f[x], g[s]) /\ e[s \cup {x}] = GfXor(h[x], e[s])
    <3> DEFINE c == s \cup {x}
    <3>1. x \in c /\ c \ {x} = s /\ c \in SUBSET C /\ c \in SUBSET D /\ x \in D
      BY <2>1
    <3> HIDE DEF c
    <3>2. g[c] = GfXor(f[x], g[c \ {x}]) /\ e[c] = GfXor(h[x], e[c \ {x}])
      BY <3>1 DEF Sums
    <3> QED
      BY <3>1, <3>2 DEF c
  <2> QED
    BY <1>3, <2>1, <2>2
<1> HIDE DEF U
<1>4. \A s \in SUBSET C : s \in U
  BY <1>1, <1>2, <1>3, SubsetInduction, Zenon
<1> QED
  BY <1>4 DEF U

\* One element taken out of a sum.
LEMMA SumRemove ==
  ASSUME NEW D, IsFiniteSet(D), NEW f \in [D -> Gf16], NEW x \in D
  PROVE  SumOf(f) = GfXor(f[x], SumOf([i \in D \ {x} |-> f[i]]))
<1> DEFINE C == D \ {x}
           h == [i \in C |-> f[i]]
<1>1. IsFiniteSet(C) /\ C \in SUBSET D
  BY FS_Subset
<1>2. h \in [C -> Gf16] /\ \A i \in C : f[i] = h[i]
  OBVIOUS
<1> HIDE DEF h
<1>3. PICK g : Sums(D, f, g) /\ SumOf(f) = g[D]
  BY SumIsLast
<1>4. PICK e : Sums(C, h, e) /\ SumOf(h) = e[C]
  <2> HIDE DEF C
  <2> QED
    BY <1>1, <1>2, SumIsLast
<1>5. g[C] = e[C]
  <2>1. C \in SUBSET C
    OBVIOUS
  <2> HIDE DEF C
  <2> QED
    BY <1>1, <1>2, <1>3, <1>4, <2>1, SumsAgree
<1>6. g[D] = GfXor(f[x], g[C])
  BY <1>3 DEF Sums
<1> QED
  BY <1>3, <1>4, <1>5, <1>6 DEF h

\* What holds of the empty sum, and stays true when an element is added, holds of
\* every sum over D: the form in which the sums below are computed.
SumLaw(D, U) ==
  /\ {} \in U
  /\ \A s \in SUBSET D, x \in D : s \in U /\ x \notin s => s \cup {x} \in U

\* The sum over a subset, and the sum over one element more.
Over(f, s) == SumOf([i \in s |-> f[i]])

LEMMA OverEmpty == \A f : Over(f, {}) = 0
<1> TAKE f
<1>1. [i \in {} |-> f[i]] \in [{} -> Gf16]
  OBVIOUS
<1> QED
  BY <1>1, SumEmpty DEF Over

LEMMA OverType ==
  ASSUME NEW D, IsFiniteSet(D), NEW f \in [D -> Gf16]
  PROVE  /\ \A s \in SUBSET D : Over(f, s) \in Gf16
         /\ Over(f, D) = SumOf(f)
<1>1. ASSUME NEW s \in SUBSET D PROVE Over(f, s) \in Gf16
  <2>1. IsFiniteSet(s) /\ [i \in s |-> f[i]] \in [s -> Gf16]
    BY FS_Subset
  <2> QED
    BY <2>1, SumType DEF Over
<1>2. f = [i \in D |-> f[i]]
  OBVIOUS
<1> QED
  BY <1>1, <1>2 DEF Over

LEMMA OverAdd ==
  ASSUME NEW D, IsFiniteSet(D), NEW f \in [D -> Gf16]
  PROVE  \A s \in SUBSET D, x \in D :
           x \notin s => Over(f, s \cup {x}) = GfXor(f[x], Over(f, s))
<1> SUFFICES ASSUME NEW s \in SUBSET D, NEW x \in D, x \notin s
             PROVE  Over(f, s \cup {x}) = GfXor(f[x], Over(f, s))
  OBVIOUS
<1> DEFINE C == s \cup {x}
           h == [i \in C |-> f[i]]
<1>1. C \in SUBSET D /\ x \in C /\ C \ {x} = s
  OBVIOUS
<1>2. IsFiniteSet(C)
  BY <1>1, FS_Subset
<1>3. h \in [C -> Gf16] /\ h[x] = f[x] /\ [i \in C \ {x} |-> h[i]] = [i \in s |-> f[i]]
  BY <1>1
<1> HIDE DEF C, h
<1>4. SumOf(h) = GfXor(h[x], SumOf([i \in C \ {x} |-> h[i]]))
  BY <1>1, <1>2, <1>3, SumRemove
<1> QED
  BY <1>3, <1>4 DEF Over, C, h

LEMMA OverInduction ==
  ASSUME NEW D, IsFiniteSet(D), NEW U, SumLaw(D, U)
  PROVE  D \in U
<1>1. \A s \in SUBSET D : s \in U
  BY SubsetInduction, Zenon DEF SumLaw
<1> QED
  BY <1>1

LEMMA SumXor ==
  ASSUME NEW D, IsFiniteSet(D), NEW f \in [D -> Gf16], NEW g \in [D -> Gf16]
  PROVE  SumOf([i \in D |-> GfXor(f[i], g[i])]) = GfXor(SumOf(f), SumOf(g))
<1> DEFINE h == [i \in D |-> GfXor(f[i], g[i])]
           U == {s \in SUBSET D : Over(h, s) = GfXor(Over(f, s), Over(g, s))}
<1>1. h \in [D -> Gf16] /\ \A i \in D : h[i] = GfXor(f[i], g[i])
  BY FieldType
<1> HIDE DEF h
<1>2. {} \in U
  BY OverEmpty, FieldLaws, FieldType
<1>3. ASSUME NEW s \in SUBSET D, NEW x \in D, s \in U, x \notin s
      PROVE  s \cup {x} \in U
  <2>1. /\ Over(h, s \cup {x}) = GfXor(h[x], Over(h, s))
        /\ Over(f, s \cup {x}) = GfXor(f[x], Over(f, s))
        /\ Over(g, s \cup {x}) = GfXor(g[x], Over(g, s))
    BY <1>1, <1>3, OverAdd
  <2>2. /\ f[x] \in Gf16 /\ g[x] \in Gf16
        /\ Over(f, s) \in Gf16 /\ Over(g, s) \in Gf16
    BY OverType
  <2>3. Over(h, s) = GfXor(Over(f, s), Over(g, s))
    BY <1>3
  <2>4. \A a, b, c, d \in Gf16 : GfXor(GfXor(a, b), GfXor(c, d)) = GfXor(GfXor(a, c), GfXor(b, d))
    BY FourTerms
  <2>5. s \cup {x} \in SUBSET D
    OBVIOUS
  <2> QED
    BY <1>1, <2>1, <2>2, <2>3, <2>4, <2>5
<1> HIDE DEF U
<1>4. D \in U
  BY <1>2, <1>3, OverInduction DEF SumLaw
<1> QED
  BY <1>1, <1>4, OverType DEF U, h

LEMMA SumMul ==
  ASSUME NEW D, IsFiniteSet(D), NEW f \in [D -> Gf16], NEW a \in Gf16
  PROVE  SumOf([i \in D |-> GfMul(a, f[i])]) = GfMul(a, SumOf(f))
<1> DEFINE h == [i \in D |-> GfMul(a, f[i])]
           U == {s \in SUBSET D : Over(h, s) = GfMul(a, Over(f, s))}
<1>1. h \in [D -> Gf16] /\ \A i \in D : h[i] = GfMul(a, f[i])
  BY FieldType
<1> HIDE DEF h
<1>2. {} \in U
  BY OverEmpty, FieldLaws
<1>3. ASSUME NEW s \in SUBSET D, NEW x \in D, s \in U, x \notin s
      PROVE  s \cup {x} \in U
  <2>1. /\ Over(h, s \cup {x}) = GfXor(h[x], Over(h, s))
        /\ Over(f, s \cup {x}) = GfXor(f[x], Over(f, s))
    BY <1>1, <1>3, OverAdd
  <2>2. f[x] \in Gf16 /\ Over(f, s) \in Gf16
    BY OverType
  <2>3. Over(h, s) = GfMul(a, Over(f, s))
    BY <1>3
  <2>4. GfMul(a, GfXor(f[x], Over(f, s))) = GfXor(GfMul(a, f[x]), GfMul(a, Over(f, s)))
    BY <2>2, FieldLaws
  <2>5. s \cup {x} \in SUBSET D
    OBVIOUS
  <2> QED
    BY <1>1, <2>1, <2>3, <2>4, <2>5
<1> HIDE DEF U
<1>4. D \in U
  BY <1>2, <1>3, OverInduction DEF SumLaw
<1> QED
  BY <1>1, <1>4, OverType DEF U, h

\* The sum of zeros.
LEMMA SumZero ==
  ASSUME NEW D, IsFiniteSet(D)
  PROVE  SumOf([i \in D |-> 0]) = 0
<1> DEFINE f == [i \in D |-> 0]
<1>1. f \in [D -> Gf16] /\ f = [i \in D |-> GfMul(0, f[i])]
  BY FieldLaws, FieldType
<1> HIDE DEF f
<1>2. SumOf(f) = GfMul(0, SumOf(f))
  BY <1>1, FieldType, SumMul
<1>3. SumOf(f) \in Gf16
  BY <1>1, SumType
<1>4. GfMul(0, SumOf(f)) = 0
  BY <1>3, FieldLaws, FieldType
<1> QED
  BY <1>2, <1>4 DEF f

\* One entry that is not zero.
LEMMA SumOnly ==
  ASSUME NEW D, IsFiniteSet(D), NEW f \in [D -> Gf16], NEW x \in D,
         \A i \in D : i # x => f[i] = 0
  PROVE  SumOf(f) = f[x]
<1>1. SumOf(f) = GfXor(f[x], SumOf([i \in D \ {x} |-> f[i]]))
  BY SumRemove
<1>2. [i \in D \ {x} |-> f[i]] = [i \in D \ {x} |-> 0] /\ IsFiniteSet(D \ {x})
  BY FS_Subset
<1>3. SumOf([i \in D \ {x} |-> f[i]]) = 0
  BY <1>2, SumZero
<1> QED
  BY <1>1, <1>3, FieldLaws

\* A sum in two parts.
LEMMA SumSplit ==
  ASSUME NEW C, NEW D, IsFiniteSet(C), IsFiniteSet(D), C \cap D = {}, NEW f \in [C \cup D -> Gf16]
  PROVE  SumOf(f) = GfXor(Over(f, C), Over(f, D))
<1> DEFINE U == {s \in SUBSET D : Over(f, C \cup s) = GfXor(Over(f, C), Over(f, s))}
<1>1. IsFiniteSet(C \cup D)
  BY FS_Union
<1>2. \A s \in SUBSET (C \cup D) : Over(f, s) \in Gf16
  BY <1>1, OverType
<1>3. Over(f, C) \in Gf16
  BY <1>2
<1>4. {} \in U
  <2>1. C \cup {} = C
    OBVIOUS
  <2> QED
    BY <1>3, <2>1, OverEmpty, FieldLaws
<1>5. ASSUME NEW s \in SUBSET D, NEW x \in D, s \in U, x \notin s
      PROVE  s \cup {x} \in U
  <2>1. Over(f, s \cup {x}) = GfXor(f[x], Over(f, s))
    <3>1. s \in SUBSET (C \cup D) /\ x \in C \cup D
      OBVIOUS
    <3> QED
      BY <1>1, <1>5, <3>1, OverAdd
  <2>2. Over(f, (C \cup s) \cup {x}) = GfXor(f[x], Over(f, C \cup s))
    <3>1. C \cup s \in SUBSET (C \cup D) /\ x \in C \cup D /\ x \notin C \cup s
      BY <1>5
    <3> QED
      BY <1>1, <3>1, OverAdd
  <2>3. (C \cup s) \cup {x} = C \cup (s \cup {x}) /\ s \cup {x} \in SUBSET D
    OBVIOUS
  <2>4. f[x] \in Gf16 /\ Over(f, s) \in Gf16
    BY <1>2
  <2>5. Over(f, C \cup s) = GfXor(Over(f, C), Over(f, s))
    BY <1>5
  <2>6. GfXor(f[x], GfXor(Over(f, C), Over(f, s))) = GfXor(Over(f, C), GfXor(f[x], Over(f, s)))
    BY <1>3, <2>4, XorExchange
  <2> QED
    BY <2>1, <2>2, <2>3, <2>5, <2>6
<1> HIDE DEF U
<1>6. D \in U
  BY <1>4, <1>5, OverInduction DEF SumLaw
<1>7. Over(f, C \cup D) = SumOf(f)
  BY <1>1, OverType
<1> QED
  BY <1>6, <1>7 DEF U

\* Sums over two indices, in either order.
Swaps(C, D, f) ==
  SumOf([i \in C |-> SumOf([j \in D |-> f[<<i, j>>]])])
    = SumOf([j \in D |-> SumOf([i \in C |-> f[<<i, j>>]])])

LEMMA SumSwap ==
  ASSUME NEW C, NEW D, IsFiniteSet(C), IsFiniteSet(D), NEW f \in [C \X D -> Gf16]
  PROVE  Swaps(C, D, f)
<1> DEFINE row(i) == [j \in D |-> f[<<i, j>>]]
           total(s) == [j \in D |-> SumOf([i \in s |-> f[<<i, j>>]])]
           rows == [i \in C |-> SumOf(row(i))]
           U == {s \in SUBSET C : Over(rows, s) = SumOf(total(s))}
<1>1. \A i \in C : row(i) \in [D -> Gf16]
  OBVIOUS
<1>2. rows \in [C -> Gf16] /\ \A i \in C : rows[i] = SumOf(row(i))
  BY <1>1, SumType
<1>3. {} \in U
  <2>1. total({}) = [j \in D |-> 0]
    <3>1. \A j \in D : [i \in {} |-> f[<<i, j>>]] \in [{} -> Gf16]
      OBVIOUS
    <3> QED
      BY <3>1, SumEmpty
  <2> HIDE DEF total, rows
  <2> QED
    BY <2>1, OverEmpty, SumZero
<1>4. ASSUME NEW s \in SUBSET C, NEW x \in C, s \in U, x \notin s
      PROVE  s \cup {x} \in U
  <2>1. total(s) \in [D -> Gf16]
    <3>1. ASSUME NEW j \in D PROVE SumOf([i \in s |-> f[<<i, j>>]]) \in Gf16
      <4>1. IsFiniteSet(s) /\ [i \in s |-> f[<<i, j>>]] \in [s -> Gf16]
        BY FS_Subset
      <4> QED
        BY <4>1, SumType
    <3> QED
      BY <3>1
  <2>2. ASSUME NEW j \in D
        PROVE  total(s \cup {x})[j] = GfXor(row(x)[j], total(s)[j])
    <3> DEFINE column == [i \in C |-> f[<<i, j>>]]
    <3>1. column \in [C -> Gf16] /\ column[x] = row(x)[j]
      OBVIOUS
    <3>2. [i \in s |-> f[<<i, j>>]] = [i \in s |-> column[i]]
          /\ [i \in s \cup {x} |-> f[<<i, j>>]] = [i \in s \cup {x} |-> column[i]]
      OBVIOUS
    <3>3. total(s)[j] = Over(column, s) /\ total(s \cup {x})[j] = Over(column, s \cup {x})
      BY <3>2 DEF Over
    <3> HIDE DEF column, total, row
    <3>4. Over(column, s \cup {x}) = GfXor(column[x], Over(column, s))
      BY <1>4, <3>1, OverAdd
    <3> QED
      BY <3>1, <3>3, <3>4
  <2>3. total(s \cup {x}) = [j \in D |-> GfXor(row(x)[j], total(s)[j])]
    <3>1. total(s \cup {x}) = [j \in D |-> total(s \cup {x})[j]]
      OBVIOUS
    <3> HIDE DEF total, row
    <3> QED
      BY <2>2, <3>1
  <2>4. SumOf(total(s \cup {x})) = GfXor(SumOf(row(x)), SumOf(total(s)))
    <3> HIDE DEF total, row
    <3> QED
      BY <1>1, <2>1, <2>3, SumXor
  <2> HIDE DEF total, row, rows
  <2>5. Over(rows, s \cup {x}) = GfXor(rows[x], Over(rows, s))
    BY <1>2, <1>4, OverAdd
  <2> QED
    BY <1>2, <1>4, <2>4, <2>5
<1> HIDE DEF U
<1>5. C \in U
  BY <1>3, <1>4, OverInduction DEF SumLaw
<1>6. Over(rows, C) = SumOf(rows)
  <2> HIDE DEF rows
  <2> QED
    BY <1>2, OverType
<1>7. SumOf([i \in C |-> SumOf([j \in D |-> f[<<i, j>>]])])
        = SumOf([j \in D |-> SumOf([i \in C |-> f[<<i, j>>]])])
  BY <1>5, <1>6 DEF U
<1> QED
  BY <1>7 DEF Swaps

\* A sum with its entries numbered in another way.
LEMMA SumMove ==
  ASSUME NEW C, NEW D, IsFiniteSet(C), IsFiniteSet(D), NEW f \in [D -> Gf16], NEW b \in [C -> D],
         \A i, j \in C : b[i] = b[j] => i = j,
         \A d \in D : \E i \in C : b[i] = d
  PROVE  SumOf(f) = SumOf([i \in C |-> f[b[i]]])
<1> DEFINE h == [i \in C |-> f[b[i]]]
           image(s) == {b[i] : i \in s}
           U == {s \in SUBSET C : Over(f, image(s)) = Over(h, s)}
<1>1. h \in [C -> Gf16] /\ \A i \in C : h[i] = f[b[i]]
  OBVIOUS
<1> HIDE DEF h
<1>2. {} \in U
  <2>1. image({}) = {}
    OBVIOUS
  <2> QED
    BY <2>1, OverEmpty
<1>3. ASSUME NEW s \in SUBSET C, NEW x \in C, s \in U, x \notin s
      PROVE  s \cup {x} \in U
  <2>1. image(s \cup {x}) = image(s) \cup {b[x]} /\ b[x] \notin image(s) /\ image(s) \in SUBSET D
        /\ b[x] \in D /\ s \cup {x} \in SUBSET C
    BY <1>3
  <2>2. Over(f, image(s)) = Over(h, s)
    BY <1>3
  <2> HIDE DEF image
  <2>3. Over(f, image(s) \cup {b[x]}) = GfXor(f[b[x]], Over(f, image(s)))
    BY <2>1, OverAdd
  <2>4. Over(h, s \cup {x}) = GfXor(h[x], Over(h, s))
    BY <1>1, <1>3, OverAdd
  <2> QED
    BY <1>1, <2>1, <2>2, <2>3, <2>4
<1> HIDE DEF U
<1>4. C \in U
  BY <1>2, <1>3, OverInduction DEF SumLaw
<1>5. image(C) = D
  OBVIOUS
<1> QED
  BY <1>1, <1>4, <1>5, OverType DEF U, h

\* A sum over pairs, and the sum of the sums of the rows.
PairSums(C, D, f) == SumOf(f) = SumOf([i \in C |-> SumOf([j \in D |-> f[<<i, j>>]])])

LEMMA SumPairs ==
  ASSUME NEW C, NEW D, IsFiniteSet(C), IsFiniteSet(D), NEW f \in [C \X D -> Gf16]
  PROVE  PairSums(C, D, f)
<1> DEFINE row(i) == [j \in D |-> f[<<i, j>>]]
           rows == [i \in C |-> SumOf(row(i))]
           U == {s \in SUBSET C : Over(f, s \X D) = Over(rows, s)}
<1>0. IsFiniteSet(C \X D)
  BY FS_Product
<1>1. \A i \in C : row(i) \in [D -> Gf16]
  OBVIOUS
<1>2. rows \in [C -> Gf16] /\ \A i \in C : rows[i] = SumOf(row(i))
  BY <1>1, SumType
<1>3. {} \in U
  <2>1. {} \X D = {}
    OBVIOUS
  <2> HIDE DEF rows
  <2> QED
    BY <2>1, OverEmpty
<1>4. ASSUME NEW s \in SUBSET C, NEW x \in C, s \in U, x \notin s
      PROVE  s \cup {x} \in U
  <2> DEFINE old == s \X D
             new == {x} \X D
             part == [p \in old \cup new |-> f[p]]
             at == [j \in D |-> <<x, j>>]
  <2>1. old \cup new = (s \cup {x}) \X D /\ old \cap new = {} /\ old \cup new \in SUBSET (C \X D)
    BY <1>4
  <2>2. IsFiniteSet(old) /\ IsFiniteSet(new)
    <3>1. old \in SUBSET (C \X D) /\ new \in SUBSET (C \X D)
      OBVIOUS
    <3> HIDE DEF old, new
    <3> QED
      BY <1>0, <3>1, FS_Subset
  <2>3. part \in [old \cup new -> Gf16]
    BY <2>1
  <2>4. /\ [p \in old |-> part[p]] = [p \in old |-> f[p]]
        /\ [p \in new |-> part[p]] = [p \in new |-> f[p]]
    OBVIOUS
  <2>5. SumOf(part) = GfXor(Over(f, old), Over(f, new))
    <3> HIDE DEF part, old, new
    <3>1. SumOf(part) = GfXor(Over(part, old), Over(part, new))
      BY <2>1, <2>2, <2>3, SumSplit
    <3> QED
      BY <2>4, <3>1 DEF Over
  <2>6. Over(f, new) = SumOf(row(x))
    <3> DEFINE h == [p \in new |-> f[p]]
    <3>1. /\ h \in [new -> Gf16] /\ at \in [D -> new]
          /\ \A i, j \in D : at[i] = at[j] => i = j
          /\ \A p \in new : \E j \in D : at[j] = p
      OBVIOUS
    <3>2. [j \in D |-> h[at[j]]] = row(x)
      OBVIOUS
    <3>3. SumOf(h) = SumOf([j \in D |-> h[at[j]]])
      <4> HIDE DEF h, at, new
      <4> QED
        BY <2>2, <3>1, SumMove
    <3> QED
      BY <3>2, <3>3 DEF Over
  <2>7. Over(rows, s \cup {x}) = GfXor(rows[x], Over(rows, s))
    <3> HIDE DEF rows
    <3> QED
      BY <1>2, <1>4, OverAdd
  <2>8. Over(f, old) = Over(rows, s)
    BY <1>4
  <2>9. Over(f, (s \cup {x}) \X D) = SumOf(part)
    BY <2>1 DEF Over
  <2>10. Over(f, old) \in Gf16 /\ Over(f, new) \in Gf16
    <3>1. old \in SUBSET (C \X D) /\ new \in SUBSET (C \X D)
      OBVIOUS
    <3> HIDE DEF old, new
    <3> QED
      BY <1>0, <3>1, OverType
  <2> HIDE DEF old, new, part, at, row, rows
  <2>11. Over(f, (s \cup {x}) \X D) = Over(rows, s \cup {x})
    BY <1>2, <2>5, <2>6, <2>7, <2>8, <2>9, <2>10, FieldLaws
  <2> QED
    BY <2>11
<1> HIDE DEF U
<1>5. C \in U
  BY <1>3, <1>4, OverInduction DEF SumLaw
<1>6. Over(rows, C) = SumOf(rows)
  <2> HIDE DEF rows
  <2> QED
    BY <1>2, OverType
<1>7. Over(f, C \X D) = SumOf(f)
  BY <1>0, OverType
<1> QED
  BY <1>5, <1>6, <1>7 DEF U, PairSums

LEMMA IndicesFinite == \A n \in Nat : IsFiniteSet(0 .. n - 1)
  BY FS_Interval

\* The sum over a slice that is put together of two.
LEMMA SumConcat ==
  ASSUME NEW n \in Nat, NEW k \in Nat, NEW f \in SliceOf(n + k, Gf16)
  PROVE  SumOf(f) = GfXor(SumOf([i \in 0 .. n - 1 |-> f[i]]), SumOf([i \in 0 .. k - 1 |-> f[n + i]]))
<1> DEFINE C == 0 .. n - 1
           D == n .. n + k - 1
           K == 0 .. k - 1
           h == [i \in D |-> f[i]]
           b == [i \in K |-> n + i]
<1>1. C \cup D = 0 .. (n + k) - 1 /\ C \cap D = {}
  OBVIOUS
<1>2. IsFiniteSet(C) /\ IsFiniteSet(D) /\ IsFiniteSet(K)
  BY FS_Interval
<1>3. f \in [C \cup D -> Gf16]
  BY <1>1 DEF SliceOf
<1>4. SumOf(f) = GfXor(Over(f, C), Over(f, D))
  <2> HIDE DEF C, D
  <2> QED
    BY <1>1, <1>2, <1>3, SumSplit
<1>5. /\ h \in [D -> Gf16] /\ b \in [K -> D]
      /\ \A i, j \in K : b[i] = b[j] => i = j
      /\ \A d \in D : d - n \in K /\ b[d - n] = d
  BY <1>3
<1>6. [i \in K |-> h[b[i]]] = [i \in K |-> f[n + i]]
  BY <1>5
<1>7. SumOf(h) = SumOf([i \in K |-> h[b[i]]])
  <2>1. \A d \in D : \E i \in K : b[i] = d
    BY <1>5
  <2> HIDE DEF h, b, D, K
  <2> QED
    BY <1>2, <1>5, <2>1, SumMove
<1> QED
  BY <1>4, <1>6, <1>7 DEF Over

-----------------------------------------------------------------------------
(* Vectors and matrices *)

VecOf(n)    == SliceOf(n, Gf16)
MatOf(r, c) == SliceOf(r, VecOf(c))

\* The inner product over c entries, and the matrix applied to a vector.
Dot(c, u, w)      == SumOf([i \in 0 .. c - 1 |-> GfMul(u[i], w[i])])
Apply(M, r, c, w) == [i \in 0 .. r - 1 |-> Dot(c, M[i], w)]
Plus(n, u, w)     == [i \in 0 .. n - 1 |-> GfXor(u[i], w[i])]
Flip(M, r, c)     == [j \in 0 .. c - 1 |-> [i \in 0 .. r - 1 |-> M[i][j]]]

LEMMA VecEntries ==
  ASSUME NEW n \in Nat, NEW u \in VecOf(n)
  PROVE  /\ DOMAIN u = 0 .. n - 1 /\ SliceLen(u) = n
         /\ \A i \in 0 .. n - 1 : u[i] \in Gf16
  BY LenOfSlice DEF VecOf, SliceOf

LEMMA MatEntries ==
  ASSUME NEW r \in Nat, NEW c \in Nat, NEW M \in MatOf(r, c)
  PROVE  /\ DOMAIN M = 0 .. r - 1 /\ SliceLen(M) = r
         /\ \A i \in 0 .. r - 1 : M[i] \in VecOf(c)
         /\ \A i \in 0 .. r - 1, j \in 0 .. c - 1 : M[i][j] \in Gf16
<1>1. SliceLen(M) = r
  BY LenOfSlice DEF MatOf
<1> QED
  BY <1>1 DEF MatOf, VecOf, SliceOf

LEMMA ProductsType ==
  ASSUME NEW n \in Nat, NEW u \in VecOf(n), NEW w \in VecOf(n)
  PROVE  [i \in 0 .. n - 1 |-> GfMul(u[i], w[i])] \in [0 .. n - 1 -> Gf16]
  BY VecEntries, FieldType

LEMMA DotType ==
  ASSUME NEW n \in Nat, NEW u \in VecOf(n), NEW w \in VecOf(n)
  PROVE  Dot(n, u, w) \in Gf16
  BY ProductsType, IndicesFinite, SumType DEF Dot

LEMMA PlusType ==
  ASSUME NEW n \in Nat, NEW u \in VecOf(n), NEW w \in VecOf(n)
  PROVE  Plus(n, u, w) \in VecOf(n)
<1>1. \A i \in 0 .. n - 1 : GfXor(u[i], w[i]) \in Gf16
  BY VecEntries, FieldType
<1> QED
  BY <1>1 DEF Plus, VecOf, SliceOf

LEMMA ApplyType ==
  ASSUME NEW r \in Nat, NEW c \in Nat, NEW M \in MatOf(r, c), NEW w \in VecOf(c)
  PROVE  Apply(M, r, c, w) \in VecOf(r)
<1>1. \A i \in 0 .. r - 1 : Dot(c, M[i], w) \in Gf16
  BY MatEntries, DotType
<1> QED
  BY <1>1 DEF Apply, VecOf, SliceOf

LEMMA FlipType ==
  ASSUME NEW r \in Nat, NEW c \in Nat, NEW M \in MatOf(r, c)
  PROVE  Flip(M, r, c) \in MatOf(c, r)
<1>1. \A i \in 0 .. r - 1, j \in 0 .. c - 1 : M[i][j] \in Gf16
  BY MatEntries
<1> QED
  BY <1>1 DEF Flip, MatOf, VecOf, SliceOf

LEMMA DotSwap ==
  ASSUME NEW n \in Nat, NEW u \in VecOf(n), NEW w \in VecOf(n)
  PROVE  Dot(n, u, w) = Dot(n, w, u)
<1>1. \A i \in 0 .. n - 1 : GfMul(u[i], w[i]) = GfMul(w[i], u[i])
  BY VecEntries, FieldLaws
<1>2. [i \in 0 .. n - 1 |-> GfMul(u[i], w[i])] = [i \in 0 .. n - 1 |-> GfMul(w[i], u[i])]
  BY <1>1
<1> QED
  BY <1>2 DEF Dot

LEMMA DotPlus ==
  ASSUME NEW n \in Nat, NEW u \in VecOf(n), NEW w \in VecOf(n), NEW x \in VecOf(n)
  PROVE  /\ Dot(n, u, Plus(n, w, x)) = GfXor(Dot(n, u, w), Dot(n, u, x))
         /\ Dot(n, Plus(n, w, x), u) = GfXor(Dot(n, w, u), Dot(n, x, u))
<1> DEFINE f == [i \in 0 .. n - 1 |-> GfMul(u[i], w[i])]
           g == [i \in 0 .. n - 1 |-> GfMul(u[i], x[i])]
<1>1. f \in [0 .. n - 1 -> Gf16] /\ g \in [0 .. n - 1 -> Gf16]
  BY ProductsType
<1>2. ASSUME NEW i \in 0 .. n - 1
      PROVE  GfMul(u[i], Plus(n, w, x)[i]) = GfXor(f[i], g[i])
  <2>1. u[i] \in Gf16 /\ w[i] \in Gf16 /\ x[i] \in Gf16
    BY VecEntries
  <2>2. GfMul(u[i], GfXor(w[i], x[i])) = GfXor(GfMul(u[i], w[i]), GfMul(u[i], x[i]))
    BY <2>1, Distribute
  <2> QED
    BY <2>2 DEF Plus
<1>3. [i \in 0 .. n - 1 |-> GfMul(u[i], Plus(n, w, x)[i])] = [i \in 0 .. n - 1 |-> GfXor(f[i], g[i])]
  <2> HIDE DEF f, g
  <2> QED
    BY <1>2
<1>4. Dot(n, u, w) = SumOf(f) /\ Dot(n, u, x) = SumOf(g)
  BY DEF Dot
<1>5. Dot(n, u, Plus(n, w, x)) = GfXor(Dot(n, u, w), Dot(n, u, x))
  <2> HIDE DEF f, g
  <2>1. SumOf([i \in 0 .. n - 1 |-> GfXor(f[i], g[i])]) = GfXor(SumOf(f), SumOf(g))
    BY <1>1, IndicesFinite, SumXor
  <2> QED
    BY <1>3, <1>4, <2>1 DEF Dot
<1>6. /\ Dot(n, Plus(n, w, x), u) = Dot(n, u, Plus(n, w, x))
      /\ Dot(n, w, u) = Dot(n, u, w) /\ Dot(n, x, u) = Dot(n, u, x)
  BY PlusType, DotSwap
<1> QED
  BY <1>5, <1>6

LEMMA ApplyPlus ==
  ASSUME NEW r \in Nat, NEW c \in Nat, NEW M \in MatOf(r, c), NEW u \in VecOf(c), NEW w \in VecOf(c)
  PROVE  Apply(M, r, c, Plus(c, u, w)) = Plus(r, Apply(M, r, c, u), Apply(M, r, c, w))
<1>1. \A i \in 0 .. r - 1 : Dot(c, M[i], Plus(c, u, w)) = GfXor(Dot(c, M[i], u), Dot(c, M[i], w))
  BY MatEntries, DotPlus
<1> QED
  BY <1>1 DEF Apply, Plus

\* A matrix moves to the other side of an inner product as its transpose.
LEMMA Adjoint ==
  ASSUME NEW r \in Nat, NEW c \in Nat, NEW M \in MatOf(r, c), NEW u \in VecOf(r), NEW w \in VecOf(c)
  PROVE  Dot(r, u, Apply(M, r, c, w)) = Dot(c, Apply(Flip(M, r, c), c, r, u), w)
<1> DEFINE I == 0 .. r - 1
           J == 0 .. c - 1
           f == [p \in I \X J |-> GfMul(u[p[1]], GfMul(M[p[1]][p[2]], w[p[2]]))]
<1>1. /\ \A i \in I : u[i] \in Gf16
      /\ \A j \in J : w[j] \in Gf16
      /\ \A i \in I, j \in J : M[i][j] \in Gf16
  BY VecEntries, MatEntries
<1>2. f \in [I \X J -> Gf16] /\ IsFiniteSet(I) /\ IsFiniteSet(J)
  BY <1>1, FieldType, IndicesFinite
<1>3. \A i \in I, j \in J : f[<<i, j>>] = GfMul(u[i], GfMul(M[i][j], w[j]))
  OBVIOUS
<1> HIDE DEF f
<1>4. ASSUME NEW i \in I
      PROVE  GfMul(u[i], Apply(M, r, c, w)[i]) = SumOf([j \in J |-> f[<<i, j>>]])
  <2> DEFINE h == [j \in J |-> GfMul(M[i][j], w[j])]
  <2>1. h \in [J -> Gf16]
    BY <1>1, FieldType
  <2>2. Apply(M, r, c, w)[i] = SumOf(h)
    BY DEF Apply, Dot
  <2>3. [j \in J |-> f[<<i, j>>]] = [j \in J |-> GfMul(u[i], h[j])]
    BY <1>3
  <2> HIDE DEF h, I, J
  <2>4. SumOf([j \in J |-> GfMul(u[i], h[j])]) = GfMul(u[i], SumOf(h))
    BY <1>1, <1>2, <2>1, SumMul
  <2> QED
    BY <2>2, <2>3, <2>4
<1>5. ASSUME NEW j \in J
      PROVE  GfMul(Apply(Flip(M, r, c), c, r, u)[j], w[j]) = SumOf([i \in I |-> f[<<i, j>>]])
  <2> DEFINE h == [i \in I |-> GfMul(M[i][j], u[i])]
  <2>1. h \in [I -> Gf16]
    BY <1>1, FieldType
  <2>2. Apply(Flip(M, r, c), c, r, u)[j] = SumOf(h)
    <3>1. [i \in I |-> GfMul(Flip(M, r, c)[j][i], u[i])] = h
      BY DEF Flip
    <3> HIDE DEF h
    <3> QED
      BY <3>1 DEF Apply, Dot
  <2>3. \A i \in I : f[<<i, j>>] = GfMul(w[j], h[i])
    <3> SUFFICES ASSUME NEW i \in I PROVE f[<<i, j>>] = GfMul(w[j], h[i])
      OBVIOUS
    <3> DEFINE a == u[i]
               b == M[i][j]
               d == w[j]
    <3>1. a \in Gf16 /\ b \in Gf16 /\ d \in Gf16
      BY <1>1
    <3>2. f[<<i, j>>] = GfMul(a, GfMul(b, d)) /\ h[i] = GfMul(b, a)
      BY <1>3
    <3> HIDE DEF a, b, d, h
    <3>3. GfMul(a, GfMul(b, d)) = GfMul(GfMul(a, b), d)
      BY <3>1, MulAssoc
    <3>4. GfMul(GfMul(a, b), d) = GfMul(d, GfMul(b, a))
      BY <3>1, MulComm, FieldType
    <3> QED
      BY <3>2, <3>3, <3>4 DEF d
  <2>4. [i \in I |-> f[<<i, j>>]] = [i \in I |-> GfMul(w[j], h[i])]
    <3> HIDE DEF h
    <3> QED
      BY <2>3
  <2>5. SumOf([i \in I |-> GfMul(w[j], h[i])]) = GfMul(w[j], SumOf(h))
    <3> HIDE DEF h, I, J
    <3> QED
      BY <1>1, <1>2, <2>1, SumMul
  <2>6. GfMul(SumOf(h), w[j]) = GfMul(w[j], SumOf(h))
    <3>1. SumOf(h) \in Gf16
      <4> HIDE DEF h, I, J
      <4> QED
        BY <1>2, <2>1, SumType
    <3> HIDE DEF h
    <3> QED
      BY <1>1, <3>1, FieldLaws
  <2> QED
    BY <2>2, <2>4, <2>5, <2>6
<1>6. Dot(r, u, Apply(M, r, c, w)) = SumOf([i \in I |-> SumOf([j \in J |-> f[<<i, j>>]])])
  <2>1. [i \in I |-> GfMul(u[i], Apply(M, r, c, w)[i])] = [i \in I |-> SumOf([j \in J |-> f[<<i, j>>]])]
    BY <1>4
  <2> QED
    BY <2>1 DEF Dot
<1>7. Dot(c, Apply(Flip(M, r, c), c, r, u), w) = SumOf([j \in J |-> SumOf([i \in I |-> f[<<i, j>>]])])
  <2>1. [j \in J |-> GfMul(Apply(Flip(M, r, c), c, r, u)[j], w[j])]
          = [j \in J |-> SumOf([i \in I |-> f[<<i, j>>]])]
    BY <1>5
  <2> QED
    BY <2>1 DEF Dot
<1> HIDE DEF I, J
<1>8. SumOf([i \in I |-> SumOf([j \in J |-> f[<<i, j>>]])])
        = SumOf([j \in J |-> SumOf([i \in I |-> f[<<i, j>>]])])
  <2>1. Swaps(I, J, f)
    BY <1>2, SumSwap
  <2> QED
    BY <2>1 DEF Swaps
<1> QED
  BY <1>6, <1>7, <1>8, Zenon

\* The product of two matrices, row by row.
Times(M, N, a, r, c) == [i \in 0 .. a - 1 |-> Apply(Flip(N, r, c), c, r, M[i])]

LEMMA TimesType ==
  ASSUME NEW a \in Nat, NEW r \in Nat, NEW c \in Nat, NEW M \in MatOf(a, r), NEW N \in MatOf(r, c)
  PROVE  Times(M, N, a, r, c) \in MatOf(a, c)
<1>1. \A i \in 0 .. a - 1 : Apply(Flip(N, r, c), c, r, M[i]) \in VecOf(c)
  BY MatEntries, FlipType, ApplyType
<1> QED
  BY <1>1 DEF Times, MatOf, SliceOf

LEMMA ApplyTwice ==
  ASSUME NEW a \in Nat, NEW r \in Nat, NEW c \in Nat, NEW M \in MatOf(a, r), NEW N \in MatOf(r, c),
         NEW w \in VecOf(c)
  PROVE  Apply(Times(M, N, a, r, c), a, c, w) = Apply(M, a, r, Apply(N, r, c, w))
<1>1. \A i \in 0 .. a - 1 :
        Dot(c, Apply(Flip(N, r, c), c, r, M[i]), w) = Dot(r, M[i], Apply(N, r, c, w))
  BY MatEntries, Adjoint
<1> QED
  BY <1>1 DEF Times, Apply

\* The sum of two matrices.
PlusAll(M, N, r, c) == [i \in 0 .. r - 1 |-> Plus(c, M[i], N[i])]

LEMMA PlusAllType ==
  ASSUME NEW r \in Nat, NEW c \in Nat, NEW M \in MatOf(r, c), NEW N \in MatOf(r, c)
  PROVE  PlusAll(M, N, r, c) \in MatOf(r, c)
<1>1. \A i \in 0 .. r - 1 : Plus(c, M[i], N[i]) \in VecOf(c)
  BY MatEntries, PlusType
<1> QED
  BY <1>1 DEF PlusAll, MatOf, SliceOf

LEMMA ApplyPlusAll ==
  ASSUME NEW r \in Nat, NEW c \in Nat, NEW M \in MatOf(r, c), NEW N \in MatOf(r, c), NEW w \in VecOf(c)
  PROVE  Apply(PlusAll(M, N, r, c), r, c, w) = Plus(r, Apply(M, r, c, w), Apply(N, r, c, w))
<1>1. \A i \in 0 .. r - 1 : Dot(c, Plus(c, M[i], N[i]), w) = GfXor(Dot(c, M[i], w), Dot(c, N[i], w))
  BY MatEntries, DotPlus
<1> QED
  BY <1>1 DEF PlusAll, Apply, Plus

-----------------------------------------------------------------------------
(* The operations of the code are these, where the lengths fit *)

LEMMA AddVecIs ==
  ASSUME NEW n \in Nat, NEW u \in VecOf(n), NEW w \in VecOf(n)
  PROVE  AddVec(u, w) = Plus(n, u, w)
<1>1. SliceLen(u) = SliceLen(w) /\ DOMAIN u = 0 .. n - 1
  BY VecEntries
<1> QED
  BY <1>1 DEF AddVec, Plus

LEMMA AddMatricesIs ==
  ASSUME NEW r \in Nat, NEW c \in Nat, NEW M \in MatOf(r, c), NEW N \in MatOf(r, c)
  PROVE  AddMatrices(M, N) = PlusAll(M, N, r, c)
<1>1. SliceLen(M) = SliceLen(N) /\ DOMAIN M = 0 .. r - 1
  BY MatEntries
<1>2. AddMatrices(M, N) = [i \in 0 .. r - 1 |-> AddVec(M[i], N[i])]
  BY <1>1 DEF AddMatrices
<1>3. \A i \in 0 .. r - 1 : AddVec(M[i], N[i]) = Plus(c, M[i], N[i])
  BY MatEntries, AddVecIs
<1> QED
  BY <1>2, <1>3 DEF PlusAll

LEMMA InnerIs ==
  ASSUME NEW n \in Nat, NEW u \in VecOf(n), NEW w \in VecOf(n)
  PROVE  VecInnerProduct(u, w) = Dot(n, u, w)
<1>1. SliceLen(u) = SliceLen(w) /\ DOMAIN u = 0 .. n - 1
  BY VecEntries
<1> QED
  BY <1>1 DEF VecInnerProduct, Dot

LEMMA MatVecIs ==
  ASSUME NEW r \in Nat \ {0}, NEW c \in Nat, NEW M \in MatOf(r, c), NEW w \in VecOf(c)
  PROVE  MatrixVectorMul(M, w) = Apply(M, r, c, w)
<1>1. /\ SliceLen(M) # 0 /\ DOMAIN M = 0 .. r - 1 /\ DOMAIN w = 0 .. c - 1
      /\ SliceLen(w) = SliceLen(M[0])
  <2>1. M[0] \in VecOf(c)
    BY MatEntries
  <2> QED
    BY <2>1, MatEntries, VecEntries
<1>2. MatrixVectorMul(M, w) = [i \in 0 .. r - 1 |-> Dot(c, w, M[i])]
  BY <1>1 DEF MatrixVectorMul, Dot
<1>3. \A i \in 0 .. r - 1 : Dot(c, w, M[i]) = Dot(c, M[i], w)
  BY MatEntries, DotSwap
<1> QED
  BY <1>2, <1>3 DEF Apply

LEMMA VecMatIs ==
  ASSUME NEW r \in Nat \ {0}, NEW c \in Nat, NEW M \in MatOf(r, c), NEW u \in VecOf(r)
  PROVE  VectorTransposedMatrixMul(u, M) = Apply(Flip(M, r, c), c, r, u)
<1>1. /\ SliceLen(M) # 0 /\ DOMAIN u = 0 .. r - 1
      /\ SliceLen(u) = SliceLen(M) /\ DOMAIN M[0] = 0 .. c - 1
  <2>1. M[0] \in VecOf(c)
    BY MatEntries
  <2> QED
    BY <2>1, MatEntries, VecEntries
<1>2. VectorTransposedMatrixMul(u, M)
        = [i \in 0 .. c - 1 |-> SumOf([j \in 0 .. r - 1 |-> GfMul(u[j], M[j][i])])]
  BY <1>1 DEF VectorTransposedMatrixMul
<1>3. ASSUME NEW i \in 0 .. c - 1
      PROVE  SumOf([j \in 0 .. r - 1 |-> GfMul(u[j], M[j][i])]) = Dot(r, Flip(M, r, c)[i], u)
  <2>1. [j \in 0 .. r - 1 |-> GfMul(u[j], M[j][i])] = [j \in 0 .. r - 1 |-> GfMul(u[j], Flip(M, r, c)[i][j])]
    BY DEF Flip
  <2>2. Flip(M, r, c)[i] \in VecOf(r)
    BY FlipType, MatEntries
  <2>3. SumOf([j \in 0 .. r - 1 |-> GfMul(u[j], M[j][i])]) = Dot(r, u, Flip(M, r, c)[i])
    BY <2>1 DEF Dot
  <2>4. Dot(r, u, Flip(M, r, c)[i]) = Dot(r, Flip(M, r, c)[i], u)
    BY <2>2, DotSwap
  <2> QED
    BY <2>3, <2>4
<1> QED
  BY <1>2, <1>3 DEF Apply

LEMMA TransposeIs ==
  ASSUME NEW r \in Nat \ {0}, NEW c \in Nat, NEW M \in MatOf(r, c)
  PROVE  transposeMatrix(M) = Flip(M, r, c)
<1>1. M[0] \in VecOf(c)
  BY MatEntries
<1>2. DOMAIN M = 0 .. r - 1 /\ DOMAIN M[0] = 0 .. c - 1
  BY <1>1, MatEntries, VecEntries
<1> QED
  BY <1>2 DEF transposeMatrix, Flip

LEMMA MultiplyIs ==
  ASSUME NEW a \in Nat \ {0}, NEW r \in Nat \ {0}, NEW c \in Nat,
         NEW M \in MatOf(a, r), NEW N \in MatOf(r, c)
  PROVE  MultiplyMatrices(M, N) = Times(M, N, a, r, c)
<1>1. /\ SliceLen(M[0]) = SliceLen(N) /\ DOMAIN M = 0 .. a - 1 /\ DOMAIN N = 0 .. r - 1
      /\ DOMAIN N[0] = 0 .. c - 1
  <2>1. M[0] \in VecOf(r) /\ N[0] \in VecOf(c)
    BY MatEntries
  <2> QED
    BY <2>1, MatEntries, VecEntries
<1>2. MultiplyMatrices(M, N) =
        [i \in 0 .. a - 1 |-> [j \in 0 .. c - 1 |->
           SumOf([k \in 0 .. r - 1 |-> GfMul(M[i][k], N[k][j])])]]
  BY <1>1 DEF MultiplyMatrices
<1>3. ASSUME NEW i \in 0 .. a - 1, NEW j \in 0 .. c - 1
      PROVE  SumOf([k \in 0 .. r - 1 |-> GfMul(M[i][k], N[k][j])]) = Dot(r, Flip(N, r, c)[j], M[i])
  <2>1. [k \in 0 .. r - 1 |-> GfMul(M[i][k], N[k][j])]
          = [k \in 0 .. r - 1 |-> GfMul(M[i][k], Flip(N, r, c)[j][k])]
    BY DEF Flip
  <2>2. Flip(N, r, c)[j] \in VecOf(r) /\ M[i] \in VecOf(r)
    BY FlipType, MatEntries
  <2>3. SumOf([k \in 0 .. r - 1 |-> GfMul(M[i][k], N[k][j])]) = Dot(r, M[i], Flip(N, r, c)[j])
    BY <2>1 DEF Dot
  <2>4. Dot(r, M[i], Flip(N, r, c)[j]) = Dot(r, Flip(N, r, c)[j], M[i])
    BY <2>2, DotSwap
  <2> QED
    BY <2>3, <2>4
<1> QED
  BY <1>2, <1>3 DEF Times, Apply

-----------------------------------------------------------------------------
(* Packed vectors *)

\* The byte at position p of an encoded vector.
LEMMA EncodedByte ==
  ASSUME NEW n \in Nat, NEW x \in SliceOf(n, Nibble), NEW p \in 0 .. ((n + 1) \div 2) - 1
  PROVE  encodeVec(x)[p] = IF 2 * p + 1 < n THEN (x[2 * p + 1] * 16) + x[2 * p] ELSE x[2 * p]
<1>1. SliceLen(x) = n
  BY LenOfSlice
<1>2. encodeVec(x)[p] =
        IF 2 * p + 1 < n THEN ((x[2 * p + 1] * 16) % 256) + (x[2 * p] % 16) ELSE x[2 * p]
  BY <1>1 DEF encodeVec
<1>3. CASE 2 * p + 1 < n
  <2>1. x[2 * p] \in Nibble /\ x[2 * p + 1] \in Nibble
    BY <1>3 DEF SliceOf
  <2>2. (x[2 * p + 1] * 16) % 256 = x[2 * p + 1] * 16
    BY <2>1 DEF Nibble
  <2>3. x[2 * p] % 16 = x[2 * p]
    BY <2>1 DEF Nibble
  <2> QED
    BY <1>2, <1>3, <2>2, <2>3
<1>4. CASE ~(2 * p + 1 < n)
  BY <1>2, <1>4
<1> QED
  BY <1>3, <1>4

\* A byte made of two nibbles gives them back.
LEMMA Nibbles ==
  ASSUME NEW a \in Nibble, NEW b \in Nibble
  PROVE  ((a * 16) + b) % 16 = b /\ ((a * 16) + b) \div 16 = a /\ b % 16 = b
BY DEF Nibble

\* decodeVec undoes encodeVec for vectors of nibbles of every length, even or
\* odd: the half-empty last byte of an odd vector is read as it was written.
THEOREM DecodeEncodeVec ==
  ASSUME NEW n \in Nat, NEW x \in SliceOf(n, Nibble)
  PROVE  decodeVec(n, encodeVec(x)) = x
<1> DEFINE d == decodeVec(n, encodeVec(x))
<1>1. DOMAIN d = 0 .. n - 1 /\ DOMAIN x = 0 .. n - 1 /\ d = [i \in 0 .. n - 1 |-> d[i]]
  BY DEF decodeVec, SliceOf
<1>2. ASSUME NEW i \in 0 .. n - 1 PROVE d[i] = x[i]
  <2> DEFINE p == i \div 2
  <2>1. /\ p \in 0 .. ((n + 1) \div 2) - 1
        /\ i % 2 = 0 => 2 * p = i
        /\ i % 2 # 0 => 2 * p + 1 = i /\ 2 * p \in 0 .. n - 1
    OBVIOUS
  <2>2. d[i] = IF i % 2 = 0 THEN encodeVec(x)[p] % 16 ELSE encodeVec(x)[p] \div 16
    BY DEF decodeVec
  <2>3. encodeVec(x)[p] = IF 2 * p + 1 < n THEN (x[2 * p + 1] * 16) + x[2 * p] ELSE x[2 * p]
    BY <2>1, EncodedByte
  <2>4. \A l \in 0 .. n - 1 : x[l] \in Nibble
    BY DEF SliceOf
  <2> HIDE DEF p, d
  <2>5. CASE i % 2 = 0 /\ 2 * p + 1 < n
    <3>1. x[2 * p + 1] \in Nibble /\ x[2 * p] \in Nibble
      BY <2>1, <2>4, <2>5
    <3> QED
      BY <2>1, <2>2, <2>3, <2>5, <3>1, Nibbles
  <2>6. CASE i % 2 = 0 /\ ~(2 * p + 1 < n)
    <3>1. x[2 * p] \in Nibble
      BY <2>1, <2>4, <2>6
    <3> QED
      BY <2>1, <2>2, <2>3, <2>6, <3>1, Nibbles
  <2>7. CASE i % 2 # 0
    <3>1. x[2 * p + 1] \in Nibble /\ x[2 * p] \in Nibble
      BY <2>1, <2>4, <2>7
    <3> QED
      BY <2>1, <2>2, <2>3, <2>7, <3>1, Nibbles
  <2> QED
    BY <2>5, <2>6, <2>7
<1> HIDE DEF d
<1>3. d = [i \in 0 .. n - 1 |-> d[i]] /\ x = [i \in 0 .. n - 1 |-> x[i]]
  BY <1>1 DEF SliceOf
<1>4. d = x
  BY <1>2, <1>3
<1> QED
  BY <1>4 DEF d

-----------------------------------------------------------------------------
(* The positions of a matrix *)

\* The loops come to q before p.
Sooner(q, p) == q[1] < p[1] \/ (q[1] = p[1] /\ q[2] < p[2])

LEMMA PositionsFinite ==
  ASSUME NEW r \in Nat, NEW c \in Nat, NEW T
  PROVE  /\ IsFiniteSet(Positions(r, c, T))
         /\ Cardinality(Positions(r, c, T)) \in Nat
         /\ Positions(r, c, T) \subseteq (0 .. r - 1) \X (0 .. c - 1)
<1>1. IsFiniteSet(0 .. r - 1) /\ IsFiniteSet(0 .. c - 1)
  BY FS_Interval
<1>2. IsFiniteSet((0 .. r - 1) \X (0 .. c - 1))
  BY <1>1, FS_Product
<1>3. Positions(r, c, T) \subseteq (0 .. r - 1) \X (0 .. c - 1)
  BY DEF Positions
<1> QED
  BY <1>2, <1>3, FS_Subset, FS_CardinalityType

\* A position has its own number among the positions.
LEMMA RankOwn ==
  ASSUME NEW r \in Nat, NEW c \in Nat, NEW T, NEW p \in Positions(r, c, T)
  PROVE  /\ Rank(p, r, c, T) \in 0 .. Cardinality(Positions(r, c, T)) - 1
         /\ \A q \in Positions(r, c, T) : Rank(q, r, c, T) = Rank(p, r, c, T) => q = p
<1> DEFINE V == Positions(r, c, T)
           Before(q) == {s \in V : Sooner(s, q)}
<1>1. IsFiniteSet(V) /\ Cardinality(V) \in Nat /\ V \subseteq (0 .. r - 1) \X (0 .. c - 1)
  BY PositionsFinite
<1>2. \A q : Rank(q, r, c, T) = Cardinality(Before(q))
  BY Zenon DEF Rank, Sooner
<1>3. \A q \in V : q[1] \in Int /\ q[2] \in Int /\ q = <<q[1], q[2]>>
  BY <1>1
<1>4. p \in V
  OBVIOUS
<1> HIDE DEF V
<1>5. ASSUME NEW q \in V
      PROVE  IsFiniteSet(Before(q)) /\ Cardinality(Before(q)) < Cardinality(V)
                /\ Cardinality(Before(q)) \in Nat
  <2>1. Before(q) \subseteq V /\ q \notin Before(q)
    BY <1>3 DEF Sooner
  <2>2. Before(q) # V
    BY <2>1
  <2> HIDE DEF Before
  <2> QED
    BY <1>1, <2>1, <2>2, FS_Subset, FS_CardinalityType
<1>6. ASSUME NEW q \in V, NEW s \in V, Sooner(q, s)
      PROVE  Cardinality(Before(q)) < Cardinality(Before(s))
  <2>1. \A u \in V : Sooner(u, q) => Sooner(u, s)
    BY <1>3, <1>6 DEF Sooner
  <2>2. Before(q) \subseteq Before(s)
    BY <2>1
  <2>3. q \in Before(s) /\ q \notin Before(q)
    BY <1>3, <1>6 DEF Sooner
  <2>4. IsFiniteSet(Before(s)) /\ IsFiniteSet(Before(q))
    BY <1>5
  <2> HIDE DEF Before
  <2> QED
    BY <2>2, <2>3, <2>4, FS_Subset, FS_CardinalityType
<1>7. ASSUME NEW q \in V, q # p
      PROVE  Cardinality(Before(q)) # Cardinality(Before(p))
  <2>1. q[1] \in Int /\ q[2] \in Int /\ q = <<q[1], q[2]>>
    BY <1>3
  <2>2. p[1] \in Int /\ p[2] \in Int /\ p = <<p[1], p[2]>>
    BY <1>3, <1>4
  <2>3. q[1] # p[1] \/ q[2] # p[2]
    BY <1>7, <2>1, <2>2
  <2>4. Sooner(q, p) \/ Sooner(p, q)
    BY <2>1, <2>2, <2>3 DEF Sooner
  <2>5. Cardinality(Before(q)) \in Nat /\ Cardinality(Before(p)) \in Nat
    BY <1>4, <1>5
  <2> HIDE DEF Before
  <2> QED
    BY <1>4, <1>6, <2>4, <2>5
<1>8. Cardinality(Before(p)) \in 0 .. Cardinality(V) - 1
  <2>1. Cardinality(Before(p)) < Cardinality(V) /\ Cardinality(Before(p)) \in Nat
    BY <1>4, <1>5
  <2> HIDE DEF Before
  <2> QED
    BY <1>1, <2>1
<1> HIDE DEF Before
<1> QED
  BY <1>2, <1>7, <1>8 DEF V

-----------------------------------------------------------------------------
(* Lists of matrices *)

\* As decodeMatrices is called for them: r by c matrices of nibbles, an even
\* number of them.
IsList(m, r, c, matrices) ==
  /\ m \in Nat /\ r \in Nat /\ c \in Nat /\ m % 2 = 0
  /\ matrices \in SliceOf(m, SliceOf(r, SliceOf(c, Nibble)))

ZeroBelow(m, r, c, matrices) ==
  \A k \in 0 .. m - 1, i \in 0 .. r - 1, j \in 0 .. c - 1 : i > j => matrices[k][i][j] = 0

\* The m elements of a position.
Elements(m, matrices, p) == [k \in 0 .. m - 1 |-> matrices[k][p[1]][p[2]]]

LEMMA ElementsType ==
  ASSUME NEW m, NEW r, NEW c, NEW matrices, IsList(m, r, c, matrices),
         NEW p \in (0 .. r - 1) \X (0 .. c - 1)
  PROVE  Elements(m, matrices, p) \in SliceOf(m, Nibble)
<1>1. p[1] \in 0 .. r - 1 /\ p[2] \in 0 .. c - 1
  OBVIOUS
<1>2. \A k \in 0 .. m - 1 : matrices[k][p[1]][p[2]] \in Nibble
  BY <1>1 DEF IsList, SliceOf
<1> QED
  BY <1>2 DEF Elements, SliceOf

\* The blocks of an even number of nibbles fill whole bytes.
LEMMA HalfOfEven ==
  ASSUME NEW m \in Nat, m % 2 = 0
  PROVE  m \div 2 \in Nat /\ (m + 1) \div 2 = m \div 2 /\ 2 * (m \div 2) = m
  OBVIOUS

\* A block of bytes is found where its number puts it.
LEMMA InBlock ==
  ASSUME NEW w \in Nat, NEW n \in Nat, NEW x \in 0 .. n - 1, NEW i \in 0 .. w - 1
  PROVE  /\ (x * w) + i \in 0 .. (n * w) - 1
         /\ ((x * w) + i) \div w = x
         /\ ((x * w) + i) % w = i
<1>1. PICK d \in Nat : n = x + 1 + d
  <2>1. n - x - 1 \in Nat /\ n = x + 1 + (n - x - 1)
    OBVIOUS
  <2> QED
    BY <2>1
<1>2. n * w = (x * w) + w + (d * w)
  BY <1>1
<1>3. x * w \in Nat /\ d * w \in Nat
  BY <1>1
<1>4. (x * w) + i \in 0 .. (n * w) - 1
  <2> DEFINE a == x * w
             b == d * w
             e == n * w
  <2>1. a \in Nat /\ b \in Nat /\ e = a + w + b
    BY <1>2, <1>3
  <2> HIDE DEF a, b, e
  <2>2. a + i \in 0 .. e - 1
    BY <2>1
  <2> QED
    BY <2>2 DEF a, e
<1>5. /\ ((x * w) + i) \div w = x
      /\ ((x * w) + i) % w = i
  OBVIOUS
<1> QED
  BY <1>4, <1>5

\* What encodeMatrices writes for a position.
LEMMA PackedBlock ==
  ASSUME NEW m, NEW r, NEW c, NEW matrices, NEW T \in BOOLEAN, IsList(m, r, c, matrices),
         NEW p \in Positions(r, c, T)
  PROVE  LET w  == m \div 2
             at == Rank(p, r, c, T) * w
         IN Slice(encodeMatrices(r, c, matrices, T), at, at + w)
              = encodeVec(Elements(m, matrices, p))
<1> DEFINE w == (SliceLen(matrices) + 1) \div 2
           V == Positions(r, c, T)
           N == Cardinality(V)
           x == Rank(p, r, c, T)
           vecs == [q \in V |-> encodeVec(Elements(SliceLen(matrices), matrices, q))]
           at == [n \in 0 .. N - 1 |-> CHOOSE q \in V : Rank(q, r, c, T) = n]
           packedList == encodeMatrices(r, c, matrices, T)
<1>1. /\ m \in Nat /\ r \in Nat /\ c \in Nat /\ m % 2 = 0 /\ SliceLen(matrices) = m
      /\ w \in Nat /\ m \div 2 = w
  <2>1. m \in Nat /\ r \in Nat /\ c \in Nat /\ m % 2 = 0
    BY DEF IsList
  <2>2. SliceLen(matrices) = m
    BY LenOfSlice DEF IsList
  <2> QED
    BY <2>1, <2>2, HalfOfEven
<1>2. packedList = [b \in 0 .. (N * w) - 1 |-> vecs[at[b \div w]][b % w]]
  BY Zenon DEF encodeMatrices, Elements
<1>3. N \in Nat /\ V \subseteq (0 .. r - 1) \X (0 .. c - 1)
  BY <1>1, PositionsFinite
<1>4. x \in 0 .. N - 1 /\ \A q \in V : Rank(q, r, c, T) = x => q = p
  BY <1>1, RankOwn
<1>5. at[x] = p
  BY <1>4
<1>6. vecs[p] = encodeVec(Elements(m, matrices, p))
  BY <1>1
<1>7. Elements(m, matrices, p) \in SliceOf(m, Nibble)
  BY <1>3, ElementsType
<1>8. SliceLen(Elements(m, matrices, p)) = m
  BY <1>1, <1>7, LenOfSlice
<1> DEFINE block == encodeVec(Elements(m, matrices, p))
<1>9. block = [i \in 0 .. w - 1 |-> block[i]]
  <2>1. block = [i \in 0 .. ((SliceLen(Elements(m, matrices, p)) + 1) \div 2) - 1 |-> block[i]]
    BY DEF encodeVec
  <2> QED
    BY <1>1, <1>8, <2>1
<1> HIDE DEF w, x, N, at, vecs, packedList, V, block
<1>10. ASSUME NEW i \in 0 .. w - 1
       PROVE  packedList[(x * w) + i] = block[i]
  <2>1. /\ (x * w) + i \in 0 .. (N * w) - 1
        /\ ((x * w) + i) \div w = x
        /\ ((x * w) + i) % w = i
    BY <1>1, <1>3, <1>4, InBlock
  <2>2. packedList[(x * w) + i] = vecs[at[((x * w) + i) \div w]][((x * w) + i) % w]
    BY <1>2, <2>1, Zenon
  <2>3. vecs[p] = block
    BY <1>6 DEF block
  <2> QED
    BY <1>5, <2>1, <2>2, <2>3
<1>11. ((x * w) + w) - (x * w) - 1 = w - 1
  <2> DEFINE a == x * w
  <2>1. a \in Int
    BY <1>1, <1>4
  <2> HIDE DEF a
  <2>2. (a + w) - a - 1 = w - 1
    BY <1>1, <2>1
  <2> QED
    BY <2>2 DEF a
<1>12. Slice(packedList, x * w, (x * w) + w) = [i \in 0 .. w - 1 |-> packedList[(x * w) + i]]
  BY <1>11 DEF Slice
<1>13. Slice(packedList, x * w, (x * w) + w) = block
  <2>1. [i \in 0 .. w - 1 |-> packedList[(x * w) + i]] = [i \in 0 .. w - 1 |-> block[i]]
    BY <1>10
  <2> QED
    BY <1>9, <1>12, <2>1
<1> QED
  BY <1>1, <1>13 DEF packedList, x, block

\* decodeMatrices gives back what encodeMatrices was given: the m elements of each
\* position, and the zeros that an upper triangle leaves out.
THEOREM DecodeEncodeMatrices ==
  ASSUME NEW m, NEW r, NEW c, NEW matrices, NEW T \in BOOLEAN, IsList(m, r, c, matrices),
         T => ZeroBelow(m, r, c, matrices)
  PROVE  decodeMatrices(m, r, c, encodeMatrices(r, c, matrices, T), T) = matrices
<1> DEFINE w == m \div 2
           V == Positions(r, c, T)
           bytes == encodeMatrices(r, c, matrices, T)
           vecs == [p \in V |->
                      LET currentIndex == Rank(p, r, c, T) * w
                      IN decodeVec(m, Slice(bytes, currentIndex, currentIndex + w))]
           back == decodeMatrices(m, r, c, bytes, T)
<1>1. back = [k \in 0 .. m - 1 |-> [i \in 0 .. r - 1 |-> [j \in 0 .. c - 1 |->
                IF <<i, j>> \in V THEN vecs[<<i, j>>][k] ELSE 0]]]
  BY Zenon DEF decodeMatrices
<1>2. ASSUME NEW p \in V PROVE vecs[p] = Elements(m, matrices, p)
  <2>1. m \in Nat /\ Elements(m, matrices, p) \in SliceOf(m, Nibble)
    <3>1. m \in Nat /\ p \in (0 .. r - 1) \X (0 .. c - 1)
      BY PositionsFinite DEF IsList
    <3> QED
      BY <3>1, ElementsType
  <2>2. vecs[p] = decodeVec(m, encodeVec(Elements(m, matrices, p)))
    <3> DEFINE at == Rank(p, r, c, T) * w
    <3>1. vecs[p] = decodeVec(m, Slice(bytes, at, at + w))
      OBVIOUS
    <3>2. Slice(bytes, at, at + w) = encodeVec(Elements(m, matrices, p))
      BY PackedBlock
    <3> QED
      BY <3>1, <3>2
  <2> QED
    BY <2>1, <2>2, DecodeEncodeVec
<1>3. \A k \in 0 .. m - 1, i \in 0 .. r - 1, j \in 0 .. c - 1 :
        <<i, j>> \in V => vecs[<<i, j>>][k] = matrices[k][i][j]
  <2> SUFFICES ASSUME NEW k \in 0 .. m - 1, NEW i \in 0 .. r - 1, NEW j \in 0 .. c - 1,
                      <<i, j>> \in V
               PROVE  vecs[<<i, j>>][k] = matrices[k][i][j]
    OBVIOUS
  <2> HIDE DEF vecs, V
  <2>1. vecs[<<i, j>>] = Elements(m, matrices, <<i, j>>)
    BY <1>2
  <2>2. Elements(m, matrices, <<i, j>>)[k] = matrices[k][i][j]
    BY DEF Elements
  <2> QED
    BY <2>1, <2>2
<1>4. \A k \in 0 .. m - 1, i \in 0 .. r - 1, j \in 0 .. c - 1 :
        <<i, j>> \notin V => matrices[k][i][j] = 0
  <2> SUFFICES ASSUME NEW k \in 0 .. m - 1, NEW i \in 0 .. r - 1, NEW j \in 0 .. c - 1,
                      <<i, j>> \notin V
               PROVE  matrices[k][i][j] = 0
    OBVIOUS
  <2>1. T /\ ~ (i <= j)
    BY DEF Positions
  <2>2. i > j
    BY <2>1 DEF IsList
  <2> QED
    BY <2>1, <2>2 DEF ZeroBelow
<1> HIDE DEF V, vecs, bytes
<1>5. back = [k \in 0 .. m - 1 |-> [i \in 0 .. r - 1 |-> [j \in 0 .. c - 1 |->
                matrices[k][i][j]]]]
  BY <1>1, <1>3, <1>4
<1>6. matrices = [k \in 0 .. m - 1 |-> [i \in 0 .. r - 1 |-> [j \in 0 .. c - 1 |->
                    matrices[k][i][j]]]]
  <2>1. matrices = [k \in 0 .. m - 1 |-> matrices[k]]
    BY DEF IsList, SliceOf
  <2>2. \A k \in 0 .. m - 1 : matrices[k] = [i \in 0 .. r - 1 |-> matrices[k][i]]
    BY DEF IsList, SliceOf
  <2>3. \A k \in 0 .. m - 1, i \in 0 .. r - 1 :
          matrices[k][i] = [j \in 0 .. c - 1 |-> matrices[k][i][j]]
    BY DEF IsList, SliceOf
  <2>4. \A k \in 0 .. m - 1 :
          matrices[k] = [i \in 0 .. r - 1 |-> [j \in 0 .. c - 1 |-> matrices[k][i][j]]]
    BY <2>2, <2>3
  <2> QED
    BY <2>1, <2>4
<1> QED
  BY <1>5, <1>6 DEF bytes

-----------------------------------------------------------------------------
(* The uses *)

\* What was given is one of the things the callers pack, and packed is made of it.
Given ==
  \/ stage = "start"
  \/ /\ kind = "vec" /\ given \in Vectors
     /\ packed = encodeVec(given)
  \/ /\ kind = "matrices" /\ shape \in Shapes /\ given \in Lists(shape)
     /\ packed = encodeMatrices(shape.r, shape.c, given, shape.isUpperTriangular)

PackingInv == stage \in {"start", "packed", "unpacked"} /\ Given /\ RoundTrip

LEMMA GivenList ==
  ASSUME NEW s \in Shapes, NEW matrices \in Lists(s)
  PROVE  /\ IsList(s.m, s.r, s.c, matrices)
         /\ s.isUpperTriangular => s.r = s.c /\ ZeroBelow(s.m, s.r, s.c, matrices)
  BY PackingAssumption DEF IsList, ZeroBelow

LEMMA PackingInvInit == PackInit => PackingInv
  BY DEF PackInit, PackingInv, Given, RoundTrip

LEMMA PackingInvStep == PackingInv /\ [PackNext]_packVars => PackingInv'
<1> SUFFICES ASSUME PackingInv, [PackNext]_packVars PROVE PackingInv'
  OBVIOUS
<1> USE DEF PackingInv
<1>1. CASE PackVec
  BY <1>1 DEF PackVec, Given, RoundTrip
<1>2. CASE UnpackVec
  <2>1. given \in Vectors /\ packed = encodeVec(given)
    BY <1>2 DEF UnpackVec, Given
  <2>2. SliceLen(given) \in Nat /\ given \in SliceOf(SliceLen(given), Nibble)
    BY <2>1, PackingAssumption
  <2>3. decodeVec(SliceLen(given), packed) = given
    BY <2>1, <2>2, DecodeEncodeVec
  <2> QED
    BY <1>2, <2>3 DEF UnpackVec, Given, RoundTrip
<1>3. CASE PackMatrices
  BY <1>3 DEF PackMatrices, Given, RoundTrip
<1>4. CASE UnpackMatrices
  <2>1. /\ shape \in Shapes /\ given \in Lists(shape)
        /\ packed = encodeMatrices(shape.r, shape.c, given, shape.isUpperTriangular)
    BY <1>4 DEF UnpackMatrices, Given
  <2>2. /\ IsList(shape.m, shape.r, shape.c, given)
        /\ shape.isUpperTriangular => ZeroBelow(shape.m, shape.r, shape.c, given)
        /\ shape.isUpperTriangular \in BOOLEAN
    BY <2>1, GivenList, PackingAssumption
  <2>3. decodeMatrices(shape.m, shape.r, shape.c, packed, shape.isUpperTriangular) = given
    BY <2>1, <2>2, DecodeEncodeMatrices
  <2> QED
    BY <1>4, <2>3 DEF UnpackMatrices, Given, RoundTrip
<1>5. CASE UNCHANGED packVars
  BY <1>5 DEF packVars, Given, RoundTrip
<1> QED
  BY <1>1, <1>2, <1>3, <1>4, <1>5 DEF PackNext

LEMMA PackingInvAlways == PackSpec => []PackingInv
<1> QED
  BY PackingInvInit, PackingInvStep, PTL DEF PackSpec

\* Whatever is packed, a vector of any length or an even number of matrices of any
\* shape, triangular or not, is unpacked as it was: encodeVec, decodeVec,
\* encodeMatrices and decodeMatrices agree on the order of nibbles and positions.
THEOREM RoundTripHolds == PackSpec => []RoundTrip
<1> QED
  BY PackingInvAlways, PTL DEF PackingInv

LEMMA PackedSize == PackingInv => SizeAsDerived
<1> SUFFICES ASSUME PackingInv, stage # "start" PROVE SizeAsDerived
  BY DEF SizeAsDerived
<1>1. CASE kind = "vec" /\ given \in Vectors /\ packed = encodeVec(given)
  <2>1. PICK n \in Nat : n = SliceLen(given)
    BY <1>1, PackingAssumption
  <2>2. HalfUp(n) \in Nat
    BY DEF HalfUp
  <2>3. DOMAIN packed = 0 .. HalfUp(n) - 1
    BY <1>1, <2>1 DEF encodeVec, HalfUp
  <2>4. SliceLen(packed) = HalfUp(n)
    BY <2>2, <2>3, FS_Interval DEF SliceLen
  <2> QED
    BY <1>1, <2>1, <2>4 DEF SizeAsDerived
<1>2. CASE /\ kind = "matrices" /\ shape \in Shapes /\ given \in Lists(shape)
           /\ packed = encodeMatrices(shape.r, shape.c, given, shape.isUpperTriangular)
  <2>0. /\ IsList(shape.m, shape.r, shape.c, given)
        /\ shape.isUpperTriangular => shape.r = shape.c
        /\ shape.isUpperTriangular \in BOOLEAN
    BY <1>2, GivenList, PackingAssumption
  <2>1. PICK m, r, c, T : m = shape.m /\ r = shape.r /\ c = shape.c /\ T = shape.isUpperTriangular
    OBVIOUS
  <2>2. /\ IsList(m, r, c, given) /\ (T => r = c) /\ T \in BOOLEAN
        /\ packed = encodeMatrices(r, c, given, T)
    BY <1>2, <2>0, <2>1
  <2>3. m \in Nat /\ r \in Nat /\ c \in Nat /\ m % 2 = 0 /\ SliceLen(given) = m
    <3>1. m \in Nat /\ given \in SliceOf(m, SliceOf(r, SliceOf(c, Nibble)))
      BY <2>2 DEF IsList
    <3>2. SliceLen(given) = m
      BY <3>1, LenOfSlice
    <3> QED
      BY <2>2, <3>2 DEF IsList
  <2> DEFINE N == Cardinality(Positions(r, c, T))
             w == (SliceLen(given) + 1) \div 2
             entries == IF T THEN ((r + 1) * r) \div 2 ELSE r * c
  <2>4. N = entries
    <3>1. CASE T
      <4>1. T = TRUE /\ r = c
        BY <2>2, <3>1
      <4> QED
        BY <2>3, <4>1, TriangleCount
    <3>2. CASE ~T
      <4>1. T = FALSE
        BY <2>2, <3>2
      <4> QED
        BY <2>3, <4>1, RectangleCount
    <3> QED
      BY <3>1, <3>2
  <2>5. N \in Nat
    BY <2>3, PositionsFinite
  <2>6. w \in Nat /\ m = 2 * w
    BY <2>3
  <2>7. DOMAIN packed = 0 .. (N * w) - 1
    BY <2>2, Zenon DEF encodeMatrices
  <2> HIDE DEF w, N, entries
  <2>8. N * w \in Nat
    BY <2>5, <2>6
  <2>9. SliceLen(packed) = N * w
    BY <2>7, <2>8, FS_Interval DEF SliceLen
  <2>10. (m * N) \div 2 = N * w
    <3>1. m * N = 2 * (N * w)
      BY <2>5, <2>6
    <3> DEFINE x == N * w
    <3>2. \A e \in Nat : (2 * e) \div 2 = e
      OBVIOUS
    <3> HIDE DEF x
    <3>3. m * N = 2 * x /\ x \in Nat
      BY <2>8, <3>1 DEF x
    <3> QED
      BY <3>2, <3>3 DEF x
  <2>11. SliceLen(packed) = (m * entries) \div 2
    BY <2>4, <2>9, <2>10
  <2>12. kind # "vec"
    BY <1>2
  <2> QED
    BY <2>1, <2>11, <2>12, Zenon DEF SizeAsDerived, entries
<1> QED
  BY <1>1, <1>2 DEF PackingInv, Given

\* The packed form has as many bytes as initMayo derives for it, for every size: the
\* copies into the keys and the signature cut nothing off.
THEOREM SizeAsDerivedHolds == PackSpec => []SizeAsDerived
<1> QED
  BY PackingInvAlways, PackedSize, PTL

-----------------------------------------------------------------------------
(* The parameters *)

\* The sizes initMayo derives.
LEMMA Derived ==
  ASSUME NEW n, NEW m, NEW o, NEW k, NEW s, NEW d, NEW p, NEW t
  PROVE  LET r == initMayo(n, m, o, k, 16, s, d, p, t)
         IN /\ r.v = n - o /\ r.shifts = (k * (k + 1)) \div 2
            /\ r.skSeedBytes = s /\ r.rBytes = s
            /\ r.oBytes = HalfUp((n - o) * o) /\ r.vBytes = HalfUp(n - o)
            /\ r.p1Bytes = (m * (((n - o) * ((n - o) + 1)) \div 2)) \div 2
            /\ r.p2Bytes = (m * (n - o) * o) \div 2
            /\ r.p3Bytes = (m * (((o + 1) * o) \div 2)) \div 2
            /\ r.lBytes = (m * (n - o) * o) \div 2
            /\ r.eskBytes = s + r.oBytes + r.p1Bytes + r.lBytes
            /\ r.cpkBytes = p + r.p3Bytes
            /\ r.epkBytes = r.p1Bytes + r.p2Bytes + r.p3Bytes
            /\ r.sigBytes = HalfUp(n * k) + s
  BY DEF initMayo

\* The four parameter sets of InitMayo have what the scheme needs: what follows
\* holds for each of them.
THEOREM ParameterSetsFit == \A level \in SecurityLevels : ParametersFit(InitMayo(level))
<1>1. ASSUME NEW n \in Nat, NEW m \in Nat, NEW o \in Nat, NEW k \in Nat, NEW s \in Nat,
             NEW d \in Nat, NEW b \in Nat, NEW t \in SliceOf(4, Gf16),
             m > 3, m % 2 = 0, o > 0, k > 0, k < n - o
      PROVE  ParametersFit(initMayo(n, m, o, k, 16, s, d, b, t))
  <2> DEFINE p == initMayo(n, m, o, k, 16, s, d, b, t)
  <2>1. /\ p.n = n /\ p.m = m /\ p.o = o /\ p.k = k /\ p.saltBytes = s /\ p.digestBytes = d
        /\ p.pkSeedBytes = b /\ p.tailF = t
    BY Zenon DEF initMayo
  <2>2. SliceLen(t) = 4
    BY LenOfSlice
  <2>3. p = initMayo(n, m, o, k, 16, s, d, b, t)
    OBVIOUS
  <2> HIDE DEF p
  <2>4. p = initMayo(p.n, p.m, p.o, p.k, 16, p.saltBytes, p.digestBytes, p.pkSeedBytes, p.tailF)
    BY <2>1, <2>3, Zenon
  <2>5. SliceLen(p.tailF) \in 0 .. p.m
    BY <1>1, <2>1, <2>2
  <2>6. p.tailF \in SliceOf(SliceLen(p.tailF), Gf16)
    BY <2>1, <2>2, Zenon
  <2> QED
    BY <1>1, <2>1, <2>4, <2>5, <2>6 DEF ParametersFit, p
<1>2. \A a, b, c, d \in Gf16 : TailF(a, b, c, d) \in SliceOf(4, Gf16)
  BY DEF TailF, SliceOf
<1>3. \A i \in 0 .. 15 : i \in Gf16
  BY DEF Gf16
<1>4. /\ TailF(8, 1, 1, 0) \in SliceOf(4, Gf16) /\ TailF(8, 0, 2, 8) \in SliceOf(4, Gf16)
      /\ TailF(8, 0, 1, 7) \in SliceOf(4, Gf16) /\ TailF(4, 0, 8, 1) \in SliceOf(4, Gf16)
  BY <1>2, <1>3
<1>5. ParametersFit(initMayo(86, 78, 8, 10, 16, 24, 32, 16, TailF(8, 1, 1, 0)))
  <2>1. /\ {86, 78, 8, 10, 24, 32, 16} \subseteq Nat
        /\ 78 > 3 /\ 78 % 2 = 0 /\ 8 > 0 /\ 10 > 0 /\ 10 < 86 - 8
    OBVIOUS
  <2> QED
    BY <1>1, <1>4, <2>1, Zenon
<1>6. ParametersFit(initMayo(81, 64, 17, 4, 16, 24, 32, 16, TailF(8, 0, 2, 8)))
  <2>1. /\ {81, 64, 17, 4, 24, 32, 16} \subseteq Nat
        /\ 64 > 3 /\ 64 % 2 = 0 /\ 17 > 0 /\ 4 > 0 /\ 4 < 81 - 17
    OBVIOUS
  <2> QED
    BY <1>1, <1>4, <2>1, Zenon
<1>7. ParametersFit(initMayo(118, 108, 10, 11, 16, 32, 48, 16, TailF(8, 0, 1, 7)))
  <2>1. /\ {118, 108, 10, 11, 32, 48, 16} \subseteq Nat
        /\ 108 > 3 /\ 108 % 2 = 0 /\ 10 > 0 /\ 11 > 0 /\ 11 < 118 - 10
    OBVIOUS
  <2> QED
    BY <1>1, <1>4, <2>1, Zenon
<1>8. ParametersFit(initMayo(154, 142, 12, 12, 16, 40, 64, 16, TailF(4, 0, 8, 1)))
  <2>1. /\ {154, 142, 12, 12, 40, 64, 16} \subseteq Nat
        /\ 142 > 3 /\ 142 % 2 = 0 /\ 12 > 0 /\ 12 > 0 /\ 12 < 154 - 12
    OBVIOUS
  <2> QED
    BY <1>1, <1>4, <2>1, Zenon
<1> QED
  BY <1>5, <1>6, <1>7, <1>8 DEF InitMayo, SecurityLevels

LEMMA Sizes ==
  /\ mayo.m \in Nat \ {0} /\ mayo.o \in Nat \ {0} /\ mayo.k \in Nat \ {0} /\ mayo.n \in Nat
  /\ mayo.v = mayo.n - mayo.o /\ mayo.v \in Nat \ {0} /\ mayo.k < mayo.v
  /\ mayo.m % 2 = 0
  /\ mayo.saltBytes \in Nat /\ mayo.digestBytes \in Nat /\ mayo.pkSeedBytes \in Nat
  /\ mayo.shifts = (mayo.k * (mayo.k + 1)) \div 2
<1>1. mayo.k < mayo.n - mayo.o
  BY MayoAssumption DEF ParametersFit
<1>2. mayo.v = mayo.n - mayo.o /\ mayo.shifts = (mayo.k * (mayo.k + 1)) \div 2
  BY MayoAssumption, Derived DEF ParametersFit
<1>3. /\ mayo.m \in Nat /\ mayo.o \in Nat /\ mayo.k \in Nat /\ mayo.n \in Nat
      /\ mayo.m > 0 /\ mayo.o > 0 /\ mayo.k > 0 /\ mayo.m % 2 = 0
      /\ mayo.saltBytes \in Nat /\ mayo.digestBytes \in Nat /\ mayo.pkSeedBytes \in Nat
  BY MayoAssumption DEF ParametersFit
<1> QED
  BY <1>1, <1>2, <1>3

(* The reduction modulo f *)

Top == mayo.m + mayo.shifts

LEMMA ShiftsNat == mayo.shifts \in Nat /\ Top \in Nat /\ Top >= mayo.m
<1>1. mayo.k * (mayo.k + 1) \in Nat
  BY Sizes
<1>2. (mayo.k * (mayo.k + 1)) \div 2 \in Nat
  <2> DEFINE a == mayo.k * (mayo.k + 1)
  <2> HIDE DEF a
  <2>1. a \in Nat => a \div 2 \in Nat
    OBVIOUS
  <2> QED
    BY <1>1, <2>1 DEF a
<1> QED
  BY <1>2, Sizes DEF Top

LEMMA TailEntries == \A i \in DOMAIN mayo.tailF : /\ mayo.tailF[i] \in Gf16 /\ i \in 0 .. mayo.m - 1
<1>1. DOMAIN mayo.tailF = 0 .. SliceLen(mayo.tailF) - 1
  BY MayoAssumption DEF ParametersFit, SliceOf
<1>2. \A i \in 0 .. SliceLen(mayo.tailF) - 1 : mayo.tailF[i] \in Gf16
  BY MayoAssumption DEF ParametersFit, SliceOf
<1>3. SliceLen(mayo.tailF) \in 0 .. mayo.m /\ mayo.m \in Nat
  BY MayoAssumption DEF ParametersFit
<1> QED
  BY <1>1, <1>2, <1>3

\* The polynomials before the reduction, and one round of it.
Polys == VecOf(Top)

LEMMA FoldType ==
  ASSUME NEW b \in Polys, NEW i \in mayo.m .. Top - 1
  PROVE  FoldCoefficient(b, i) \in Polys
<1>1. DOMAIN b = 0 .. Top - 1 /\ \A d \in 0 .. Top - 1 : b[d] \in Gf16
  BY ShiftsNat, VecEntries DEF Polys
<1>2. ASSUME NEW d \in 0 .. Top - 1
      PROVE  FoldCoefficient(b, i)[d] \in Gf16
  <2> DEFINE e == d - (i - mayo.m)
  <2>1. FoldCoefficient(b, i)[d] = IF d = i THEN 0
                                   ELSE IF e \in DOMAIN mayo.tailF
                                   THEN GfXor(b[d], GfMul(b[i], mayo.tailF[e])) ELSE b[d]
    BY <1>1 DEF FoldCoefficient
  <2>0. i \in 0 .. Top - 1
    BY ShiftsNat, Sizes
  <2>2. b[i] \in Gf16 /\ b[d] \in Gf16
    BY <1>1, <2>0
  <2>3. e \in DOMAIN mayo.tailF => mayo.tailF[e] \in Gf16
    BY TailEntries
  <2> HIDE DEF e
  <2> QED
    BY <2>1, <2>2, <2>3, FieldType
<1>3. FoldCoefficient(b, i) = [d \in 0 .. Top - 1 |-> FoldCoefficient(b, i)[d]]
  BY <1>1 DEF FoldCoefficient
<1> QED
  BY <1>2, <1>3 DEF Polys, VecOf, SliceOf

\* g[i] is the polynomial after the coefficients from i upwards were folded.
Folding(b, g) ==
  /\ g \in [mayo.m .. Top -> Polys]
  /\ g[Top] = b
  /\ \A i \in mayo.m .. Top - 1 : g[i] = FoldCoefficient(g[i + 1], i)

LEMMA ReductionFolds ==
  ASSUME NEW b \in Polys
  PROVE  \E g : Folding(b, g) /\ reduceVecModF(b) = Slice(g[mayo.m], 0, mayo.m)
<1> DEFINE N == mayo.shifts
           step == [p \in (1 .. N) \X Polys |-> FoldCoefficient(p[2], Top - p[1])]
           body(f) == [i \in mayo.m .. Top |-> IF i = Top THEN b ELSE FoldCoefficient(f[i + 1], i)]
           f == CHOOSE f : f = body(f)
<1>1. N \in Nat /\ mayo.m \in Nat /\ Top = mayo.m + N /\ Top \in Nat
  BY ShiftsNat, Sizes DEF Top
<1>2. step \in [(1 .. N) \X Polys -> Polys]
  <2>1. ASSUME NEW i \in 1 .. N, NEW c \in Polys PROVE FoldCoefficient(c, Top - i) \in Polys
    <3>1. Top - i \in mayo.m .. Top - 1
      BY <1>1
    <3> QED
      BY <3>1, FoldType
  <2> QED
    BY <2>1
<1>3. \A i \in 1 .. N, c \in Polys : step[<<i, c>>] = FoldCoefficient(c, Top - i)
  OBVIOUS
<1> HIDE DEF step
<1>4. PICK h : Recursion(N, Polys, b, step, h)
  BY <1>1, <1>2, RecursionExists, Zenon
<1> DEFINE g == [i \in mayo.m .. Top |-> h[Top - i]]
<1>5. g \in [mayo.m .. Top -> Polys]
  <2>1. \A i \in mayo.m .. Top : Top - i \in 0 .. N
    BY <1>1
  <2> QED
    BY <1>4, <2>1 DEF Recursion
<1>6. g[Top] = b
  <2>1. Top - Top = 0 /\ Top \in mayo.m .. Top
    BY <1>1
  <2> QED
    BY <1>4, <2>1 DEF Recursion
<1>7. ASSUME NEW i \in mayo.m .. Top - 1 PROVE g[i] = FoldCoefficient(g[i + 1], i)
  <2>1. /\ Top - i \in 1 .. N /\ (Top - i) - 1 = Top - (i + 1) /\ Top - (Top - i) = i
        /\ i \in mayo.m .. Top /\ i + 1 \in mayo.m .. Top
    BY <1>1
  <2>2. h[Top - i] = step[<<Top - i, h[Top - (i + 1)]>>]
    BY <1>4, <2>1 DEF Recursion
  <2>3. h[Top - (i + 1)] = g[i + 1] /\ h[Top - i] = g[i]
    BY <2>1
  <2>4. g[i + 1] \in Polys
    BY <1>5, <2>1
  <2> HIDE DEF g
  <2> QED
    BY <1>3, <2>1, <2>2, <2>3, <2>4
<1> HIDE DEF g
<1>8. g = body(g)
  <2>1. ASSUME NEW i \in mayo.m .. Top
        PROVE  g[i] = IF i = Top THEN b ELSE FoldCoefficient(g[i + 1], i)
    BY <1>1, <1>6, <1>7
  <2>2. g = [i \in mayo.m .. Top |-> g[i]]
    BY <1>5
  <2> QED
    BY <2>1, <2>2
<1>9. f = body(f)
  BY <1>8
<1>10. reduceVecModF(b) = Slice(f[mayo.m], 0, mayo.m)
  BY Zenon DEF reduceVecModF, Top
<1> HIDE DEF f
<1>11. \A i \in mayo.m .. Top : f[i] = IF i = Top THEN b ELSE FoldCoefficient(f[i + 1], i)
  BY <1>9
<1> DEFINE T == {i \in 0 .. N : f[Top - i] = g[Top - i]}
<1>12. 0 \in T
  <2>1. Top - 0 = Top /\ Top \in mayo.m .. Top
    BY <1>1
  <2> QED
    BY <1>1, <1>6, <1>11, <2>1
<1>13. ASSUME NEW i \in 1 .. N, i - 1 \in T PROVE i \in T
  <2>1. /\ Top - (i - 1) = (Top - i) + 1 /\ Top - i \in mayo.m .. Top - 1
        /\ Top - i \in mayo.m .. Top /\ Top - i # Top
    BY <1>1
  <2>2. f[Top - i] = FoldCoefficient(f[(Top - i) + 1], Top - i)
    BY <1>11, <2>1
  <2> QED
    BY <1>7, <1>13, <2>1, <2>2
<1> HIDE DEF T
<1>14. \A i \in 0 .. N : i \in T
  BY <1>1, <1>12, <1>13, BoundedInduction, Zenon
<1>15. f[mayo.m] = g[mayo.m]
  <2>1. N \in 0 .. N /\ Top - N = mayo.m
    BY <1>1
  <2> QED
    BY <1>14, <2>1 DEF T
<1> QED
  BY <1>5, <1>6, <1>7, <1>10, <1>15 DEF Folding

\* Two reductions that agree at one coefficient agree from there on.
LEMMA FoldingsAgree ==
  ASSUME NEW b, NEW c, NEW g, NEW h, Folding(b, g), Folding(c, h),
         NEW i \in mayo.m .. Top, g[i] = h[i]
  PROVE  g[mayo.m] = h[mayo.m]
<1> DEFINE T == {e \in 0 .. i - mayo.m : g[i - e] = h[i - e]}
<1>1. i - mayo.m \in Nat /\ mayo.m \in Nat /\ Top \in Nat /\ i \in Nat
  BY ShiftsNat, Sizes
<1>2. 0 \in T
  BY <1>1
<1>3. ASSUME NEW e \in 1 .. i - mayo.m, e - 1 \in T PROVE e \in T
  <2>1. i - (e - 1) = (i - e) + 1 /\ i - e \in mayo.m .. Top - 1
    BY <1>1
  <2>2. g[i - e] = FoldCoefficient(g[(i - e) + 1], i - e) /\ h[i - e] = FoldCoefficient(h[(i - e) + 1], i - e)
    BY <2>1 DEF Folding
  <2> QED
    BY <1>3, <2>1, <2>2
<1> HIDE DEF T
<1>4. \A e \in 0 .. i - mayo.m : e \in T
  BY <1>1, <1>2, <1>3, BoundedInduction, Zenon
<1>5. i - mayo.m \in 0 .. i - mayo.m /\ i - (i - mayo.m) = mayo.m
  BY <1>1
<1> QED
  BY <1>4, <1>5 DEF T

\* Folding a coefficient that is zero changes nothing.
LEMMA FoldZero ==
  ASSUME NEW b \in Polys, NEW i \in mayo.m .. Top - 1, b[i] = 0
  PROVE  FoldCoefficient(b, i) = b
<1>1. DOMAIN b = 0 .. Top - 1 /\ \A d \in 0 .. Top - 1 : b[d] \in Gf16
  BY ShiftsNat, VecEntries DEF Polys
<1>2. ASSUME NEW d \in 0 .. Top - 1 PROVE FoldCoefficient(b, i)[d] = b[d]
  <2> DEFINE e == d - (i - mayo.m)
  <2>1. FoldCoefficient(b, i)[d] = IF d = i THEN 0
                                   ELSE IF e \in DOMAIN mayo.tailF
                                   THEN GfXor(b[d], GfMul(0, mayo.tailF[e])) ELSE b[d]
    BY <1>1 DEF FoldCoefficient
  <2>2. b[d] \in Gf16
    BY <1>1
  <2>3. e \in DOMAIN mayo.tailF => mayo.tailF[e] \in Gf16
    BY TailEntries
  <2> HIDE DEF e
  <2> QED
    BY <2>1, <2>2, <2>3, Neutral
<1>3. FoldCoefficient(b, i) = [d \in 0 .. Top - 1 |-> FoldCoefficient(b, i)[d]]
  BY <1>1 DEF FoldCoefficient
<1>4. b = [d \in 0 .. Top - 1 |-> b[d]]
  BY <1>1 DEF Polys, VecOf, SliceOf
<1> QED
  BY <1>2, <1>3, <1>4

\* A polynomial without coefficients from i upwards is still there at i.
LEMMA FoldingStarts ==
  ASSUME NEW b \in Polys, NEW g, Folding(b, g), NEW i \in mayo.m .. Top,
         \A d \in i .. Top - 1 : b[d] = 0
  PROVE  g[i] = b
<1> DEFINE T == {e \in 0 .. Top - i : g[Top - e] = b}
<1>1. Top - i \in Nat /\ mayo.m \in Nat /\ Top \in Nat /\ i \in Nat
  BY ShiftsNat, Sizes
<1>2. 0 \in T
  BY <1>1 DEF Folding
<1>3. ASSUME NEW e \in 1 .. Top - i, e - 1 \in T PROVE e \in T
  <2>1. Top - (e - 1) = (Top - e) + 1 /\ Top - e \in mayo.m .. Top - 1 /\ Top - e \in i .. Top - 1
    BY <1>1
  <2>2. g[Top - e] = FoldCoefficient(g[(Top - e) + 1], Top - e)
    BY <2>1 DEF Folding
  <2>3. FoldCoefficient(b, Top - e) = b
    BY <2>1, FoldZero
  <2> QED
    BY <1>3, <2>1, <2>2, <2>3
<1> HIDE DEF T
<1>4. \A e \in 0 .. Top - i : e \in T
  BY <1>1, <1>2, <1>3, BoundedInduction, Zenon
<1>5. Top - i \in 0 .. Top - i /\ Top - (Top - i) = i
  BY <1>1
<1> QED
  BY <1>4, <1>5 DEF T

LEMMA ReduceType ==
  ASSUME NEW b \in Polys
  PROVE  reduceVecModF(b) \in VecOf(mayo.m)
<1>1. PICK g : Folding(b, g) /\ reduceVecModF(b) = Slice(g[mayo.m], 0, mayo.m)
  BY ReductionFolds
<1>2. mayo.m \in mayo.m .. Top /\ (mayo.m - 0) - 1 = mayo.m - 1 /\ Top >= mayo.m /\ mayo.m \in Nat
  BY ShiftsNat, Sizes
<1>3. g[mayo.m] \in [0 .. Top - 1 -> Gf16]
  BY <1>1, <1>2 DEF Folding, Polys, VecOf, SliceOf
<1>4. \A d \in 0 .. mayo.m - 1 : 0 + d = d /\ d \in 0 .. Top - 1
  BY <1>2, ShiftsNat
<1> QED
  BY <1>1, <1>2, <1>3, <1>4 DEF Slice, VecOf, SliceOf

\* One round of the reduction does not change what a polynomial is reduced to.
LEMMA ReduceOfFold ==
  ASSUME NEW b \in Polys, NEW i \in mayo.m .. Top - 1, \A d \in i + 1 .. Top - 1 : b[d] = 0
  PROVE  reduceVecModF(FoldCoefficient(b, i)) = reduceVecModF(b)
<1> DEFINE c == FoldCoefficient(b, i)
<1>1. c \in Polys
  BY FoldType
<1>2. PICK g : Folding(b, g) /\ reduceVecModF(b) = Slice(g[mayo.m], 0, mayo.m)
  BY ReductionFolds
<1>3. PICK h : Folding(c, h) /\ reduceVecModF(c) = Slice(h[mayo.m], 0, mayo.m)
  BY <1>1, ReductionFolds
<1>4. i + 1 \in mayo.m .. Top /\ i \in mayo.m .. Top
  BY ShiftsNat, Sizes
<1>5. g[i + 1] = b
  BY <1>2, <1>4, FoldingStarts
<1>6. g[i] = c
  BY <1>2, <1>5 DEF Folding
<1>7. ASSUME NEW d \in i .. Top - 1 PROVE c[d] = 0
  <2>1. DOMAIN b = 0 .. Top - 1 /\ d \in 0 .. Top - 1
    BY ShiftsNat, Sizes, VecEntries DEF Polys
  <2>2. d # i => d - (i - mayo.m) \notin DOMAIN mayo.tailF /\ b[d] = 0
    BY ShiftsNat, Sizes, TailEntries
  <2> QED
    BY <2>1, <2>2 DEF FoldCoefficient
<1> HIDE DEF c
<1>8. h[i] = c
  BY <1>1, <1>3, <1>4, <1>7, FoldingStarts
<1>9. g[mayo.m] = h[mayo.m]
  BY <1>2, <1>3, <1>4, <1>6, <1>8, FoldingsAgree
<1> QED
  BY <1>2, <1>3, <1>9 DEF c

\* z^l w
Shift(w, l) == [d \in 0 .. Top - 1 |-> IF d - l \in 0 .. mayo.m - 1 THEN w[d - l] ELSE 0]

LEMMA ShiftType ==
  ASSUME NEW w \in VecOf(mayo.m), NEW l \in Int
  PROVE  Shift(w, l) \in Polys
<1>1. \A d \in 0 .. Top - 1 : (IF d - l \in 0 .. mayo.m - 1 THEN w[d - l] ELSE 0) \in Gf16
  BY Sizes, VecEntries, FieldType
<1> QED
  BY <1>1 DEF Shift, Polys, VecOf, SliceOf

LEMMA TimesZType ==
  ASSUME NEW w \in VecOf(mayo.m)
  PROVE  TimesZ(w) \in VecOf(mayo.m)
<1>1. ASSUME NEW d \in 0 .. mayo.m - 1 PROVE TimesZ(w)[d] \in Gf16
  <2>1. /\ (IF d = 0 THEN 0 ELSE w[d - 1]) \in Gf16
        /\ w[mayo.m - 1] \in Gf16
    BY Sizes, VecEntries, FieldType
  <2>2. (IF d \in DOMAIN mayo.tailF THEN GfMul(w[mayo.m - 1], mayo.tailF[d]) ELSE 0) \in Gf16
    BY <2>1, TailEntries, FieldType
  <2> QED
    BY <2>1, <2>2, FieldType DEF TimesZ
<1> QED
  BY <1>1 DEF TimesZ, VecOf, SliceOf

\* z^(l+1) w folded once is z^l (z w).
LEMMA ShiftFolds ==
  ASSUME NEW w \in VecOf(mayo.m), NEW l \in 0 .. mayo.shifts - 1
  PROVE  FoldCoefficient(Shift(w, l + 1), mayo.m + l) = Shift(TimesZ(w), l)
<1> DEFINE i == mayo.m + l
           b == Shift(w, l + 1)
<1>1. /\ mayo.m \in Nat \ {0} /\ l \in Nat /\ i \in 0 .. Top - 1 /\ i - (l + 1) = mayo.m - 1
      /\ i - mayo.m = l /\ Top \in Nat /\ i \in Nat
  BY Sizes, ShiftsNat DEF Top
<1>2. b[i] = w[mayo.m - 1] /\ DOMAIN b = 0 .. Top - 1
  <2>1. mayo.m - 1 \in 0 .. mayo.m - 1
    BY <1>1
  <2>2. b[i] = IF i - (l + 1) \in 0 .. mayo.m - 1 THEN w[i - (l + 1)] ELSE 0
    <3> HIDE DEF i
    <3> QED
      BY <1>1 DEF Shift
  <2> QED
    BY <1>1, <2>1, <2>2 DEF Shift
<1>3. ASSUME NEW d \in 0 .. Top - 1
      PROVE  FoldCoefficient(b, i)[d] = Shift(TimesZ(w), l)[d]
  <2> DEFINE e == d - l
             tail == IF e \in DOMAIN mayo.tailF THEN GfMul(w[mayo.m - 1], mayo.tailF[e]) ELSE 0
  <2>1. FoldCoefficient(b, i)[d] = IF d = i THEN 0
                                   ELSE IF e \in DOMAIN mayo.tailF
                                   THEN GfXor(b[d], GfMul(w[mayo.m - 1], mayo.tailF[e])) ELSE b[d]
    BY <1>1, <1>2 DEF FoldCoefficient
  <2>2. Shift(TimesZ(w), l)[d] = IF e \in 0 .. mayo.m - 1
                                 THEN GfXor(IF e = 0 THEN 0 ELSE w[e - 1], tail) ELSE 0
    BY DEF Shift, TimesZ
  <2>3. b[d] = IF e - 1 \in 0 .. mayo.m - 1 THEN w[e - 1] ELSE 0
    <3>1. d - (l + 1) = e - 1
      BY <1>1
    <3> QED
      BY <3>1 DEF Shift
  <2>4. d = i <=> e = mayo.m
    BY <1>1
  <2>5. e \in DOMAIN mayo.tailF => e \in 0 .. mayo.m - 1
    BY TailEntries
  <2>6. e \in Int
    BY <1>1
  <2>7. w[mayo.m - 1] \in Gf16 /\ (e - 1 \in 0 .. mayo.m - 1 => w[e - 1] \in Gf16)
    BY <1>1, VecEntries
  <2> HIDE DEF e, tail, b, i
  <2>8. CASE e \notin 0 .. mayo.m - 1
    <3>1. e # mayo.m => e - 1 \notin 0 .. mayo.m - 1
      BY <1>1, <2>6, <2>8
    <3> QED
      BY <2>1, <2>2, <2>3, <2>4, <2>5, <2>8, <3>1
  <2>9. CASE e \in 0 .. mayo.m - 1
    <3>1. e # mayo.m /\ (e # 0 <=> e - 1 \in 0 .. mayo.m - 1)
      BY <1>1, <2>6, <2>9
    <3>2. b[d] = IF e = 0 THEN 0 ELSE w[e - 1]
      BY <2>3, <3>1
    <3>3. b[d] \in Gf16
      BY <2>7, <3>1, <3>2, FieldType
    <3>4. GfXor(b[d], tail) = IF e \in DOMAIN mayo.tailF
                              THEN GfXor(b[d], GfMul(w[mayo.m - 1], mayo.tailF[e])) ELSE b[d]
      BY <3>3, Neutral DEF tail
    <3> QED
      BY <2>1, <2>2, <2>4, <2>9, <3>1, <3>2, <3>4
  <2> QED
    BY <2>8, <2>9
<1>4. FoldCoefficient(b, i) = [d \in 0 .. Top - 1 |-> FoldCoefficient(b, i)[d]]
  BY <1>2 DEF FoldCoefficient
<1>5. Shift(TimesZ(w), l) = [d \in 0 .. Top - 1 |-> Shift(TimesZ(w), l)[d]]
  BY DEF Shift
<1> HIDE DEF i, b
<1>6. FoldCoefficient(b, i) = Shift(TimesZ(w), l)
  BY <1>3, <1>4, <1>5
<1> QED
  BY <1>6 DEF i, b

LEMMA ReduceShift ==
  ASSUME NEW w \in VecOf(mayo.m), NEW l \in 0 .. mayo.shifts - 1
  PROVE  reduceVecModF(Shift(w, l + 1)) = reduceVecModF(Shift(TimesZ(w), l))
<1>1. mayo.m + l \in mayo.m .. Top - 1
  BY Sizes, ShiftsNat DEF Top
<1>2. \A d \in (mayo.m + l) + 1 .. Top - 1 : Shift(w, l + 1)[d] = 0
  BY Sizes, ShiftsNat DEF Top, Shift
<1>3. Shift(w, l + 1) \in Polys
  BY ShiftType
<1> QED
  BY <1>1, <1>2, <1>3, ReduceOfFold, ShiftFolds

LEMMA ReduceUnshifted ==
  ASSUME NEW w \in VecOf(mayo.m)
  PROVE  reduceVecModF(Shift(w, 0)) = w
<1>1. PICK g : /\ Folding(Shift(w, 0), g)
               /\ reduceVecModF(Shift(w, 0)) = Slice(g[mayo.m], 0, mayo.m)
  BY ShiftType, ReductionFolds
<1>2. mayo.m \in mayo.m .. Top /\ mayo.m \in Nat /\ Top \in Nat /\ Top >= mayo.m
  BY ShiftsNat, Sizes
<1>3. ASSUME NEW d \in mayo.m .. Top - 1 PROVE Shift(w, 0)[d] = 0
  <2>1. d \in 0 .. Top - 1 /\ d - 0 \notin 0 .. mayo.m - 1
    BY <1>2
  <2> QED
    BY <2>1 DEF Shift
<1>4. g[mayo.m] = Shift(w, 0)
  BY <1>1, <1>2, <1>3, ShiftType, FoldingStarts
<1>5. ASSUME NEW d \in 0 .. mayo.m - 1 PROVE Shift(w, 0)[0 + d] = w[d]
  <2>1. 0 + d = d /\ d - 0 = d /\ d \in 0 .. Top - 1
    BY <1>2
  <2> QED
    BY <2>1 DEF Shift
<1>6. Slice(Shift(w, 0), 0, mayo.m) = [d \in 0 .. mayo.m - 1 |-> w[d]]
  <2>1. (mayo.m - 0) - 1 = mayo.m - 1
    BY <1>2
  <2> QED
    BY <1>5, <2>1 DEF Slice
<1>7. w = [d \in 0 .. mayo.m - 1 |-> w[d]]
  BY DEF VecOf, SliceOf
<1> QED
  BY <1>1, <1>4, <1>6, <1>7

LEMMA PlusLaws ==
  ASSUME NEW n \in Nat, NEW u \in VecOf(n), NEW w \in VecOf(n), NEW x \in VecOf(n)
  PROVE  /\ Plus(n, u, w) = Plus(n, w, u)
         /\ Plus(n, u, Plus(n, w, x)) = Plus(n, Plus(n, u, w), x)
         /\ Plus(n, u, Zeros(n)) = u /\ Plus(n, Zeros(n), u) = u
         /\ Plus(n, u, u) = Zeros(n) /\ Zeros(n) \in VecOf(n)
<1>1. \A i \in 0 .. n - 1 : u[i] \in Gf16 /\ w[i] \in Gf16 /\ x[i] \in Gf16
  BY VecEntries
<1>2. u = [i \in 0 .. n - 1 |-> u[i]]
  BY DEF VecOf, SliceOf
<1>3. \A i \in 0 .. n - 1 : /\ GfXor(u[i], w[i]) = GfXor(w[i], u[i])
                            /\ GfXor(u[i], 0) = u[i] /\ GfXor(0, u[i]) = u[i] /\ GfXor(u[i], u[i]) = 0
  BY <1>1, XorComm, Neutral
<1>4. \A i \in 0 .. n - 1 : GfXor(u[i], GfXor(w[i], x[i])) = GfXor(GfXor(u[i], w[i]), x[i])
  BY <1>1, XorAssoc
<1>5. Plus(n, u, w) = Plus(n, w, u) /\ Plus(n, u, u) = Zeros(n)
  BY <1>3 DEF Plus, Zeros
<1>6. Plus(n, u, Plus(n, w, x)) = Plus(n, Plus(n, u, w), x)
  BY <1>4 DEF Plus
<1>7. Plus(n, u, Zeros(n)) = u /\ Plus(n, Zeros(n), u) = u
  BY <1>2, <1>3 DEF Plus, Zeros
<1>8. Zeros(n) \in VecOf(n)
  BY FieldType DEF Zeros, VecOf, SliceOf
<1> QED
  BY <1>5, <1>6, <1>7, <1>8

\* The terms of four sums in another order.
LEMMA PlusFour ==
  ASSUME NEW n \in Nat, NEW u \in VecOf(n), NEW w \in VecOf(n), NEW x \in VecOf(n), NEW z \in VecOf(n)
  PROVE  Plus(n, Plus(n, u, w), Plus(n, x, z)) = Plus(n, Plus(n, u, x), Plus(n, w, z))
<1>1. \A i \in 0 .. n - 1 : GfXor(GfXor(u[i], w[i]), GfXor(x[i], z[i]))
                              = GfXor(GfXor(u[i], x[i]), GfXor(w[i], z[i]))
  BY VecEntries, FourTerms
<1> QED
  BY <1>1 DEF Plus

\* A vector times a constant.
Scale(n, u, a) == [i \in 0 .. n - 1 |-> GfMul(u[i], a)]

LEMMA ScaleType ==
  ASSUME NEW n \in Nat, NEW u \in VecOf(n), NEW a \in Gf16
  PROVE  Scale(n, u, a) \in VecOf(n)
<1>1. \A i \in 0 .. n - 1 : GfMul(u[i], a) \in Gf16
  BY VecEntries, FieldType
<1> QED
  BY <1>1 DEF Scale, VecOf, SliceOf

\* The two identities of the field behind it.
LEMMA RoundOfSum ==
  ASSUME NEW p \in Gf16, NEW q \in Gf16, NEW r \in Gf16, NEW s \in Gf16, NEW t \in Gf16
  PROVE  GfXor(GfXor(p, q), GfMul(GfXor(r, s), t)) = GfXor(GfXor(p, GfMul(r, t)), GfXor(q, GfMul(s, t)))
<1>1. GfMul(GfXor(r, s), t) = GfXor(GfMul(r, t), GfMul(s, t))
  <2>1. GfXor(r, s) \in Gf16
    BY FieldType
  <2>2. /\ GfMul(GfXor(r, s), t) = GfMul(t, GfXor(r, s))
        /\ GfMul(r, t) = GfMul(t, r) /\ GfMul(s, t) = GfMul(t, s)
    BY <2>1, MulComm
  <2> QED
    BY <2>2, Distribute
<1>2. GfMul(r, t) \in Gf16 /\ GfMul(s, t) \in Gf16
  BY FieldType
<1> QED
  BY <1>1, <1>2, FourTerms

LEMMA RoundOfMultiple ==
  ASSUME NEW p \in Gf16, NEW r \in Gf16, NEW t \in Gf16, NEW a \in Gf16
  PROVE  GfXor(GfMul(p, a), GfMul(GfMul(r, a), t)) = GfMul(GfXor(p, GfMul(r, t)), a)
<1>1. GfMul(r, t) \in Gf16 /\ GfXor(p, GfMul(r, t)) \in Gf16 /\ GfMul(a, r) \in Gf16
  BY FieldType
<1>2. GfMul(GfMul(r, a), t) = GfMul(a, GfMul(r, t))
  <2>1. GfMul(r, a) = GfMul(a, r)
    BY MulComm
  <2> QED
    BY <2>1, MulAssoc
<1>3. GfMul(a, GfXor(p, GfMul(r, t))) = GfXor(GfMul(a, p), GfMul(a, GfMul(r, t)))
  BY <1>1, Distribute
<1>4. /\ GfMul(a, p) = GfMul(p, a)
      /\ GfMul(a, GfXor(p, GfMul(r, t))) = GfMul(GfXor(p, GfMul(r, t)), a)
  BY <1>1, MulComm
<1> QED
  BY <1>2, <1>3, <1>4

\* A round of the reduction is linear.
LEMMA FoldLinear ==
  ASSUME NEW b \in Polys, NEW c \in Polys, NEW a \in Gf16, NEW i \in mayo.m .. Top - 1
  PROVE  /\ FoldCoefficient(Plus(Top, b, c), i) = Plus(Top, FoldCoefficient(b, i), FoldCoefficient(c, i))
         /\ FoldCoefficient(Scale(Top, b, a), i) = Scale(Top, FoldCoefficient(b, i), a)
<1>0. i \in 0 .. Top - 1 /\ Top \in Nat
  BY ShiftsNat, Sizes
<1>1. /\ DOMAIN b = 0 .. Top - 1 /\ \A d \in 0 .. Top - 1 : b[d] \in Gf16
      /\ DOMAIN c = 0 .. Top - 1 /\ \A d \in 0 .. Top - 1 : c[d] \in Gf16
  BY ShiftsNat, VecEntries DEF Polys
<1>2. ASSUME NEW d \in 0 .. Top - 1
      PROVE  /\ FoldCoefficient(Plus(Top, b, c), i)[d] = GfXor(FoldCoefficient(b, i)[d], FoldCoefficient(c, i)[d])
             /\ FoldCoefficient(Scale(Top, b, a), i)[d] = GfMul(FoldCoefficient(b, i)[d], a)
  <2> DEFINE e == d - (i - mayo.m)
             t == mayo.tailF[e]
             Folded1(s) == IF d = i THEN 0 ELSE IF e \in DOMAIN mayo.tailF THEN GfXor(s[d], GfMul(s[i], t)) ELSE s[d]
  <2>1. /\ FoldCoefficient(b, i)[d] = Folded1(b)
        /\ FoldCoefficient(c, i)[d] = Folded1(c)
    BY <1>1 DEF FoldCoefficient
  <2>2. /\ FoldCoefficient(Plus(Top, b, c), i)[d] = Folded1(Plus(Top, b, c))
        /\ FoldCoefficient(Scale(Top, b, a), i)[d] = Folded1(Scale(Top, b, a))
    BY DEF FoldCoefficient, Plus, Scale
  <2>3. /\ Plus(Top, b, c)[d] = GfXor(b[d], c[d]) /\ Plus(Top, b, c)[i] = GfXor(b[i], c[i])
        /\ Scale(Top, b, a)[d] = GfMul(b[d], a) /\ Scale(Top, b, a)[i] = GfMul(b[i], a)
    BY <1>0 DEF Plus, Scale
  <2>4. b[d] \in Gf16 /\ c[d] \in Gf16 /\ b[i] \in Gf16 /\ c[i] \in Gf16
    BY <1>0, <1>1
  <2>5. CASE d = i
    BY <2>1, <2>2, <2>5, FieldType, Neutral
  <2>6. CASE d # i /\ e \notin DOMAIN mayo.tailF
    BY <2>1, <2>2, <2>3, <2>6
  <2>7. CASE d # i /\ e \in DOMAIN mayo.tailF
    <3>1. t \in Gf16
      BY <2>7, TailEntries
    <3> HIDE DEF t, e
    <3>2. GfXor(GfXor(b[d], c[d]), GfMul(GfXor(b[i], c[i]), t))
            = GfXor(GfXor(b[d], GfMul(b[i], t)), GfXor(c[d], GfMul(c[i], t)))
      <4> DEFINE bd == b[d]
                 cd == c[d]
                 bi == b[i]
                 ci == c[i]
      <4>1. bd \in Gf16 /\ cd \in Gf16 /\ bi \in Gf16 /\ ci \in Gf16
        BY <2>4
      <4> HIDE DEF bd, cd, bi, ci
      <4>2. GfXor(GfXor(bd, cd), GfMul(GfXor(bi, ci), t)) = GfXor(GfXor(bd, GfMul(bi, t)), GfXor(cd, GfMul(ci, t)))
        BY <3>1, <4>1, RoundOfSum
      <4> QED
        BY <4>2 DEF bd, cd, bi, ci
    <3>3. GfXor(GfMul(b[d], a), GfMul(GfMul(b[i], a), t)) = GfMul(GfXor(b[d], GfMul(b[i], t)), a)
      BY <2>4, <3>1, RoundOfMultiple
    <3> QED
      BY <2>1, <2>2, <2>3, <2>7, <3>2, <3>3
  <2> QED
    BY <2>5, <2>6, <2>7
<1>3. /\ FoldCoefficient(Plus(Top, b, c), i) = [d \in 0 .. Top - 1 |-> FoldCoefficient(Plus(Top, b, c), i)[d]]
      /\ FoldCoefficient(Scale(Top, b, a), i) = [d \in 0 .. Top - 1 |-> FoldCoefficient(Scale(Top, b, a), i)[d]]
  BY DEF FoldCoefficient, Plus, Scale
<1>4. FoldCoefficient(Plus(Top, b, c), i) = Plus(Top, FoldCoefficient(b, i), FoldCoefficient(c, i))
  BY <1>2, <1>3 DEF Plus
<1>5. FoldCoefficient(Scale(Top, b, a), i) = Scale(Top, FoldCoefficient(b, i), a)
  BY <1>2, <1>3 DEF Scale
<1> QED
  BY <1>4, <1>5

LEMMA ReduceLinear ==
  ASSUME NEW b \in Polys, NEW c \in Polys, NEW a \in Gf16
  PROVE  /\ reduceVecModF(Plus(Top, b, c)) = Plus(mayo.m, reduceVecModF(b), reduceVecModF(c))
         /\ reduceVecModF(Scale(Top, b, a)) = Scale(mayo.m, reduceVecModF(b), a)
<1>1. PICK g : Folding(b, g) /\ reduceVecModF(b) = Slice(g[mayo.m], 0, mayo.m)
  BY ReductionFolds
<1>2. PICK h : Folding(c, h) /\ reduceVecModF(c) = Slice(h[mayo.m], 0, mayo.m)
  BY ReductionFolds
<1>3. Plus(Top, b, c) \in Polys /\ Scale(Top, b, a) \in Polys
  BY PlusType, ScaleType, ShiftsNat DEF Polys
<1>4. PICK p : /\ Folding(Plus(Top, b, c), p)
               /\ reduceVecModF(Plus(Top, b, c)) = Slice(p[mayo.m], 0, mayo.m)
  BY <1>3, ReductionFolds
<1>5. PICK q : /\ Folding(Scale(Top, b, a), q)
               /\ reduceVecModF(Scale(Top, b, a)) = Slice(q[mayo.m], 0, mayo.m)
  BY <1>3, ReductionFolds
<1>6. mayo.m \in mayo.m .. Top /\ Top \in mayo.m .. Top /\ mayo.m \in Nat /\ Top \in Nat
  BY ShiftsNat, Sizes
<1> DEFINE sum == [i \in mayo.m .. Top |-> Plus(Top, g[i], h[i])]
           multiple == [i \in mayo.m .. Top |-> Scale(Top, g[i], a)]
<1>7. Folding(Plus(Top, b, c), sum)
  <2>1. \A i \in mayo.m .. Top : g[i] \in Polys /\ h[i] \in Polys
    BY <1>1, <1>2 DEF Folding
  <2>2. \A i \in mayo.m .. Top : Plus(Top, g[i], h[i]) \in Polys
    BY <2>1, PlusType, ShiftsNat DEF Polys
  <2>3. ASSUME NEW i \in mayo.m .. Top - 1 PROVE sum[i] = FoldCoefficient(sum[i + 1], i)
    <3>1. i \in mayo.m .. Top /\ i + 1 \in mayo.m .. Top
      BY <1>6
    <3>2. g[i] = FoldCoefficient(g[i + 1], i) /\ h[i] = FoldCoefficient(h[i + 1], i)
      BY <1>1, <1>2 DEF Folding
    <3>3. FoldCoefficient(Plus(Top, g[i + 1], h[i + 1]), i) = Plus(Top, g[i], h[i])
      BY <2>1, <3>1, <3>2, FoldLinear
    <3> QED
      BY <3>1, <3>3
  <2>4. sum[Top] = Plus(Top, b, c)
    BY <1>1, <1>2, <1>6 DEF Folding
  <2>5. sum \in [mayo.m .. Top -> Polys]
    BY <2>2
  <2> HIDE DEF sum
  <2> QED
    BY <2>3, <2>4, <2>5 DEF Folding
<1>8. Folding(Scale(Top, b, a), multiple)
  <2>1. \A i \in mayo.m .. Top : g[i] \in Polys
    BY <1>1 DEF Folding
  <2>2. \A i \in mayo.m .. Top : Scale(Top, g[i], a) \in Polys
    BY <2>1, ScaleType, ShiftsNat DEF Polys
  <2>3. ASSUME NEW i \in mayo.m .. Top - 1 PROVE multiple[i] = FoldCoefficient(multiple[i + 1], i)
    <3>1. i \in mayo.m .. Top /\ i + 1 \in mayo.m .. Top
      BY <1>6
    <3>2. g[i] = FoldCoefficient(g[i + 1], i)
      BY <1>1 DEF Folding
    <3>3. FoldCoefficient(Scale(Top, g[i + 1], a), i) = Scale(Top, g[i], a)
      BY <2>1, <3>1, <3>2, FoldLinear
    <3> QED
      BY <3>1, <3>3
  <2>4. multiple[Top] = Scale(Top, b, a)
    BY <1>1, <1>6 DEF Folding
  <2>5. multiple \in [mayo.m .. Top -> Polys]
    BY <2>2
  <2> HIDE DEF multiple
  <2> QED
    BY <2>3, <2>4, <2>5 DEF Folding
<1>9. sum[mayo.m] = Plus(Top, g[mayo.m], h[mayo.m]) /\ multiple[mayo.m] = Scale(Top, g[mayo.m], a)
  BY <1>6
<1> HIDE DEF sum, multiple
<1>10. p[mayo.m] = sum[mayo.m]
  <2>1. p[Top] = sum[Top]
    BY <1>4, <1>7 DEF Folding
  <2> QED
    BY <1>4, <1>6, <1>7, <2>1, FoldingsAgree
<1>11. q[mayo.m] = multiple[mayo.m]
  <2>1. q[Top] = multiple[Top]
    BY <1>5, <1>8 DEF Folding
  <2> QED
    BY <1>5, <1>6, <1>8, <2>1, FoldingsAgree
<1>12. \A s : Slice(s, 0, mayo.m) = [d \in 0 .. mayo.m - 1 |-> s[d]]
  <2>1. (mayo.m - 0) - 1 = mayo.m - 1 /\ \A d \in 0 .. mayo.m - 1 : 0 + d = d
    BY <1>6
  <2> QED
    BY <2>1 DEF Slice
<1>13. \A d \in 0 .. mayo.m - 1 : d \in 0 .. Top - 1
  BY <1>6, ShiftsNat
<1> DEFINE gm == g[mayo.m]
           hm == h[mayo.m]
<1>14. Slice(Plus(Top, gm, hm), 0, mayo.m) = Plus(mayo.m, Slice(gm, 0, mayo.m), Slice(hm, 0, mayo.m))
  <2> HIDE DEF gm, hm
  <2>1. \A d \in 0 .. mayo.m - 1 : /\ Plus(Top, gm, hm)[d] = GfXor(gm[d], hm[d])
                                  /\ Slice(gm, 0, mayo.m)[d] = gm[d] /\ Slice(hm, 0, mayo.m)[d] = hm[d]
    BY <1>12, <1>13 DEF Plus
  <2>2. Slice(Plus(Top, gm, hm), 0, mayo.m) = [d \in 0 .. mayo.m - 1 |-> Plus(Top, gm, hm)[d]]
    BY <1>12
  <2> QED
    BY <2>1, <2>2 DEF Plus
<1>15. Slice(Scale(Top, gm, a), 0, mayo.m) = Scale(mayo.m, Slice(gm, 0, mayo.m), a)
  <2> HIDE DEF gm
  <2>1. \A d \in 0 .. mayo.m - 1 : /\ Scale(Top, gm, a)[d] = GfMul(gm[d], a)
                                  /\ Slice(gm, 0, mayo.m)[d] = gm[d]
    BY <1>12, <1>13 DEF Scale
  <2>2. Slice(Scale(Top, gm, a), 0, mayo.m) = [d \in 0 .. mayo.m - 1 |-> Scale(Top, gm, a)[d]]
    BY <1>12
  <2> QED
    BY <2>1, <2>2 DEF Scale
<1> QED
  BY <1>1, <1>2, <1>4, <1>5, <1>9, <1>10, <1>11, <1>14, <1>15

(* Recursive functions over an interval *)

RunsUp(a, b, S, base, step, g) ==
  g \in [a .. b -> S] /\ g[a] = base /\ \A j \in a + 1 .. b : g[j] = step[<<j, g[j - 1]>>]

LEMMA RecursionUp ==
  ASSUME NEW a \in Int, NEW b \in Int, a <= b, NEW S, NEW base \in S, NEW step \in [(a .. b) \X S -> S]
  PROVE  \E g : RunsUp(a, b, S, base, step, g)
<1> DEFINE N == b - a
           shifted == [p \in (1 .. N) \X S |-> step[<<a + p[1], p[2]>>]]
<1>1. N \in Nat
  OBVIOUS
<1>2. shifted \in [(1 .. N) \X S -> S]
  <2>1. \A i \in 1 .. N : a + i \in a .. b
    OBVIOUS
  <2> QED
    BY <2>1
<1>3. \A i \in 1 .. N, s \in S : shifted[<<i, s>>] = step[<<a + i, s>>]
  OBVIOUS
<1> HIDE DEF shifted
<1>4. PICK h : Recursion(N, S, base, shifted, h)
  BY <1>1, <1>2, RecursionExists, Zenon
<1> DEFINE g == [j \in a .. b |-> h[j - a]]
<1>5. g \in [a .. b -> S]
  <2>1. \A j \in a .. b : j - a \in 0 .. N
    OBVIOUS
  <2> QED
    BY <1>4, <2>1 DEF Recursion
<1>6. g[a] = base
  <2>1. a \in a .. b /\ a - a = 0
    OBVIOUS
  <2> QED
    BY <1>4, <2>1 DEF Recursion
<1>7. ASSUME NEW j \in a + 1 .. b PROVE g[j] = step[<<j, g[j - 1]>>]
  <2>1. /\ j - a \in 1 .. N /\ (j - a) - 1 = (j - 1) - a /\ a + (j - a) = j
        /\ j \in a .. b /\ j - 1 \in a .. b
    OBVIOUS
  <2>2. h[j - a] = shifted[<<j - a, h[(j - 1) - a]>>]
    BY <1>4, <2>1 DEF Recursion
  <2>3. h[(j - 1) - a] = g[j - 1] /\ h[j - a] = g[j]
    BY <2>1
  <2>4. g[j - 1] \in S
    BY <1>5, <2>1
  <2> HIDE DEF g
  <2> QED
    BY <1>3, <2>1, <2>2, <2>3, <2>4
<1> HIDE DEF g
<1> QED
  BY <1>5, <1>6, <1>7 DEF RunsUp

RunsDown(a, b, S, base, step, g) ==
  g \in [a .. b -> S] /\ g[b] = base /\ \A j \in a .. b - 1 : g[j] = step[<<j, g[j + 1]>>]

LEMMA RecursionDown ==
  ASSUME NEW a \in Int, NEW b \in Int, a <= b, NEW S, NEW base \in S, NEW step \in [(a .. b) \X S -> S]
  PROVE  \E g : RunsDown(a, b, S, base, step, g)
<1> DEFINE back == [p \in (a .. b) \X S |-> step[<<(a + b) - p[1], p[2]>>]]
<1>1. back \in [(a .. b) \X S -> S] /\ \A j \in a .. b, s \in S : back[<<j, s>>] = step[<<(a + b) - j, s>>]
  <2>1. \A j \in a .. b : (a + b) - j \in a .. b
    OBVIOUS
  <2> QED
    BY <2>1
<1> HIDE DEF back
<1>0. PICK h : RunsUp(a, b, S, base, back, h)
  BY <1>1, RecursionUp, Zenon
<1>2. h \in [a .. b -> S] /\ h[a] = base /\ \A j \in a + 1 .. b : h[j] = back[<<j, h[j - 1]>>]
  BY <1>0 DEF RunsUp
<1> DEFINE g == [j \in a .. b |-> h[(a + b) - j]]
<1>3. g \in [a .. b -> S]
  <2>1. \A j \in a .. b : (a + b) - j \in a .. b
    OBVIOUS
  <2> QED
    BY <1>2, <2>1
<1>4. g[b] = base
  <2>1. b \in a .. b /\ (a + b) - b = a
    OBVIOUS
  <2> QED
    BY <1>2, <2>1
<1>5. ASSUME NEW j \in a .. b - 1 PROVE g[j] = step[<<j, g[j + 1]>>]
  <2> DEFINE i == (a + b) - j
  <2>1. /\ i \in a + 1 .. b /\ i \in a .. b /\ i - 1 = (a + b) - (j + 1) /\ (a + b) - i = j
        /\ j \in a .. b /\ j + 1 \in a .. b /\ i - 1 \in a .. b
    OBVIOUS
  <2>2. g[j] = h[i] /\ g[j + 1] = h[i - 1]
    BY <2>1
  <2> HIDE DEF g, i
  <2>3. h[i] = back[<<i, h[i - 1]>>] /\ h[i - 1] \in S
    BY <1>2, <2>1
  <2> QED
    BY <1>1, <2>1, <2>2, <2>3
<1> HIDE DEF g
<1> QED
  BY <1>3, <1>4, <1>5 DEF RunsDown

-----------------------------------------------------------------------------
(* The order of the pairs *)

\* The pairs that come before (i, j) in the loops.
Seen(i, j) == {p \in Pairs : p[1] < i \/ (p[1] = i /\ p[2] > j)}

LEMMA PairsCount ==
  /\ IsFiniteSet(Pairs) /\ Cardinality(Pairs) = mayo.shifts
  /\ \A p \in Pairs : /\ p[1] \in 0 .. mayo.k - 1 /\ p[2] \in 0 .. mayo.k - 1 /\ p[1] <= p[2]
                      /\ p = <<p[1], p[2]>>
<1>1. Pairs = Positions(mayo.k, mayo.k, TRUE)
  BY DEF Pairs, Positions
<1>2. (mayo.k + 1) * mayo.k = mayo.k * (mayo.k + 1)
  BY Sizes
<1>3. Cardinality(Pairs) = mayo.shifts
  BY <1>1, <1>2, Sizes, TriangleCount
<1>4. IsFiniteSet(Pairs)
  BY <1>1, Sizes, PositionsFinite
<1>5. \A p \in Pairs : /\ p[1] \in 0 .. mayo.k - 1 /\ p[2] \in 0 .. mayo.k - 1 /\ p[1] <= p[2]
                       /\ p = <<p[1], p[2]>>
  BY DEF Pairs
<1> QED
  BY <1>3, <1>4, <1>5

LEMMA EllCounts ==
  ASSUME NEW i, NEW j
  PROVE  /\ Ell(i, j) = Cardinality(Seen(i, j))
         /\ Ell(i, j) \in 0 .. mayo.shifts
<1>1. Seen(i, j) \subseteq Pairs
  BY DEF Seen
<1>2. Cardinality(Seen(i, j)) \in Nat /\ Cardinality(Seen(i, j)) <= Cardinality(Pairs)
  <2>1. IsFiniteSet(Seen(i, j)) /\ Cardinality(Seen(i, j)) <= Cardinality(Pairs)
    BY <1>1, PairsCount, FS_Subset
  <2> QED
    BY <2>1, FS_CardinalityType
<1>3. Ell(i, j) = Cardinality(Seen(i, j))
  BY DEF Ell, Seen
<1> QED
  BY <1>2, <1>3, PairsCount, ShiftsNat

LEMMA NextPair ==
  ASSUME NEW i \in 0 .. mayo.k - 1, NEW j \in i .. mayo.k - 1
  PROVE  /\ <<i, j>> \in Pairs /\ <<i, j>> \notin Seen(i, j)
         /\ Seen(i, j - 1) = Seen(i, j) \cup {<<i, j>>}
         /\ Ell(i, j - 1) = Ell(i, j) + 1
<1>1. <<i, j>> \in Pairs
  BY Sizes DEF Pairs
<1>2. <<i, j>> \notin Seen(i, j)
  BY Sizes DEF Seen
<1>3. ASSUME NEW p \in Pairs
      PROVE  p \in Seen(i, j - 1) <=> p \in Seen(i, j) \/ p = <<i, j>>
  <2>1. p[1] \in Int /\ p[2] \in Int /\ p = <<p[1], p[2]>> /\ i \in Int /\ j \in Int
    BY PairsCount, Sizes
  <2>2. p[2] > j - 1 <=> p[2] > j \/ p[2] = j
    BY <2>1
  <2> QED
    BY <2>1, <2>2 DEF Seen
<1>4. Seen(i, j - 1) = Seen(i, j) \cup {<<i, j>>}
  BY <1>1, <1>3 DEF Seen
<1>5. IsFiniteSet(Seen(i, j))
  BY PairsCount, FS_Subset DEF Seen
<1>6. Cardinality(Seen(i, j) \cup {<<i, j>>}) = Cardinality(Seen(i, j)) + 1
  BY <1>2, <1>5, FS_AddElement
<1> QED
  BY <1>1, <1>2, <1>4, <1>6, EllCounts

LEMMA RowsOfPairs ==
  /\ Seen(0, mayo.k - 1) = {} /\ Ell(0, mayo.k - 1) = 0
  /\ Seen(mayo.k, mayo.k - 1) = Pairs
  /\ \A i \in 0 .. mayo.k - 1 : /\ Seen(i, i - 1) = Seen(i + 1, mayo.k - 1)
                                /\ Ell(i, i - 1) = Ell(i + 1, mayo.k - 1)
<1>1. Seen(0, mayo.k - 1) = {}
  BY PairsCount, Sizes DEF Seen
<1>2. Ell(0, mayo.k - 1) = 0
  BY <1>1, EllCounts, FS_EmptySet
<1>3. Seen(mayo.k, mayo.k - 1) = Pairs
  <2>1. \A p \in Pairs : p[1] < mayo.k
    BY PairsCount, Sizes
  <2> QED
    BY <2>1 DEF Seen
<1>4. ASSUME NEW i \in 0 .. mayo.k - 1 PROVE Seen(i, i - 1) = Seen(i + 1, mayo.k - 1)
  <2>1. ASSUME NEW p \in Pairs
        PROVE  (p[1] < i \/ (p[1] = i /\ p[2] > i - 1)) <=> (p[1] < i + 1 \/ (p[1] = i + 1 /\ p[2] > mayo.k - 1))
    BY PairsCount, Sizes
  <2> QED
    BY <2>1 DEF Seen
<1> QED
  BY <1>1, <1>2, <1>3, <1>4, EllCounts

-----------------------------------------------------------------------------
(* Horner's rule over the pairs *)

Families == [Pairs -> VecOf(mayo.m)]

\* The values of from: g[j] is the part of the row up to j, and what follows.
RowOf(u, i, later, g) ==
  /\ g \in [i - 1 .. mayo.k - 1 -> VecOf(mayo.m)] /\ g[i - 1] = later
  /\ \A j \in i .. mayo.k - 1 : g[j] = Plus(mayo.m, u[<<i, j>>], TimesZ(g[j - 1]))

LEMMA HornerRowRuns ==
  ASSUME NEW u \in Families, NEW i \in 0 .. mayo.k - 1, NEW later \in VecOf(mayo.m)
  PROVE  \E g : RowOf(u, i, later, g) /\ HornerRow(u, i, later) = g[mayo.k - 1]
<1> DEFINE V == VecOf(mayo.m)
           a == i - 1
           b == mayo.k - 1
           step == [p \in (a .. b) \X V |->
                      IF p[1] \in i .. b THEN Plus(mayo.m, u[<<i, p[1]>>], TimesZ(p[2])) ELSE later]
           body(f) == [j \in i - 1 .. mayo.k - 1 |->
                         IF j = i - 1 THEN later ELSE AddVec(u[<<i, j>>], TimesZ(f[j - 1]))]
           from == CHOOSE from : from = body(from)
<1>1. a \in Int /\ b \in Int /\ a <= b /\ i \in Int /\ mayo.m \in Nat
  BY Sizes
<1>2. ASSUME NEW j \in i .. b, NEW w \in V
      PROVE  /\ u[<<i, j>>] \in V /\ TimesZ(w) \in V
             /\ Plus(mayo.m, u[<<i, j>>], TimesZ(w)) \in V
             /\ AddVec(u[<<i, j>>], TimesZ(w)) = Plus(mayo.m, u[<<i, j>>], TimesZ(w))
  <2>1. <<i, j>> \in Pairs
    BY NextPair
  <2>2. u[<<i, j>>] \in V /\ TimesZ(w) \in V
    BY <2>1, TimesZType DEF Families
  <2> QED
    BY <1>1, <2>2, PlusType, AddVecIs
<1>3. step \in [(a .. b) \X V -> V]
  <2>1. \A j \in a .. b, w \in V :
          (IF j \in i .. b THEN Plus(mayo.m, u[<<i, j>>], TimesZ(w)) ELSE later) \in V
    BY <1>2
  <2> HIDE DEF V, a, b
  <2> QED
    BY <2>1
<1>4. \A j \in i .. b, w \in V : step[<<j, w>>] = Plus(mayo.m, u[<<i, j>>], TimesZ(w))
  <2>1. \A j \in i .. b : j \in a .. b
    BY <1>1
  <2> HIDE DEF V, a, b
  <2> QED
    BY <2>1
<1> HIDE DEF step
<1>5. PICK g : RunsUp(a, b, V, later, step, g)
  <2> HIDE DEF V, a, b
  <2> QED
    BY <1>1, <1>3, RecursionUp, Zenon DEF V
<1>6. g \in [a .. b -> V] /\ g[a] = later
  BY <1>5 DEF RunsUp
<1>7. ASSUME NEW j \in i .. b
      PROVE  /\ g[j] = Plus(mayo.m, u[<<i, j>>], TimesZ(g[j - 1]))
             /\ g[j] = AddVec(u[<<i, j>>], TimesZ(g[j - 1]))
  <2>1. j \in a + 1 .. b /\ j - 1 \in a .. b
    BY <1>1
  <2>2. g[j] = step[<<j, g[j - 1]>>]
    BY <1>5, <2>1 DEF RunsUp
  <2>3. g[j - 1] \in V
    BY <1>6, <2>1
  <2> HIDE DEF a, b, V
  <2> QED
    BY <1>2, <1>4, <2>2, <2>3
<1>8. g = body(g)
  <2>1. ASSUME NEW j \in i - 1 .. mayo.k - 1
        PROVE  g[j] = IF j = i - 1 THEN later ELSE AddVec(u[<<i, j>>], TimesZ(g[j - 1]))
    <3>1. CASE j = i - 1
      BY <1>6, <3>1
    <3>2. CASE j # i - 1
      <4>1. j \in i .. b
        BY <1>1, <3>2
      <4> QED
        BY <1>7, <3>2, <4>1
    <3> QED
      BY <3>1, <3>2
  <2>2. g = [j \in i - 1 .. mayo.k - 1 |-> g[j]]
    BY <1>6
  <2> QED
    BY <2>1, <2>2
<1>9. from = body(from)
  BY <1>8
<1>10. HornerRow(u, i, later) = from[mayo.k - 1]
  BY Zenon DEF HornerRow
<1> HIDE DEF from
<1>11. \A j \in i - 1 .. mayo.k - 1 :
         from[j] = IF j = i - 1 THEN later ELSE AddVec(u[<<i, j>>], TimesZ(from[j - 1]))
  BY <1>9
<1> DEFINE T == {e \in 0 .. b - a : from[a + e] = g[a + e]}
<1>12. 0 \in T
  <2>1. a + 0 = i - 1 /\ i - 1 \in i - 1 .. mayo.k - 1 /\ 0 \in 0 .. b - a
    BY <1>1
  <2> QED
    BY <1>6, <1>11, <2>1
<1>13. ASSUME NEW e \in 1 .. b - a, e - 1 \in T PROVE e \in T
  <2> DEFINE j == a + e
  <2>1. j \in i .. b /\ j - 1 = a + (e - 1) /\ j # i - 1 /\ j \in i - 1 .. mayo.k - 1
    BY <1>1
  <2>2. from[j - 1] = g[j - 1]
    BY <1>13, <2>1
  <2> HIDE DEF j
  <2>3. from[j] = g[j]
    BY <1>7, <1>11, <2>1, <2>2
  <2> QED
    BY <2>3 DEF j
<1> HIDE DEF T
<1>14. \A e \in 0 .. b - a : e \in T
  <2>1. b - a \in Nat
    BY <1>1
  <2> HIDE DEF a, b
  <2> QED
    BY <2>1, <1>12, <1>13, BoundedInduction, Zenon
<1>15. from[mayo.k - 1] = g[mayo.k - 1]
  <2>1. b - a \in 0 .. b - a /\ a + (b - a) = mayo.k - 1
    BY <1>1
  <2> QED
    BY <1>14, <2>1 DEF T
<1>16. RowOf(u, i, later, g)
  BY <1>6, <1>7 DEF RowOf
<1> QED
  BY <1>10, <1>15, <1>16

\* The sum of z^l u over a set of pairs, before the reduction.
Total(U, S) == [d \in 0 .. Top - 1 |-> SumOf([p \in S |-> Shift(U[p], Ell(p[1], p[2]))[d]])]

LEMMA ShiftLinear ==
  ASSUME NEW u \in VecOf(mayo.m), NEW w \in VecOf(mayo.m), NEW l \in Int
  PROVE  /\ Shift(Plus(mayo.m, u, w), l) = Plus(Top, Shift(u, l), Shift(w, l))
         /\ Shift(Zeros(mayo.m), l) = Zeros(Top)
<1>1. \A d \in 0 .. Top - 1 :
        Shift(Plus(mayo.m, u, w), l)[d] = GfXor(Shift(u, l)[d], Shift(w, l)[d])
  BY FieldType, Neutral DEF Shift, Plus
<1>2. Shift(Plus(mayo.m, u, w), l) = [d \in 0 .. Top - 1 |-> Shift(Plus(mayo.m, u, w), l)[d]]
  BY DEF Shift
<1>3. Shift(Plus(mayo.m, u, w), l) = Plus(Top, Shift(u, l), Shift(w, l))
  BY <1>1, <1>2 DEF Plus
<1>4. Shift(Zeros(mayo.m), l) = Zeros(Top)
  BY DEF Shift, Zeros
<1> QED
  BY <1>3, <1>4

LEMMA TermsType ==
  ASSUME NEW U \in Families, NEW d \in 0 .. Top - 1
  PROVE  [p \in Pairs |-> Shift(U[p], Ell(p[1], p[2]))[d]] \in [Pairs -> Gf16]
<1>1. ASSUME NEW p \in Pairs PROVE Shift(U[p], Ell(p[1], p[2]))[d] \in Gf16
  <2>1. U[p] \in VecOf(mayo.m) /\ Ell(p[1], p[2]) \in Int
    BY EllCounts, ShiftsNat DEF Families
  <2>2. Shift(U[p], Ell(p[1], p[2])) \in VecOf(Top)
    BY <2>1, ShiftType DEF Polys
  <2> QED
    BY <2>2, ShiftsNat, VecEntries
<1> QED
  BY <1>1

LEMMA TotalIsOver ==
  ASSUME NEW U, NEW S \in SUBSET Pairs, NEW d \in 0 .. Top - 1
  PROVE  Total(U, S)[d] = Over([p \in Pairs |-> Shift(U[p], Ell(p[1], p[2]))[d]], S)
<1> DEFINE f == [p \in Pairs |-> Shift(U[p], Ell(p[1], p[2]))[d]]
<1>1. [p \in S |-> Shift(U[p], Ell(p[1], p[2]))[d]] = [p \in S |-> f[p]]
  OBVIOUS
<1> HIDE DEF f
<1>2. Total(U, S)[d] = Over(f, S)
  BY <1>1 DEF Total, Over
<1> QED
  BY <1>2 DEF f

LEMMA TotalType ==
  ASSUME NEW U \in Families, NEW S \in SUBSET Pairs
  PROVE  Total(U, S) \in Polys
<1>1. ASSUME NEW d \in 0 .. Top - 1 PROVE Total(U, S)[d] \in Gf16
  <2> DEFINE f == [p \in Pairs |-> Shift(U[p], Ell(p[1], p[2]))[d]]
  <2>1. f \in [Pairs -> Gf16] /\ Total(U, S)[d] = Over(f, S)
    BY TermsType, TotalIsOver
  <2> HIDE DEF f
  <2> QED
    BY <2>1, PairsCount, OverType
<1>2. Total(U, S) = [d \in 0 .. Top - 1 |-> Total(U, S)[d]]
  BY DEF Total
<1> QED
  BY <1>1, <1>2 DEF Polys, VecOf, SliceOf

LEMMA TotalGrows ==
  ASSUME NEW U \in Families
  PROVE  /\ Total(U, {}) = Zeros(Top)
         /\ \A S \in SUBSET Pairs, q \in Pairs : q \notin S =>
              Total(U, S \cup {q}) = Plus(Top, Shift(U[q], Ell(q[1], q[2])), Total(U, S))
<1>1. Total(U, {}) = Zeros(Top)
  <2>1. ASSUME NEW d \in 0 .. Top - 1 PROVE Total(U, {})[d] = 0
    BY TotalIsOver, OverEmpty
  <2>2. Total(U, {}) = [d \in 0 .. Top - 1 |-> Total(U, {})[d]]
    BY DEF Total
  <2> QED
    BY <2>1, <2>2 DEF Zeros
<1>2. ASSUME NEW S \in SUBSET Pairs, NEW q \in Pairs, q \notin S
      PROVE  Total(U, S \cup {q}) = Plus(Top, Shift(U[q], Ell(q[1], q[2])), Total(U, S))
  <2>1. ASSUME NEW d \in 0 .. Top - 1
        PROVE  Total(U, S \cup {q})[d] = GfXor(Shift(U[q], Ell(q[1], q[2]))[d], Total(U, S)[d])
    <3> DEFINE f == [p \in Pairs |-> Shift(U[p], Ell(p[1], p[2]))[d]]
    <3>1. f \in [Pairs -> Gf16] /\ f[q] = Shift(U[q], Ell(q[1], q[2]))[d]
      BY TermsType
    <3>2. S \cup {q} \in SUBSET Pairs
      OBVIOUS
    <3>3. Total(U, S)[d] = Over(f, S) /\ Total(U, S \cup {q})[d] = Over(f, S \cup {q})
      BY <3>2, TotalIsOver
    <3> HIDE DEF f
    <3>4. Over(f, S \cup {q}) = GfXor(f[q], Over(f, S))
      BY <1>2, <3>1, PairsCount, OverAdd
    <3> QED
      BY <3>1, <3>3, <3>4
  <2>2. Total(U, S \cup {q}) = [d \in 0 .. Top - 1 |-> Total(U, S \cup {q})[d]]
    BY DEF Total
  <2> QED
    BY <2>1, <2>2 DEF Plus
<1> QED
  BY <1>1, <1>2

LEMMA TotalPlus ==
  ASSUME NEW U \in Families, NEW W \in Families
  PROVE  Total([p \in Pairs |-> Plus(mayo.m, U[p], W[p])], Pairs) = Plus(Top, Total(U, Pairs), Total(W, Pairs))
<1> DEFINE X == [p \in Pairs |-> Plus(mayo.m, U[p], W[p])]
<1>1. ASSUME NEW p \in Pairs, NEW d \in 0 .. Top - 1
      PROVE  Shift(X[p], Ell(p[1], p[2]))[d]
               = GfXor(Shift(U[p], Ell(p[1], p[2]))[d], Shift(W[p], Ell(p[1], p[2]))[d])
  <2>1. U[p] \in VecOf(mayo.m) /\ W[p] \in VecOf(mayo.m) /\ Ell(p[1], p[2]) \in Int
    BY EllCounts, ShiftsNat DEF Families
  <2>2. Shift(X[p], Ell(p[1], p[2]))
          = Plus(Top, Shift(U[p], Ell(p[1], p[2])), Shift(W[p], Ell(p[1], p[2])))
    BY <2>1, ShiftLinear
  <2> QED
    BY <2>2 DEF Plus
<1>2. ASSUME NEW d \in 0 .. Top - 1
      PROVE  Total(X, Pairs)[d] = GfXor(Total(U, Pairs)[d], Total(W, Pairs)[d])
  <2> DEFINE f == [p \in Pairs |-> Shift(U[p], Ell(p[1], p[2]))[d]]
             g == [p \in Pairs |-> Shift(W[p], Ell(p[1], p[2]))[d]]
             h == [p \in Pairs |-> Shift(X[p], Ell(p[1], p[2]))[d]]
  <2>1. f \in [Pairs -> Gf16] /\ g \in [Pairs -> Gf16]
    BY TermsType
  <2>2. h = [p \in Pairs |-> GfXor(f[p], g[p])]
    BY <1>1
  <2>3. Total(U, Pairs)[d] = SumOf(f) /\ Total(W, Pairs)[d] = SumOf(g) /\ Total(X, Pairs)[d] = SumOf(h)
    BY DEF Total
  <2> HIDE DEF f, g, h
  <2>4. SumOf([p \in Pairs |-> GfXor(f[p], g[p])]) = GfXor(SumOf(f), SumOf(g))
    BY <2>1, PairsCount, SumXor
  <2> QED
    BY <2>2, <2>3, <2>4
<1>3. Total(X, Pairs) = [d \in 0 .. Top - 1 |-> Total(X, Pairs)[d]]
  BY DEF Total
<1> HIDE DEF X
<1>4. Total(X, Pairs) = Plus(Top, Total(U, Pairs), Total(W, Pairs))
  BY <1>2, <1>3 DEF Plus
<1> QED
  BY <1>4 DEF X

\* The pairs from (i, j) on, reduced, are z^ell w for the w of Horner's rule.
Follows(U, i, j, w) ==
  reduceVecModF(Total(U, Pairs \ Seen(i, j))) = reduceVecModF(Shift(w, Ell(i, j)))

LEMMA HornerStep ==
  ASSUME NEW U \in Families, NEW i \in 0 .. mayo.k - 1, NEW j \in i .. mayo.k - 1,
         NEW w \in VecOf(mayo.m), Follows(U, i, j - 1, w)
  PROVE  Follows(U, i, j, Plus(mayo.m, U[<<i, j>>], TimesZ(w)))
<1> DEFINE l == Ell(i, j)
           q == <<i, j>>
           rest == Pairs \ Seen(i, j - 1)
           V == VecOf(mayo.m)
<1>1. /\ q \in Pairs /\ q \notin rest /\ rest \in SUBSET Pairs
      /\ Pairs \ Seen(i, j) = rest \cup {q} /\ Ell(i, j - 1) = l + 1
  BY NextPair
<1>2. l \in 0 .. mayo.shifts - 1 /\ l \in Int
  BY <1>1, EllCounts, ShiftsNat
<1>3. U[q] \in V /\ w \in V /\ TimesZ(w) \in V /\ Plus(mayo.m, U[q], TimesZ(w)) \in V
  BY <1>1, TimesZType, PlusType, Sizes DEF Families
<1>4. Total(U, Pairs \ Seen(i, j)) = Plus(Top, Shift(U[q], l), Total(U, rest))
  BY <1>1, TotalGrows
<1>5. reduceVecModF(Total(U, Pairs \ Seen(i, j)))
        = Plus(mayo.m, reduceVecModF(Shift(U[q], l)), reduceVecModF(Total(U, rest)))
  BY <1>1, <1>2, <1>3, <1>4, ShiftType, TotalType, ReduceLinear, FieldType
<1>6. reduceVecModF(Total(U, rest)) = reduceVecModF(Shift(TimesZ(w), l))
  BY <1>1, <1>2, ReduceShift DEF Follows
<1>7. Plus(mayo.m, reduceVecModF(Shift(U[q], l)), reduceVecModF(Shift(TimesZ(w), l)))
        = reduceVecModF(Shift(Plus(mayo.m, U[q], TimesZ(w)), l))
  BY <1>2, <1>3, ShiftType, ReduceLinear, ShiftLinear, FieldType
<1> QED
  BY <1>5, <1>6, <1>7 DEF Follows

LEMMA HornerOfRow ==
  ASSUME NEW U \in Families, NEW i \in 0 .. mayo.k - 1, NEW w \in VecOf(mayo.m),
         Follows(U, i + 1, mayo.k - 1, w)
  PROVE  Follows(U, i, mayo.k - 1, HornerRow(U, i, w)) /\ HornerRow(U, i, w) \in VecOf(mayo.m)
<1>1. PICK g : RowOf(U, i, w, g) /\ HornerRow(U, i, w) = g[mayo.k - 1]
  BY HornerRowRuns
<1> DEFINE a == i - 1
           N == mayo.k - i
           T == {e \in 0 .. N : Follows(U, i, a + e, g[a + e])}
<1>2. N \in Nat /\ a \in Int /\ i \in Int /\ mayo.k \in Nat
  BY Sizes
<1>3. 0 \in T
  <2>1. a + 0 = i - 1 /\ 0 \in 0 .. N
    BY <1>2
  <2>2. Follows(U, i, i - 1, w)
    BY RowsOfPairs DEF Follows
  <2> QED
    BY <1>1, <2>1, <2>2 DEF RowOf
<1>4. ASSUME NEW e \in 1 .. N, e - 1 \in T PROVE e \in T
  <2> DEFINE j == a + e
  <2>1. j \in i .. mayo.k - 1 /\ j - 1 = a + (e - 1) /\ j - 1 \in i - 1 .. mayo.k - 1
    BY <1>2
  <2>2. g[j] = Plus(mayo.m, U[<<i, j>>], TimesZ(g[j - 1])) /\ g[j - 1] \in VecOf(mayo.m)
    BY <1>1, <2>1 DEF RowOf
  <2>3. Follows(U, i, j - 1, g[j - 1])
    BY <1>4, <2>1
  <2> HIDE DEF j
  <2>4. Follows(U, i, j, g[j])
    BY <2>1, <2>2, <2>3, HornerStep
  <2> QED
    BY <2>4 DEF j
<1>5. \A e \in 0 .. N : e \in T
  <2> HIDE DEF N, T
  <2> QED
    BY <1>2, <1>3, <1>4, BoundedInduction, Zenon
<1>6. Follows(U, i, mayo.k - 1, g[mayo.k - 1])
  <2>1. N \in 0 .. N /\ a + N = mayo.k - 1
    BY <1>2
  <2> HIDE DEF N, a
  <2> QED
    BY <1>5, <2>1
<1>7. g[mayo.k - 1] \in VecOf(mayo.m)
  BY <1>1, <1>2 DEF RowOf
<1> QED
  BY <1>1, <1>6, <1>7

\* The values of row.
Rows(u, g) ==
  /\ g \in [0 .. mayo.k -> VecOf(mayo.m)] /\ g[mayo.k] = Zeros(mayo.m)
  /\ \A i \in 0 .. mayo.k - 1 : g[i] = HornerRow(u, i, g[i + 1])

LEMMA HornerSumRuns ==
  ASSUME NEW u \in Families
  PROVE  \E g : Rows(u, g) /\ HornerSum(u) = g[0]
<1> DEFINE V == VecOf(mayo.m)
           k == mayo.k
           step == [p \in (0 .. k) \X V |-> IF p[1] \in 0 .. k - 1 THEN HornerRow(u, p[1], p[2]) ELSE p[2]]
           body(f) == [i \in 0 .. mayo.k |-> IF i = mayo.k THEN Zeros(mayo.m) ELSE HornerRow(u, i, f[i + 1])]
           row == CHOOSE row : row = body(row)
<1>1. k \in Nat /\ 0 <= k /\ k \in Int /\ 0 \in Int
  BY Sizes
<1>2. ASSUME NEW i \in 0 .. k - 1, NEW w \in V PROVE HornerRow(u, i, w) \in V
  <2>1. PICK g : RowOf(u, i, w, g) /\ HornerRow(u, i, w) = g[mayo.k - 1]
    BY HornerRowRuns
  <2>2. mayo.k - 1 \in i - 1 .. mayo.k - 1
    BY <1>1
  <2> QED
    BY <2>1, <2>2 DEF RowOf
<1>3. Zeros(mayo.m) \in V
  BY FieldType DEF Zeros, VecOf, SliceOf
<1>4. step \in [(0 .. k) \X V -> V] /\ \A i \in 0 .. k - 1, w \in V : step[<<i, w>>] = HornerRow(u, i, w)
  <2>1. \A i \in 0 .. k - 1 : i \in 0 .. k
    BY <1>1
  <2> HIDE DEF V, k
  <2> QED
    BY <1>2, <2>1
<1> HIDE DEF step
<1>5. PICK g : RunsDown(0, k, V, Zeros(mayo.m), step, g)
  <2> HIDE DEF V, k
  <2> QED
    BY <1>1, <1>3, <1>4, RecursionDown, Zenon
<1>6. g \in [0 .. k -> V] /\ g[k] = Zeros(mayo.m)
  BY <1>5 DEF RunsDown
<1>7. ASSUME NEW i \in 0 .. k - 1 PROVE g[i] = HornerRow(u, i, g[i + 1])
  <2>1. i + 1 \in 0 .. k
    BY <1>1
  <2>2. g[i + 1] \in V
    BY <1>6, <2>1
  <2>3. g[i] = step[<<i, g[i + 1]>>]
    BY <1>5 DEF RunsDown
  <2> QED
    BY <1>4, <2>2, <2>3
<1>8. g = body(g)
  <2>1. ASSUME NEW i \in 0 .. mayo.k
        PROVE  g[i] = IF i = mayo.k THEN Zeros(mayo.m) ELSE HornerRow(u, i, g[i + 1])
    <3>1. i # mayo.k => i \in 0 .. k - 1
      BY <1>1
    <3> QED
      BY <1>6, <1>7, <3>1
  <2>2. g = [i \in 0 .. mayo.k |-> g[i]]
    BY <1>6
  <2> QED
    BY <2>1, <2>2
<1>9. row = body(row)
  BY <1>8
<1>10. HornerSum(u) = row[0]
  BY Zenon DEF HornerSum
<1> HIDE DEF row
<1>11. \A i \in 0 .. mayo.k : row[i] = IF i = mayo.k THEN Zeros(mayo.m) ELSE HornerRow(u, i, row[i + 1])
  BY <1>9
<1> DEFINE T == {e \in 0 .. k : row[k - e] = g[k - e]}
<1>12. 0 \in T
  <2>1. k - 0 = mayo.k /\ mayo.k \in 0 .. mayo.k /\ 0 \in 0 .. k
    BY <1>1
  <2> QED
    BY <1>6, <1>11, <2>1
<1>13. ASSUME NEW e \in 1 .. k, e - 1 \in T PROVE e \in T
  <2> DEFINE i == k - e
  <2>1. i \in 0 .. k - 1 /\ i + 1 = k - (e - 1) /\ i # mayo.k /\ i \in 0 .. mayo.k
    BY <1>1
  <2>2. row[i + 1] = g[i + 1]
    BY <1>13, <2>1
  <2> HIDE DEF i
  <2>3. row[i] = g[i]
    BY <1>7, <1>11, <2>1, <2>2
  <2> QED
    BY <2>3 DEF i
<1>14. \A e \in 0 .. k : e \in T
  <2> HIDE DEF k, T
  <2> QED
    BY <1>1, <1>12, <1>13, BoundedInduction, Zenon
<1>15. row[0] = g[0]
  <2>1. k \in 0 .. k /\ k - k = 0
    BY <1>1
  <2> QED
    BY <1>14, <2>1
<1>16. Rows(u, g)
  BY <1>6, <1>7 DEF Rows
<1> QED
  BY <1>10, <1>15, <1>16

\* The sums of the loops over i and j, reduced, are Horner's rule.
LEMMA ReduceTotal ==
  ASSUME NEW U \in Families
  PROVE  reduceVecModF(Total(U, Pairs)) = HornerSum(U) /\ HornerSum(U) \in VecOf(mayo.m)
<1>1. PICK g : Rows(U, g) /\ HornerSum(U) = g[0]
  BY HornerSumRuns
<1> DEFINE k == mayo.k
           T == {e \in 0 .. k : Follows(U, k - e, mayo.k - 1, g[k - e])}
<1>2. k \in Nat
  BY Sizes
<1>3. 0 \in T
  <2>1. Pairs \ Seen(mayo.k, mayo.k - 1) = {}
    BY RowsOfPairs
  <2>2. Total(U, {}) = Zeros(Top)
    BY TotalGrows
  <2>3. Shift(Zeros(mayo.m), Ell(mayo.k, mayo.k - 1)) = Zeros(Top)
    BY DEF Shift, Zeros
  <2>4. Follows(U, mayo.k, mayo.k - 1, Zeros(mayo.m))
    BY <2>1, <2>2, <2>3 DEF Follows
  <2>5. k - 0 = mayo.k /\ 0 \in 0 .. k
    BY <1>2
  <2> QED
    BY <1>1, <2>4, <2>5 DEF Rows
<1>4. ASSUME NEW e \in 1 .. k, e - 1 \in T PROVE e \in T
  <2> DEFINE i == k - e
  <2>1. i \in 0 .. mayo.k - 1 /\ i + 1 = k - (e - 1) /\ i + 1 \in 0 .. mayo.k
    BY <1>2
  <2>2. g[i + 1] \in VecOf(mayo.m) /\ g[i] = HornerRow(U, i, g[i + 1])
    BY <1>1, <2>1 DEF Rows
  <2>3. Follows(U, i + 1, mayo.k - 1, g[i + 1])
    BY <1>4, <2>1
  <2> HIDE DEF i
  <2>4. Follows(U, i, mayo.k - 1, g[i])
    BY <2>1, <2>2, <2>3, HornerOfRow
  <2> QED
    BY <2>4 DEF i
<1>5. \A e \in 0 .. k : e \in T
  <2> HIDE DEF k, T
  <2> QED
    BY <1>2, <1>3, <1>4, BoundedInduction, Zenon
<1>6. Follows(U, 0, mayo.k - 1, g[0])
  <2>1. k \in 0 .. k /\ k - k = 0
    BY <1>2
  <2> QED
    BY <1>5, <2>1
<1>7. Pairs \ Seen(0, mayo.k - 1) = Pairs /\ Ell(0, mayo.k - 1) = 0
  BY RowsOfPairs
<1>8. g[0] \in VecOf(mayo.m)
  BY <1>1, <1>2 DEF Rows
<1> QED
  BY <1>1, <1>6, <1>7, <1>8, ReduceUnshifted DEF Follows

(* Quadratic forms *)

LEMMA OverSplit ==
  ASSUME NEW D, IsFiniteSet(D), NEW f \in [D -> Gf16],
         NEW S \in SUBSET D, NEW T \in SUBSET D, S \cap T = {}
  PROVE  Over(f, S \cup T) = GfXor(Over(f, S), Over(f, T))
<1> DEFINE g == [i \in S \cup T |-> f[i]]
<1>1. g \in [S \cup T -> Gf16] /\ IsFiniteSet(S) /\ IsFiniteSet(T)
  BY FS_Subset
<1>2. [i \in S |-> f[i]] = [i \in S |-> g[i]] /\ [i \in T |-> f[i]] = [i \in T |-> g[i]]
  OBVIOUS
<1>3. Over(f, S \cup T) = SumOf(g) /\ Over(f, S) = Over(g, S) /\ Over(f, T) = Over(g, T)
  BY <1>2 DEF Over
<1> HIDE DEF g
<1> QED
  BY <1>1, <1>3, SumSplit

Bijects(b, C, D) ==
  /\ b \in [C -> D]
  /\ \A i, j \in C : b[i] = b[j] => i = j
  /\ \A d \in D : \E i \in C : b[i] = d

Moves(f, b, C) == SumOf(f) = SumOf([i \in C |-> f[b[i]]])

LEMMA SumMoves ==
  ASSUME NEW C, NEW D, IsFiniteSet(C), IsFiniteSet(D), NEW f \in [D -> Gf16], NEW b, Bijects(b, C, D)
  PROVE  Moves(f, b, C)
  BY SumMove DEF Bijects, Moves

Splits(f, S, T) == Over(f, S \cup T) = GfXor(Over(f, S), Over(f, T))

LEMMA OverSplits ==
  ASSUME NEW D, IsFiniteSet(D), NEW f \in [D -> Gf16],
         NEW S, NEW T, S \subseteq D, T \subseteq D, S \cap T = {}
  PROVE  Splits(f, S, T)
  BY OverSplit DEF Splits

\* A form with the same entry on both sides of a zero diagonal is zero.
LEMMA Alternating ==
  ASSUME NEW n \in Nat, NEW f \in [(0 .. n - 1) \X (0 .. n - 1) -> Gf16],
         \A i, j \in 0 .. n - 1 : f[<<i, j>>] = f[<<j, i>>],
         \A i \in 0 .. n - 1 : f[<<i, i>>] = 0
  PROVE  SumOf(f) = 0
<1> DEFINE I == 0 .. n - 1
           D == I \X I
           S == {p \in D : p[1] < p[2]}
           T == {p \in D : p[1] > p[2]}
           E == {p \in D : p[1] = p[2]}
           swap == [p \in S |-> <<p[2], p[1]>>]
<1>1. IsFiniteSet(D) /\ IsFiniteSet(S) /\ IsFiniteSet(T) /\ IsFiniteSet(E)
  <2>1. IsFiniteSet(D)
    BY IndicesFinite, FS_Product
  <2>2. S \in SUBSET D /\ T \in SUBSET D /\ E \in SUBSET D
    OBVIOUS
  <2> QED
    BY <2>1, <2>2, FS_Subset
<1>2. /\ S \in SUBSET D /\ T \in SUBSET D /\ E \in SUBSET D /\ S \cup T \in SUBSET D
      /\ S \cap T = {} /\ (S \cup T) \cap E = {} /\ (S \cup T) \cup E = D
  OBVIOUS
<1>3. Over(f, E) = 0
  <2>1. [p \in E |-> f[p]] = [p \in E |-> 0]
    OBVIOUS
  <2> HIDE DEF E
  <2> QED
    BY <1>1, <2>1, SumZero DEF Over
<1>4. Over(f, S) = Over(f, T)
  <2> DEFINE g == [p \in T |-> f[p]]
  <2>1. g \in [T -> Gf16]
    OBVIOUS
  <2>2. swap \in [S -> T] /\ \A p \in S : swap[p] = <<p[2], p[1]>>
    OBVIOUS
  <2>3. \A p, q \in S : swap[p] = swap[q] => p = q
    OBVIOUS
  <2>4. \A d \in T : \E p \in S : swap[p] = d
    <3> TAKE d \in T
    <3>1. <<d[2], d[1]>> \in S /\ swap[<<d[2], d[1]>>] = d
      OBVIOUS
    <3> QED
      BY <3>1
  <2>5. \A p \in S : g[swap[p]] = f[p]
    OBVIOUS
  <2> HIDE DEF g, swap, S, T
  <2>6. Bijects(swap, S, T)
    BY <2>2, <2>3, <2>4 DEF Bijects
  <2>6a. Moves(g, swap, S)
    BY <1>1, <2>1, <2>6, SumMoves
  <2>7. [p \in S |-> g[swap[p]]] = [p \in S |-> f[p]]
    BY <2>5
  <2> QED
    BY <2>6a, <2>7 DEF Over, g, Moves
<1>5. Over(f, S) \in Gf16 /\ Over(f, T) \in Gf16
  BY <1>1, <1>2, OverType
<1> HIDE DEF S, T, E
<1>6. Splits(f, S, T)
  BY <1>1, <1>2, OverSplits
<1>6a. Splits(f, S \cup T, E)
  BY <1>1, <1>2, OverSplits
<1>7. Over(f, D) = SumOf(f)
  BY <1>1, OverType
<1> DEFINE a == Over(f, S)
           e == Over(f, T)
<1>8. a = e /\ a \in Gf16
  BY <1>4, <1>5
<1>9. SumOf(f) = GfXor(GfXor(a, e), 0)
  BY <1>2, <1>3, <1>6, <1>6a, <1>7 DEF Splits
<1> HIDE DEF a, e
<1> QED
  BY <1>8, <1>9, Neutral, FieldType

\* The form of a matrix, as one sum over all its entries.
FormSum(n, M, u, w) ==
  SumOf([p \in (0 .. n - 1) \X (0 .. n - 1) |-> GfMul(u[p[1]], GfMul(M[p[1]][p[2]], w[p[2]]))])

LEMMA FormIsSum ==
  ASSUME NEW n \in Nat, NEW M \in MatOf(n, n), NEW u \in VecOf(n), NEW w \in VecOf(n)
  PROVE  FormSum(n, M, u, w) = Dot(n, u, Apply(M, n, n, w))
<1> DEFINE I == 0 .. n - 1
           f == [p \in I \X I |-> GfMul(u[p[1]], GfMul(M[p[1]][p[2]], w[p[2]]))]
<1>1. /\ \A i \in I : u[i] \in Gf16 /\ w[i] \in Gf16
      /\ \A i, j \in I : M[i][j] \in Gf16
  BY VecEntries, MatEntries
<1>2. f \in [I \X I -> Gf16] /\ IsFiniteSet(I)
  BY <1>1, FieldType, IndicesFinite
<1>3. \A i, j \in I : f[<<i, j>>] = GfMul(u[i], GfMul(M[i][j], w[j]))
  OBVIOUS
<1> HIDE DEF f
<1>4. ASSUME NEW i \in I
      PROVE  GfMul(u[i], Apply(M, n, n, w)[i]) = SumOf([j \in I |-> f[<<i, j>>]])
  <2> DEFINE h == [j \in I |-> GfMul(M[i][j], w[j])]
  <2>1. h \in [I -> Gf16]
    BY <1>1, FieldType
  <2>2. Apply(M, n, n, w)[i] = SumOf(h)
    BY DEF Apply, Dot
  <2>3. [j \in I |-> f[<<i, j>>]] = [j \in I |-> GfMul(u[i], h[j])]
    BY <1>3
  <2> HIDE DEF h, I
  <2>4. SumOf([j \in I |-> GfMul(u[i], h[j])]) = GfMul(u[i], SumOf(h))
    BY <1>1, <1>2, <2>1, SumMul
  <2> QED
    BY <2>2, <2>3, <2>4
<1>5. [i \in I |-> GfMul(u[i], Apply(M, n, n, w)[i])] = [i \in I |-> SumOf([j \in I |-> f[<<i, j>>]])]
  BY <1>4
<1>6. Dot(n, u, Apply(M, n, n, w)) = SumOf([i \in I |-> SumOf([j \in I |-> f[<<i, j>>]])])
  BY <1>5 DEF Dot
<1> HIDE DEF I
<1>7. PairSums(I, I, f)
  BY <1>2, SumPairs
<1>8. SumOf(f) = Dot(n, u, Apply(M, n, n, w))
  BY <1>6, <1>7 DEF PairSums
<1> QED
  BY <1>8, Zenon DEF f, I, FormSum

Form(n, M, u) == Dot(n, u, Apply(M, n, n, u))
\* What two vectors add to the form of their sum.
Cross(n, M, u, w) == GfXor(Dot(n, u, Apply(M, n, n, w)), Dot(n, w, Apply(M, n, n, u)))

LEMMA FormType ==
  ASSUME NEW n \in Nat, NEW M \in MatOf(n, n), NEW u \in VecOf(n), NEW w \in VecOf(n)
  PROVE  /\ Form(n, M, u) \in Gf16 /\ Cross(n, M, u, w) \in Gf16
         /\ Dot(n, u, Apply(M, n, n, w)) \in Gf16
<1>1. Apply(M, n, n, u) \in VecOf(n) /\ Apply(M, n, n, w) \in VecOf(n)
  BY ApplyType
<1> QED
  BY <1>1, DotType, FieldType DEF Form, Cross

LEMMA FormOfSum ==
  ASSUME NEW n \in Nat, NEW M \in MatOf(n, n), NEW u \in VecOf(n), NEW w \in VecOf(n)
  PROVE  Form(n, M, Plus(n, u, w)) = GfXor(GfXor(Form(n, M, u), Form(n, M, w)), Cross(n, M, u, w))
<1> DEFINE p == Apply(M, n, n, u)
           q == Apply(M, n, n, w)
<1>1. p \in VecOf(n) /\ q \in VecOf(n) /\ Plus(n, u, w) \in VecOf(n) /\ Plus(n, p, q) \in VecOf(n)
  BY ApplyType, PlusType
<1>2. Apply(M, n, n, Plus(n, u, w)) = Plus(n, p, q)
  BY ApplyPlus
<1> HIDE DEF p, q
<1>3. Dot(n, Plus(n, u, w), Plus(n, p, q))
        = GfXor(GfXor(Dot(n, u, p), Dot(n, u, q)), GfXor(Dot(n, w, p), Dot(n, w, q)))
  BY <1>1, DotPlus
<1>4. /\ Dot(n, u, p) \in Gf16 /\ Dot(n, u, q) \in Gf16 /\ Dot(n, w, p) \in Gf16 /\ Dot(n, w, q) \in Gf16
  BY <1>1, DotType
<1> DEFINE a == Dot(n, u, p)
           b == Dot(n, u, q)
           c == Dot(n, w, p)
           d == Dot(n, w, q)
<1>5. GfXor(GfXor(a, b), GfXor(c, d)) = GfXor(GfXor(a, d), GfXor(b, c))
  <2> HIDE DEF a, b, c, d
  <2>1. GfXor(c, d) = GfXor(d, c)
    BY <1>4, XorComm DEF c, d
  <2>2. GfXor(GfXor(a, b), GfXor(d, c)) = GfXor(GfXor(a, d), GfXor(b, c))
    BY <1>4, FourTerms DEF a, b, c, d
  <2> QED
    BY <2>1, <2>2
<1> QED
  BY <1>2, <1>3, <1>5 DEF Form, Cross, p, q

\* The upper triangle has the form of the matrix.
LEMMA UpperForm ==
  ASSUME NEW n \in Nat, NEW M \in MatOf(n, n), NEW u \in VecOf(n)
  PROVE  upper(M) \in MatOf(n, n) /\ Form(n, upper(M), u) = Form(n, M, u)
<1> DEFINE I == 0 .. n - 1
           N == upper(M)
           D == PlusAll(N, M, n, n)
<1>1. DOMAIN M = I /\ \A i, j \in I : M[i][j] \in Gf16
  BY MatEntries
<1>2. ASSUME NEW i \in I, NEW j \in I
      PROVE  /\ i < j => N[i][j] = GfXor(M[i][j], M[j][i])
             /\ i = j => N[i][j] = M[i][j]
             /\ i > j => N[i][j] = 0
             /\ N[i][j] \in Gf16
  <2>1. N[i][j] = CASE i < j -> GfXor(M[i][j], M[j][i]) [] i = j -> M[i][j] [] i > j -> 0
    BY <1>1 DEF upper
  <2>2. i < j \/ i = j \/ i > j
    OBVIOUS
  <2>3. CASE i < j
    BY <1>1, <2>1, <2>3, FieldType
  <2>4. CASE i = j
    BY <1>1, <2>1, <2>4, FieldType
  <2>5. CASE i > j
    BY <1>1, <2>1, <2>5, FieldType
  <2> QED
    BY <2>2, <2>3, <2>4, <2>5
<1>3. N \in MatOf(n, n)
  <2>1. N = [i \in I |-> [j \in I |-> N[i][j]]]
    BY <1>1 DEF upper
  <2> HIDE DEF N
  <2> QED
    BY <1>2, <2>1 DEF MatOf, VecOf, SliceOf
<1> HIDE DEF N
<1>4. D \in MatOf(n, n) /\ \A i, j \in I : D[i][j] = GfXor(N[i][j], M[i][j])
  BY <1>3, PlusAllType DEF PlusAll, Plus
<1> HIDE DEF D
<1>5. ASSUME NEW i \in I, NEW j \in I
      PROVE  D[i][j] = D[j][i] /\ D[i][i] = 0
  <2>1. ASSUME NEW a \in I, NEW b \in I, a < b PROVE D[a][b] = M[b][a] /\ D[b][a] = M[b][a]
    <3>1. N[a][b] = GfXor(M[a][b], M[b][a]) /\ N[b][a] = 0
      BY <1>2, <2>1
    <3>2. GfXor(GfXor(M[a][b], M[b][a]), M[a][b]) = M[b][a]
      <4> DEFINE x == M[a][b]
                 z == M[b][a]
      <4>1. x \in Gf16 /\ z \in Gf16
        BY <1>1
      <4> HIDE DEF x, z
      <4>2. GfXor(GfXor(x, z), x) = GfXor(GfXor(z, x), x) /\ GfXor(z, GfXor(x, x)) = GfXor(GfXor(z, x), x)
        BY <4>1, XorComm, XorAssoc
      <4>3. GfXor(z, GfXor(x, x)) = z
        BY <4>1, Neutral
      <4> QED
        BY <4>2, <4>3 DEF x, z
    <3>3. GfXor(0, M[b][a]) = M[b][a]
      BY <1>1, Neutral
    <3> QED
      BY <1>4, <3>1, <3>2, <3>3
  <2>2. D[i][i] = 0
    <3>1. N[i][i] = M[i][i] /\ GfXor(M[i][i], M[i][i]) = 0
      BY <1>1, <1>2, Neutral
    <3> QED
      BY <1>4, <3>1
  <2>3. CASE i < j
    BY <2>1, <2>2, <2>3
  <2>4. CASE i = j
    BY <2>2, <2>4
  <2>5. CASE j < i
    BY <2>1, <2>2, <2>5
  <2> QED
    BY <2>3, <2>4, <2>5
<1>6. Dot(n, u, Apply(D, n, n, u)) = 0
  <2> DEFINE f == [p \in I \X I |-> GfMul(u[p[1]], GfMul(D[p[1]][p[2]], u[p[2]]))]
  <2>1. \A i, j \in I : f[<<i, j>>] = GfMul(u[i], GfMul(D[i][j], u[j]))
    OBVIOUS
  <2>2. /\ \A i \in I : u[i] \in Gf16
        /\ \A i, j \in I : D[i][j] \in Gf16
    BY <1>4, VecEntries, MatEntries
  <2>3. f \in [I \X I -> Gf16]
    BY <2>2, FieldType
  <2> HIDE DEF f
  <2>4. ASSUME NEW i \in I, NEW j \in I PROVE f[<<i, j>>] = f[<<j, i>>]
    <3> DEFINE a == u[i]
               b == u[j]
               d == D[i][j]
    <3>1. a \in Gf16 /\ b \in Gf16 /\ d \in Gf16
      BY <2>2
    <3>2. f[<<i, j>>] = GfMul(a, GfMul(d, b)) /\ f[<<j, i>>] = GfMul(b, GfMul(d, a))
      BY <1>5, <2>1
    <3> HIDE DEF a, b, d
    <3>3. GfMul(a, GfMul(d, b)) = GfMul(GfMul(a, d), b)
      BY <3>1, MulAssoc
    <3>4. GfMul(GfMul(a, d), b) = GfMul(b, GfMul(d, a))
      BY <3>1, MulComm, FieldType
    <3> QED
      BY <3>2, <3>3, <3>4
  <2>5. ASSUME NEW i \in I PROVE f[<<i, i>>] = 0
    <3>1. D[i][i] = 0
      BY <1>5
    <3> QED
      BY <2>1, <2>2, <3>1, Neutral
  <2>6. SumOf(f) = 0
    BY <2>3, <2>4, <2>5, Alternating
  <2> QED
    BY <1>4, <2>6, FormIsSum DEF f, FormSum
<1>7. Apply(D, n, n, u) = Plus(n, Apply(N, n, n, u), Apply(M, n, n, u))
  BY <1>3, ApplyPlusAll DEF D
<1> DEFINE a == Dot(n, u, Apply(N, n, n, u))
           b == Dot(n, u, Apply(M, n, n, u))
<1>8. a \in Gf16 /\ b \in Gf16 /\ GfXor(a, b) = 0
  <2>1. Apply(N, n, n, u) \in VecOf(n) /\ Apply(M, n, n, u) \in VecOf(n)
    BY <1>3, ApplyType
  <2> QED
    BY <1>6, <1>7, <2>1, DotPlus, DotType
<1>9. a = b
  <2> HIDE DEF a, b
  <2>1. GfXor(GfXor(a, b), b) = GfXor(a, GfXor(b, b))
    BY <1>8, XorAssoc
  <2> QED
    BY <1>8, <2>1, Neutral
<1> QED
  BY <1>3, <1>9 DEF Form, N

(* The values Verify and Sign sum up, as forms *)

SquareLists(d) == SliceOf(mayo.m, MatOf(d, d))

\* u of a pair, for matrices and vectors of any size.
PairForms(d, P, s, i, j) ==
  [a \in 0 .. mayo.m - 1 |-> IF i = j THEN Form(d, P[a], s[i]) ELSE Cross(d, P[a], s[i], s[j])]

LEMMA PairValueIs ==
  ASSUME NEW d \in Nat \ {0}, NEW P \in SquareLists(d), NEW s \in SliceOf(mayo.k, VecOf(d)),
         NEW i \in 0 .. mayo.k - 1, NEW j \in 0 .. mayo.k - 1
  PROVE  PairValue(P, s, i, j) = PairForms(d, P, s, i, j)
<1>1. s[i] \in VecOf(d) /\ s[j] \in VecOf(d)
  BY DEF SliceOf
<1> DEFINE u == s[i]
           w == s[j]
           value(M) == IF i = j THEN VecInnerProduct(VectorTransposedMatrixMul(u, M), u)
                       ELSE GfXor(VecInnerProduct(VectorTransposedMatrixMul(u, M), w),
                                  VecInnerProduct(VectorTransposedMatrixMul(w, M), u))
<1>2. ASSUME NEW M \in MatOf(d, d), NEW b \in VecOf(d), NEW c \in VecOf(d)
      PROVE  VecInnerProduct(VectorTransposedMatrixMul(b, M), c) = Dot(d, b, Apply(M, d, d, c))
  <2>1. VectorTransposedMatrixMul(b, M) = Apply(Flip(M, d, d), d, d, b)
    BY VecMatIs
  <2>2. Apply(Flip(M, d, d), d, d, b) \in VecOf(d)
    BY FlipType, ApplyType
  <2>3. VecInnerProduct(Apply(Flip(M, d, d), d, d, b), c) = Dot(d, Apply(Flip(M, d, d), d, d, b), c)
    BY <2>2, InnerIs
  <2> QED
    BY <2>1, <2>3, Adjoint
<1>3. ASSUME NEW a \in 0 .. mayo.m - 1
      PROVE  value(P[a]) = IF i = j THEN Form(d, P[a], u) ELSE Cross(d, P[a], u, w)
  <2>1. P[a] \in MatOf(d, d)
    BY DEF SquareLists, SliceOf
  <2> DEFINE M == P[a]
  <2>2. /\ VecInnerProduct(VectorTransposedMatrixMul(u, M), u) = Dot(d, u, Apply(M, d, d, u))
        /\ VecInnerProduct(VectorTransposedMatrixMul(u, M), w) = Dot(d, u, Apply(M, d, d, w))
        /\ VecInnerProduct(VectorTransposedMatrixMul(w, M), u) = Dot(d, w, Apply(M, d, d, u))
    <3> HIDE DEF M, u, w
    <3> QED
      BY <1>1, <1>2, <2>1 DEF M, u, w
  <2> HIDE DEF M, u, w
  <2>3. CASE i = j
    BY <2>2, <2>3 DEF Form, M
  <2>4. CASE i # j
    BY <2>2, <2>4 DEF Cross, M
  <2> QED
    BY <2>3, <2>4
<1>4. PairValue(P, s, i, j) = [a \in 0 .. mayo.m - 1 |-> value(P[a])]
  BY DEF PairValue
<1> HIDE DEF value
<1> QED
  BY <1>3, <1>4 DEF PairForms

LEMMA PairValueType ==
  ASSUME NEW d \in Nat \ {0}, NEW P \in SquareLists(d), NEW s \in SliceOf(mayo.k, VecOf(d)),
         NEW i \in 0 .. mayo.k - 1, NEW j \in 0 .. mayo.k - 1
  PROVE  PairValue(P, s, i, j) \in VecOf(mayo.m)
<1>1. s[i] \in VecOf(d) /\ s[j] \in VecOf(d) /\ \A a \in 0 .. mayo.m - 1 : P[a] \in MatOf(d, d)
  BY DEF SliceOf, SquareLists
<1>2. \A a \in 0 .. mayo.m - 1 : Form(d, P[a], s[i]) \in Gf16 /\ Cross(d, P[a], s[i], s[j]) \in Gf16
  BY <1>1, FormType
<1>3. PairForms(d, P, s, i, j) \in VecOf(mayo.m)
  BY <1>2 DEF VecOf, SliceOf, PairForms
<1> QED
  BY <1>3, PairValueIs

LEMMA QuadIs ==
  ASSUME NEW P \in SquareLists(mayo.n), NEW s \in VecOf(mayo.n), NEW a \in 0 .. mayo.m - 1
  PROVE  Quad(P, a, s) = Form(mayo.n, P[a], s)
<1>1. P[a] \in MatOf(mayo.n, mayo.n)
  BY DEF SliceOf, SquareLists
<1>2. mayo.n \in Nat
  BY Sizes
<1>3. Quad(P, a, s) = FormSum(mayo.n, P[a], s, s)
  BY Zenon DEF Quad, FormSum
<1> QED
  BY <1>1, <1>2, <1>3, FormIsSum DEF Form

LEMMA FormsAre ==
  ASSUME NEW P \in SquareLists(mayo.n), NEW s \in VecOf(mayo.n)
  PROVE  /\ Forms(P, s) \in VecOf(mayo.m)
         /\ \A a \in 0 .. mayo.m - 1 : Forms(P, s)[a] = Form(mayo.n, P[a], s)
<1>1. \A a \in 0 .. mayo.m - 1 : P[a] \in MatOf(mayo.n, mayo.n)
  BY DEF SliceOf, SquareLists
<1>2. \A a \in 0 .. mayo.m - 1 : Quad(P, a, s) \in Gf16 /\ Quad(P, a, s) = Form(mayo.n, P[a], s)
  BY <1>1, QuadIs, FormType, Sizes
<1> QED
  BY <1>2 DEF Forms, VecOf, SliceOf

\* The value of a pair is what the map needs: P(s_i), or the polar form.
LEMMA PairIsPolar ==
  ASSUME NEW P \in SquareLists(mayo.n), NEW s \in SliceOf(mayo.k, VecOf(mayo.n)),
         NEW i \in 0 .. mayo.k - 1, NEW j \in 0 .. mayo.k - 1
  PROVE  PairValue(P, s, i, j) = PolarForm(P, s, i, j)
<1> DEFINE u == s[i]
           w == s[j]
           n == mayo.n
           I == 0 .. mayo.m - 1
<1>0. mayo.n \in Nat \ {0} /\ mayo.m \in Nat
  BY Sizes
<1>1. u \in VecOf(n) /\ w \in VecOf(n) /\ n \in Nat \ {0} /\ mayo.m \in Nat
  BY <1>0 DEF SliceOf
<1>2. PairValue(P, s, i, j) = [a \in I |-> IF i = j THEN Form(n, P[a], u) ELSE Cross(n, P[a], u, w)]
  BY <1>1, PairValueIs DEF PairForms
<1>3. /\ Forms(P, u) \in VecOf(mayo.m) /\ Forms(P, w) \in VecOf(mayo.m)
      /\ Plus(n, u, w) \in VecOf(n) /\ AddVec(u, w) = Plus(n, u, w)
      /\ Forms(P, Plus(n, u, w)) \in VecOf(mayo.m)
  BY <1>1, FormsAre, PlusType, AddVecIs
<1>4. CASE i = j
  <2>1. PolarForm(P, s, i, j) = Forms(P, u)
    BY <1>4 DEF PolarForm
  <2>2. Forms(P, u) = [a \in I |-> Forms(P, u)[a]]
    BY <1>3 DEF VecOf, SliceOf
  <2>3. \A a \in I : Forms(P, u)[a] = Form(n, P[a], u)
    BY <1>1, FormsAre
  <2>4. PairValue(P, s, i, j) = [a \in I |-> Form(n, P[a], u)]
    BY <1>2, <1>4
  <2> HIDE DEF u, n, I
  <2> QED
    BY <2>1, <2>2, <2>3, <2>4
<1>5. CASE i # j
  <2> DEFINE f == Forms(P, u)
             g == Forms(P, w)
             h == Forms(P, Plus(n, u, w))
  <2>1. PolarForm(P, s, i, j) = Plus(mayo.m, h, Plus(mayo.m, f, g))
    <3>1. PolarForm(P, s, i, j) = AddVec(h, AddVec(f, g))
      BY <1>3, <1>5 DEF PolarForm
    <3> HIDE DEF f, g, h, u, w, n
    <3>2. f \in VecOf(mayo.m) /\ g \in VecOf(mayo.m) /\ h \in VecOf(mayo.m)
      BY <1>3 DEF f, g, h
    <3>3. AddVec(f, g) = Plus(mayo.m, f, g) /\ Plus(mayo.m, f, g) \in VecOf(mayo.m)
      BY <1>1, <3>2, AddVecIs, PlusType
    <3> QED
      BY <1>1, <3>1, <3>2, <3>3, AddVecIs
  <2>2. ASSUME NEW a \in I
        PROVE  GfXor(h[a], GfXor(f[a], g[a])) = Cross(n, P[a], u, w)
    <3>1. P[a] \in MatOf(n, n)
      BY DEF SliceOf, SquareLists
    <3> DEFINE p == Form(n, P[a], u)
               q == Form(n, P[a], w)
               c == Cross(n, P[a], u, w)
    <3>2. f[a] = p /\ g[a] = q /\ h[a] = Form(n, P[a], Plus(n, u, w))
      BY <1>1, <1>3, FormsAre
    <3> HIDE DEF f, g, h, u, w, n
    <3>3. h[a] = GfXor(GfXor(p, q), c) /\ p \in Gf16 /\ q \in Gf16 /\ c \in Gf16
      BY <1>1, <3>1, <3>2, FormOfSum, FormType
    <3> HIDE DEF p, q, c
    <3> DEFINE r == GfXor(p, q)
    <3>4. r \in Gf16
      BY <3>3, FieldType
    <3>5. GfXor(GfXor(r, c), r) = c
      <4> HIDE DEF r
      <4>1. GfXor(GfXor(r, c), r) = GfXor(GfXor(c, r), r) /\ GfXor(c, GfXor(r, r)) = GfXor(GfXor(c, r), r)
        BY <3>3, <3>4, XorComm, XorAssoc
      <4>2. GfXor(c, GfXor(r, r)) = c
        BY <3>3, <3>4, Neutral
      <4> QED
        BY <4>1, <4>2
    <3> QED
      BY <3>2, <3>3, <3>5 DEF c
  <2>3. PairValue(P, s, i, j) = [a \in I |-> Cross(n, P[a], u, w)]
    BY <1>2, <1>5
  <2>4. Plus(mayo.m, h, Plus(mayo.m, f, g)) = [a \in I |-> GfXor(h[a], GfXor(f[a], g[a]))]
    BY DEF Plus
  <2> HIDE DEF f, g, h, u, w, n, I
  <2> QED
    BY <2>1, <2>2, <2>3, <2>4
<1> QED
  BY <1>4, <1>5

PairValues(P, s) == [p \in Pairs |-> PairValue(P, s, p[1], p[2])]

LEMMA PairValuesType ==
  ASSUME NEW d \in Nat \ {0}, NEW P \in SquareLists(d), NEW s \in SliceOf(mayo.k, VecOf(d))
  PROVE  PairValues(P, s) \in Families
<1>1. \A p \in Pairs : p[1] \in 0 .. mayo.k - 1 /\ p[2] \in 0 .. mayo.k - 1
  BY PairsCount
<1>2. \A p \in Pairs : PairValue(P, s, p[1], p[2]) \in VecOf(mayo.m)
  BY <1>1, PairValueType
<1> QED
  BY <1>2 DEF PairValues, Families

LEMMA SubtractIs ==
  ASSUME NEW b \in Polys, NEW P, NEW s
  PROVE  SubtractPairs(b, P, s) = Plus(Top, b, Total(PairValues(P, s), Pairs))
<1> DEFINE u == [p \in Pairs |-> PairValue(P, s, p[1], p[2])]
           T == Total(u, Pairs)
<1>1. DOMAIN b = 0 .. Top - 1
  BY ShiftsNat DEF Polys, VecOf, SliceOf
<1>2. SubtractPairs(b, P, s)
        = [d \in 0 .. Top - 1 |->
             GfXor(b[d], SumOf([p \in Pairs |-> IF d - Ell(p[1], p[2]) \in 0 .. mayo.m - 1
                                                  THEN u[p][d - Ell(p[1], p[2])] ELSE 0]))]
  BY <1>1, Zenon DEF SubtractPairs
<1> HIDE DEF u
<1>3. ASSUME NEW d \in 0 .. Top - 1
      PROVE  T[d] = SumOf([p \in Pairs |-> IF d - Ell(p[1], p[2]) \in 0 .. mayo.m - 1
                                             THEN u[p][d - Ell(p[1], p[2])] ELSE 0])
  <2>1. \A p \in Pairs : Shift(u[p], Ell(p[1], p[2]))[d]
          = IF d - Ell(p[1], p[2]) \in 0 .. mayo.m - 1 THEN u[p][d - Ell(p[1], p[2])] ELSE 0
    BY DEF Shift
  <2>2. T[d] = SumOf([p \in Pairs |-> Shift(u[p], Ell(p[1], p[2]))[d]])
    BY DEF Total
  <2> HIDE DEF T
  <2> QED
    BY <2>1, <2>2
<1> HIDE DEF T
<1>4. SubtractPairs(b, P, s) = [d \in 0 .. Top - 1 |-> GfXor(b[d], T[d])]
  BY <1>2, <1>3
<1> QED
  BY <1>4, Zenon DEF T, u, PairValues, Plus

\* What the reduction of the sums of the code is, whatever they started from.
LEMMA ReducedSums ==
  ASSUME NEW d \in Nat \ {0}, NEW P \in SquareLists(d), NEW s \in SliceOf(mayo.k, VecOf(d)),
         NEW w \in VecOf(mayo.m)
  PROVE  /\ reduceVecModF(SubtractPairs(Shift(w, 0), P, s)) = Plus(mayo.m, w, HornerSum(PairValues(P, s)))
         /\ HornerSum(PairValues(P, s)) \in VecOf(mayo.m)
<1> DEFINE U == PairValues(P, s)
<1>1. U \in Families
  BY PairValuesType
<1>2. Shift(w, 0) \in Polys /\ reduceVecModF(Shift(w, 0)) = w
  BY ShiftType, ReduceUnshifted
<1>3. SubtractPairs(Shift(w, 0), P, s) = Plus(Top, Shift(w, 0), Total(U, Pairs))
  BY <1>2, SubtractIs
<1> HIDE DEF U
<1>4. Total(U, Pairs) \in Polys /\ reduceVecModF(Total(U, Pairs)) = HornerSum(U) /\ HornerSum(U) \in VecOf(mayo.m)
  BY <1>1, TotalType, ReduceTotal
<1>5. reduceVecModF(Plus(Top, Shift(w, 0), Total(U, Pairs))) = Plus(mayo.m, w, HornerSum(U))
  BY <1>2, <1>4, ReduceLinear, FieldType
<1> QED
  BY <1>3, <1>4, <1>5 DEF U

LEMMA PStarIs ==
  ASSUME NEW P \in SquareLists(mayo.n), NEW s \in SliceOf(mayo.k, VecOf(mayo.n))
  PROVE  PStar(P, s) = HornerSum(PairValues(P, s)) /\ PStar(P, s) \in VecOf(mayo.m)
<1>1. \A p \in Pairs : p[1] \in 0 .. mayo.k - 1 /\ p[2] \in 0 .. mayo.k - 1
  BY PairsCount
<1>2. \A p \in Pairs : PairValue(P, s, p[1], p[2]) = PolarForm(P, s, p[1], p[2])
  BY <1>1, PairIsPolar
<1>3. [p \in Pairs |-> PolarForm(P, s, p[1], p[2])] = PairValues(P, s)
  BY <1>2 DEF PairValues
<1>4. PStar(P, s) = HornerSum(PairValues(P, s))
  BY <1>3, Zenon DEF PStar
<1>5. PairValues(P, s) \in Families
  BY PairValuesType, Sizes
<1> QED
  BY <1>4, <1>5, ReduceTotal

\* Verify's loop, which subtracts every u_ij at its running ell, and the in-place
\* reduction modulo f after it compute the MAYO map P*.
THEOREM VerifyComputesPStar ==
  ASSUME NEW P \in SquareLists(mayo.n), NEW s \in SliceOf(mayo.k, VecOf(mayo.n))
  PROVE  reduceVecModF(SubtractPairs(Zeros(mayo.m + mayo.shifts), P, s)) = PStar(P, s)
<1>1. Zeros(mayo.m) \in VecOf(mayo.m) /\ Shift(Zeros(mayo.m), 0) = Zeros(mayo.m + mayo.shifts)
  <2>1. Zeros(mayo.m) \in VecOf(mayo.m)
    BY FieldType DEF Zeros, VecOf, SliceOf
  <2> QED
    BY <2>1, ShiftLinear DEF Top
<1>2. reduceVecModF(SubtractPairs(Shift(Zeros(mayo.m), 0), P, s))
        = Plus(mayo.m, Zeros(mayo.m), HornerSum(PairValues(P, s)))
      /\ HornerSum(PairValues(P, s)) \in VecOf(mayo.m)
  BY <1>1, ReducedSums, Sizes
<1>3. Plus(mayo.m, Zeros(mayo.m), HornerSum(PairValues(P, s))) = HornerSum(PairValues(P, s))
  BY <1>1, <1>2, PlusLaws, Sizes
<1> QED
  BY <1>1, <1>2, <1>3, PStarIs

(* The forms of a key pair *)

LEMMA ConcatType ==
  ASSUME NEW a \in Nat, NEW b \in Nat, NEW S, NEW u \in SliceOf(a, S), NEW w \in SliceOf(b, S)
  PROVE  /\ Concat(u, w) \in SliceOf(a + b, S)
         /\ \A i \in 0 .. a - 1 : Concat(u, w)[i] = u[i]
         /\ \A i \in 0 .. b - 1 : Concat(u, w)[a + i] = w[i]
<1>1. SliceLen(u) = a /\ SliceLen(w) = b
  BY LenOfSlice
<1>2. Concat(u, w) = [i \in 0 .. a + b - 1 |-> IF i < a THEN u[i] ELSE w[i - a]]
  BY <1>1 DEF Concat
<1>3. /\ \A i \in 0 .. a - 1 : u[i] \in S
      /\ \A i \in 0 .. b - 1 : w[i] \in S
  BY DEF SliceOf
<1>4. ASSUME NEW i \in 0 .. a + b - 1
      PROVE  (IF i < a THEN u[i] ELSE w[i - a]) \in S
  <2>1. CASE i < a
    BY <1>3, <2>1
  <2>2. CASE ~(i < a)
    <3>1. i - a \in 0 .. b - 1
      BY <2>2
    <3> QED
      BY <1>3, <2>2, <3>1
  <2> QED
    BY <2>1, <2>2
<1>5. Concat(u, w) \in SliceOf(a + b, S)
  BY <1>2, <1>4 DEF SliceOf
<1>6. \A i \in 0 .. a - 1 : i \in 0 .. a + b - 1 /\ i < a
  OBVIOUS
<1>7. \A i \in 0 .. b - 1 : a + i \in 0 .. a + b - 1 /\ ~(a + i < a) /\ (a + i) - a = i
  OBVIOUS
<1> QED
  BY <1>2, <1>5, <1>6, <1>7

LEMMA ConcatVec ==
  ASSUME NEW a \in Nat, NEW b \in Nat, NEW u \in VecOf(a), NEW w \in VecOf(b)
  PROVE  /\ Concat(u, w) \in VecOf(a + b)
         /\ \A i \in 0 .. a - 1 : Concat(u, w)[i] = u[i]
         /\ \A i \in 0 .. b - 1 : Concat(u, w)[a + i] = w[i]
<1>1. u \in SliceOf(a, Gf16) /\ w \in SliceOf(b, Gf16)
  BY DEF VecOf
<1> QED
  BY <1>1, ConcatType DEF VecOf

LEMMA DotConcat ==
  ASSUME NEW a \in Nat, NEW b \in Nat, NEW u \in VecOf(a), NEW w \in VecOf(b),
         NEW x \in VecOf(a), NEW z \in VecOf(b)
  PROVE  Dot(a + b, Concat(u, w), Concat(x, z)) = GfXor(Dot(a, u, x), Dot(b, w, z))
<1> DEFINE c == Concat(u, w)
           e == Concat(x, z)
           f == [i \in 0 .. a + b - 1 |-> GfMul(c[i], e[i])]
<1>1. /\ c \in VecOf(a + b) /\ e \in VecOf(a + b)
      /\ \A i \in 0 .. a - 1 : c[i] = u[i] /\ e[i] = x[i]
      /\ \A i \in 0 .. b - 1 : c[a + i] = w[i] /\ e[a + i] = z[i]
  BY ConcatVec
<1> HIDE DEF c, e
<1>2. f \in SliceOf(a + b, Gf16)
  BY <1>1, ProductsType DEF SliceOf
<1>3. /\ \A i \in 0 .. a - 1 : f[i] = GfMul(u[i], x[i])
      /\ \A i \in 0 .. b - 1 : f[a + i] = GfMul(w[i], z[i])
  <2>1. \A i \in 0 .. a - 1 : i \in 0 .. a + b - 1
    OBVIOUS
  <2>2. \A i \in 0 .. b - 1 : a + i \in 0 .. a + b - 1
    OBVIOUS
  <2> QED
    BY <1>1, <2>1, <2>2
<1>4. Dot(a + b, c, e) = SumOf(f)
  BY DEF Dot
<1> HIDE DEF f
<1>5. SumOf(f) = GfXor(SumOf([i \in 0 .. a - 1 |-> f[i]]), SumOf([i \in 0 .. b - 1 |-> f[a + i]]))
  BY <1>2, SumConcat
<1>6. /\ [i \in 0 .. a - 1 |-> f[i]] = [i \in 0 .. a - 1 |-> GfMul(u[i], x[i])]
      /\ [i \in 0 .. b - 1 |-> f[a + i]] = [i \in 0 .. b - 1 |-> GfMul(w[i], z[i])]
  BY <1>3
<1>7. SumOf(f) = GfXor(Dot(a, u, x), Dot(b, w, z))
  BY <1>5, <1>6 DEF Dot
<1> QED
  BY <1>4, <1>7 DEF c, e

LEMMA ZerosVec == ASSUME NEW n \in Nat PROVE Zeros(n) \in VecOf(n)
  BY FieldType DEF Zeros, VecOf, SliceOf

LEMMA DotZero ==
  ASSUME NEW n \in Nat, NEW u \in VecOf(n)
  PROVE  Dot(n, Zeros(n), u) = 0 /\ Dot(n, u, Zeros(n)) = 0
<1>1. Zeros(n) \in VecOf(n) /\ IsFiniteSet(0 .. n - 1)
  BY ZerosVec, IndicesFinite
<1>2. \A i \in 0 .. n - 1 : GfMul(Zeros(n)[i], u[i]) = 0
  BY VecEntries, Neutral DEF Zeros
<1>3. [i \in 0 .. n - 1 |-> GfMul(Zeros(n)[i], u[i])] = [i \in 0 .. n - 1 |-> 0]
  BY <1>2
<1>4. Dot(n, Zeros(n), u) = 0
  BY <1>1, <1>3, SumZero DEF Dot
<1> QED
  BY <1>1, <1>4, DotSwap

\* A matrix of the public key, and its three parts.
Blocks(v, o, M, P1, P2, P3) ==
  /\ \A i \in 0 .. v - 1 : M[i] = Concat(P1[i], P2[i])
  /\ \A i \in 0 .. o - 1 : M[v + i] = Concat(Zeros(v), P3[i])

LEMMA BlocksForm ==
  ASSUME NEW v \in Nat, NEW o \in Nat, NEW M,
         NEW P1 \in MatOf(v, v), NEW P2 \in MatOf(v, o), NEW P3 \in MatOf(o, o),
         Blocks(v, o, M, P1, P2, P3), NEW w \in VecOf(v), NEW x \in VecOf(o)
  PROVE  Form(v + o, M, Concat(w, x))
           = GfXor(GfXor(Form(v, P1, w), Dot(v, w, Apply(P2, v, o, x))), Form(o, P3, x))
<1> DEFINE c == Concat(w, x)
           p == Apply(P1, v, v, w)
           q == Apply(P2, v, o, x)
           r == Apply(P3, o, o, x)
<1>1. p \in VecOf(v) /\ q \in VecOf(v) /\ r \in VecOf(o) /\ Plus(v, p, q) \in VecOf(v)
  BY ApplyType, PlusType
<1>2. ASSUME NEW i \in 0 .. v - 1 PROVE Dot(v + o, M[i], c) = Plus(v, p, q)[i]
  <2>1. P1[i] \in VecOf(v) /\ P2[i] \in VecOf(o)
    BY MatEntries
  <2>2. Dot(v + o, Concat(P1[i], P2[i]), c) = GfXor(Dot(v, P1[i], w), Dot(o, P2[i], x))
    BY <2>1, DotConcat
  <2>3. p[i] = Dot(v, P1[i], w) /\ q[i] = Dot(o, P2[i], x)
    BY DEF Apply
  <2>4. Plus(v, p, q)[i] = GfXor(p[i], q[i])
    BY DEF Plus
  <2> QED
    BY <2>2, <2>3, <2>4 DEF Blocks
<1>3. ASSUME NEW i \in 0 .. o - 1 PROVE Dot(v + o, M[v + i], c) = r[i]
  <2>1. P3[i] \in VecOf(o) /\ Zeros(v) \in VecOf(v)
    BY MatEntries, ZerosVec
  <2>2. Dot(v + o, Concat(Zeros(v), P3[i]), c) = GfXor(Dot(v, Zeros(v), w), Dot(o, P3[i], x))
    BY <2>1, DotConcat
  <2>3. Dot(v, Zeros(v), w) = 0 /\ Dot(o, P3[i], x) \in Gf16
    BY <2>1, DotZero, DotType
  <2>4. r[i] = Dot(o, P3[i], x)
    BY DEF Apply
  <2> QED
    BY <2>2, <2>3, <2>4, Neutral DEF Blocks
<1>4. Apply(M, v + o, v + o, c) = Concat(Plus(v, p, q), r)
  <2> DEFINE g == Concat(Plus(v, p, q), r)
  <2>1. /\ g \in VecOf(v + o)
        /\ \A i \in 0 .. v - 1 : g[i] = Plus(v, p, q)[i]
        /\ \A i \in 0 .. o - 1 : g[v + i] = r[i]
    BY <1>1, ConcatVec
  <2>2. g = [i \in 0 .. (v + o) - 1 |-> g[i]]
    BY <2>1 DEF VecOf, SliceOf
  <2> HIDE DEF g, p, q, r, c
  <2>3. ASSUME NEW i \in 0 .. (v + o) - 1 PROVE g[i] = Dot(v + o, M[i], c)
    <3>1. CASE i < v
      BY <1>2, <2>1, <3>1
    <3>2. CASE ~(i < v)
      <4>1. PICK j \in 0 .. o - 1 : i = v + j
        <5>1. i - v \in 0 .. o - 1 /\ i = v + (i - v)
          BY <3>2
        <5> QED
          BY <5>1
      <4> QED
        BY <1>3, <2>1, <4>1
    <3> QED
      BY <3>1, <3>2
  <2>4. g = [i \in 0 .. (v + o) - 1 |-> Dot(v + o, M[i], c)]
    BY <2>2, <2>3
  <2> QED
    BY <2>4 DEF Apply, g
<1>5. Dot(v + o, c, Concat(Plus(v, p, q), r)) = GfXor(Dot(v, w, Plus(v, p, q)), Dot(o, x, r))
  BY <1>1, DotConcat
<1>6. Dot(v, w, Plus(v, p, q)) = GfXor(Dot(v, w, p), Dot(v, w, q))
  BY <1>1, DotPlus
<1> QED
  BY <1>4, <1>5, <1>6 DEF Form

LEMMA OilCancels ==
  ASSUME NEW a \in Gf16, NEW b \in Gf16, NEW c \in Gf16, NEW d \in Gf16, NEW e \in Gf16, NEW f \in Gf16
  PROVE  GfXor(GfXor(GfXor(GfXor(a, b), GfXor(c, d)), GfXor(e, f)), GfXor(b, f))
           = GfXor(a, GfXor(GfXor(c, d), e))
<1> DEFINE s == GfXor(c, d)
           X == GfXor(GfXor(a, b), s)
           Y == GfXor(e, f)
<1>1. s \in Gf16 /\ GfXor(a, b) \in Gf16 /\ Y \in Gf16
  BY FieldType
<1>2. GfXor(X, b) = GfXor(a, s)
  <2> HIDE DEF s
  <2>1. X = GfXor(GfXor(a, s), b) /\ GfXor(a, s) \in Gf16
    <3>1. GfXor(GfXor(a, b), s) = GfXor(a, GfXor(b, s)) /\ GfXor(GfXor(a, s), b) = GfXor(a, GfXor(s, b))
      BY <1>1, XorAssoc
    <3>2. GfXor(b, s) = GfXor(s, b)
      BY <1>1, XorComm
    <3> QED
      BY <1>1, <3>1, <3>2, FieldType
  <2>2. GfXor(GfXor(GfXor(a, s), b), b) = GfXor(GfXor(a, s), GfXor(b, b))
    BY <2>1, XorAssoc
  <2> QED
    BY <2>1, <2>2, Neutral
<1>3. GfXor(Y, f) = e
  <2>1. GfXor(GfXor(e, f), f) = GfXor(e, GfXor(f, f))
    BY XorAssoc
  <2> QED
    BY <2>1, Neutral
<1>4. X \in Gf16
  BY <1>1, FieldType
<1> HIDE DEF X, Y, s
<1>5. GfXor(GfXor(X, Y), GfXor(b, f)) = GfXor(GfXor(X, b), GfXor(Y, f))
  BY <1>1, <1>4, FourTerms
<1>6. GfXor(GfXor(a, s), e) = GfXor(a, GfXor(s, e))
  BY <1>1, XorAssoc
<1> QED
  BY <1>2, <1>3, <1>5, <1>6 DEF X, Y, s

\* The third part of a public matrix and the matrix L, for an oil matrix H.
OilPart(v, o, H, P1, P2) == upper(Times(Flip(H, v, o), PlusAll(Times(P1, H, v, v, o), P2, v, o), o, v, o))
Linear(v, o, H, P1, P2)  == PlusAll(Times(PlusAll(P1, Flip(P1, v, v), v, v), H, v, v, o), P2, v, o)

LEMMA PartsType ==
  ASSUME NEW v \in Nat, NEW o \in Nat, NEW H \in MatOf(v, o), NEW P1 \in MatOf(v, v), NEW P2 \in MatOf(v, o)
  PROVE  OilPart(v, o, H, P1, P2) \in MatOf(o, o) /\ Linear(v, o, H, P1, P2) \in MatOf(v, o)
<1> DEFINE N == PlusAll(Times(P1, H, v, v, o), P2, v, o)
           Q == Times(Flip(H, v, o), N, o, v, o)
           R == PlusAll(P1, Flip(P1, v, v), v, v)
<1>1. N \in MatOf(v, o) /\ Flip(H, v, o) \in MatOf(o, v) /\ Flip(P1, v, v) \in MatOf(v, v)
  BY TimesType, PlusAllType, FlipType
<1>2. R \in MatOf(v, v) /\ Q \in MatOf(o, o)
  <2> HIDE DEF N
  <2> QED
    BY <1>1, PlusAllType, TimesType
<1>3. Times(R, H, v, v, o) \in MatOf(v, o)
  <2> HIDE DEF R
  <2> QED
    BY <1>2, TimesType
<1>4. \A u \in VecOf(o) : upper(Q) \in MatOf(o, o)
  <2> HIDE DEF Q
  <2> QED
    BY <1>2, UpperForm
<1>5. Zeros(o) \in VecOf(o)
  BY ZerosVec
<1> HIDE DEF Q, R, N
<1> QED
  BY <1>3, <1>4, <1>5, PlusAllType DEF OilPart, Linear, Q, R, N

LEMMA FlipFlip ==
  ASSUME NEW r \in Nat, NEW c \in Nat, NEW M \in MatOf(r, c)
  PROVE  Flip(Flip(M, r, c), c, r) = M
<1>1. Flip(Flip(M, r, c), c, r) = [i \in 0 .. r - 1 |-> [j \in 0 .. c - 1 |-> M[i][j]]]
  BY DEF Flip
<1>2. \A i \in 0 .. r - 1 : M[i] = [j \in 0 .. c - 1 |-> M[i][j]]
  BY MatEntries DEF VecOf, SliceOf
<1>3. M = [i \in 0 .. r - 1 |-> M[i]]
  BY DEF MatOf, SliceOf
<1> QED
  BY <1>1, <1>2, <1>3

\* The form of a key at (u + H x, x): the form of P1 at u, and a part linear in x.
LEMMA VinegarForm ==
  ASSUME NEW v \in Nat, NEW o \in Nat, NEW M,
         NEW H \in MatOf(v, o), NEW P1 \in MatOf(v, v), NEW P2 \in MatOf(v, o),
         Blocks(v, o, M, P1, P2, OilPart(v, o, H, P1, P2)), NEW u \in VecOf(v), NEW x \in VecOf(o)
  PROVE  Form(v + o, M, Concat(Plus(v, u, Apply(H, v, o, x)), x))
           = GfXor(Form(v, P1, u), Dot(v, u, Apply(Linear(v, o, H, P1, P2), v, o, x)))
<1> DEFINE h == Apply(H, v, o, x)
           w == Plus(v, u, h)
           p == Apply(P1, v, v, h)
           q == Apply(P2, v, o, x)
           t == Apply(Flip(P1, v, v), v, v, h)
           N == PlusAll(Times(P1, H, v, v, o), P2, v, o)
           Q == Times(Flip(H, v, o), N, o, v, o)
<1>1. /\ h \in VecOf(v) /\ q \in VecOf(v) /\ Times(P1, H, v, v, o) \in MatOf(v, o)
      /\ Flip(P1, v, v) \in MatOf(v, v) /\ Flip(H, v, o) \in MatOf(o, v)
  BY ApplyType, TimesType, FlipType
<1>2. p \in VecOf(v) /\ t \in VecOf(v) /\ w \in VecOf(v) /\ N \in MatOf(v, o)
  <2> HIDE DEF h
  <2> QED
    BY <1>1, ApplyType, PlusType, PlusAllType
<1>3. Apply(N, v, o, x) = Plus(v, p, q)
  <2>1. Apply(Times(P1, H, v, v, o), v, o, x) = p
    BY ApplyTwice
  <2> QED
    BY <1>1, <2>1, ApplyPlusAll
<1>4. Form(o, OilPart(v, o, H, P1, P2), x) = GfXor(Dot(v, h, p), Dot(v, h, q))
  <2> HIDE DEF N
  <2>1. Q \in MatOf(o, o)
    BY <1>1, <1>2, TimesType
  <2>2. Form(o, OilPart(v, o, H, P1, P2), x) = Form(o, Q, x)
    <3> HIDE DEF Q
    <3> QED
      BY <2>1, UpperForm DEF OilPart, N, Q
  <2>3. Apply(Q, o, o, x) = Apply(Flip(H, v, o), o, v, Plus(v, p, q))
    BY <1>1, <1>2, <1>3, ApplyTwice
  <2> DEFINE z == Plus(v, p, q)
  <2>4. z \in VecOf(v)
    <3> HIDE DEF p, q
    <3> QED
      BY <1>1, <1>2, PlusType
  <2>5. Dot(o, x, Apply(Flip(H, v, o), o, v, z)) = Dot(v, h, z)
    <3> HIDE DEF z
    <3>1. Dot(o, x, Apply(Flip(H, v, o), o, v, z)) = Dot(v, Apply(Flip(Flip(H, v, o), o, v), v, o, x), z)
      BY <1>1, <2>4, Adjoint
    <3> QED
      BY <3>1, FlipFlip
  <2>6. Dot(v, h, z) = GfXor(Dot(v, h, p), Dot(v, h, q))
    <3> HIDE DEF h, p, q
    <3> QED
      BY <1>1, <1>2, DotPlus
  <2> QED
    BY <2>2, <2>3, <2>5, <2>6 DEF Form
<1>5. Apply(Linear(v, o, H, P1, P2), v, o, x) = Plus(v, Plus(v, p, t), q)
  <2> DEFINE R == PlusAll(P1, Flip(P1, v, v), v, v)
  <2>1. R \in MatOf(v, v) /\ Apply(R, v, v, h) = Plus(v, p, t)
    <3> HIDE DEF h
    <3> QED
      BY <1>1, PlusAllType, ApplyPlusAll
  <2> HIDE DEF R
  <2>2. Times(R, H, v, v, o) \in MatOf(v, o) /\ Apply(Times(R, H, v, v, o), v, o, x) = Apply(R, v, v, h)
    BY <2>1, TimesType, ApplyTwice
  <2> QED
    BY <2>1, <2>2, ApplyPlusAll DEF Linear, R
<1> DEFINE P3 == OilPart(v, o, H, P1, P2)
<1>6. Form(v + o, M, Concat(w, x)) = GfXor(GfXor(Form(v, P1, w), Dot(v, w, q)), Form(o, P3, x))
  <2>1. P3 \in MatOf(o, o)
    BY PartsType
  <2> HIDE DEF P3, w
  <2> QED
    BY <1>2, <2>1, BlocksForm DEF P3
<1> HIDE DEF h, p, q, t, N, Q
<1> DEFINE a == Form(v, P1, u)
           b == Dot(v, h, p)
           c == Dot(v, u, p)
           d == Dot(v, h, Apply(P1, v, v, u))
           e == Dot(v, u, q)
           f == Dot(v, h, q)
<1>7. a \in Gf16 /\ b \in Gf16 /\ c \in Gf16 /\ d \in Gf16 /\ e \in Gf16 /\ f \in Gf16
  <2>1. Apply(P1, v, v, u) \in VecOf(v)
    BY ApplyType
  <2> QED
    BY <1>1, <1>2, <2>1, DotType, FormType
<1>8. Form(v, P1, w) = GfXor(GfXor(a, b), GfXor(c, d))
  BY <1>1, FormOfSum DEF Form, Cross, p
<1>9. Dot(v, w, q) = GfXor(e, f)
  BY <1>1, DotPlus
<1>10. Dot(v, u, Plus(v, Plus(v, p, t), q)) = GfXor(GfXor(c, d), e)
  <2> DEFINE g == Plus(v, p, t)
  <2>1. g \in VecOf(v)
    BY <1>2, PlusType
  <2>2. Dot(v, u, g) = GfXor(c, Dot(v, u, t))
    BY <1>2, DotPlus
  <2>3. Dot(v, u, t) = d
    <3>1. d = Dot(v, t, u)
      BY <1>1, Adjoint DEF t
    <3> QED
      BY <1>2, <3>1, DotSwap
  <2> HIDE DEF g
  <2>4. Dot(v, u, Plus(v, g, q)) = GfXor(Dot(v, u, g), e)
    BY <1>1, <2>1, DotPlus
  <2> QED
    BY <2>2, <2>3, <2>4 DEF g
<1> HIDE DEF a, b, c, d, e, f, w, P3
<1>11. GfXor(GfXor(GfXor(GfXor(a, b), GfXor(c, d)), GfXor(e, f)), GfXor(b, f))
         = GfXor(a, GfXor(GfXor(c, d), e))
  BY <1>7, OilCancels
<1>12. Form(v + o, M, Concat(w, x)) = GfXor(a, Dot(v, u, Apply(Linear(v, o, H, P1, P2), v, o, x)))
  BY <1>4, <1>5, <1>6, <1>8, <1>9, <1>10, <1>11 DEF b, f, P3
<1> QED
  BY <1>12 DEF a, w, h

(* Byte strings: parts, copies, and what is decoded from them *)

ByteString(n) == SliceOf(n, Bytes)

LEMMA SliceType ==
  ASSUME NEW n \in Nat, NEW S, NEW s \in SliceOf(n, S), NEW a \in Nat, NEW b \in Nat, a <= b, b <= n
  PROVE  /\ Slice(s, a, b) \in SliceOf(b - a, S) /\ b - a \in Nat
         /\ \A i \in 0 .. (b - a) - 1 : Slice(s, a, b)[i] = s[a + i]
<1>1. \A i \in 0 .. b - a - 1 : a + i \in 0 .. n - 1
  OBVIOUS
<1>2. \A i \in 0 .. n - 1 : s[i] \in S
  BY DEF SliceOf
<1>3. \A i \in 0 .. b - a - 1 : s[a + i] \in S
  BY <1>1, <1>2
<1>4. Slice(s, a, b) \in [0 .. (b - a) - 1 -> S]
  BY <1>3 DEF Slice
<1> QED
  BY <1>4 DEF Slice, SliceOf

LEMMA SliceAll ==
  ASSUME NEW n \in Nat, NEW S, NEW s \in SliceOf(n, S)
  PROVE  Slice(s, 0, n) = s
<1>1. n - 0 - 1 = n - 1 /\ \A i \in 0 .. n - 1 : 0 + i = i
  OBVIOUS
<1>2. s = [i \in 0 .. n - 1 |-> s[i]]
  BY DEF SliceOf
<1> QED
  BY <1>1, <1>2 DEF Slice

LEMMA CopyType ==
  ASSUME NEW n \in Nat, NEW l \in Nat, NEW S, NEW dst \in SliceOf(n, S), NEW src \in SliceOf(l, S), NEW at \in Nat
  PROVE  CopyAt(dst, at, src) \in SliceOf(n, S)
<1>1. DOMAIN dst = 0 .. n - 1 /\ DOMAIN src = 0 .. l - 1
  BY DEF SliceOf
<1>2. /\ \A i \in 0 .. n - 1 : dst[i] \in S
      /\ \A i \in 0 .. l - 1 : src[i] \in S
  BY DEF SliceOf
<1> QED
  BY <1>1, <1>2 DEF SliceOf, CopyAt

\* What was copied is read back, and the rest is left alone.
LEMMA CopyRead ==
  ASSUME NEW n \in Nat, NEW l \in Nat, NEW S, NEW dst \in SliceOf(n, S), NEW src \in SliceOf(l, S),
         NEW at \in Nat, at + l <= n
  PROVE  Slice(CopyAt(dst, at, src), at, at + l) = src
<1>1. DOMAIN dst = 0 .. n - 1 /\ DOMAIN src = 0 .. l - 1
  BY DEF SliceOf
<1>2. \A i \in 0 .. l - 1 : at + i \in 0 .. n - 1 /\ (at + i) - at = i
  OBVIOUS
<1>3. \A i \in 0 .. l - 1 : CopyAt(dst, at, src)[at + i] = src[i]
  BY <1>1, <1>2 DEF CopyAt
<1>4. Slice(CopyAt(dst, at, src), at, at + l) = [i \in 0 .. l - 1 |-> CopyAt(dst, at, src)[at + i]]
  BY DEF Slice
<1>5. src = [i \in 0 .. l - 1 |-> src[i]]
  BY DEF SliceOf
<1> QED
  BY <1>3, <1>4, <1>5

LEMMA CopyKeeps ==
  ASSUME NEW n \in Nat, NEW l \in Nat, NEW S, NEW dst \in SliceOf(n, S), NEW src \in SliceOf(l, S),
         NEW at \in Nat, NEW a \in Nat, NEW b \in Nat, a <= b, b <= n, b <= at \/ at + l <= a
  PROVE  Slice(CopyAt(dst, at, src), a, b) = Slice(dst, a, b)
<1>1. DOMAIN dst = 0 .. n - 1 /\ DOMAIN src = 0 .. l - 1
  BY DEF SliceOf
<1>2. \A i \in 0 .. b - a - 1 : a + i \in 0 .. n - 1 /\ (a + i) - at \notin 0 .. l - 1
  OBVIOUS
<1>3. \A i \in 0 .. b - a - 1 : CopyAt(dst, at, src)[a + i] = dst[a + i]
  BY <1>1, <1>2 DEF CopyAt
<1> QED
  BY <1>3 DEF Slice

LEMMA ConcatRead ==
  ASSUME NEW a \in Nat, NEW b \in Nat, NEW S, NEW u \in SliceOf(a, S), NEW w \in SliceOf(b, S)
  PROVE  Slice(Concat(u, w), 0, a) = u /\ Slice(Concat(u, w), a, a + b) = w
<1>1. /\ \A i \in 0 .. a - 1 : Concat(u, w)[i] = u[i]
      /\ \A i \in 0 .. b - 1 : Concat(u, w)[a + i] = w[i]
  BY ConcatType
<1>2. /\ Slice(Concat(u, w), 0, a) = [i \in 0 .. a - 1 |-> Concat(u, w)[0 + i]]
      /\ Slice(Concat(u, w), a, a + b) = [i \in 0 .. b - 1 |-> Concat(u, w)[a + i]]
  BY DEF Slice
<1>3. u = [i \in 0 .. a - 1 |-> u[i]] /\ w = [i \in 0 .. b - 1 |-> w[i]]
  BY DEF SliceOf
<1>4. \A i \in 0 .. a - 1 : 0 + i = i
  OBVIOUS
<1> QED
  BY <1>1, <1>2, <1>3, <1>4

LEMMA ZerosBytes == ASSUME NEW n \in Nat PROVE Zeros(n) \in ByteString(n)
  BY DEF Zeros, ByteString, SliceOf, Bytes

LEMMA HalfUpNat == ASSUME NEW n \in Nat PROVE HalfUp(n) \in Nat /\ 2 * HalfUp(n) >= n /\ HalfUp(n) <= n
  BY DEF HalfUp

LEMMA DecodeVecType ==
  ASSUME NEW n \in Nat, NEW l \in Nat, NEW b \in ByteString(l), HalfUp(n) <= l
  PROVE  decodeVec(n, b) \in VecOf(n)
<1>1. \A i \in 0 .. n - 1 : i \div 2 \in 0 .. l - 1
  BY DEF HalfUp
<1>2. \A i \in 0 .. l - 1 : b[i] \in Bytes
  BY DEF ByteString, SliceOf
<1>3. \A x \in Bytes : x % 16 \in Gf16 /\ x \div 16 \in Gf16
  BY DEF Bytes, Gf16
<1>4. \A i \in 0 .. n - 1 : b[i \div 2] % 16 \in Gf16 /\ b[i \div 2] \div 16 \in Gf16
  BY <1>1, <1>2, <1>3
<1> QED
  BY <1>4 DEF decodeVec, VecOf, SliceOf

\* Bytes behind the last one that is needed do not count.
LEMMA DecodeVecPrefix ==
  ASSUME NEW n \in Nat, NEW l \in Nat, NEW e \in ByteString(HalfUp(n)), NEW w \in ByteString(l)
  PROVE  decodeVec(n, Concat(e, w)) = decodeVec(n, e)
<1>1. \A i \in 0 .. n - 1 : i \div 2 \in 0 .. HalfUp(n) - 1
  BY DEF HalfUp
<1>2. \A i \in 0 .. HalfUp(n) - 1 : Concat(e, w)[i] = e[i]
  BY HalfUpNat, ConcatType DEF ByteString
<1>3. \A i \in 0 .. n - 1 : Concat(e, w)[i \div 2] = e[i \div 2]
  BY <1>1, <1>2
<1> QED
  BY <1>3 DEF decodeVec

LEMMA EncodeVecType ==
  ASSUME NEW n \in Nat, NEW x \in VecOf(n)
  PROVE  encodeVec(x) \in ByteString(HalfUp(n))
<1>1. x \in SliceOf(n, Nibble) /\ SliceLen(x) = n /\ \A i \in 0 .. n - 1 : x[i] \in 0 .. 15
  BY VecEntries DEF VecOf, Nibble, Gf16
<1>2. ASSUME NEW p \in 0 .. HalfUp(n) - 1 PROVE encodeVec(x)[p] \in Bytes
  <2>1. encodeVec(x)[p] = IF 2 * p + 1 < n THEN (x[2 * p + 1] * 16) + x[2 * p] ELSE x[2 * p]
    BY <1>1, EncodedByte DEF HalfUp
  <2>2. 2 * p \in 0 .. n - 1 /\ (2 * p + 1 < n => 2 * p + 1 \in 0 .. n - 1)
    BY DEF HalfUp
  <2>3. \A a, b \in 0 .. 15 : (a * 16) + b \in Bytes /\ b \in Bytes
    BY DEF Bytes
  <2> QED
    BY <1>1, <2>1, <2>2, <2>3
<1>3. encodeVec(x) = [p \in 0 .. HalfUp(n) - 1 |-> encodeVec(x)[p]]
  BY <1>1 DEF encodeVec, HalfUp
<1> QED
  BY <1>2, <1>3 DEF ByteString, SliceOf

LEMMA DecodeMatrixType ==
  ASSUME NEW r \in Nat, NEW c \in Nat, NEW b \in ByteString(HalfUp(r * c))
  PROVE  decodeMatrix(r, c, b) \in MatOf(r, c)
<1> DEFINE n == r * c
           f == decodeVec(n, b)
<1>1. n \in Nat
  OBVIOUS
<1>2. f \in VecOf(n)
  <2> HIDE DEF n
  <2> QED
    BY <1>1, HalfUpNat, DecodeVecType DEF n
<1>3. ASSUME NEW i \in 0 .. r - 1 PROVE Slice(f, i * c, (i + 1) * c) \in VecOf(c)
  <2> DEFINE a == i * c
             d == (i + 1) * c
  <2>1. a \in Nat /\ d \in Nat /\ a <= d /\ d - a = c /\ d <= n
    <3>1. a \in Nat /\ d \in Nat /\ d = a + c
      OBVIOUS
    <3>2. d <= n
      <4>1. PICK e \in Nat : r = (i + 1) + e
        <5>1. r - (i + 1) \in Nat /\ r = (i + 1) + (r - (i + 1))
          OBVIOUS
        <5> QED
          BY <5>1
      <4>2. n = d + (e * c) /\ e * c \in Nat
        BY <4>1
      <4> DEFINE g == e * c
      <4> HIDE DEF d, n, g
      <4>3. n = d + g /\ g \in Nat
        BY <4>2 DEF g
      <4> QED
        BY <3>1, <4>3
    <3> HIDE DEF a, d, n
    <3> QED
      BY <3>1, <3>2
  <2> HIDE DEF a, d, n, f
  <2>2. Slice(f, a, d) \in SliceOf(d - a, Gf16)
    BY <1>1, <1>2, <2>1, SliceType DEF VecOf
  <2> QED
    BY <2>1, <2>2 DEF VecOf, a, d
<1>4. decodeMatrix(r, c, b) = [i \in 0 .. r - 1 |-> Slice(f, i * c, (i + 1) * c)]
  BY DEF decodeMatrix
<1> HIDE DEF f
<1> QED
  BY <1>3, <1>4 DEF MatOf, SliceOf

LEMMA DecodeMatricesType ==
  ASSUME NEW m \in Nat, m % 2 = 0, NEW r \in Nat, NEW c \in Nat, NEW T \in BOOLEAN,
         NEW b \in ByteString(Cardinality(Positions(r, c, T)) * (m \div 2))
  PROVE  decodeMatrices(m, r, c, b, T) \in SliceOf(m, MatOf(r, c))
<1> DEFINE w == m \div 2
           V == Positions(r, c, T)
           N == Cardinality(V)
           vecs == [p \in V |->
                      LET currentIndex == Rank(p, r, c, T) * w
                      IN decodeVec(m, Slice(b, currentIndex, currentIndex + w))]
           back == decodeMatrices(m, r, c, b, T)
<1>1. back = [k \in 0 .. m - 1 |-> [i \in 0 .. r - 1 |-> [j \in 0 .. c - 1 |->
                IF <<i, j>> \in V THEN vecs[<<i, j>>][k] ELSE 0]]]
  BY Zenon DEF decodeMatrices
<1>2. w \in Nat /\ HalfUp(m) = w /\ N \in Nat
  BY HalfOfEven, PositionsFinite DEF HalfUp
<1>3. ASSUME NEW p \in V PROVE vecs[p] \in VecOf(m)
  <2> DEFINE at == Rank(p, r, c, T) * w
             L == N * w
  <2>1. at \in Nat /\ at + w \in Nat /\ at + w <= L /\ L \in Nat /\ (at + w) - at = w
    <3>1. PICK x \in 0 .. N - 1 : x = Rank(p, r, c, T)
      BY RankOwn
    <3>2. at \in Nat /\ L \in Nat
      BY <1>2, <3>1
    <3>3. at + w <= L
      <4>1. PICK e \in Nat : N = (x + 1) + e
        <5>1. N - (x + 1) \in Nat /\ N = (x + 1) + (N - (x + 1))
          BY <1>2
        <5> QED
          BY <5>1
      <4>2. L = (at + w) + (e * w) /\ e * w \in Nat
        BY <1>2, <3>1, <4>1
      <4> DEFINE g == e * w
      <4> HIDE DEF at, L, g, w
      <4>3. L = (at + w) + g /\ g \in Nat
        BY <4>2 DEF g
      <4> QED
        BY <1>2, <3>2, <4>3
    <3> HIDE DEF at, L, w, N
    <3> QED
      BY <1>2, <3>2, <3>3
  <2>2. vecs[p] = decodeVec(m, Slice(b, at, at + w))
    OBVIOUS
  <2>3. b \in SliceOf(L, Bytes)
    BY DEF ByteString
  <2> HIDE DEF vecs, at, L, N, w, V
  <2> DEFINE end == at + w
  <2>4. Slice(b, at, end) \in ByteString(w)
    <3> HIDE DEF end
    <3>1. end \in Nat /\ at <= end /\ end <= L /\ end - at = w
      BY <1>2, <2>1 DEF end
    <3>2. Slice(b, at, end) \in SliceOf(end - at, Bytes)
      BY <2>1, <2>3, <3>1, SliceType, Zenon
    <3> QED
      BY <3>1, <3>2 DEF ByteString
  <2> QED
    BY <1>2, <2>2, <2>4, DecodeVecType
<1>4. \A k \in 0 .. m - 1, i \in 0 .. r - 1, j \in 0 .. c - 1 :
        (IF <<i, j>> \in V THEN vecs[<<i, j>>][k] ELSE 0) \in Gf16
  <2> HIDE DEF V, vecs
  <2> SUFFICES ASSUME NEW k \in 0 .. m - 1, NEW i \in 0 .. r - 1, NEW j \in 0 .. c - 1
               PROVE  (IF <<i, j>> \in V THEN vecs[<<i, j>>][k] ELSE 0) \in Gf16
    OBVIOUS
  <2>1. CASE <<i, j>> \in V
    <3>1. vecs[<<i, j>>] \in VecOf(m)
      BY <1>3, <2>1
    <3> QED
      BY <2>1, <3>1, VecEntries
  <2>2. CASE <<i, j>> \notin V
    BY <2>2, FieldType
  <2> QED
    BY <2>1, <2>2
<1> HIDE DEF V, vecs, back
<1>5. back \in SliceOf(m, MatOf(r, c))
  BY <1>1, <1>4 DEF SliceOf, MatOf, VecOf
<1> QED
  BY <1>5 DEF back

\* Every number below the number of positions is the rank of one.
LEMMA RankOnto ==
  ASSUME NEW r \in Nat, NEW c \in Nat, NEW T
  PROVE  \A x \in 0 .. Cardinality(Positions(r, c, T)) - 1 :
           \E q \in Positions(r, c, T) : Rank(q, r, c, T) = x
<1> DEFINE V == Positions(r, c, T)
           N == Cardinality(V)
           f == [q \in V |-> Rank(q, r, c, T)]
<1>1. IsFiniteSet(V) /\ N \in Nat
  BY PositionsFinite
<1>2. /\ f \in [V -> 0 .. N - 1]
      /\ \A p, q \in V : f[p] = f[q] => p = q
  BY RankOwn
<1>3. \A q \in V : f[q] = Rank(q, r, c, T)
  OBVIOUS
<1> HIDE DEF f
<1>4. IsFiniteSet(0 .. N - 1) /\ Cardinality(0 .. N - 1) = N
  <2> HIDE DEF N
  <2> QED
    BY <1>1, FS_Interval
<1> HIDE DEF V
<1>5. f \in Injection(V, 0 .. N - 1)
  BY <1>2 DEF Injection, IsInjective
<1>6. f \in Surjection(V, 0 .. N - 1)
  BY <1>4, <1>5, FS_Injection
<1>7. \A x \in 0 .. N - 1 : \E q \in V : f[q] = x
  BY <1>6 DEF Surjection
<1> QED
  BY <1>3, <1>7 DEF V

LEMMA OfBlock ==
  ASSUME NEW w \in Nat, NEW n \in Nat, NEW b \in 0 .. (n * w) - 1
  PROVE  /\ b \div w \in 0 .. n - 1 /\ b % w \in 0 .. w - 1
         /\ b = ((b \div w) * w) + (b % w)
<1>1. w > 0
  <2>1. w = 0 => n * w = 0
    OBVIOUS
  <2> QED
    BY <2>1
<1> DEFINE x == b \div w
           i == b % w
<1>2. x \in Nat /\ i \in 0 .. w - 1 /\ b = (x * w) + i
  BY <1>1
<1>3. x < n
  <2>1. SUFFICES ASSUME x >= n PROVE FALSE
    BY <1>2
  <2>2. PICK d \in Nat : x = n + d
    <3>1. x - n \in Nat /\ x = n + (x - n)
      BY <1>2, <2>1
    <3> QED
      BY <3>1
  <2>3. x * w = (n * w) + (d * w) /\ d * w \in Nat /\ n * w \in Nat
    BY <2>2
  <2> DEFINE g == d * w
             h == n * w
             e == x * w
  <2>4. e = h + g /\ g \in Nat /\ h \in Nat /\ b = e + i /\ b \in 0 .. h - 1
    BY <1>2, <2>3
  <2> HIDE DEF g, h, e, x, i
  <2> QED
    BY <1>2, <2>4
<1> QED
  BY <1>2, <1>3

LEMMA EncodeMatricesType ==
  ASSUME NEW m \in Nat, m % 2 = 0, NEW r \in Nat, NEW c \in Nat, NEW T \in BOOLEAN,
         NEW matrices \in SliceOf(m, MatOf(r, c))
  PROVE  encodeMatrices(r, c, matrices, T) \in ByteString(Cardinality(Positions(r, c, T)) * (m \div 2))
<1> DEFINE w == (SliceLen(matrices) + 1) \div 2
           V == Positions(r, c, T)
           N == Cardinality(V)
           vecs == [q \in V |-> encodeVec(Elements(SliceLen(matrices), matrices, q))]
           at == [n \in 0 .. N - 1 |-> CHOOSE q \in V : Rank(q, r, c, T) = n]
           all == encodeMatrices(r, c, matrices, T)
<1>1. SliceLen(matrices) = m /\ w \in Nat /\ w = m \div 2 /\ w = HalfUp(m)
  <2>1. SliceLen(matrices) = m
    BY LenOfSlice
  <2> QED
    BY <2>1, HalfOfEven DEF HalfUp
<1>2. all = [b \in 0 .. (N * w) - 1 |-> vecs[at[b \div w]][b % w]]
  BY Zenon DEF encodeMatrices, Elements
<1>3. N \in Nat /\ V \subseteq (0 .. r - 1) \X (0 .. c - 1) /\ IsFiniteSet(V)
  BY PositionsFinite
<1>4. ASSUME NEW q \in V PROVE vecs[q] \in ByteString(w)
  <2>1. Elements(m, matrices, q) \in VecOf(m)
    <3>1. q[1] \in 0 .. r - 1 /\ q[2] \in 0 .. c - 1
      BY <1>3
    <3>2. \A k \in 0 .. m - 1 : matrices[k] \in MatOf(r, c)
      BY DEF SliceOf
    <3>3. \A k \in 0 .. m - 1 : matrices[k][q[1]][q[2]] \in Gf16
      BY <3>1, <3>2, MatEntries
    <3> QED
      BY <3>3 DEF Elements, VecOf, SliceOf
  <2>2. vecs[q] = encodeVec(Elements(m, matrices, q))
    BY <1>1
  <2> HIDE DEF vecs, w
  <2> QED
    BY <1>1, <2>1, <2>2, EncodeVecType
<1>5. \A x \in 0 .. N - 1 : at[x] \in V
  <2>1. \A x \in 0 .. N - 1 : \E q \in V : Rank(q, r, c, T) = x
    BY RankOnto
  <2> QED
    BY <2>1
<1> HIDE DEF V, N, at, vecs
<1>6. ASSUME NEW b \in 0 .. (N * w) - 1 PROVE all[b] \in Bytes
  <2> DEFINE x == b \div w
             i == b % w
  <2>1. x \in 0 .. N - 1 /\ i \in 0 .. w - 1
    BY <1>1, <1>3, OfBlock
  <2>2. vecs[at[x]] \in ByteString(w)
    BY <1>4, <1>5, <2>1
  <2>3. all[b] = vecs[at[x]][i]
    BY <1>2
  <2> HIDE DEF x, i, all, w
  <2> QED
    BY <2>1, <2>2, <2>3 DEF ByteString, SliceOf
<1> HIDE DEF all
<1>7. all \in [0 .. (N * w) - 1 -> Bytes]
  <2>1. all = [b \in 0 .. (N * w) - 1 |-> all[b]]
    BY <1>2
  <2> HIDE DEF w
  <2> QED
    BY <1>6, <2>1
<1> QED
  BY <1>1, <1>7 DEF ByteString, SliceOf, N, V, all

(* The keys *)

ByteStrings == UNION {ByteString(n) : n \in Nat}

\* What the proofs assume of the parts outside the model: hash and key stream
\* return as many bytes as asked for, seeds and messages are byte strings, and
\* what arrives in place of a signed message is long enough to hold a signature.
Environment ==
  /\ \A l \in Nat, s \in ByteStrings :
       Shake256(l, s) \in ByteString(l) /\ Aes128ctr(s, l) \in ByteString(l)
  /\ \A l \in Nat : RandomBytes(l) \subseteq ByteString(l)
  /\ Messages \subseteq ByteStrings
  /\ \A n \in Nat : n >= mayo.sigBytes =>
       \A s \in ByteString(n) : \A d \in Damage(s) :
         \E l \in Nat : l >= mayo.sigBytes /\ d \in ByteString(l)

LEMMA HalfOfProduct ==
  ASSUME NEW m \in Nat, m % 2 = 0, NEW n \in Nat
  PROVE  (m * n) \div 2 = n * (m \div 2)
<1> DEFINE w == m \div 2
           x == n * w
<1>1. w \in Nat /\ m = 2 * w
  BY HalfOfEven
<1>2. m * n = 2 * x /\ x \in Nat
  BY <1>1
<1>3. \A e \in Nat : (2 * e) \div 2 = e
  OBVIOUS
<1> HIDE DEF x
<1>4. (m * n) \div 2 = x
  BY <1>2, <1>3
<1> QED
  BY <1>4 DEF x

LEMMA ByteSizes ==
  /\ mayo.oBytes = HalfUp(mayo.v * mayo.o) /\ mayo.vBytes = HalfUp(mayo.v)
  /\ mayo.p1Bytes = Cardinality(Positions(mayo.v, mayo.v, TRUE)) * (mayo.m \div 2)
  /\ mayo.p2Bytes = Cardinality(Positions(mayo.v, mayo.o, FALSE)) * (mayo.m \div 2)
  /\ mayo.p3Bytes = Cardinality(Positions(mayo.o, mayo.o, TRUE)) * (mayo.m \div 2)
  /\ mayo.lBytes = mayo.p2Bytes
  /\ mayo.skSeedBytes = mayo.saltBytes /\ mayo.rBytes = mayo.saltBytes
  /\ mayo.eskBytes = mayo.skSeedBytes + mayo.oBytes + mayo.p1Bytes + mayo.lBytes
  /\ mayo.cpkBytes = mayo.pkSeedBytes + mayo.p3Bytes
  /\ mayo.epkBytes = mayo.p1Bytes + mayo.p2Bytes + mayo.p3Bytes
  /\ mayo.sigBytes = HalfUp(mayo.n * mayo.k) + mayo.saltBytes
<1>1. mayo.oBytes = HalfUp(mayo.v * mayo.o) /\ mayo.vBytes = HalfUp(mayo.v)
  BY MayoAssumption, Derived, Sizes DEF ParametersFit
<1>2. /\ mayo.p1Bytes = (mayo.m * ((mayo.v * (mayo.v + 1)) \div 2)) \div 2
      /\ mayo.p2Bytes = (mayo.m * mayo.v * mayo.o) \div 2
      /\ mayo.p3Bytes = (mayo.m * (((mayo.o + 1) * mayo.o) \div 2)) \div 2
      /\ mayo.lBytes = (mayo.m * mayo.v * mayo.o) \div 2
  BY MayoAssumption, Derived, Sizes DEF ParametersFit
<1>3. /\ mayo.skSeedBytes = mayo.saltBytes /\ mayo.rBytes = mayo.saltBytes
      /\ mayo.eskBytes = mayo.skSeedBytes + mayo.oBytes + mayo.p1Bytes + mayo.lBytes
      /\ mayo.cpkBytes = mayo.pkSeedBytes + mayo.p3Bytes
      /\ mayo.epkBytes = mayo.p1Bytes + mayo.p2Bytes + mayo.p3Bytes
      /\ mayo.sigBytes = HalfUp(mayo.n * mayo.k) + mayo.saltBytes
  BY MayoAssumption, Derived DEF ParametersFit
<1>4. /\ mayo.v \in Nat /\ mayo.o \in Nat /\ mayo.m \in Nat /\ mayo.m % 2 = 0
      /\ mayo.v * mayo.o \in Nat
      /\ mayo.v * (mayo.v + 1) = (mayo.v + 1) * mayo.v
      /\ mayo.m * mayo.v * mayo.o = mayo.m * (mayo.v * mayo.o)
  BY Sizes
<1>5. /\ Cardinality(Positions(mayo.v, mayo.v, TRUE)) = ((mayo.v + 1) * mayo.v) \div 2
      /\ Cardinality(Positions(mayo.o, mayo.o, TRUE)) = ((mayo.o + 1) * mayo.o) \div 2
      /\ Cardinality(Positions(mayo.v, mayo.o, FALSE)) = mayo.v * mayo.o
  BY <1>4, TriangleCount, RectangleCount
<1>6. /\ Cardinality(Positions(mayo.v, mayo.v, TRUE)) \in Nat
      /\ Cardinality(Positions(mayo.o, mayo.o, TRUE)) \in Nat
  BY <1>4, PositionsFinite
<1>7. mayo.p1Bytes = Cardinality(Positions(mayo.v, mayo.v, TRUE)) * (mayo.m \div 2)
  <2> DEFINE N == Cardinality(Positions(mayo.v, mayo.v, TRUE))
  <2>1. mayo.p1Bytes = (mayo.m * N) \div 2 /\ N \in Nat
    BY <1>2, <1>4, <1>5, <1>6
  <2> HIDE DEF N
  <2>2. mayo.p1Bytes = N * (mayo.m \div 2)
    BY <1>4, <2>1, HalfOfProduct
  <2> QED
    BY <2>2 DEF N
<1>8. mayo.p3Bytes = Cardinality(Positions(mayo.o, mayo.o, TRUE)) * (mayo.m \div 2)
  <2> DEFINE N == Cardinality(Positions(mayo.o, mayo.o, TRUE))
  <2>1. mayo.p3Bytes = (mayo.m * N) \div 2 /\ N \in Nat
    BY <1>2, <1>4, <1>5, <1>6
  <2> HIDE DEF N
  <2>2. mayo.p3Bytes = N * (mayo.m \div 2)
    BY <1>4, <2>1, HalfOfProduct
  <2> QED
    BY <2>2 DEF N
<1>9. mayo.p2Bytes = Cardinality(Positions(mayo.v, mayo.o, FALSE)) * (mayo.m \div 2) /\ mayo.lBytes = mayo.p2Bytes
  <2> DEFINE N == mayo.v * mayo.o
  <2>1. mayo.p2Bytes = (mayo.m * N) \div 2 /\ N \in Nat /\ mayo.lBytes = mayo.p2Bytes
    BY <1>2, <1>4
  <2> HIDE DEF N
  <2>2. mayo.p2Bytes = N * (mayo.m \div 2)
    BY <1>4, <2>1, HalfOfProduct
  <2> QED
    BY <1>5, <2>1, <2>2 DEF N
<1> QED
  BY <1>1, <1>3, <1>7, <1>8, <1>9

LEMMA BytesNat ==
  /\ mayo.oBytes \in Nat /\ mayo.vBytes \in Nat /\ mayo.p1Bytes \in Nat /\ mayo.p2Bytes \in Nat
  /\ mayo.p3Bytes \in Nat /\ mayo.lBytes \in Nat /\ mayo.skSeedBytes \in Nat /\ mayo.rBytes \in Nat
  /\ mayo.eskBytes \in Nat /\ mayo.cpkBytes \in Nat /\ mayo.epkBytes \in Nat /\ mayo.sigBytes \in Nat
  /\ HalfUp(mayo.n * mayo.k) \in Nat /\ mayo.n * mayo.k \in Nat
<1>1. mayo.v * mayo.o \in Nat /\ mayo.n * mayo.k \in Nat /\ mayo.v \in Nat /\ mayo.m \div 2 \in Nat
  BY Sizes
<1>2. HalfUp(mayo.v * mayo.o) \in Nat /\ HalfUp(mayo.n * mayo.k) \in Nat /\ HalfUp(mayo.v) \in Nat
  BY <1>1, HalfUpNat
<1>3. /\ Cardinality(Positions(mayo.v, mayo.v, TRUE)) \in Nat
      /\ Cardinality(Positions(mayo.v, mayo.o, FALSE)) \in Nat
      /\ Cardinality(Positions(mayo.o, mayo.o, TRUE)) \in Nat
  BY PositionsFinite, Sizes
<1>4. \A a, b \in Nat : a * b \in Nat
  OBVIOUS
<1>5. mayo.p1Bytes \in Nat /\ mayo.p2Bytes \in Nat /\ mayo.p3Bytes \in Nat
  BY <1>1, <1>3, <1>4, ByteSizes
<1>6. mayo.oBytes \in Nat /\ mayo.vBytes \in Nat /\ mayo.lBytes \in Nat
  BY <1>2, <1>5, ByteSizes
<1>7. mayo.skSeedBytes \in Nat /\ mayo.rBytes \in Nat /\ mayo.saltBytes \in Nat /\ mayo.pkSeedBytes \in Nat
  BY ByteSizes, Sizes
<1>8. /\ mayo.eskBytes = mayo.skSeedBytes + mayo.oBytes + mayo.p1Bytes + mayo.lBytes
      /\ mayo.cpkBytes = mayo.pkSeedBytes + mayo.p3Bytes
      /\ mayo.epkBytes = mayo.p1Bytes + mayo.p2Bytes + mayo.p3Bytes
      /\ mayo.sigBytes = HalfUp(mayo.n * mayo.k) + mayo.saltBytes
  BY ByteSizes, Zenon
<1>9. mayo.eskBytes \in Nat /\ mayo.cpkBytes \in Nat /\ mayo.epkBytes \in Nat /\ mayo.sigBytes \in Nat
  BY <1>2, <1>5, <1>6, <1>7, <1>8
<1> QED
  BY <1>1, <1>2, <1>5, <1>6, <1>7, <1>9

Seeds == ByteString(mayo.skSeedBytes)

KeyO(seed)      == DecodeO(DeriveFromSeed(seed).oByteString)
KeyStream(seed) == Aes128ctr(DeriveFromSeed(seed).seedPk, mayo.p1Bytes + mayo.p2Bytes)
KeyP1(seed)     == DecodeP1(Slice(KeyStream(seed), 0, mayo.p1Bytes))
KeyP2(seed)     == DecodeP2(Slice(KeyStream(seed), mayo.p1Bytes, mayo.p1Bytes + mayo.p2Bytes))
KeyP3(seed)     == [a \in 0 .. mayo.m - 1 |->
                      OilPart(mayo.v, mayo.o, KeyO(seed), KeyP1(seed)[a], KeyP2(seed)[a])]
KeyL(seed)      == [a \in 0 .. mayo.m - 1 |->
                      Linear(mayo.v, mayo.o, KeyO(seed), KeyP1(seed)[a], KeyP2(seed)[a])]

Rectangles == SliceOf(mayo.m, MatOf(mayo.v, mayo.o))

LEMMA DecodedTypes ==
  /\ \A b \in ByteString(mayo.oBytes) : DecodeO(b) \in MatOf(mayo.v, mayo.o)
  /\ \A b \in ByteString(mayo.p1Bytes) : DecodeP1(b) \in SquareLists(mayo.v)
  /\ \A b \in ByteString(mayo.p2Bytes) : DecodeP2(b) \in Rectangles
  /\ \A b \in ByteString(mayo.p3Bytes) : DecodeP3(b) \in SquareLists(mayo.o)
<1>1. /\ mayo.m \in Nat /\ mayo.m % 2 = 0 /\ mayo.v \in Nat /\ mayo.o \in Nat
      /\ mayo.n - mayo.o = mayo.v
  BY Sizes
<1>2. ASSUME NEW b \in ByteString(mayo.oBytes) PROVE DecodeO(b) \in MatOf(mayo.v, mayo.o)
  <2>1. b \in ByteString(HalfUp(mayo.v * mayo.o))
    BY ByteSizes
  <2> QED
    BY <1>1, <2>1, DecodeMatrixType DEF DecodeO
<1>3. ASSUME NEW b \in ByteString(mayo.p1Bytes) PROVE DecodeP1(b) \in SquareLists(mayo.v)
  <2>1. b \in ByteString(Cardinality(Positions(mayo.v, mayo.v, TRUE)) * (mayo.m \div 2))
    BY ByteSizes
  <2> QED
    BY <1>1, <2>1, DecodeMatricesType DEF DecodeP1, SquareLists
<1>4. ASSUME NEW b \in ByteString(mayo.p2Bytes) PROVE DecodeP2(b) \in Rectangles
  <2>1. b \in ByteString(Cardinality(Positions(mayo.v, mayo.o, FALSE)) * (mayo.m \div 2))
    BY ByteSizes
  <2> QED
    BY <1>1, <2>1, DecodeMatricesType DEF DecodeP2, Rectangles
<1>5. ASSUME NEW b \in ByteString(mayo.p3Bytes) PROVE DecodeP3(b) \in SquareLists(mayo.o)
  <2>1. b \in ByteString(Cardinality(Positions(mayo.o, mayo.o, TRUE)) * (mayo.m \div 2))
    BY ByteSizes
  <2> QED
    BY <1>1, <2>1, DecodeMatricesType DEF DecodeP3, SquareLists
<1> QED
  BY <1>2, <1>3, <1>4, <1>5

LEMMA InByteStrings == \A n \in Nat : \A s \in ByteString(n) : s \in ByteStrings
  BY DEF ByteStrings

LEMMA DerivedTypes ==
  ASSUME Environment, NEW seed \in Seeds
  PROVE  /\ DeriveFromSeed(seed).seedPk \in ByteString(mayo.pkSeedBytes)
         /\ DeriveFromSeed(seed).oByteString \in ByteString(mayo.oBytes)
         /\ KeyStream(seed) \in ByteString(mayo.p1Bytes + mayo.p2Bytes)
<1> DEFINE a == mayo.pkSeedBytes
           b == a + mayo.oBytes
           S == Shake256(b, seed)
<1>1. a \in Nat /\ b \in Nat /\ 0 <= a /\ a <= b /\ a - 0 = a /\ b - a = mayo.oBytes
  BY BytesNat, Sizes
<1>2. S \in SliceOf(b, Bytes)
  BY <1>1, BytesNat, InByteStrings DEF Environment, Seeds, ByteString
<1>3. DeriveFromSeed(seed).seedPk = Slice(S, 0, a) /\ DeriveFromSeed(seed).oByteString = Slice(S, a, b)
  BY DEF DeriveFromSeed
<1> HIDE DEF S, a, b
<1>4. Slice(S, 0, a) \in SliceOf(a - 0, Bytes) /\ Slice(S, a, b) \in SliceOf(b - a, Bytes)
  BY <1>1, <1>2, SliceType
<1>5. DeriveFromSeed(seed).seedPk \in ByteString(mayo.pkSeedBytes)
  BY <1>1, <1>3, <1>4 DEF ByteString, a
<1>6. DeriveFromSeed(seed).oByteString \in ByteString(mayo.oBytes)
  BY <1>1, <1>3, <1>4 DEF ByteString
<1>7. KeyStream(seed) \in ByteString(mayo.p1Bytes + mayo.p2Bytes)
  <2>1. mayo.p1Bytes + mayo.p2Bytes \in Nat /\ mayo.pkSeedBytes \in Nat
    BY BytesNat, Sizes
  <2> QED
    BY <1>5, <2>1, InByteStrings DEF Environment, KeyStream
<1> QED
  BY <1>5, <1>6, <1>7

LEMMA StreamParts ==
  ASSUME Environment, NEW seed \in Seeds
  PROVE  /\ Slice(KeyStream(seed), 0, mayo.p1Bytes) \in ByteString(mayo.p1Bytes)
         /\ Slice(KeyStream(seed), mayo.p1Bytes, mayo.p1Bytes + mayo.p2Bytes) \in ByteString(mayo.p2Bytes)
<1> DEFINE a == mayo.p1Bytes
           b == mayo.p1Bytes + mayo.p2Bytes
           S == KeyStream(seed)
<1>1. a \in Nat /\ b \in Nat /\ 0 <= a /\ a <= b /\ a - 0 = a /\ b - a = mayo.p2Bytes
  BY BytesNat
<1>2. S \in SliceOf(b, Bytes)
  BY DerivedTypes DEF ByteString
<1> HIDE DEF S, b, a
<1>3. Slice(S, 0, a) \in SliceOf(a - 0, Bytes) /\ Slice(S, a, b) \in SliceOf(b - a, Bytes)
  BY <1>1, <1>2, SliceType
<1> QED
  BY <1>1, <1>3 DEF ByteString, S, a, b

LEMMA KeyTypes ==
  ASSUME Environment, NEW seed \in Seeds
  PROVE  /\ KeyO(seed) \in MatOf(mayo.v, mayo.o)
         /\ KeyP1(seed) \in SquareLists(mayo.v) /\ KeyP2(seed) \in Rectangles
         /\ KeyP3(seed) \in SquareLists(mayo.o) /\ KeyL(seed) \in Rectangles
<1>1. KeyO(seed) \in MatOf(mayo.v, mayo.o)
  BY DerivedTypes, DecodedTypes DEF KeyO
<1>2. KeyP1(seed) \in SquareLists(mayo.v) /\ KeyP2(seed) \in Rectangles
  BY StreamParts, DecodedTypes DEF KeyP1, KeyP2
<1>3. \A a \in 0 .. mayo.m - 1 : KeyP1(seed)[a] \in MatOf(mayo.v, mayo.v) /\ KeyP2(seed)[a] \in MatOf(mayo.v, mayo.o)
  BY <1>2 DEF SquareLists, Rectangles, SliceOf
<1>4. \A a \in 0 .. mayo.m - 1 :
        /\ OilPart(mayo.v, mayo.o, KeyO(seed), KeyP1(seed)[a], KeyP2(seed)[a]) \in MatOf(mayo.o, mayo.o)
        /\ Linear(mayo.v, mayo.o, KeyO(seed), KeyP1(seed)[a], KeyP2(seed)[a]) \in MatOf(mayo.v, mayo.o)
  BY <1>1, <1>3, PartsType, Sizes
<1>5. KeyP3(seed) \in SquareLists(mayo.o)
  BY <1>4 DEF KeyP3, SquareLists, SliceOf
<1>6. KeyL(seed) \in Rectangles
  BY <1>4 DEF KeyL, Rectangles, SliceOf
<1> QED
  BY <1>1, <1>2, <1>5, <1>6

\* The matrices the code multiplies out are the parts of the forms.
LEMMA CodeParts ==
  ASSUME NEW v \in Nat \ {0}, NEW o \in Nat \ {0},
         NEW H \in MatOf(v, o), NEW P1 \in MatOf(v, v), NEW P2 \in MatOf(v, o)
  PROVE  /\ upper(MultiplyMatrices(transposeMatrix(H), AddMatrices(MultiplyMatrices(P1, H), P2)))
              = OilPart(v, o, H, P1, P2)
         /\ AddMatrices(MultiplyMatrices(AddMatrices(P1, transposeMatrix(P1)), H), P2)
              = Linear(v, o, H, P1, P2)
<1> DEFINE N == Times(P1, H, v, v, o)
           F == Flip(P1, v, v)
           R == PlusAll(P1, F, v, v)
           Q == Times(R, H, v, v, o)
           E == PlusAll(N, P2, v, o)
           G == Flip(H, v, o)
<1>1. transposeMatrix(H) = G /\ transposeMatrix(P1) = F /\ MultiplyMatrices(P1, H) = N
  BY TransposeIs, MultiplyIs
<1>2. N \in MatOf(v, o) /\ F \in MatOf(v, v) /\ G \in MatOf(o, v)
  BY TimesType, FlipType
<1> HIDE DEF N, F, G
<1>3. AddMatrices(N, P2) = E /\ E \in MatOf(v, o) /\ AddMatrices(P1, F) = R /\ R \in MatOf(v, v)
  BY <1>2, AddMatricesIs, PlusAllType
<1> HIDE DEF E, R
<1>4. MultiplyMatrices(G, E) = Times(G, E, o, v, o) /\ MultiplyMatrices(R, H) = Q /\ Q \in MatOf(v, o)
  BY <1>2, <1>3, MultiplyIs, TimesType
<1> HIDE DEF Q
<1>5. AddMatrices(Q, P2) = PlusAll(Q, P2, v, o)
  BY <1>4, AddMatricesIs
<1>6. upper(MultiplyMatrices(transposeMatrix(H), AddMatrices(MultiplyMatrices(P1, H), P2)))
        = OilPart(v, o, H, P1, P2)
  BY <1>1, <1>3, <1>4, Zenon DEF OilPart, N, E, G
<1>7. AddMatrices(MultiplyMatrices(AddMatrices(P1, transposeMatrix(P1)), H), P2) = Linear(v, o, H, P1, P2)
  BY <1>1, <1>3, <1>4, <1>5, Zenon DEF Linear, Q, R, F
<1> QED
  BY <1>6, <1>7

LEMMA OilPartZero ==
  ASSUME NEW v \in Nat, NEW o \in Nat, NEW H \in MatOf(v, o), NEW P1 \in MatOf(v, v), NEW P2 \in MatOf(v, o),
         NEW i \in 0 .. o - 1, NEW j \in 0 .. o - 1, i > j
  PROVE  OilPart(v, o, H, P1, P2)[i][j] = 0
<1> DEFINE N == PlusAll(Times(P1, H, v, v, o), P2, v, o)
           Q == Times(Flip(H, v, o), N, o, v, o)
<1>1. DOMAIN Q = 0 .. o - 1
  BY DEF Times
<1>2. OilPart(v, o, H, P1, P2) = upper(Q)
  BY DEF OilPart
<1> HIDE DEF Q
<1>3. upper(Q)[i][j] = CASE i < j -> GfXor(Q[i][j], Q[j][i]) [] i = j -> Q[i][j] [] i > j -> 0
  BY <1>1 DEF upper
<1>4. upper(Q)[i][j] = 0
  BY <1>3
<1> QED
  BY <1>2, <1>4

\* The compact public key holds the seed and P3.
PackedP3(seed) == encodeMatrices(mayo.o, mayo.o, KeyP3(seed), TRUE)
PackedL(seed)  == encodeMatrices(mayo.v, mayo.o, KeyL(seed), FALSE)

LEMMA PackedKeys ==
  ASSUME Environment, NEW seed \in Seeds
  PROVE  /\ PackedP3(seed) \in ByteString(mayo.p3Bytes) /\ DecodeP3(PackedP3(seed)) = KeyP3(seed)
         /\ PackedL(seed) \in ByteString(mayo.lBytes) /\ DecodeP2(PackedL(seed)) = KeyL(seed)
<1>1. /\ mayo.m \in Nat /\ mayo.m % 2 = 0 /\ mayo.v \in Nat /\ mayo.o \in Nat
  BY Sizes
<1>2. /\ KeyP3(seed) \in SliceOf(mayo.m, MatOf(mayo.o, mayo.o))
      /\ KeyL(seed) \in SliceOf(mayo.m, MatOf(mayo.v, mayo.o))
  BY KeyTypes DEF SquareLists, Rectangles
<1>3. PackedP3(seed) \in ByteString(mayo.p3Bytes) /\ PackedL(seed) \in ByteString(mayo.lBytes)
  BY <1>1, <1>2, EncodeMatricesType, ByteSizes DEF PackedP3, PackedL
<1>4. /\ IsList(mayo.m, mayo.o, mayo.o, KeyP3(seed))
      /\ IsList(mayo.m, mayo.v, mayo.o, KeyL(seed))
  BY <1>1, <1>2 DEF IsList, MatOf, VecOf, Gf16, Nibble
<1>5. ZeroBelow(mayo.m, mayo.o, mayo.o, KeyP3(seed))
  <2>1. /\ KeyO(seed) \in MatOf(mayo.v, mayo.o)
        /\ \A a \in 0 .. mayo.m - 1 : KeyP1(seed)[a] \in MatOf(mayo.v, mayo.v) /\ KeyP2(seed)[a] \in MatOf(mayo.v, mayo.o)
    BY KeyTypes DEF SquareLists, Rectangles, SliceOf
  <2>2. ASSUME NEW a \in 0 .. mayo.m - 1, NEW i \in 0 .. mayo.o - 1, NEW j \in 0 .. mayo.o - 1, i > j
        PROVE  KeyP3(seed)[a][i][j] = 0
    BY <1>1, <2>1, <2>2, OilPartZero DEF KeyP3
  <2> QED
    BY <2>2 DEF ZeroBelow
<1>6. DecodeP3(PackedP3(seed)) = KeyP3(seed)
  <2>1. ASSUME NEW T \in BOOLEAN
        PROVE  decodeMatrices(mayo.m, mayo.o, mayo.o, encodeMatrices(mayo.o, mayo.o, KeyP3(seed), T), T)
                 = KeyP3(seed)
    BY <1>4, <1>5, DecodeEncodeMatrices
  <2> QED
    BY <2>1, Zenon DEF DecodeP3, PackedP3
<1>7. DecodeP2(PackedL(seed)) = KeyL(seed)
  <2>1. ASSUME NEW T \in BOOLEAN, ~T
        PROVE  decodeMatrices(mayo.m, mayo.v, mayo.o, encodeMatrices(mayo.v, mayo.o, KeyL(seed), T), T)
                 = KeyL(seed)
    BY <1>4, <2>1, DecodeEncodeMatrices
  <2> QED
    BY <2>1, Zenon DEF DecodeP2, PackedL
<1> QED
  BY <1>3, <1>6, <1>7

LEMMA CompactKey ==
  ASSUME Environment, NEW seed \in Seeds
  PROVE  CompactKeyGen(seed)
           = CopyAt(CopyAt(Zeros(mayo.cpkBytes), 0, DeriveFromSeed(seed).seedPk), mayo.pkSeedBytes, PackedP3(seed))
<1> DEFINE P3 == [i \in 0 .. mayo.m - 1 |->
                    upper(MultiplyMatrices(transposeMatrix(KeyO(seed)),
                            AddMatrices(MultiplyMatrices(KeyP1(seed)[i], KeyO(seed)), KeyP2(seed)[i])))]
<1>1. /\ KeyO(seed) \in MatOf(mayo.v, mayo.o)
      /\ \A a \in 0 .. mayo.m - 1 : KeyP1(seed)[a] \in MatOf(mayo.v, mayo.v) /\ KeyP2(seed)[a] \in MatOf(mayo.v, mayo.o)
  BY KeyTypes DEF SquareLists, Rectangles, SliceOf
<1>2. ASSUME NEW a \in 0 .. mayo.m - 1
      PROVE  upper(MultiplyMatrices(transposeMatrix(KeyO(seed)),
                     AddMatrices(MultiplyMatrices(KeyP1(seed)[a], KeyO(seed)), KeyP2(seed)[a])))
               = OilPart(mayo.v, mayo.o, KeyO(seed), KeyP1(seed)[a], KeyP2(seed)[a])
  BY <1>1, CodeParts, Sizes
<1>3. P3 = KeyP3(seed)
  BY <1>2, Zenon DEF KeyP3
<1>4. CompactKeyGen(seed)
        = CopyAt(CopyAt(Zeros(mayo.cpkBytes), 0, DeriveFromSeed(seed).seedPk), mayo.pkSeedBytes,
                 encodeMatrices(mayo.o, mayo.o, P3, TRUE))
  BY Zenon DEF CompactKeyGen, KeyO, KeyP1, KeyP2, KeyStream
<1> HIDE DEF P3
<1> QED
  BY <1>3, <1>4, Zenon DEF PackedP3

\* Verify decodes the forms that key generation built.
LEMMA ExpandedPk ==
  ASSUME Environment, NEW seed \in Seeds
  PROVE  DecodeEpk(ExpandPK(CompactKeyGen(seed))) = [P1 |-> KeyP1(seed), P2 |-> KeyP2(seed), P3 |-> KeyP3(seed)]
<1> DEFINE cp    == CompactKeyGen(seed)
           start == Zeros(mayo.cpkBytes)
           sp    == DeriveFromSeed(seed).seedPk
           one   == CopyAt(start, 0, sp)
           n     == mayo.cpkBytes
           a     == mayo.pkSeedBytes
           l     == mayo.p3Bytes
           p12   == mayo.p1Bytes + mayo.p2Bytes
           S     == KeyStream(seed)
           e     == mayo.epkBytes
           epk1  == CopyAt(Zeros(e), 0, S)
           W     == PackedP3(seed)
           ep    == CopyAt(epk1, p12, W)
           x     == mayo.p1Bytes
           z     == mayo.p2Bytes
<1>1. /\ n \in Nat /\ a \in Nat /\ l \in Nat /\ n = a + l /\ p12 \in Nat /\ e \in Nat /\ e = p12 + l
      /\ x \in Nat /\ z \in Nat /\ p12 = x + z
  <2>1. mayo.cpkBytes = mayo.pkSeedBytes + mayo.p3Bytes /\ mayo.epkBytes = mayo.p1Bytes + mayo.p2Bytes + mayo.p3Bytes
    BY ByteSizes, Zenon
  <2>2. mayo.pkSeedBytes \in Nat
    BY Sizes
  <2> QED
    BY <2>1, <2>2, BytesNat
<1>2. sp \in ByteString(a) /\ S \in ByteString(p12) /\ W \in ByteString(l)
  BY DerivedTypes, PackedKeys
<1>3. cp = CopyAt(one, a, W)
  BY CompactKey
<1>4. ExpandPK(cp) = CopyAt(CopyAt(Zeros(e), 0, Aes128ctr(Slice(cp, 0, a), p12)), p12, Slice(cp, a, a + l))
  BY Zenon DEF ExpandPK
<1>5. S = Aes128ctr(sp, p12)
  BY DEF KeyStream
<1>6. DecodeEpk(ExpandPK(cp))
        = [P1 |-> DecodeP1(Slice(ExpandPK(cp), 0, x)),
           P2 |-> DecodeP2(Slice(ExpandPK(cp), x, p12)),
           P3 |-> DecodeP3(Slice(ExpandPK(cp), p12, p12 + l))]
  BY Zenon DEF DecodeEpk
<1>7. start \in ByteString(n) /\ Zeros(e) \in ByteString(e)
  BY <1>1, ZerosBytes
<1> HIDE DEF cp, start, sp, n, a, l, p12, S, e, W, x, z
<1>7a. /\ start \in SliceOf(n, Bytes) /\ Zeros(e) \in SliceOf(e, Bytes)
       /\ sp \in SliceOf(a, Bytes) /\ S \in SliceOf(p12, Bytes)
       /\ 0 \in Nat /\ 0 + a <= n /\ 0 + p12 <= e
  BY <1>1, <1>2, <1>7 DEF ByteString
<1>8. one \in ByteString(n) /\ Slice(one, 0, 0 + a) = sp
  <2>1. one \in SliceOf(n, Bytes)
    BY <1>1, <1>7a, CopyType
  <2>2. Slice(one, 0, 0 + a) = sp
    BY <1>1, <1>7a, CopyRead
  <2> QED
    BY <2>1, <2>2 DEF ByteString
<1>9. epk1 \in ByteString(e) /\ Slice(epk1, 0, 0 + p12) = S
  <2>1. epk1 \in SliceOf(e, Bytes)
    BY <1>1, <1>7a, CopyType
  <2>2. Slice(epk1, 0, 0 + p12) = S
    BY <1>1, <1>7a, CopyRead
  <2> QED
    BY <2>1, <2>2 DEF ByteString
<1> HIDE DEF one, epk1
<1>10. Slice(cp, 0, a) = sp /\ Slice(cp, a, a + l) = W
  <2>1. Slice(CopyAt(one, a, W), a, a + l) = W
    BY <1>1, <1>2, <1>8, CopyRead DEF ByteString
  <2>2. Slice(CopyAt(one, a, W), 0, a) = Slice(one, 0, a)
    BY <1>1, <1>2, <1>8, CopyKeeps DEF ByteString
  <2>3. 0 + a = a
    BY <1>1
  <2> QED
    BY <1>3, <1>8, <2>1, <2>2, <2>3
<1>11. ExpandPK(cp) = ep
  BY <1>4, <1>5, <1>10 DEF epk1
<1>12. Slice(ep, p12, p12 + l) = W
  BY <1>1, <1>2, <1>9, CopyRead DEF ByteString
<1>13. /\ Slice(ep, 0, x) = Slice(epk1, 0, x)
       /\ Slice(ep, x, p12) = Slice(epk1, x, p12)
  <2>1. 0 <= x /\ x <= e /\ x <= p12 /\ p12 <= e /\ p12 + l <= e
    BY <1>1
  <2>2. epk1 \in SliceOf(e, Bytes) /\ W \in SliceOf(l, Bytes)
    BY <1>2, <1>9 DEF ByteString
  <2>3. Slice(ep, 0, x) = Slice(epk1, 0, x)
    BY <1>1, <2>1, <2>2, CopyKeeps
  <2>4. Slice(ep, x, p12) = Slice(epk1, x, p12)
    BY <1>1, <2>1, <2>2, CopyKeeps
  <2> QED
    BY <2>3, <2>4
<1>14. /\ Slice(epk1, 0, x) = Slice(S, 0, x)
       /\ Slice(epk1, x, p12) = Slice(S, x, p12)
  <2>1. \A i \in 0 .. p12 - 1 : epk1[i] = S[i]
    <3>1. DOMAIN Zeros(e) = 0 .. e - 1 /\ DOMAIN S = 0 .. p12 - 1
      BY <1>2, <1>7 DEF ByteString, SliceOf
    <3>2. \A i \in 0 .. p12 - 1 : i \in 0 .. e - 1 /\ i - 0 = i
      BY <1>1
    <3> QED
      BY <3>1, <3>2 DEF CopyAt, epk1
  <2>2. \A i \in 0 .. x - 0 - 1 : 0 + i \in 0 .. p12 - 1
    BY <1>1
  <2>3. \A i \in 0 .. p12 - x - 1 : x + i \in 0 .. p12 - 1
    BY <1>1
  <2> QED
    BY <2>1, <2>2, <2>3 DEF Slice
<1>15. Slice(S, 0, x) = Slice(KeyStream(seed), 0, mayo.p1Bytes)
       /\ Slice(S, x, p12) = Slice(KeyStream(seed), mayo.p1Bytes, mayo.p1Bytes + mayo.p2Bytes)
  BY DEF S, x, p12
<1>16. DecodeP3(W) = KeyP3(seed)
  BY PackedKeys DEF W
<1> QED
  BY <1>6, <1>11, <1>12, <1>13, <1>14, <1>15, <1>16, Zenon DEF KeyP1, KeyP2, cp

\* Sign decodes the seed, O, P1 and L of the same key.
LEMMA ExpandedSk ==
  ASSUME Environment, NEW seed \in Seeds
  PROVE  DecodeEsk(ExpandSK(seed))
           = [seedSk |-> seed, O |-> KeyO(seed), P1 |-> KeyP1(seed), L |-> KeyL(seed)]
<1> DEFINE s   == mayo.skSeedBytes
           b   == mayo.oBytes
           x   == mayo.p1Bytes
           l   == mayo.lBytes
           e   == mayo.eskBytes
           at1 == s + b
           at2 == at1 + x
           ob  == DeriveFromSeed(seed).oByteString
           p1  == Slice(KeyStream(seed), 0, x)
           W   == PackedL(seed)
           Z   == Zeros(e)
           e0  == CopyAt(Z, 0, seed)
           e1  == CopyAt(e0, s, ob)
           e2  == CopyAt(e1, at1, p1)
           e3  == CopyAt(e2, at2, W)
           L   == [i \in 0 .. mayo.m - 1 |->
                     AddMatrices(MultiplyMatrices(AddMatrices(KeyP1(seed)[i], transposeMatrix(KeyP1(seed)[i])),
                                                  KeyO(seed)), KeyP2(seed)[i])]
<1>1. /\ s \in Nat /\ b \in Nat /\ x \in Nat /\ l \in Nat /\ e \in Nat /\ e = at2 + l
      /\ at1 \in Nat /\ at2 \in Nat /\ 0 <= s /\ s <= at1 /\ at1 <= at2 /\ at2 <= e /\ at1 <= e /\ s <= e
  <2>1. mayo.eskBytes = mayo.skSeedBytes + mayo.oBytes + mayo.p1Bytes + mayo.lBytes
    BY ByteSizes, Zenon
  <2> QED
    BY <2>1, BytesNat
<1>2. /\ seed \in SliceOf(s, Bytes) /\ ob \in SliceOf(b, Bytes) /\ p1 \in SliceOf(x, Bytes)
      /\ W \in SliceOf(l, Bytes) /\ Z \in SliceOf(e, Bytes)
  BY <1>1, DerivedTypes, StreamParts, PackedKeys, ZerosBytes DEF Seeds, ByteString
<1>3. Slice(seed, 0, s) = seed
  BY <1>1, <1>2, SliceAll
<1>4. L = KeyL(seed)
  <2>1. /\ KeyO(seed) \in MatOf(mayo.v, mayo.o)
        /\ \A a \in 0 .. mayo.m - 1 : KeyP1(seed)[a] \in MatOf(mayo.v, mayo.v) /\ KeyP2(seed)[a] \in MatOf(mayo.v, mayo.o)
    BY KeyTypes DEF SquareLists, Rectangles, SliceOf
  <2>2. ASSUME NEW a \in 0 .. mayo.m - 1
        PROVE  AddMatrices(MultiplyMatrices(AddMatrices(KeyP1(seed)[a], transposeMatrix(KeyP1(seed)[a])),
                                            KeyO(seed)), KeyP2(seed)[a])
                 = Linear(mayo.v, mayo.o, KeyO(seed), KeyP1(seed)[a], KeyP2(seed)[a])
    BY <2>1, CodeParts, Sizes
  <2> QED
    BY <2>2, Zenon DEF KeyL
<1>5. ExpandSK(seed) = e3
  <2>1. ExpandSK(seed)
          = CopyAt(CopyAt(CopyAt(CopyAt(Zeros(mayo.eskBytes), 0, Slice(seed, 0, s)), s,
                                 DeriveFromSeed(Slice(seed, 0, s)).oByteString),
                          at1, Slice(KeyStream(Slice(seed, 0, s)), 0, x)),
                   at2, encodeMatrices(mayo.v, mayo.o,
                          [i \in 0 .. mayo.m - 1 |->
                             AddMatrices(MultiplyMatrices(AddMatrices(KeyP1(Slice(seed, 0, s))[i],
                                                                      transposeMatrix(KeyP1(Slice(seed, 0, s))[i])),
                                           KeyO(Slice(seed, 0, s))), KeyP2(Slice(seed, 0, s))[i])], FALSE))
    BY Zenon DEF ExpandSK, KeyO, KeyP1, KeyP2, KeyStream
  <2>2. ExpandSK(seed) = CopyAt(e2, at2, encodeMatrices(mayo.v, mayo.o, L, FALSE))
    BY <1>3, <2>1
  <2> HIDE DEF L
  <2> QED
    BY <1>4, <2>2 DEF PackedL
<1>6. DecodeEsk(e3) = [seedSk |-> Slice(e3, 0, s),
                       O  |-> decodeMatrix(mayo.v, mayo.o, Slice(e3, s, at1)),
                       P1 |-> DecodeP1(Slice(e3, at1, at2)),
                       L  |-> DecodeP2(Slice(e3, at2, e))]
  BY Zenon DEF DecodeEsk
<1> HIDE DEF s, b, x, l, e, ob, p1, W, Z, L
<1>7. e0 \in SliceOf(e, Bytes) /\ Slice(e0, 0, 0 + s) = seed
  <2>1. 0 \in Nat /\ 0 + s <= e
    BY <1>1
  <2>2. e0 \in SliceOf(e, Bytes)
    BY <1>1, <1>2, <2>1, CopyType
  <2>3. Slice(e0, 0, 0 + s) = seed
    BY <1>1, <1>2, <2>1, CopyRead
  <2> QED
    BY <2>2, <2>3
<1> HIDE DEF e0
<1>8. e1 \in SliceOf(e, Bytes) /\ Slice(e1, s, s + b) = ob /\ Slice(e1, 0, s) = Slice(e0, 0, s)
  <2>1. s + b <= e /\ 0 \in Nat /\ 0 <= s
    BY <1>1
  <2>2. e1 \in SliceOf(e, Bytes)
    BY <1>1, <1>2, <1>7, CopyType
  <2>3. Slice(e1, s, s + b) = ob
    BY <1>1, <1>2, <1>7, <2>1, CopyRead
  <2>4. Slice(e1, 0, s) = Slice(e0, 0, s)
    BY <1>1, <1>2, <1>7, <2>1, CopyKeeps
  <2> QED
    BY <2>2, <2>3, <2>4
<1> HIDE DEF e1, at2
<1>9. /\ e2 \in SliceOf(e, Bytes) /\ Slice(e2, at1, at1 + x) = p1
      /\ Slice(e2, 0, s) = Slice(e1, 0, s) /\ Slice(e2, s, at1) = Slice(e1, s, at1)
  <2>1. at1 + x <= e /\ at1 \in Nat
    BY <1>1 DEF at2
  <2> HIDE DEF at1
  <2>2. e2 \in SliceOf(e, Bytes)
    BY <1>1, <1>2, <1>8, <2>1, CopyType
  <2>2a. Slice(e2, at1, at1 + x) = p1
    BY <1>1, <1>2, <1>8, <2>1, CopyRead
  <2>3. Slice(e2, 0, s) = Slice(e1, 0, s)
    BY <1>1, <1>2, <1>8, <2>1, CopyKeeps
  <2>4. Slice(e2, s, at1) = Slice(e1, s, at1)
    BY <1>1, <1>2, <1>8, <2>1, CopyKeeps
  <2> QED
    BY <2>2, <2>2a, <2>3, <2>4
<1> HIDE DEF e2
<1>10. /\ Slice(e3, at2, at2 + l) = W
       /\ Slice(e3, 0, s) = Slice(e2, 0, s) /\ Slice(e3, s, at1) = Slice(e2, s, at1)
       /\ Slice(e3, at1, at2) = Slice(e2, at1, at2)
  <2>1. at2 + l <= e /\ at2 \in Nat /\ at1 \in Nat
    BY <1>1
  <2> HIDE DEF at1
  <2>2. Slice(e3, at2, at2 + l) = W
    BY <1>1, <1>2, <1>9, <2>1, CopyRead
  <2>3. Slice(e3, 0, s) = Slice(e2, 0, s)
    BY <1>1, <1>2, <1>9, <2>1, CopyKeeps
  <2>4. Slice(e3, s, at1) = Slice(e2, s, at1)
    BY <1>1, <1>2, <1>9, <2>1, CopyKeeps
  <2>5. Slice(e3, at1, at2) = Slice(e2, at1, at2)
    BY <1>1, <1>2, <1>9, <2>1, CopyKeeps
  <2> QED
    BY <2>2, <2>3, <2>4, <2>5
<1>11. Slice(e3, 0, s) = seed
  <2>1. 0 + s = s
    BY <1>1
  <2> QED
    BY <1>7, <1>8, <1>9, <1>10, <2>1
<1>12. Slice(e3, s, at1) = ob
  BY <1>8, <1>9, <1>10
<1>13. Slice(e3, at1, at2) = p1
  BY <1>9, <1>10 DEF at2
<1>14. Slice(e3, at2, e) = W
  BY <1>1, <1>10
<1>15. /\ decodeMatrix(mayo.v, mayo.o, ob) = KeyO(seed)
       /\ DecodeP1(p1) = KeyP1(seed) /\ DecodeP2(W) = KeyL(seed)
  <2>1. mayo.n - mayo.o = mayo.v
    BY Sizes
  <2>2. DecodeP2(W) = KeyL(seed)
    BY PackedKeys DEF W
  <2>3. DecodeP1(p1) = KeyP1(seed)
    BY DEF KeyP1, p1, x
  <2> QED
    BY <2>1, <2>2, <2>3 DEF KeyO, DecodeO, ob
<1> QED
  BY <1>5, <1>6, <1>11, <1>12, <1>13, <1>14, <1>15

\* The matrices of a public key, put together from their parts.
LEMMA AssembledMatrices ==
  ASSUME NEW P1 \in SquareLists(mayo.v), NEW P2 \in Rectangles, NEW P3 \in SquareLists(mayo.o)
  PROVE  LET P == calculateP([P1 |-> P1, P2 |-> P2, P3 |-> P3])
         IN /\ P \in SquareLists(mayo.n)
            /\ \A a \in 0 .. mayo.m - 1 : Blocks(mayo.v, mayo.o, P[a], P1[a], P2[a], P3[a])
<1> DEFINE P == calculateP([P1 |-> P1, P2 |-> P2, P3 |-> P3])
           n == mayo.n
           v == mayo.v
           o == mayo.o
           I == 0 .. n - 1
<1>1. n \in Nat /\ v \in Nat /\ o \in Nat /\ n = v + o
  BY Sizes
<1>2. /\ \A a \in 0 .. mayo.m - 1 : P1[a] \in MatOf(v, v) /\ P2[a] \in MatOf(v, o) /\ P3[a] \in MatOf(o, o)
  BY DEF SquareLists, Rectangles, SliceOf
<1>3. P = [a \in 0 .. mayo.m - 1 |-> [row \in I |-> [column \in I |->
             CASE row < v /\ column < v   -> P1[a][row][column]
               [] row < v /\ column >= v  -> P2[a][row][column - v]
               [] row >= v /\ column >= v -> P3[a][row - v][column - v]
               [] OTHER -> 0]]]
  BY DEF calculateP
<1> HIDE DEF P
<1>3a. /\ P = [a \in 0 .. mayo.m - 1 |-> P[a]]
       /\ \A a \in 0 .. mayo.m - 1 : P[a] = [i \in I |-> P[a][i]]
       /\ \A a \in 0 .. mayo.m - 1, i \in I : P[a][i] = [j \in I |-> P[a][i][j]]
  <2> DEFINE entry(a, row, column) ==
               CASE row < v /\ column < v   -> P1[a][row][column]
                 [] row < v /\ column >= v  -> P2[a][row][column - v]
                 [] row >= v /\ column >= v -> P3[a][row - v][column - v]
                 [] OTHER -> 0
  <2>1. P = [a \in 0 .. mayo.m - 1 |-> [row \in I |-> [column \in I |-> entry(a, row, column)]]]
    BY <1>3
  <2> HIDE DEF entry, I
  <2> QED
    BY <2>1
<1>4. ASSUME NEW a \in 0 .. mayo.m - 1, NEW i \in I, NEW j \in I
      PROVE  P[a][i][j] = IF i < v THEN IF j < v THEN P1[a][i][j] ELSE P2[a][i][j - v]
                          ELSE IF j < v THEN 0 ELSE P3[a][i - v][j - v]
  <2>1. P[a][i][j] = CASE i < v /\ j < v   -> P1[a][i][j]
                       [] i < v /\ j >= v  -> P2[a][i][j - v]
                       [] i >= v /\ j >= v -> P3[a][i - v][j - v]
                       [] OTHER -> 0
    BY <1>3
  <2>2. CASE i < v /\ j < v
    BY <1>1, <2>1, <2>2
  <2>3. CASE i < v /\ j >= v
    BY <1>1, <2>1, <2>3
  <2>4. CASE i >= v /\ j >= v
    BY <1>1, <2>1, <2>4
  <2>5. CASE i >= v /\ j < v
    BY <1>1, <2>1, <2>5
  <2> QED
    BY <1>1, <2>2, <2>3, <2>4, <2>5
<1>5. ASSUME NEW a \in 0 .. mayo.m - 1, NEW i \in 0 .. v - 1
      PROVE  P[a][i] = Concat(P1[a][i], P2[a][i])
  <2> DEFINE c == Concat(P1[a][i], P2[a][i])
  <2>0. P1[a][i] \in VecOf(v) /\ P2[a][i] \in VecOf(o)
    BY <1>1, <1>2, MatEntries
  <2>1. /\ c \in VecOf(n)
        /\ \A j \in 0 .. v - 1 : c[j] = P1[a][i][j]
        /\ \A j \in 0 .. o - 1 : c[v + j] = P2[a][i][j]
    <3> HIDE DEF n, v, o
    <3>1. /\ c \in VecOf(v + o)
          /\ \A j \in 0 .. v - 1 : c[j] = P1[a][i][j]
          /\ \A j \in 0 .. o - 1 : c[v + j] = P2[a][i][j]
      <4> DEFINE q == P1[a][i]
                 r == P2[a][i]
      <4>1. q \in VecOf(v) /\ r \in VecOf(o)
        BY <2>0
      <4> HIDE DEF q, r
      <4>2. /\ Concat(q, r) \in VecOf(v + o)
            /\ \A j \in 0 .. v - 1 : Concat(q, r)[j] = q[j]
            /\ \A j \in 0 .. o - 1 : Concat(q, r)[v + j] = r[j]
        BY <1>1, <4>1, ConcatVec
      <4> QED
        BY <4>2 DEF q, r
    <3> QED
      BY <1>1, <3>1
  <2> HIDE DEF c
  <2>2. i \in I /\ i < v
    BY <1>1
  <2>3. ASSUME NEW j \in I PROVE P[a][i][j] = c[j]
    <3>1. CASE j < v
      BY <1>1, <1>4, <2>1, <2>2, <3>1
    <3>2. CASE ~(j < v)
      <4>1. j - v \in 0 .. o - 1 /\ j = v + (j - v)
        BY <1>1, <3>2
      <4> QED
        BY <1>1, <1>4, <2>1, <2>2, <3>2, <4>1
    <3> QED
      BY <3>1, <3>2
  <2>4. c = [j \in I |-> c[j]]
    BY <2>1 DEF VecOf, SliceOf
  <2>5. P[a][i] = [j \in I |-> P[a][i][j]]
    BY <1>3a, <2>2
  <2> HIDE DEF I
  <2> QED
    BY <2>3, <2>4, <2>5 DEF c
<1>6. ASSUME NEW a \in 0 .. mayo.m - 1, NEW i \in 0 .. o - 1
      PROVE  P[a][v + i] = Concat(Zeros(v), P3[a][i])
  <2> DEFINE c == Concat(Zeros(v), P3[a][i])
  <2>1. /\ c \in VecOf(n)
        /\ \A j \in 0 .. v - 1 : c[j] = Zeros(v)[j]
        /\ \A j \in 0 .. o - 1 : c[v + j] = P3[a][i][j]
    <3>1. Zeros(v) \in VecOf(v) /\ P3[a][i] \in VecOf(o)
      BY <1>1, <1>2, MatEntries, ZerosVec
    <3> HIDE DEF n, v, o
    <3>2. /\ c \in VecOf(v + o)
          /\ \A j \in 0 .. v - 1 : c[j] = Zeros(v)[j]
          /\ \A j \in 0 .. o - 1 : c[v + j] = P3[a][i][j]
      <4> DEFINE q == Zeros(v)
                 r == P3[a][i]
      <4>1. q \in VecOf(v) /\ r \in VecOf(o)
        BY <3>1
      <4> HIDE DEF q, r
      <4>2. /\ Concat(q, r) \in VecOf(v + o)
            /\ \A j \in 0 .. v - 1 : Concat(q, r)[j] = q[j]
            /\ \A j \in 0 .. o - 1 : Concat(q, r)[v + j] = r[j]
        BY <1>1, <4>1, ConcatVec
      <4> QED
        BY <4>2 DEF q, r
    <3> QED
      BY <1>1, <3>2
  <2> HIDE DEF c
  <2>2. v + i \in I /\ ~(v + i < v) /\ (v + i) - v = i
    BY <1>1
  <2>3. ASSUME NEW j \in I PROVE P[a][v + i][j] = c[j]
    <3>1. CASE j < v
      <4>1. j \in 0 .. v - 1 /\ Zeros(v)[j] = 0
        BY <1>1, <3>1 DEF Zeros
      <4> QED
        BY <1>1, <1>4, <2>1, <2>2, <3>1, <4>1
    <3>2. CASE ~(j < v)
      <4>1. j - v \in 0 .. o - 1 /\ j = v + (j - v)
        BY <1>1, <3>2
      <4>2. P[a][v + i][j] = P3[a][(v + i) - v][j - v]
        <5> DEFINE r == v + i
        <5>1. r \in I /\ ~(r < v)
          BY <2>2
        <5> HIDE DEF r, I
        <5>2. P[a][r][j] = P3[a][r - v][j - v]
          BY <1>4, <3>2, <5>1
        <5> QED
          BY <5>2 DEF r
      <4>3. c[j] = P3[a][i][j - v]
        <5> DEFINE e == j - v
        <5>1. e \in 0 .. o - 1 /\ j = v + e
          BY <4>1
        <5> HIDE DEF e
        <5> QED
          BY <2>1, <5>1 DEF e
      <4> QED
        BY <2>2, <4>2, <4>3
    <3> QED
      BY <3>1, <3>2
  <2>4. c = [j \in I |-> c[j]]
    BY <2>1 DEF VecOf, SliceOf
  <2>5. P[a][v + i] = [j \in I |-> P[a][v + i][j]]
    BY <1>3a, <2>2
  <2> HIDE DEF I
  <2> QED
    BY <2>3, <2>4, <2>5 DEF c
<1>7. \A a \in 0 .. mayo.m - 1 : Blocks(v, o, P[a], P1[a], P2[a], P3[a])
  BY <1>5, <1>6 DEF Blocks
<1>8. ASSUME NEW a \in 0 .. mayo.m - 1, NEW i \in I PROVE P[a][i] \in VecOf(n)
  <2>1. CASE i < v
    <3>1. i \in 0 .. v - 1
      BY <1>1, <2>1
    <3>2. P1[a][i] \in VecOf(v) /\ P2[a][i] \in VecOf(o)
      BY <1>1, <1>2, <3>1, MatEntries
    <3>3. P[a][i] = Concat(P1[a][i], P2[a][i])
      BY <1>5, <3>1
    <3> HIDE DEF n, v, o
    <3> QED
      BY <1>1, <3>2, <3>3, ConcatVec
  <2>2. CASE ~(i < v)
    <3>1. i - v \in 0 .. o - 1 /\ v + (i - v) = i
      BY <1>1, <2>2
    <3>2. P[a][i] = Concat(Zeros(v), P3[a][i - v])
      BY <1>6, <3>1
    <3>3. P3[a][i - v] \in VecOf(o) /\ Zeros(v) \in VecOf(v)
      BY <1>1, <1>2, <3>1, MatEntries, ZerosVec
    <3> HIDE DEF n, v, o
    <3> QED
      BY <1>1, <3>2, <3>3, ConcatVec
  <2> QED
    BY <2>1, <2>2
<1>9. P \in SquareLists(n)
  <2>1. P = [a \in 0 .. mayo.m - 1 |-> P[a]] /\ \A a \in 0 .. mayo.m - 1 : P[a] = [i \in I |-> P[a][i]]
    BY <1>3
  <2>2. \A a \in 0 .. mayo.m - 1 : P[a] \in MatOf(n, n)
    BY <1>8, <2>1 DEF MatOf, SliceOf
  <2> HIDE DEF I
  <2> QED
    BY <2>1, <2>2 DEF SquareLists, SliceOf
<1> QED
  BY <1>7, <1>9 DEF P

PublicP(seed) == calculateP(DecodeEpk(ExpandPK(CompactKeyGen(seed))))

LEMMA PublicMatrices ==
  ASSUME Environment, NEW seed \in Seeds
  PROVE  /\ PublicP(seed) \in SquareLists(mayo.n)
         /\ \A a \in 0 .. mayo.m - 1 :
              Blocks(mayo.v, mayo.o, PublicP(seed)[a], KeyP1(seed)[a], KeyP2(seed)[a],
                     OilPart(mayo.v, mayo.o, KeyO(seed), KeyP1(seed)[a], KeyP2(seed)[a]))
<1>1. PublicP(seed) = calculateP([P1 |-> KeyP1(seed), P2 |-> KeyP2(seed), P3 |-> KeyP3(seed)])
  BY ExpandedPk, Zenon DEF PublicP
<1>2. /\ PublicP(seed) \in SquareLists(mayo.n)
      /\ \A a \in 0 .. mayo.m - 1 :
           Blocks(mayo.v, mayo.o, PublicP(seed)[a], KeyP1(seed)[a], KeyP2(seed)[a], KeyP3(seed)[a])
  BY <1>1, KeyTypes, AssembledMatrices
<1> QED
  BY <1>2 DEF KeyP3

\* The two parts of the forms of a key at (u + O x, x).
VinegarForms(P1, u) == [a \in 0 .. mayo.m - 1 |-> Form(mayo.v, P1[a], u)]
Bilinear(L, u, x)   == [a \in 0 .. mayo.m - 1 |-> Dot(mayo.v, u, Apply(L[a], mayo.v, mayo.o, x))]

LEMMA PartTypes ==
  ASSUME NEW P1 \in SquareLists(mayo.v), NEW L \in Rectangles, NEW u \in VecOf(mayo.v), NEW x \in VecOf(mayo.o)
  PROVE  VinegarForms(P1, u) \in VecOf(mayo.m) /\ Bilinear(L, u, x) \in VecOf(mayo.m)
<1>1. /\ \A a \in 0 .. mayo.m - 1 : P1[a] \in MatOf(mayo.v, mayo.v) /\ L[a] \in MatOf(mayo.v, mayo.o)
      /\ mayo.v \in Nat /\ mayo.o \in Nat
  BY Sizes DEF SquareLists, Rectangles, SliceOf
<1>2. \A a \in 0 .. mayo.m - 1 : Form(mayo.v, P1[a], u) \in Gf16
  BY <1>1, FormType
<1>3. \A a \in 0 .. mayo.m - 1 : Dot(mayo.v, u, Apply(L[a], mayo.v, mayo.o, x)) \in Gf16
  <2>1. \A a \in 0 .. mayo.m - 1 : Apply(L[a], mayo.v, mayo.o, x) \in VecOf(mayo.v)
    BY <1>1, ApplyType
  <2> QED
    BY <1>1, <2>1, DotType
<1> QED
  BY <1>2, <1>3 DEF VinegarForms, Bilinear, VecOf, SliceOf

\* (u + O x, x), a vector of the signature.
Part(H, u, x) == Concat(Plus(mayo.v, u, Apply(H, mayo.v, mayo.o, x)), x)

LEMMA PartType ==
  ASSUME NEW H \in MatOf(mayo.v, mayo.o), NEW u \in VecOf(mayo.v), NEW x \in VecOf(mayo.o)
  PROVE  Part(H, u, x) \in VecOf(mayo.n) /\ Plus(mayo.v, u, Apply(H, mayo.v, mayo.o, x)) \in VecOf(mayo.v)
<1>1. Apply(H, mayo.v, mayo.o, x) \in VecOf(mayo.v) /\ mayo.v \in Nat /\ mayo.o \in Nat
  BY ApplyType, Sizes
<1>2. Plus(mayo.v, u, Apply(H, mayo.v, mayo.o, x)) \in VecOf(mayo.v)
  BY <1>1, PlusType
<1>3. mayo.v + mayo.o = mayo.n
  BY Sizes
<1> QED
  BY <1>1, <1>2, <1>3, ConcatVec DEF Part

LEMMA FormsOfKey ==
  ASSUME Environment, NEW seed \in Seeds, NEW u \in VecOf(mayo.v), NEW x \in VecOf(mayo.o)
  PROVE  Forms(PublicP(seed), Part(KeyO(seed), u, x))
           = Plus(mayo.m, VinegarForms(KeyP1(seed), u), Bilinear(KeyL(seed), u, x))
<1> DEFINE P == PublicP(seed)
           z == Part(KeyO(seed), u, x)
           f == VinegarForms(KeyP1(seed), u)
           g == Bilinear(KeyL(seed), u, x)
           h == Forms(P, z)
<1>1. /\ KeyO(seed) \in MatOf(mayo.v, mayo.o) /\ mayo.v \in Nat /\ mayo.o \in Nat /\ mayo.v + mayo.o = mayo.n
      /\ \A a \in 0 .. mayo.m - 1 : KeyP1(seed)[a] \in MatOf(mayo.v, mayo.v) /\ KeyP2(seed)[a] \in MatOf(mayo.v, mayo.o)
  <2>1. /\ KeyO(seed) \in MatOf(mayo.v, mayo.o)
        /\ \A a \in 0 .. mayo.m - 1 : KeyP1(seed)[a] \in MatOf(mayo.v, mayo.v) /\ KeyP2(seed)[a] \in MatOf(mayo.v, mayo.o)
    BY KeyTypes DEF SquareLists, Rectangles, SliceOf
  <2> QED
    BY <2>1, Sizes
<1>2. z \in VecOf(mayo.n) /\ P \in SquareLists(mayo.n)
  BY <1>1, PartType, PublicMatrices
<1>3. h \in VecOf(mayo.m) /\ \A a \in 0 .. mayo.m - 1 : h[a] = Form(mayo.n, P[a], z)
  BY <1>2, FormsAre
<1>4. ASSUME NEW a \in 0 .. mayo.m - 1
      PROVE  Form(mayo.n, P[a], z) = GfXor(f[a], g[a])
  <2>1. Form(mayo.v + mayo.o, P[a], Concat(Plus(mayo.v, u, Apply(KeyO(seed), mayo.v, mayo.o, x)), x))
          = GfXor(Form(mayo.v, KeyP1(seed)[a], u),
                  Dot(mayo.v, u, Apply(Linear(mayo.v, mayo.o, KeyO(seed), KeyP1(seed)[a], KeyP2(seed)[a]),
                                       mayo.v, mayo.o, x)))
    BY <1>1, PublicMatrices, VinegarForm
  <2>2. /\ f[a] = Form(mayo.v, KeyP1(seed)[a], u)
        /\ g[a] = Dot(mayo.v, u, Apply(KeyL(seed)[a], mayo.v, mayo.o, x))
    BY DEF VinegarForms, Bilinear
  <2>3. KeyL(seed)[a] = Linear(mayo.v, mayo.o, KeyO(seed), KeyP1(seed)[a], KeyP2(seed)[a])
    BY DEF KeyL
  <2> QED
    BY <1>1, <2>1, <2>2, <2>3 DEF Part
<1> HIDE DEF f, g, h, z, P
<1>5. h = [a \in 0 .. mayo.m - 1 |-> h[a]]
  BY <1>3 DEF VecOf, SliceOf
<1>6. h = Plus(mayo.m, f, g)
  BY <1>3, <1>4, <1>5 DEF Plus
<1> QED
  BY <1>6 DEF h, f, g, P, z

\* The P3 that CompactKeyGen derives, packs and publishes, with the P1 and P2 that
\* ExpandPK adds, makes forms that vanish on the oil space of DecodeO's matrix.
THEOREM OilSpaceVanishes ==
  ASSUME Environment, NEW seed \in Seeds, NEW x \in VecOf(mayo.o)
  PROVE  Forms(PublicP(seed), Concat(MatrixVectorMul(KeyO(seed), x), x)) = Zeros(mayo.m)
<1> DEFINE u == Zeros(mayo.v)
           h == Apply(KeyO(seed), mayo.v, mayo.o, x)
<1>1. /\ KeyO(seed) \in MatOf(mayo.v, mayo.o) /\ KeyP1(seed) \in SquareLists(mayo.v) /\ KeyL(seed) \in Rectangles
      /\ mayo.v \in Nat \ {0} /\ mayo.o \in Nat /\ u \in VecOf(mayo.v)
  BY KeyTypes, Sizes, ZerosVec
<1>2. h \in VecOf(mayo.v) /\ MatrixVectorMul(KeyO(seed), x) = h
  BY <1>1, MatVecIs, ApplyType
<1>3. Plus(mayo.v, u, h) = h
  <2> HIDE DEF h
  <2> QED
    BY <1>1, <1>2, PlusLaws
<1>4. Concat(MatrixVectorMul(KeyO(seed), x), x) = Part(KeyO(seed), u, x)
  BY <1>2, <1>3 DEF Part
<1> HIDE DEF h
<1>5. VinegarForms(KeyP1(seed), u) = Zeros(mayo.m)
  <2>1. ASSUME NEW a \in 0 .. mayo.m - 1 PROVE Form(mayo.v, KeyP1(seed)[a], u) = 0
    <3>1. KeyP1(seed)[a] \in MatOf(mayo.v, mayo.v)
      BY <1>1 DEF SquareLists, SliceOf
    <3>2. Apply(KeyP1(seed)[a], mayo.v, mayo.v, u) \in VecOf(mayo.v)
      BY <1>1, <3>1, ApplyType
    <3> QED
      BY <1>1, <3>2, DotZero DEF Form
  <2> QED
    BY <2>1 DEF VinegarForms, Zeros
<1>6. Bilinear(KeyL(seed), u, x) = Zeros(mayo.m)
  <2>1. ASSUME NEW a \in 0 .. mayo.m - 1 PROVE Dot(mayo.v, u, Apply(KeyL(seed)[a], mayo.v, mayo.o, x)) = 0
    <3>1. KeyL(seed)[a] \in MatOf(mayo.v, mayo.o)
      BY <1>1 DEF Rectangles, SliceOf
    <3>2. Apply(KeyL(seed)[a], mayo.v, mayo.o, x) \in VecOf(mayo.v)
      BY <1>1, <3>1, ApplyType
    <3> QED
      BY <1>1, <3>2, DotZero
  <2> QED
    BY <2>1 DEF Bilinear, Zeros
<1>7. Forms(PublicP(seed), Part(KeyO(seed), u, x)) = Plus(mayo.m, Zeros(mayo.m), Zeros(mayo.m))
  <2> HIDE DEF u
  <2> QED
    BY <1>1, <1>5, <1>6, FormsOfKey
<1>8. Plus(mayo.m, Zeros(mayo.m), Zeros(mayo.m)) = Zeros(mayo.m)
  BY Sizes, ZerosVec, PlusLaws
<1> QED
  BY <1>4, <1>7, <1>8

LEMMA PlusConcat ==
  ASSUME NEW a \in Nat, NEW b \in Nat, NEW u \in VecOf(a), NEW w \in VecOf(b),
         NEW x \in VecOf(a), NEW z \in VecOf(b)
  PROVE  Plus(a + b, Concat(u, w), Concat(x, z)) = Concat(Plus(a, u, x), Plus(b, w, z))
<1> DEFINE c == Concat(u, w)
           e == Concat(x, z)
           f == Concat(Plus(a, u, x), Plus(b, w, z))
<1>1. Plus(a, u, x) \in VecOf(a) /\ Plus(b, w, z) \in VecOf(b)
  BY PlusType
<1>2. /\ f \in VecOf(a + b)
      /\ \A i \in 0 .. a - 1 : f[i] = GfXor(u[i], x[i])
      /\ \A i \in 0 .. b - 1 : f[a + i] = GfXor(w[i], z[i])
  BY <1>1, ConcatVec DEF Plus
<1>3. /\ \A i \in 0 .. a - 1 : c[i] = u[i] /\ e[i] = x[i]
      /\ \A i \in 0 .. b - 1 : c[a + i] = w[i] /\ e[a + i] = z[i]
  BY ConcatVec
<1> HIDE DEF c, e, f
<1>4. ASSUME NEW i \in 0 .. (a + b) - 1 PROVE f[i] = GfXor(c[i], e[i])
  <2>1. CASE i < a
    BY <1>2, <1>3, <2>1
  <2>2. CASE ~(i < a)
    <3>1. i - a \in 0 .. b - 1 /\ a + (i - a) = i
      BY <2>2
    <3> QED
      BY <1>2, <1>3, <3>1
  <2> QED
    BY <2>1, <2>2
<1>5. f = [i \in 0 .. (a + b) - 1 |-> f[i]]
  BY <1>2 DEF VecOf, SliceOf
<1>6. f = Plus(a + b, c, e)
  BY <1>4, <1>5 DEF Plus
<1> QED
  BY <1>6 DEF c, e, f

LEMMA PartPlus ==
  ASSUME NEW H \in MatOf(mayo.v, mayo.o), NEW u \in VecOf(mayo.v), NEW x \in VecOf(mayo.o),
         NEW w \in VecOf(mayo.v), NEW z \in VecOf(mayo.o)
  PROVE  AddVec(Part(H, u, x), Part(H, w, z)) = Part(H, Plus(mayo.v, u, w), Plus(mayo.o, x, z))
<1> DEFINE v == mayo.v
           o == mayo.o
           g == Apply(H, v, o, x)
           h == Apply(H, v, o, z)
<1>1. v \in Nat /\ o \in Nat /\ v + o = mayo.n /\ mayo.n \in Nat
  BY Sizes
<1>2. g \in VecOf(v) /\ h \in VecOf(v) /\ Apply(H, v, o, Plus(o, x, z)) = Plus(v, g, h)
  BY <1>1, ApplyType, ApplyPlus
<1>3. /\ Part(H, u, x) = Concat(Plus(v, u, g), x) /\ Part(H, w, z) = Concat(Plus(v, w, h), z)
      /\ Part(H, Plus(v, u, w), Plus(o, x, z)) = Concat(Plus(v, Plus(v, u, w), Plus(v, g, h)), Plus(o, x, z))
  BY <1>2 DEF Part
<1>4. Part(H, u, x) \in VecOf(mayo.n) /\ Part(H, w, z) \in VecOf(mayo.n)
  BY PartType
<1>5. AddVec(Part(H, u, x), Part(H, w, z)) = Plus(v + o, Part(H, u, x), Part(H, w, z))
  BY <1>1, <1>4, AddVecIs
<1> HIDE DEF g, h, v, o
<1>6. Plus(v, u, g) \in VecOf(v) /\ Plus(v, w, h) \in VecOf(v)
  BY <1>1, <1>2, PlusType DEF v
<1>7. Plus(v + o, Concat(Plus(v, u, g), x), Concat(Plus(v, w, h), z))
        = Concat(Plus(v, Plus(v, u, g), Plus(v, w, h)), Plus(o, x, z))
  BY <1>1, <1>6, PlusConcat DEF v, o
<1>8. Plus(v, Plus(v, u, g), Plus(v, w, h)) = Plus(v, Plus(v, u, w), Plus(v, g, h))
  BY <1>1, <1>2, PlusFour DEF v
<1> QED
  BY <1>3, <1>5, <1>7, <1>8 DEF v, o

(* The linear system of an attempt *)

LEMMA CancelTwice ==
  ASSUME NEW a \in Gf16, NEW b \in Gf16
  PROVE  GfXor(GfXor(a, b), a) = b
<1>1. GfXor(GfXor(a, b), a) = GfXor(a, GfXor(a, b)) /\ GfXor(a, b) \in Gf16
  BY FieldType, XorComm
<1>2. GfXor(a, GfXor(a, b)) = GfXor(GfXor(a, a), b)
  BY XorAssoc
<1> QED
  BY <1>1, <1>2, Neutral

\* What is left of the form of a sum after the forms of its parts.
Cancels(f, g, c, p, q, r, s) ==
  GfXor(GfXor(GfXor(GfXor(f, g), c), GfXor(GfXor(p, q), GfXor(r, s))),
        GfXor(GfXor(f, p), GfXor(g, s)))
    = GfXor(c, GfXor(r, q))

LEMMA PolarCancels ==
  ASSUME NEW f \in Gf16, NEW g \in Gf16, NEW c \in Gf16,
         NEW p \in Gf16, NEW q \in Gf16, NEW r \in Gf16, NEW s \in Gf16
  PROVE  Cancels(f, g, c, p, q, r, s)
<1> DEFINE F == GfXor(f, g)
           D == GfXor(p, s)
           E == GfXor(q, r)
<1>1. F \in Gf16 /\ D \in Gf16 /\ E \in Gf16 /\ E = GfXor(r, q)
  BY FieldType, XorComm
<1>2. GfXor(GfXor(f, p), GfXor(g, s)) = GfXor(F, D)
  BY FourTerms
<1>3. GfXor(GfXor(p, q), GfXor(r, s)) = GfXor(D, E)
  <2>1. GfXor(r, s) = GfXor(s, r)
    BY XorComm
  <2>2. GfXor(GfXor(p, q), GfXor(s, r)) = GfXor(GfXor(p, s), GfXor(q, r))
    BY FourTerms
  <2> QED
    BY <2>1, <2>2
<1> HIDE DEF F, D, E
<1>4. GfXor(GfXor(GfXor(F, c), GfXor(D, E)), GfXor(F, D)) = GfXor(c, E)
  <2>1. GfXor(F, c) \in Gf16 /\ GfXor(D, E) \in Gf16
    BY <1>1, FieldType
  <2>2. GfXor(GfXor(GfXor(F, c), GfXor(D, E)), GfXor(F, D))
          = GfXor(GfXor(GfXor(F, c), F), GfXor(GfXor(D, E), D))
    BY <1>1, <2>1, FourTerms
  <2>3. GfXor(GfXor(F, c), F) = c /\ GfXor(GfXor(D, E), D) = E
    BY <1>1, CancelTwice
  <2> QED
    BY <2>2, <2>3
<1>5. GfXor(GfXor(GfXor(F, c), GfXor(GfXor(p, q), GfXor(r, s))), GfXor(GfXor(f, p), GfXor(g, s)))
        = GfXor(c, GfXor(r, q))
  BY <1>1, <1>2, <1>3, <1>4
<1> QED
  BY <1>5 DEF F, Cancels

\* The bilinear part of a sum.
LEMMA BilinearOfSum ==
  ASSUME NEW L \in Rectangles, NEW u \in VecOf(mayo.v), NEW w \in VecOf(mayo.v),
         NEW x \in VecOf(mayo.o), NEW z \in VecOf(mayo.o), NEW a \in 0 .. mayo.m - 1
  PROVE  Bilinear(L, Plus(mayo.v, u, w), Plus(mayo.o, x, z))[a]
           = GfXor(GfXor(Bilinear(L, u, x)[a], Bilinear(L, w, x)[a]),
                   GfXor(Bilinear(L, u, z)[a], Bilinear(L, w, z)[a]))
<1> DEFINE v == mayo.v
           o == mayo.o
           g == Apply(L[a], v, o, x)
           h == Apply(L[a], v, o, z)
           e == Plus(v, u, w)
<1>1. v \in Nat /\ o \in Nat /\ L[a] \in MatOf(v, o)
  BY Sizes DEF Rectangles, SliceOf
<1>2. /\ g \in VecOf(v) /\ h \in VecOf(v) /\ e \in VecOf(v)
      /\ Apply(L[a], v, o, Plus(o, x, z)) = Plus(v, g, h)
  BY <1>1, ApplyType, ApplyPlus, PlusType
<1>3. /\ Bilinear(L, Plus(v, u, w), Plus(o, x, z))[a] = Dot(v, e, Plus(v, g, h))
      /\ Bilinear(L, u, x)[a] = Dot(v, u, g) /\ Bilinear(L, w, x)[a] = Dot(v, w, g)
      /\ Bilinear(L, u, z)[a] = Dot(v, u, h) /\ Bilinear(L, w, z)[a] = Dot(v, w, h)
  BY <1>2 DEF Bilinear
<1> HIDE DEF g, h
<1>4. Dot(v, e, Plus(v, g, h)) = GfXor(Dot(v, e, g), Dot(v, e, h))
  <2> HIDE DEF e
  <2> QED
    BY <1>1, <1>2, DotPlus
<1>5. /\ Dot(v, e, g) = GfXor(Dot(v, u, g), Dot(v, w, g))
      /\ Dot(v, e, h) = GfXor(Dot(v, u, h), Dot(v, w, h))
  BY <1>1, <1>2, DotPlus
<1> QED
  BY <1>3, <1>4, <1>5

LEMMA BilinearType ==
  ASSUME NEW L \in Rectangles, NEW u \in VecOf(mayo.v), NEW x \in VecOf(mayo.o)
  PROVE  Bilinear(L, u, x) \in VecOf(mayo.m)
<1>1. \A a \in 0 .. mayo.m - 1 : L[a] \in MatOf(mayo.v, mayo.o)
  BY DEF Rectangles, SliceOf
<1>2. \A a \in 0 .. mayo.m - 1 : Dot(mayo.v, u, Apply(L[a], mayo.v, mayo.o, x)) \in Gf16
  <2>1. \A a \in 0 .. mayo.m - 1 : Apply(L[a], mayo.v, mayo.o, x) \in VecOf(mayo.v)
    BY <1>1, ApplyType, Sizes
  <2> QED
    BY <2>1, DotType, Sizes
<1> QED
  BY <1>2 DEF Bilinear, VecOf, SliceOf

Vinegars == SliceOf(mayo.k, VecOf(mayo.v))
Oils     == VecOf(mayo.k * mayo.o)

OilOf(x, i)    == Slice(x, i * mayo.o, (i + 1) * mayo.o)
Parts(H, V, x) == [i \in 0 .. mayo.k - 1 |-> Part(H, V[i], OilOf(x, i))]

\* What the oil variables contribute to the value of a pair.
OilPair(L, V, x, i, j) ==
  IF i = j THEN Bilinear(L, V[i], OilOf(x, i))
  ELSE Plus(mayo.m, Bilinear(L, V[i], OilOf(x, j)), Bilinear(L, V[j], OilOf(x, i)))
OilPairs(L, V, x) == [p \in Pairs |-> OilPair(L, V, x, p[1], p[2])]

LEMMA OilOfType ==
  ASSUME NEW x \in Oils, NEW i \in 0 .. mayo.k - 1
  PROVE  /\ OilOf(x, i) \in VecOf(mayo.o)
         /\ \A c \in 0 .. mayo.o - 1 : /\ OilOf(x, i)[c] = x[(i * mayo.o) + c]
                                       /\ (i * mayo.o) + c \in 0 .. (mayo.k * mayo.o) - 1
<1> DEFINE o == mayo.o
           a == i * o
           b == (i + 1) * o
           l == mayo.k * o
<1>1. o \in Nat /\ mayo.k \in Nat /\ i \in Nat /\ l \in Nat
  BY Sizes
<1>2. a \in Nat /\ b = a + o
  <2> HIDE DEF o
  <2> QED
    BY <1>1
<1>3. \A c \in 0 .. o - 1 : a + c \in 0 .. l - 1
  <2> DEFINE k == mayo.k
  <2> HIDE DEF o, k
  <2>1. ASSUME NEW c \in 0 .. o - 1 PROVE (i * o) + c \in 0 .. (k * o) - 1
    <3>1. k \in Nat /\ i \in 0 .. k - 1 /\ o \in Nat
      BY <1>1 DEF k
    <3> QED
      BY <3>1, InBlock
  <2> QED
    BY <2>1 DEF k
<1> HIDE DEF a, b, l
<1>4. \A c \in 0 .. o - 1 : x[a + c] \in Gf16
  BY <1>3 DEF Oils, VecOf, SliceOf, l
<1>5. OilOf(x, i) = [c \in 0 .. o - 1 |-> x[a + c]]
  BY <1>1, <1>2 DEF OilOf, Slice, a, b
<1> HIDE DEF o
<1> QED
  BY <1>3, <1>4, <1>5 DEF VecOf, SliceOf, a, o, l

LEMMA PartsAre ==
  ASSUME NEW H \in MatOf(mayo.v, mayo.o), NEW V \in Vinegars, NEW x \in Oils
  PROVE  Parts(H, V, x) \in SliceOf(mayo.k, VecOf(mayo.n))
<1>1. \A i \in 0 .. mayo.k - 1 : V[i] \in VecOf(mayo.v) /\ OilOf(x, i) \in VecOf(mayo.o)
  BY OilOfType DEF Vinegars, SliceOf
<1>2. \A i \in 0 .. mayo.k - 1 : Part(H, V[i], OilOf(x, i)) \in VecOf(mayo.n)
  BY <1>1, PartType
<1> QED
  BY <1>2 DEF Parts, SliceOf

LEMMA OilPairsType ==
  ASSUME NEW L \in Rectangles, NEW V \in Vinegars, NEW x \in Oils
  PROVE  /\ \A i, j \in 0 .. mayo.k - 1 : OilPair(L, V, x, i, j) \in VecOf(mayo.m)
         /\ OilPairs(L, V, x) \in Families
<1>1. \A i, j \in 0 .. mayo.k - 1 : Bilinear(L, V[i], OilOf(x, j)) \in VecOf(mayo.m)
  <2>1. \A i \in 0 .. mayo.k - 1 : V[i] \in VecOf(mayo.v) /\ OilOf(x, i) \in VecOf(mayo.o)
    BY OilOfType DEF Vinegars, SliceOf
  <2> QED
    BY <2>1, BilinearType
<1>2. \A i, j \in 0 .. mayo.k - 1 : OilPair(L, V, x, i, j) \in VecOf(mayo.m)
  <2> SUFFICES ASSUME NEW i \in 0 .. mayo.k - 1, NEW j \in 0 .. mayo.k - 1
               PROVE  OilPair(L, V, x, i, j) \in VecOf(mayo.m)
    OBVIOUS
  <2>1. CASE i = j
    BY <1>1, <2>1 DEF OilPair
  <2>2. CASE i # j
    <3> DEFINE b == Bilinear(L, V[i], OilOf(x, j))
               c == Bilinear(L, V[j], OilOf(x, i))
    <3>1. b \in VecOf(mayo.m) /\ c \in VecOf(mayo.m) /\ OilPair(L, V, x, i, j) = Plus(mayo.m, b, c)
      BY <1>1, <2>2 DEF OilPair
    <3> HIDE DEF b, c
    <3> QED
      BY <3>1, Sizes, PlusType
  <2> QED
    BY <2>1, <2>2
<1>3. \A p \in Pairs : OilPair(L, V, x, p[1], p[2]) \in VecOf(mayo.m)
  BY <1>2, PairsCount
<1> QED
  BY <1>2, <1>3 DEF OilPairs, Families

\* The value of a pair of signature vectors under the public key is its value
\* under P1, without the oil variables, and the part that is linear in them.
LEMMA PolarOfParts ==
  ASSUME Environment, NEW seed \in Seeds, NEW V \in Vinegars, NEW x \in Oils,
         NEW i \in 0 .. mayo.k - 1, NEW j \in 0 .. mayo.k - 1
  PROVE  PairValue(PublicP(seed), Parts(KeyO(seed), V, x), i, j)
           = Plus(mayo.m, PairValue(KeyP1(seed), V, i, j), OilPair(KeyL(seed), V, x, i, j))
<1> DEFINE P  == PublicP(seed)
           P1 == KeyP1(seed)
           L  == KeyL(seed)
           H  == KeyO(seed)
           s  == Parts(H, V, x)
           u  == V[i]
           w  == V[j]
           b  == OilOf(x, i)
           c  == OilOf(x, j)
<1>1. /\ P \in SquareLists(mayo.n) /\ P1 \in SquareLists(mayo.v) /\ L \in Rectangles /\ H \in MatOf(mayo.v, mayo.o)
      /\ mayo.v \in Nat \ {0} /\ mayo.o \in Nat /\ mayo.m \in Nat
  BY KeyTypes, PublicMatrices, Sizes
<1>2. /\ u \in VecOf(mayo.v) /\ w \in VecOf(mayo.v) /\ b \in VecOf(mayo.o) /\ c \in VecOf(mayo.o)
      /\ s[i] = Part(H, u, b) /\ s[j] = Part(H, w, c)
  BY OilOfType DEF Vinegars, SliceOf, Parts
<1>3. s \in SliceOf(mayo.k, VecOf(mayo.n))
  BY <1>1, PartsAre
<1>4. PairValue(P, s, i, j) = PolarForm(P, s, i, j)
  BY <1>1, <1>3, PairIsPolar
<1>5. PairValue(P1, V, i, j) = PairForms(mayo.v, P1, V, i, j)
  BY <1>1, PairValueIs DEF Vinegars
<1>6. Forms(P, s[i]) = Plus(mayo.m, VinegarForms(P1, u), Bilinear(L, u, b))
  BY <1>2, FormsOfKey
<1>7. Forms(P, s[j]) = Plus(mayo.m, VinegarForms(P1, w), Bilinear(L, w, c))
  BY <1>2, FormsOfKey
<1>8. CASE i = j
  <2>1. PairForms(mayo.v, P1, V, i, j) = VinegarForms(P1, u)
    BY <1>8 DEF PairForms, VinegarForms
  <2>2. OilPair(L, V, x, i, j) = Bilinear(L, u, b) /\ PolarForm(P, s, i, j) = Forms(P, s[i])
    BY <1>8 DEF OilPair, PolarForm
  <2> QED
    BY <1>4, <1>5, <1>6, <2>1, <2>2
<1>9. CASE i # j
  <2> DEFINE uw == Plus(mayo.v, u, w)
             bc == Plus(mayo.o, b, c)
             f  == Plus(mayo.m, VinegarForms(P1, u), Bilinear(L, u, b))
             g  == Plus(mayo.m, VinegarForms(P1, w), Bilinear(L, w, c))
             h  == Plus(mayo.m, VinegarForms(P1, uw), Bilinear(L, uw, bc))
  <2>1. uw \in VecOf(mayo.v) /\ bc \in VecOf(mayo.o)
    <3> HIDE DEF u, w, b, c
    <3> QED
      BY <1>1, <1>2, PlusType
  <2>2. AddVec(s[i], s[j]) = Part(H, uw, bc)
    <3>1. AddVec(Part(H, u, b), Part(H, w, c)) = Part(H, uw, bc)
      <4> HIDE DEF u, w, b, c, H
      <4> QED
        BY <1>1, <1>2, PartPlus
    <3> QED
      BY <1>2, <3>1
  <2>3. Forms(P, Part(H, uw, bc)) = h
    <3> HIDE DEF uw, bc
    <3> QED
      BY <2>1, FormsOfKey
  <2>4. PolarForm(P, s, i, j) = AddVec(h, AddVec(f, g))
    BY <1>6, <1>7, <1>9, <2>2, <2>3 DEF PolarForm
  <2>5. f \in VecOf(mayo.m) /\ g \in VecOf(mayo.m) /\ h \in VecOf(mayo.m)
    <3>1. \A d \in VecOf(mayo.v), e \in VecOf(mayo.o) :
            Plus(mayo.m, VinegarForms(P1, d), Bilinear(L, d, e)) \in VecOf(mayo.m)
      <4> SUFFICES ASSUME NEW d \in VecOf(mayo.v), NEW e \in VecOf(mayo.o)
                   PROVE  Plus(mayo.m, VinegarForms(P1, d), Bilinear(L, d, e)) \in VecOf(mayo.m)
        OBVIOUS
      <4>1. VinegarForms(P1, d) \in VecOf(mayo.m) /\ Bilinear(L, d, e) \in VecOf(mayo.m)
        BY <1>1, PartTypes
      <4> QED
        BY <1>1, <4>1, PlusType
    <3> HIDE DEF uw, bc, u, w, b, c
    <3> QED
      BY <1>2, <2>1, <3>1
  <2>6. AddVec(h, AddVec(f, g)) = Plus(mayo.m, h, Plus(mayo.m, f, g))
    <3> HIDE DEF f, g, h
    <3>1. AddVec(f, g) = Plus(mayo.m, f, g) /\ Plus(mayo.m, f, g) \in VecOf(mayo.m)
      BY <1>1, <2>5, AddVecIs, PlusType
    <3> QED
      BY <1>1, <2>5, <3>1, AddVecIs
  <2>7. ASSUME NEW a \in 0 .. mayo.m - 1
        PROVE  GfXor(h[a], GfXor(f[a], g[a]))
                 = GfXor(Cross(mayo.v, P1[a], u, w), GfXor(Bilinear(L, u, c)[a], Bilinear(L, w, b)[a]))
    <3> DEFINE fu == Form(mayo.v, P1[a], u)
               fw == Form(mayo.v, P1[a], w)
               cr == Cross(mayo.v, P1[a], u, w)
               ub == Bilinear(L, u, b)[a]
               wb == Bilinear(L, w, b)[a]
               uc == Bilinear(L, u, c)[a]
               wc == Bilinear(L, w, c)[a]
    <3>1. P1[a] \in MatOf(mayo.v, mayo.v)
      BY <1>1 DEF SquareLists, SliceOf
    <3>2. fu \in Gf16 /\ fw \in Gf16 /\ cr \in Gf16 /\ Form(mayo.v, P1[a], uw) = GfXor(GfXor(fu, fw), cr)
      BY <1>1, <1>2, <3>1, FormType, FormOfSum
    <3>3. ub \in Gf16 /\ wb \in Gf16 /\ uc \in Gf16 /\ wc \in Gf16
      <4>1. /\ Bilinear(L, u, b) \in VecOf(mayo.m) /\ Bilinear(L, w, b) \in VecOf(mayo.m)
            /\ Bilinear(L, u, c) \in VecOf(mayo.m) /\ Bilinear(L, w, c) \in VecOf(mayo.m)
        BY <1>1, <1>2, BilinearType
      <4> QED
        BY <4>1 DEF VecOf, SliceOf
    <3>4. Bilinear(L, uw, bc)[a] = GfXor(GfXor(ub, wb), GfXor(uc, wc))
      BY <1>1, <1>2, BilinearOfSum
    <3>5. /\ f[a] = GfXor(fu, ub) /\ g[a] = GfXor(fw, wc)
          /\ h[a] = GfXor(Form(mayo.v, P1[a], uw), Bilinear(L, uw, bc)[a])
      BY DEF Plus, VinegarForms
    <3> HIDE DEF fu, fw, cr, ub, wb, uc, wc, f, g, h, uw, bc
    <3>6. GfXor(GfXor(GfXor(GfXor(fu, fw), cr), GfXor(GfXor(ub, wb), GfXor(uc, wc))),
                GfXor(GfXor(fu, ub), GfXor(fw, wc)))
            = GfXor(cr, GfXor(uc, wb))
      <4>1. /\ fu \in Gf16 /\ fw \in Gf16 /\ cr \in Gf16
            /\ ub \in Gf16 /\ wb \in Gf16 /\ uc \in Gf16 /\ wc \in Gf16
        BY <3>2, <3>3
      <4>2. Cancels(fu, fw, cr, ub, wb, uc, wc)
        BY <4>1, PolarCancels
      <4> QED
        BY <4>2 DEF Cancels
    <3>7. GfXor(h[a], GfXor(f[a], g[a])) = GfXor(cr, GfXor(uc, wb))
      BY <3>2, <3>4, <3>5, <3>6
    <3> QED
      BY <3>7 DEF cr, uc, wb
  <2> HIDE DEF f, g, h
  <2>8. Plus(mayo.m, h, Plus(mayo.m, f, g)) = [a \in 0 .. mayo.m - 1 |-> GfXor(h[a], GfXor(f[a], g[a]))]
    BY DEF Plus
  <2>9. Plus(mayo.m, PairForms(mayo.v, P1, V, i, j), OilPair(L, V, x, i, j))
          = [a \in 0 .. mayo.m - 1 |->
               GfXor(Cross(mayo.v, P1[a], u, w), GfXor(Bilinear(L, u, c)[a], Bilinear(L, w, b)[a]))]
    BY <1>9 DEF Plus, PairForms, OilPair
  <2>10. Plus(mayo.m, h, Plus(mayo.m, f, g))
           = Plus(mayo.m, PairForms(mayo.v, P1, V, i, j), OilPair(L, V, x, i, j))
    <3> HIDE DEF P1, L, u, w, b, c
    <3> QED
      BY <2>7, <2>8, <2>9
  <2> QED
    BY <1>4, <1>5, <2>4, <2>6, <2>10
<1> QED
  BY <1>8, <1>9

\* P* at the signature vectors, as a sum over the pairs.
LEMMA PStarOfParts ==
  ASSUME Environment, NEW seed \in Seeds, NEW V \in Vinegars, NEW x \in Oils
  PROVE  /\ PStar(PublicP(seed), Parts(KeyO(seed), V, x))
              = Plus(mayo.m, HornerSum(PairValues(KeyP1(seed), V)), HornerSum(OilPairs(KeyL(seed), V, x)))
         /\ HornerSum(PairValues(KeyP1(seed), V)) \in VecOf(mayo.m)
         /\ HornerSum(OilPairs(KeyL(seed), V, x)) \in VecOf(mayo.m)
<1> DEFINE P == PublicP(seed)
           s == Parts(KeyO(seed), V, x)
           U == PairValues(KeyP1(seed), V)
           W == OilPairs(KeyL(seed), V, x)
           Z == [p \in Pairs |-> Plus(mayo.m, U[p], W[p])]
<1>1. /\ P \in SquareLists(mayo.n) /\ s \in SliceOf(mayo.k, VecOf(mayo.n))
      /\ KeyP1(seed) \in SquareLists(mayo.v) /\ KeyL(seed) \in Rectangles
      /\ mayo.v \in Nat \ {0} /\ mayo.n \in Nat \ {0} /\ mayo.m \in Nat
  <2>1. mayo.n \in Nat \ {0}
    BY Sizes
  <2> QED
    BY <2>1, KeyTypes, PublicMatrices, PartsAre, Sizes
<1>2. U \in Families /\ W \in Families /\ PairValues(P, s) \in Families
  BY <1>1, PairValuesType, OilPairsType DEF Vinegars
<1>3. PairValues(P, s) = Z
  <2>1. \A p \in Pairs : PairValue(P, s, p[1], p[2])
                            = Plus(mayo.m, PairValue(KeyP1(seed), V, p[1], p[2]), OilPair(KeyL(seed), V, x, p[1], p[2]))
    BY PairsCount, PolarOfParts
  <2> HIDE DEF P, s
  <2> QED
    BY <2>1 DEF PairValues, OilPairs
<1>4. PStar(P, s) = HornerSum(Z)
  BY <1>1, <1>3, PStarIs
<1> HIDE DEF U, W
<1>5. Total(Z, Pairs) = Plus(Top, Total(U, Pairs), Total(W, Pairs))
  BY <1>2, TotalPlus
<1>6. /\ reduceVecModF(Total(Z, Pairs)) = HornerSum(Z)
      /\ reduceVecModF(Total(U, Pairs)) = HornerSum(U) /\ HornerSum(U) \in VecOf(mayo.m)
      /\ reduceVecModF(Total(W, Pairs)) = HornerSum(W) /\ HornerSum(W) \in VecOf(mayo.m)
  <2>1. Z \in Families
    BY <1>2, <1>3
  <2> HIDE DEF Z
  <2> QED
    BY <1>2, <2>1, ReduceTotal
<1>7. Total(U, Pairs) \in Polys /\ Total(W, Pairs) \in Polys
  BY <1>2, TotalType
<1>8. reduceVecModF(Plus(Top, Total(U, Pairs), Total(W, Pairs))) = Plus(mayo.m, HornerSum(U), HornerSum(W))
  BY <1>6, <1>7, FieldType, ReduceLinear
<1> QED
  BY <1>4, <1>5, <1>6, <1>8 DEF U, W

\* A vector in block b of k blocks, zeros in the others.
InBlockOf(b, w, k, o) == [c \in 0 .. (k * o) - 1 |-> IF c \div o = b THEN w[c % o] ELSE 0]

ReadsBlock(z, x, b, o) == \A i \in 0 .. o - 1 : z[i] = x[(b * o) + i]

LEMMA BlockDot ==
  ASSUME NEW k \in Nat, NEW o \in Nat, NEW b \in 0 .. k - 1, NEW w \in VecOf(o), NEW x \in VecOf(k * o),
         NEW z \in VecOf(o), ReadsBlock(z, x, b, o)
  PROVE  /\ InBlockOf(b, w, k, o) \in VecOf(k * o)
         /\ Dot(k * o, InBlockOf(b, w, k, o), x) = Dot(o, w, z)
<1> DEFINE D     == 0 .. (k * o) - 1
           I     == 0 .. o - 1
           q(c)  == c \div o
           r(c)  == c % o
           at(i) == (b * o) + i
           C     == {c \in D : q(c) = b}
           R     == {c \in D : q(c) # b}
           g     == InBlockOf(b, w, k, o)
           f     == [c \in D |-> GfMul(g[c], x[c])]
           shift == [i \in I |-> at(i)]
<1>1. \A i \in I : at(i) \in D /\ q(at(i)) = b /\ r(at(i)) = i
  BY InBlock
<1>2. \A c \in D : r(c) \in I /\ (q(c) = b => c = at(r(c)))
  BY OfBlock
<1>3. /\ \A i \in I : w[i] \in Gf16 /\ z[i] \in Gf16 /\ z[i] = x[at(i)]
      /\ \A c \in D : x[c] \in Gf16
      /\ \A c \in D : g[c] = IF q(c) = b THEN w[r(c)] ELSE 0
      /\ g = [c \in D |-> g[c]]
  BY DEF VecOf, SliceOf, InBlockOf, ReadsBlock
<1>4. IsFiniteSet(D) /\ IsFiniteSet(I)
  <2>1. k * o \in Nat
    OBVIOUS
  <2> QED
    BY <2>1, IndicesFinite
<1>5. Dot(k * o, g, x) = SumOf(f)
  BY DEF Dot
<1>6. Dot(o, w, z) = SumOf([i \in I |-> GfMul(w[i], z[i])])
  BY DEF Dot
<1>7. g \in VecOf(k * o)
  <2>1. \A c \in D : g[c] \in Gf16
    <3> HIDE DEF q, r, D, I, g
    <3> QED
      BY <1>2, <1>3, FieldType
  <2> QED
    BY <1>3, <2>1 DEF VecOf, SliceOf
<1> HIDE DEF D, I, q, r, at, g
<1>8. f \in [D -> Gf16]
  BY <1>2, <1>3, FieldType
<1>9. C \subseteq D /\ R \subseteq D /\ C \cap R = {} /\ C \cup R = D /\ IsFiniteSet(C)
  <2>1. C \subseteq D /\ R \subseteq D /\ C \cap R = {} /\ C \cup R = D
    OBVIOUS
  <2> QED
    BY <1>4, <2>1, FS_Subset
<1>10. /\ \A c \in C : q(c) = b /\ c \in D
       /\ \A c \in D : q(c) = b => c \in C
       /\ \A c \in R : q(c) # b /\ c \in D
  OBVIOUS
<1>11. \A c \in D : f[c] = GfMul(g[c], x[c])
  OBVIOUS
<1>12. Over(f, R) = 0
  <2>1. \A c \in R : f[c] = 0
    BY <1>3, <1>10, <1>11, Neutral
  <2>2. IsFiniteSet(R)
    BY <1>4, <1>9, FS_Subset
  <2> HIDE DEF R, f
  <2>3. [c \in R |-> f[c]] = [c \in R |-> 0]
    BY <2>1
  <2> QED
    BY <2>2, <2>3, SumZero DEF Over
<1>13. Bijects(shift, I, C)
  <2>1. \A i \in I : shift[i] = at(i) /\ at(i) \in C
    BY <1>1, <1>10
  <2>2. shift \in [I -> C]
    BY <2>1
  <2>3. \A i, j \in I : shift[i] = shift[j] => i = j
    BY <1>1, <2>1
  <2>4. \A c \in C : \E i \in I : shift[i] = c
    BY <1>2, <1>10, <2>1
  <2> QED
    BY <2>2, <2>3, <2>4 DEF Bijects
<1>14. \A i \in I : shift[i] = at(i) /\ shift[i] \in C
  BY <1>1, <1>10
<1> HIDE DEF C, R, f, shift
<1>15. Over(f, C) = SumOf([i \in I |-> GfMul(w[i], z[i])])
  <2> DEFINE e == [c \in C |-> f[c]]
  <2>1. e \in [C -> Gf16] /\ \A c \in C : e[c] = f[c]
    BY <1>8, <1>9
  <2> HIDE DEF e
  <2>2. Moves(e, shift, I)
    BY <1>4, <1>9, <1>13, <2>1, SumMoves
  <2>3. \A i \in I : e[shift[i]] = GfMul(w[i], z[i])
    BY <1>1, <1>3, <1>11, <1>14, <2>1
  <2>4. [i \in I |-> e[shift[i]]] = [i \in I |-> GfMul(w[i], z[i])]
    BY <2>3
  <2> QED
    BY <2>2, <2>4 DEF Moves, Over, e
<1>16. Splits(f, C, R) /\ Over(f, D) = SumOf(f) /\ Over(f, C) \in Gf16
  <2>1. Splits(f, C, R)
    BY <1>4, <1>8, <1>9, OverSplits
  <2>2. Over(f, D) = SumOf(f) /\ Over(f, C) \in Gf16
    BY <1>4, <1>8, <1>9, OverType
  <2> QED
    BY <2>1, <2>2
<1>17. SumOf(f) = GfXor(Over(f, C), 0)
  BY <1>9, <1>12, <1>16 DEF Splits
<1>18. SumOf(f) = Over(f, C)
  BY <1>16, <1>17, Neutral
<1> QED
  BY <1>5, <1>6, <1>7, <1>15, <1>18 DEF g

\* M_i of the code, and M_i z.
LEMMA BuildMIs ==
  ASSUME NEW V \in Vinegars, NEW L \in Rectangles, NEW i \in 0 .. mayo.k - 1
  PROVE  /\ BuildM(V, L)[i] \in MatOf(mayo.m, mayo.o)
         /\ \A z \in VecOf(mayo.o), e \in 0 .. mayo.m - 1 :
              Dot(mayo.o, BuildM(V, L)[i][e], z) = Bilinear(L, V[i], z)[e]
<1> DEFINE v == mayo.v
           o == mayo.o
           u == V[i]
           row(e) == Apply(Flip(L[e], v, o), o, v, u)
<1>1. /\ v \in Nat \ {0} /\ o \in Nat \ {0} /\ u \in VecOf(v)
      /\ \A e \in 0 .. mayo.m - 1 : L[e] \in MatOf(v, o)
  BY Sizes DEF Vinegars, Rectangles, SliceOf
<1>2. ASSUME NEW e \in 0 .. mayo.m - 1
      PROVE  BuildM(V, L)[i][e] = row(e) /\ row(e) \in VecOf(o)
  <2> DEFINE one == transposeVector(u)
  <2>1. one \in MatOf(1, v) /\ one[0] = u
    BY <1>1 DEF transposeVector, MatOf, SliceOf
  <2>2. BuildM(V, L)[i][e] = MultiplyMatrices(one, L[e])[0]
    BY DEF BuildM
  <2> HIDE DEF one, u
  <2>3. MultiplyMatrices(one, L[e]) = Times(one, L[e], 1, v, o)
    BY <1>1, <2>1, MultiplyIs
  <2>4. Times(one, L[e], 1, v, o)[0] = row(e)
    BY <2>1 DEF Times
  <2>5. row(e) \in VecOf(o)
    <3>1. Flip(L[e], v, o) \in MatOf(o, v)
      BY <1>1, FlipType
    <3> QED
      BY <1>1, <3>1, ApplyType
  <2> QED
    BY <2>2, <2>3, <2>4, <2>5
<1>3. BuildM(V, L)[i] = [e \in 0 .. mayo.m - 1 |-> BuildM(V, L)[i][e]]
  BY DEF BuildM
<1>4. BuildM(V, L)[i] \in MatOf(mayo.m, o)
  BY <1>2, <1>3 DEF MatOf, SliceOf
<1>5. ASSUME NEW z \in VecOf(o), NEW e \in 0 .. mayo.m - 1
      PROVE  Dot(o, BuildM(V, L)[i][e], z) = Bilinear(L, V[i], z)[e]
  <2>1. Dot(v, u, Apply(L[e], v, o, z)) = Dot(o, row(e), z)
    BY <1>1, Adjoint
  <2> QED
    BY <1>2, <2>1 DEF Bilinear
<1> QED
  BY <1>4, <1>5

\* The matrix A before the reduction, and the terms of an entry.
Unreduced(M) == [row \in 0 .. Top - 1 |-> [column \in 0 .. mayo.k * mayo.o - 1 |-> EntryOfA(M, row, column)]]

Term(M, row, p, column) ==
  LET e == row - Ell(p[1], p[2])
  IN IF e \notin 0 .. mayo.m - 1 THEN 0
     ELSE IF column \div mayo.o = p[1] THEN M[p[2]][e][column % mayo.o]
     ELSE IF column \div mayo.o = p[2] THEN M[p[1]][e][column % mayo.o]
     ELSE 0

LEMMA EntryIs ==
  ASSUME NEW M, NEW row, NEW column
  PROVE  EntryOfA(M, row, column) = SumOf([p \in Pairs |-> Term(M, row, p, column)])
BY DEF EntryOfA, Term

\* One pair's terms of a row, times x: the row of the pair's shifted value.
LEMMA TermsOfPair ==
  ASSUME NEW V \in Vinegars, NEW L \in Rectangles, NEW x \in Oils, NEW row \in 0 .. Top - 1, NEW p \in Pairs
  PROVE  LET h == [c \in 0 .. (mayo.k * mayo.o) - 1 |-> Term(BuildM(V, L), row, p, c)]
         IN /\ h \in Oils
            /\ Dot(mayo.k * mayo.o, h, x) = Shift(OilPairs(L, V, x)[p], Ell(p[1], p[2]))[row]
<1> DEFINE k  == mayo.k
           o  == mayo.o
           M  == BuildM(V, L)
           e  == row - Ell(p[1], p[2])
           h  == [c \in 0 .. (k * o) - 1 |-> Term(M, row, p, c)]
           i  == p[1]
           j  == p[2]
           U  == OilPairs(L, V, x)[p]
<1>1. k \in Nat /\ o \in Nat /\ k * o \in Nat /\ i \in 0 .. k - 1 /\ j \in 0 .. k - 1
  <2>1. k \in Nat /\ o \in Nat
    BY Sizes
  <2> QED
    BY <2>1, PairsCount
<1>2. Shift(U, Ell(i, j))[row] = IF e \in 0 .. mayo.m - 1 THEN U[e] ELSE 0
  BY DEF Shift
<1>3. CASE e \notin 0 .. mayo.m - 1
  <2>1. h = Zeros(k * o)
    BY <1>3 DEF Term, Zeros
  <2> HIDE DEF h
  <2>2. h \in VecOf(k * o) /\ Dot(k * o, h, x) = 0
    BY <1>1, <2>1, ZerosVec, DotZero DEF Oils
  <2> QED
    BY <1>2, <1>3, <2>2 DEF Oils, h
<1>4. CASE e \in 0 .. mayo.m - 1
  <2> DEFINE wi == M[i][e]
             wj == M[j][e]
             zi == OilOf(x, i)
             zj == OilOf(x, j)
             bi == InBlockOf(i, wj, k, o)
             bj == InBlockOf(j, wi, k, o)
  <2>1. /\ wi \in VecOf(o) /\ wj \in VecOf(o)
        /\ \A z \in VecOf(o) : Dot(o, wi, z) = Bilinear(L, V[i], z)[e] /\ Dot(o, wj, z) = Bilinear(L, V[j], z)[e]
    <3>1. M[i] \in MatOf(mayo.m, o) /\ M[j] \in MatOf(mayo.m, o)
      BY <1>1, BuildMIs
    <3>2. wi \in VecOf(o) /\ wj \in VecOf(o)
      BY <1>4, <3>1 DEF MatOf, SliceOf
    <3>3. \A z \in VecOf(o) : Dot(o, wi, z) = Bilinear(L, V[i], z)[e]
      BY <1>1, <1>4, BuildMIs
    <3>4. \A z \in VecOf(o) : Dot(o, wj, z) = Bilinear(L, V[j], z)[e]
      BY <1>1, <1>4, BuildMIs
    <3> QED
      BY <3>2, <3>3, <3>4
  <2>2. /\ zi \in VecOf(o) /\ zj \in VecOf(o)
        /\ ReadsBlock(zi, x, i, o) /\ ReadsBlock(zj, x, j, o)
    BY <1>1, OilOfType DEF ReadsBlock
  <2> HIDE DEF wi, wj, zi, zj
  <2>3. x \in VecOf(k * o)
    BY DEF Oils
  <2> DEFINE N == k * o
  <2>4. /\ bi \in VecOf(N) /\ Dot(N, bi, x) = Dot(o, wj, zi)
        /\ bj \in VecOf(N) /\ Dot(N, bj, x) = Dot(o, wi, zj)
    <3> HIDE DEF k, o, i, j
    <3>0. /\ wi \in VecOf(o) /\ wj \in VecOf(o) /\ k \in Nat /\ o \in Nat
          /\ i \in 0 .. k - 1 /\ j \in 0 .. k - 1
      BY <1>1, <2>1
    <3>1. InBlockOf(i, wj, k, o) \in VecOf(k * o) /\ Dot(k * o, InBlockOf(i, wj, k, o), x) = Dot(o, wj, zi)
      BY <3>0, <2>2, <2>3, BlockDot
    <3>2. InBlockOf(j, wi, k, o) \in VecOf(k * o) /\ Dot(k * o, InBlockOf(j, wi, k, o), x) = Dot(o, wi, zj)
      BY <3>0, <2>2, <2>3, BlockDot
    <3> QED
      BY <3>1, <3>2
  <2>5. Dot(o, wj, zi) = Bilinear(L, V[j], zi)[e] /\ Dot(o, wi, zj) = Bilinear(L, V[i], zj)[e]
    BY <2>1, <2>2
  <2>6. CASE i = j
    <3>1. h = bi
      <4>1. \A c \in 0 .. N - 1 : Term(M, row, p, c) = IF c \div o = i THEN wj[c % o] ELSE 0
        BY <1>4, <2>6 DEF Term, wj
      <4> QED
        BY <4>1 DEF InBlockOf
    <3>2. U[e] = Bilinear(L, V[j], zi)[e]
      BY <2>6 DEF OilPairs, OilPair, zi
    <3> HIDE DEF h, bi, U
    <3>3. Dot(N, h, x) = U[e] /\ h \in VecOf(N)
      BY <2>4, <2>5, <3>1, <3>2
    <3> HIDE DEF e
    <3>4. h \in Oils /\ Dot(N, h, x) = Shift(U, Ell(i, j))[row]
      BY <1>2, <1>4, <3>3 DEF Oils
    <3> QED
      BY <3>4 DEF h, U, e
  <2>7. CASE i # j
    <3>1. h = Plus(N, bi, bj)
      <4>1. ASSUME NEW c \in 0 .. N - 1 PROVE Term(M, row, p, c) = GfXor(bi[c], bj[c])
        <5>1. /\ bi[c] = IF c \div o = i THEN wj[c % o] ELSE 0
              /\ bj[c] = IF c \div o = j THEN wi[c % o] ELSE 0
          BY DEF InBlockOf
        <5>2. Term(M, row, p, c) = IF c \div o = i THEN wj[c % o] ELSE IF c \div o = j THEN wi[c % o] ELSE 0
          BY <1>4 DEF Term, wi, wj
        <5>3. bi[c] \in Gf16 /\ bj[c] \in Gf16
          BY <2>4 DEF VecOf, SliceOf
        <5> DEFINE d == c \div o
                   P == wi[c % o]
                   Q == wj[c % o]
        <5> HIDE DEF d, P, Q, bi, bj, i, j
        <5>4. /\ bi[c] = IF d = i THEN Q ELSE 0
              /\ bj[c] = IF d = j THEN P ELSE 0
              /\ Term(M, row, p, c) = IF d = i THEN Q ELSE IF d = j THEN P ELSE 0
          BY <5>1, <5>2 DEF d, P, Q
        <5> QED
          BY <2>7, <5>3, <5>4, Neutral
      <4> HIDE DEF bi, bj
      <4> QED
        BY <4>1 DEF Plus
    <3>2. U[e] = GfXor(Bilinear(L, V[i], zj)[e], Bilinear(L, V[j], zi)[e])
      BY <1>4, <2>7 DEF OilPairs, OilPair, Plus, zi, zj
    <3> HIDE DEF h, bi, bj, U, N
    <3>3. N \in Nat
      BY <1>1 DEF N
    <3>4. h \in VecOf(N)
      BY <2>4, <3>1, <3>3, PlusType
    <3>5. Dot(N, h, x) = GfXor(Dot(N, bi, x), Dot(N, bj, x))
      BY <2>3, <2>4, <3>1, <3>3, DotPlus DEF N
    <3>6. Dot(N, bi, x) \in Gf16 /\ Dot(N, bj, x) \in Gf16
      BY <2>3, <2>4, <3>3, DotType DEF N
    <3>7. Dot(N, h, x) = U[e]
      BY <2>4, <2>5, <3>2, <3>5, <3>6, XorComm
    <3> HIDE DEF e
    <3>8. h \in Oils /\ Dot(k * o, h, x) = Shift(U, Ell(i, j))[row]
      BY <1>2, <1>4, <3>4, <3>7 DEF Oils, N
    <3> QED
      BY <3>8 DEF h, U, e
  <2> QED
    BY <2>6, <2>7
<1> QED
  BY <1>3, <1>4

LEMMA UnreducedIs ==
  ASSUME NEW V \in Vinegars, NEW L \in Rectangles, NEW x \in Oils
  PROVE  /\ Unreduced(BuildM(V, L)) \in MatOf(Top, mayo.k * mayo.o)
         /\ Apply(Unreduced(BuildM(V, L)), Top, mayo.k * mayo.o, x) = Total(OilPairs(L, V, x), Pairs)
<1> DEFINE N == mayo.k * mayo.o
           C == 0 .. N - 1
           M == BuildM(V, L)
           E == Unreduced(M)
           W == OilPairs(L, V, x)
<1>1. N \in Nat /\ IsFiniteSet(C) /\ IsFiniteSet(Pairs) /\ Top \in Nat
  <2>1. N \in Nat /\ Top \in Nat
    BY Sizes, ShiftsNat
  <2> QED
    BY <2>1, IndicesFinite, PairsCount
<1>2. \A c \in C : x[c] \in Gf16
  BY DEF Oils, VecOf, SliceOf
<1>3. ASSUME NEW row \in 0 .. Top - 1
      PROVE  /\ \A c \in C : E[row][c] \in Gf16
             /\ Dot(N, E[row], x) = SumOf([p \in Pairs |-> Shift(W[p], Ell(p[1], p[2]))[row]])
  <2> DEFINE term(p, c) == Term(M, row, p, c)
             F == [q \in C \X Pairs |-> GfMul(term(q[2], q[1]), x[q[1]])]
             h(p) == [c \in C |-> term(p, c)]
  <2>1. \A p \in Pairs : /\ h(p) \in Oils
                         /\ Dot(N, h(p), x) = Shift(W[p], Ell(p[1], p[2]))[row]
    BY TermsOfPair
  <2>2. \A p \in Pairs, c \in C : term(p, c) \in Gf16
    <3> SUFFICES ASSUME NEW p \in Pairs, NEW c \in C PROVE term(p, c) \in Gf16
      OBVIOUS
    <3> DEFINE g == h(p)
    <3>1. g \in VecOf(N) /\ g[c] = term(p, c)
      BY <2>1 DEF Oils
    <3> HIDE DEF g, term
    <3> QED
      BY <3>1 DEF VecOf, SliceOf
  <2>3. \A c \in C : E[row][c] = SumOf([p \in Pairs |-> term(p, c)])
    <3> SUFFICES ASSUME NEW c \in C PROVE E[row][c] = SumOf([p \in Pairs |-> term(p, c)])
      OBVIOUS
    <3>1. E[row][c] = EntryOfA(M, row, c)
      BY DEF Unreduced
    <3> QED
      BY <3>1, EntryIs
  <2>3a. /\ \A p \in Pairs : Dot(N, h(p), x) = SumOf([c \in C |-> GfMul(h(p)[c], x[c])])
         /\ \A p \in Pairs, c \in C : h(p)[c] = term(p, c)
         /\ Dot(N, E[row], x) = SumOf([c \in C |-> GfMul(E[row][c], x[c])])
    BY DEF Dot
  <2> HIDE DEF term, E, C, W, M
  <2>4. F \in [C \X Pairs -> Gf16]
    BY <1>2, <2>2, FieldType
  <2>5. \A c \in C, p \in Pairs : F[<<c, p>>] = GfMul(term(p, c), x[c])
    OBVIOUS
  <2> HIDE DEF F
  <2>6. Swaps(C, Pairs, F)
    BY <1>1, <2>4, SumSwap
  <2>7. ASSUME NEW c \in C
        PROVE  /\ SumOf([p \in Pairs |-> F[<<c, p>>]]) = GfMul(E[row][c], x[c])
               /\ E[row][c] \in Gf16
    <3> DEFINE f == [p \in Pairs |-> term(p, c)]
    <3>1. f \in [Pairs -> Gf16] /\ \A p \in Pairs : f[p] = term(p, c)
      BY <2>2
    <3>2. E[row][c] = SumOf(f)
      BY <2>3
    <3> HIDE DEF f
    <3>3. SumOf([p \in Pairs |-> GfMul(x[c], f[p])]) = GfMul(x[c], SumOf(f)) /\ SumOf(f) \in Gf16
      <4>1. SumOf([p \in Pairs |-> GfMul(x[c], f[p])]) = GfMul(x[c], SumOf(f))
        BY <1>1, <1>2, <3>1, SumMul
      <4>2. SumOf(f) \in Gf16
        BY <1>1, <3>1, SumType
      <4> QED
        BY <4>1, <4>2
    <3>4. \A p \in Pairs : F[<<c, p>>] = GfMul(x[c], f[p])
      BY <1>2, <2>2, <2>5, <3>1, MulComm
    <3>5. [p \in Pairs |-> F[<<c, p>>]] = [p \in Pairs |-> GfMul(x[c], f[p])]
      BY <3>4
    <3> QED
      BY <1>2, <3>2, <3>3, <3>5, MulComm
  <2>8. ASSUME NEW p \in Pairs
        PROVE  SumOf([c \in C |-> F[<<c, p>>]]) = Shift(W[p], Ell(p[1], p[2]))[row]
    <3>1. \A c \in C : F[<<c, p>>] = GfMul(h(p)[c], x[c])
      BY <2>3a, <2>5
    <3>2. [c \in C |-> F[<<c, p>>]] = [c \in C |-> GfMul(h(p)[c], x[c])]
      <4> DEFINE g == h(p)
      <4>1. \A c \in C : F[<<c, p>>] = GfMul(g[c], x[c])
        BY <3>1
      <4> HIDE DEF g
      <4>2. [c \in C |-> F[<<c, p>>]] = [c \in C |-> GfMul(g[c], x[c])]
        BY <4>1
      <4> QED
        BY <4>2 DEF g
    <3>3. Dot(N, h(p), x) = SumOf([c \in C |-> GfMul(h(p)[c], x[c])])
      BY <2>3a
    <3>4. Dot(N, h(p), x) = Shift(W[p], Ell(p[1], p[2]))[row]
      BY <2>1
    <3> QED
      BY <3>2, <3>3, <3>4, Zenon
  <2>9. [c \in C |-> SumOf([p \in Pairs |-> F[<<c, p>>]])] = [c \in C |-> GfMul(E[row][c], x[c])]
    BY <2>7
  <2>10. [p \in Pairs |-> SumOf([c \in C |-> F[<<c, p>>]])] = [p \in Pairs |-> Shift(W[p], Ell(p[1], p[2]))[row]]
    BY <2>8
  <2>11. Dot(N, E[row], x) = SumOf([p \in Pairs |-> Shift(W[p], Ell(p[1], p[2]))[row]])
    BY <2>3a, <2>6, <2>9, <2>10, Zenon DEF Swaps
  <2> QED
    BY <2>7, <2>11
<1>4. /\ E = [row \in 0 .. Top - 1 |-> E[row]]
      /\ \A row \in 0 .. Top - 1 : E[row] = [c \in C |-> E[row][c]]
  BY DEF Unreduced
<1> HIDE DEF E, W, C
<1>5. E \in MatOf(Top, N)
  <2>1. \A row \in 0 .. Top - 1 : E[row] \in VecOf(N)
    BY <1>3, <1>4 DEF VecOf, SliceOf, C
  <2> QED
    BY <1>4, <2>1 DEF MatOf, SliceOf
<1>6. Apply(E, Top, N, x) = Total(W, Pairs)
  BY <1>3 DEF Apply, Total
<1> QED
  BY <1>5, <1>6 DEF E, W

LEMMA ReduceZero == reduceVecModF(Zeros(Top)) = Zeros(mayo.m)
<1> DEFINE z == Zeros(Top)
           r == reduceVecModF(z)
<1>1. z \in Polys /\ 0 \in Gf16
  BY ShiftsNat, ZerosVec, FieldType DEF Polys
<1>2. Scale(Top, z, 0) = z
  <2>1. \A d \in 0 .. Top - 1 : GfMul(z[d], 0) = 0
    BY FieldType, Neutral DEF Zeros
  <2> QED
    BY <2>1 DEF Scale, Zeros
<1> HIDE DEF z
<1>3. r \in VecOf(mayo.m) /\ reduceVecModF(Scale(Top, z, 0)) = Scale(mayo.m, r, 0)
  BY <1>1, ReduceType, ReduceLinear
<1>4. Scale(mayo.m, r, 0) = Zeros(mayo.m)
  <2>1. \A d \in 0 .. mayo.m - 1 : GfMul(r[d], 0) = 0
    BY <1>3, Neutral DEF VecOf, SliceOf
  <2> QED
    BY <2>1 DEF Scale, Zeros
<1> QED
  BY <1>2, <1>3, <1>4 DEF z

\* Reducing the columns of a matrix, and then applying it, is applying it and
\* then reducing.
LEMMA ReduceColumns ==
  ASSUME NEW N \in Nat \ {0}, NEW E \in MatOf(Top, N), NEW x \in VecOf(N)
  PROVE  /\ reduceAModF(E) \in MatOf(mayo.m, N)
         /\ Apply(reduceAModF(E), mayo.m, N, x) = reduceVecModF(Apply(E, Top, N, x))
<1> DEFINE C      == 0 .. N - 1
           R      == reduceAModF(E)
           col(c) == [d \in 0 .. Top - 1 |-> E[d][c]]
           red(c) == reduceVecModF(col(c))
           e(d)   == [c \in C |-> GfMul(E[d][c], x[c])]
           r(d)   == [c \in C |-> GfMul(R[d][c], x[c])]
           before(s) == [d \in 0 .. Top - 1 |-> Over(e(d), s)]
           after(s)  == [d \in 0 .. mayo.m - 1 |-> Over(r(d), s)]
           U == {s \in SUBSET C : before(s) \in Polys /\ reduceVecModF(before(s)) = after(s)}
<1>1. /\ Top \in Nat /\ mayo.m \in Nat /\ 0 \in 0 .. Top - 1 /\ IsFiniteSet(C)
  <2>1. Top \in Nat /\ mayo.m \in Nat /\ 0 \in 0 .. Top - 1
    BY Sizes, ShiftsNat
  <2> QED
    BY <2>1, IndicesFinite
<1>2. /\ DOMAIN E = 0 .. Top - 1 /\ DOMAIN E[0] = C
      /\ \A d \in 0 .. Top - 1, c \in C : E[d][c] \in Gf16
      /\ \A c \in C : x[c] \in Gf16
  <2>1. E[0] \in VecOf(N)
    BY <1>1 DEF MatOf, SliceOf
  <2> QED
    BY <1>1, <2>1, MatEntries, VecEntries
<1>3. R = [d \in 0 .. mayo.m - 1 |-> [c \in C |-> red(c)[d]]]
  <2>1. reduceAModF(E) = LET reduced == [c \in C |-> red(c)]
                         IN [d \in 0 .. mayo.m - 1 |-> [c \in C |-> reduced[c][d]]]
    BY <1>2 DEF reduceAModF
  <2> HIDE DEF red, C
  <2> QED
    BY <2>1
<1>4. \A c \in C : col(c) \in Polys /\ red(c) \in VecOf(mayo.m)
  <2>1. \A c \in C : col(c) \in Polys
    BY <1>2 DEF Polys, VecOf, SliceOf
  <2> HIDE DEF col
  <2> QED
    BY <2>1, ReduceType
<1>5. /\ \A d \in 0 .. mayo.m - 1, c \in C : R[d][c] = red(c)[d] /\ R[d][c] \in Gf16
      /\ R \in MatOf(mayo.m, N)
  <2>1. \A d \in 0 .. mayo.m - 1, c \in C : red(c)[d] \in Gf16
    <3> SUFFICES ASSUME NEW d \in 0 .. mayo.m - 1, NEW c \in C PROVE red(c)[d] \in Gf16
      OBVIOUS
    <3>1. red(c) \in VecOf(mayo.m)
      BY <1>4
    <3> HIDE DEF red
    <3> QED
      BY <3>1 DEF VecOf, SliceOf
  <2> HIDE DEF red, R
  <2>2. \A d \in 0 .. mayo.m - 1, c \in C : R[d][c] = red(c)[d]
    BY <1>3
  <2>3. R \in MatOf(mayo.m, N)
    BY <1>3, <2>1 DEF MatOf, VecOf, SliceOf
  <2> QED
    BY <2>1, <2>2, <2>3
<1>5a. \A c \in C, d \in 0 .. Top - 1 : col(c)[d] = E[d][c]
  OBVIOUS
<1> HIDE DEF R, col
<1>6. /\ \A d \in 0 .. Top - 1 : e(d) \in [C -> Gf16]
      /\ \A d \in 0 .. mayo.m - 1 : r(d) \in [C -> Gf16]
      /\ \A d \in 0 .. Top - 1, c \in C : e(d)[c] = GfMul(E[d][c], x[c])
      /\ \A d \in 0 .. mayo.m - 1, c \in C : r(d)[c] = GfMul(R[d][c], x[c])
  BY <1>2, <1>5, FieldType
<1>7. Apply(E, Top, N, x) = before(C) /\ Apply(R, mayo.m, N, x) = after(C)
  <2>1. \A d \in 0 .. Top - 1 : Dot(N, E[d], x) = SumOf(e(d))
    BY DEF Dot
  <2>2. \A d \in 0 .. mayo.m - 1 : Dot(N, R[d], x) = SumOf(r(d))
    BY DEF Dot
  <2> HIDE DEF e, r, C
  <2>3. /\ \A d \in 0 .. Top - 1 : Over(e(d), C) = SumOf(e(d))
        /\ \A d \in 0 .. mayo.m - 1 : Over(r(d), C) = SumOf(r(d))
    BY <1>1, <1>6, OverType
  <2> QED
    BY <2>1, <2>2, <2>3 DEF Apply
<1> HIDE DEF e, r
<1>8. \A s \in SUBSET C : before(s) \in Polys
  <2>1. \A s \in SUBSET C, d \in 0 .. Top - 1 : Over(e(d), s) \in Gf16
    BY <1>1, <1>6, OverType
  <2> QED
    BY <2>1 DEF Polys, VecOf, SliceOf
<1>9. {} \in U
  <2>1. before({}) = Zeros(Top) /\ after({}) = Zeros(mayo.m)
    BY OverEmpty DEF Zeros
  <2>2. {} \in SUBSET C
    OBVIOUS
  <2> HIDE DEF C, before, after
  <2> QED
    BY <1>8, <2>1, <2>2, ReduceZero
<1>10. ASSUME NEW s \in SUBSET C, NEW c \in C, s \in U, c \notin s
       PROVE  s \cup {c} \in U
  <2> DEFINE t == s \cup {c}
             b == before(s)
  <2>1. t \in SUBSET C /\ before(t) \in Polys /\ b \in Polys
    <3>1. t \in SUBSET C
      OBVIOUS
    <3> QED
      BY <1>8, <3>1
  <2>2. before(t) = Plus(Top, Scale(Top, col(c), x[c]), b)
    <3>1. ASSUME NEW d \in 0 .. Top - 1
          PROVE  Over(e(d), t) = GfXor(GfMul(E[d][c], x[c]), Over(e(d), s))
      <4> DEFINE f == e(d)
      <4>1. f \in [C -> Gf16] /\ f[c] = GfMul(E[d][c], x[c])
        BY <1>6
      <4> HIDE DEF f, C
      <4>2. Over(f, s \cup {c}) = GfXor(f[c], Over(f, s))
        <5>1. IsFiniteSet(C) /\ s \in SUBSET C /\ c \in C /\ c \notin s
          BY <1>1, <1>10
        <5> QED
          BY <4>1, <5>1, OverAdd
      <4> QED
        BY <4>1, <4>2 DEF f
    <3> HIDE DEF t, C
    <3>2. \A d \in 0 .. Top - 1 : col(c)[d] = E[d][c]
      BY <1>5a
    <3> QED
      BY <3>1, <3>2 DEF Plus, Scale
  <2>3. after(t) = Plus(mayo.m, Scale(mayo.m, red(c), x[c]), after(s))
    <3>1. ASSUME NEW d \in 0 .. mayo.m - 1
          PROVE  Over(r(d), t) = GfXor(GfMul(R[d][c], x[c]), Over(r(d), s))
      <4> DEFINE f == r(d)
      <4>1. f \in [C -> Gf16] /\ f[c] = GfMul(R[d][c], x[c])
        BY <1>6
      <4> HIDE DEF f, C
      <4>2. Over(f, s \cup {c}) = GfXor(f[c], Over(f, s))
        <5>1. IsFiniteSet(C) /\ s \in SUBSET C /\ c \in C /\ c \notin s
          BY <1>1, <1>10
        <5> QED
          BY <4>1, <5>1, OverAdd
      <4> QED
        BY <4>1, <4>2 DEF f
    <3> HIDE DEF t, C, red
    <3>2. \A d \in 0 .. mayo.m - 1 : R[d][c] = red(c)[d]
      BY <1>5
    <3> QED
      BY <3>1, <3>2 DEF Plus, Scale
  <2>4. reduceVecModF(b) = after(s)
    BY <1>10
  <2> HIDE DEF b, t, before, after
  <2>5. reduceVecModF(Plus(Top, Scale(Top, col(c), x[c]), b)) = Plus(mayo.m, Scale(mayo.m, red(c), x[c]), after(s))
    <3>1. col(c) \in Polys /\ x[c] \in Gf16 /\ Scale(Top, col(c), x[c]) \in Polys
      <4>1. col(c) \in Polys /\ x[c] \in Gf16
        BY <1>2, <1>4
      <4> QED
        BY <1>1, <4>1, ScaleType DEF Polys
    <3>2. reduceVecModF(Scale(Top, col(c), x[c])) = Scale(mayo.m, red(c), x[c])
      BY <3>1, ReduceLinear
    <3> DEFINE g == Scale(Top, col(c), x[c])
    <3> HIDE DEF g, red
    <3>3. reduceVecModF(Plus(Top, g, b)) = Plus(mayo.m, reduceVecModF(g), reduceVecModF(b))
      BY <2>1, <3>1, FieldType, ReduceLinear DEF g
    <3> QED
      BY <2>4, <3>2, <3>3 DEF g
  <2>6. reduceVecModF(before(t)) = after(t)
    BY <2>2, <2>3, <2>5
  <2> HIDE DEF C
  <2> QED
    BY <2>1, <2>6 DEF t
<1>11. SumLaw(C, U)
  <2> HIDE DEF U, C
  <2> QED
    BY <1>9, <1>10 DEF SumLaw
<1>12. C \in U
  <2> HIDE DEF U, C
  <2> QED
    BY <1>1, <1>11, OverInduction, Zenon
<1>13. reduceVecModF(before(C)) = after(C)
  BY <1>12
<1> HIDE DEF before, after
<1> QED
  BY <1>5, <1>7, <1>13 DEF R

LEMMA UnshiftedCopy ==
  ASSUME NEW t \in VecOf(mayo.m)
  PROVE  CopyAt(Zeros(mayo.m + mayo.shifts), 0, t) = Shift(t, 0)
<1>1. DOMAIN t = 0 .. mayo.m - 1
  BY DEF VecOf, SliceOf
<1>2. \A d \in 0 .. Top - 1 : d - 0 = d
  BY ShiftsNat
<1> QED
  BY <1>1, <1>2 DEF CopyAt, Zeros, Shift, Top

LEMMA SystemTypes ==
  ASSUME Environment, NEW seed \in Seeds, NEW V \in Vinegars, NEW t \in VecOf(mayo.m)
  PROVE  LET system == LinearSystemOf(V, KeyP1(seed), KeyL(seed), t)
         IN /\ system.A \in MatOf(mayo.m, mayo.k * mayo.o) /\ system.y \in VecOf(mayo.m)
            /\ system.y = Plus(mayo.m, t, HornerSum(PairValues(KeyP1(seed), V)))
            /\ \A x \in Oils : MatrixVectorMul(system.A, x) = HornerSum(OilPairs(KeyL(seed), V, x))
<1> DEFINE P1 == KeyP1(seed)
           L  == KeyL(seed)
           N  == mayo.k * mayo.o
           system == LinearSystemOf(V, P1, L, t)
           E  == Unreduced(BuildM(V, L))
           H  == HornerSum(PairValues(P1, V))
<1>1. /\ P1 \in SquareLists(mayo.v) /\ L \in Rectangles /\ mayo.v \in Nat \ {0} /\ mayo.m \in Nat \ {0}
      /\ N \in Nat \ {0}
  <2>1. \A a, b \in Nat \ {0} : a * b \in Nat \ {0}
    OBVIOUS
  <2>2. N \in Nat \ {0}
    BY <2>1, Sizes
  <2> QED
    BY <2>2, KeyTypes, Sizes
<1>2. system.A = reduceAModF(E)
  <2> DEFINE columns == 0 .. mayo.k * mayo.o - 1
             table(rows) == [row \in rows |-> [column \in columns |-> EntryOfA(BuildM(V, L), row, column)]]
             rows0 == 0 .. mayo.m + mayo.shifts - 1
  <2>1. system.A = reduceAModF(table(rows0))
    BY DEF LinearSystemOf
  <2>2. E = table(0 .. Top - 1)
    BY Zenon DEF Unreduced
  <2>3. rows0 = 0 .. Top - 1
    <3> DEFINE a == mayo.m
               b == mayo.shifts
    <3>1. a \in Nat /\ b \in Nat
      BY Sizes, ShiftsNat
    <3> HIDE DEF a, b
    <3>2. 0 .. a + b - 1 = 0 .. (a + b) - 1
      <4>1. a + (b - 1) = (a + b) - 1
        BY <3>1
      <4> QED
        BY <4>1, Zenon
    <3> QED
      BY <3>2 DEF a, b, Top
  <2> HIDE DEF table, E, system, rows0
  <2> QED
    BY <2>1, <2>2, <2>3
<1>3. system.y = reduceVecModF(SubtractPairs(CopyAt(Zeros(mayo.m + mayo.shifts), 0, t), P1, V))
  BY DEF LinearSystemOf
<1>4. system.y = Plus(mayo.m, t, H) /\ H \in VecOf(mayo.m)
  <2> HIDE DEF system, P1
  <2> QED
    BY <1>1, <1>3, UnshiftedCopy, ReducedSums DEF Vinegars, H
<1>5. system.y \in VecOf(mayo.m)
  <2> HIDE DEF H, system
  <2> QED
    BY <1>1, <1>4, PlusType
<1>6. ASSUME NEW x \in Oils
      PROVE  /\ system.A \in MatOf(mayo.m, N)
             /\ MatrixVectorMul(system.A, x) = HornerSum(OilPairs(L, V, x))
  <2>1. E \in MatOf(Top, N) /\ Apply(E, Top, N, x) = Total(OilPairs(L, V, x), Pairs) /\ x \in VecOf(N)
    BY <1>1, UnreducedIs DEF Oils
  <2> HIDE DEF E, system, N
  <2>2. /\ system.A \in MatOf(mayo.m, N)
        /\ Apply(system.A, mayo.m, N, x) = reduceVecModF(Total(OilPairs(L, V, x), Pairs))
    BY <1>1, <1>2, <2>1, ReduceColumns
  <2>3. reduceVecModF(Total(OilPairs(L, V, x), Pairs)) = HornerSum(OilPairs(L, V, x))
    <3>1. OilPairs(L, V, x) \in Families
      BY <1>1, OilPairsType
    <3> QED
      BY <3>1, ReduceTotal
  <2>4. MatrixVectorMul(system.A, x) = Apply(system.A, mayo.m, N, x)
    BY <1>1, <2>1, <2>2, MatVecIs
  <2> QED
    BY <2>2, <2>3, <2>4
<1>7. system.A \in MatOf(mayo.m, N)
  <2>1. Zeros(N) \in Oils
    BY <1>1, ZerosVec DEF Oils
  <2> QED
    BY <1>6, <2>1
<1> HIDE DEF system
<1>8. \A x \in Oils : MatrixVectorMul(system.A, x) = HornerSum(OilPairs(L, V, x))
  BY <1>6
<1> QED
  BY <1>4, <1>5, <1>7, <1>8 DEF system

\* The linear system of an attempt says, for every x, how far the signature
\* vectors (v_i + O x_i, x_i) miss the target under the public key.
THEOREM SystemIsPStar ==
  ASSUME Environment, NEW seed \in Seeds, NEW V \in Vinegars, NEW x \in Oils, NEW t \in VecOf(mayo.m)
  PROVE  LET system == LinearSystemOf(V, KeyP1(seed), KeyL(seed), t)
         IN AddVec(PStar(PublicP(seed), Parts(KeyO(seed), V, x)), t)
              = AddVec(MatrixVectorMul(system.A, x), system.y)
<1> DEFINE system == LinearSystemOf(V, KeyP1(seed), KeyL(seed), t)
           F == HornerSum(PairValues(KeyP1(seed), V))
           G == HornerSum(OilPairs(KeyL(seed), V, x))
           m == mayo.m
           S == PStar(PublicP(seed), Parts(KeyO(seed), V, x))
<1>1. S = Plus(m, F, G) /\ F \in VecOf(m) /\ G \in VecOf(m)
  BY PStarOfParts
<1>2. system.y = Plus(m, t, F) /\ MatrixVectorMul(system.A, x) = G
  BY SystemTypes
<1>3. m \in Nat /\ t \in VecOf(m)
  BY Sizes
<1> HIDE DEF S, F, G, m, system
<1>4. S \in VecOf(m) /\ system.y \in VecOf(m)
  BY <1>1, <1>2, <1>3, PlusType
<1>5. AddVec(S, t) = Plus(m, S, t) /\ AddVec(G, system.y) = Plus(m, G, system.y)
  BY <1>1, <1>3, <1>4, AddVecIs
<1>6. Plus(m, Plus(m, F, G), t) = Plus(m, G, Plus(m, t, F))
  <2>1. Plus(m, F, G) = Plus(m, G, F) /\ Plus(m, t, F) = Plus(m, F, t)
    BY <1>1, <1>3, PlusLaws
  <2>2. Plus(m, G, Plus(m, F, t)) = Plus(m, Plus(m, G, F), t)
    BY <1>1, <1>3, PlusLaws
  <2> QED
    BY <2>1, <2>2
<1> QED
  BY <1>1, <1>2, <1>5, <1>6 DEF S, system

(* The signature *)

\* The first i of a list of vectors, one behind the other.
Flat(s, i, n) == [c \in 0 .. (i * n) - 1 |-> s[c \div n][c % n]]

LEMMA FlatGrows ==
  ASSUME NEW k \in Nat, NEW n \in Nat, NEW s \in SliceOf(k, VecOf(n))
  PROVE  /\ Flat(s, 0, n) = <<>>
         /\ \A i \in 0 .. k : Flat(s, i, n) \in VecOf(i * n)
         /\ \A i \in 0 .. k - 1 : Concat(Flat(s, i, n), s[i]) = Flat(s, i + 1, n)
<1>1. Flat(s, 0, n) = <<>>
  <2>1. 0 .. (0 * n) - 1 = {}
    <3>1. 0 * n = 0
      OBVIOUS
    <3> QED
      BY <3>1
  <2> QED
    BY <2>1 DEF Flat
<1>2. ASSUME NEW i \in 0 .. k PROVE Flat(s, i, n) \in VecOf(i * n)
  <2>1. ASSUME NEW c \in 0 .. (i * n) - 1 PROVE s[c \div n][c % n] \in Gf16
    <3>1. c \div n \in 0 .. i - 1 /\ c % n \in 0 .. n - 1
      <4>1. i \in Nat
        OBVIOUS
      <4> QED
        BY <4>1, OfBlock
    <3> DEFINE a == c \div n
               b == c % n
    <3>2. a \in 0 .. k - 1 /\ b \in 0 .. n - 1
      BY <3>1
    <3> HIDE DEF a, b
    <3>3. s[a] \in VecOf(n)
      BY <3>2 DEF SliceOf
    <3>4. s[a][b] \in Gf16
      BY <3>2, <3>3 DEF VecOf, SliceOf
    <3> QED
      BY <3>4 DEF a, b
  <2> DEFINE e(c) == s[c \div n][c % n]
  <2> HIDE DEF e
  <2>2. \A c \in 0 .. (i * n) - 1 : e(c) \in Gf16
    BY <2>1 DEF e
  <2>3. Flat(s, i, n) = [c \in 0 .. (i * n) - 1 |-> e(c)]
    BY DEF Flat, e
  <2> QED
    BY <2>2, <2>3 DEF VecOf, SliceOf
<1>3. ASSUME NEW i \in 0 .. k - 1 PROVE Concat(Flat(s, i, n), s[i]) = Flat(s, i + 1, n)
  <2> DEFINE a == i * n
             F == Flat(s, i, n)
             G == Flat(s, i + 1, n)
             C == Concat(F, s[i])
  <2>1. a \in Nat /\ (i + 1) * n = a + n /\ F \in VecOf(a) /\ s[i] \in VecOf(n) /\ i \in Nat
    <3>1. a \in Nat /\ (i + 1) * n = a + n
      OBVIOUS
    <3>2. F \in VecOf(a)
      BY <1>2
    <3> QED
      BY <3>1, <3>2 DEF SliceOf
  <2>2. /\ C \in VecOf(a + n)
        /\ \A c \in 0 .. a - 1 : C[c] = F[c]
        /\ \A c \in 0 .. n - 1 : C[a + c] = s[i][c]
    <3> HIDE DEF a, F
    <3> DEFINE w == s[i]
    <3>1. w \in VecOf(n)
      BY <2>1
    <3> HIDE DEF w
    <3>2. /\ Concat(F, w) \in VecOf(a + n)
          /\ \A c \in 0 .. a - 1 : Concat(F, w)[c] = F[c]
          /\ \A c \in 0 .. n - 1 : Concat(F, w)[a + c] = w[c]
      BY <2>1, <3>1, ConcatVec
    <3> QED
      BY <3>2 DEF w
  <2>3. \A c \in 0 .. n - 1 : (a + c) \div n = i /\ (a + c) % n = c
    BY InBlock
  <2> DEFINE e(c) == s[c \div n][c % n]
  <2>4. /\ F = [c \in 0 .. a - 1 |-> e(c)]
        /\ G = [c \in 0 .. (a + n) - 1 |-> e(c)]
        /\ \A c \in 0 .. n - 1 : e(a + c) = s[i][c]
    <3>1. F = [c \in 0 .. a - 1 |-> e(c)] /\ \A c \in 0 .. n - 1 : e(a + c) = s[i][c]
      BY <2>3 DEF Flat
    <3>2. G = [c \in 0 .. ((i + 1) * n) - 1 |-> e(c)]
      BY DEF Flat
    <3> HIDE DEF e, a, F, G
    <3> QED
      BY <2>1, <3>1, <3>2
  <2> HIDE DEF a, F, G, C, e
  <2>5. ASSUME NEW c \in 0 .. (a + n) - 1 PROVE C[c] = e(c)
    <3>1. CASE c < a
      BY <2>1, <2>2, <2>4, <3>1
    <3>2. CASE ~(c < a)
      <4> DEFINE d == c - a
      <4>1. d \in 0 .. n - 1 /\ c = a + d
        BY <2>1, <3>2
      <4> HIDE DEF d
      <4> QED
        BY <2>2, <2>4, <4>1
    <3> QED
      BY <3>1, <3>2
  <2>6. C = [c \in 0 .. (a + n) - 1 |-> C[c]]
    BY <2>2 DEF VecOf, SliceOf
  <2>7. C = G
    BY <2>4, <2>5, <2>6
  <2> QED
    BY <2>7 DEF C, F, G
<1> QED
  BY <1>1, <1>2, <1>3

LEMMA FlatSlice ==
  ASSUME NEW k \in Nat, NEW n \in Nat, NEW s \in SliceOf(k, VecOf(n)), NEW i \in 0 .. k - 1
  PROVE  Slice(Flat(s, k, n), i * n, (i + 1) * n) = s[i]
<1> DEFINE a == i * n
           F == Flat(s, k, n)
<1>1. a \in Nat /\ (i + 1) * n = a + n /\ s[i] \in VecOf(n)
  <2>1. a \in Nat /\ (i + 1) * n = a + n
    OBVIOUS
  <2> QED
    BY <2>1 DEF SliceOf
<1>2. ASSUME NEW c \in 0 .. n - 1 PROVE F[a + c] = s[i][c]
  <2>1. a + c \in 0 .. (k * n) - 1 /\ (a + c) \div n = i /\ (a + c) % n = c
    BY InBlock
  <2> DEFINE d == a + c
  <2>2. F[d] = s[d \div n][d % n]
    BY <2>1 DEF Flat
  <2> QED
    BY <2>1, <2>2
<1>3. Slice(F, a, (i + 1) * n) = [c \in 0 .. n - 1 |-> F[a + c]]
  <2> DEFINE b == (i + 1) * n
  <2>1. b = a + n
    BY <1>1
  <2> HIDE DEF a, b, F
  <2>2. b - a - 1 = n - 1
    BY <1>1, <2>1
  <2> QED
    BY <2>2 DEF Slice, b
<1>4. s[i] = [c \in 0 .. n - 1 |-> s[i][c]]
  BY <1>1 DEF VecOf, SliceOf
<1> HIDE DEF F, a
<1>5. Slice(F, a, (i + 1) * n) = s[i]
  BY <1>2, <1>3, <1>4
<1> QED
  BY <1>5 DEF F, a

LEMMA SignatureVectorIs ==
  ASSUME NEW H \in MatOf(mayo.v, mayo.o), NEW V \in Vinegars, NEW x \in Oils
  PROVE  SignatureVector(V, H, x) = Flat(Parts(H, V, x), mayo.k, mayo.n)
<1> DEFINE k == mayo.k
           n == mayo.n
           s == Parts(H, V, x)
           part(i) == LET xi == Slice(x, i * mayo.o, (i + 1) * mayo.o)
                      IN Concat(AddVec(V[i], MatrixVectorMul(H, xi)), xi)
           body(f) == [i \in 0 .. mayo.k |-> IF i = 0 THEN <<>> ELSE Concat(f[i - 1], part(i - 1))]
           upTo == CHOOSE upTo : upTo = body(upTo)
           g == [i \in 0 .. mayo.k |-> Flat(s, i, n)]
<1>1. k \in Nat /\ n \in Nat /\ s \in SliceOf(k, VecOf(n)) /\ mayo.v \in Nat \ {0} /\ mayo.o \in Nat
  BY Sizes, PartsAre
<1>2. ASSUME NEW i \in 0 .. k - 1 PROVE part(i) = s[i]
  <2> DEFINE xi == OilOf(x, i)
  <2>1. xi \in VecOf(mayo.o) /\ V[i] \in VecOf(mayo.v)
    BY OilOfType DEF Vinegars, SliceOf
  <2>2. part(i) = Concat(AddVec(V[i], MatrixVectorMul(H, xi)), xi) /\ s[i] = Part(H, V[i], xi)
    BY DEF OilOf, Parts
  <2> HIDE DEF xi
  <2>3. MatrixVectorMul(H, xi) = Apply(H, mayo.v, mayo.o, xi) /\ Apply(H, mayo.v, mayo.o, xi) \in VecOf(mayo.v)
    <3>1. MatrixVectorMul(H, xi) = Apply(H, mayo.v, mayo.o, xi)
      BY <1>1, <2>1, MatVecIs
    <3>2. Apply(H, mayo.v, mayo.o, xi) \in VecOf(mayo.v)
      BY <1>1, <2>1, ApplyType
    <3> QED
      BY <3>1, <3>2
  <2>4. AddVec(V[i], MatrixVectorMul(H, xi)) = Plus(mayo.v, V[i], Apply(H, mayo.v, mayo.o, xi))
    BY <1>1, <2>1, <2>3, AddVecIs
  <2> QED
    BY <2>2, <2>4 DEF Part
<1> HIDE DEF part, s
<1>3. /\ Flat(s, 0, n) = <<>>
      /\ \A i \in 0 .. k - 1 : Concat(Flat(s, i, n), s[i]) = Flat(s, i + 1, n)
  BY <1>1, FlatGrows
<1>4. \A i \in 1 .. k : Flat(s, i, n) = Concat(Flat(s, i - 1, n), part(i - 1))
  <2> SUFFICES ASSUME NEW i \in 1 .. k PROVE Flat(s, i, n) = Concat(Flat(s, i - 1, n), part(i - 1))
    OBVIOUS
  <2> DEFINE j == i - 1
  <2>1. j \in 0 .. k - 1 /\ j + 1 = i
    BY <1>1
  <2> HIDE DEF j
  <2>2. Concat(Flat(s, j, n), part(j)) = Flat(s, j + 1, n)
    BY <1>2, <1>3, <2>1
  <2> QED
    BY <2>1, <2>2 DEF j
<1>5. g = body(g)
  <2>1. \A i \in 0 .. k : g[i] = Flat(s, i, n)
    OBVIOUS
  <2>2. ASSUME NEW i \in 0 .. k PROVE g[i] = IF i = 0 THEN <<>> ELSE Concat(g[i - 1], part(i - 1))
    <3>1. CASE i = 0
      BY <1>3, <2>1, <3>1
    <3>2. CASE i # 0
      <4>1. i \in 1 .. k /\ i - 1 \in 0 .. k
        BY <1>1, <3>2
      <4> QED
        BY <1>4, <2>1, <3>2, <4>1
    <3> QED
      BY <3>1, <3>2
  <2>3. g = [i \in 0 .. mayo.k |-> g[i]]
    OBVIOUS
  <2> HIDE DEF g
  <2> QED
    BY <2>2, <2>3
<1> HIDE DEF g
<1>6. upTo = body(upTo)
  BY <1>5
<1>7. SignatureVector(V, H, x) = upTo[mayo.k]
  BY Zenon DEF SignatureVector, part
<1> HIDE DEF upTo
<1>8. \A i \in 0 .. k : upTo[i] = IF i = 0 THEN <<>> ELSE Concat(upTo[i - 1], part(i - 1))
  BY <1>6
<1> DEFINE T == {i \in 0 .. k : upTo[i] = Flat(s, i, n)}
<1>9. 0 \in T
  BY <1>1, <1>3, <1>8
<1>10. ASSUME NEW i \in 1 .. k, i - 1 \in T PROVE i \in T
  BY <1>1, <1>4, <1>8, <1>10
<1> HIDE DEF T
<1>11. \A i \in 0 .. k : i \in T
  <2> HIDE DEF k
  <2> QED
    BY <1>1, <1>9, <1>10, BoundedInduction, Zenon
<1>12. upTo[k] = Flat(s, k, n)
  BY <1>1, <1>11 DEF T
<1> QED
  BY <1>7, <1>12 DEF s

\* A signature, as DecodeSignature reads it.
LEMMA SignatureRead ==
  ASSUME NEW s \in SliceOf(mayo.k, VecOf(mayo.n)), NEW a \in ByteString(mayo.saltBytes)
  PROVE  LET sig == Concat(encodeVec(Flat(s, mayo.k, mayo.n)), a)
         IN /\ sig \in ByteString(mayo.sigBytes)
            /\ DecodeSignature(sig) = [salt |-> a, s |-> s]
<1> DEFINE k == mayo.k
           n == mayo.n
           l == mayo.saltBytes
           N == k * n
           h == HalfUp(N)
           F == Flat(s, k, n)
           e == encodeVec(F)
           sig == Concat(e, a)
<1>1. /\ k \in Nat /\ n \in Nat /\ N \in Nat /\ n * k = N /\ l \in Nat /\ h \in Nat
      /\ mayo.sigBytes = h + l
  <2>1. k \in Nat /\ n \in Nat /\ l \in Nat
    BY Sizes
  <2>2. N \in Nat /\ n * k = N
    BY <2>1
  <2>3. mayo.sigBytes = HalfUp(mayo.n * mayo.k) + mayo.saltBytes
    BY ByteSizes, Zenon
  <2> HIDE DEF N
  <2>4. HalfUp(N) \in Nat
    BY <2>2, HalfUpNat
  <2> QED
    BY <2>1, <2>2, <2>3, <2>4
<1>2. F \in VecOf(N)
  <2>1. k \in 0 .. k
    BY <1>1
  <2> QED
    BY <1>1, <2>1, FlatGrows
<1>3. \A i \in 0 .. k - 1 : Slice(F, i * n, (i + 1) * n) = s[i]
  BY <1>1, FlatSlice
<1> HIDE DEF F, N
<1>4. e \in ByteString(h) /\ decodeVec(N, e) = F
  <2>1. e \in ByteString(h)
    BY <1>1, <1>2, EncodeVecType
  <2>2. F \in SliceOf(N, Nibble)
    BY <1>2 DEF VecOf, Nibble, Gf16
  <2> QED
    BY <1>1, <2>1, <2>2, DecodeEncodeVec
<1> HIDE DEF e, h
<1>5. decodeVec(N, sig) = F
  <2>1. e \in ByteString(HalfUp(N))
    BY <1>4 DEF h
  <2> QED
    BY <1>1, <1>4, <2>1, DecodeVecPrefix
<1>6. sig \in ByteString(h + l)
  BY <1>1, <1>4, ConcatType DEF ByteString
<1>7. Slice(sig, h, h + l) = a
  BY <1>1, <1>4, ConcatRead DEF ByteString
<1> HIDE DEF sig
<1>8. DecodeSignature(sig) = [salt |-> Slice(sig, h, h + l),
                              s    |-> [i \in 0 .. k - 1 |-> Slice(F, i * n, (i + 1) * n)]]
  <2>1. HalfUp(mayo.n * mayo.k) = h
    BY <1>1 DEF h
  <2>2. decodeVec(mayo.k * mayo.n, sig) = F
    BY <1>5 DEF N
  <2> QED
    BY <2>1, <2>2 DEF DecodeSignature
<1>9. [i \in 0 .. k - 1 |-> Slice(F, i * n, (i + 1) * n)] = s
  <2>1. s = [i \in 0 .. k - 1 |-> s[i]]
    BY DEF SliceOf
  <2> QED
    BY <1>3, <2>1
<1> QED
  BY <1>1, <1>6, <1>7, <1>8, <1>9 DEF sig, e, F

\* The signed message sig || M, as APISignOpen takes it apart.
LEMMA SignedRead ==
  ASSUME NEW l \in Nat, NEW M \in ByteString(l), NEW sig \in ByteString(mayo.sigBytes)
  PROVE  LET signed == CopyAt(CopyAt(Zeros(mayo.sigBytes + l), 0, sig), mayo.sigBytes, M)
         IN /\ signed \in ByteString(mayo.sigBytes + l)
            /\ Slice(signed, 0, mayo.sigBytes) = sig
            /\ Slice(signed, mayo.sigBytes, SliceLen(signed)) = M
<1> DEFINE a == mayo.sigBytes
           n == a + l
           z == Zeros(n)
           first  == CopyAt(z, 0, sig)
           signed == CopyAt(first, a, M)
<1>1. a \in Nat /\ n \in Nat /\ 0 \in Nat /\ 0 + a = a /\ 0 + a <= n /\ 0 <= a /\ a <= n /\ a + l <= n
  BY BytesNat
<1>2. z \in ByteString(n)
  BY <1>1, ZerosBytes
<1> HIDE DEF z, a
<1>3. sig \in SliceOf(a, Bytes) /\ M \in SliceOf(l, Bytes) /\ z \in SliceOf(n, Bytes)
  BY <1>2 DEF ByteString, a
<1> HIDE DEF n
<1>4. first \in SliceOf(n, Bytes)
  BY <1>1, <1>3, CopyType
<1>5. Slice(first, 0, 0 + a) = sig
  BY <1>1, <1>3, CopyRead
<1> HIDE DEF first
<1>6. signed \in SliceOf(n, Bytes)
  BY <1>1, <1>3, <1>4, CopyType
<1>7. Slice(signed, a, a + l) = M
  BY <1>1, <1>3, <1>4, CopyRead
<1>8. Slice(signed, 0, a) = Slice(first, 0, a)
  <2>1. a <= a \/ a + l <= 0
    BY <1>1
  <2> QED
    BY <1>1, <1>3, <1>4, <2>1, CopyKeeps
<1> HIDE DEF signed
<1>9. SliceLen(signed) = n
  BY <1>1, <1>6, LenOfSlice
<1>10. /\ signed \in ByteString(a + l) /\ Slice(signed, 0, a) = sig
       /\ Slice(signed, a, SliceLen(signed)) = M
  BY <1>1, <1>5, <1>6, <1>7, <1>8, <1>9 DEF ByteString, n
<1> QED
  BY <1>10 DEF signed, first, z, a, n

LEMMA ConcatBytes ==
  /\ \A u, w \in ByteStrings : Concat(u, w) \in ByteStrings
  /\ \A u, w, x \in ByteStrings : Concat3(u, w, x) \in ByteStrings
  /\ \A u, w, x, z \in ByteStrings : Concat4(u, w, x, z) \in ByteStrings
<1>1. ASSUME NEW u \in ByteStrings, NEW w \in ByteStrings PROVE Concat(u, w) \in ByteStrings
  <2>1. PICK a \in Nat : u \in ByteString(a)
    BY DEF ByteStrings
  <2>2. PICK b \in Nat : w \in ByteString(b)
    BY DEF ByteStrings
  <2>3. u \in SliceOf(a, Bytes) /\ w \in SliceOf(b, Bytes)
    BY <2>1, <2>2 DEF ByteString
  <2>4. Concat(u, w) \in SliceOf(a + b, Bytes)
    BY <2>3, ConcatType
  <2>5. Concat(u, w) \in ByteString(a + b) /\ a + b \in Nat
    BY <2>4 DEF ByteString
  <2> QED
    BY <2>5, InByteStrings
<1>2. \A u, w, x \in ByteStrings : Concat3(u, w, x) \in ByteStrings
  BY <1>1 DEF Concat3
<1> QED
  BY <1>1, <1>2 DEF Concat4

\* The vinegar vectors of an attempt.
LEMMA AttemptTypes ==
  ASSUME Environment, NEW D \in ByteStrings, NEW a \in ByteStrings, NEW seed \in ByteStrings, NEW c \in Nat
  PROVE  DeriveAttempt(D, a, seed, c).v \in Vinegars
<1> DEFINE w    == mayo.vBytes
           vLen == mayo.k * w
           rLen == intTimesLogQ(mayo.k * mayo.o)
           one  == [i \in {0} |-> c % 256]
           S    == Shake256(vLen + rLen, Concat4(D, a, seed, one))
           L    == vLen + rLen
           part(i) == decodeVec(mayo.n - mayo.o, Slice(S, i * w, (i + 1) * w))
<1>1. /\ w \in Nat /\ w = HalfUp(mayo.v) /\ vLen \in Nat /\ mayo.k \in Nat /\ mayo.n - mayo.o = mayo.v
      /\ mayo.v \in Nat
  <2>1. w \in Nat /\ mayo.k \in Nat /\ mayo.n - mayo.o = mayo.v /\ mayo.v \in Nat
    BY BytesNat, Sizes
  <2>2. w = HalfUp(mayo.v)
    BY ByteSizes, Zenon
  <2> QED
    BY <2>1, <2>2
<1>2. rLen \in Nat
  <2> DEFINE N == mayo.k * mayo.o
  <2>1. N \in Nat
    BY Sizes
  <2> HIDE DEF N
  <2>2. HalfUp(N) \in Nat
    BY <2>1, HalfUpNat
  <2> QED
    BY <2>2 DEF N, intTimesLogQ
<1>3. one \in ByteStrings
  <2>1. c % 256 \in Bytes /\ 0 .. 1 - 1 = {0}
    BY DEF Bytes
  <2>2. one \in ByteString(1)
    BY <2>1 DEF ByteString, SliceOf
  <2> QED
    BY <2>2, InByteStrings
<1> HIDE DEF one
<1>4. S \in ByteString(L) /\ L \in Nat
  <2>1. Concat4(D, a, seed, one) \in ByteStrings
    BY <1>3, ConcatBytes
  <2> DEFINE s == Concat4(D, a, seed, one)
  <2>2. L \in Nat
    BY <1>1, <1>2
  <2> HIDE DEF s, L
  <2>3. Shake256(L, s) \in ByteString(L)
    BY <2>1, <2>2 DEF Environment, s
  <2> QED
    BY <2>2, <2>3 DEF s, L
<1>5. ASSUME NEW i \in 0 .. mayo.k - 1 PROVE part(i) \in VecOf(mayo.v)
  <2> DEFINE from == i * w
             to   == (i + 1) * w
             rest == (mayo.k - 1 - i) * w
  <2>1. from \in Nat /\ to = from + w /\ rest \in Nat /\ vLen = to + rest
    <3>1. mayo.k - 1 - i \in Nat /\ i \in Nat
      BY <1>1
    <3> DEFINE d == mayo.k - 1 - i
    <3>2. mayo.k = (i + 1) + d
      BY <1>1
    <3> HIDE DEF d
    <3>3. ((i + 1) + d) * w = to + (d * w) /\ d * w \in Nat /\ from \in Nat /\ to = from + w
      BY <1>1, <3>1 DEF d
    <3> QED
      BY <3>2, <3>3 DEF d
  <2> HIDE DEF from, to, rest, vLen, rLen, S
  <2>2. from <= to /\ to <= L /\ to - from = w /\ to \in Nat
    BY <1>1, <1>2, <2>1
  <2>3. S \in SliceOf(L, Bytes)
    BY <1>4 DEF ByteString
  <2> HIDE DEF L, w
  <2>4. Slice(S, from, to) \in SliceOf(to - from, Bytes)
    BY <1>4, <2>1, <2>2, <2>3, SliceType
  <2>5. Slice(S, from, to) \in ByteString(w)
    BY <2>2, <2>4 DEF ByteString
  <2>6. decodeVec(mayo.v, Slice(S, from, to)) \in VecOf(mayo.v)
    <3>1. HalfUp(mayo.v) <= w
      BY <1>1
    <3> QED
      BY <1>1, <2>5, <3>1, DecodeVecType
  <2> QED
    BY <1>1, <2>6 DEF from, to
<1>6. DeriveAttempt(D, a, seed, c).v = [i \in 0 .. mayo.k - 1 |-> part(i)]
  BY DEF DeriveAttempt, one
<1> HIDE DEF part
<1> QED
  BY <1>5, <1>6 DEF Vinegars, SliceOf

LEMMA TargetType ==
  ASSUME Environment, NEW D \in ByteStrings, NEW a \in ByteStrings
  PROVE  HashToTarget(D, a) \in VecOf(mayo.m)
<1> DEFINE h == HalfUp(mayo.m)
           s == Concat(D, a)
<1>1. mayo.m \in Nat /\ h \in Nat /\ s \in ByteStrings
  BY Sizes, HalfUpNat, ConcatBytes
<1> HIDE DEF h, s
<1>2. Shake256(h, s) \in ByteString(h)
  BY <1>1 DEF Environment
<1>3. decodeVec(mayo.m, Shake256(h, s)) \in VecOf(mayo.m)
  <2>1. HalfUp(mayo.m) <= h
    BY <1>1 DEF h
  <2> QED
    BY <1>1, <1>2, <2>1, DecodeVecType
<1> QED
  BY <1>3 DEF HashToTarget, intTimesLogQ, h, s

LEMMA HashTypes ==
  ASSUME Environment
  PROVE  /\ \A M \in ByteStrings : HashMessage(M) \in ByteStrings
         /\ \A s \in ByteStrings : Shake256(mayo.saltBytes, s) \in ByteString(mayo.saltBytes)
<1>1. mayo.digestBytes \in Nat /\ mayo.saltBytes \in Nat
  BY Sizes
<1>2. \A M \in ByteStrings : HashMessage(M) \in ByteString(mayo.digestBytes)
  BY <1>1 DEF Environment, HashMessage
<1> QED
  BY <1>1, <1>2, InByteStrings DEF Environment

\* What Verify reads, whatever the bytes are.
LEMMA DecodedSignature ==
  ASSUME NEW sig \in ByteString(mayo.sigBytes)
  PROVE  DecodeSignature(sig).s \in SliceOf(mayo.k, VecOf(mayo.n))
<1> DEFINE k == mayo.k
           n == mayo.n
           N == k * n
           s == decodeVec(N, sig)
           part(i) == Slice(s, i * n, (i + 1) * n)
<1>1. k \in Nat /\ n \in Nat /\ N \in Nat /\ n * k = N
  <2>1. k \in Nat /\ n \in Nat
    BY Sizes
  <2> QED
    BY <2>1
<1>2. s \in VecOf(N)
  <2>1. mayo.sigBytes = HalfUp(mayo.n * mayo.k) + mayo.saltBytes
    BY ByteSizes, Zenon
  <2>2. mayo.saltBytes \in Nat /\ mayo.sigBytes \in Nat
    BY Sizes, BytesNat
  <2> HIDE DEF N
  <2>3. HalfUp(N) <= mayo.sigBytes
    <3>1. HalfUp(N) \in Nat
      BY <1>1, HalfUpNat
    <3>2. mayo.sigBytes = HalfUp(N) + mayo.saltBytes
      BY <1>1, <2>1
    <3> QED
      BY <2>2, <3>1, <3>2
  <2> QED
    BY <1>1, <2>2, <2>3, DecodeVecType
<1> HIDE DEF s
<1>3. ASSUME NEW i \in 0 .. k - 1 PROVE part(i) \in VecOf(n)
  <2> DEFINE a == i * n
             b == (i + 1) * n
             d == k - 1 - i
  <2>1. a \in Nat /\ b = a + n /\ b \in Nat
    BY <1>1
  <2>2. d \in Nat /\ k = (i + 1) + d
    BY <1>1
  <2>3. b <= N
    <3> HIDE DEF d
    <3>1. ((i + 1) + d) * n = b + (d * n) /\ d * n \in Nat
      BY <1>1, <2>2
    <3> HIDE DEF b
    <3> QED
      BY <2>1, <2>2, <3>1
  <2> HIDE DEF a, b, N
  <2>4. a <= b /\ b - a = n /\ s \in SliceOf(N, Gf16)
    BY <1>1, <1>2, <2>1 DEF VecOf
  <2>5. Slice(s, a, b) \in SliceOf(b - a, Gf16)
    BY <1>1, <2>1, <2>3, <2>4, SliceType
  <2> QED
    BY <2>4, <2>5 DEF VecOf, a, b
<1>4. DecodeSignature(sig).s = [i \in 0 .. k - 1 |-> part(i)]
  BY DEF DecodeSignature, s
<1> HIDE DEF part
<1> QED
  BY <1>3, <1>4 DEF SliceOf

\* Verify accepts exactly the solutions of P*(s) = t.
LEMMA VerifyIs ==
  ASSUME Environment, NEW seed \in Seeds, NEW M, NEW sig \in ByteString(mayo.sigBytes)
  PROVE  Verify(ExpandPK(CompactKeyGen(seed)), M, sig)
           = IF PStar(PublicP(seed), DecodeSignature(sig).s) = HashToTarget(HashMessage(M), DecodeSignature(sig).salt)
             THEN 0 ELSE -1
<1> DEFINE s == DecodeSignature(sig).s
           P == PublicP(seed)
<1>1. P \in SquareLists(mayo.n) /\ s \in SliceOf(mayo.k, VecOf(mayo.n))
  BY PublicMatrices, DecodedSignature
<1> HIDE DEF P, s
<1>2. reduceVecModF(SubtractPairs(Zeros(mayo.m + mayo.shifts), P, s)) = PStar(P, s)
  BY <1>1, VerifyComputesPStar
<1> QED
  BY <1>2 DEF Verify, PublicP, P, s

LEMMA PlusZero ==
  ASSUME NEW n \in Nat, NEW u \in VecOf(n), NEW w \in VecOf(n), Plus(n, u, w) = Zeros(n)
  PROVE  u = w
<1>1. Plus(n, u, Plus(n, w, w)) = Plus(n, Plus(n, u, w), w)
  BY PlusLaws
<1>2. Plus(n, w, w) = Zeros(n) /\ Plus(n, u, Zeros(n)) = u /\ Plus(n, Zeros(n), w) = w
  BY PlusLaws
<1> QED
  BY <1>1, <1>2

\* A signed message made from a solution of the system is accepted.
SignatureFor(V, H, x, a) == Concat(encodeVec(SignatureVector(V, H, x)), a)

LEMMA SolutionVerifies ==
  ASSUME Environment, NEW seed \in Seeds, NEW V \in Vinegars, NEW x \in Oils,
         NEW M \in ByteStrings, NEW a \in ByteString(mayo.saltBytes),
         LET system == LinearSystemOf(V, KeyP1(seed), KeyL(seed), HashToTarget(HashMessage(M), a))
         IN MatrixVectorMul(system.A, x) = system.y
  PROVE  /\ SignatureFor(V, KeyO(seed), x, a) \in ByteString(mayo.sigBytes)
         /\ Verify(ExpandPK(CompactKeyGen(seed)), M, SignatureFor(V, KeyO(seed), x, a)) = 0
<1> DEFINE s   == Parts(KeyO(seed), V, x)
           sig == SignatureFor(V, KeyO(seed), x, a)
           t   == HashToTarget(HashMessage(M), a)
           P   == PublicP(seed)
           system == LinearSystemOf(V, KeyP1(seed), KeyL(seed), t)
<1>1. KeyO(seed) \in MatOf(mayo.v, mayo.o) /\ s \in SliceOf(mayo.k, VecOf(mayo.n)) /\ P \in SquareLists(mayo.n)
  BY KeyTypes, PartsAre, PublicMatrices
<1>2. t \in VecOf(mayo.m) /\ mayo.m \in Nat
  <2>1. a \in ByteStrings /\ HashMessage(M) \in ByteStrings
    BY HashTypes, InByteStrings, Sizes
  <2> QED
    BY <2>1, TargetType, Sizes
<1>3. sig = Concat(encodeVec(Flat(s, mayo.k, mayo.n)), a)
  BY <1>1, SignatureVectorIs DEF SignatureFor
<1>4. sig \in ByteString(mayo.sigBytes) /\ DecodeSignature(sig) = [salt |-> a, s |-> s]
  <2> HIDE DEF s, sig
  <2> QED
    BY <1>1, <1>3, SignatureRead
<1>5. AddVec(PStar(P, s), t) = AddVec(MatrixVectorMul(system.A, x), system.y)
  <2> HIDE DEF t
  <2> QED
    BY <1>2, SystemIsPStar
<1>6. system.y \in VecOf(mayo.m) /\ MatrixVectorMul(system.A, x) = system.y
  <2>1. MatrixVectorMul(system.A, x) = system.y
    OBVIOUS
  <2> HIDE DEF t
  <2>2. system.y \in VecOf(mayo.m)
    BY <1>2, SystemTypes
  <2> QED
    BY <2>1, <2>2
<1> DEFINE w == PStar(P, s)
<1>7. w \in VecOf(mayo.m)
  <2> HIDE DEF P, s
  <2> QED
    BY <1>1, PStarIs
<1> HIDE DEF system, t, w, P
<1>8. Plus(mayo.m, w, t) = Plus(mayo.m, system.y, system.y)
  <2>1. AddVec(w, t) = Plus(mayo.m, w, t) /\ AddVec(system.y, system.y) = Plus(mayo.m, system.y, system.y)
    BY <1>2, <1>6, <1>7, AddVecIs
  <2>2. AddVec(w, t) = AddVec(system.y, system.y)
    BY <1>5, <1>6 DEF w
  <2> QED
    BY <2>1, <2>2
<1>9. Plus(mayo.m, system.y, system.y) = Zeros(mayo.m)
  BY <1>2, <1>6, PlusLaws
<1>10. w = t
  BY <1>2, <1>7, <1>8, <1>9, PlusZero
<1> HIDE DEF s, sig
<1>11. PStar(PublicP(seed), DecodeSignature(sig).s) = HashToTarget(HashMessage(M), DecodeSignature(sig).salt)
  BY <1>4, <1>10 DEF w, t, P
<1>12. Verify(ExpandPK(CompactKeyGen(seed)), M, sig) = 0
  BY <1>4, <1>11, VerifyIs
<1> QED
  BY <1>4, <1>12 DEF sig

(* The states a caller of the package goes through *)

\* The matrix of attempt c does not have rank m.
Misses(D, a, sk, t, c) ==
  LET v == DeriveAttempt(D, a, sk.seedSk, c).v
      M == LinearSystemOf(v, sk.P1, sk.L, t).A
  IN {MatrixVectorMul(M, x) : x \in [0 .. (mayo.k * mayo.o) - 1 -> Gf16]} # [0 .. mayo.m - 1 -> Gf16]

Long(s) == \E n \in Nat : n >= mayo.sigBytes /\ s \in ByteString(n)

\* s is a message with a signature that Verify accepts.
Genuine(key, M, s) ==
  /\ Slice(s, mayo.sigBytes, SliceLen(s)) = M
  /\ Verify(ExpandPK(key), M, Slice(s, 0, mayo.sigBytes)) = 0

KeysInv == csk \in Seeds /\ cpk = CompactKeyGen(csk)

SigningInv ==
  /\ esk = DecodeEsk(ExpandSK(csk))
  /\ message \in ByteStrings /\ mDigest = HashMessage(message)
  /\ salt \in ByteString(mayo.saltBytes)
  /\ target = HashToTarget(mDigest, salt)
  /\ ctr \in Nat /\ \A c \in 0 .. ctr - 1 : Misses(mDigest, salt, esk, target, c)

AttemptInv ==
  /\ vinegar = DeriveAttempt(mDigest, salt, esk.seedSk, ctr).v
  /\ A = LinearSystemOf(vinegar, esk.P1, esk.L, target).A
  /\ y = LinearSystemOf(vinegar, esk.P1, esk.L, target).y

AnswerInv ==
  /\ answer \subseteq Solver!Solutions
  /\ answer = {} => Misses(mDigest, salt, esk, target, ctr)

OpenedInv ==
  /\ result = Verify(ExpandPK(cpk), Slice(sm, mayo.sigBytes, SliceLen(sm)), Slice(sm, 0, mayo.sigBytes))
  /\ opened = IF result < 0 THEN <<>> ELSE Slice(sm, mayo.sigBytes, SliceLen(sm))

ApiInv ==
  /\ pc \in {"start", "keys", "attempt", "solve", "answered", "signed", "sent", "opened", "panic"}
  /\ pc # "start" => KeysInv
  /\ pc \notin {"start", "keys"} => SigningInv
  /\ pc \in {"solve", "answered"} => AttemptInv
  /\ pc = "answered" => AnswerInv
  /\ pc = "panic" => \A c \in 0 .. MaxAttempts - 1 : Misses(mDigest, salt, esk, target, c)
  /\ pc \in {"signed", "sent", "opened"} => Long(sm)
  /\ pc = "signed" => Genuine(cpk, message, sm)
  /\ pc \in {"sent", "opened"} /\ ~damaged => Genuine(cpk, message, sm)
  /\ pc = "opened" => OpenedInv

\* What the signer holds, in terms of its seed.
LEMMA SignerState ==
  ASSUME Environment, KeysInv, SigningInv
  PROVE  /\ esk = [seedSk |-> csk, O |-> KeyO(csk), P1 |-> KeyP1(csk), L |-> KeyL(csk)]
         /\ csk \in ByteStrings /\ mDigest \in ByteStrings /\ salt \in ByteStrings
         /\ target \in VecOf(mayo.m)
<1>1. csk \in Seeds /\ salt \in ByteString(mayo.saltBytes)
  BY DEF KeysInv, SigningInv
<1>2. esk = [seedSk |-> csk, O |-> KeyO(csk), P1 |-> KeyP1(csk), L |-> KeyL(csk)]
  BY <1>1, ExpandedSk DEF SigningInv
<1>3. csk \in ByteStrings /\ salt \in ByteStrings
  BY <1>1, BytesNat, Sizes, InByteStrings DEF Seeds
<1>4. mDigest \in ByteStrings
  BY HashTypes DEF SigningInv
<1>5. target \in VecOf(mayo.m)
  BY <1>3, <1>4, TargetType DEF SigningInv
<1> QED
  BY <1>2, <1>3, <1>4, <1>5

LEMMA SystemState ==
  ASSUME Environment, KeysInv, SigningInv, AttemptInv
  PROVE  /\ vinegar \in Vinegars
         /\ A = LinearSystemOf(vinegar, KeyP1(csk), KeyL(csk), target).A
         /\ y = LinearSystemOf(vinegar, KeyP1(csk), KeyL(csk), target).y
         /\ A \in MatOf(mayo.m, mayo.k * mayo.o) /\ y \in VecOf(mayo.m)
<1>1. /\ esk.seedSk = csk /\ esk.P1 = KeyP1(csk) /\ esk.L = KeyL(csk)
      /\ csk \in ByteStrings /\ mDigest \in ByteStrings /\ salt \in ByteStrings
      /\ target \in VecOf(mayo.m) /\ ctr \in Nat /\ csk \in Seeds
  BY SignerState DEF SigningInv, KeysInv
<1>2. vinegar \in Vinegars
  BY <1>1, AttemptTypes DEF AttemptInv
<1>3. /\ A = LinearSystemOf(vinegar, KeyP1(csk), KeyL(csk), target).A
      /\ y = LinearSystemOf(vinegar, KeyP1(csk), KeyL(csk), target).y
  BY <1>1 DEF AttemptInv
<1>4. A \in MatOf(mayo.m, mayo.k * mayo.o) /\ y \in VecOf(mayo.m)
  BY <1>1, <1>2, <1>3, SystemTypes
<1> QED
  BY <1>2, <1>3, <1>4

\* The solver's equations are those of the matrix product.
LEMMA ProductRows ==
  ASSUME NEW M \in MatOf(mayo.m, mayo.k * mayo.o), NEW x \in Oils
  PROVE  MatrixVectorMul(M, x) = [i \in 0 .. mayo.m - 1 |-> VecInnerProduct(M[i], x)]
<1> DEFINE N == mayo.k * mayo.o
<1>1. N \in Nat /\ mayo.m \in Nat \ {0} /\ x \in VecOf(N)
  BY Sizes DEF Oils
<1> HIDE DEF N
<1>2. M \in MatOf(mayo.m, N)
  BY DEF N
<1>3. MatrixVectorMul(M, x) = Apply(M, mayo.m, N, x)
  BY <1>1, <1>2, MatVecIs
<1>4. \A i \in 0 .. mayo.m - 1 : VecInnerProduct(M[i], x) = Dot(N, M[i], x)
  BY <1>1, <1>2, MatEntries, InnerIs
<1> QED
  BY <1>3, <1>4 DEF Apply

LEMMA SolverSystem ==
  ASSUME Environment, KeysInv, SigningInv, AttemptInv
  PROVE  /\ \A x \in Solver!Solutions : x \in Oils /\ MatrixVectorMul(A, x) = y
         /\ Solver!Deficient => Misses(mDigest, salt, esk, target, ctr)
<1>1. A \in MatOf(mayo.m, mayo.k * mayo.o) /\ y \in VecOf(mayo.m)
  BY SystemState
<1>2. \A x \in Oils : MatrixVectorMul(A, x) = [i \in 0 .. mayo.m - 1 |-> VecInnerProduct(A[i], x)]
  BY <1>1, ProductRows
<1>3. Oils = Solver!Unknowns
  BY DEF Oils, VecOf, SliceOf, Solver!Unknowns
<1>4. ASSUME NEW x \in Solver!Solutions PROVE x \in Oils /\ MatrixVectorMul(A, x) = y
  <2>1. x \in Oils /\ \A i \in 0 .. mayo.m - 1 : VecInnerProduct(A[i], x) = y[i]
    BY <1>3 DEF Solver!Solutions, Solver!Equations
  <2>2. y = [i \in 0 .. mayo.m - 1 |-> y[i]]
    BY <1>1 DEF VecOf, SliceOf
  <2> QED
    BY <1>2, <2>1, <2>2
<1>5. ASSUME Solver!Deficient PROVE Misses(mDigest, salt, esk, target, ctr)
  <2>1. {[i \in 0 .. mayo.m - 1 |-> VecInnerProduct(A[i], x)] : x \in Oils} # [0 .. mayo.m - 1 -> Gf16]
    BY <1>3, <1>5 DEF Solver!Deficient, Solver!Equations
  <2>2. {MatrixVectorMul(A, x) : x \in Oils} = {[i \in 0 .. mayo.m - 1 |-> VecInnerProduct(A[i], x)] : x \in Oils}
    BY <1>2
  <2>3. {MatrixVectorMul(A, x) : x \in Oils} # [0 .. mayo.m - 1 -> Gf16]
    BY <2>1, <2>2
  <2>4. Oils = [0 .. (mayo.k * mayo.o) - 1 -> Gf16]
    BY DEF Oils, VecOf, SliceOf
  <2>5. A = LinearSystemOf(DeriveAttempt(mDigest, salt, esk.seedSk, ctr).v, esk.P1, esk.L, target).A
    BY DEF AttemptInv
  <2> QED
    BY <2>3, <2>4, <2>5, Zenon DEF Misses
<1> QED
  BY <1>4, <1>5

\* What EmitSignature writes is a genuine signed message.
LEMMA EmittedGenuine ==
  ASSUME Environment, KeysInv, SigningInv, AttemptInv, AnswerInv, NEW x \in answer
  PROVE  Long(SignedMessage(vinegar, x)) /\ Genuine(cpk, message, SignedMessage(vinegar, x))
<1> DEFINE sig == SignatureFor(vinegar, KeyO(csk), x, salt)
<1>1. /\ x \in Oils /\ MatrixVectorMul(A, x) = y
      /\ csk \in Seeds /\ cpk = CompactKeyGen(csk) /\ esk.O = KeyO(csk)
      /\ message \in ByteStrings /\ salt \in ByteString(mayo.saltBytes)
      /\ target = HashToTarget(HashMessage(message), salt)
  <2>1. x \in Oils /\ MatrixVectorMul(A, x) = y
    BY SolverSystem DEF AnswerInv
  <2>2. esk.O = KeyO(csk)
    BY SignerState
  <2> QED
    BY <2>1, <2>2 DEF KeysInv, SigningInv
<1>2. /\ vinegar \in Vinegars
      /\ A = LinearSystemOf(vinegar, KeyP1(csk), KeyL(csk), target).A
      /\ y = LinearSystemOf(vinegar, KeyP1(csk), KeyL(csk), target).y
  BY SystemState
<1>3. sig \in ByteString(mayo.sigBytes) /\ Verify(ExpandPK(CompactKeyGen(csk)), message, sig) = 0
  BY <1>1, <1>2, SolutionVerifies
<1>4. SignedMessage(vinegar, x)
        = CopyAt(CopyAt(Zeros(mayo.sigBytes + SliceLen(message)), 0, sig), mayo.sigBytes, message)
  BY <1>1 DEF SignedMessage, SignatureFor
<1>5. PICK l \in Nat : message \in ByteString(l)
  BY <1>1 DEF ByteStrings
<1>6. SliceLen(message) = l
  BY <1>5, LenOfSlice DEF ByteString
<1> DEFINE e == SignedMessage(vinegar, x)
<1> HIDE DEF sig, e
<1>7. e = CopyAt(CopyAt(Zeros(mayo.sigBytes + l), 0, sig), mayo.sigBytes, message)
  BY <1>4, <1>6 DEF e
<1>8. /\ e \in ByteString(mayo.sigBytes + l) /\ Slice(e, 0, mayo.sigBytes) = sig
      /\ Slice(e, mayo.sigBytes, SliceLen(e)) = message
  BY <1>3, <1>5, <1>7, SignedRead
<1>9. Long(e)
  <2>1. mayo.sigBytes + l \in Nat /\ mayo.sigBytes + l >= mayo.sigBytes
    BY BytesNat
  <2> QED
    BY <1>8, <2>1 DEF Long
<1>10. Genuine(cpk, message, e)
  BY <1>1, <1>3, <1>8 DEF Genuine
<1> QED
  BY <1>9, <1>10 DEF e

LEMMA ApiInvInit == Init => ApiInv
BY DEF Init, ApiInv

LEMMA ApiInvStep == Environment /\ ApiInv /\ [Next]_vars => ApiInv'
<1> SUFFICES ASSUME Environment, ApiInv, [Next]_vars PROVE ApiInv'
  OBVIOUS
<1> USE DEF ApiInv
<1>1. CASE KeyGen
  <2>1. PICK seed \in RandomBytes(mayo.skSeedBytes) : csk' = seed /\ cpk' = CompactKeyGen(seed)
    BY <1>1 DEF KeyGen
  <2>2. seed \in Seeds
    <3>1. mayo.skSeedBytes \in Nat
      BY BytesNat
    <3> QED
      BY <3>1 DEF Environment, Seeds
  <2>3. KeysInv' /\ pc' = "keys"
    BY <1>1, <2>1, <2>2 DEF KeyGen, KeysInv
  <2> QED
    BY <2>3
<1>2. CASE StartSign
  <2>1. KeysInv /\ csk' = csk /\ cpk' = cpk /\ pc' = "attempt" /\ esk' = DecodeEsk(ExpandSK(csk)) /\ ctr' = 0
    BY <1>2 DEF StartSign, keys
  <2>2. PICK M \in Messages, R \in RandomBytes(mayo.rBytes) :
          /\ message' = M /\ mDigest' = HashMessage(M)
          /\ salt' = Shake256(mayo.saltBytes, Concat3(mDigest', R, esk'.seedSk))
    BY <1>2 DEF StartSign
  <2>3. M \in ByteStrings /\ R \in ByteStrings /\ csk \in ByteStrings
    <3>1. mayo.rBytes \in Nat /\ mayo.skSeedBytes \in Nat
      BY BytesNat
    <3>2. R \in ByteString(mayo.rBytes) /\ M \in ByteStrings
      BY <3>1 DEF Environment
    <3> QED
      BY <2>1, <3>1, <3>2, InByteStrings DEF KeysInv, Seeds
  <2>4. esk'.seedSk = csk
    <3>1. DecodeEsk(ExpandSK(csk)).seedSk = csk
      BY <2>1, ExpandedSk DEF KeysInv
    <3> QED
      BY <2>1, <3>1
  <2>5. salt' \in ByteString(mayo.saltBytes)
    <3>1. Concat3(HashMessage(M), R, csk) \in ByteStrings
      BY <2>3, HashTypes, ConcatBytes
    <3>2. Shake256(mayo.saltBytes, Concat3(HashMessage(M), R, csk)) \in ByteString(mayo.saltBytes)
      BY <3>1, HashTypes
    <3> QED
      BY <2>2, <2>4, <3>2
  <2>6. KeysInv'
    BY <2>1 DEF KeysInv
  <2>7. SigningInv'
    <3>1. target' = HashToTarget(mDigest', salt')
      BY <1>2 DEF StartSign
    <3>2. ctr' \in Nat /\ \A c \in 0 .. ctr' - 1 : FALSE
      BY <2>1
    <3> QED
      BY <2>1, <2>2, <2>3, <2>5, <3>1, <3>2 DEF SigningInv
  <2> QED
    BY <2>1, <2>6, <2>7
<1>3. CASE BuildSystem
  <2>1. KeysInv /\ SigningInv /\ UNCHANGED <<keys, hashed, ctr>> /\ pc' = "solve"
    BY <1>3 DEF BuildSystem
  <2>2. KeysInv' /\ SigningInv'
    BY <2>1 DEF KeysInv, SigningInv, keys, hashed
  <2>3. AttemptInv'
    BY <1>3 DEF BuildSystem, AttemptInv, keys, hashed
  <2> QED
    BY <2>1, <2>2, <2>3
<1>4. CASE SampleSolution
  <2>1. /\ KeysInv /\ SigningInv /\ AttemptInv /\ pc' = "answered"
        /\ UNCHANGED <<keys, hashed, attempt>> /\ UNCHANGED <<A, y>>
    BY <1>4 DEF SampleSolution, Solver!Answer
  <2>2. KeysInv' /\ SigningInv' /\ AttemptInv'
    BY <2>1 DEF KeysInv, SigningInv, AttemptInv, keys, hashed, attempt
  <2>3. answer' \subseteq Solver!Solutions /\ (answer' = {} => Solver!Deficient)
    BY <1>4 DEF SampleSolution, Solver!Answer
  <2>4. answer' = {} => Misses(mDigest, salt, esk, target, ctr)
    BY <2>1, <2>3, SolverSystem
  <2>5. AnswerInv'
    BY <2>1, <2>3, <2>4 DEF AnswerInv, hashed, attempt, Solver!Solutions, Solver!Unknowns, Solver!Equations
  <2> QED
    BY <2>1, <2>2, <2>5
<1>5. CASE EmitSignature
  <2>1. /\ KeysInv /\ SigningInv /\ AttemptInv /\ AnswerInv /\ pc' = "signed"
        /\ UNCHANGED <<keys, hashed, attempt>>
    BY <1>5 DEF EmitSignature
  <2>2. PICK x \in answer : sm' = SignedMessage(vinegar, x)
    BY <1>5 DEF EmitSignature
  <2>3. Long(SignedMessage(vinegar, x)) /\ Genuine(cpk, message, SignedMessage(vinegar, x))
    BY <2>1, EmittedGenuine
  <2>4. Long(sm') /\ Genuine(cpk', message', sm')
    BY <2>1, <2>2, <2>3 DEF keys, hashed
  <2>5. KeysInv' /\ SigningInv'
    BY <2>1 DEF KeysInv, SigningInv, keys, hashed, attempt
  <2> QED
    BY <2>1, <2>4, <2>5
<1>6. CASE NextAttempt
  <2>1. /\ KeysInv /\ SigningInv /\ AnswerInv /\ answer = {} /\ UNCHANGED <<keys, hashed>>
    BY <1>6 DEF NextAttempt
  <2>2. \A c \in 0 .. ctr : Misses(mDigest, salt, esk, target, c)
    <3>1. \A c \in 0 .. ctr : c \in 0 .. ctr - 1 \/ c = ctr
      BY <2>1 DEF SigningInv
    <3> QED
      BY <2>1, <3>1 DEF SigningInv, AnswerInv
  <2>3. KeysInv'
    BY <2>1 DEF KeysInv, keys
  <2>4. CASE ctr + 1 < MaxAttempts
    <3>1. ctr' = ctr + 1 /\ pc' = "attempt"
      BY <1>6, <2>4 DEF NextAttempt
    <3>2. ctr' \in Nat /\ ctr' - 1 = ctr
      BY <2>1, <3>1 DEF SigningInv
    <3>3. SigningInv'
      BY <2>1, <2>2, <3>2 DEF SigningInv, keys, hashed
    <3> QED
      BY <2>3, <3>1, <3>3
  <2>5. CASE ~(ctr + 1 < MaxAttempts)
    <3>1. ctr' = ctr /\ pc' = "panic"
      BY <1>6, <2>5 DEF NextAttempt
    <3>2. SigningInv'
      BY <2>1, <3>1 DEF SigningInv, keys, hashed
    <3>3. \A c \in 0 .. MaxAttempts - 1 : c \in 0 .. ctr
      BY <2>1, <2>5, ApiAssumption DEF SigningInv
    <3>4. \A c \in 0 .. MaxAttempts - 1 : Misses(mDigest', salt', esk', target', c)
      BY <2>1, <2>2, <3>3 DEF hashed
    <3> QED
      BY <2>3, <3>1, <3>2, <3>4
  <2> QED
    BY <2>4, <2>5
<1>7. CASE Transmit
  <2>1. KeysInv /\ SigningInv /\ Long(sm) /\ Genuine(cpk, message, sm) /\ pc' = "sent"
        /\ UNCHANGED <<keys, hashed, attempt>>
    BY <1>7 DEF Transmit
  <2>2. PICK arrived \in {sm} \cup Damage(sm) : sm' = arrived /\ damaged' = (arrived # sm)
    BY <1>7 DEF Transmit
  <2>3. Long(arrived)
    <3>1. PICK n \in Nat : n >= mayo.sigBytes /\ sm \in ByteString(n)
      BY <2>1 DEF Long
    <3>2. \A d \in Damage(sm) : Long(d)
      BY <3>1 DEF Environment, Long
    <3> QED
      BY <2>1, <3>2
  <2>4. ~damaged' => Genuine(cpk', message', sm')
    BY <2>1, <2>2 DEF keys, hashed
  <2>5. KeysInv' /\ SigningInv'
    BY <2>1 DEF KeysInv, SigningInv, keys, hashed, attempt
  <2>6. Long(sm')
    BY <2>2, <2>3
  <2> QED
    BY <2>1, <2>4, <2>5, <2>6
<1>8. CASE Open
  <2>1. /\ KeysInv /\ SigningInv /\ Long(sm) /\ (~damaged => Genuine(cpk, message, sm)) /\ pc' = "opened"
        /\ UNCHANGED <<keys, hashed, attempt, sm, damaged>>
    BY <1>8 DEF Open
  <2>2. KeysInv' /\ SigningInv'
    BY <2>1 DEF KeysInv, SigningInv, keys, hashed, attempt
  <2>3. OpenedInv'
    BY <1>8 DEF Open, OpenedInv, keys
  <2>4. Long(sm') /\ (~damaged' => Genuine(cpk', message', sm'))
    BY <2>1 DEF keys, hashed
  <2> QED
    BY <2>1, <2>2, <2>3, <2>4
<1>9. CASE UNCHANGED vars
  BY <1>9 DEF vars, keys, hashed, attempt, solver, outcome, KeysInv, SigningInv, AttemptInv, AnswerInv,
              OpenedInv, Solver!Solutions, Solver!Unknowns, Solver!Equations
<1> QED
  BY <1>1, <1>2, <1>3, <1>4, <1>5, <1>6, <1>7, <1>8, <1>9 DEF Next

\* Every reachable state satisfies ApiInv.
LEMMA ApiInvAlways == ASSUME Environment PROVE Spec => []ApiInv
<1>1. Init => ApiInv
  BY ApiInvInit
<1>2. ApiInv /\ [Next]_vars => ApiInv'
  BY ApiInvStep
<1> QED
  BY <1>1, <1>2, PTL DEF Spec

\* A key pair that KeyGen returned: every form of the public key, as Verify
\* expands and decodes it, vanishes on the oil space of the secret key.
THEOREM OilVanishesHolds == ASSUME Environment PROVE Spec => []OilVanishes
<1>1. ASSUME ApiInv, pc = "keys"
      PROVE  \A x \in [0 .. mayo.o - 1 -> Gf16] :
               Forms(PublicForms, Concat(MatrixVectorMul(DecodeO(DeriveFromSeed(csk).oByteString), x), x))
                 = Zeros(mayo.m)
  <2>1. csk \in Seeds /\ cpk = CompactKeyGen(csk)
    BY <1>1 DEF ApiInv, KeysInv
  <2>2. PublicForms = PublicP(csk) /\ DecodeO(DeriveFromSeed(csk).oByteString) = KeyO(csk)
    BY <2>1 DEF PublicForms, PublicP, KeyO
  <2>3. [0 .. mayo.o - 1 -> Gf16] = VecOf(mayo.o)
    BY DEF VecOf, SliceOf
  <2>4. \A x \in VecOf(mayo.o) :
          Forms(PublicP(csk), Concat(MatrixVectorMul(KeyO(csk), x), x)) = Zeros(mayo.m)
    BY <2>1, OilSpaceVanishes
  <2> QED
    BY <2>2, <2>3, <2>4
<1>2. ApiInv => OilVanishes
  BY <1>1, Zenon DEF OilVanishes
<1> QED
  BY <1>2, ApiInvAlways, PTL

\* The vectors that SystemSound takes apart are the parts of a signature.
LEMMA SignatureParts ==
  ASSUME NEW H \in MatOf(mayo.v, mayo.o), NEW V \in Vinegars, NEW x \in Oils
  PROVE  [i \in 0 .. mayo.k - 1 |-> Slice(SignatureVector(V, H, x), i * mayo.n, (i + 1) * mayo.n)]
           = Parts(H, V, x)
<1> DEFINE s == Parts(H, V, x)
           f == SignatureVector(V, H, x)
<1>1. s \in SliceOf(mayo.k, VecOf(mayo.n)) /\ f = Flat(s, mayo.k, mayo.n)
  BY PartsAre, SignatureVectorIs
<1>2. mayo.k \in Nat /\ mayo.n \in Nat
  BY Sizes
<1> HIDE DEF s, f
<1>3. \A i \in 0 .. mayo.k - 1 : Slice(f, i * mayo.n, (i + 1) * mayo.n) = s[i]
  BY <1>1, <1>2, FlatSlice
<1>4. s = [i \in 0 .. mayo.k - 1 |-> s[i]]
  BY <1>1 DEF SliceOf
<1>5. [i \in 0 .. mayo.k - 1 |-> Slice(f, i * mayo.n, (i + 1) * mayo.n)] = s
  BY <1>3, <1>4
<1> QED
  BY <1>5 DEF s, f

\* Every attempt of Sign: the system made from the secret key says of every x
\* what the public map says of the signature that x would give.
THEOREM SystemSoundHolds == ASSUME Environment PROVE Spec => []SystemSound
<1>1. ASSUME ApiInv, pc = "solve", NEW x \in Probes
      PROVE  AddVec(PStar(PublicForms,
                          [i \in 0 .. mayo.k - 1 |->
                             Slice(SignatureVector(vinegar, esk.O, x), i * mayo.n, (i + 1) * mayo.n)]),
                    target)
               = AddVec(MatrixVectorMul(A, x), y)
  <2>1. KeysInv /\ SigningInv /\ AttemptInv
    BY <1>1 DEF ApiInv
  <2>2. csk \in Seeds /\ PublicForms = PublicP(csk)
    BY <2>1 DEF KeysInv, PublicForms, PublicP
  <2>3. esk.O = KeyO(csk) /\ target \in VecOf(mayo.m)
    BY <2>1, SignerState
  <2>4. /\ vinegar \in Vinegars
        /\ A = LinearSystemOf(vinegar, KeyP1(csk), KeyL(csk), target).A
        /\ y = LinearSystemOf(vinegar, KeyP1(csk), KeyL(csk), target).y
    BY <2>1, SystemState
  <2>5. x \in Oils
    <3>1. 0 \in Gf16 /\ 1 \in Gf16 /\ 7 \in Gf16
      BY DEF Gf16
    <3> QED
      BY <3>1 DEF Probes, Oils, VecOf, SliceOf
  <2>6. KeyO(csk) \in MatOf(mayo.v, mayo.o)
    BY <2>2, KeyTypes
  <2>7. [i \in 0 .. mayo.k - 1 |-> Slice(SignatureVector(vinegar, esk.O, x), i * mayo.n, (i + 1) * mayo.n)]
          = Parts(KeyO(csk), vinegar, x)
    BY <2>3, <2>4, <2>5, <2>6, SignatureParts
  <2>8. AddVec(PStar(PublicP(csk), Parts(KeyO(csk), vinegar, x)), target)
          = AddVec(MatrixVectorMul(A, x), y)
    BY <2>2, <2>3, <2>4, <2>5, SystemIsPStar
  <2> QED
    BY <2>2, <2>7, <2>8
<1>2. ApiInv => SystemSound
  BY <1>1, Zenon DEF SystemSound
<1> QED
  BY <1>2, ApiInvAlways, PTL

\* A signed message that arrived unchanged is accepted, and what was signed
\* comes back.
THEOREM SignatureOpensHolds == ASSUME Environment PROVE Spec => []SignatureOpens
<1>1. ASSUME ApiInv, pc = "opened", ~damaged PROVE result = 0 /\ opened = message
  <2>1. OpenedInv /\ Genuine(cpk, message, sm)
    BY <1>1 DEF ApiInv
  <2>2. result = 0
    BY <2>1 DEF OpenedInv, Genuine
  <2> QED
    BY <2>1, <2>2 DEF OpenedInv, Genuine
<1>2. ApiInv => SignatureOpens
  BY <1>1 DEF SignatureOpens
<1> QED
  BY <1>2, ApiInvAlways, PTL

\* Verify accepts exactly the solutions of P*(s) = t, whatever arrived, and
\* APISignOpen returns the message exactly then.
THEOREM VerifyExactHolds == ASSUME Environment PROVE Spec => []VerifyExact
<1>1. ASSUME ApiInv, pc = "opened" PROVE VerifyExact
  <2> DEFINE M   == Slice(sm, mayo.sigBytes, SliceLen(sm))
             sig == Slice(sm, 0, mayo.sigBytes)
             solves == PStar(PublicForms, DecodeSignature(sig).s)
                         = HashToTarget(HashMessage(M), DecodeSignature(sig).salt)
  <2>1. KeysInv /\ OpenedInv /\ Long(sm)
    BY <1>1 DEF ApiInv
  <2>2. csk \in Seeds /\ cpk = CompactKeyGen(csk) /\ PublicForms = PublicP(csk)
    BY <2>1 DEF KeysInv, PublicForms, PublicP
  <2>3. sig \in ByteString(mayo.sigBytes)
    <3>1. PICK l \in Nat : l >= mayo.sigBytes /\ sm \in ByteString(l)
      BY <2>1 DEF Long
    <3>2. mayo.sigBytes \in Nat /\ mayo.sigBytes - 0 = mayo.sigBytes /\ sm \in SliceOf(l, Bytes)
      BY <3>1, BytesNat DEF ByteString
    <3>3. mayo.sigBytes <= l /\ 0 <= mayo.sigBytes /\ 0 \in Nat
      BY <3>1, <3>2
    <3>4. sig \in SliceOf(mayo.sigBytes - 0, Bytes)
      BY <3>1, <3>2, <3>3, SliceType
    <3> QED
      BY <3>2, <3>4 DEF ByteString
  <2>4. result = Verify(ExpandPK(cpk), M, sig) /\ opened = IF result < 0 THEN <<>> ELSE M
    BY <2>1 DEF OpenedInv
  <2> HIDE DEF M, sig
  <2>5. result = IF solves THEN 0 ELSE -1
    BY <2>2, <2>3, <2>4, VerifyIs
  <2> HIDE DEF solves
  <2>6. (result = 0 <=> solves) /\ opened = IF solves THEN M ELSE <<>>
    BY <2>4, <2>5
  <2> QED
    BY <2>6, Zenon DEF VerifyExact, solves, M, sig
<1>2. ApiInv => VerifyExact
  BY <1>1 DEF VerifyExact
<1> QED
  BY <1>2, ApiInvAlways, PTL

\* Sign runs out of attempts only if the matrix of every value of ctr misses
\* rank m.
THEOREM PanicOnlyIfExhaustedHolds == ASSUME Environment PROVE Spec => []PanicOnlyIfExhausted
<1>1. ApiInv => PanicOnlyIfExhausted
  BY Zenon DEF ApiInv, Misses, PanicOnlyIfExhausted
<1> QED
  BY <1>1, ApiInvAlways, PTL

-----------------------------------------------------------------------------
(* The solver over the field of the code *)

\* Module SampleSolution with the tables, the inner product and the sizes Sign
\* calls it with.  Its variables do not occur in what is said of it here.
Elimination == INSTANCE SampleSolution WITH
  F <- Gf16, Xor <- GfXor, Gf16Mul <- GfMul, Gf16Inv <- GfInv, Dot <- VecInnerProduct,
  m <- mayo.m, ko <- mayo.k * mayo.o, Rands <- Oils,
  R <- answer, B <- A, pivotRow <- ctr, pivotColumn <- ctr, xVec <- y, z <- y, r <- ctr,
  hasSolution <- done

LEMMA DotTimes ==
  ASSUME NEW n \in Nat, NEW u \in VecOf(n), NEW w \in VecOf(n), NEW a \in Gf16
  PROVE  /\ [c \in 0 .. n - 1 |-> GfMul(a, u[c])] \in VecOf(n)
         /\ Dot(n, [c \in 0 .. n - 1 |-> GfMul(a, u[c])], w) = GfMul(a, Dot(n, u, w))
<1> DEFINE v == [c \in 0 .. n - 1 |-> GfMul(a, u[c])]
           f == [c \in 0 .. n - 1 |-> GfMul(u[c], w[c])]
<1>1. \A c \in 0 .. n - 1 : u[c] \in Gf16 /\ w[c] \in Gf16
  BY VecEntries
<1>2. v \in VecOf(n) /\ f \in [0 .. n - 1 -> Gf16]
  BY <1>1, FieldType DEF VecOf, SliceOf
<1>3. \A c \in 0 .. n - 1 : GfMul(v[c], w[c]) = GfMul(a, f[c])
  BY <1>1, MulAssoc
<1>4. [c \in 0 .. n - 1 |-> GfMul(v[c], w[c])] = [c \in 0 .. n - 1 |-> GfMul(a, f[c])]
  BY <1>3
<1>5. Dot(n, u, w) = SumOf(f) /\ Dot(n, v, w) = SumOf([c \in 0 .. n - 1 |-> GfMul(v[c], w[c])])
  BY DEF Dot
<1> HIDE DEF f, v
<1>6. SumOf([c \in 0 .. n - 1 |-> GfMul(a, f[c])]) = GfMul(a, SumOf(f))
  BY <1>2, IndicesFinite, SumMul
<1> QED
  BY <1>2, <1>4, <1>5, <1>6 DEF v

\* Adding a to one entry of w.
Added(w, c, a) == [w EXCEPT ![c] = GfXor(w[c], a)]

LEMMA DotMoves ==
  ASSUME NEW n \in Nat, NEW u \in VecOf(n), NEW w \in VecOf(n), NEW a \in Gf16, NEW c \in 0 .. n - 1
  PROVE  /\ Added(w, c, a) \in VecOf(n)
         /\ Dot(n, u, Added(w, c, a)) = GfXor(Dot(n, u, w), GfMul(u[c], a))
<1> DEFINE e == [i \in 0 .. n - 1 |-> IF i = c THEN a ELSE 0]
           x == [w EXCEPT ![c] = GfXor(w[c], a)]
           f == [i \in 0 .. n - 1 |-> GfMul(u[i], e[i])]
<1>1. \A i \in 0 .. n - 1 : u[i] \in Gf16 /\ w[i] \in Gf16
  BY VecEntries
<1>2. e \in VecOf(n) /\ DOMAIN w = 0 .. n - 1
  BY FieldType, VecEntries DEF VecOf, SliceOf
<1>3. x = Plus(n, w, e)
  <2>1. \A i \in 0 .. n - 1 : x[i] = GfXor(w[i], e[i])
    BY <1>1, <1>2, Neutral
  <2>2. x = [i \in 0 .. n - 1 |-> x[i]]
    BY <1>2
  <2> HIDE DEF x, e
  <2> QED
    BY <2>1, <2>2 DEF Plus
<1>4. f \in [0 .. n - 1 -> Gf16] /\ f[c] = GfMul(u[c], a) /\ \A i \in 0 .. n - 1 : i # c => f[i] = 0
  BY <1>1, FieldType, Neutral
<1>5. Dot(n, u, e) = SumOf(f)
  BY DEF Dot
<1> HIDE DEF e, x, f
<1>6. SumOf(f) = f[c]
  BY <1>4, IndicesFinite, SumOnly
<1>7. Dot(n, u, Plus(n, w, e)) = GfXor(Dot(n, u, w), Dot(n, u, e)) /\ Plus(n, w, e) \in VecOf(n)
  BY <1>2, DotPlus, PlusType
<1> QED
  BY <1>3, <1>4, <1>5, <1>6, <1>7 DEF x, Added

\* What module SampleSolution assumes holds of the field and the inner product of
\* src/field and of the systems of Sign, for all parameters: the theorems of
\* SampleSolutionProofs are about the solver that Sign calls.
THEOREM SolverAssumptionsHold ==
  /\ Elimination!SizeAssumption
  /\ Elimination!FieldAssumption
  /\ Elimination!DotAssumption
<1> DEFINE N == mayo.k * mayo.o
<1>1. N \in Nat \ {0} /\ mayo.m \in Nat \ {0}
  BY Sizes
<1> HIDE DEF N
<1>2. Elimination!Vec = VecOf(N) /\ Elimination!Cols = 0 .. N - 1 /\ Oils = VecOf(N)
  BY DEF Elimination!Vec, Elimination!Cols, VecOf, SliceOf, Oils, N
<1>3. Elimination!SizeAssumption
  BY <1>1, <1>2 DEF Elimination!SizeAssumption, N
<1>4. Elimination!FieldAssumption
  <2>1. {0, 1} \subseteq Gf16 /\ 0 # 1
    BY FieldType
  <2>2. \A a \in Gf16 : /\ GfXor(a, 0) = a /\ GfXor(a, a) = 0
                        /\ GfMul(a, 0) = 0 /\ GfMul(a, 1) = a
                        /\ GfInv(a) \in Gf16
                        /\ a # 0 => GfMul(GfInv(a), a) = 1
    BY Neutral, InverseLaw
  <2>3. \A a, b \in Gf16 : /\ GfXor(a, b) \in Gf16 /\ GfXor(a, b) = GfXor(b, a)
                           /\ GfMul(a, b) \in Gf16 /\ GfMul(a, b) = GfMul(b, a)
    BY FieldType, XorComm, MulComm
  <2>4. \A a, b, c \in Gf16 : /\ GfXor(a, GfXor(b, c)) = GfXor(GfXor(a, b), c)
                              /\ GfMul(a, GfMul(b, c)) = GfMul(GfMul(a, b), c)
    BY XorAssoc, MulAssoc
  <2> QED
    BY <2>1, <2>2, <2>3, <2>4, Zenon DEF Elimination!FieldAssumption
<1>5. \A u, w \in VecOf(N) : /\ VecInnerProduct(u, w) = Dot(N, u, w)
                             /\ Elimination!AddVec(u, w) = Plus(N, u, w) /\ Plus(N, u, w) \in VecOf(N)
  <2> SUFFICES ASSUME NEW u \in VecOf(N), NEW w \in VecOf(N)
               PROVE  /\ VecInnerProduct(u, w) = Dot(N, u, w)
                      /\ Elimination!AddVec(u, w) = Plus(N, u, w) /\ Plus(N, u, w) \in VecOf(N)
    OBVIOUS
  <2>1. DOMAIN u = 0 .. N - 1
    BY <1>1, VecEntries
  <2>2. Elimination!AddVec(u, w) = Plus(N, u, w)
    BY <2>1 DEF Elimination!AddVec, Plus
  <2> QED
    BY <1>1, <2>2, InnerIs, PlusType
<1>6. \A u, w \in VecOf(N) : VecInnerProduct(u, w) \in Gf16
  BY <1>1, <1>5, DotType
<1>7. \A u, v, w \in VecOf(N) :
        /\ VecInnerProduct(Elimination!AddVec(u, v), w) = GfXor(VecInnerProduct(u, w), VecInnerProduct(v, w))
        /\ VecInnerProduct(u, Elimination!AddVec(v, w)) = GfXor(VecInnerProduct(u, v), VecInnerProduct(u, w))
  <2> SUFFICES ASSUME NEW u \in VecOf(N), NEW v \in VecOf(N), NEW w \in VecOf(N)
               PROVE  /\ Dot(N, Plus(N, u, v), w) = GfXor(Dot(N, u, w), Dot(N, v, w))
                      /\ Dot(N, u, Plus(N, v, w)) = GfXor(Dot(N, u, v), Dot(N, u, w))
    BY <1>5
  <2> QED
    BY <1>1, DotPlus
<1>8. ASSUME NEW u \in VecOf(N), NEW w \in VecOf(N), NEW a \in Gf16
      PROVE  /\ VecInnerProduct(Elimination!MultiplyVecConstant(a, u), w) = GfMul(a, VecInnerProduct(u, w))
             /\ \A c \in 0 .. N - 1 : VecInnerProduct(u, [w EXCEPT ![c] = GfXor(w[c], a)])
                                        = GfXor(VecInnerProduct(u, w), GfMul(u[c], a))
  <2> DEFINE v == [c \in 0 .. N - 1 |-> GfMul(a, u[c])]
  <2>1. DOMAIN u = 0 .. N - 1
    BY <1>1, VecEntries
  <2>2. Elimination!MultiplyVecConstant(a, u) = v
    BY <2>1 DEF Elimination!MultiplyVecConstant
  <2>3. v \in VecOf(N) /\ Dot(N, v, w) = GfMul(a, Dot(N, u, w))
    BY <1>1, DotTimes
  <2> HIDE DEF v
  <2>4. VecInnerProduct(v, w) = GfMul(a, VecInnerProduct(u, w))
    BY <1>5, <2>3
  <2>5. ASSUME NEW c \in 0 .. N - 1
        PROVE  VecInnerProduct(u, [w EXCEPT ![c] = GfXor(w[c], a)])
                 = GfXor(VecInnerProduct(u, w), GfMul(u[c], a))
    <3>1. Added(w, c, a) \in VecOf(N) /\ Dot(N, u, Added(w, c, a)) = GfXor(Dot(N, u, w), GfMul(u[c], a))
      BY <1>1, DotMoves
    <3>2. VecInnerProduct(u, Added(w, c, a)) = GfXor(VecInnerProduct(u, w), GfMul(u[c], a))
      BY <1>5, <3>1
    <3> QED
      BY <3>2 DEF Added
  <2> QED
    BY <2>2, <2>4, <2>5
<1>9. Elimination!DotAssumption
  <2>1. \A u, w \in Elimination!Vec : VecInnerProduct(u, w) \in Gf16
    BY <1>2, <1>6, Zenon
  <2>2. \A u, v, w \in Elimination!Vec :
          /\ VecInnerProduct(Elimination!AddVec(u, v), w) = GfXor(VecInnerProduct(u, w), VecInnerProduct(v, w))
          /\ VecInnerProduct(u, Elimination!AddVec(v, w)) = GfXor(VecInnerProduct(u, v), VecInnerProduct(u, w))
    BY <1>2, <1>7, Zenon
  <2>3. ASSUME NEW u \in Elimination!Vec, NEW w \in Elimination!Vec, NEW s \in Gf16
        PROVE  /\ VecInnerProduct(Elimination!MultiplyVecConstant(s, u), w) = GfMul(s, VecInnerProduct(u, w))
               /\ \A c \in Elimination!Cols : VecInnerProduct(u, [w EXCEPT ![c] = GfXor(w[c], s)])
                                              = GfXor(VecInnerProduct(u, w), GfMul(u[c], s))
    <3>1. u \in VecOf(N) /\ w \in VecOf(N) /\ Elimination!Cols = 0 .. N - 1
      BY <1>2
    <3> QED
      BY <1>8, <3>1
  <2> QED
    BY <2>1, <2>2, <2>3, Zenon DEF Elimination!DotAssumption
<1> QED
  BY <1>3, <1>4, <1>9
=============================================================================
