---------------------------- MODULE KeccakProofs ----------------------------
(***************************************************************************)
(* KeccakF1600_StatePermute computes KECCAK-p[1600, 24] for every state:   *)
(* the proof that module Keccak implements module KeccakP.                 *)
(*                                                                         *)
(* A word is the set of its one bits, so two words are compared bit by     *)
(* bit.  The tables enter by TablesAssumption.                             *)
(***************************************************************************)
EXTENDS Keccak, TLAPS

\* The 25 words of a state.
LaneStates == [0 .. 24 -> SUBSET Bits64]

-----------------------------------------------------------------------------
\* Words.

\* The sum of two words is one.
LEMMA XorType ==
  ASSUME NEW a \in SUBSET Bits64, NEW b \in SUBSET Bits64
  PROVE  a ++ b \in SUBSET Bits64
  BY DEF ++

\* A rotation moves every bit by the same distance, around the end.
LEMMA Rotation ==
  ASSUME NEW a \in SUBSET Bits64, NEW offset \in Bits64
  PROVE  /\ ROL(a, offset) = {(z + offset) % 64 : z \in a}
         /\ ROL(a, offset) \in SUBSET Bits64
<1> DEFINE high == {j \in a : j + offset \in Bits64}
           low  == {j \in a : j >= 64 - offset}
<1>1. Shl(a, offset) = {j + offset : j \in high}
  BY DEF Shl
<1>2. Shr(a, 64 - offset) = {j - (64 - offset) : j \in low}
  BY DEF Shr
<1>3. ASSUME NEW j \in a
      PROVE  /\ j \in high => (j + offset) % 64 = j + offset /\ j + offset >= offset
             /\ j \in low => (j + offset) % 64 = j - (64 - offset) /\ j - (64 - offset) < offset
             /\ j \in high \/ j \in low
             /\ (j + offset) % 64 \in Bits64
  BY DEF Bits64
<1>4. Shl(a, offset) \cap Shr(a, 64 - offset) = {}
  <2>1. ASSUME NEW i \in high, NEW j \in low PROVE i + offset # j - (64 - offset)
    BY <1>3 DEF Bits64
  <2> HIDE DEF high, low
  <2> QED BY <1>1, <1>2, <2>1
<1>5. Shl(a, offset) \cup Shr(a, 64 - offset) = {(z + offset) % 64 : z \in a}
  <2>1. high \subseteq a /\ low \subseteq a
    OBVIOUS
  <2> HIDE DEF high, low
  <2> QED BY <1>1, <1>2, <1>3, <2>1
<1>6. ROL(a, offset) = Shl(a, offset) \cup Shr(a, 64 - offset)
  BY <1>4 DEF ROL, ++
<1>7. {(z + offset) % 64 : z \in a} \in SUBSET Bits64
  BY <1>3
<1> QED BY <1>5, <1>6, <1>7

\* Sums are the same in both modules.
LEMMA SamePlus == \A a, b : Permutation!++(a, b) = a ++ b
  BY DEF Permutation!++, ++

-----------------------------------------------------------------------------
\* The steps of a round.

\* Indices modulo five.
LEMMA Indices ==
  ASSUME NEW l \in 0 .. 24
  PROVE  /\ l % 5 \in 0 .. 4 /\ l \div 5 \in 0 .. 4
         /\ ((l % 5) + 4) % 5 = (l + 4) % 5 /\ ((l % 5) + 1) % 5 = (l + 1) % 5
         /\ (l + 4) % 5 \in 0 .. 4 /\ (l + 1) % 5 \in 0 .. 4
         /\ Source(l) \in 0 .. 24
         /\ Source(l) = (((l % 5) + 3 * (l \div 5)) % 5) + 5 * ((l % 5) % 5)
         /\ \A k \in {0, 1, 2} : /\ 5 * (l \div 5) + ((l + k) % 5) = (((l % 5) + k) % 5) + 5 * ((l \div 5) % 5)
                                 /\ 5 * (l \div 5) + ((l + k) % 5) \in 0 .. 24
  BY DEF Source

\* The column parities in BC, and what is xored to every lane, are theta.
LEMMA ThetaAgrees ==
  ASSUME NEW X \in LaneStates
  PROVE  /\ addTheta(X) = Permutation!Theta(X)
         /\ addTheta(X) \in LaneStates
<1> DEFINE BC == prepareTheta(X)
           C  == [x \in 0 .. 4 |->
                    Permutation!Lane(X, x, 0) ++ (Permutation!Lane(X, x, 1) ++ (Permutation!Lane(X, x, 2)
                      ++ (Permutation!Lane(X, x, 3) ++ Permutation!Lane(X, x, 4))))]
<1>1. ASSUME NEW x \in 0 .. 4
      PROVE  /\ X[x] \in SUBSET Bits64 /\ X[5 + x] \in SUBSET Bits64 /\ X[10 + x] \in SUBSET Bits64
             /\ X[15 + x] \in SUBSET Bits64 /\ X[20 + x] \in SUBSET Bits64
             /\ Permutation!Lane(X, x, 0) = X[x] /\ Permutation!Lane(X, x, 1) = X[5 + x]
             /\ Permutation!Lane(X, x, 2) = X[10 + x] /\ Permutation!Lane(X, x, 3) = X[15 + x]
             /\ Permutation!Lane(X, x, 4) = X[20 + x]
  BY DEF LaneStates, Permutation!Lane
<1>2. ASSUME NEW x \in 0 .. 4
      PROVE  BC[x] = C[x] /\ C[x] \in SUBSET Bits64
  <2>1. C[x] = X[x] ++ (X[5 + x] ++ (X[10 + x] ++ (X[15 + x] ++ X[20 + x])))
    BY <1>1
  <2>2. BC[x] = X[x] ++ (X[5 + x] ++ (X[10 + x] ++ (X[15 + x] ++ X[20 + x])))
    BY DEF prepareTheta
  <2>3. X[x] ++ (X[5 + x] ++ (X[10 + x] ++ (X[15 + x] ++ X[20 + x]))) \in SUBSET Bits64
    BY <1>1, XorType
  <2> QED BY <2>1, <2>2, <2>3
<1> HIDE DEF BC, C
<1>3. ASSUME NEW l \in 0 .. 24
      PROVE  /\ BC[((l % 5) + 4) % 5] ++ ROL(BC[((l % 5) + 1) % 5], 1)
                  = C[(l + 4) % 5] ++ {(z + 1) % 64 : z \in C[(l + 1) % 5]}
             /\ C[(l + 4) % 5] ++ {(z + 1) % 64 : z \in C[(l + 1) % 5]} \in SUBSET Bits64
  <2>1. /\ BC[((l % 5) + 4) % 5] = C[(l + 4) % 5] /\ BC[((l % 5) + 1) % 5] = C[(l + 1) % 5]
        /\ C[(l + 4) % 5] \in SUBSET Bits64 /\ C[(l + 1) % 5] \in SUBSET Bits64
    BY <1>2, Indices
  <2>2. 1 \in Bits64
    BY DEF Bits64
  <2>3. /\ ROL(C[(l + 1) % 5], 1) = {(z + 1) % 64 : z \in C[(l + 1) % 5]}
        /\ ROL(C[(l + 1) % 5], 1) \in SUBSET Bits64
    BY <2>1, <2>2, Rotation
  <2> QED BY <2>1, <2>3, XorType
<1> DEFINE D(x) == BC[(x + 4) % 5] ++ ROL(BC[(x + 1) % 5], 1)
<1>4. addTheta(X) = [l \in 0 .. 24 |-> X[l] ++ D(l % 5)]
  <2>1. addTheta(X) = [l \in 0 .. 24 |-> X[l] ++ [x \in 0 .. 4 |-> D(x)][l % 5]]
    BY DEF addTheta, BC
  <2>2. \A l \in 0 .. 24 : [x \in 0 .. 4 |-> D(x)][l % 5] = D(l % 5)
    BY Indices
  <2> HIDE DEF D
  <2> QED BY <2>1, <2>2
<1> DEFINE P == [x \in 0 .. 4 |->
                    Permutation!++(Permutation!Lane(X, x, 0), Permutation!++(Permutation!Lane(X, x, 1),
                      Permutation!++(Permutation!Lane(X, x, 2),
                        Permutation!++(Permutation!Lane(X, x, 3), Permutation!Lane(X, x, 4)))))]
           Changed(l) == Permutation!++(X[l], Permutation!++(P[(l + 4) % 5], {(z + 1) % 64 : z \in P[(l + 1) % 5]}))
           Added(l)   == X[l] ++ (C[(l + 4) % 5] ++ {(z + 1) % 64 : z \in C[(l + 1) % 5]})
<1>5. Permutation!Theta(X) = [l \in 0 .. 24 |-> Added(l)]
  <2>1. Permutation!Theta(X) = [l \in 0 .. 24 |-> Changed(l)]
    BY DEF Permutation!Theta
  <2>2. ASSUME NEW x \in 0 .. 4 PROVE P[x] = C[x]
    BY SamePlus DEF C
  <2> HIDE DEF P
  <2>3. ASSUME NEW l \in 0 .. 24 PROVE Changed(l) = Added(l)
    BY <2>2, Indices, SamePlus
  <2> HIDE DEF Changed, Added
  <2> QED BY <2>1, <2>3
<1>6. ASSUME NEW l \in 0 .. 24
      PROVE  /\ X[l] ++ D(l % 5) = X[l] ++ (C[(l + 4) % 5] ++ {(z + 1) % 64 : z \in C[(l + 1) % 5]})
             /\ X[l] ++ D(l % 5) \in SUBSET Bits64
  BY <1>3, XorType DEF LaneStates
<1> HIDE DEF D
<1> QED BY <1>4, <1>5, <1>6 DEF LaneStates

\* The 25 assignments with their rotations are rho, pi, chi and iota together:
\* row by row they take the lanes pi moves there, by the offsets of rho.
LEMMA RestAgrees ==
  ASSUME NEW X \in LaneStates, NEW i \in 0 .. 23
  PROVE  LET mixed == Permutation!Chi(Permutation!Pi(Permutation!Rho(X)))
         IN  /\ rhoPiChiIota(X, i) = [mixed EXCEPT ![0] = mixed[0] ++ RC[i]]
             /\ rhoPiChiIota(X, i) \in LaneStates
<1> DEFINE R     == Permutation!Rho(X)
           B     == Permutation!Pi(R)
           mixed == Permutation!Chi(B)
           Next1(l) == 5 * (l \div 5) + ((l + 1) % 5)
           Next2(l) == 5 * (l \div 5) + ((l + 2) % 5)
<1>1. ASSUME NEW l \in 0 .. 24
      PROVE  /\ B[l] = ROL(X[Source(l)], Offset[Source(l)])
             /\ B[l] \in SUBSET Bits64
  <2>1. Source(l) \in 0 .. 24 /\ Source(l) = (((l % 5) + 3 * (l \div 5)) % 5) + 5 * ((l % 5) % 5)
    BY Indices
  <2>2. B[l] = R[Source(l)]
    BY <2>1 DEF Permutation!Pi, Permutation!Lane
  <2>3. R[Source(l)] = {(z + Offset[Source(l)]) % 64 : z \in X[Source(l)]}
    BY <2>1 DEF Permutation!Rho
  <2>4. X[Source(l)] \in SUBSET Bits64 /\ Offset[Source(l)] \in Bits64
    BY <2>1, TablesAssumption DEF LaneStates
  <2> QED BY <2>2, <2>3, <2>4, Rotation
<1>2. DOMAIN B = 0 .. 24
  BY DEF Permutation!Pi
<1> HIDE DEF R, B
<1> DEFINE BC == [l \in 0 .. 24 |-> LET from == Rows[1 + (l \div 5)][1 + (l % 5)]
                                   IN ROL(X[from[1]], from[2])]
<1>3. ASSUME NEW l \in 0 .. 24 PROVE BC[l] = B[l]
  <2>1. Rows[1 + (l \div 5)][1 + (l % 5)] = <<Source(l), Offset[Source(l)]>>
    BY TablesAssumption
  <2>2. BC[l] = ROL(X[Source(l)], Offset[Source(l)])
    BY <2>1
  <2> QED BY <1>1, <2>2
<1> DEFINE Z == [l \in 0 .. 24 |-> BC[l] ++ (Not(BC[Next1(l)]) \cap BC[Next2(l)])]
<1>4. rhoPiChiIota(X, i) = [Z EXCEPT ![0] = Z[0] ++ KeccakF_RoundConstants[i + 1]]
  BY DEF rhoPiChiIota
<1> HIDE DEF BC
<1>5. ASSUME NEW l \in 0 .. 24
      PROVE  /\ Z[l] = mixed[l]
             /\ Z[l] \in SUBSET Bits64
  <2>1. Next1(l) \in 0 .. 24 /\ Next2(l) \in 0 .. 24
    BY Indices
  <2>2. Z[l] = B[l] ++ (Not(B[Next1(l)]) \cap B[Next2(l)])
    BY <1>3, <2>1
  <2>3. Not(B[Next1(l)]) \cap B[Next2(l)] = B[Next2(l)] \ B[Next1(l)]
    BY <1>1, <2>1 DEF Not
  <2>4. mixed[l] = B[l] ++ (Permutation!Lane(B, (l % 5) + 2, l \div 5) \ Permutation!Lane(B, (l % 5) + 1, l \div 5))
    BY DEF Permutation!Chi, ++, Permutation!++
  <2>5. /\ Permutation!Lane(B, (l % 5) + 2, l \div 5) = B[Next2(l)]
        /\ Permutation!Lane(B, (l % 5) + 1, l \div 5) = B[Next1(l)]
    BY Indices DEF Permutation!Lane
  <2>6. B[l] ++ (B[Next2(l)] \ B[Next1(l)]) \in SUBSET Bits64
    BY <1>1, <2>1 DEF ++
  <2> QED BY <2>2, <2>3, <2>4, <2>5, <2>6
<1>6. DOMAIN mixed = 0 .. 24
  BY DEF Permutation!Chi
<1>7. Z = mixed /\ Z \in LaneStates
  <2> HIDE DEF mixed
  <2>1. \A l \in 0 .. 24 : Z[l] = mixed[l] /\ Z[l] \in SUBSET Bits64
    BY <1>5
  <2>2. DOMAIN Z = 0 .. 24
    OBVIOUS
  <2>3. mixed = [l \in 0 .. 24 |-> mixed[l]]
    BY DEF mixed, Permutation!Chi
  <2> QED BY <2>1, <2>2, <2>3 DEF LaneStates
<1>8. KeccakF_RoundConstants[i + 1] = RC[i] /\ RC[i] \in SUBSET Bits64
  BY TablesAssumption
<1>9. [Z EXCEPT ![0] = Z[0] ++ RC[i]] \in LaneStates
  <2> HIDE DEF Z
  <2>1. Z[0] ++ RC[i] \in SUBSET Bits64
    BY <1>7, <1>8, XorType DEF LaneStates
  <2> QED BY <1>7, <2>1 DEF LaneStates
<1> HIDE DEF Z, mixed
<1>10. rhoPiChiIota(X, i) = [mixed EXCEPT ![0] = mixed[0] ++ RC[i]]
  BY <1>4, <1>7, <1>8
<1>11. rhoPiChiIota(X, i) \in LaneStates
  BY <1>4, <1>8, <1>9
<1> QED BY <1>10, <1>11 DEF mixed, B, R

\* One round of the code is one round of the standard.
LEMMA RoundAgrees ==
  ASSUME NEW X \in LaneStates, NEW i \in 0 .. 23
  PROVE  /\ addTheta(X) \in LaneStates
         /\ rhoPiChiIota(addTheta(X), i) = Permutation!Rnd(X, i)
         /\ rhoPiChiIota(addTheta(X), i) \in LaneStates
<1> DEFINE T == addTheta(X)
           mixed == Permutation!Chi(Permutation!Pi(Permutation!Rho(T)))
<1>1. T \in LaneStates /\ T = Permutation!Theta(X)
  BY ThetaAgrees
<1>2. /\ rhoPiChiIota(T, i) = [mixed EXCEPT ![0] = mixed[0] ++ RC[i]]
      /\ rhoPiChiIota(T, i) \in LaneStates
  <2> HIDE DEF T
  <2> QED BY <1>1, RestAgrees
<1>3. Permutation!Rnd(X, i) = [mixed EXCEPT ![0] = mixed[0] ++ RC[i]]
  <2> HIDE DEF T
  <2> QED BY <1>1 DEF Permutation!Rnd, ++, Permutation!++
<1> QED BY <1>1, <1>2, <1>3

-----------------------------------------------------------------------------
\* The refinement.

\* The values of round: the loop takes two rounds at a time.
EvenRounds == {0, 2, 4, 6, 8, 10, 12, 14, 16, 18, 20, 22, 24}

\* The types, and where in the loop the permutation is.
TypeOK ==
  /\ state \in LaneStates /\ A \in LaneStates /\ E \in LaneStates
  /\ round \in EvenRounds
  /\ pc \in {"copyFromState", "AtoE", "EtoA", "done"}
  /\ pc = "copyFromState" => round = 0
  /\ pc = "EtoA" => round < 24
  /\ pc = "done" => round = 24

\* The loop goes over the even rounds and leaves words of 64 bits everywhere.
LEMMA TypeStep == TypeOK /\ [Next]_vars => TypeOK'
<1> SUFFICES ASSUME TypeOK, [Next]_vars PROVE TypeOK'
  OBVIOUS
<1>1. CASE copyFromState
  BY <1>1 DEF copyFromState, TypeOK
<1>2. CASE FirstRound
  <2>1. round \in 0 .. 23
    BY <1>2 DEF FirstRound, TypeOK, EvenRounds, NROUNDS
  <2>2. A' \in LaneStates /\ E' \in LaneStates
    BY <1>2, <2>1, RoundAgrees DEF FirstRound, TypeOK
  <2> QED BY <1>2, <2>1, <2>2 DEF FirstRound, TypeOK
<1>3. CASE SecondRound
  <2>1. round + 1 \in 0 .. 23 /\ round + 2 \in EvenRounds
    BY <1>3 DEF SecondRound, TypeOK, EvenRounds
  <2>2. A' \in LaneStates /\ E' \in LaneStates
    BY <1>3, <2>1, RoundAgrees DEF SecondRound, TypeOK
  <2> QED BY <1>3, <2>1, <2>2 DEF SecondRound, TypeOK
<1>4. CASE copyToState
  BY <1>4 DEF copyToState, TypeOK, NROUNDS
<1>5. CASE UNCHANGED vars
  BY <1>5 DEF vars, TypeOK
<1> QED BY <1>1, <1>2, <1>3, <1>4, <1>5 DEF Next

\* The lanes of FIPS 202 and the number of the next round, read off the variables.
lanes == IF pc = "AtoE" THEN A ELSE IF pc = "EtoA" THEN E ELSE state
ir    == IF pc = "EtoA" THEN round + 1 ELSE round

\* KeccakF1600_StatePermute, unrolled over two rounds with its lanes renamed from
\* one to the other, goes through the 24 rounds of KECCAK-p[1600, 24] for every
\* state.
THEOREM PermutationImplemented == Spec => ImplementsKeccakP
<1>1. Init => TypeOK
  BY KeccakAssumption DEF Init, TypeOK, LaneStates, SliceOf, EvenRounds
<1>2. Init => Permutation!Init
  BY DEF Init, Permutation!Init
<1>3. TypeOK /\ [Next]_vars => [Permutation!Round]_(Permutation!vars)
  <2> SUFFICES ASSUME TypeOK, [Next]_vars
               PROVE  \/ ir < 24 /\ lanes' = Permutation!Rnd(lanes, ir) /\ ir' = ir + 1
                      \/ lanes' = lanes /\ ir' = ir
    BY DEF Permutation!Round, Permutation!vars, lanes, ir
  <2>1. CASE copyFromState
    BY <2>1 DEF copyFromState, lanes, ir
  <2>2. CASE FirstRound
    <3>1. round \in 0 .. 23 /\ pc = "AtoE" /\ pc' = "EtoA" /\ round' = round
      BY <2>2 DEF FirstRound, TypeOK, EvenRounds, NROUNDS
    <3>2. E' = Permutation!Rnd(A, round)
      BY <2>2, <3>1, RoundAgrees DEF FirstRound, TypeOK
    <3> QED BY <3>1, <3>2 DEF lanes, ir
  <2>3. CASE SecondRound
    <3>1. round + 1 \in 0 .. 23 /\ pc = "EtoA" /\ pc' = "AtoE" /\ round' = round + 2 /\ round \in Int
      BY <2>3 DEF SecondRound, TypeOK, EvenRounds
    <3>2. A' = Permutation!Rnd(E, round + 1)
      BY <2>3, <3>1, RoundAgrees DEF SecondRound, TypeOK
    <3> QED BY <3>1, <3>2 DEF lanes, ir
  <2>4. CASE copyToState
    BY <2>4 DEF copyToState, lanes, ir
  <2>5. CASE UNCHANGED vars
    BY <2>5 DEF vars, lanes, ir
  <2> QED BY <2>1, <2>2, <2>3, <2>4, <2>5 DEF Next
<1> QED BY <1>1, <1>2, <1>3, TypeStep, PTL DEF Spec, ImplementsKeccakP, Permutation!Spec
=============================================================================
