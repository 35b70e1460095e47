------------------------------- MODULE Keccak -------------------------------
(***************************************************************************)
(* KeccakF1600_StatePermute of src/rand/fips202.c.  The 25 words of the    *)
(* state are loaded into variables A.., and each iteration of the loop     *)
(* computes one round from A.. to E.. and the next one back.  Lane Axy has *)
(* index x + 5y for x of a, e, i, o, u and y of b, g, k, m, s.  One action *)
(* is one round, or one of the copies around the loop.                     *)
(***************************************************************************)
EXTENDS Words
LOCAL INSTANCE SequencesExt
LOCAL INSTANCE Sequences

CONSTANTS
  Inputs,    \* the states to permute
  Garbage    \* what a variable holds before it is assigned

ASSUME KeccakAssumption ==
  Inputs \subseteq SliceOf(25, SUBSET Bits64) /\ Garbage \subseteq Bits64

VARIABLES
  state,     \* the argument
  A, E,      \* the lanes
  round, pc
vars == <<state, A, E, round, pc>>

NROUNDS == 24

\* Bytes and words, the least significant byte first.
load64(x) == UNION {{8 * i + b : b \in x[i]} : i \in 0 .. 7}
store64(u) == [i \in 0 .. 7 |-> {b \in Bits8 : 8 * i + b \in u}]

ROL(a, offset) == Shl(a, offset) ++ Shr(a, 64 - offset)

KeccakF_RoundConstants ==
  <<{0}, {1, 7, 15}, {1, 3, 7, 15, 63}, {15, 31, 63}, {0, 1, 3, 7, 15}, {0, 31},
    {0, 7, 15, 31, 63}, {0, 3, 15, 63}, {1, 3, 7}, {3, 7}, {0, 3, 15, 31}, {1, 3, 31},
    {0, 1, 3, 7, 15, 31}, {0, 1, 3, 7, 63}, {0, 3, 7, 15, 63}, {0, 1, 15, 63},
    {1, 15, 63}, {7, 63}, {1, 3, 15}, {1, 3, 31, 63},
    {0, 7, 15, 31, 63}, {7, 15, 63}, {0, 31}, {3, 15, 31, 63}>>

\* The lanes from which a round computes its five rows, and how far it rotates them.
Rows ==
  << << <<0, 0>>, <<6, 44>>, <<12, 43>>, <<18, 21>>, <<24, 14>> >>,   \* ba ge ki mo su
     << <<3, 28>>, <<9, 20>>, <<10, 3>>, <<16, 45>>, <<22, 61>> >>,   \* bo gu ka me si
     << <<1, 1>>, <<7, 6>>, <<13, 25>>, <<19, 8>>, <<20, 18>> >>,     \* be gi ko mu sa
     << <<4, 27>>, <<5, 36>>, <<11, 10>>, <<17, 15>>, <<23, 56>> >>,  \* bu ga ke mi so
     << <<2, 62>>, <<8, 55>>, <<14, 39>>, <<15, 41>>, <<21, 2>> >> >> \* bi go ku ma se

\* The tables as FIPS 202 computes them.  3.2.2: step t of the walk (x, y) -> (y, 2x + 3y) from (1, 0), and its offset.
Walk[t \in 0 .. 23] ==
  IF t = 0 THEN <<1, 0>>
  ELSE LET p == Walk[t - 1] IN <<p[2], (2 * p[1] + 3 * p[2]) % 5>>
Offset == [l \in 0 .. 24 |->
             IF l = 0 THEN 0
             ELSE LET t == CHOOSE n \in 0 .. 23 : Walk[n][1] + 5 * Walk[n][2] = l
                  IN (((t + 1) * (t + 2)) \div 2) % 64] @@ <<>>

\* 3.2.5: member t + 1 of Registers is x^t modulo x^8 + x^6 + x^5 + x^4 + 1, as the
\* set of its exponents; a round takes seven of the shift register's bits.
TimesX(r) == LET s == {e + 1 : e \in r} IN IF 8 \in s THEN s ++ {8, 6, 5, 4, 0} ELSE s
Registers == FoldLeft(LAMBDA known, t : Append(known, TimesX(known[t])), <<{0}>>,
                      [t \in 1 .. 167 |-> t])
RC == [i \in 0 .. 23 |-> {2^j - 1 : j \in {n \in 0 .. 6 : 0 \in Registers[n + 7 * i + 1]}}] @@ <<>>

\* The tables agree with those the standard computes: a lane is rotated by its own
\* offset and goes where pi puts it, and a round adds its own constant.
Source(l) == (((l % 5) + 3 * (l \div 5)) % 5) + 5 * (l % 5)
ASSUME TablesAssumption ==
  /\ \A l \in 0 .. 24 : /\ Offset[l] \in Bits64
                        /\ Rows[1 + (l \div 5)][1 + (l % 5)] = <<Source(l), Offset[Source(l)]>>
  /\ \A n \in 0 .. 23 : RC[n] \subseteq Bits64 /\ KeccakF_RoundConstants[n + 1] = RC[n]

\* BCa .. BCu, the parities of the columns, and Da .. Du.
prepareTheta(X) ==
  [x \in 0 .. 4 |-> X[x] ++ (X[5 + x] ++ (X[10 + x] ++ (X[15 + x] ++ X[20 + x])))]

\* Mutant: Da .. Du without the rotation.
addThetaAligned(X) ==
  LET BC == prepareTheta(X)
      D  == [x \in 0 .. 4 |-> BC[(x + 4) % 5] ++ BC[(x + 1) % 5]]
  IN [l \in 0 .. 24 |-> X[l] ++ D[l % 5]]

addTheta(X) ==
  LET BC == prepareTheta(X)
      D  == [x \in 0 .. 4 |-> BC[(x + 4) % 5] ++ ROL(BC[(x + 1) % 5], 1)]
  IN [l \in 0 .. 24 |-> X[l] ++ D[l % 5]]

\* The five rows of lanes to which theta is already added.
rhoPiChiIota(X, n) ==
  LET BC == [l \in 0 .. 24 |-> LET from == Rows[1 + (l \div 5)][1 + (l % 5)]
                               IN ROL(X[from[1]], from[2])]
      Row(l, k) == BC[5 * (l \div 5) + ((l + k) % 5)]
      Z  == [l \in 0 .. 24 |-> BC[l] ++ (Not(Row(l, 1)) \cap Row(l, 2))]
  IN [Z EXCEPT ![0] = @ ++ KeccakF_RoundConstants[n + 1]]

Init ==
  /\ state \in Inputs
  /\ A = [l \in 0 .. 24 |-> Garbage] /\ E = A
  /\ round = 0 /\ pc = "copyFromState"

copyFromState ==
  /\ pc = "copyFromState"
  /\ A' = state
  /\ pc' = "AtoE"
  /\ UNCHANGED <<state, E, round>>

FirstRound ==
  /\ pc = "AtoE" /\ round < NROUNDS
  /\ A' = addTheta(A) /\ E' = rhoPiChiIota(A', round)
  /\ pc' = "EtoA"
  /\ UNCHANGED <<state, round>>

\* Mutant: the constant of the first round again.
SecondRoundSameConstant ==
  /\ pc = "EtoA"
  /\ E' = addTheta(E) /\ A' = rhoPiChiIota(E', round)
  /\ round' = round + 2
  /\ pc' = "AtoE"
  /\ UNCHANGED state

SecondRound ==
  /\ pc = "EtoA"
  /\ E' = addTheta(E) /\ A' = rhoPiChiIota(E', round + 1)
  /\ round' = round + 2
  /\ pc' = "AtoE"
  /\ UNCHANGED state

copyToState ==
  /\ pc = "AtoE" /\ round = NROUNDS
  /\ state' = A
  /\ pc' = "done"
  /\ UNCHANGED <<A, E, round>>

Next == copyFromState \/ FirstRound \/ SecondRound \/ copyToState

Spec == Init /\ [][Next]_vars
----------------------------------------------------------------------------
\* The unrolled rounds, with rho, pi and the order of the lanes written out lane by
\* lane and all constants as numbers, are round by round those of FIPS 202.
Permutation == INSTANCE KeccakP
                 WITH lanes <- IF pc = "AtoE" THEN A ELSE IF pc = "EtoA" THEN E ELSE state,
                      ir    <- IF pc = "EtoA" THEN round + 1 ELSE round
ImplementsKeccakP == Permutation!Spec
============================================================================
