------------------------------ MODULE KeccakP ------------------------------
(***************************************************************************)
(* The permutation KECCAK-p[1600, 24] of FIPS 202, section 3, what         *)
(* KeccakF1600_StatePermute of src/rand/fips202.c promises.  Lane (x, y)   *)
(* has index x + 5y and is the set of the z at which the state has a one.  *)
(* One action is one round.                                                *)
(***************************************************************************)
EXTENDS Words

CONSTANTS
  Inputs,       \* the states to permute
  Offset, RC    \* how far rho rotates the lanes, and what iota adds: see Keccak
VARIABLES lanes, ir
vars == <<lanes, ir>>

Lane(A, x, y) == A[(x % 5) + 5 * (y % 5)]

\* 3.2.1: a column is added to its two neighbours, one of them a bit later.
Theta(A) ==
  LET C == [x \in 0 .. 4 |-> Lane(A, x, 0) ++ (Lane(A, x, 1) ++ (Lane(A, x, 2)
                               ++ (Lane(A, x, 3) ++ Lane(A, x, 4))))]
  IN [l \in 0 .. 24 |->
        A[l] ++ (C[(l + 4) % 5] ++ {(z + 1) % 64 : z \in C[(l + 1) % 5]})]

\* 3.2.2
Rho(A) == [l \in 0 .. 24 |-> {(z + Offset[l]) % 64 : z \in A[l]}]

\* 3.2.3 and 3.2.4
Pi(A) == [l \in 0 .. 24 |-> Lane(A, (l % 5) + 3 * (l \div 5), l % 5)]
Chi(A) ==
  [l \in 0 .. 24 |->
     A[l] ++ (Lane(A, (l % 5) + 2, l \div 5) \ Lane(A, (l % 5) + 1, l \div 5))]

\* With 3.2.5 at the end.
Rnd(A, i) == LET mixed == Chi(Pi(Rho(Theta(A)))) IN [mixed EXCEPT ![0] = @ ++ RC[i]]

Init == lanes \in Inputs /\ ir = 0

Round == ir < 24 /\ lanes' = Rnd(lanes, ir) /\ ir' = ir + 1

Spec == Init /\ [][Round]_vars
============================================================================
