------------------------------ MODULE MCDrbg ------------------------------
(***************************************************************************)
(* The generator with bytes of two bits and blocks of two bytes, so that   *)
(* the carry and the wrap-around of V happen within a few calls.           *)
(***************************************************************************)
EXTENDS Drbg

\* A permutation of the blocks that depends on every byte of the key.
MCAes(k, b) ==
  LET number == 4 * b[0] + b[1]
      image  == (5 * number + 3 * k[0] + 7 * k[1] + k[2] + 11 * k[3] + 6) % 16
  IN [j \in 0 .. 1 |-> IF j = 0 THEN image \div 4 ELSE image % 4]

MCSeeds == {[j \in 0 .. 5 |-> 0], [j \in 0 .. 5 |-> (3 * j + 1) % 4], [j \in 0 .. 5 |-> 3]}
MCLengths == {1, 2, 5}
============================================================================
