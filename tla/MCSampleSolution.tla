------------------------- MODULE MCSampleSolution -------------------------
(***************************************************************************)
(* The solver on the field tables of GF16, over the subfield GF(4) of      *)
(* GF(16): every operation is the real one, and the small set of entries   *)
(* is closed under it.  The systems are all 3 x 3 ones with the entries 0  *)
(* and 1, with one right-hand side of each weight, and those with two      *)
(* unknowns over all of GF(4) and a third one below them, whose leading    *)
(* entries have to be inverted.                                            *)
(***************************************************************************)
EXTENDS SampleSolution, GF16

GF2 == {0, 1}
GF4 == {0, 1, 6, 7}

MCXor(a, b) == GfXor(a, b)
MCMul(a, b) == GfMul(a, b)
MCInv(a)    == GfInv(a)
MCDot(u, w) == VecInnerProduct(u, w)

\* One random vector, with a zero and entries other than 1.
OneVector == {[c \in 0 .. ko - 1 |-> IF c = 1 THEN 0 ELSE 6 + c \div 2]}

BitSystem ==
  /\ A \in [Rows -> [Cols -> GF2]]
  /\ y \in {b \in [Rows -> GF2] : \A i, j \in Rows : i <= j => b[i] <= b[j]}

WideSystem ==
  /\ \E a, b, c, d \in GF4 :
       LET rows == <<<<a, b, 1>>, <<c, d, 6>>, <<0, 0, 7>>>>
       IN A = [i \in Rows |-> [j \in Cols |-> rows[i + 1][j + 1]]]
  /\ \E e, f \in {0, 6} : y = [i \in Rows |-> IF i = 0 THEN e ELSE IF i = 1 THEN f ELSE 1]

MCInit == (BitSystem \/ WideSystem) /\ Init
MCSpec == MCInit /\ [][Next]_vars /\ WF_vars(Next)
============================================================================
