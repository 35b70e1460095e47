--------------------------- MODULE LinearSystem ---------------------------
(***************************************************************************)
(* What Sign relies on when it calls sampleSolution (src/mayo/mayo.go):    *)
(* one answer, which is a solution of A x = y, or (nil, false) for an A    *)
(* that does not have rank m.  How the answer is found is not said.        *)
(***************************************************************************)
EXTENDS Integers

CONSTANTS F, Dot(_, _), m, ko

VARIABLES A, y, done, answer   \* answer: {x} for (x, true), {} for (nil, false)

vars == <<A, y, done, answer>>

Equations == 0 .. m - 1
Unknowns  == [0 .. ko - 1 -> F]

Solutions == {x \in Unknowns : \A i \in Equations : Dot(A[i], x) = y[i]}

\* A does not have rank m: some right-hand side is out of reach.
Deficient ==
  {[i \in Equations |-> Dot(A[i], x)] : x \in Unknowns} # [Equations -> F]

Init ==
  /\ A \in [Equations -> Unknowns] /\ y \in [Equations -> F]
  /\ done = FALSE /\ answer = {}

Answer ==
  /\ done = FALSE /\ done' = TRUE
  /\ \/ \E x \in Solutions : answer' = {x}
     \/ Deficient /\ answer' = {}
  /\ UNCHANGED <<A, y>>

Safety == Init /\ [][Answer]_vars

\* The solver returns.
Spec == Safety /\ WF_vars(Answer)
============================================================================
