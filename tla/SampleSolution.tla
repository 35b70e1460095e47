-------------------------- MODULE SampleSolution --------------------------
(***************************************************************************)
(* The linear solver of MAYO: sampleSolution and echelonForm of            *)
(* src/mayo/mayo.go.  Sign calls it once per attempt on the m x (k*o)      *)
(* system A x = y and the random vector R; it answers either (x, true) or  *)
(* (nil, false).                                                           *)
(*                                                                         *)
(* One action is one iteration of one of its loops.  The arithmetic of the *)
(* field is a parameter: the laws the algorithm needs are FieldAssumption  *)
(* and DotAssumption, which TLC evaluates for the tables of src/field.     *)
(***************************************************************************)
EXTENDS Integers

CONSTANTS
  F,               \* the field elements
  Xor(_, _),       \* addition, the ^ of the code
  Gf16Mul(_, _),   \* lookup in mulTable
  Gf16Inv(_),      \* lookup in invTable
  Dot(_, _),       \* VecInnerProduct of two vectors of ko entries
  m,               \* equations
  ko,              \* unknowns, k*o in the code
  Rands            \* the vectors R the callers may pass

Rows    == 0 .. m - 1
Cols    == 0 .. ko - 1
AugCols == 0 .. ko          \* the columns of (A y): y is column ko
Vec     == [Cols -> F]
AugVec  == [AugCols -> F]

ZeroVector == [c \in Cols |-> 0]
AddVec(u, v) == [c \in DOMAIN u |-> Xor(u[c], v[c])]
MultiplyVecConstant(s, u) == [c \in DOMAIN u |-> Gf16Mul(s, u[c])]
\* The coefficients of a row of (A y), without the right-hand side.
Left(b) == [c \in Cols |-> b[c]]

ASSUME SizeAssumption == m \in Nat \ {0} /\ ko \in Nat \ {0} /\ Rands \subseteq Vec

\* What the solver needs of GF(16); distributivity is hidden in DotAssumption.
ASSUME FieldAssumption ==
  /\ {0, 1} \subseteq F /\ 0 # 1
  /\ \A a \in F : /\ Xor(a, 0) = a /\ Xor(a, a) = 0
                  /\ Gf16Mul(a, 0) = 0 /\ Gf16Mul(a, 1) = a
                  /\ Gf16Inv(a) \in F
                  /\ a # 0 => Gf16Mul(Gf16Inv(a), a) = 1
  /\ \A a, b \in F : /\ Xor(a, b) \in F /\ Xor(a, b) = Xor(b, a)
                     /\ Gf16Mul(a, b) \in F /\ Gf16Mul(a, b) = Gf16Mul(b, a)
  /\ \A a, b, c \in F : /\ Xor(a, Xor(b, c)) = Xor(Xor(a, b), c)
                        /\ Gf16Mul(a, Gf16Mul(b, c)) = Gf16Mul(Gf16Mul(a, b), c)

\* The inner product is bilinear, and moves by u[c]*d when w[c] moves by d.
ASSUME DotAssumption ==
  /\ \A u, w \in Vec : Dot(u, w) \in F
  /\ \A u, v, w \in Vec : /\ Dot(AddVec(u, v), w) = Xor(Dot(u, w), Dot(v, w))
                          /\ Dot(u, AddVec(v, w)) = Xor(Dot(u, v), Dot(u, w))
  /\ \A u, w \in Vec, s \in F :
       /\ Dot(MultiplyVecConstant(s, u), w) = Gf16Mul(s, Dot(u, w))
       /\ \A c \in Cols : Dot(u, [w EXCEPT ![c] = Xor(w[c], s)])
                            = Xor(Dot(u, w), Gf16Mul(u[c], s))

VARIABLES
  A, y, R,                  \* the arguments
  B,                        \* AyMatrix
  pivotRow, pivotColumn,    \* the cursor of echelonForm
  xVec, z,                  \* x, the solution under construction, and the local y
  r,                        \* the row back-substitution is at
  pc, hasSolution

args == <<A, y, R>>
vars == <<A, y, R, B, pivotRow, pivotColumn, xVec, z, r, pc, hasSolution>>
----------------------------------------------------------------------------
MatrixVectorMul(M, v) == [i \in Rows |-> Dot(M[i], v)]

appendVecToMatrix(M, b) ==
  [i \in Rows |-> [c \in AugCols |-> IF c < ko THEN M[i][c] ELSE b[i]]]

\* Mutant: x starts at R, and the right-hand side is not moved by A R.
RandomizedNotMoved == appendVecToMatrix(A, y)

\* x starts as a copy of R, and the system is moved by A R.
Randomized == appendVecToMatrix(A, AddVec(y, MatrixVectorMul(A, R)))

Init ==
  /\ A \in [Rows -> Vec] /\ y \in [Rows -> F] /\ R \in Rands
  /\ B = Randomized
  /\ xVec = R
  /\ z = [i \in Rows |-> 0]
  /\ pivotRow = 0 /\ pivotColumn = 0
  /\ r = m - 1
  /\ pc = "echelon" /\ hasSolution = FALSE
----------------------------------------------------------------------------
(* echelonForm *)

Scanning == pc = "echelon" /\ pivotRow < m /\ pivotColumn < ko + 1

PossiblePivots == {i \in pivotRow .. m - 1 : B[i][pivotColumn] # 0}

\* Mutant: the swap loses row i.
SwapRowsLosing(M, i, j) == [M EXCEPT ![i] = M[j]]

SwapRows(M, i, j) == [M EXCEPT ![i] = M[j], ![j] = M[i]]

\* Mutant: the row under nextPivotRow is left out of the elimination.
EliminateTooLow(nextPivotRow) ==
  LET S    == SwapRows(B, pivotRow, nextPivotRow)
      lead == MultiplyVecConstant(Gf16Inv(S[pivotRow][pivotColumn]), S[pivotRow])
  IN [row \in Rows |->
        CASE row = pivotRow         -> lead
          [] row > nextPivotRow + 1 ->
               AddVec(S[row], MultiplyVecConstant(S[row][pivotColumn], lead))
          [] OTHER -> S[row]]

\* The swap, the leading 1, and the elimination of the rows below nextPivotRow.
Eliminate(nextPivotRow) ==
  LET S    == SwapRows(B, pivotRow, nextPivotRow)
      lead == MultiplyVecConstant(Gf16Inv(S[pivotRow][pivotColumn]), S[pivotRow])
  IN [row \in Rows |->
        CASE row = pivotRow     -> lead
          [] row > nextPivotRow ->
               AddVec(S[row], MultiplyVecConstant(S[row][pivotColumn], lead))
          [] OTHER -> S[row]]

NextColumn ==
  /\ Scanning
  /\ PossiblePivots = {}
  /\ pivotColumn' = pivotColumn + 1
  /\ UNCHANGED <<args, B, pivotRow, xVec, z, r, pc, hasSolution>>

\* Mutant: the cursor moves on twice, in the body and in a loop header.
PivotTwice ==
  /\ Scanning
  /\ \E p \in PossiblePivots :
       /\ \A q \in PossiblePivots : p <= q
       /\ B' = Eliminate(p)
  /\ pivotRow' = pivotRow + 2
  /\ pivotColumn' = pivotColumn + 1
  /\ UNCHANGED <<args, xVec, z, r, pc, hasSolution>>

Pivot ==
  /\ Scanning
  /\ \E p \in PossiblePivots :
       /\ \A q \in PossiblePivots : p <= q
       /\ B' = Eliminate(p)
  /\ pivotRow' = pivotRow + 1
  /\ pivotColumn' = pivotColumn + 1
  /\ UNCHANGED <<args, xVec, z, r, pc, hasSolution>>
----------------------------------------------------------------------------
(* The rest of sampleSolution *)

EchelonDone == pc = "echelon" /\ ~(pivotRow < m /\ pivotColumn < ko + 1)

\* Mutant: the last row of (A y) is compared, with its right-hand side.
RankDeficientWithY == \A c \in AugCols : B[m - 1][c] = 0

\* bytes.Equal(A[mayo.m-1], zeroVector)
RankDeficient == Left(B[m - 1]) = ZeroVector

GiveUp ==
  /\ EchelonDone
  /\ RankDeficient
  /\ z' = [i \in Rows |-> B[i][ko]]
  /\ pc' = "done"
  /\ UNCHANGED <<args, B, pivotRow, pivotColumn, xVec, r, hasSolution>>

StartBackSubstitution ==
  /\ EchelonDone
  /\ ~RankDeficient
  /\ z' = [i \in Rows |-> B[i][ko]]
  /\ pc' = "backsub"
  /\ UNCHANGED <<args, B, pivotRow, pivotColumn, xVec, r, hasSolution>>

\* Mutant: c is the last non-zero entry.
IsLeadLast(i, c) == B[i][c] # 0 /\ \A d \in Cols : d > c => B[i][d] = 0

\* c is the index of the first non-zero entry of row i.
IsLead(i, c) == B[i][c] # 0 /\ \A d \in Cols : d < c => B[i][d] = 0

\* Mutant: the loop runs upwards from the last row, and y[r] is 0 too early.
SubtractColumnUpwards(c) ==
  LET zr == Xor(z[r], Gf16Mul(z[r], B[r][c]))
  IN [i \in Rows |-> Xor(z[i], Gf16Mul(IF i >= r THEN z[r] ELSE zr, B[i][c]))]

\* The loop over y reads y[r] again after it has overwritten y[r] itself.
SubtractColumn(c) ==
  LET zr == Xor(z[r], Gf16Mul(z[r], B[r][c]))
  IN [i \in Rows |-> Xor(z[i], Gf16Mul(IF i <= r THEN z[r] ELSE zr, B[i][c]))]

\* A row without a non-zero entry is left alone; otherwise it has one lead.
BackSubstitute ==
  /\ pc = "backsub" /\ r >= 0
  /\ LET leads == {c \in Cols : IsLead(r, c)}
     IN /\ xVec' = [c \in Cols |-> IF c \in leads THEN Xor(xVec[c], z[r]) ELSE xVec[c]]
        /\ z' = IF leads = {} THEN z ELSE SubtractColumn(CHOOSE c \in leads : TRUE)
  /\ r' = r - 1
  /\ UNCHANGED <<args, B, pivotRow, pivotColumn, pc, hasSolution>>

Return ==
  /\ pc = "backsub" /\ r < 0
  /\ pc' = "done" /\ hasSolution' = TRUE
  /\ UNCHANGED <<args, B, pivotRow, pivotColumn, xVec, z, r>>

Next == NextColumn \/ Pivot \/ GiveUp \/ StartBackSubstitution \/ BackSubstitute \/ Return

\* Nothing in the two functions waits: the call runs until it returns.
Spec == Init /\ [][Next]_vars /\ WF_vars(Next)
----------------------------------------------------------------------------
(* Properties *)

\* The cursors stay inside (A y), and every entry is an element of the field.
TypeOK ==
  /\ A \in [Rows -> Vec] /\ y \in [Rows -> F] /\ R \in Vec
  /\ B \in [Rows -> AugVec]
  /\ pivotRow \in 0 .. m /\ pivotColumn \in 0 .. ko + 1
  /\ xVec \in Vec /\ z \in [Rows -> F]
  /\ r \in -1 .. m - 1
  /\ pc \in {"echelon", "backsub", "done"}
  /\ hasSolution \in BOOLEAN

\* The staircase.  Below the cursor everything to its left is zero; every row
\* above it has a leading 1 with zeros to its left, below it and below-left.
\* echelonForm eliminates only under nextPivotRow, and this is why it may.
EchelonShape ==
  /\ \A i \in Rows, c \in AugCols :
       i >= pivotRow /\ c < pivotColumn => B[i][c] = 0
  /\ \A i \in Rows : i < pivotRow =>
       \E c \in AugCols :
         /\ c < pivotColumn /\ B[i][c] = 1
         /\ \A j \in Rows, d \in AugCols :
              j >= i /\ d <= c /\ <<j, d>> # <<i, c>> => B[j][d] = 0

\* w satisfies the equations of the augmented matrix.
SolvesAug(M, w) == \A i \in Rows : Dot(Left(M[i]), w) = M[i][ko]

\* No step of echelonForm gains or loses a solution: w solves the current
\* (A y) exactly when R + w solves the system the caller passed.
SolutionsPreserved ==
  \A w \in Vec : SolvesAug(B, w) <=> MatrixVectorMul(A, AddVec(R, w)) = y

\* While back-substitution runs, z is what is still missing from every equation
\* for the x built so far, and nothing is missing from the rows already done.
ResidualTracked ==
  pc = "backsub" \/ hasSolution =>
    \A i \in Rows :
      /\ z[i] = Xor(B[i][ko], Dot(Left(B[i]), AddVec(xVec, R)))
      /\ i > r => z[i] = 0

\* sampleSolution returns (x, true) only for an x with A x = y.
SolutionCorrect == pc = "done" /\ hasSolution => MatrixVectorMul(A, xVec) = y

\* A has rank m: every right-hand side is reached.
Onto(M) == {[i \in Rows |-> Dot(M[i], w)] : w \in Vec} = [Rows -> F]

\* "Check if A has rank m": the answer is (nil, false) exactly for the systems
\* of lower rank, although the pivots were searched in the column of y as well.
RankCheckExact == pc = "done" => (hasSolution <=> Onto(A))

\* The call implements the promise of LinearSystem, with its termination.
Promise == INSTANCE LinearSystem
             WITH done   <- pc = "done",
                  answer <- IF pc = "done" /\ hasSolution THEN {xVec} ELSE {}
ImplementsPromise == Promise!Spec
============================================================================
