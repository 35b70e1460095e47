----------------------- MODULE SampleSolutionProofs -----------------------
(***************************************************************************)
(* Proofs about the linear solver of src/mayo/mayo.go, for every number of *)
(* equations and unknowns and every field with the laws of FieldAssumption *)
(* and DotAssumption.                                                      *)
(*                                                                         *)
(* The inductive invariant IndInv is the conjunction of the properties and *)
(* of Control, which says what the program counter implies; RankInv is     *)
(* inductive relative to it.                                               *)
(***************************************************************************)
EXTENDS SampleSolution, SliceProofs

----------------------------------------------------------------------------
(* The field *)

\* Addition is its own inverse: src/field adds and subtracts with one ^.
LEMMA XorCancel ==
  ASSUME NEW a \in F, NEW b \in F
  PROVE  /\ Xor(a, Xor(a, b)) = b
         /\ Xor(0, a) = a
         /\ Xor(a, b) = 0 => a = b
<1>1. Xor(a, Xor(a, b)) = Xor(Xor(a, a), b) BY FieldAssumption
<1>2. Xor(0, a) = a /\ Xor(0, b) = b BY FieldAssumption
<1>3. Xor(a, Xor(a, b)) = b BY <1>1, <1>2, FieldAssumption
<1>4. Xor(a, b) = 0 => a = b BY <1>3, FieldAssumption
<1> QED BY <1>2, <1>3, <1>4

\* Moving a term to the other side of an equation.
LEMMA XorMove ==
  ASSUME NEW a \in F, NEW b \in F, NEW c \in F
  PROVE  /\ Xor(a, b) = c <=> a = Xor(c, b)
         /\ Xor(a, b) = Xor(c, b) <=> a = c
<1>1. Xor(Xor(a, b), b) = a /\ Xor(Xor(c, b), b) = c
  <2>1. Xor(Xor(a, b), b) = Xor(a, Xor(b, b)) BY FieldAssumption
  <2>2. Xor(Xor(c, b), b) = Xor(c, Xor(b, b)) BY FieldAssumption
  <2> QED BY <2>1, <2>2, FieldAssumption
<1> QED BY <1>1

LEMMA XorClosed ==
  ASSUME NEW a \in F, NEW b \in F
  PROVE  Xor(a, b) \in F
BY FieldAssumption

LEMMA XorAssoc ==
  ASSUME NEW a \in F, NEW b \in F, NEW c \in F
  PROVE  Xor(Xor(a, b), c) = Xor(a, Xor(b, c))
BY FieldAssumption

LEMMA XorSwap ==
  ASSUME NEW a \in F, NEW b \in F, NEW c \in F
  PROVE  Xor(Xor(a, c), b) = Xor(Xor(a, b), c)
<1>1. Xor(Xor(a, c), b) = Xor(a, Xor(c, b)) BY FieldAssumption
<1>2. Xor(Xor(a, b), c) = Xor(a, Xor(b, c)) BY FieldAssumption
<1> QED BY <1>1, <1>2, FieldAssumption

\* The lookup in invTable inverts every non-zero pivot to a non-zero factor.
LEMMA InvNonZero ==
  ASSUME NEW a \in F, a # 0
  PROVE  Gf16Inv(a) \in F /\ Gf16Inv(a) # 0 /\ Gf16Mul(Gf16Inv(a), a) = 1
<1>1. Gf16Inv(a) \in F /\ Gf16Mul(Gf16Inv(a), a) = 1 BY FieldAssumption
<1>2. ASSUME Gf16Inv(a) = 0 PROVE FALSE
  <2>1. Gf16Mul(a, 0) = 0 BY FieldAssumption
  <2>2. 0 \in F BY FieldAssumption
  <2>3. Gf16Mul(0, a) = Gf16Mul(a, 0) BY <2>2, FieldAssumption
  <2> QED BY <1>1, <1>2, <2>1, <2>3, FieldAssumption
<1> QED BY <1>1, <1>2

\* Scaling by a non-zero factor loses nothing.
LEMMA MulCancel ==
  ASSUME NEW s \in F, s # 0, NEW a \in F, NEW b \in F,
         Gf16Mul(s, a) = Gf16Mul(s, b)
  PROVE  a = b
<1> DEFINE i == Gf16Inv(s)
<1>1. i \in F /\ Gf16Mul(i, s) = 1 BY InvNonZero
<1>2. Gf16Mul(i, Gf16Mul(s, a)) = Gf16Mul(Gf16Mul(i, s), a) BY <1>1, FieldAssumption
<1>3. Gf16Mul(i, Gf16Mul(s, b)) = Gf16Mul(Gf16Mul(i, s), b) BY <1>1, FieldAssumption
<1>4. Gf16Mul(1, a) = a /\ Gf16Mul(1, b) = b
  <2>1. 1 \in F BY FieldAssumption
  <2>2. Gf16Mul(1, a) = Gf16Mul(a, 1) /\ Gf16Mul(1, b) = Gf16Mul(b, 1) BY <2>1, FieldAssumption
  <2> QED BY <2>2, FieldAssumption
<1> HIDE DEF i
<1> QED BY <1>1, <1>2, <1>3, <1>4

LEMMA Zero ==
  /\ 0 \in F /\ 1 \in F /\ 0 # 1
  /\ \A a \in F : Gf16Mul(a, 0) = 0 /\ Gf16Mul(0, a) = 0 /\ Gf16Mul(a, 1) = a
  /\ \A a \in F : Xor(a, a) = 0 /\ Xor(a, 0) = a /\ Xor(0, a) = a
<1>1. 0 \in F /\ 1 \in F /\ 0 # 1 BY FieldAssumption
<1>2. ASSUME NEW a \in F PROVE Gf16Mul(a, 0) = 0 /\ Gf16Mul(0, a) = 0 /\ Gf16Mul(a, 1) = a
  <2>1. Gf16Mul(a, 0) = 0 /\ Gf16Mul(a, 1) = a BY FieldAssumption
  <2>2. Gf16Mul(0, a) = Gf16Mul(a, 0) BY <1>1, FieldAssumption
  <2> QED BY <2>1, <2>2
<1>3. ASSUME NEW a \in F PROVE Xor(a, a) = 0 /\ Xor(a, 0) = a /\ Xor(0, a) = a
  <2>1. Xor(a, a) = 0 /\ Xor(a, 0) = a BY FieldAssumption
  <2>2. Xor(0, a) = Xor(a, 0) BY <1>1, FieldAssumption
  <2> QED BY <2>1, <2>2
<1> QED BY <1>1, <1>2, <1>3
----------------------------------------------------------------------------
(* Row operations *)

Holds(b, w) == Dot(Left(b), w) = b[ko]

LEMMA ColumnSets == Cols \subseteq AugCols /\ ko \in AugCols /\ ko \notin Cols
BY SizeAssumption DEF Cols, AugCols

LEMMA RowTypes ==
  ASSUME NEW a \in AugVec, NEW b \in AugVec, NEW s \in F
  PROVE  /\ Left(a) \in Vec
         /\ AddVec(a, b) \in AugVec /\ MultiplyVecConstant(s, a) \in AugVec
         /\ Left(AddVec(a, b)) = AddVec(Left(a), Left(b))
         /\ Left(MultiplyVecConstant(s, a)) = MultiplyVecConstant(s, Left(a))
<1>1. \A c \in AugCols : a[c] \in F /\ b[c] \in F /\ Xor(a[c], b[c]) \in F /\ Gf16Mul(s, a[c]) \in F
  BY FieldAssumption DEF AugVec
<1>2. Left(a) \in Vec BY <1>1, ColumnSets DEF Left, Vec
<1>3. DOMAIN a = AugCols /\ DOMAIN Left(a) = Cols BY DEF AugVec, Left
<1>4. AddVec(a, b) \in AugVec /\ MultiplyVecConstant(s, a) \in AugVec
  <2>1. AddVec(a, b) = [c \in AugCols |-> Xor(a[c], b[c])] BY <1>3 DEF AddVec
  <2>2. MultiplyVecConstant(s, a) = [c \in AugCols |-> Gf16Mul(s, a[c])]
    BY <1>3 DEF MultiplyVecConstant
  <2> QED BY <1>1, <2>1, <2>2 DEF AugVec
<1>5. Left(AddVec(a, b)) = AddVec(Left(a), Left(b))
  BY <1>3, ColumnSets DEF AddVec, Left
<1>6. Left(MultiplyVecConstant(s, a)) = MultiplyVecConstant(s, Left(a))
  BY <1>3, ColumnSets DEF MultiplyVecConstant, Left
<1> QED BY <1>2, <1>4, <1>5, <1>6

LEMMA ScaledRow ==
  ASSUME NEW b \in AugVec, NEW s \in F, NEW w \in Vec
  PROVE  /\ Dot(Left(MultiplyVecConstant(s, b)), w) = Gf16Mul(s, Dot(Left(b), w))
         /\ MultiplyVecConstant(s, b)[ko] = Gf16Mul(s, b[ko])
<1>1. Left(b) \in Vec /\ Left(MultiplyVecConstant(s, b)) = MultiplyVecConstant(s, Left(b))
  BY RowTypes
<1>2. Dot(MultiplyVecConstant(s, Left(b)), w) = Gf16Mul(s, Dot(Left(b), w))
  BY <1>1, DotAssumption
<1>3. MultiplyVecConstant(s, b)[ko] = Gf16Mul(s, b[ko])
  BY ColumnSets DEF MultiplyVecConstant, AugVec
<1> QED BY <1>1, <1>2, <1>3

\* Scaling a row by a non-zero factor keeps its solutions.
LEMMA ScaleHolds ==
  ASSUME NEW b \in AugVec, NEW s \in F, s # 0, NEW w \in Vec
  PROVE  Holds(MultiplyVecConstant(s, b), w) <=> Holds(b, w)
<1>1. /\ Dot(Left(MultiplyVecConstant(s, b)), w) = Gf16Mul(s, Dot(Left(b), w))
      /\ MultiplyVecConstant(s, b)[ko] = Gf16Mul(s, b[ko])
  BY ScaledRow
<1>3. Dot(Left(b), w) \in F /\ b[ko] \in F
  <2>1. Left(b) \in Vec BY RowTypes, Zero
  <2> QED BY <2>1, DotAssumption, ColumnSets DEF AugVec
<1>4. Gf16Mul(s, Dot(Left(b), w)) = Gf16Mul(s, b[ko]) => Dot(Left(b), w) = b[ko]
  BY <1>3, MulCancel
<1> QED BY <1>1, <1>4 DEF Holds

\* Any multiple of an equation that holds is an equation that holds.
LEMMA ScaleKeeps ==
  ASSUME NEW b \in AugVec, NEW s \in F, NEW w \in Vec, Holds(b, w)
  PROVE  Holds(MultiplyVecConstant(s, b), w)
<1>1. /\ Dot(Left(MultiplyVecConstant(s, b)), w) = Gf16Mul(s, Dot(Left(b), w))
      /\ MultiplyVecConstant(s, b)[ko] = Gf16Mul(s, b[ko])
  BY ScaledRow
<1> QED BY <1>1 DEF Holds

\* Adding an equation that holds to another changes nothing about the other.
LEMMA AddHolds ==
  ASSUME NEW a \in AugVec, NEW b \in AugVec, NEW w \in Vec, Holds(b, w)
  PROVE  Holds(AddVec(a, b), w) <=> Holds(a, w)
<1>0. /\ Left(a) \in Vec /\ Left(b) \in Vec
      /\ Left(AddVec(a, b)) = AddVec(Left(a), Left(b))
  BY RowTypes, Zero
<1>1. Dot(Left(AddVec(a, b)), w) = Xor(Dot(Left(a), w), Dot(Left(b), w))
  BY <1>0, DotAssumption
<1>2. AddVec(a, b)[ko] = Xor(a[ko], b[ko])
  BY ColumnSets DEF AddVec, AugVec
<1>3. Dot(Left(a), w) \in F /\ Dot(Left(b), w) \in F /\ a[ko] \in F /\ b[ko] \in F
  BY <1>0, DotAssumption, ColumnSets DEF AugVec
<1>4. Xor(Dot(Left(a), w), b[ko]) = Xor(a[ko], b[ko]) <=> Dot(Left(a), w) = a[ko]
  BY <1>3, XorMove
<1> QED BY <1>1, <1>2, <1>4 DEF Holds
----------------------------------------------------------------------------
(* The elimination step *)

\* A pivot as Pivot takes it, of a matrix of the right type.
LegalPivot(p) ==
  /\ B \in [Rows -> AugVec]
  /\ pivotRow \in 0 .. m - 1 /\ pivotColumn \in 0 .. ko
  /\ p \in PossiblePivots
  /\ \A q \in PossiblePivots : p <= q

Swapped(p) == SwapRows(B, pivotRow, p)
Lead(p)    == MultiplyVecConstant(Gf16Inv(Swapped(p)[pivotRow][pivotColumn]), Swapped(p)[pivotRow])
Cleared(p, row) == AddVec(Swapped(p)[row], MultiplyVecConstant(Swapped(p)[row][pivotColumn], Lead(p)))

LEMMA SwappedRows ==
  ASSUME NEW p, LegalPivot(p)
  PROVE  /\ p \in Rows /\ pivotRow \in Rows /\ pivotRow <= p /\ pivotColumn \in AugCols
         /\ Swapped(p) \in [Rows -> AugVec]
         /\ Swapped(p)[pivotRow] = B[p]
         /\ p # pivotRow => Swapped(p)[p] = B[pivotRow]
         /\ \A i \in Rows \ {p, pivotRow} : Swapped(p)[i] = B[i]
         /\ B[p][pivotColumn] \in F /\ B[p][pivotColumn] # 0
<1>1. p \in Rows /\ pivotRow \in Rows /\ pivotRow <= p /\ pivotColumn \in AugCols
  BY SizeAssumption DEF LegalPivot, PossiblePivots, Rows, AugCols
<1>2. B \in [Rows -> AugVec] BY DEF LegalPivot
<1>3. Swapped(p) = [i \in Rows |-> IF i = p THEN B[pivotRow] ELSE IF i = pivotRow THEN B[p] ELSE B[i]]
  BY <1>1, <1>2 DEF Swapped, SwapRows
<1>4. B[p][pivotColumn] \in F /\ B[p][pivotColumn] # 0
  BY <1>1, <1>2 DEF LegalPivot, PossiblePivots, AugVec
<1> QED BY <1>1, <1>2, <1>3, <1>4

LEMMA LeadRow ==
  ASSUME NEW p, LegalPivot(p)
  PROVE  /\ Lead(p) \in AugVec
         /\ Lead(p)[pivotColumn] = 1
         /\ \A c \in AugCols : B[p][c] = 0 => Lead(p)[c] = 0
         /\ \A w \in Vec : Holds(Lead(p), w) <=> Holds(B[p], w)
<1> DEFINE s == Gf16Inv(B[p][pivotColumn])
<1>1. /\ p \in Rows /\ pivotColumn \in AugCols /\ B[p] \in AugVec
      /\ Lead(p) = MultiplyVecConstant(s, B[p])
  BY SwappedRows DEF Lead, LegalPivot
<1>2. s \in F /\ s # 0 /\ Gf16Mul(s, B[p][pivotColumn]) = 1 BY SwappedRows, InvNonZero
<1> HIDE DEF s
<1>3. Lead(p) \in AugVec BY <1>1, <1>2, RowTypes
<1>4. \A c \in AugCols : Lead(p)[c] = Gf16Mul(s, B[p][c])
  BY <1>1 DEF MultiplyVecConstant, AugVec
<1>5. \A w \in Vec : Holds(Lead(p), w) <=> Holds(B[p], w)
  BY <1>1, <1>2, ScaleHolds
<1>6. \A c \in AugCols : B[p][c] = 0 => Lead(p)[c] = 0 BY <1>2, <1>4, Zero
<1> QED BY <1>1, <1>2, <1>3, <1>4, <1>5, <1>6

LEMMA ClearedRow ==
  ASSUME NEW p, LegalPivot(p), NEW row \in Rows
  PROVE  /\ Cleared(p, row) \in AugVec
         /\ Cleared(p, row)[pivotColumn] = 0
         /\ \A c \in AugCols : B[p][c] = 0 => Cleared(p, row)[c] = Swapped(p)[row][c]
         /\ \A w \in Vec : Holds(Lead(p), w) => (Holds(Cleared(p, row), w) <=> Holds(Swapped(p)[row], w))
<1> DEFINE b == Swapped(p)[row]
           s == b[pivotColumn]
           l == MultiplyVecConstant(s, Lead(p))
<1>1. b \in AugVec /\ pivotColumn \in AugCols BY SwappedRows
<1>2. s \in F /\ Lead(p) \in AugVec /\ Lead(p)[pivotColumn] = 1 BY <1>1, LeadRow DEF AugVec
<1>3. Cleared(p, row) = AddVec(b, l) BY DEF Cleared
<1> HIDE DEF b
<1>4. l \in AugVec BY <1>2, RowTypes
<1>5. \A c \in AugCols : l[c] = Gf16Mul(s, Lead(p)[c]) BY <1>2 DEF MultiplyVecConstant, AugVec
<1>6. \A w \in Vec : Holds(Lead(p), w) => Holds(l, w) BY <1>2, ScaleKeeps
<1> HIDE DEF l
<1>7. Cleared(p, row) \in AugVec BY <1>1, <1>2, <1>3, <1>4, RowTypes
<1>8. \A c \in AugCols : Cleared(p, row)[c] = Xor(b[c], l[c])
  BY <1>1, <1>3 DEF AddVec, AugVec
<1>9. Cleared(p, row)[pivotColumn] = 0
  <2>1. l[pivotColumn] = Gf16Mul(s, 1) BY <1>1, <1>2, <1>5
  <2>2. Gf16Mul(s, 1) = s BY <1>2, Zero
  <2> QED BY <1>1, <1>2, <1>8, <2>1, <2>2, Zero
<1>10. ASSUME NEW c \in AugCols, B[p][c] = 0 PROVE Cleared(p, row)[c] = b[c]
  <2>1. Lead(p)[c] = 0 BY <1>10, LeadRow
  <2>2. l[c] = 0 BY <1>2, <1>5, <2>1, Zero
  <2>3. b[c] \in F BY <1>1 DEF AugVec
  <2> QED BY <1>8, <2>2, <2>3, Zero
<1>11. ASSUME NEW w \in Vec, Holds(Lead(p), w) PROVE Holds(Cleared(p, row), w) <=> Holds(b, w)
  BY <1>1, <1>3, <1>4, <1>6, <1>11, AddHolds
<1> QED BY <1>7, <1>9, <1>10, <1>11 DEF b

LEMMA EliminatedRows ==
  ASSUME NEW p, LegalPivot(p)
  PROVE  /\ Eliminate(p) \in [Rows -> AugVec]
         /\ Eliminate(p)[pivotRow] = Lead(p)
         /\ \A row \in Rows : row > p /\ row # pivotRow => Eliminate(p)[row] = Cleared(p, row)
         /\ \A row \in Rows : row <= p /\ row # pivotRow => Eliminate(p)[row] = Swapped(p)[row]
<1>1. Eliminate(p) =
        [row \in Rows |-> CASE row = pivotRow -> Lead(p)
                            [] row > p        -> Cleared(p, row)
                            [] OTHER          -> Swapped(p)[row]]
  BY DEF Eliminate, Lead, Cleared, Swapped
<1>2. p \in Int /\ pivotRow \in Rows /\ pivotRow <= p /\ \A row \in Rows : row \in Int
  BY SwappedRows, SizeAssumption DEF Rows
<1>3. Lead(p) \in AugVec BY LeadRow
<1>4. \A row \in Rows : Cleared(p, row) \in AugVec BY ClearedRow
<1>5. \A row \in Rows : Swapped(p)[row] \in AugVec BY SwappedRows
<1>6. \A row \in Rows : Eliminate(p)[row] =
         IF row = pivotRow THEN Lead(p) ELSE IF row > p THEN Cleared(p, row) ELSE Swapped(p)[row]
  BY <1>1, <1>2
<1>7. Eliminate(p) = [row \in Rows |-> Eliminate(p)[row]] BY <1>1
<1>8. \A row \in Rows : Eliminate(p)[row] \in AugVec BY <1>3, <1>4, <1>5, <1>6
<1>9. Eliminate(p) \in [Rows -> AugVec] BY <1>7, <1>8
<1> QED BY <1>2, <1>6, <1>9

\* One pass of the outer loop of echelonForm keeps the set of solutions.
LEMMA EliminateSolutions ==
  ASSUME NEW p, LegalPivot(p), NEW w \in Vec
  PROVE  SolvesAug(Eliminate(p), w) <=> SolvesAug(B, w)
<1> DEFINE E == Eliminate(p)
<1>1. \A i \in Rows : i \in Int BY SizeAssumption DEF Rows
<1>2. p \in Rows /\ pivotRow \in Rows /\ pivotRow <= p BY SwappedRows
<1>3. Holds(Lead(p), w) <=> Holds(B[p], w) BY LeadRow
<1>4. ASSUME \A i \in Rows : Holds(B[i], w) PROVE \A i \in Rows : Holds(E[i], w)
  <2> SUFFICES ASSUME NEW i \in Rows PROVE Holds(E[i], w)
    OBVIOUS
  <2>1. Holds(Swapped(p)[i], w) BY <1>2, <1>4, SwappedRows
  <2>2. CASE i = pivotRow BY <1>2, <1>3, <1>4, <2>2, EliminatedRows
  <2>3. CASE i # pivotRow /\ i > p BY <1>2, <1>3, <1>4, <2>1, <2>3, ClearedRow, EliminatedRows
  <2>4. CASE i # pivotRow /\ i <= p BY <2>1, <2>4, EliminatedRows
  <2> QED BY <1>1, <1>2, <2>2, <2>3, <2>4
<1>5. ASSUME \A i \in Rows : Holds(E[i], w) PROVE \A i \in Rows : Holds(B[i], w)
  <2>1. Holds(Lead(p), w) /\ Holds(B[p], w) BY <1>2, <1>3, <1>5, EliminatedRows
  <2>2. ASSUME NEW i \in Rows, i # pivotRow PROVE Holds(Swapped(p)[i], w)
    <3>1. CASE i > p BY <1>5, <2>1, <2>2, <3>1, ClearedRow, EliminatedRows
    <3>2. CASE i <= p BY <1>5, <2>2, <3>2, EliminatedRows
    <3> QED BY <1>1, <1>2, <3>1, <3>2
  <2> SUFFICES ASSUME NEW i \in Rows PROVE Holds(B[i], w)
    OBVIOUS
  <2>3. CASE i = p BY <2>1, <2>3
  <2>4. CASE i = pivotRow /\ i # p BY <1>2, <2>2, <2>4, SwappedRows
  <2>5. CASE i # pivotRow /\ i # p BY <2>2, <2>5, SwappedRows
  <2> QED BY <2>3, <2>4, <2>5
<1> QED BY <1>4, <1>5 DEF SolvesAug, Holds

\* One pass extends the staircase by one row and one column.
LEMMA EliminateShape ==
  ASSUME NEW p, LegalPivot(p), EchelonShape, pivotRow' = pivotRow + 1,
         pivotColumn' = pivotColumn + 1, B' = Eliminate(p)
  PROVE  EchelonShape'
<1>1. /\ \A i \in Rows : i \in Int
      /\ \A c \in AugCols : c \in Int
      /\ p \in Rows /\ pivotRow \in Rows /\ pivotRow <= p /\ pivotColumn \in AugCols
  BY SwappedRows, SizeAssumption DEF Rows, AugCols
<1>2. \A i \in Rows, c \in AugCols : i >= pivotRow /\ c < pivotColumn => B[i][c] = 0
  BY DEF EchelonShape
<1>3. ASSUME NEW i \in Rows, NEW c \in AugCols, i >= pivotRow, c < pivotColumn
      PROVE  B'[i][c] = 0
  <2>1. B[p][c] = 0 /\ B[i][c] = 0 /\ B[pivotRow][c] = 0 BY <1>1, <1>2, <1>3
  <2>2. Lead(p)[c] = 0 BY <2>1, LeadRow
  <2>3. Swapped(p)[i][c] = 0 BY <1>1, <2>1, SwappedRows
  <2>4. Cleared(p, i)[c] = 0 BY <2>1, <2>3, ClearedRow
  <2> QED BY <1>1, <2>2, <2>3, <2>4, EliminatedRows
<1>4. ASSUME NEW i \in Rows, i > pivotRow PROVE B'[i][pivotColumn] = 0
  <2>1. CASE i > p
    <3>1. B'[i] = Cleared(p, i) BY <1>1, <1>4, <2>1, EliminatedRows
    <3> QED BY <3>1, ClearedRow
  <2>2. CASE i < p
    <3>1. i \notin PossiblePivots BY <1>1, <2>2 DEF LegalPivot
    <3>2. i \in pivotRow .. m - 1 BY <1>1, <1>4 DEF Rows
    <3>3. B[i][pivotColumn] = 0 BY <3>1, <3>2 DEF PossiblePivots
    <3>4. B'[i] = Swapped(p)[i] BY <1>1, <1>4, <2>2, EliminatedRows
    <3>5. Swapped(p)[i] = B[i] BY <1>1, <1>4, <2>2, SwappedRows
    <3> QED BY <3>3, <3>4, <3>5
  <2>3. CASE i = p
    <3>1. pivotRow \notin PossiblePivots BY <1>1, <1>4, <2>3 DEF LegalPivot
    <3>2. pivotRow \in pivotRow .. m - 1 BY <1>1, SizeAssumption DEF Rows
    <3>3. B[pivotRow][pivotColumn] = 0 BY <3>1, <3>2 DEF PossiblePivots
    <3>4. B'[i] = Swapped(p)[i] BY <1>1, <1>4, <2>3, EliminatedRows
    <3>5. Swapped(p)[i] = B[pivotRow] BY <1>1, <1>4, <2>3, SwappedRows
    <3> QED BY <3>3, <3>4, <3>5
  <2> QED BY <1>1, <2>1, <2>2, <2>3
<1>5. ASSUME NEW i \in Rows, NEW c \in AugCols, i >= pivotRow', c < pivotColumn'
      PROVE  B'[i][c] = 0
  <2>1. i > pivotRow /\ (c < pivotColumn \/ c = pivotColumn) BY <1>1, <1>5
  <2> QED BY <1>1, <1>3, <1>4, <2>1
<1>6. ASSUME NEW i \in Rows, i < pivotRow'
      PROVE  \E c \in AugCols :
               /\ c < pivotColumn' /\ B'[i][c] = 1
               /\ \A j \in Rows, d \in AugCols :
                    j >= i /\ d <= c /\ <<j, d>> # <<i, c>> => B'[j][d] = 0
  <2>1. CASE i = pivotRow
    <3>1. B'[i][pivotColumn] = 1 BY <1>1, <2>1, EliminatedRows, LeadRow
    <3>2. ASSUME NEW j \in Rows, NEW d \in AugCols, j >= i, d <= pivotColumn,
                 <<j, d>> # <<i, pivotColumn>>
          PROVE  B'[j][d] = 0
      <4>1. CASE d < pivotColumn BY <1>1, <1>3, <2>1, <3>2, <4>1
      <4>2. CASE d = pivotColumn
        <5>1. j > pivotRow BY <1>1, <2>1, <3>2, <4>2
        <5> QED BY <1>4, <4>2, <5>1
      <4> QED BY <1>1, <3>2, <4>1, <4>2
    <3>3. pivotColumn < pivotColumn' BY <1>1
    <3> QED BY <1>1, <3>1, <3>2, <3>3
  <2>2. CASE i < pivotRow
    <3>1. PICK c \in AugCols :
            /\ c < pivotColumn /\ B[i][c] = 1
            /\ \A j \in Rows, d \in AugCols :
                 j >= i /\ d <= c /\ <<j, d>> # <<i, c>> => B[j][d] = 0
      BY <2>2 DEF EchelonShape
    <3>2. ASSUME NEW j \in Rows, j < pivotRow PROVE B'[j] = B[j]
      BY <1>1, <3>2, EliminatedRows, SwappedRows
    <3>3. ASSUME NEW j \in Rows, NEW d \in AugCols, j >= i, d <= c, <<j, d>> # <<i, c>>
          PROVE  B'[j][d] = 0
      <4>1. CASE j < pivotRow BY <3>1, <3>2, <3>3, <4>1
      <4>2. CASE j >= pivotRow
        <5>1. d < pivotColumn BY <1>1, <3>1, <3>3
        <5> QED BY <1>3, <4>2, <5>1
      <4> QED BY <1>1, <4>1, <4>2
    <3>4. c < pivotColumn' /\ B'[i][c] = 1 BY <1>1, <2>2, <3>1, <3>2
    <3> QED BY <3>3, <3>4
  <2> QED BY <1>1, <1>6, <2>1, <2>2
<1> QED BY <1>5, <1>6 DEF EchelonShape
----------------------------------------------------------------------------
(* Back-substitution *)

\* Every row has a leading 1 left of the column of y, with zeros below it.
LeadsEverywhere ==
  \A i \in Rows : \E c \in Cols :
    /\ B[i][c] = 1
    /\ \A j \in Rows, d \in AugCols : j >= i /\ d <= c /\ <<j, d>> # <<i, c>> => B[j][d] = 0

\* If the last row is not zero, the staircase reaches every row.
LEMMA FullRank ==
  ASSUME TypeOK, EchelonShape, EchelonDone, ~RankDeficient
  PROVE  LeadsEverywhere
<1>1. /\ m - 1 \in Rows /\ m \in Nat /\ ko \in Nat
      /\ \A i \in Rows : i \in Int /\ i <= m - 1
      /\ \A c \in AugCols : c \in Int /\ c <= ko
      /\ \A c \in AugCols : c # ko => c \in Cols
  BY SizeAssumption DEF Rows, AugCols, Cols
<1>2. PICK d \in Cols : B[m - 1][d] # 0
  <2>1. Left(B[m - 1]) # ZeroVector BY DEF RankDeficient
  <2> QED BY <2>1 DEF Left, ZeroVector
<1>3. d \in AugCols /\ d < ko /\ d \in Int BY SizeAssumption DEF Cols, AugCols
<1>4. pivotRow = m
  <2>1. ASSUME pivotRow # m PROVE FALSE
    <3>1. pivotRow <= m - 1 /\ pivotColumn = ko + 1
      BY <1>1, <2>1 DEF EchelonDone, TypeOK
    <3>2. B[m - 1][d] = 0 BY <1>1, <1>3, <3>1 DEF EchelonShape
    <3> QED BY <1>2, <3>2
  <2> QED BY <2>1
<1> SUFFICES ASSUME NEW i \in Rows
             PROVE  \E c \in Cols :
                      /\ B[i][c] = 1
                      /\ \A j \in Rows, e \in AugCols :
                           j >= i /\ e <= c /\ <<j, e>> # <<i, c>> => B[j][e] = 0
  BY DEF LeadsEverywhere
<1>5. PICK c \in AugCols :
        /\ c < pivotColumn /\ B[i][c] = 1
        /\ \A j \in Rows, e \in AugCols :
             j >= i /\ e <= c /\ <<j, e>> # <<i, c>> => B[j][e] = 0
  BY <1>1, <1>4 DEF EchelonShape
<1>6. c # ko
  <2>1. ASSUME c = ko PROVE FALSE
    <3>1. B[m - 1][d] = 0 BY <1>1, <1>3, <1>5, <2>1
    <3> QED BY <1>2, <3>1
  <2> QED BY <2>1
<1> QED BY <1>1, <1>5, <1>6

\* What the rest of the call relies on once the matrix is not touched any more.
Control ==
  /\ pc = "echelon" => xVec = R /\ r = m - 1 /\ hasSolution = FALSE
  /\ pc = "backsub" => hasSolution = FALSE
  /\ pc = "done" /\ hasSolution => r < 0
  /\ pc = "backsub" \/ hasSolution => LeadsEverywhere

IndInv == TypeOK /\ EchelonShape /\ SolutionsPreserved /\ ResidualTracked /\ Control

\* The one column that BackSubstitute finds in row r, and what it does there.
LEMMA LeadOfRow ==
  ASSUME TypeOK, LeadsEverywhere, r \in Rows
  PROVE  \E c \in Cols :
           /\ {d \in Cols : IsLead(r, d)} = {c}
           /\ B[r][c] = 1
           /\ \A j \in Rows : j > r => B[j][c] = 0
<1>1. PICK c \in Cols :
        /\ B[r][c] = 1
        /\ \A j \in Rows, e \in AugCols : j >= r /\ e <= c /\ <<j, e>> # <<r, c>> => B[j][e] = 0
  BY DEF LeadsEverywhere
<1>2. /\ \A d \in Cols : d \in Int /\ d \in AugCols
      /\ \A j \in Rows : j \in Int
  BY SizeAssumption DEF Cols, AugCols, Rows
<1>3. \A d \in Cols : d < c => B[r][d] = 0 BY <1>1, <1>2
<1>4. \A d \in Cols : IsLead(r, d) <=> d = c
  BY <1>1, <1>2, <1>3, Zero DEF IsLead
<1>5. \A j \in Rows : j > r => B[j][c] = 0 BY <1>1, <1>2
<1> QED BY <1>1, <1>4, <1>5
----------------------------------------------------------------------------
(* The invariant *)

LEMMA VecTypes ==
  ASSUME NEW u \in Vec, NEW v \in Vec
  PROVE  AddVec(u, v) \in Vec /\ AddVec(u, v) = AddVec(v, u) /\ AddVec(u, AddVec(v, u)) = v
<1>1. DOMAIN u = Cols /\ DOMAIN v = Cols BY DEF Vec
<1>2. \A c \in Cols : u[c] \in F /\ v[c] \in F BY DEF Vec
<1>3. \A c \in Cols : Xor(u[c], v[c]) \in F /\ Xor(u[c], v[c]) = Xor(v[c], u[c])
  BY <1>2, FieldAssumption
<1>4. AddVec(u, v) = [c \in Cols |-> Xor(u[c], v[c])] BY <1>1 DEF AddVec
<1>5. AddVec(v, u) = [c \in Cols |-> Xor(v[c], u[c])] BY <1>1 DEF AddVec
<1>6. AddVec(u, v) = AddVec(v, u) BY <1>3, <1>4, <1>5
<1>7. AddVec(u, v) \in Vec BY <1>3, <1>4 DEF Vec
<1>8. AddVec(u, AddVec(u, v)) = [c \in Cols |-> Xor(u[c], Xor(u[c], v[c]))]
  BY <1>1, <1>4 DEF AddVec
<1>9. \A c \in Cols : Xor(u[c], Xor(u[c], v[c])) = v[c] BY <1>2, XorCancel
<1>10. v = [c \in Cols |-> v[c]] BY DEF Vec
<1>11. AddVec(u, AddVec(u, v)) = v BY <1>8, <1>9, <1>10
<1> QED BY <1>6, <1>7, <1>11

LEMMA InitInv == Init => IndInv
<1> SUFFICES ASSUME Init PROVE IndInv OBVIOUS
<1>1. A \in [Rows -> Vec] /\ y \in [Rows -> F] /\ R \in Vec
  BY SizeAssumption DEF Init
<1>2. \A i \in Rows : A[i] \in Vec /\ y[i] \in F /\ Dot(A[i], R) \in F
  BY <1>1, DotAssumption
<1>3. \A i \in Rows : /\ B[i] = [c \in AugCols |-> IF c < ko THEN A[i][c] ELSE Xor(y[i], Dot(A[i], R))]
  <2>1. AddVec(y, MatrixVectorMul(A, R)) = [i \in Rows |-> Xor(y[i], Dot(A[i], R))]
    BY <1>1 DEF AddVec, MatrixVectorMul
  <2> QED BY <2>1 DEF Init, Randomized, appendVecToMatrix
<1>4. /\ \A c \in AugCols : c < ko <=> c \in Cols
      /\ ko \in AugCols /\ ~(ko < ko) /\ Cols \subseteq AugCols
  BY SizeAssumption DEF AugCols, Cols
<1>5. \A i \in Rows : Left(B[i]) = A[i] /\ B[i][ko] = Xor(y[i], Dot(A[i], R))
  <2> SUFFICES ASSUME NEW i \in Rows PROVE Left(B[i]) = A[i] /\ B[i][ko] = Xor(y[i], Dot(A[i], R))
    OBVIOUS
  <2>1. Left(B[i]) = [c \in Cols |-> A[i][c]] BY <1>3, <1>4 DEF Left
  <2>2. A[i] = [c \in Cols |-> A[i][c]] BY <1>2 DEF Vec
  <2>3. B[i][ko] = Xor(y[i], Dot(A[i], R)) BY <1>3, <1>4
  <2> QED BY <2>1, <2>2, <2>3
<1>6. B \in [Rows -> AugVec]
  <2>1. ASSUME NEW i \in Rows PROVE B[i] \in AugVec
    <3>1. \A c \in Cols : A[i][c] \in F BY <1>2 DEF Vec
    <3>2. Xor(y[i], Dot(A[i], R)) \in F BY <1>2, FieldAssumption
    <3> QED BY <1>3, <1>4, <3>1, <3>2 DEF AugVec
  <2>2. B = [i \in Rows |-> B[i]] BY DEF Init, Randomized, appendVecToMatrix
  <2> QED BY <2>1, <2>2
<1>7. TypeOK
  <2>1. [i \in Rows |-> 0] \in [Rows -> F] BY Zero
  <2>2. 0 \in 0 .. m /\ 0 \in 0 .. ko + 1 /\ m - 1 \in -1 .. m - 1 BY SizeAssumption
  <2>3. R = xVec /\ z \in [Rows -> F] BY <2>1 DEF Init
  <2> QED BY <1>1, <1>6, <2>2, <2>3 DEF Init, TypeOK
<1>8. EchelonShape BY SizeAssumption DEF Init, EchelonShape, Rows, AugCols
<1>9. SolutionsPreserved
  <2> SUFFICES ASSUME NEW w \in Vec
               PROVE  SolvesAug(B, w) <=> MatrixVectorMul(A, AddVec(R, w)) = y
    BY DEF SolutionsPreserved
  <2>1. ASSUME NEW i \in Rows
        PROVE  Dot(Left(B[i]), w) = B[i][ko] <=> Dot(A[i], AddVec(R, w)) = y[i]
    <3>1. Dot(A[i], AddVec(R, w)) = Xor(Dot(A[i], R), Dot(A[i], w)) BY <1>1, <1>2, DotAssumption
    <3>2. Dot(A[i], w) \in F BY <1>2, DotAssumption
    <3>3. Xor(Dot(A[i], R), Dot(A[i], w)) = Xor(Dot(A[i], w), Dot(A[i], R)) BY <1>2, <3>2, FieldAssumption
    <3> QED BY <1>2, <1>5, <3>1, <3>2, <3>3, XorMove
  <2>2. y = [i \in Rows |-> y[i]] BY <1>1
  <2> QED BY <2>1, <2>2 DEF SolvesAug, MatrixVectorMul
<1>10. ResidualTracked BY DEF Init, ResidualTracked
<1>11. Control BY DEF Init, Control
<1> QED BY <1>7, <1>8, <1>9, <1>10, <1>11 DEF IndInv

LEMMA NextColumnInv == IndInv /\ NextColumn => IndInv'
<1> SUFFICES ASSUME IndInv, NextColumn PROVE IndInv' OBVIOUS
<1>1. TypeOK'
  <2>1. pivotColumn' \in 0 .. ko + 1
    BY SizeAssumption DEF IndInv, TypeOK, NextColumn, Scanning
  <2> QED BY <2>1 DEF IndInv, TypeOK, NextColumn, args
<1>2. EchelonShape'
  <2>1. B' = B /\ pivotRow' = pivotRow /\ pivotColumn' = pivotColumn + 1
    BY DEF NextColumn
  <2>2. /\ pivotColumn \in Int /\ pivotRow \in Int
        /\ \A i \in Rows : i \in Int /\ i <= m - 1
        /\ \A c \in AugCols : c \in Int
    BY SizeAssumption DEF IndInv, TypeOK, Rows, AugCols
  <2>3. ASSUME NEW i \in Rows, NEW c \in AugCols, i >= pivotRow, c < pivotColumn + 1
        PROVE  B[i][c] = 0
    <3>1. CASE c < pivotColumn BY <2>3, <3>1 DEF IndInv, EchelonShape
    <3>2. CASE c = pivotColumn
      <4>1. i \in pivotRow .. m - 1 BY <2>2, <2>3, SizeAssumption
      <4> QED BY <3>2, <4>1 DEF NextColumn, PossiblePivots
    <3> QED BY <2>2, <2>3, <3>1, <3>2
  <2>4. ASSUME NEW i \in Rows, i < pivotRow
        PROVE  \E c \in AugCols :
                 /\ c < pivotColumn + 1 /\ B[i][c] = 1
                 /\ \A j \in Rows, d \in AugCols :
                      j >= i /\ d <= c /\ <<j, d>> # <<i, c>> => B[j][d] = 0
    <3>1. PICK c \in AugCols :
            /\ c < pivotColumn /\ B[i][c] = 1
            /\ \A j \in Rows, d \in AugCols :
                 j >= i /\ d <= c /\ <<j, d>> # <<i, c>> => B[j][d] = 0
      BY <2>4 DEF IndInv, EchelonShape
    <3>2. c < pivotColumn + 1 BY <2>2, <3>1
    <3> QED BY <3>1, <3>2
  <2> QED BY <2>1, <2>3, <2>4 DEF EchelonShape
<1>3. SolutionsPreserved'
  BY DEF IndInv, SolutionsPreserved, NextColumn, args, SolvesAug, MatrixVectorMul
<1>4. ResidualTracked' /\ Control'
  BY DEF IndInv, ResidualTracked, Control, NextColumn, Scanning, args
<1> QED BY <1>1, <1>2, <1>3, <1>4 DEF IndInv

LEMMA PivotInv == IndInv /\ Pivot => IndInv'
<1> SUFFICES ASSUME IndInv, Pivot PROVE IndInv' OBVIOUS
<1>1. PICK p \in PossiblePivots : (\A q \in PossiblePivots : p <= q) /\ B' = Eliminate(p)
  BY DEF Pivot
<1>2. LegalPivot(p)
  <2>1. pivotRow \in 0 .. m - 1 /\ pivotColumn \in 0 .. ko
    BY SizeAssumption DEF IndInv, TypeOK, Pivot, Scanning
  <2> QED BY <1>1, <2>1 DEF LegalPivot, IndInv, TypeOK
<1>3. TypeOK'
  <2>1. pivotRow' \in 0 .. m /\ pivotColumn' \in 0 .. ko + 1
    BY SizeAssumption DEF IndInv, TypeOK, Pivot, Scanning
  <2>2. B' \in [Rows -> AugVec] BY <1>1, <1>2, EliminatedRows
  <2> QED BY <2>1, <2>2 DEF IndInv, TypeOK, Pivot, args
<1>4. EchelonShape' BY <1>1, <1>2, EliminateShape DEF IndInv, Pivot
<1>5. SolutionsPreserved'
  <2>1. A' = A /\ y' = y /\ R' = R BY DEF Pivot, args
  <2>2. \A w \in Vec : SolvesAug(B', w) <=> SolvesAug(B, w) BY <1>1, <1>2, EliminateSolutions
  <2>3. \A w \in Vec : SolvesAug(B, w) <=> MatrixVectorMul(A, AddVec(R, w)) = y
    BY DEF IndInv, SolutionsPreserved
  <2>4. SolutionsPreserved' = \A w \in Vec : SolvesAug(B', w) <=> MatrixVectorMul(A', AddVec(R', w)) = y'
    BY DEF SolutionsPreserved, SolvesAug, MatrixVectorMul
  <2> QED BY <2>1, <2>2, <2>3, <2>4
<1>6. ResidualTracked' /\ Control'
  BY DEF IndInv, ResidualTracked, Control, Pivot, Scanning, args
<1> QED BY <1>3, <1>4, <1>5, <1>6 DEF IndInv

LEMMA GiveUpInv == IndInv /\ GiveUp => IndInv'
<1> SUFFICES ASSUME IndInv, GiveUp PROVE IndInv' OBVIOUS
<1>1. TypeOK'
  <2>1. z' \in [Rows -> F] BY ColumnSets DEF IndInv, TypeOK, GiveUp, AugVec
  <2> QED BY <2>1 DEF IndInv, TypeOK, GiveUp, args
<1>2. EchelonShape' BY DEF IndInv, EchelonShape, GiveUp
<1>3. SolutionsPreserved'
  BY DEF IndInv, SolutionsPreserved, GiveUp, args, SolvesAug, MatrixVectorMul
<1>4. ResidualTracked' /\ Control'
  BY DEF IndInv, ResidualTracked, Control, GiveUp, EchelonDone
<1> QED BY <1>1, <1>2, <1>3, <1>4 DEF IndInv

LEMMA StartInv == IndInv /\ StartBackSubstitution => IndInv'
<1> SUFFICES ASSUME IndInv, StartBackSubstitution PROVE IndInv' OBVIOUS
<1>1. TypeOK'
  <2>1. z' \in [Rows -> F] BY ColumnSets DEF IndInv, TypeOK, StartBackSubstitution, AugVec
  <2> QED BY <2>1 DEF IndInv, TypeOK, StartBackSubstitution, args
<1>2. EchelonShape' BY DEF IndInv, EchelonShape, StartBackSubstitution
<1>3. SolutionsPreserved'
  BY DEF IndInv, SolutionsPreserved, StartBackSubstitution, args, SolvesAug, MatrixVectorMul
<1>4. LeadsEverywhere' 
  <2>1. LeadsEverywhere BY FullRank DEF IndInv, StartBackSubstitution
  <2> QED BY <2>1 DEF LeadsEverywhere, StartBackSubstitution
<1>5. /\ xVec = R /\ R' = R /\ xVec' = xVec /\ r' = m - 1 /\ hasSolution' = FALSE /\ B' = B
      /\ \A i \in Rows : z'[i] = B[i][ko]
  BY DEF IndInv, Control, StartBackSubstitution, EchelonDone, args
<1>6. ASSUME NEW i \in Rows
      PROVE  z'[i] = Xor(B'[i][ko], Dot(Left(B'[i]), AddVec(xVec', R')))
  <2>1. R \in Vec /\ B[i] \in AugVec /\ Left(B[i]) \in Vec
    BY RowTypes, Zero DEF IndInv, TypeOK
  <2>2. Dot(Left(B[i]), AddVec(R, R)) = Xor(Dot(Left(B[i]), R), Dot(Left(B[i]), R))
    BY <2>1, DotAssumption
  <2>3. Dot(Left(B[i]), R) \in F /\ B[i][ko] \in F BY <2>1, DotAssumption, ColumnSets DEF AugVec
  <2>4. Xor(B[i][ko], Dot(Left(B[i]), AddVec(R, R))) = B[i][ko] BY <2>2, <2>3, Zero
  <2> QED BY <1>5, <2>4
<1>7. \A i \in Rows : ~(i > r') BY <1>5, SizeAssumption DEF Rows
<1>8. ResidualTracked' BY <1>6, <1>7 DEF ResidualTracked
<1>9. Control' BY <1>4, <1>5 DEF Control, StartBackSubstitution
<1> QED BY <1>1, <1>2, <1>3, <1>8, <1>9 DEF IndInv

LEMMA BackSubstituteInv == IndInv /\ BackSubstitute => IndInv'
<1> SUFFICES ASSUME IndInv, BackSubstitute PROVE IndInv' OBVIOUS
<1>1. /\ TypeOK /\ LeadsEverywhere /\ r \in Rows /\ \A i \in Rows : i \in Int
      /\ R' = R /\ B' = B /\ A' = A /\ y' = y /\ r' = r - 1
  BY SizeAssumption DEF IndInv, TypeOK, Control, BackSubstitute, Rows, args
<1>2. PICK c \in Cols : /\ {d \in Cols : IsLead(r, d)} = {c}
                        /\ B[r][c] = 1 /\ \A j \in Rows : j > r => B[j][c] = 0
  BY <1>1, LeadOfRow
<1>3. /\ \A i \in Rows : z[i] \in F /\ B[i][c] \in F
      /\ xVec \in Vec /\ R \in Vec /\ \A d \in Cols : xVec[d] \in F /\ R[d] \in F
  BY ColumnSets DEF IndInv, TypeOK, Vec, AugVec
<1>4. xVec' = [xVec EXCEPT ![c] = Xor(xVec[c], z[r])] /\ z' = SubtractColumn(c)
  <2>1. (CHOOSE d \in {c} : TRUE) = c OBVIOUS
  <2>2. z' = SubtractColumn(c) BY <1>2, <2>1 DEF BackSubstitute
  <2>3. xVec' = [d \in Cols |-> IF d \in {c} THEN Xor(xVec[d], z[r]) ELSE xVec[d]]
    BY <1>2 DEF BackSubstitute
  <2>4. DOMAIN xVec = Cols BY <1>3 DEF Vec
  <2> QED BY <2>2, <2>3, <2>4
<1>5. \A i \in Rows : z'[i] = Xor(z[i], Gf16Mul(z[r], B[i][c]))
  <2>1. Xor(z[r], Gf16Mul(z[r], B[r][c])) = 0 BY <1>1, <1>2, <1>3, Zero
  <2>2. ASSUME NEW i \in Rows, i > r PROVE z'[i] = z[i] /\ Xor(z[i], Gf16Mul(z[r], B[i][c])) = z[i]
    <3>1. z'[i] = Xor(z[i], Gf16Mul(0, B[i][c])) BY <1>1, <1>4, <2>1, <2>2 DEF SubtractColumn
    <3>2. B[i][c] = 0 BY <1>2, <2>2
    <3> QED BY <1>1, <1>3, <3>1, <3>2, Zero
  <2>3. ASSUME NEW i \in Rows, i <= r PROVE z'[i] = Xor(z[i], Gf16Mul(z[r], B[i][c]))
    <3>1. CASE i < r BY <1>1, <1>4, <3>1 DEF SubtractColumn
    <3>2. CASE i = r BY <1>1, <1>4, <3>2 DEF SubtractColumn
    <3> QED BY <1>1, <2>3, <3>1, <3>2
  <2> QED BY <1>1, <2>2, <2>3
<1>6. TypeOK'
  <2>1. xVec' \in Vec
    <3>1. Xor(xVec[c], z[r]) \in F BY <1>1, <1>3, FieldAssumption
    <3> QED BY <1>3, <1>4, <3>1 DEF Vec
  <2>2. z' \in [Rows -> F]
    <3>1. \A i \in Rows : Gf16Mul(z[r], B[i][c]) \in F BY <1>1, <1>3, FieldAssumption
    <3>2. ASSUME NEW i \in Rows PROVE z'[i] \in F
      <4>1. z[i] \in F /\ Gf16Mul(z[r], B[i][c]) \in F BY <1>3, <3>1
      <4> QED BY <1>5, <4>1, XorClosed
    <3>3. DOMAIN z' = Rows /\ z' = [i \in DOMAIN z' |-> z'[i]]
      BY <1>4 DEF SubtractColumn
    <3> QED BY <3>2, <3>3
  <2>3. r' \in -1 .. m - 1 BY <1>1, SizeAssumption DEF Rows
  <2> QED BY <1>1, <2>1, <2>2, <2>3 DEF IndInv, TypeOK, BackSubstitute
<1>7. EchelonShape' BY DEF IndInv, EchelonShape, BackSubstitute
<1>8. SolutionsPreserved'
  BY DEF IndInv, SolutionsPreserved, BackSubstitute, args, SolvesAug, MatrixVectorMul
<1>9. AddVec(xVec', R) = [AddVec(xVec, R) EXCEPT ![c] = Xor(AddVec(xVec, R)[c], z[r])]
  <2>1. /\ AddVec(xVec, R) = [d \in Cols |-> Xor(xVec[d], R[d])]
        /\ AddVec(xVec', R) = [d \in Cols |-> Xor(xVec'[d], R[d])]
    BY <1>3, <1>4 DEF AddVec, Vec
  <2>2. xVec'[c] = Xor(xVec[c], z[r]) /\ \A d \in Cols : d # c => xVec'[d] = xVec[d]
    BY <1>3, <1>4 DEF Vec
  <2>3. Xor(xVec'[c], R[c]) = Xor(Xor(xVec[c], R[c]), z[r])
    <3>1. xVec[c] \in F /\ R[c] \in F /\ z[r] \in F BY <1>1, <1>3
    <3> QED BY <2>2, <3>1, XorSwap
  <2> QED BY <2>1, <2>2, <2>3
<1>10. ASSUME NEW i \in Rows
       PROVE  /\ z'[i] = Xor(B'[i][ko], Dot(Left(B'[i]), AddVec(xVec', R')))
              /\ i > r' => z'[i] = 0
  <2> DEFINE g == Gf16Mul(z[r], B[i][c])
             h == Dot(Left(B[i]), AddVec(xVec, R))
  <2>1. z[i] = Xor(B[i][ko], h) /\ (i > r => z[i] = 0)
    BY DEF IndInv, ResidualTracked, BackSubstitute
  <2>2. Left(B[i]) \in Vec /\ Left(B[i])[c] = B[i][c]
    BY RowTypes, Zero DEF IndInv, TypeOK, Left
  <2>3. AddVec(xVec, R) \in Vec BY <1>3, VecTypes
  <2>4. /\ h \in F /\ g \in F /\ B[i][ko] \in F /\ z[r] \in F
        /\ g = Gf16Mul(B[i][c], z[r])
    <3>1. h \in F BY <2>2, <2>3, DotAssumption
    <3>2. B[i][ko] \in F BY ColumnSets DEF IndInv, TypeOK, AugVec
    <3>3. z[r] \in F /\ B[i][c] \in F BY <1>1, <1>3
    <3>4. g \in F /\ g = Gf16Mul(B[i][c], z[r]) BY <3>3, FieldAssumption
    <3> QED BY <3>1, <3>2, <3>3, <3>4
  <2>5. Dot(Left(B[i]), AddVec(xVec', R)) = Xor(h, g)
    <3> DEFINE u == Left(B[i])
               w == AddVec(xVec, R)
    <3>1. u \in Vec /\ w \in Vec /\ z[r] \in F BY <2>2, <2>3, <2>4
    <3> HIDE DEF u, w
    <3>2. Dot(u, [w EXCEPT ![c] = Xor(w[c], z[r])]) = Xor(Dot(u, w), Gf16Mul(u[c], z[r]))
      BY <3>1, DotAssumption
    <3> QED BY <1>9, <2>2, <2>4, <3>2 DEF u, w
  <2>6. z'[i] = Xor(Xor(B[i][ko], h), g) BY <1>5, <2>1
  <2> HIDE DEF g, h
  <2>7. z'[i] = Xor(B[i][ko], Xor(h, g)) BY <2>4, <2>6, XorAssoc
  <2>8. ASSUME i > r' PROVE z'[i] = 0
    <3>1. CASE i > r
      <4>1. B[i][c] = 0 /\ z[i] = 0 BY <1>2, <2>1, <3>1
      <4>2. g = 0 BY <1>1, <1>3, <4>1, Zero DEF g
      <4> QED BY <1>5, <4>1, <4>2, Zero DEF g
    <3>2. CASE i = r
      <4>1. g = z[r] BY <1>2, <1>3, <3>2, Zero DEF g
      <4> QED BY <1>5, <2>4, <3>2, <4>1, Zero DEF g
    <3> QED BY <1>1, <2>8, <3>1, <3>2
  <2> QED BY <1>1, <2>5, <2>7, <2>8
<1>11. ResidualTracked' BY <1>10 DEF ResidualTracked
<1>12. Control' BY <1>1 DEF IndInv, Control, BackSubstitute, LeadsEverywhere
<1> QED BY <1>6, <1>7, <1>8, <1>11, <1>12 DEF IndInv

LEMMA ReturnInv == IndInv /\ Return => IndInv'
<1> SUFFICES ASSUME IndInv, Return PROVE IndInv' OBVIOUS
<1>1. TypeOK' BY DEF IndInv, TypeOK, Return, args
<1>2. EchelonShape' BY DEF IndInv, EchelonShape, Return
<1>3. SolutionsPreserved'
  BY DEF IndInv, SolutionsPreserved, Return, args, SolvesAug, MatrixVectorMul
<1>4. ResidualTracked' /\ Control'
  BY DEF IndInv, ResidualTracked, Control, Return, LeadsEverywhere, args
<1> QED BY <1>1, <1>2, <1>3, <1>4 DEF IndInv

\* IndInv is inductive.
THEOREM Invariance == Spec => []IndInv
<1>1. Init => IndInv BY InitInv
<1>2. IndInv /\ [Next]_vars => IndInv'
  <2> SUFFICES ASSUME IndInv, [Next]_vars PROVE IndInv' OBVIOUS
  <2>1. CASE Next
    BY <2>1, NextColumnInv, PivotInv, GiveUpInv, StartInv, BackSubstituteInv, ReturnInv DEF Next
  <2>2. CASE UNCHANGED vars
    BY <2>2 DEF vars, IndInv, TypeOK, EchelonShape, SolutionsPreserved, ResidualTracked, Control,
                SolvesAug, MatrixVectorMul, LeadsEverywhere
  <2> QED BY <2>1, <2>2
<1> QED BY <1>1, <1>2, PTL DEF Spec

\* Every entry stays in the field and every index in its range: no lookup of
\* echelonForm or of the back-substitution leaves the slices of the code.
THEOREM TypeCorrect == Spec => []TypeOK
BY Invariance, PTL DEF IndInv

\* The matrix has the staircase shape around the cursor at every step of
\* echelonForm, although only the rows below nextPivotRow are eliminated.
THEOREM EchelonShapeHolds == Spec => []EchelonShape
BY Invariance, PTL DEF IndInv

\* Gauss elimination on (A y) with A R added to y neither gains nor loses a
\* solution: the solutions of B, moved by R, are those of the caller's system.
THEOREM SolutionsPreservedHolds == Spec => []SolutionsPreserved
BY Invariance, PTL DEF IndInv

\* Overwriting y row by row during back-substitution keeps it equal to what
\* the x built so far leaves open.
THEOREM ResidualTrackedHolds == Spec => []ResidualTracked
BY Invariance, PTL DEF IndInv

\* A vector that sampleSolution returns with true solves the system A x = y
\* that Sign passed: Sign relies on it without checking the signature it emits.
THEOREM SolutionCorrectHolds == Spec => []SolutionCorrect
<1>1. IndInv => SolutionCorrect
  <2> SUFFICES ASSUME IndInv, pc = "done", hasSolution PROVE MatrixVectorMul(A, xVec) = y
    BY DEF SolutionCorrect
  <2>1. /\ xVec \in Vec /\ R \in Vec /\ AddVec(xVec, R) \in Vec
        /\ AddVec(R, AddVec(xVec, R)) = xVec
    BY VecTypes DEF IndInv, TypeOK
  <2>2. ASSUME NEW i \in Rows PROVE Dot(Left(B[i]), AddVec(xVec, R)) = B[i][ko]
    <3>1. z[i] = 0 /\ z[i] = Xor(B[i][ko], Dot(Left(B[i]), AddVec(xVec, R)))
      BY SizeAssumption DEF IndInv, TypeOK, ResidualTracked, Control, Rows
    <3>2. B[i][ko] \in F BY ColumnSets DEF IndInv, TypeOK, AugVec
    <3>3. Left(B[i]) \in Vec BY RowTypes, Zero DEF IndInv, TypeOK
    <3>4. Dot(Left(B[i]), AddVec(xVec, R)) \in F BY <2>1, <3>3, DotAssumption
    <3> QED BY <3>1, <3>2, <3>4, XorCancel
  <2>3. SolvesAug(B, AddVec(xVec, R)) BY <2>2 DEF SolvesAug
  <2>4. MatrixVectorMul(A, AddVec(R, AddVec(xVec, R))) = y
    BY <2>1, <2>3 DEF IndInv, SolutionsPreserved
  <2> QED BY <2>1, <2>4
<1> QED BY <1>1, Invariance, PTL
----------------------------------------------------------------------------
(* The rank *)

\* The coefficients of an augmented matrix.
LeftRows(M) == [i \in Rows |-> Left(M[i])]
Values == [Rows -> F]

LEMMA OntoMeans ==
  ASSUME NEW M, \A i \in Rows : M[i] \in Vec
  PROVE  Onto(M) <=> \A v \in Values : \E w \in Vec : MatrixVectorMul(M, w) = v
<1>1. \A w \in Vec : MatrixVectorMul(M, w) \in Values
  BY DotAssumption DEF MatrixVectorMul, Values
<1>2. {[i \in Rows |-> Dot(M[i], w)] : w \in Vec} = {MatrixVectorMul(M, w) : w \in Vec}
  BY DEF MatrixVectorMul
<1> QED BY <1>1, <1>2 DEF Onto, Values

\* What an elimination step does to the values of the left-hand sides.
MovedValue(p, v, row) ==
  LET lead == Gf16Mul(Gf16Inv(B[p][pivotColumn]), v[p])
      old  == IF row = p THEN v[pivotRow] ELSE v[row]
  IN IF row = pivotRow THEN lead
     ELSE IF row > p THEN Xor(old, Gf16Mul(Swapped(p)[row][pivotColumn], lead))
     ELSE old
Moved(p, v) == [row \in Rows |-> MovedValue(p, v, row)]

\* ... and how it is undone.
UnmovedValue(p, u, row) ==
  LET back == Gf16Mul(B[p][pivotColumn], u[pivotRow])
  IN IF row = p THEN back
     ELSE IF row = pivotRow THEN u[p]
     ELSE IF row > p THEN Xor(u[row], Gf16Mul(Swapped(p)[row][pivotColumn], u[pivotRow]))
     ELSE u[row]
Unmoved(p, u) == [row \in Rows |-> UnmovedValue(p, u, row)]

LEMMA InvTwice ==
  ASSUME NEW a \in F, a # 0, NEW b \in F
  PROVE  Gf16Mul(Gf16Inv(a), Gf16Mul(a, b)) = b /\ Gf16Mul(a, Gf16Mul(Gf16Inv(a), b)) = b
<1> DEFINE i == Gf16Inv(a)
<1>1. i \in F /\ Gf16Mul(i, a) = 1 BY InvNonZero
<1> HIDE DEF i
<1>2. Gf16Mul(a, i) = 1 BY <1>1, FieldAssumption
<1>3. Gf16Mul(i, Gf16Mul(a, b)) = Gf16Mul(Gf16Mul(i, a), b) BY <1>1, FieldAssumption
<1>4. Gf16Mul(a, Gf16Mul(i, b)) = Gf16Mul(Gf16Mul(a, i), b) BY <1>1, FieldAssumption
<1>5. Gf16Mul(1, b) = b
  <2>1. 1 \in F BY Zero
  <2>2. Gf16Mul(1, b) = Gf16Mul(b, 1) BY <2>1, FieldAssumption
  <2> QED BY <2>2, Zero
<1> QED BY <1>1, <1>2, <1>3, <1>4, <1>5 DEF i

LEMMA MulClosed ==
  ASSUME NEW a \in F, NEW b \in F
  PROVE  Gf16Mul(a, b) \in F
BY FieldAssumption

LEMMA MovedBijection ==
  ASSUME NEW p, LegalPivot(p)
  PROVE  /\ \A v \in Values : Moved(p, v) \in Values /\ Unmoved(p, Moved(p, v)) = v
         /\ \A u \in Values : Unmoved(p, u) \in Values /\ Moved(p, Unmoved(p, u)) = u
<1> DEFINE a == B[p][pivotColumn]
           f(row) == Swapped(p)[row][pivotColumn]
<1>1. /\ p \in Rows /\ pivotRow \in Rows /\ pivotRow <= p /\ pivotColumn \in AugCols
      /\ \A i \in Rows : i \in Int
      /\ a \in F /\ a # 0 /\ Gf16Inv(a) \in F
      /\ \A row \in Rows : f(row) \in F
  <2>1. \A i \in Rows : i \in Int BY SizeAssumption DEF Rows
  <2>2. \A row \in Rows : f(row) \in F BY SwappedRows DEF AugVec
  <2> QED BY <2>1, <2>2, SwappedRows, InvNonZero
<1> HIDE DEF a, f
<1>2. \A v \in Values, row \in Rows : v[row] \in F BY DEF Values
<1>3. ASSUME NEW v \in Values PROVE Moved(p, v) \in Values /\ Unmoved(p, Moved(p, v)) = v
  <2> DEFINE lead == Gf16Mul(Gf16Inv(a), v[p])
             u    == Moved(p, v)
  <2>1. lead \in F BY <1>1, <1>2, MulClosed
  <2>2. \A row \in Rows : Gf16Mul(f(row), lead) \in F BY <1>1, <2>1, MulClosed
  <2>3. \A row \in Rows :
          u[row] = IF row = pivotRow THEN lead
                   ELSE IF row > p THEN Xor(v[row], Gf16Mul(f(row), lead))
                   ELSE IF row = p THEN v[pivotRow] ELSE v[row]
    BY <1>1 DEF Moved, MovedValue, a, f
  <2> HIDE DEF lead
  <2>4. \A row \in Rows : Xor(v[row], Gf16Mul(f(row), lead)) \in F BY <1>2, <2>2, XorClosed
  <2>5. \A row \in Rows : u[row] \in F BY <1>1, <1>2, <2>1, <2>3, <2>4
  <2>6. u \in Values BY <2>5 DEF Moved, Values
  <2>7. ASSUME NEW row \in Rows PROVE UnmovedValue(p, u, row) = v[row]
    <3>1. CASE row = p
      <4>1. Gf16Mul(a, u[pivotRow]) = v[p] BY <1>1, <1>2, <2>3, InvTwice DEF lead
      <4> QED BY <3>1, <4>1 DEF UnmovedValue, a
    <3>2. CASE row # p /\ row = pivotRow
      <4>1. u[p] = v[pivotRow] BY <1>1, <2>3, <3>2
      <4> QED BY <3>2, <4>1 DEF UnmovedValue
    <3>3. CASE row # p /\ row # pivotRow /\ row > p
      <4>1. u[row] = Xor(v[row], Gf16Mul(f(row), lead)) /\ u[pivotRow] = lead BY <1>1, <2>3, <3>3
      <4>2. Xor(u[row], Gf16Mul(f(row), lead)) = v[row]
        BY <1>2, <2>2, <4>1, <2>4, XorMove
      <4> QED BY <3>3, <4>1, <4>2 DEF UnmovedValue, f
    <3>4. CASE row # p /\ row # pivotRow /\ ~(row > p) BY <1>1, <2>3, <3>4 DEF UnmovedValue
    <3> QED BY <3>1, <3>2, <3>3, <3>4
  <2> HIDE DEF u
  <2>8. Unmoved(p, u) = v BY <2>7 DEF Unmoved, Values
  <2> QED BY <2>6, <2>8 DEF u
<1>4. ASSUME NEW u \in Values PROVE Unmoved(p, u) \in Values /\ Moved(p, Unmoved(p, u)) = u
  <2> DEFINE v == Unmoved(p, u)
             lead == u[pivotRow]
  <2>1. Gf16Mul(a, lead) \in F /\ lead \in F BY <1>1, <1>2, MulClosed
  <2>2. \A row \in Rows : Gf16Mul(f(row), lead) \in F BY <1>1, <2>1, MulClosed
  <2>3. \A row \in Rows :
          v[row] = IF row = p THEN Gf16Mul(a, lead)
                   ELSE IF row = pivotRow THEN u[p]
                   ELSE IF row > p THEN Xor(u[row], Gf16Mul(f(row), lead))
                   ELSE u[row]
    BY <1>1 DEF Unmoved, UnmovedValue, a, f
  <2> HIDE DEF lead
  <2>4. \A row \in Rows : Xor(u[row], Gf16Mul(f(row), lead)) \in F BY <1>2, <2>2, XorClosed
  <2>5. \A row \in Rows : v[row] \in F BY <1>1, <1>2, <2>1, <2>3, <2>4
  <2>6. v \in Values BY <2>5 DEF Unmoved, Values
  <2>7. Gf16Mul(Gf16Inv(a), v[p]) = lead BY <1>1, <2>1, <2>3, InvTwice
  <2>8. ASSUME NEW row \in Rows PROVE MovedValue(p, v, row) = u[row]
    <3>1. CASE row = pivotRow BY <2>7, <3>1 DEF MovedValue, a, lead
    <3>2. CASE row = p /\ row # pivotRow
      <4>1. v[pivotRow] = u[p] BY <1>1, <2>3, <3>2
      <4> QED BY <1>1, <3>2, <4>1 DEF MovedValue
    <3>3. CASE row # p /\ row # pivotRow /\ row > p
      <4>1. v[row] = Xor(u[row], Gf16Mul(f(row), lead)) BY <1>1, <2>3, <3>3
      <4>2. Xor(v[row], Gf16Mul(f(row), lead)) = u[row]
        BY <1>2, <2>2, <2>4, <4>1, XorMove
      <4>3. MovedValue(p, v, row) = Xor(v[row], Gf16Mul(f(row), Gf16Mul(Gf16Inv(a), v[p])))
        BY <3>3 DEF MovedValue, a, f
      <4> QED BY <2>7, <4>2, <4>3
    <3>4. CASE row # p /\ row # pivotRow /\ ~(row > p)
      <4>1. v[row] = u[row] BY <1>1, <2>3, <3>4
      <4> QED BY <3>4, <4>1 DEF MovedValue
    <3> QED BY <3>1, <3>2, <3>3, <3>4
  <2> HIDE DEF v
  <2>9. Moved(p, v) = u BY <2>8 DEF Moved, Values
  <2> QED BY <2>6, <2>9 DEF v
<1> QED BY <1>3, <1>4

\* The left-hand sides of the eliminated matrix are those of B, moved.
LEMMA EliminateValues ==
  ASSUME NEW p, LegalPivot(p), NEW w \in Vec
  PROVE  /\ MatrixVectorMul(LeftRows(B), w) \in Values
         /\ MatrixVectorMul(LeftRows(Eliminate(p)), w) = Moved(p, MatrixVectorMul(LeftRows(B), w))
<1> DEFINE v == MatrixVectorMul(LeftRows(B), w)
           E == Eliminate(p)
<1>1. /\ p \in Rows /\ pivotRow \in Rows /\ pivotRow <= p /\ pivotColumn \in AugCols
      /\ \A i \in Rows : i \in Int
      /\ \A i \in Rows : B[i] \in AugVec /\ Swapped(p)[i] \in AugVec /\ E[i] \in AugVec
      /\ B[p][pivotColumn] \in F /\ B[p][pivotColumn] # 0
  <2>1. \A i \in Rows : i \in Int BY SizeAssumption DEF Rows
  <2>2. \A i \in Rows : B[i] \in AugVec BY DEF LegalPivot
  <2>3. \A i \in Rows : E[i] \in AugVec BY EliminatedRows
  <2> QED BY <2>1, <2>2, <2>3, SwappedRows
<1>2. \A i \in Rows : v[i] = Dot(Left(B[i]), w) BY DEF MatrixVectorMul, LeftRows
<1>3. \A i \in Rows : Left(B[i]) \in Vec BY <1>1, RowTypes, Zero
<1>4. v \in Values BY <1>3, DotAssumption DEF MatrixVectorMul, LeftRows, Values
<1>5. Dot(Left(Lead(p)), w) = Gf16Mul(Gf16Inv(B[p][pivotColumn]), v[p])
  <2>1. Gf16Inv(B[p][pivotColumn]) \in F BY <1>1, InvNonZero
  <2>2. Lead(p) = MultiplyVecConstant(Gf16Inv(B[p][pivotColumn]), B[p]) BY SwappedRows DEF Lead
  <2> QED BY <1>1, <1>2, <2>1, <2>2, ScaledRow
<1>6. \A row \in Rows : Dot(Left(Swapped(p)[row]), w) = IF row = p THEN v[pivotRow]
                                                       ELSE IF row = pivotRow THEN v[p] ELSE v[row]
  BY <1>1, <1>2, SwappedRows
<1> HIDE DEF v
<1>7. ASSUME NEW row \in Rows
      PROVE  Dot(Left(E[row]), w) = MovedValue(p, v, row)
  <2>1. CASE row = pivotRow BY <1>5, <2>1, EliminatedRows DEF MovedValue
  <2>2. CASE row # pivotRow /\ row > p
    <3> DEFINE s == Swapped(p)[row][pivotColumn]
               l == MultiplyVecConstant(s, Lead(p))
    <3>1. E[row] = AddVec(Swapped(p)[row], l) BY <2>2, EliminatedRows DEF Cleared
    <3>2. s \in F /\ Lead(p) \in AugVec BY <1>1, LeadRow DEF AugVec
    <3> HIDE DEF s
    <3>3. l \in AugVec /\ Dot(Left(l), w) = Gf16Mul(s, Dot(Left(Lead(p)), w))
      BY <3>2, RowTypes, ScaledRow
    <3> HIDE DEF l
    <3>4. /\ Left(E[row]) = AddVec(Left(Swapped(p)[row]), Left(l))
          /\ Left(Swapped(p)[row]) \in Vec /\ Left(l) \in Vec
      BY <1>1, <3>1, <3>3, RowTypes, Zero
    <3>5. Dot(Left(E[row]), w) = Xor(Dot(Left(Swapped(p)[row]), w), Dot(Left(l), w))
      BY <3>4, DotAssumption
    <3> QED BY <1>1, <1>5, <1>6, <2>2, <3>3, <3>5 DEF MovedValue, s
  <2>3. CASE row # pivotRow /\ ~(row > p)
    <3>1. E[row] = Swapped(p)[row] BY <1>1, <2>3, EliminatedRows
    <3> QED BY <1>6, <2>3, <3>1 DEF MovedValue
  <2> QED BY <2>1, <2>2, <2>3
<1>8. MatrixVectorMul(LeftRows(E), w) = [row \in Rows |-> Dot(Left(E[row]), w)]
  BY DEF MatrixVectorMul, LeftRows
<1> HIDE DEF E
<1>9. MatrixVectorMul(LeftRows(E), w) = Moved(p, v) BY <1>7, <1>8 DEF Moved
<1> QED BY <1>4, <1>9 DEF E, v

\* No pass of echelonForm changes whether the matrix has rank m.
LEMMA EliminateRank ==
  ASSUME NEW p, LegalPivot(p)
  PROVE  Onto(LeftRows(Eliminate(p))) <=> Onto(LeftRows(B))
<1> DEFINE E == LeftRows(Eliminate(p))
           L == LeftRows(B)
<1>1. \A i \in Rows : L[i] \in Vec /\ E[i] \in Vec
  <2>1. \A i \in Rows : B[i] \in AugVec /\ Eliminate(p)[i] \in AugVec
    BY EliminatedRows DEF LegalPivot
  <2> QED BY <2>1, RowTypes, Zero DEF LeftRows
<1>2. /\ Onto(L) <=> \A v \in Values : \E w \in Vec : MatrixVectorMul(L, w) = v
      /\ Onto(E) <=> \A v \in Values : \E w \in Vec : MatrixVectorMul(E, w) = v
  BY <1>1, OntoMeans
<1>3. \A w \in Vec : /\ MatrixVectorMul(L, w) \in Values
                     /\ MatrixVectorMul(E, w) = Moved(p, MatrixVectorMul(L, w))
  BY EliminateValues
<1> HIDE DEF E, L
<1>4. ASSUME Onto(L), NEW u \in Values PROVE \E w \in Vec : MatrixVectorMul(E, w) = u
  <2>1. PICK w \in Vec : MatrixVectorMul(L, w) = Unmoved(p, u) BY <1>2, <1>4, MovedBijection
  <2>2. MatrixVectorMul(E, w) = u BY <1>3, <1>4, <2>1, MovedBijection
  <2> QED BY <2>2
<1>5. ASSUME Onto(E), NEW v \in Values PROVE \E w \in Vec : MatrixVectorMul(L, w) = v
  <2>1. PICK w \in Vec : MatrixVectorMul(E, w) = Moved(p, v) BY <1>2, <1>5, MovedBijection
  <2>2. Moved(p, MatrixVectorMul(L, w)) = Moved(p, v) BY <1>3, <2>1
  <2>3. MatrixVectorMul(L, w) = v BY <1>3, <1>5, <2>2, MovedBijection
  <2> QED BY <2>3
<1> QED BY <1>2, <1>4, <1>5 DEF E, L
----------------------------------------------------------------------------
(* A staircase that reaches every row solves every right-hand side. *)

\* The rows from i on can be given any values.
SolvableFrom(i) ==
  \A v \in Values : \E w \in Vec : \A j \in Rows : j >= i => Dot(Left(B[j]), w) = v[j]

LEMMA OneMoreRow ==
  ASSUME TypeOK, LeadsEverywhere, NEW i \in Rows, SolvableFrom(i + 1)
  PROVE  SolvableFrom(i)
<1> SUFFICES ASSUME NEW v \in Values
             PROVE  \E w \in Vec : \A j \in Rows : j >= i => Dot(Left(B[j]), w) = v[j]
  BY DEF SolvableFrom
<1>1. /\ \A j \in Rows : j \in Int
      /\ \A d \in Cols : d \in Int /\ d \in AugCols
      /\ \A j \in Rows : Left(B[j]) \in Vec /\ \A d \in Cols : Left(B[j])[d] = B[j][d]
  <2>1. \A j \in Rows : B[j] \in AugVec BY DEF TypeOK
  <2>2. \A j \in Rows : Left(B[j]) \in Vec BY <2>1, RowTypes, Zero
  <2> QED BY <2>2, SizeAssumption DEF Rows, Cols, AugCols, Left
<1>2. PICK w \in Vec : \A j \in Rows : j >= i + 1 => Dot(Left(B[j]), w) = v[j]
  BY DEF SolvableFrom
<1>3. PICK c \in Cols :
        /\ B[i][c] = 1
        /\ \A j \in Rows, e \in AugCols : j >= i /\ e <= c /\ <<j, e>> # <<i, c>> => B[j][e] = 0
  BY DEF LeadsEverywhere
<1> DEFINE s == Xor(v[i], Dot(Left(B[i]), w))
           x == [w EXCEPT ![c] = Xor(w[c], s)]
<1>4. /\ \A j \in Rows : v[j] \in F /\ Dot(Left(B[j]), w) \in F
      /\ w[c] \in F
  BY <1>1, DotAssumption DEF Values, Vec
<1>5. s \in F BY <1>4, XorClosed
<1>6. x \in Vec
  <2>1. Xor(w[c], s) \in F BY <1>4, <1>5, XorClosed
  <2> HIDE DEF s
  <2> QED BY <2>1 DEF Vec
<1> HIDE DEF s
<1>7. ASSUME NEW j \in Rows
      PROVE  Dot(Left(B[j]), x) = Xor(Dot(Left(B[j]), w), Gf16Mul(B[j][c], s))
  <2> DEFINE u == Left(B[j])
  <2>1. u \in Vec /\ u[c] = B[j][c] BY <1>1
  <2> HIDE DEF u
  <2>2. Dot(u, [w EXCEPT ![c] = Xor(w[c], s)]) = Xor(Dot(u, w), Gf16Mul(u[c], s))
    BY <1>5, <2>1, DotAssumption
  <2> QED BY <2>1, <2>2 DEF u
<1> HIDE DEF x
<1>8. ASSUME NEW j \in Rows, j >= i PROVE Dot(Left(B[j]), x) = v[j]
  <2>1. CASE j = i
    <3>1. Gf16Mul(1, s) = s
      <4>1. 1 \in F BY Zero
      <4>2. Gf16Mul(1, s) = Gf16Mul(s, 1) BY <1>5, <4>1, FieldAssumption
      <4> QED BY <1>5, <4>2, Zero
    <3>2. Dot(Left(B[i]), x) = Xor(Dot(Left(B[i]), w), s) BY <1>3, <1>7, <3>1
    <3>3. s = Xor(Dot(Left(B[i]), w), v[i]) BY <1>4, FieldAssumption DEF s
    <3> QED BY <1>4, <2>1, <3>2, <3>3, XorCancel
  <2>2. CASE j # i
    <3>1. B[j][c] = 0 BY <1>1, <1>3, <1>8, <2>2
    <3>2. Gf16Mul(B[j][c], s) = 0 BY <1>5, <3>1, Zero
    <3>3. j >= i + 1 BY <1>1, <1>8, <2>2
    <3> QED BY <1>2, <1>4, <1>7, <3>2, <3>3, Zero
  <2> QED BY <2>1, <2>2
<1> QED BY <1>6, <1>8

LEMMA FullRankOnto ==
  ASSUME TypeOK, LeadsEverywhere
  PROVE  Onto(LeftRows(B))
<1> DEFINE T == {n \in Nat : n <= m => SolvableFrom(m - n)}
<1>1. m \in Nat BY SizeAssumption
<1>2. 0 \in T
  <2>1. \A j \in Rows : ~(j >= m) BY SizeAssumption DEF Rows
  <2>2. ZeroVector \in Vec BY Zero DEF ZeroVector, Vec
  <2>3. SolvableFrom(m) BY <2>1, <2>2 DEF SolvableFrom
  <2> QED BY <1>1, <2>3
<1>3. ASSUME NEW n \in T PROVE n + 1 \in T
  <2> SUFFICES ASSUME n + 1 <= m PROVE SolvableFrom(m - (n + 1))
    BY <1>3
  <2>1. n \in Nat /\ SolvableFrom(m - n) BY <1>1, <1>3
  <2>2. m - (n + 1) \in Rows /\ (m - (n + 1)) + 1 = m - n BY <1>1, <2>1 DEF Rows
  <2> QED BY <2>1, <2>2, OneMoreRow
<1>4. T \in SUBSET Nat OBVIOUS
<1> HIDE DEF T
<1>5. m \in T BY <1>1, <1>2, <1>3, <1>4, SetInduction
<1>6. SolvableFrom(0)
  <2>1. m - m = 0 /\ m <= m BY <1>1
  <2> QED BY <1>5, <2>1 DEF T
<1>7. \A i \in Rows : LeftRows(B)[i] \in Vec /\ LeftRows(B)[i] = Left(B[i]) /\ i >= 0
  <2>1. \A j \in Rows : B[j] \in AugVec BY DEF TypeOK
  <2> QED BY <2>1, RowTypes, Zero DEF LeftRows, Rows
<1>8. ASSUME NEW v \in Values PROVE \E w \in Vec : MatrixVectorMul(LeftRows(B), w) = v
  <2>1. PICK w \in Vec : \A j \in Rows : j >= 0 => Dot(Left(B[j]), w) = v[j]
    BY <1>6 DEF SolvableFrom
  <2>2. MatrixVectorMul(LeftRows(B), w) = [i \in Rows |-> v[i]]
    BY <1>7, <2>1 DEF MatrixVectorMul
  <2> QED BY <2>2 DEF Values
<1> QED BY <1>7, <1>8, OntoMeans

\* A row of zeros never takes another value.
LEMMA ZeroRowNotOnto ==
  ASSUME TypeOK, RankDeficient
  PROVE  ~Onto(LeftRows(B))
<1>1. /\ m - 1 \in Rows /\ \A i \in Rows : LeftRows(B)[i] \in Vec
      /\ LeftRows(B)[m - 1] = ZeroVector
  <2>1. \A j \in Rows : B[j] \in AugVec BY DEF TypeOK
  <2> QED BY <2>1, RowTypes, Zero, SizeAssumption DEF LeftRows, Rows, RankDeficient
<1>2. ASSUME NEW w \in Vec PROVE Dot(ZeroVector, w) = 0
  <2>1. ZeroVector \in Vec BY Zero DEF ZeroVector, Vec
  <2>2. MultiplyVecConstant(0, ZeroVector) = ZeroVector
    BY Zero DEF MultiplyVecConstant, ZeroVector
  <2>3. Dot(ZeroVector, w) = Gf16Mul(0, Dot(ZeroVector, w)) BY <2>1, <2>2, Zero, DotAssumption
  <2>4. Dot(ZeroVector, w) \in F BY <2>1, DotAssumption
  <2> QED BY <2>3, <2>4, Zero
<1> DEFINE v == [i \in Rows |-> 1]
<1>3. v \in Values BY Zero DEF Values
<1>4. ASSUME NEW w \in Vec, MatrixVectorMul(LeftRows(B), w) = v PROVE FALSE
  <2>1. MatrixVectorMul(LeftRows(B), w)[m - 1] = 0 BY <1>1, <1>2 DEF MatrixVectorMul
  <2> QED BY <1>1, <1>4, <2>1, Zero
<1> HIDE DEF v
<1> QED BY <1>1, <1>3, <1>4, OntoMeans

\* Rank of (A y) and rank of A are the same throughout, and the call gives up
\* only at a last row of zeros.
RankInv ==
  /\ Onto(LeftRows(B)) <=> Onto(A)
  /\ pc = "done" /\ ~hasSolution => RankDeficient

LEMMA InitRank == Init => RankInv
<1> SUFFICES ASSUME Init PROVE RankInv OBVIOUS
<1>1. A \in [Rows -> Vec] BY DEF Init
<1>2. \A i \in Rows : B[i] = [c \in AugCols |-> IF c < ko THEN A[i][c]
                                 ELSE AddVec(y, MatrixVectorMul(A, R))[i]]
  BY DEF Init, Randomized, appendVecToMatrix
<1>3. \A c \in Cols : c \in AugCols /\ c < ko BY SizeAssumption DEF AugCols, Cols
<1>4. ASSUME NEW i \in Rows PROVE Left(B[i]) = A[i]
  <2>1. Left(B[i]) = [c \in Cols |-> A[i][c]] BY <1>2, <1>3 DEF Left
  <2>2. A[i] = [c \in Cols |-> A[i][c]] BY <1>1 DEF Vec
  <2> QED BY <2>1, <2>2
<1>5. LeftRows(B) = A BY <1>1, <1>4 DEF LeftRows
<1> QED BY <1>5 DEF RankInv, Init

LEMMA NextRank == IndInv /\ RankInv /\ [Next]_vars => RankInv'
<1> SUFFICES ASSUME IndInv, RankInv, [Next]_vars PROVE RankInv' OBVIOUS
<1>1. ASSUME A' = A, B' = B, pc' # "done" \/ hasSolution' \/ UNCHANGED <<pc, hasSolution>>
      PROVE  RankInv'
  BY <1>1 DEF RankInv, Onto, LeftRows, RankDeficient
<1>2. CASE NextColumn
  <2>1. A' = A /\ B' = B /\ UNCHANGED <<pc, hasSolution>> BY <1>2 DEF NextColumn, args
  <2> QED BY <1>1, <2>1
<1>3. CASE Pivot
  <2>1. PICK p \in PossiblePivots : (\A q \in PossiblePivots : p <= q) /\ B' = Eliminate(p)
    BY <1>3 DEF Pivot
  <2>2. LegalPivot(p)
    <3>1. pivotRow \in 0 .. m - 1 /\ pivotColumn \in 0 .. ko
      BY <1>3, SizeAssumption DEF IndInv, TypeOK, Pivot, Scanning
    <3> QED BY <2>1, <3>1 DEF LegalPivot, IndInv, TypeOK
  <2>3. A' = A /\ pc' = "echelon" BY <1>3 DEF Pivot, Scanning, args
  <2>4. Onto(LeftRows(B')) <=> Onto(LeftRows(B)) BY <2>1, <2>2, EliminateRank
  <2>5. Onto(LeftRows(B))' = Onto(LeftRows(B')) /\ Onto(A)' = Onto(A)
    BY <2>3 DEF Onto, LeftRows
  <2> QED BY <2>3, <2>4, <2>5 DEF RankInv
<1>4. CASE GiveUp
  <2>1. RankDeficient /\ A' = A /\ B' = B BY <1>4 DEF GiveUp, args
  <2> QED BY <2>1 DEF RankInv, Onto, LeftRows, RankDeficient
<1>5. CASE StartBackSubstitution
  <2>1. A' = A /\ B' = B /\ pc' = "backsub" BY <1>5 DEF StartBackSubstitution, args
  <2> QED BY <1>1, <2>1
<1>6. CASE BackSubstitute
  <2>1. A' = A /\ B' = B /\ UNCHANGED <<pc, hasSolution>> BY <1>6 DEF BackSubstitute, args
  <2> QED BY <1>1, <2>1
<1>7. CASE Return
  <2>1. A' = A /\ B' = B /\ hasSolution' = TRUE BY <1>7 DEF Return, args
  <2> QED BY <1>1, <2>1
<1>8. CASE UNCHANGED vars BY <1>1, <1>8 DEF vars
<1> QED BY <1>2, <1>3, <1>4, <1>5, <1>6, <1>7, <1>8 DEF Next

\* In every reachable state of the solver the rows worked on have rank m if and
\* only if A has, and (nil, false) comes with a last row of zeros.
THEOREM RankInvariance == Spec => []RankInv
<1>1. Init => RankInv BY InitRank
<1>2. IndInv /\ RankInv /\ [Next]_vars => RankInv' BY NextRank
<1> QED BY <1>1, <1>2, Invariance, PTL DEF Spec

\* sampleSolution says (nil, false) for the systems that have no full rank and
\* for no other: no attempt of Sign is thrown away, and none is kept wrongly,
\* although the pivots were searched in the column of y too.
THEOREM RankCheckExactHolds == Spec => []RankCheckExact
<1>1. IndInv /\ RankInv => RankCheckExact
  <2> SUFFICES ASSUME IndInv, RankInv, pc = "done" PROVE hasSolution <=> Onto(A)
    BY DEF RankCheckExact
  <2>1. ASSUME hasSolution PROVE Onto(A)
    BY <2>1, FullRankOnto DEF IndInv, Control, RankInv
  <2>2. ASSUME ~hasSolution PROVE ~Onto(A)
    BY <2>2, ZeroRowNotOnto DEF IndInv, RankInv
  <2> QED BY <2>1, <2>2
<1> QED BY <1>1, Invariance, RankInvariance, PTL

\* Every step of the call is a step of the promise or leaves it as it is: the
\* safety part of ImplementsPromise.
THEOREM PromiseKept == Spec => Promise!Safety
<1>1. Init => Promise!Init
  <2> SUFFICES ASSUME Init PROVE Promise!Init OBVIOUS
  <2>1. A \in [Rows -> Vec] /\ y \in [Rows -> F] /\ pc # "done" BY DEF Init
  <2> QED BY <2>1 DEF Promise!Init, Promise!Equations, Promise!Unknowns, Rows, Vec, Cols
<1>2. IndInv /\ RankInv /\ IndInv' /\ RankInv' /\ SolutionCorrect' /\ RankCheckExact' /\ [Next]_vars
        => [Promise!Answer]_(Promise!vars)
  <2> SUFFICES ASSUME IndInv, RankInv, IndInv', RankInv', SolutionCorrect', RankCheckExact', [Next]_vars
               PROVE  [Promise!Answer]_(Promise!vars)
    OBVIOUS
  <2>1. A' = A /\ y' = y
    BY DEF Next, NextColumn, Pivot, GiveUp, StartBackSubstitution, BackSubstitute, Return, vars, args
  <2>2. ASSUME pc # "done", pc' # "done" PROVE UNCHANGED Promise!vars
    BY <2>1, <2>2 DEF Promise!vars
  <2>3. ASSUME pc = "done" PROVE UNCHANGED Promise!vars
    BY <2>1, <2>3 DEF Promise!vars, Next, NextColumn, Pivot, GiveUp, StartBackSubstitution,
         BackSubstitute, Return, vars, Scanning, EchelonDone
  <2>4. ASSUME pc # "done", pc' = "done", hasSolution' PROVE Promise!Answer
    <3>1. xVec' \in Vec /\ MatrixVectorMul(A', xVec') = y'
      BY <2>4 DEF IndInv, TypeOK, SolutionCorrect, MatrixVectorMul
    <3>2. xVec' \in Promise!Solutions
      <4>1. \A i \in Rows : MatrixVectorMul(A', xVec')[i] = Dot(A'[i], xVec') BY DEF MatrixVectorMul
      <4> QED BY <2>1, <3>1, <4>1 DEF Promise!Solutions, Promise!Unknowns, Promise!Equations, Vec, Cols, Rows
    <3> QED BY <2>1, <2>4, <3>2 DEF Promise!Answer
  <2>5. ASSUME pc # "done", pc' = "done", ~hasSolution' PROVE Promise!Answer
    <3>1. ~Onto(A) BY <2>1, <2>5 DEF RankCheckExact, Onto
    <3>2. Promise!Deficient
      BY <3>1 DEF Onto, Promise!Deficient, Promise!Unknowns, Promise!Equations, Vec, Cols, Rows
    <3> QED BY <2>1, <2>5, <3>2 DEF Promise!Answer
  <2> QED BY <2>2, <2>3, <2>4, <2>5
<1>3. [](IndInv /\ RankInv /\ SolutionCorrect /\ RankCheckExact) /\ [][Next]_vars
        => [][Promise!Answer]_(Promise!vars)
  BY <1>2, PTL
<1> QED BY <1>1, <1>3, Invariance, RankInvariance, SolutionCorrectHolds, RankCheckExactHolds, PTL
    DEF Spec, Promise!Safety
============================================================================
