----------------------------- MODULE Matrices -----------------------------
(***************************************************************************)
(* The vector and matrix operations of src/field/field.go and              *)
(* src/mayo/matrix.go.                                                     *)
(***************************************************************************)
EXTENDS GF16

AddVec(a, b) ==
  IF SliceLen(a) = SliceLen(b)
  THEN [i \in DOMAIN a |-> GfXor(a[i], b[i])]
  ELSE Panic("Cannot add vectors of different lengths")

AddMatrices(M, N) ==
  IF SliceLen(M) = SliceLen(N)
  THEN [i \in DOMAIN M |-> AddVec(M[i], N[i])]
  ELSE Panic("Cannot add matrices")

VectorTransposedMatrixMul(vec, matrix) ==
  IF SliceLen(matrix) # 0 /\ SliceLen(vec) = SliceLen(matrix)
  THEN [i \in DOMAIN matrix[0] |-> SumOf([j \in DOMAIN vec |-> GfMul(vec[j], matrix[j][i])])]
  ELSE Panic("row count")

MatrixVectorMul(matrix, vec) ==
  IF SliceLen(matrix) # 0 /\ SliceLen(vec) = SliceLen(matrix[0])
  THEN [i \in DOMAIN matrix |-> SumOf([j \in DOMAIN vec |-> GfMul(vec[j], matrix[i][j])])]
  ELSE Panic("column count")

MultiplyMatrices(M, N) ==
  IF SliceLen(M[0]) = SliceLen(N)
  THEN [i \in DOMAIN M |-> [j \in DOMAIN N[0] |->
          SumOf([k \in DOMAIN N |-> GfMul(M[i][k], N[k][j])])]]
  ELSE Panic("Cannot multiply matrices")

transposeVector(vec) == [i \in {0} |-> vec]

transposeMatrix(M) == [i \in DOMAIN M[0] |-> [j \in DOMAIN M |-> M[j][i]]]

\* Mutant: the lower triangle is dropped instead of added to the upper one.
upperDropped(matrix) ==
  [i \in DOMAIN matrix |-> [j \in DOMAIN matrix |-> IF i <= j THEN matrix[i][j] ELSE 0]]

\* Folds the lower triangle onto the upper one: the same quadratic form.
upper(matrix) ==
  [i \in DOMAIN matrix |-> [j \in DOMAIN matrix |->
     CASE i < j -> GfXor(matrix[i][j], matrix[j][i])
       [] i = j -> matrix[i][j]
       [] i > j -> 0]]
============================================================================
