CONSTANTS
  F <- GF4
  Xor <- MCXor
  Gf16Mul <- MCMul
  Gf16Inv <- MCInv
  Dot <- MCDot
  m = 3
  ko = 3
  Rands <- OneVector
SPECIFICATION MCSpec
INVARIANTS
  TypeOK
  EchelonShape
  SolutionsPreserved
  ResidualTracked
  RankCheckExact
  SolutionCorrect
PROPERTY ImplementsPromise
CHECK_DEADLOCK FALSE
