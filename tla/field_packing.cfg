CONSTANTS
  Vectors <- MCVectors
  Shapes <- MCShapes
  Lists <- MCLists
SPECIFICATION MCSpec
INVARIANTS
  RoundTrip
  SizeAsDerived
  EntriesAreProducts
  TablesAreField
PROPERTY InverseWrittenOnce
CHECK_DEADLOCK FALSE
