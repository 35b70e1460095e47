CONSTANTS
  Inputs <- MCInputs
  Garbage <- MCGarbage
SPECIFICATION MCSpec
INVARIANTS
  PublishedHashes
PROPERTY ImplementsKeccakP
CHECK_DEADLOCK FALSE
