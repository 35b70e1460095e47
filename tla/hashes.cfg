CONSTANTS
  Permute <- Mix
  Contexts = {c1, c2}
  BlockContexts = {d1, d2}
  Blocks = {b1, b2}
  Algorithms <- Both
  ChunkLengths = {1, 135}
  Chunks <- MCChunks
  Lengths = {3, 137}
  MessageLengths = {0, 71, 72, 73, 103, 104, 135, 136, 137, 167, 168, 169, 340}
  Inputs <- MCInputs
  Messages <- MCMessages
  OutLengths = {1, 135, 136, 137, 168, 169, 336}
  Counts = {1, 2}
  Garbage <- NoisyBit
  MaxCalls = 5
SYMMETRY AnyName
SPECIFICATION MCSpec
INVARIANTS
  CountBelowRate
  Ownership
  OneOwner
  OutputIsStandard
  OneShotIsStandard
  BlocksAreStandard
PROPERTY ImplementsSponges
CHECK_DEADLOCK FALSE
