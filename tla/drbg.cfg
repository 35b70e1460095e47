CONSTANTS
  ByteBase = 4
  BlockLen = 2
  Aes <- MCAes
  Seeds <- MCSeeds
  Lengths <- MCLengths
  MaxCalls = 3
SPECIFICATION Spec
PROPERTIES
  NoBlockTwice
  ImplementsCtrDrbg
CHECK_DEADLOCK FALSE
