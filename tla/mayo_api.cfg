CONSTANTS
  mayo <- MCMayo
  Shake256 <- MCShake256
  Aes128ctr <- MCAes128ctr
  RandomBytes <- MCRandomBytes
  Messages <- MCMessages
  Damage <- OneBitFlipped
  MaxAttempts = 3
SPECIFICATION Spec
INVARIANTS
  SystemSound
  SignatureOpens
  VerifyExact
  PanicOnlyIfExhausted
CHECK_DEADLOCK FALSE
