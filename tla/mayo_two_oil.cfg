CONSTANTS
  mayo <- MCMayoTwoOil
  Shake256 <- MCShake256
  Aes128ctr <- MCAes128ctr
  RandomBytes <- MCRandomBytes
  Messages <- OneMessage
  Damage <- NoDamage
  MaxAttempts = 3
SPECIFICATION Spec
INVARIANTS
  OilVanishes
  SignatureOpens
CHECK_DEADLOCK FALSE
