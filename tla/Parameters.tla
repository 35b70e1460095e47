---------------------------- MODULE Parameters ----------------------------
(***************************************************************************)
(* src/mayo/parameters.go: the parameter sets and the sizes derived from   *)
(* them.  Go's Mayo struct is a record; its field tables are module GF16.  *)
(* All sizes are far below 2^53, so math.Ceil(float64(a)/2.0) is HalfUp(a).*)
(***************************************************************************)
EXTENDS Integers

HalfUp(a) == (a + 1) \div 2

\* What makes initMayo panic.
PanicMessage(n, o, k, q) ==
  IF q # 16 THEN "q is fixed to be 16" ELSE IF k >= n - o THEN "k should be smaller than n-o" ELSE ""

initMayo(n, m, o, k, q, saltBytes, digestBytes, pkSeedBytes, tailF) ==
  LET v       == n - o
      oBytes  == HalfUp(v * o)
      p1Bytes == (m * ((v * (v + 1)) \div 2)) \div 2
      p2Bytes == (m * v * o) \div 2
      p3Bytes == (m * (((o + 1) * o) \div 2)) \div 2
      lBytes  == (m * v * o) \div 2
  IN [q |-> q, m |-> m, n |-> n, o |-> o, k |-> k, v |-> v,
      shifts      |-> (k * (k + 1)) \div 2,
      tailF       |-> tailF,
      saltBytes   |-> saltBytes,
      digestBytes |-> digestBytes,
      pkSeedBytes |-> pkSeedBytes,
      skSeedBytes |-> saltBytes,
      rBytes      |-> saltBytes,
      oBytes      |-> oBytes,
      vBytes      |-> HalfUp(v),
      p1Bytes     |-> p1Bytes,
      p2Bytes     |-> p2Bytes,
      p3Bytes     |-> p3Bytes,
      lBytes      |-> lBytes,
      cskBytes    |-> saltBytes,
      eskBytes    |-> saltBytes + oBytes + p1Bytes + lBytes,
      cpkBytes    |-> pkSeedBytes + p3Bytes,
      epkBytes    |-> p1Bytes + p2Bytes + p3Bytes,
      sigBytes    |-> HalfUp(n * k) + saltBytes]

\* The coefficients of tailF, as a slice.
TailF(a, b, c, d) == [i \in 0 .. 3 |-> CASE i = 0 -> a [] i = 1 -> b [] i = 2 -> c [] i = 3 -> d]

SecurityLevels == {1, 2, 3, 5}

\* Mutant: m of level 3 mistyped.
InitMayoOddM(securityLevel) ==
  CASE securityLevel = 1 -> initMayo(86, 78, 8, 10, 16, 24, 32, 16, TailF(8, 1, 1, 0))
    [] securityLevel = 2 -> initMayo(81, 64, 17, 4, 16, 24, 32, 16, TailF(8, 0, 2, 8))
    [] securityLevel = 3 -> initMayo(118, 107, 10, 11, 16, 32, 48, 16, TailF(8, 0, 1, 7))
    [] securityLevel = 5 -> initMayo(154, 142, 12, 12, 16, 40, 64, 16, TailF(4, 0, 8, 1))

\* InitMayo for a level it accepts; for any other it returns an error.
InitMayo(securityLevel) ==
  CASE securityLevel = 1 -> initMayo(86, 78, 8, 10, 16, 24, 32, 16, TailF(8, 1, 1, 0))
    [] securityLevel = 2 -> initMayo(81, 64, 17, 4, 16, 24, 32, 16, TailF(8, 0, 2, 8))
    [] securityLevel = 3 -> initMayo(118, 108, 10, 11, 16, 32, 48, 16, TailF(8, 0, 1, 7))
    [] securityLevel = 5 -> initMayo(154, 142, 12, 12, 16, 40, 64, 16, TailF(4, 0, 8, 1))
============================================================================
