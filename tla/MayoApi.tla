------------------------------ MODULE MayoApi ------------------------------
(***************************************************************************)
(* A caller of package mayo, as main.go, the tests and the benchmark are:  *)
(* CompactKeyGen, then APISign on a message, then APISignOpen on what      *)
(* arrived.  Sign is taken apart at its loop: an attempt derives v and     *)
(* builds A x = y, calls sampleSolution, and is repeated with the next ctr *)
(* while there is no solution.                                             *)
(*                                                                         *)
(* The solver is its promise, module LinearSystem, which SampleSolution    *)
(* implements: any solution of the system may come back.                   *)
(***************************************************************************)
EXTENDS Mayo

CONSTANTS
  RandomBytes(_),     \* the slices SampleRandomBytes may return for a length
  Messages,           \* the messages the caller signs
  Damage(_),          \* the signed messages that may arrive in place of one
  MaxAttempts         \* 256 in the code

ASSUME ApiAssumption == MaxAttempts \in Nat \ {0}

VARIABLES
  csk, cpk,                       \* the key pair
  esk,                            \* decoded, as Sign holds it
  message, mDigest, salt, target, \* target is t
  ctr, vinegar,                   \* vinegar is v
  A, y, done, answer,             \* the call of sampleSolution
  sm,                             \* the signed message
  damaged,                        \* whether it arrived changed; not in the code
  result, opened,                 \* what APISignOpen returns, opened = <<>> for nil
  pc

keys    == <<csk, cpk>>
hashed  == <<esk, message, mDigest, salt, target>>
attempt == <<ctr, vinegar>>
solver  == <<A, y, done, answer>>
outcome == <<result, opened>>
vars    == <<keys, hashed, attempt, solver, sm, damaged, outcome, pc>>

Solver == INSTANCE LinearSystem WITH F <- Gf16, Dot <- VecInnerProduct,
                                     m <- mayo.m, ko <- mayo.k * mayo.o

Init ==
  /\ csk = <<>> /\ cpk = <<>> /\ esk = <<>>
  /\ message = <<>> /\ mDigest = <<>> /\ salt = <<>> /\ target = <<>>
  /\ ctr = 0 /\ vinegar = <<>>
  /\ A = <<>> /\ y = <<>> /\ done = FALSE /\ answer = {}
  /\ sm = <<>> /\ damaged = FALSE
  /\ result = -1 /\ opened = <<>>
  /\ pc = "start"

KeyGen ==
  /\ pc = "start"
  /\ \E seedSk \in RandomBytes(mayo.skSeedBytes) :
       csk' = seedSk /\ cpk' = CompactKeyGen(seedSk)
  /\ pc' = "keys"
  /\ UNCHANGED <<hashed, attempt, solver, sm, damaged, outcome>>

\* APISign and the part of Sign before its loop.
StartSign ==
  /\ pc = "keys"
  /\ esk' = DecodeEsk(ExpandSK(csk))
  /\ \E M \in Messages, R \in RandomBytes(mayo.rBytes) :
       /\ message' = M
       /\ mDigest' = HashMessage(M)
       /\ salt' = Shake256(mayo.saltBytes, Concat3(mDigest', R, esk'.seedSk))
  /\ target' = HashToTarget(mDigest', salt')
  /\ ctr' = 0
  /\ pc' = "attempt"
  /\ UNCHANGED <<keys, vinegar, solver, sm, damaged, outcome>>

BuildSystem ==
  /\ pc = "attempt"
  /\ LET v      == DeriveAttempt(mDigest, salt, esk.seedSk, ctr).v
         system == LinearSystemOf(v, esk.P1, esk.L, target)
     IN vinegar' = v /\ A' = system.A /\ y' = system.y
  /\ done' = FALSE /\ answer' = {}
  /\ pc' = "solve"
  /\ UNCHANGED <<keys, hashed, ctr, sm, damaged, outcome>>

SampleSolution ==
  /\ pc = "solve"
  /\ Solver!Answer
  /\ pc' = "answered"
  /\ UNCHANGED <<keys, hashed, attempt, sm, damaged, outcome>>

\* The end of Sign and of APISign: sig = encoded s, salt; then sig || M.
SignedMessage(v, x) ==
  LET sig == Concat(encodeVec(SignatureVector(v, esk.O, x)), salt)
  IN CopyAt(CopyAt(Zeros(mayo.sigBytes + SliceLen(message)), 0, sig), mayo.sigBytes, message)

\* Mutant: the vectors of the next attempt are used with the solution of this one.
EmitSignatureNextV ==
  /\ pc = "answered" /\ answer # {}
  /\ \E x \in answer :
       sm' = SignedMessage(DeriveAttempt(mDigest, salt, esk.seedSk, ctr + 1).v, x)
  /\ pc' = "signed"
  /\ UNCHANGED <<keys, hashed, attempt, solver, damaged, outcome>>

\* The break out of the loop, the signature, and the copy of M behind it.
EmitSignature ==
  /\ pc = "answered" /\ answer # {}
  /\ \E x \in answer :
       sm' = SignedMessage(vinegar, x)
  /\ pc' = "signed"
  /\ UNCHANGED <<keys, hashed, attempt, solver, damaged, outcome>>

\* Mutant: the loop gives up after the first attempt.
NextAttemptNever ==
  /\ pc = "answered" /\ answer = {}
  /\ IF FALSE THEN ctr' = ctr + 1 /\ pc' = "attempt" ELSE UNCHANGED ctr /\ pc' = "panic"
  /\ UNCHANGED <<keys, hashed, vinegar, solver, sm, damaged, outcome>>

\* After the last attempt x is still nil, and x[0:o] panics.
NextAttempt ==
  /\ pc = "answered" /\ answer = {}
  /\ IF ctr + 1 < MaxAttempts THEN ctr' = ctr + 1 /\ pc' = "attempt"
                              ELSE UNCHANGED ctr /\ pc' = "panic"
  /\ UNCHANGED <<keys, hashed, vinegar, solver, sm, damaged, outcome>>

\* What arrives may be the signed message or a damaged one.
Transmit ==
  /\ pc = "signed"
  /\ \E arrived \in {sm} \cup Damage(sm) : sm' = arrived /\ damaged' = (arrived # sm)
  /\ pc' = "sent"
  /\ UNCHANGED <<keys, hashed, attempt, solver, outcome>>

Open ==
  /\ pc = "sent"
  /\ LET M == Slice(sm, mayo.sigBytes, SliceLen(sm))
     IN /\ result' = Verify(ExpandPK(cpk), M, Slice(sm, 0, mayo.sigBytes))
        /\ opened' = IF result' < 0 THEN <<>> ELSE M
  /\ pc' = "opened"
  /\ UNCHANGED <<keys, hashed, attempt, solver, sm, damaged>>

Next == \/ KeyGen \/ StartSign \/ BuildSystem \/ SampleSolution \/ EmitSignature
        \/ NextAttempt \/ Transmit \/ Open

Spec == Init /\ [][Next]_vars
----------------------------------------------------------------------------
(* The MAYO map, defined without the loops of the code *)

\* The quadratic form of equation a at s, entry by entry.
Quad(P, a, s) ==
  SumOf([p \in (0 .. mayo.n - 1) \X (0 .. mayo.n - 1) |->
           GfMul(s[p[1]], GfMul(P[a][p[1]][p[2]], s[p[2]]))])

Forms(P, s) == [a \in 0 .. mayo.m - 1 |-> Quad(P, a, s)]

\* Multiplication by z in GF(16)[z]/(z^m + tailF).
TimesZ(u) ==
  [d \in 0 .. mayo.m - 1 |->
     GfXor(IF d = 0 THEN 0 ELSE u[d - 1],
           IF d \in DOMAIN mayo.tailF THEN GfMul(u[mayo.m - 1], mayo.tailF[d]) ELSE 0)]

\* u_ij = P(s_i + s_j) - P(s_i) - P(s_j) for i < j, and u_ii = P(s_i).
PolarForm(P, s, i, j) ==
  IF i = j THEN Forms(P, s[i])
  ELSE AddVec(Forms(P, AddVec(s[i], s[j])), AddVec(Forms(P, s[i]), Forms(P, s[j])))

\* Horner's rule over the pairs (i, k-1) .. (i, i), from the last one back.
HornerRow(u, i, later) ==
  LET from[j \in i - 1 .. mayo.k - 1] ==
        IF j = i - 1 THEN later ELSE AddVec(u[<<i, j>>], TimesZ(from[j - 1]))
  IN from[mayo.k - 1]

HornerSum(u) ==
  LET row[i \in 0 .. mayo.k] ==
        IF i = mayo.k THEN Zeros(mayo.m) ELSE HornerRow(u, i, row[i + 1])
  IN row[0]

\* P*(s): the sum of z^l u_ij over the pairs in the order (0,k-1) .. (0,0),
\* (1,k-1) .. (1,1), ..
PStar(P, s) == HornerSum([p \in Pairs |-> PolarForm(P, s, p[1], p[2])])

PublicForms == calculateP(DecodeEpk(ExpandPK(cpk)))
----------------------------------------------------------------------------
(* Properties *)

\* The oil vectors (O x, x) are zeros of every form of the public key: upper,
\* the layouts of cpk and epk and the packing of P3 all have to agree for it.
OilVanishes ==
  pc = "keys" =>
    LET O == DecodeO(DeriveFromSeed(csk).oByteString)
        P == PublicForms
    IN \A x \in [0 .. mayo.o - 1 -> Gf16] :
         Forms(P, Concat(MatrixVectorMul(O, x), x)) = Zeros(mayo.m)

\* The vectors x for which SystemSound compares the two sides.
Probes == [0 .. (mayo.k * mayo.o) - 1 -> {0, 1, 7}]

\* The system of an attempt says what it should for every x, not only for a
\* solution: P*(v + O x, x) - t = A x - y, with A and y built from the secret
\* key and P* from the public key.
SystemSound ==
  pc = "solve" =>
    LET P == PublicForms
    IN \A x \in Probes :
         LET s == SignatureVector(vinegar, esk.O, x)
             parts == [i \in 0 .. mayo.k - 1 |-> Slice(s, i * mayo.n, (i + 1) * mayo.n)]
         IN AddVec(PStar(P, parts), target) = AddVec(MatrixVectorMul(A, x), y)

\* What APISign returned opens under the key pair that signed it.
SignatureOpens == pc = "opened" /\ ~damaged => result = 0 /\ opened = message

\* Verify accepts exactly the solutions of P*(s) = t, whatever arrived: the
\* in-place reduction modulo f and the running ell compute the map.
VerifyExact ==
  pc = "opened" =>
    LET M         == Slice(sm, mayo.sigBytes, SliceLen(sm))
        signature == DecodeSignature(Slice(sm, 0, mayo.sigBytes))
        P         == PublicForms
        solves    == PStar(P, signature.s) = HashToTarget(HashMessage(M), signature.salt)
    IN /\ result = 0 <=> solves
       /\ opened = IF solves THEN M ELSE <<>>

\* Sign is left without a solution only when the matrices of all values of ctr
\* miss rank m: no attempt is skipped, and none is made twice.
PanicOnlyIfExhausted ==
  pc = "panic" =>
    \A c \in 0 .. MaxAttempts - 1 :
      LET v      == DeriveAttempt(mDigest, salt, esk.seedSk, c).v
          system == LinearSystemOf(v, esk.P1, esk.L, target)
          M      == system.A
      IN {MatrixVectorMul(M, x) : x \in [0 .. (mayo.k * mayo.o) - 1 -> Gf16]}
           # [0 .. mayo.m - 1 -> Gf16]
============================================================================
