------------------------------- MODULE Mayo -------------------------------
(***************************************************************************)
(* The algorithms of src/mayo/mayo.go as functions of their arguments: key *)
(* generation and expansion, the linear system of one signing attempt, and *)
(* verification.  Module MayoApi runs them; the solver they call is module *)
(* SampleSolution.                                                         *)
(*                                                                         *)
(* SHAKE256 and AES-128 in counter mode come from Go's library: here they  *)
(* are parameters, functions of the bytes they are given.                  *)
(***************************************************************************)
EXTENDS Matrices, Encode, Parameters

CONSTANTS
  mayo,                \* the Mayo struct, a value of initMayo
  Shake256(_, _),      \* output length, input
  Aes128ctr(_, _)      \* seed, output length

\* What the code needs of its parameters and every parameter set has: m is
\* even, no derived size was changed, and tailF has degree below m, so that the
\* first shift-and-xor of the reductions does not reach the coefficient it folds.
ParametersFit(p) ==
  /\ {p.n, p.m, p.o, p.k, p.saltBytes, p.digestBytes, p.pkSeedBytes} \subseteq Nat
  /\ p.m > 0 /\ p.m % 2 = 0 /\ p.o > 0 /\ p.k > 0
  /\ p.k < p.n - p.o
  /\ p = initMayo(p.n, p.m, p.o, p.k, 16, p.saltBytes, p.digestBytes, p.pkSeedBytes, p.tailF)
  /\ SliceLen(p.tailF) \in 0 .. p.m
  /\ p.tailF \in SliceOf(SliceLen(p.tailF), Gf16)

ASSUME MayoAssumption == ParametersFit(mayo)

Concat3(a, b, c)    == Concat(Concat(a, b), c)
Concat4(a, b, c, d) == Concat(Concat3(a, b, c), d)

intTimesLogQ(product) == HalfUp(product)
----------------------------------------------------------------------------
(* Keys *)

\* The start of CompactKeyGen and of ExpandSK: seedPk and the bytes of O.
DeriveFromSeed(seedSk) ==
  LET S == Shake256(mayo.pkSeedBytes + mayo.oBytes, seedSk)
  IN [seedPk      |-> Slice(S, 0, mayo.pkSeedBytes),
      oByteString |-> Slice(S, mayo.pkSeedBytes, mayo.pkSeedBytes + mayo.oBytes)]

DecodeO(oByteString) == decodeMatrix(mayo.n - mayo.o, mayo.o, oByteString)
DecodeP1(bytes) == decodeMatrices(mayo.m, mayo.v, mayo.v, bytes, TRUE)
DecodeP2(bytes) == decodeMatrices(mayo.m, mayo.v, mayo.o, bytes, FALSE)
DecodeP3(bytes) == decodeMatrices(mayo.m, mayo.o, mayo.o, bytes, TRUE)

\* The compact public key; the compact secret key is seedSk itself.
CompactKeyGen(seedSk) ==
  LET derived == DeriveFromSeed(seedSk)
      O       == DecodeO(derived.oByteString)
      P       == Aes128ctr(derived.seedPk, mayo.p1Bytes + mayo.p2Bytes)
      P1      == DecodeP1(Slice(P, 0, mayo.p1Bytes))
      P2      == DecodeP2(Slice(P, mayo.p1Bytes, mayo.p1Bytes + mayo.p2Bytes))
      P3      == [i \in 0 .. mayo.m - 1 |->
                    upper(MultiplyMatrices(transposeMatrix(O),
                            AddMatrices(MultiplyMatrices(P1[i], O), P2[i])))]
      cpk     == CopyAt(Zeros(mayo.cpkBytes), 0, derived.seedPk)
  IN CopyAt(cpk, mayo.pkSeedBytes, encodeMatrices(mayo.o, mayo.o, P3, TRUE))

ExpandSK(csk) ==
  LET seedSk  == Slice(csk, 0, mayo.skSeedBytes)
      derived == DeriveFromSeed(seedSk)
      O       == DecodeO(derived.oByteString)
      P       == Aes128ctr(derived.seedPk, mayo.p1Bytes + mayo.p2Bytes)
      p1Bytes == Slice(P, 0, mayo.p1Bytes)
      P1      == DecodeP1(p1Bytes)
      P2      == DecodeP2(Slice(P, mayo.p1Bytes, mayo.p1Bytes + mayo.p2Bytes))
      L       == [i \in 0 .. mayo.m - 1 |->
                    AddMatrices(MultiplyMatrices(AddMatrices(P1[i], transposeMatrix(P1[i])), O), P2[i])]
      atP1    == mayo.skSeedBytes + mayo.oBytes
      esk0    == CopyAt(Zeros(mayo.eskBytes), 0, seedSk)
      esk1    == CopyAt(esk0, mayo.skSeedBytes, derived.oByteString)
      esk2    == CopyAt(esk1, atP1, p1Bytes)
  IN CopyAt(esk2, atP1 + mayo.p1Bytes, encodeMatrices(mayo.v, mayo.o, L, FALSE))

ExpandPK(cpk) ==
  LET seedPk == Slice(cpk, 0, mayo.pkSeedBytes)
      p12    == mayo.p1Bytes + mayo.p2Bytes
      epk    == CopyAt(Zeros(mayo.epkBytes), 0, Aes128ctr(seedPk, p12))
  IN CopyAt(epk, p12, Slice(cpk, mayo.pkSeedBytes, mayo.pkSeedBytes + mayo.p3Bytes))

\* What Sign reads from esk.
DecodeEsk(esk) ==
  LET atP1 == mayo.skSeedBytes + mayo.oBytes
      atL  == atP1 + mayo.p1Bytes
  IN [seedSk |-> Slice(esk, 0, mayo.skSeedBytes),
      O      |-> decodeMatrix(mayo.v, mayo.o, Slice(esk, mayo.skSeedBytes, atP1)),
      P1     |-> DecodeP1(Slice(esk, atP1, atL)),
      L      |-> DecodeP2(Slice(esk, atL, mayo.eskBytes))]

\* What Verify reads from epk.
DecodeEpk(epk) ==
  LET p12 == mayo.p1Bytes + mayo.p2Bytes
  IN [P1 |-> DecodeP1(Slice(epk, 0, mayo.p1Bytes)),
      P2 |-> DecodeP2(Slice(epk, mayo.p1Bytes, p12)),
      P3 |-> DecodeP3(Slice(epk, p12, p12 + mayo.p3Bytes))]
----------------------------------------------------------------------------
(* The sums over i <= j of Sign and Verify *)

\* The pairs in the order of the loops: i upwards, j downwards from k-1 to i.
Pairs == {p \in (0 .. mayo.k - 1) \X (0 .. mayo.k - 1) : p[1] <= p[2]}

\* Mutant: j counted upwards.
EllUpwards(i, j) ==
  Cardinality({p \in Pairs : p[1] < i \/ (p[1] = i /\ p[2] < j)})

\* The value of ell at the pair (i, j).
Ell(i, j) == Cardinality({p \in Pairs : p[1] < i \/ (p[1] = i /\ p[2] > j)})

\* u of the pair (i, j): s_i P s_i, or s_i P s_j + s_j P s_i.
PairValue(P, s, i, j) ==
  [a \in 0 .. mayo.m - 1 |->
     IF i = j THEN VecInnerProduct(VectorTransposedMatrixMul(s[i], P[a]), s[i])
     ELSE GfXor(VecInnerProduct(VectorTransposedMatrixMul(s[i], P[a]), s[j]),
                VecInnerProduct(VectorTransposedMatrixMul(s[j], P[a]), s[i]))]

\* y with z^ell * u subtracted for every pair; y has m + shifts entries.
SubtractPairs(y0, P, s) ==
  LET u == [p \in Pairs |-> PairValue(P, s, p[1], p[2])]
  IN [d \in DOMAIN y0 |->
        GfXor(y0[d], SumOf([p \in Pairs |->
                              LET e == d - Ell(p[1], p[2])
                              IN IF e \in 0 .. mayo.m - 1 THEN u[p][e] ELSE 0]))]

\* Mutant: tailF multiplied in one position too high.
FoldCoefficientShifted(y0, i) ==
  [d \in DOMAIN y0 |->
     IF d = i THEN 0
     ELSE IF d - (i - mayo.m) - 1 \in DOMAIN mayo.tailF
     THEN GfXor(y0[d], GfMul(y0[i], mayo.tailF[d - (i - mayo.m) - 1]))
     ELSE y0[d]]

\* One round of the outer loop of reduceVecModF: coefficient i folded back.
FoldCoefficient(y0, i) ==
  [d \in DOMAIN y0 |->
     IF d = i THEN 0
     ELSE IF d - (i - mayo.m) \in DOMAIN mayo.tailF
     THEN GfXor(y0[d], GfMul(y0[i], mayo.tailF[d - (i - mayo.m)]))
     ELSE y0[d]]

reduceVecModF(y0) ==
  LET top == mayo.m + mayo.shifts
      after[i \in mayo.m .. top] == IF i = top THEN y0 ELSE FoldCoefficient(after[i + 1], i)
  IN Slice(after[mayo.m], 0, mayo.m)

\* The same, column by column: the rows are folded from the last down to row m.
reduceAModF(M) ==
  LET reduced == [c \in DOMAIN M[0] |-> reduceVecModF([i \in DOMAIN M |-> M[i][c]])]
  IN [i \in 0 .. mayo.m - 1 |-> [c \in DOMAIN M[0] |-> reduced[c][i]]]
----------------------------------------------------------------------------
(* Sign, one attempt *)

\* V of attempt ctr, split into the v_i and the random vector r.
DeriveAttempt(mDigest, salt, seedSk, ctr) ==
  LET vLen == mayo.k * mayo.vBytes
      rLen == intTimesLogQ(mayo.k * mayo.o)
      V    == Shake256(vLen + rLen, Concat4(mDigest, salt, seedSk, [i \in {0} |-> ctr % 256]))
  IN [v |-> [i \in 0 .. mayo.k - 1 |->
               decodeVec(mayo.n - mayo.o, Slice(V, i * mayo.vBytes, (i + 1) * mayo.vBytes))],
      r |-> decodeVec(mayo.k * mayo.o, Slice(V, vLen, vLen + rLen))]

\* M_i: row j is v_i^T L_j.
BuildM(v, L) ==
  [i \in 0 .. mayo.k - 1 |-> [j \in 0 .. mayo.m - 1 |->
     MultiplyMatrices(transposeVector(v[i]), L[j])[0]]]

\* The entry of the unreduced A in a row and a column of block b = column \div o.
EntryOfA(M, row, column) ==
  LET b == column \div mayo.o
      at(i, e) == M[i][e][column % mayo.o]
  IN SumOf([p \in Pairs |->
              LET e == row - Ell(p[1], p[2])
              IN IF e \notin 0 .. mayo.m - 1 THEN 0
                 ELSE IF b = p[1] THEN at(p[2], e)
                 ELSE IF b = p[2] THEN at(p[1], e)
                 ELSE 0])

\* A and y of A x = y, reduced modulo f.
LinearSystemOf(v, P1, L, t) ==
  LET M    == BuildM(v, L)
      rows == 0 .. mayo.m + mayo.shifts - 1
  IN [A |-> reduceAModF([row \in rows |-> [column \in 0 .. mayo.k * mayo.o - 1 |->
                                             EntryOfA(M, row, column)]]),
      y |-> reduceVecModF(SubtractPairs(CopyAt(Zeros(mayo.m + mayo.shifts), 0, t), P1, v))]

HashMessage(message) == Shake256(mayo.digestBytes, message)

HashToTarget(mDigest, salt) ==
  decodeVec(mayo.m, Shake256(intTimesLogQ(mayo.m), Concat(mDigest, salt)))

\* s_i = (v_i + O x_i, x_i).
SignatureVector(v, O, x) ==
  LET part(i) == LET xi == Slice(x, i * mayo.o, (i + 1) * mayo.o)
                 IN Concat(AddVec(v[i], MatrixVectorMul(O, xi)), xi)
      upTo[i \in 0 .. mayo.k] == IF i = 0 THEN <<>> ELSE Concat(upTo[i - 1], part(i - 1))
  IN upTo[mayo.k]
----------------------------------------------------------------------------
(* Verify *)

calculateP(keys) ==
  [a \in 0 .. mayo.m - 1 |-> [row \in 0 .. mayo.n - 1 |-> [column \in 0 .. mayo.n - 1 |->
     CASE row < mayo.v /\ column < mayo.v   -> keys.P1[a][row][column]
       [] row < mayo.v /\ column >= mayo.v  -> keys.P2[a][row][column - mayo.v]
       [] row >= mayo.v /\ column >= mayo.v -> keys.P3[a][row - mayo.v][column - mayo.v]
       [] OTHER -> 0]]]

\* The salt and the k vectors of a signature.
DecodeSignature(sig) ==
  LET nkHalf == HalfUp(mayo.n * mayo.k)
      s      == decodeVec(mayo.k * mayo.n, sig)
  IN [salt |-> Slice(sig, nkHalf, nkHalf + mayo.saltBytes),
      s    |-> [i \in 0 .. mayo.k - 1 |-> Slice(s, i * mayo.n, (i + 1) * mayo.n)]]

Verify(epk, message, sig) ==
  LET decoded == DecodeSignature(sig)
      t       == HashToTarget(HashMessage(message), decoded.salt)
      y       == reduceVecModF(SubtractPairs(Zeros(mayo.m + mayo.shifts),
                                             calculateP(DecodeEpk(epk)), decoded.s))
  IN IF y = t THEN 0 ELSE -1
============================================================================
