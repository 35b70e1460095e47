------------------------------- MODULE GF16 -------------------------------
(***************************************************************************)
(* src/field/field.go: GF(16) = GF(2)[x]/(x^4 + x + 1) on bytes, and the   *)
(* inner product built on it; module Matrices has the other operations.    *)
(*                                                                         *)
(* A matrix is a slice of rows.  The length checks that panic in the code  *)
(* have no value to return here, which stops TLC with an error.            *)
(***************************************************************************)
EXTENDS Slices, TLC

Gf16  == 0 .. 15
Bytes == 0 .. 255

Panic(reason) == CHOOSE value \in {} : value = reason

\* Mutant: the reduction x^4 = 1 in place of x^4 = x + 1.
gf16MulWrongTail(a, b) ==
  LET sum == FoldFunction(XorByte, 0, [i \in 0 .. 3 |-> (2^i * Bit(a, i) * b) % 256])
  IN XorByte(sum, sum \div 16) % 16

\* Shift-and-add with the coefficients of a, then the bits above x^3 folded
\* back with x^4 = x + 1: overFlowBits>>4 ^ overFlowBits>>3.
gf16Mul(a, b) ==
  LET sum          == FoldFunction(XorByte, 0, [i \in 0 .. 3 |-> (2^i * Bit(a, i) * b) % 256])
      overFlowBits == sum - (sum % 16)
  IN XorByte(sum, XorByte(overFlowBits \div 16, overFlowBits \div 8)) % 16

\* The tables InitField keeps; module FieldTables models how they are filled.
\* (@@ <<>> changes nothing: it makes TLC tabulate the function once.)
MulTable == [p \in Gf16 \X Gf16 |-> gf16Mul(p[1], p[2])] @@ <<>>
XorTable == [p \in Gf16 \X Gf16 |-> XorByte(p[1], p[2])] @@ <<>>
InvTable == [a \in Gf16 |->
               IF \E b \in Gf16 : MulTable[a, b] = 1
               THEN CHOOSE b \in Gf16 : MulTable[a, b] = 1 ELSE 0] @@ <<>>

GfXor(a, b) == XorTable[a, b]
GfMul(a, b) == MulTable[a, b]
GfInv(a)    == InvTable[a]

\* The laws of the two operations, which TLC finds in the tables.
ASSUME FieldLaws ==
  /\ \A a \in Gf16 : /\ GfXor(a, 0) = a /\ GfXor(a, a) = 0
                     /\ GfMul(a, 0) = 0 /\ GfMul(a, 1) = a
  /\ \A a, b \in Gf16 : /\ GfXor(a, b) \in Gf16 /\ GfXor(a, b) = GfXor(b, a)
                        /\ GfMul(a, b) \in Gf16 /\ GfMul(a, b) = GfMul(b, a)
  /\ \A a, b, c \in Gf16 : /\ GfXor(a, GfXor(b, c)) = GfXor(GfXor(a, b), c)
                           /\ GfMul(a, GfMul(b, c)) = GfMul(GfMul(a, b), c)
                           /\ GfMul(a, GfXor(b, c)) = GfXor(GfMul(a, b), GfMul(a, c))
\* The inverses of the code's table are inverses.
ASSUME InverseLaw == \A a \in Gf16 : GfInv(a) \in Gf16 /\ (a # 0 => GfMul(GfInv(a), a) = 1)
----------------------------------------------------------------------------
SumOf(v)    == FoldFunction(GfXor, 0, v)      \* the XOR of the entries

VecInnerProduct(u, v) ==
  IF SliceLen(u) = SliceLen(v)
  THEN SumOf([i \in DOMAIN u |-> GfMul(u[i], v[i])])
  ELSE Panic("Vectors must have the same length")
============================================================================
