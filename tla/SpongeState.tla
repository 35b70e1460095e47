---------------------------- MODULE SpongeState ----------------------------
(***************************************************************************)
(* The 25 words of a sponge and the bytes of a message or an output, as    *)
(* src/rand/fips202.c moves them between one another, and the five         *)
(* functions of the file.  The permutation is a parameter: module Keccak   *)
(* models the one of the code.                                             *)
(***************************************************************************)
EXTENDS Words, Sequences

CONSTANT Permute(_)   \* KeccakF1600_StatePermute

Byte   == SUBSET Bits8
Lanes  == 0 .. 24
States == [Lanes -> SUBSET Bits64]

ZeroState == [l \in Lanes |-> {}]

\* s[(at + i) >> 3] ^= (uint64_t)m[i] << (8 * ((at + i) & 0x07)) for all i.
XorBytes(s, at, m) ==
  [l \in Lanes |->
     s[l] ++ {b \in Bits64 : LET i == 8 * l + (b \div 8) - at
                             IN i \in 0 .. Len(m) - 1 /\ b % 8 \in m[i + 1]}]

\* (uint8_t)(s[n >> 3] >> (8 * (n & 0x07))), and the bytes from one on.
ByteAt(s, n) == {b \in Bits8 : 8 * (n % 8) + b \in s[n \div 8]}
BytesAt(s, from, number) == [i \in 1 .. number |-> ByteAt(s, from + i - 1)]

\* Rate in bytes, domain-separation byte, and the length of the digest; the output
\* of an extendable function has any length.
Function(r, p, n) == [rate |-> r, domain |-> p, digest |-> n]
AnyLength == 0

SHAKE128 == Function(168, 0 .. 4, AnyLength)
SHAKE256 == Function(136, 0 .. 4, AnyLength)
SHA3_256 == Function(136, {1, 2}, 32)
SHA3_384 == Function(104, {1, 2}, 48)
SHA3_512 == Function(72, {1, 2}, 64)
Functions202 == {SHAKE128, SHAKE256, SHA3_256, SHA3_384, SHA3_512}

Least(a, b) == IF a <= b THEN a ELSE b
============================================================================
