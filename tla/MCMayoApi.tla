----------------------------- MODULE MCMayoApi -----------------------------
(***************************************************************************)
(* MayoApi on toy parameters, over the whole of GF(16): m = 2 equations,   *)
(* n = 4 variables, o = 1 of them oil, k = 2 vectors, so that k*o = m, and *)
(* one byte for each seed.  SHAKE256 and AES are replaced by fixed mixing  *)
(* functions; the key stream of seed 0 is zero, which makes a key without  *)
(* a solvable system.                                                      *)
(***************************************************************************)
EXTENDS MayoApi

MCMayo == initMayo(4, 2, 1, 2, 16, 1, 1, 1, [i \in 0 .. 1 |-> 2 + i])

\* Two oil variables and one vector: the products with O have more than one
\* column, and P3 an entry on each side of its diagonal.
MCMayoTwoOil == initMayo(5, 2, 2, 1, 16, 1, 1, 1, [i \in 0 .. 1 |-> 2 + i])

Absorbed(input) ==
  LET upTo[i \in 0 .. SliceLen(input)] ==
        IF i = 0 THEN 77 ELSE (upTo[i - 1] * 61 + input[i - 1] * 7 + 13) % 4093
  IN upTo[SliceLen(input)]

Stream(from, len) ==
  LET next[i \in 0 .. len] == IF i = 0 THEN from ELSE (next[i - 1] * 517 + 1021) % 4093
  IN [i \in 0 .. len - 1 |-> (next[i + 1] \div 5) % 256]

MCShake256(len, input) == IF input = [i \in {0} |-> 0] THEN Zeros(len) ELSE Stream(Absorbed(input), len)
MCAes128ctr(seed, len) == IF seed = Zeros(1) THEN Zeros(len) ELSE Stream(Absorbed(seed) + 1, len)

MCRandomBytes(len) == {[i \in 0 .. len - 1 |-> b] : b \in {0, 1, 2, 3, 90, 200}}
MCMessages == {[i \in 0 .. 1 |-> 72 + i], [i \in 0 .. 2 |-> 0]}
OneMessage == {[i \in 0 .. 1 |-> 72 + i]}

\* One byte of the signed message changed in one bit.
OneBitFlipped(signed) ==
  {[signed EXCEPT ![i] = XorByte(signed[i], 16)] : i \in DOMAIN signed}
NoDamage(signed) == {}

\* The functions above are what the proofs assume of the environment, for the
\* lengths that occur: results of the length asked for, byte strings, and damage
\* that leaves room for a signature.
ASSUME MCEnvironment ==
  LET ByteString(len) == [0 .. len - 1 -> 0 .. 255]
      Short           == {Zeros(len) : len \in 0 .. 3} \cup Messages
  IN /\ \A len \in 0 .. 12, s \in Short :
          Shake256(len, s) \in ByteString(len) /\ Aes128ctr(s, len) \in ByteString(len)
     /\ \A len \in 0 .. 12 : RandomBytes(len) \subseteq ByteString(len)
     /\ \A M \in Messages : M \in ByteString(SliceLen(M))
     /\ \A len \in mayo.sigBytes .. 12 : \A d \in Damage(Zeros(len)) :
          SliceLen(d) >= mayo.sigBytes /\ d \in ByteString(SliceLen(d))
============================================================================
