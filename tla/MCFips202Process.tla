------------------------- MODULE MCFips202Process -------------------------
(***************************************************************************)
(* Contexts for SHAKE256 and SHA3-512 with a small mixing function for the *)
(* permutation.  Inputs and outputs end before, at and behind the end of a *)
(* block; the messages of the one-shot functions do so for each rate.      *)
(***************************************************************************)
EXTENDS Fips202Process

CONSTANTS ChunkLengths, MessageLengths

\* Every word of the result depends on three words, on one of them not linearly.
Mix(s) ==
  LET t == s @@ <<>>
  IN [l \in Lanes |-> Rotr(t[(7 * l + 1) % 25], 3 * l + 1, 64)
                        ++ ((t[(3 * l + 2) % 25] \ t[(l + 1) % 25]) ++ {l})] @@ <<>>

Both     == {SHAKE256, SHA3_512}
NoisyBit == {2, 33}

Pattern(n) == [i \in 1 .. n |-> {b \in Bits8 : ((i * (2 * b + 3)) % 11) < 4}]
MCChunks   == {Pattern(n) : n \in ChunkLengths}
MCMessages == {Pattern(n) : n \in MessageLengths}
MCInputs   == {Pattern(137)}

\* What an unused context holds is overwritten before it is read: one pointer and one
\* function for all of them.
MCInit ==
  /\ \E b \in Blocks : ctx = [c \in Contexts |-> b] /\ blockCtx = [c \in BlockContexts |-> b]
  /\ alg = [c \in Contexts |-> SHAKE256] /\ blockAlg = [c \in BlockContexts |-> SHAKE256]
  /\ ProcessInit
MCSpec == MCInit /\ [][ProcessNext]_allVars

\* Nothing tells two blocks of the heap or two contexts apart.
AnyName == Permutations(Blocks) \cup Permutations(Contexts) \cup Permutations(BlockContexts)
============================================================================
