-------------------------- MODULE SpongeReference --------------------------
(***************************************************************************)
(* The sponge construction of FIPS 202, sections 4 to 6, on bit strings:   *)
(* what the functions of src/rand/fips202.c should compute.                *)
(***************************************************************************)
EXTENDS SpongeState

\* 6.1 and 6.2: the bits SHA-3 and SHAKE append to the message.
Suffix(f) == IF f.digest = AnyLength THEN <<1, 1, 1, 1>> ELSE <<0, 1>>

\* 5.1: a one, zeros, and a one that ends a block.
PaddedBlocks(f, msg) == ((8 * Len(msg) + Len(Suffix(f)) + 2 + 8 * f.rate - 1) \div (8 * f.rate))
PaddedBit(f, msg, n) ==
  LET end == 8 * Len(msg) + Len(Suffix(f))
  IN IF n < 8 * Len(msg) THEN n % 8 \in msg[1 + (n \div 8)]
     ELSE IF n < end THEN Suffix(f)[1 + n - 8 * Len(msg)] = 1
     ELSE n = end \/ n = 8 * f.rate * PaddedBlocks(f, msg) - 1

\* Block k, with zeros for the capacity.
PaddedBlock(f, msg, k) ==
  [l \in Lanes |-> {b \in Bits64 : /\ 8 * l < f.rate
                                   /\ PaddedBit(f, msg, 8 * f.rate * k + 64 * l + b)}]

\* 4: all blocks absorbed.
Absorbed(f, msg) ==
  LET after[n \in 0 .. PaddedBlocks(f, msg)] ==
        IF n = 0 THEN ZeroState ELSE Permute(XorWords(after[n - 1], PaddedBlock(f, msg, n - 1)))
  IN after[PaddedBlocks(f, msg)]

\* The first n bytes of the output: a state gives a block, the next one is permuted from it.
Output(f, msg, n) ==
  LET first == Absorbed(f, msg)
      squeezed[k \in 0 .. n \div f.rate] ==
        IF k = 0 THEN [state |-> first, h |-> BytesAt(first, 0, f.rate)]
        ELSE LET before == squeezed[k - 1]
                 t      == Permute(before.state)
             IN [state |-> t, h |-> before.h \o BytesAt(t, 0, f.rate)]
  IN SubSeq(squeezed[n \div f.rate].h, 1, n)
============================================================================
