--------------------------- MODULE Fips202Blocks ---------------------------
(***************************************************************************)
(* The functions of src/rand/fips202.c that take the whole message at      *)
(* once: shake*_absorb with shake*_squeezeblocks, whose contexts are the   *)
(* 25 words of a state on the heap, and the one-shot functions shake128,   *)
(* shake256, sha3_256, sha3_384 and sha3_512.  One action is one call.     *)
(***************************************************************************)
EXTENDS SpongeState

CONSTANTS
  Contexts,     \* the context structs of the callers
  Blocks,       \* the heap: room for the 25 words of a context
  Algorithms,   \* the functions called
  Inputs,       \* the inputs of shake128_absorb and shake256_absorb
  Messages,     \* the inputs of the one-shot functions
  Lengths,      \* the lengths asked from shake128 and shake256
  Counts,       \* the numbers of blocks asked from one call of squeezeblocks
  Garbage,      \* what a word holds before it is assigned
  MaxCalls      \* bounds the number of calls

VARIABLES
  words, allocated,      \* the heap
  ctx,                   \* the pointer in a context
  exited,                \* exit(111) was called
  output,                \* of the last call of a one-shot function
  live, alg, msg, out,   \* not in the code: the contexts in use, and their history,
  asked, calls           \* the function and message of output, and the number of calls

heap  == <<words, allocated>>
ghost == <<live, alg, msg, out>>
vars  == <<heap, ctx, exited, output, ghost, asked, calls>>

\* Iterations of while (mlen >= r).
FullBlocks(f, len) == len \div f.rate

\* Mutant: t[r - 1] = 128, which loses the domain byte behind r - 1 bytes of message.
LastBlockOverwritten(f, rest) ==
  LET t == rest \o <<f.domain>> \o [i \in 1 .. f.rate - Len(rest) - 1 |-> {}]
  IN [t EXCEPT ![f.rate] = {7}]

\* The rest of the message in t, with the domain byte, and t[r - 1] |= 128.
LastBlock(f, rest) ==
  LET t == rest \o <<f.domain>> \o [i \in 1 .. f.rate - Len(rest) - 1 |-> {}]
  IN [t EXCEPT ![f.rate] = @ \cup {7}]

\* The words are zeroed first, whatever they were.  after[k]: behind k iterations of
\* while (mlen >= r).
keccak_absorb(f, input) ==
  LET n == FullBlocks(f, Len(input))
      Block(k) == SubSeq(input, f.rate * (k - 1) + 1, f.rate * k)
      after[k \in 0 .. n] == IF k = 0 THEN ZeroState ELSE Permute(XorBytes(after[k - 1], 0, Block(k)))
  IN XorBytes(after[n], 0, LastBlock(f, SubSeq(input, f.rate * n + 1, Len(input))))

\* Mutant: a block is stored before the permutation.
keccak_squeezeblocksLate(f, nblocks, s) ==
  LET squeezed[k \in 0 .. nblocks] ==
        IF k = 0 THEN [state |-> s, h |-> <<>>]
        ELSE LET before == squeezed[k - 1]
             IN [state |-> Permute(before.state), h |-> before.h \o BytesAt(before.state, 0, f.rate)]
  IN squeezed[nblocks]

\* The state afterwards, and the blocks.
keccak_squeezeblocks(f, nblocks, s) ==
  LET squeezed[k \in 0 .. nblocks] ==
        IF k = 0 THEN [state |-> s, h |-> <<>>]
        ELSE LET before == squeezed[k - 1]
                 t      == Permute(before.state)
             IN [state |-> t, h |-> before.h \o BytesAt(t, 0, f.rate)]
  IN squeezed[nblocks]

Init ==
  /\ words = [b \in Blocks |-> [l \in Lanes |-> Garbage]]
  /\ allocated = {}
  /\ ctx \in [Contexts -> Blocks]
  /\ exited = FALSE
  /\ output = <<>>
  /\ live = {} /\ alg \in [Contexts -> Algorithms]
  /\ msg = [c \in Contexts |-> <<>>] /\ out = [c \in Contexts |-> <<>>]
  /\ asked = <<>> /\ calls = 0

Call == ~exited /\ calls < MaxCalls /\ calls' = calls + 1

\* malloc returns NULL, in shake*_absorb, shake*_ctx_clone or a one-shot shake.
OutOfMemory ==
  /\ Call
  /\ exited' = TRUE
  /\ UNCHANGED <<heap, ctx, output, ghost, asked>>

malloc(c, b) ==
  /\ b \in Blocks \ allocated
  /\ allocated' = allocated \cup {b}
  /\ ctx' = [ctx EXCEPT ![c] = b]

shake_absorb(c) ==
  /\ Call /\ c \notin live
  /\ \E b \in Blocks, f \in {g \in Algorithms : g.digest = AnyLength}, input \in Inputs :
       /\ malloc(c, b)
       /\ words' = [words EXCEPT ![b] = keccak_absorb(f, input)]
       /\ alg' = [alg EXCEPT ![c] = f]
       /\ msg' = [msg EXCEPT ![c] = input] /\ out' = [out EXCEPT ![c] = <<>>]
  /\ live' = live \cup {c}
  /\ UNCHANGED <<exited, output, asked>>

shake_squeezeblocks(c) ==
  /\ Call /\ c \in live
  /\ \E nblocks \in Counts :
       LET squeezed == keccak_squeezeblocks(alg[c], nblocks, words[ctx[c]])
       IN /\ words' = [words EXCEPT ![ctx[c]] = squeezed.state]
          /\ out' = [out EXCEPT ![c] = @ \o squeezed.h]
  /\ UNCHANGED <<allocated, ctx, exited, output, live, alg, msg, asked>>

\* Mutant: the pointer is copied, not the words.
shake_ctx_cloneShallow(dest, src) ==
  /\ Call /\ dest \notin live /\ src \in live
  /\ ctx' = [ctx EXCEPT ![dest] = ctx[src]]
  /\ live' = live \cup {dest}
  /\ alg' = [alg EXCEPT ![dest] = alg[src]]
  /\ msg' = [msg EXCEPT ![dest] = msg[src]] /\ out' = [out EXCEPT ![dest] = out[src]]
  /\ UNCHANGED <<heap, exited, output, asked>>

shake_ctx_clone(dest, src) ==
  /\ Call /\ dest \notin live /\ src \in live
  /\ \E b \in Blocks : malloc(dest, b) /\ words' = [words EXCEPT ![b] = words[ctx[src]]]
  /\ live' = live \cup {dest}
  /\ alg' = [alg EXCEPT ![dest] = alg[src]]
  /\ msg' = [msg EXCEPT ![dest] = msg[src]] /\ out' = [out EXCEPT ![dest] = out[src]]
  /\ UNCHANGED <<exited, output, asked>>

shake_ctx_release(c) ==
  /\ Call /\ c \in live
  /\ allocated' = allocated \ {ctx[c]}
  /\ live' = live \ {c}
  /\ UNCHANGED <<words, ctx, exited, output, alg, msg, out, asked>>

\* shake128 and shake256: whole blocks, then one more into t for the rest.  The block
\* of the local context is free again at the end.
shake ==
  /\ Call
  /\ \E b \in Blocks \ allocated, f \in {g \in Algorithms : g.digest = AnyLength},
        input \in Messages, outlen \in Lengths :
       LET nblocks == outlen \div f.rate
           rest    == outlen - nblocks * f.rate
           whole   == keccak_squeezeblocks(f, nblocks, keccak_absorb(f, input))
           t       == keccak_squeezeblocks(f, 1, whole.state)
       IN /\ output' = IF rest = 0 THEN whole.h ELSE whole.h \o SubSeq(t.h, 1, rest)
          /\ words' = [words EXCEPT ![b] = IF rest = 0 THEN whole.state ELSE t.state]
          /\ asked' = <<f, input, outlen>>
  /\ UNCHANGED <<allocated, ctx, exited, ghost>>

\* sha3_256, sha3_384 and sha3_512, whose state is on the stack.
sha3 ==
  /\ Call
  /\ \E f \in {g \in Algorithms : g.digest # AnyLength}, input \in Messages :
       /\ output' = SubSeq(keccak_squeezeblocks(f, 1, keccak_absorb(f, input)).h, 1, f.digest)
       /\ asked' = <<f, input, f.digest>>
  /\ UNCHANGED <<heap, ctx, exited, ghost>>

OneShot == shake \/ sha3

ContextCall ==
  \/ OutOfMemory
  \/ \E c \in Contexts : shake_absorb(c) \/ shake_squeezeblocks(c) \/ shake_ctx_release(c)
  \/ \E dest, src \in Contexts : shake_ctx_clone(dest, src)

Next == OneShot \/ ContextCall

Spec == Init /\ [][Next]_vars
============================================================================
