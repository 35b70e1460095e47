----------------------------- MODULE Fips202Inc -----------------------------
(***************************************************************************)
(* The incremental functions of src/rand/fips202.c: shake*_inc_* and       *)
(* sha3_*_inc_*.  A context is a pointer to 26 words on the heap: the 25   *)
(* of the state, into which message bytes go at once, and a counter that   *)
(* means the bytes absorbed since the last permutation before              *)
(* keccak_inc_finalize, and the bytes not yet squeezed after it.           *)
(*                                                                         *)
(* One action is one call, or one iteration of the loops of absorb and     *)
(* squeeze; the callers of several contexts interleave.  They call in the  *)
(* order the comments ask for: absorb between init and finalize, squeeze   *)
(* after it, and release once.                                             *)
(***************************************************************************)
EXTENDS SpongeState

CONSTANTS
  Contexts,     \* the context structs of the callers
  Blocks,       \* the heap: room for the 26 words of a context
  Algorithms,   \* the functions the contexts are for
  Chunks,       \* the inputs of one call of absorb
  Lengths,      \* the lengths asked from one call of squeeze
  Garbage,      \* what a word of the heap holds before it is assigned
  MaxCalls      \* bounds the number of calls

ASSUME IncAssumption ==
  /\ Algorithms \subseteq Functions202 /\ Algorithms # {}
  /\ Chunks \subseteq Seq(Byte) /\ Lengths \subseteq Nat
  /\ Garbage \subseteq Bits64 /\ MaxCalls \in Nat
  /\ Blocks # {}

VARIABLES
  words, count,     \* of a block: the state, and s_inc[25]
  allocated,        \* the blocks malloc has handed out
  ctx,              \* the pointer in a context
  pc, m, outlen,    \* of a context: in absorb or squeeze, and what is left to do
  exited,           \* exit(111) was called
  phase, alg,       \* not in the code: what the callers have done with a context,
  msg, out,         \* the bytes absorbed and squeezed so far,
  calls             \* and how many calls there were

heap  == <<words, count, allocated>>
local == <<pc, m, outlen>>
ghost == <<phase, alg, msg, out>>
vars  == <<heap, ctx, local, exited, ghost, calls>>

Rate(c)  == alg[c].rate
Words(c) == words[ctx[c]]
Count(c) == count[ctx[c]]

Live == {c \in Contexts : phase[c] # "none"}

\* The caller of c may make a call.
Idle(c) == ~exited /\ pc[c] = "idle" /\ calls < MaxCalls

Called == calls' = calls + 1

\* The call of c is in one of its loops.
InLoop(c, loop) == ~exited /\ pc[c] = loop

Init ==
  /\ words = [b \in Blocks |-> [l \in Lanes |-> Garbage]] /\ count = [b \in Blocks |-> 0]
  /\ allocated = {}
  /\ ctx \in [Contexts -> Blocks]
  /\ pc = [c \in Contexts |-> "idle"]
  /\ m = [c \in Contexts |-> <<>>] /\ outlen = [c \in Contexts |-> 0]
  /\ exited = FALSE
  /\ phase = [c \in Contexts |-> "none"]
  /\ alg \in [Contexts -> Algorithms]
  /\ msg = [c \in Contexts |-> <<>>] /\ out = [c \in Contexts |-> <<>>]
  /\ calls = 0

\* malloc returns NULL, in a call of init or ctx_clone.
OutOfMemory ==
  /\ \E c \in Contexts : Idle(c) /\ phase[c] = "none"
  /\ exited' = TRUE
  /\ Called
  /\ UNCHANGED <<heap, ctx, local, ghost>>

\* It returns any block that is free.
malloc(c, b) ==
  /\ b \in Blocks \ allocated
  /\ allocated' = allocated \cup {b}
  /\ ctx' = [ctx EXCEPT ![c] = b]

\* Mutant: nothing is freed.
freeNothing(c) == UNCHANGED allocated

free(c) == allocated' = allocated \ {ctx[c]}

\* Mutant: PQC_SHAKECTX_BYTES, the size of a context without the counter.
memcpyShort(b, src) ==
  /\ words' = [words EXCEPT ![b] = Words(src)]
  /\ UNCHANGED count

\* PQC_SHAKEINCCTX_BYTES
memcpy(b, src) ==
  /\ words' = [words EXCEPT ![b] = Words(src)]
  /\ count' = [count EXCEPT ![b] = Count(src)]

inc_init(c) ==
  /\ Idle(c) /\ phase[c] = "none"
  /\ \E b \in Blocks :
       /\ malloc(c, b)
       /\ words' = [words EXCEPT ![b] = ZeroState]
       /\ count' = [count EXCEPT ![b] = 0]
  /\ phase' = [phase EXCEPT ![c] = "absorb"]
  /\ \E f \in Algorithms : alg' = [alg EXCEPT ![c] = f]
  /\ msg' = [msg EXCEPT ![c] = <<>>] /\ out' = [out EXCEPT ![c] = <<>>]
  /\ Called
  /\ UNCHANGED <<local, exited>>

inc_absorb(c) ==
  /\ Idle(c) /\ phase[c] = "absorb"
  /\ \E chunk \in Chunks : m' = [m EXCEPT ![c] = chunk]
  /\ pc' = [pc EXCEPT ![c] = "absorb"]
  /\ Called
  /\ UNCHANGED <<heap, ctx, outlen, exited, ghost>>

\* Mutant: mlen + s_inc[25] > r in the loop.
FitsExactly(c) == Len(m[c]) + Count(c) <= Rate(c)

\* The loop of absorb is left.
Fits(c) == Len(m[c]) + Count(c) < Rate(c)

Missing(c) == Rate(c) - Count(c)

\* The bytes of the input that fill the block, or all that are left.
AbsorbBlock(c) ==
  LET n == Missing(c)
  IN /\ InLoop(c, "absorb") /\ ~Fits(c)
     /\ words' = [words EXCEPT ![ctx[c]] = Permute(XorBytes(@, Count(c), SubSeq(m[c], 1, n)))]
     /\ count' = [count EXCEPT ![ctx[c]] = 0]
     /\ m' = [m EXCEPT ![c] = SubSeq(@, n + 1, Len(@))]
     /\ msg' = [msg EXCEPT ![c] = @ \o SubSeq(m[c], 1, n)]
     /\ UNCHANGED <<allocated, ctx, pc, outlen, exited, phase, alg, out, calls>>

AbsorbRest(c) ==
  /\ InLoop(c, "absorb") /\ Fits(c)
  /\ words' = [words EXCEPT ![ctx[c]] = XorBytes(@, Count(c), m[c])]
  /\ count' = [count EXCEPT ![ctx[c]] = @ + Len(m[c])]
  /\ m' = [m EXCEPT ![c] = <<>>]
  /\ pc' = [pc EXCEPT ![c] = "idle"]
  /\ msg' = [msg EXCEPT ![c] = @ \o m[c]]
  /\ UNCHANGED <<allocated, ctx, outlen, exited, phase, alg, out, calls>>

\* Mutant: the last bit goes one byte too far.
keccak_inc_finalizeFar(c) ==
  XorBytes(XorBytes(Words(c), Count(c), <<alg[c].domain>>), Rate(c), <<{7}>>)

\* keccak_inc_finalize: the domain byte behind the message, and the last bit of the block.
keccak_inc_finalize(c) ==
  XorBytes(XorBytes(Words(c), Count(c), <<alg[c].domain>>), Rate(c) - 1, <<{7}>>)

shake_inc_finalize(c) ==
  /\ Idle(c) /\ phase[c] = "absorb" /\ alg[c].digest = AnyLength
  /\ words' = [words EXCEPT ![ctx[c]] = keccak_inc_finalize(c)]
  /\ count' = [count EXCEPT ![ctx[c]] = 0]
  /\ phase' = [phase EXCEPT ![c] = "squeeze"]
  /\ Called
  /\ UNCHANGED <<allocated, ctx, local, exited, alg, msg, out>>

\* keccak_inc_squeeze up to its loop: the bytes that are still there.
inc_squeeze(c) ==
  /\ Idle(c) /\ phase[c] = "squeeze"
  /\ \E wanted \in Lengths :
       LET i == Least(wanted, Count(c))
       IN /\ out' = [out EXCEPT ![c] = @ \o BytesAt(Words(c), Rate(c) - Count(c), i)]
          /\ count' = [count EXCEPT ![ctx[c]] = @ - i]
          /\ outlen' = [outlen EXCEPT ![c] = wanted - i]
          /\ pc' = [pc EXCEPT ![c] = IF wanted = i THEN "idle" ELSE "squeeze"]
  /\ Called
  /\ UNCHANGED <<words, allocated, ctx, m, exited, phase, alg, msg>>

Squeezed(c) == Least(outlen[c], Rate(c))

SqueezeBlock(c) ==
  LET s == Permute(Words(c))
      i == Squeezed(c)
  IN /\ InLoop(c, "squeeze")
     /\ words' = [words EXCEPT ![ctx[c]] = s]
     /\ out' = [out EXCEPT ![c] = @ \o BytesAt(s, 0, i)]
     /\ outlen' = [outlen EXCEPT ![c] = @ - i]
     /\ count' = [count EXCEPT ![ctx[c]] = Rate(c) - i]
     /\ pc' = [pc EXCEPT ![c] = IF outlen[c] = i THEN "idle" ELSE "squeeze"]
     /\ UNCHANGED <<allocated, ctx, m, exited, phase, alg, msg, calls>>

\* What is freed keeps its contents, and the context its pointer.
inc_ctx_release(c) ==
  /\ Idle(c) /\ phase[c] # "none"
  /\ free(c)
  /\ phase' = [phase EXCEPT ![c] = "none"]
  /\ Called
  /\ UNCHANGED <<words, count, ctx, local, exited, alg, msg, out>>

\* One block is squeezed for the digest, and the context released.
sha3_inc_finalize(c) ==
  LET s == Permute(keccak_inc_finalize(c))
  IN /\ Idle(c) /\ phase[c] = "absorb" /\ alg[c].digest # AnyLength
     /\ words' = [words EXCEPT ![ctx[c]] = s]
     /\ count' = [count EXCEPT ![ctx[c]] = 0]
     /\ free(c)
     /\ phase' = [phase EXCEPT ![c] = "none"]
     /\ out' = [out EXCEPT ![c] = BytesAt(s, 0, alg[c].digest)]
     /\ Called
     /\ UNCHANGED <<ctx, local, exited, alg, msg>>

\* Mutant: the pointer is copied, not what it points to.
inc_ctx_cloneShallow(dest, src) ==
  /\ Idle(dest) /\ phase[dest] = "none"
  /\ Idle(src) /\ phase[src] # "none"
  /\ ctx' = [ctx EXCEPT ![dest] = ctx[src]]
  /\ phase' = [phase EXCEPT ![dest] = phase[src]]
  /\ alg' = [alg EXCEPT ![dest] = alg[src]]
  /\ msg' = [msg EXCEPT ![dest] = msg[src]] /\ out' = [out EXCEPT ![dest] = out[src]]
  /\ Called
  /\ UNCHANGED <<heap, local, exited>>

inc_ctx_clone(dest, src) ==
  /\ Idle(dest) /\ phase[dest] = "none"
  /\ Idle(src) /\ phase[src] # "none"
  /\ \E b \in Blocks : malloc(dest, b) /\ memcpy(b, src)
  /\ phase' = [phase EXCEPT ![dest] = phase[src]]
  /\ alg' = [alg EXCEPT ![dest] = alg[src]]
  /\ msg' = [msg EXCEPT ![dest] = msg[src]] /\ out' = [out EXCEPT ![dest] = out[src]]
  /\ Called
  /\ UNCHANGED <<local, exited>>

Next ==
  \/ OutOfMemory
  \/ \E c \in Contexts :
       \/ inc_init(c) \/ inc_absorb(c) \/ AbsorbBlock(c) \/ AbsorbRest(c)
       \/ shake_inc_finalize(c) \/ sha3_inc_finalize(c)
       \/ inc_squeeze(c) \/ SqueezeBlock(c) \/ inc_ctx_release(c)
  \/ \E dest, src \in Contexts : inc_ctx_clone(dest, src)

Spec == Init /\ [][Next]_vars
-----------------------------------------------------------------------------
TypeOK ==
  /\ words \in [Blocks -> States] /\ count \in [Blocks -> Nat]
  /\ allocated \subseteq Blocks
  /\ ctx \in [Contexts -> Blocks]
  /\ pc \in [Contexts -> {"idle", "absorb", "squeeze"}]
  /\ m \in [Contexts -> Seq(Byte)] /\ outlen \in [Contexts -> Nat]
  /\ exited \in BOOLEAN
  /\ phase \in [Contexts -> {"none", "absorb", "squeeze"}]
  /\ alg \in [Contexts -> Algorithms]
  /\ msg \in [Contexts -> Seq(Byte)] /\ out \in [Contexts -> Seq(Byte)]
  /\ calls \in Nat

\* No context uses freed memory or the memory of another one: a clone has a copy of
\* its own, and a context is gone once it is released or finalized as a hash.
Ownership ==
  /\ \A c \in Live : ctx[c] \in allocated
  /\ \A c, d \in Live : ctx[c] = ctx[d] => c = d

\* "After keccak_inc_absorb, we are guaranteed that s_inc[25] < r": there is room for
\* the domain byte, and after squeezing no more than a block is left to hand out.
CountBelowRate == \A c \in Live : Count(c) < Rate(c)

\* The bytes that are in the state but not yet permuted are the last of the message.
Pending(c) == SubSeq(msg[c], Len(msg[c]) - Count(c) + 1, Len(msg[c]))

\* A context as a sponge: what the code keeps in one array is the state xor the
\* pending bytes, and the one counter is their number first and the number of bytes
\* not yet squeezed later.
SpongeMode == [c \in Contexts |-> IF phase[c] = "none" THEN "off"
                                  ELSE IF phase[c] = "absorb" THEN "absorbing" ELSE "squeezing"]
SpongeSt   == [c \in Contexts |-> IF phase[c] = "none" THEN ZeroState
                                  ELSE IF phase[c] = "absorb" THEN XorBytes(Words(c), 0, Pending(c))
                                  ELSE Words(c)]
SpongeBuf  == [c \in Contexts |-> IF phase[c] = "absorb" THEN Pending(c) ELSE <<>>]
SpongeLeft == [c \in Contexts |-> IF phase[c] = "squeeze" THEN Count(c) ELSE 0]

\* However messages and outputs are cut into calls, and whichever contexts are
\* cloned, every context behaves like a sponge of its own that absorbs block by block.
Sponges == INSTANCE AbstractSponge
             WITH mode <- SpongeMode, st <- SpongeSt, buf <- SpongeBuf, left <- SpongeLeft
ImplementsSponges == Sponges!Spec
=============================================================================
