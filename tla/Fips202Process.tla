--------------------------- MODULE Fips202Process ---------------------------
(***************************************************************************)
(* A process that hashes with both halves of src/rand/fips202.c: contexts  *)
(* of the incremental functions (Fips202Inc), contexts of shake*_absorb    *)
(* and the one-shot functions (Fips202Blocks) take their memory from one   *)
(* heap, and the failure of any malloc ends all of them.                   *)
(***************************************************************************)
EXTENDS Fips202Inc, SpongeReference, FiniteSets

CONSTANTS
  BlockContexts,    \* the context structs for shake*_absorb
  Inputs,           \* what these contexts absorb
  Messages,         \* what the one-shot functions hash
  OutLengths,       \* the lengths asked from shake128 and shake256
  Counts            \* the numbers of blocks asked from one call of squeezeblocks

ASSUME ProcessAssumption ==
  /\ Inputs \subseteq Seq(Byte) /\ Messages \subseteq Seq(Byte)
  /\ OutLengths \subseteq Nat /\ Counts \subseteq Nat

VARIABLES blockCtx, output, live, blockAlg, blockMsg, blockOut, asked   \* see Fips202Blocks
blockVars == <<blockCtx, output, live, blockAlg, blockMsg, blockOut, asked>>
allVars   == <<vars, blockVars>>

OneGo == INSTANCE Fips202Blocks
           WITH Contexts <- BlockContexts, Algorithms <- Functions202, Lengths <- OutLengths,
                ctx <- blockCtx, alg <- blockAlg, msg <- blockMsg, out <- blockOut

ProcessInit == Init /\ OneGo!Init

OneGoStep(step) == step /\ UNCHANGED <<count, ctx, local, ghost>>
IncStep         == Next /\ UNCHANGED blockVars

\* The one-shot functions leave nothing behind but a free block: the first call alone
\* shows what they do.
ProcessNext ==
  /\ asked = <<>>
  /\ IncStep \/ OneGoStep(OneGo!ContextCall) \/ (calls = 0 /\ OneGoStep(OneGo!OneShot))

ProcessSpec == ProcessInit /\ [][ProcessNext]_allVars
-----------------------------------------------------------------------------
\* What was squeezed is the beginning of what FIPS 202 says of the message, however
\* message and output were cut into calls, also in the contexts that are released since.
OutputIsStandard ==
  \A c \in Contexts : out[c] # <<>> => out[c] = Output(alg[c], msg[c], Len(out[c]))

\* The one-shot functions compute what FIPS 202 says, for every length of the message
\* and of the output around the ends of blocks.
OneShotIsStandard == output # <<>> => output = Output(asked[1], asked[2], asked[3])

\* The blocks squeezed from a context, in whatever portions, are the beginning of the
\* output FIPS 202 defines, also after a clone of it went its own way.
BlocksAreStandard ==
  \A c \in BlockContexts :
    blockOut[c] # <<>> => blockOut[c] = Output(blockAlg[c], blockMsg[c], Len(blockOut[c]))

\* Every block of the heap has one owner among the contexts of both kinds: none is
\* lost, freed twice or shared.
OneOwner ==
  /\ allocated = {ctx[c] : c \in Live} \cup {blockCtx[c] : c \in live}
  /\ Cardinality(allocated) = Cardinality(Live) + Cardinality(live)
=============================================================================
