------------------------------- MODULE Drbg -------------------------------
(***************************************************************************)
(* The random generator of package rand: InitRandomness and                *)
(* SampleRandomBytes of src/rand/random.go on the AES256-CTR-DRBG of       *)
(* src/rand/randombytes_ctrdrbg.c.  One action is one iteration of a loop  *)
(* over blocks.  The state is a C global: a process that never calls       *)
(* InitRandomness, as main.go, starts from the zero key and counter.       *)
(***************************************************************************)
EXTENDS Slices

CONSTANTS
  ByteBase,      \* 256
  BlockLen,      \* 16: bytes of V and of a block
  Aes(_, _),     \* AES256_ECB: key, block
  Seeds,         \* entropy_input and personalization_string, 3 * BlockLen bytes
  Lengths,       \* the lengths callers ask for
  MaxCalls       \* bounds the number of calls

Byte    == 0 .. ByteBase - 1
KeyLen  == 2 * BlockLen
SeedLen == 3 * BlockLen
Keys    == SliceOf(KeyLen, Byte)
Blocks  == SliceOf(BlockLen, Byte)

\* The values V can have: as a number, V is at most the block of bytes 0xff.
Counters == Number(ByteBase, [j \in 0 .. BlockLen - 1 |-> ByteBase - 1]) + 1

\* &value[0] of an empty slice panics: callers ask for at least one byte, and for
\* less than the blocks V can number (2^128), less the three of the update.
ASSUME DrbgAssumption ==
  /\ ByteBase \in Nat \ {0} /\ BlockLen \in Nat \ {0} /\ MaxCalls \in Nat
  /\ Lengths \subseteq Nat \ {0}
  /\ 3 <= Counters
  /\ \A len \in Lengths : ((len + BlockLen - 1) \div BlockLen) + 3 <= Counters
  /\ Seeds \subseteq SliceOf(SeedLen, Byte)
  /\ \A k \in Keys, b \in Blocks : Aes(k, b) \in Blocks
  /\ \A a, b \in Byte : XorByte(a, b) \in Byte

VARIABLES
  Key, V, reseed_counter,   \* DRBG_ctx
  value, xlen,              \* the output so far, and the bytes still missing
  temp, provided_data,      \* of AES256_CTR_DRBG_Update; <<>> is NULL
  pc,
  asked,                    \* the arguments of the call in progress or of the last one
  calls, entry, encrypted   \* not in the code: see below

\* calls counts the finished calls; entry is Key and V when the last call began;
\* encrypted are the blocks encrypted since Key was last replaced.
vars == <<Key, V, reseed_counter, value, xlen, temp, provided_data, pc,
          asked, calls, entry, encrypted>>

\* Mutant: a byte that was 0xff is cleared, and the carry is lost.
IncrementVNoCarry(v) == [v EXCEPT ![BlockLen - 1] = (@ + 1) % ByteBase]

\* The loop over j: the bytes 0xff at the end become 0, the byte before them
\* is incremented; if all are 0xff, all become 0.
IncrementV(v) ==
  [j \in 0 .. BlockLen - 1 |->
     IF \A l \in j + 1 .. BlockLen - 1 : v[l] = ByteBase - 1 THEN (v[j] + 1) % ByteBase ELSE v[j]]

Init ==
  /\ Key = Zeros(KeyLen) /\ V = Zeros(BlockLen) /\ reseed_counter = 0
  /\ value = <<>> /\ xlen = 0
  /\ temp = <<>> /\ provided_data = <<>>
  /\ pc = "idle"
  /\ asked = <<>> /\ calls = 0 /\ entry = [Key |-> Key, V |-> V] /\ encrypted = {}

\* Mutant: V keeps its value when the generator is seeded again.
InitRandomnessKeepsV ==
  /\ pc = "idle" /\ calls < MaxCalls
  /\ \E entropy_input, personalization_string \in Seeds :
       /\ provided_data' = XorSlices(entropy_input, personalization_string)
       /\ asked' = <<entropy_input, personalization_string>>
  /\ Key' = Zeros(KeyLen) /\ UNCHANGED V
  /\ temp' = <<>>
  /\ pc' = "update"
  /\ entry' = [Key |-> Key, V |-> V] /\ encrypted' = {}
  /\ value' = <<>>
  /\ UNCHANGED <<reseed_counter, xlen, calls>>

InitRandomness ==
  /\ pc = "idle" /\ calls < MaxCalls
  /\ \E entropy_input, personalization_string \in Seeds :
       /\ provided_data' = XorSlices(entropy_input, personalization_string)
       /\ asked' = <<entropy_input, personalization_string>>
  /\ Key' = Zeros(KeyLen) /\ V' = Zeros(BlockLen)
  /\ temp' = <<>>
  /\ pc' = "update"
  /\ entry' = [Key |-> Key, V |-> V] /\ encrypted' = {}
  /\ value' = <<>>
  /\ UNCHANGED <<reseed_counter, xlen, calls>>

SampleRandomBytes ==
  /\ pc = "idle" /\ calls < MaxCalls
  /\ xlen' \in Lengths /\ asked' = <<xlen'>>
  /\ value' = <<>>
  /\ pc' = "generate"
  /\ entry' = [Key |-> Key, V |-> V]
  /\ UNCHANGED <<Key, V, reseed_counter, temp, provided_data, calls, encrypted>>

\* Mutant: the last block is copied whole.
GenerateBlockWhole ==
  /\ pc = "generate" /\ xlen > 0
  /\ V' = IncrementV(V)
  /\ value' = Concat(value, Aes(Key, V'))
  /\ xlen' = IF xlen > BlockLen - 1 THEN xlen - BlockLen ELSE 0
  /\ encrypted' = encrypted \cup {V'}
  /\ UNCHANGED <<Key, reseed_counter, temp, provided_data, pc, asked, calls, entry>>

\* Increment, encrypt, and copy a whole block or what is missing of one.
GenerateBlock ==
  /\ pc = "generate" /\ xlen > 0
  /\ V' = IncrementV(V)
  /\ LET copied == IF xlen > BlockLen - 1 THEN BlockLen ELSE xlen
     IN /\ value' = Concat(value, Slice(Aes(Key, V'), 0, copied))
        /\ xlen' = xlen - copied
  /\ encrypted' = encrypted \cup {V'}
  /\ UNCHANGED <<Key, reseed_counter, temp, provided_data, pc, asked, calls, entry>>

StartUpdate ==
  /\ pc = "generate" /\ xlen = 0
  /\ temp' = <<>> /\ provided_data' = <<>>
  /\ pc' = "update"
  /\ UNCHANGED <<Key, V, reseed_counter, value, xlen, asked, calls, entry, encrypted>>

UpdateBlock ==
  /\ pc = "update" /\ SliceLen(temp) < SeedLen
  /\ V' = IncrementV(V)
  /\ temp' = Concat(temp, Aes(Key, V'))
  /\ encrypted' = encrypted \cup {V'}
  /\ UNCHANGED <<Key, reseed_counter, value, xlen, provided_data, pc, asked, calls, entry>>

\* The two memcpy of the update, and the caller's reseed_counter.
FinishUpdate ==
  /\ pc = "update" /\ SliceLen(temp) = SeedLen
  /\ LET seeding  == provided_data # <<>>
         material == IF seeding THEN XorSlices(temp, provided_data) ELSE temp
     IN /\ Key' = Slice(material, 0, KeyLen)
        /\ V' = Slice(material, KeyLen, SeedLen)
        /\ reseed_counter' = IF seeding THEN 1 ELSE reseed_counter + 1
  /\ pc' = "idle"
  /\ calls' = calls + 1 /\ encrypted' = {}
  /\ UNCHANGED <<value, xlen, temp, provided_data, asked, entry>>

Next == \/ InitRandomness \/ SampleRandomBytes
        \/ GenerateBlock \/ StartUpdate \/ UpdateBlock \/ FinishUpdate

Spec == Init /\ [][Next]_vars /\ WF_vars(GenerateBlock \/ StartUpdate \/ UpdateBlock \/ FinishUpdate)
----------------------------------------------------------------------------
\* No block is encrypted twice under one key, in the output and the update of a
\* call together, as long as a call needs at most ByteBase^BlockLen blocks: the
\* carry runs through all bytes of V, also where it wraps around.
NoBlockTwice == [][GenerateBlock \/ UpdateBlock => V' \notin encrypted]_vars

\* The generator with its byte-wise counter and its loops is the generator in
\* counter mode of CtrDrbg: the output of SampleRandomBytes has the length it was
\* called with and is key stream under the key and counter the call before left,
\* and InitRandomness depends on nothing but its arguments.
Mode == INSTANCE CtrDrbg
          WITH key     <- IF pc = "idle" THEN Key ELSE entry.Key,
               counter <- Number(ByteBase, IF pc = "idle" THEN V ELSE entry.V),
               output  <- IF pc = "idle" THEN value ELSE <<>>,
               busy    <- pc # "idle"
ImplementsCtrDrbg == Mode!Spec
============================================================================
