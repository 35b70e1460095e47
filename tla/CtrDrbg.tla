------------------------------ MODULE CtrDrbg ------------------------------
(***************************************************************************)
(* What the callers of src/rand/randombytes_ctrdrbg.c rely on: a generator *)
(* in counter mode, whose counter is a number.  Seeding forgets everything *)
(* before it, a request returns as many bytes as it asks for of the key    *)
(* stream that follows the counter, and both replace key and counter by    *)
(* further key stream.                                                     *)
(***************************************************************************)
EXTENDS Slices

CONSTANTS
  ByteBase,      \* 256
  BlockLen,      \* 16: bytes of V and of a block
  Aes(_, _),     \* AES256_ECB: key, block
  Seeds,         \* entropy_input and personalization_string, 3 * BlockLen bytes
  Lengths,       \* the lengths callers ask for
  MaxCalls       \* bounds the number of calls

VARIABLES
  key, counter,
  output,        \* of the last call, once it returned
  busy, asked,   \* whether a call is in progress, and the arguments of the last one
  calls

vars == <<key, counter, output, busy, asked, calls>>

Byte   == 0 .. ByteBase - 1
KeyLen == 2 * BlockLen
Blocks == SliceOf(BlockLen, Byte)

\* The counter runs from 0 to the number of the last block.
Counters == Number(ByteBase, [j \in 0 .. BlockLen - 1 |-> ByteBase - 1]) + 1

\* The counter as a block, most significant byte first.
Block(c) == CHOOSE b \in Blocks : Number(ByteBase, b) = c

\* The first len bytes of the key stream after counter c.
KeyStream(k, c, len) ==
  [i \in 0 .. len - 1 |-> Aes(k, Block((c + 1 + (i \div BlockLen)) % Counters))[i % BlockLen]]

Rekey(material) ==
  /\ key' = Slice(material, 0, KeyLen)
  /\ counter' = Number(ByteBase, Slice(material, KeyLen, KeyLen + BlockLen))

Init ==
  /\ key = Zeros(KeyLen) /\ counter = 0
  /\ output = <<>> /\ busy = FALSE /\ asked = <<>> /\ calls = 0

\* A caller asks for a number of bytes, or for a seed from two strings.
Call ==
  /\ busy = FALSE /\ calls < MaxCalls
  /\ output' = <<>> /\ busy' = TRUE
  /\ \/ \E len \in Lengths : asked' = <<len>>
     \/ \E entropy, personalization \in Seeds : asked' = <<entropy, personalization>>
  /\ UNCHANGED <<key, counter, calls>>

Seed ==
  /\ busy = TRUE /\ busy' = FALSE
  /\ \E entropy, personalization \in Seeds :
       /\ asked = <<entropy, personalization>>
       /\ Rekey(XorSlices(KeyStream(Zeros(KeyLen), 0, 3 * BlockLen), XorSlices(entropy, personalization)))
  /\ calls' = calls + 1
  /\ UNCHANGED <<output, asked>>

Request ==
  /\ busy = TRUE /\ busy' = FALSE
  /\ \E len \in Lengths :
       /\ asked = <<len>>
       /\ output' = KeyStream(key, counter, len)
       /\ LET used == (len + BlockLen - 1) \div BlockLen
          IN Rekey(KeyStream(key, (counter + used) % Counters, 3 * BlockLen))
  /\ calls' = calls + 1
  /\ UNCHANGED asked

Next == Call \/ Seed \/ Request

Safety == Init /\ [][Next]_vars

\* A call that was made returns.
Spec == Safety /\ WF_vars(Seed \/ Request)
============================================================================
