------------------------------- MODULE MCAes -------------------------------
(***************************************************************************)
(* For AES_256_ECB and its like, four requests: the example of FIPS-197    *)
(* C.3 (one block, as AES_256_ECB has it), all bytes in sixteen blocks     *)
(* under a key that sends every byte through the S-box of the first round, *)
(* a key of 192 bits with five blocks, one of them left over, and a key of *)
(* 128 bits, as the counter mode has it.                                   *)
(*                                                                         *)
(* For AES_128_CTR the lengths at which its loops end and batches begin,   *)
(* and one whose counter carries into its second byte.                     *)
(***************************************************************************)
EXTENDS Aes

BytesOf(bytes) == [n \in 0 .. Len(bytes) - 1 |-> ByteOf[bytes[n + 1]]] @@ <<>>

ExampleKey  == [n \in 0 .. 31 |-> ByteOf[n]] @@ <<>>
ExampleText == [n \in 0 .. 15 |-> ByteOf[17 * n]] @@ <<>>
ExampleAnswer ==
  BytesOf(<<\h8E, \hA2, \hB7, \hCA, \h51, \h67, \h45, \hBF, \hEA, \hFC, \h49, \h90, \h4B, \h49, \h60, \h89>>)

StreamKey == [n \in 0 .. 15 |-> ByteOf[(91 * n + 5) % 256]] @@ <<>>

MCNoRequest == [key |-> ExampleKey, data |-> ExampleText]
MCRequests ==
  {MCNoRequest,
   [key |-> [n \in 0 .. 31 |-> ByteOf[(48 * n) % 256]] @@ <<>>,
    data |-> [n \in 0 .. 255 |-> ByteOf[n]] @@ <<>>],
   [key |-> [n \in 0 .. 23 |-> ByteOf[(91 * n + 5) % 256]] @@ <<>>,
    data |-> [n \in 0 .. 79 |-> ByteOf[(37 * n + 11) % 256]] @@ <<>>],
   [key |-> StreamKey, data |-> ExampleText]}

MCGarbage == {{}, {n \in Bits32 : n % 3 = 0}}

MCNoCtrRequest == [build |-> "c", key |-> StreamKey, len |-> 0]
MCCtrRequests ==
  [build : {"c", "ni", "ni4", "neon"}, key : {StreamKey}, len : {0, 15, 16, 64, 65, 80, 149}]
    \cup [build : {"c", "ni", "neon"}, key : {StreamKey}, len : {4113}]

\* The example of the standard comes out as the standard prints it, which
\* also ties module Fips197 to the standard.
StandardExample == key = ExampleKey /\ nblocks = 0 => out = ExampleAnswer
============================================================================
