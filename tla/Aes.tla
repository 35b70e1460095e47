-------------------------------- MODULE Aes --------------------------------
(***************************************************************************)
(* The two calls src/rand/aes_ctr.h has: AES_256_ECB, in the one build     *)
(* there is of it, and AES_128_CTR.  A process makes one of them, and the  *)
(* request for the other is fixed.                                         *)
(***************************************************************************)
EXTENDS AesCt, AesCtr

CONSTANTS NoRequest, NoCtrRequest   \* members of Requests and CtrRequests

VARIABLE called

ProcessInit ==
  /\ EcbInit /\ CtrInit
  /\ \/ /\ called = "AES_256_ECB"
        /\ [build |-> build, key |-> seed, len |-> outputByteLen] = NoCtrRequest
     \/ /\ called = "AES_128_CTR"
        /\ [key |-> key, data |-> in] = NoRequest

AES_256_ECB == called = "AES_256_ECB" /\ EcbNext /\ UNCHANGED <<called, ctrVars>>
AES_128_CTR == called = "AES_128_CTR" /\ CtrNext /\ UNCHANGED <<called, ecbVars>>

Process == ProcessInit /\ [][AES_256_ECB \/ AES_128_CTR]_<<called, ecbVars, ctrVars>>
============================================================================
