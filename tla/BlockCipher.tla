---------------------------- MODULE BlockCipher ----------------------------
(***************************************************************************)
(* What the generator relies on when it calls AES_256_ECB: the cipher of   *)
(* FIPS-197 on every block of a request.  Up to four blocks go through the *)
(* rounds together, each on its own.                                       *)
(***************************************************************************)
EXTENDS Fips197

CONSTANT Requests    \* records: key, of 16, 24 or 32 bytes, and data, whole blocks

VARIABLES key, data, words, blocks, round, answer

vars == <<key, data, words, blocks, round, answer>>

Init ==
  /\ \E r \in Requests : key = r.key /\ data = r.data
  /\ words = KeyWords(key)
  /\ blocks = <<>> /\ round = 0 /\ answer = <<>>

ExpandKey ==
  /\ SliceLen(words) < 4 * (Rounds(key) + 1)
  /\ words' = Concat(words, [n \in {0} |-> NextWord(words, SliceLen(key) \div 4)])
  /\ UNCHANGED <<key, data, blocks, round, answer>>

Start ==
  /\ SliceLen(words) = 4 * (Rounds(key) + 1) /\ round = 0
  /\ LET from == SliceLen(answer)
     IN \E n \in 1 .. 4 :
          /\ from + 16 * n <= SliceLen(data)
          /\ blocks' = [b \in 0 .. n - 1 |->
               AddRoundKey(Slice(data, from + 16 * b, from + 16 * b + 16), words, 0)]
  /\ round' = 1
  /\ UNCHANGED <<key, data, words, answer>>

Round ==
  /\ round \in 1 .. Rounds(key) - 1
  /\ blocks' = [b \in DOMAIN blocks |-> AddRoundKey(MixColumns(ShiftRows(SubBytes(blocks[b]))), words, round)]
  /\ round' = round + 1
  /\ UNCHANGED <<key, data, words, answer>>

LastRound ==
  /\ round = Rounds(key)
  /\ answer' = Concat(answer,
       [m \in 0 .. 16 * SliceLen(blocks) - 1 |->
          AddRoundKey(ShiftRows(SubBytes(blocks[m \div 16])), words, round)[m % 16]])
  /\ blocks' = <<>> /\ round' = 0
  /\ UNCHANGED <<key, data, words>>

Next == ExpandKey \/ Start \/ Round \/ LastRound

Spec == Init /\ [][Next]_vars
============================================================================
