------------------------------ MODULE MCKeccak ------------------------------
(***************************************************************************)
(* The permutation on the single padded blocks of the empty message and of *)
(* "abc" for the five functions of src/rand/fips202.c, whose first output  *)
(* bytes are known, and on states with few and with many bits.             *)
(***************************************************************************)
EXTENDS Keccak, Sequences

AsByte(n) == {b \in Bits8 : Bit(n, b) = 1}
abc == <<AsByte(97), AsByte(98), AsByte(99)>>

\* The state after absorbing a message shorter than a lane.
Padded(message, domain, rate) ==
  LET bytes == message \o <<domain>>
  IN [l \in 0 .. 24 |->
        IF l = 0 THEN load64([i \in 0 .. 7 |-> IF i < Len(bytes) THEN bytes[i + 1] ELSE {}])
        ELSE IF l = rate \div 8 - 1 THEN {63} ELSE {}] @@ <<>>

\* Message, domain byte, rate, and the first eight bytes of the answer of FIPS 202.
KnownAnswers ==
  {<<<<>>, \h1F, 168, <<\h7F, \h9C, \h2B, \hA4, \hE8, \h8F, \h82, \h7D>>>>,
   <<abc,  \h1F, 168, <<\h58, \h81, \h09, \h2D, \hD8, \h18, \hBF, \h5C>>>>,
   <<<<>>, \h1F, 136, <<\h46, \hB9, \hDD, \h2B, \h0B, \hA8, \h8D, \h13>>>>,
   <<abc,  \h1F, 136, <<\h48, \h33, \h66, \h60, \h13, \h60, \hA8, \h77>>>>,
   <<<<>>, \h06, 136, <<\hA7, \hFF, \hC6, \hF8, \hBF, \h1E, \hD7, \h66>>>>,
   <<abc,  \h06, 136, <<\h3A, \h98, \h5D, \hA7, \h4F, \hE2, \h25, \hB2>>>>,
   <<<<>>, \h06, 104, <<\h0C, \h63, \hA7, \h5B, \h84, \h5E, \h4F, \h7D>>>>,
   <<abc,  \h06, 104, <<\hEC, \h01, \h49, \h82, \h88, \h51, \h6F, \hC9>>>>,
   <<<<>>, \h06, 72,  <<\hA6, \h9F, \h73, \hCC, \hA2, \h3A, \h9A, \hC5>>>>,
   <<abc,  \h06, 72,  <<\hB7, \h51, \h85, \h0B, \h1A, \h57, \h16, \h8A>>>>}

MCInputs ==
  {Padded(k[1], AsByte(k[2]), k[3]) : k \in KnownAnswers}
    \cup {[l \in 0 .. 24 |-> {}] @@ <<>>, [l \in 0 .. 24 |-> Bits64] @@ <<>>,
          [l \in 0 .. 24 |-> {z \in Bits64 : (z * (l + 3)) % 7 < 3}] @@ <<>>}

MCGarbage == {0, 5, 63}

VARIABLE answer   \* the known first bytes of the result; <<>> when there are none

Answers(block) == {k[4] : k \in {n \in KnownAnswers : Padded(n[1], AsByte(n[2]), n[3]) = block}}

MCInit ==
  /\ Init
  /\ answer \in IF Answers(state) = {} THEN {<<>>} ELSE Answers(state)
MCSpec == MCInit /\ [][Next /\ UNCHANGED answer]_<<vars, answer>>

\* What the permutation makes of those blocks are the hashes the standard publishes,
\* which ties module KeccakP to the standard as well.
PublishedHashes ==
  pc = "done" /\ answer # <<>> =>
    store64(state[0]) = [i \in 0 .. 7 |-> AsByte(answer[i + 1])]
=============================================================================
