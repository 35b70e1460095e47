------------------------------- MODULE AesCtr -------------------------------
(***************************************************************************)
(* AES_128_CTR of src/rand/aes_ctr.h in its three builds: portable C       *)
(* (aes_c.c), the AES instructions of x86 (aes128ctr.c, which also has a   *)
(* variant with 4 rounds) and those of ARM (aes_neon.c).  All start from   *)
(* the counter zero, with key schedules, ciphers, counters and loops of    *)
(* their own, and the key streams have to be the same.                     *)
(*                                                                         *)
(* One action is one round of a key schedule or one iteration of a loop    *)
(* over the output, whose pointer only goes forward.  The cipher of the C  *)
(* build is the one of module AesCt, taken here as what that module is     *)
(* shown to implement.                                                     *)
(***************************************************************************)
EXTENDS Fips197

CONSTANT CtrRequests   \* records: build, key and len, the number of bytes asked for

ASSUME AesCtrAssumption ==
  \A r \in CtrRequests : /\ r.build \in {"c", "ni", "ni4", "neon"} /\ r.len \in Nat
                         /\ r.key \in SliceOf(16, SUBSET Bits8)

VARIABLES
  build, seed, outputByteLen,   \* the call
  temp0, rkeys,                 \* the block of the key schedule, and the round keys so far
  ivw,                          \* the counter blocks: four in the C build, one in the others
  outlen, output,               \* the bytes still to write, and those the last iteration wrote
  ctr                           \* where the call is

ctrCall == <<build, seed, outputByteLen>>
ctrVars == <<ctrCall, temp0, rkeys, ivw, outlen, output, ctr>>

\* Bytes as numbers, and back.
ByteOf == Tabulated([n \in 0 .. 255 |-> {b \in Bits8 : Bit(n, b) = 1}])
Value  == Tabulated([a \in SUBSET Bits8 |-> CHOOSE n \in 0 .. 255 : ByteOf[n] = a])

ZeroBlock == [n \in 0 .. 15 |-> {}]

rounds == IF build = "ni4" THEN 4 ELSE 10
-----------------------------------------------------------------------------
\* The table of aes_neon.c.
sbox ==
  <<\h63, \h7c, \h77, \h7b, \hf2, \h6b, \h6f, \hc5, \h30, \h01, \h67, \h2b, \hfe, \hd7, \hab, \h76,
    \hca, \h82, \hc9, \h7d, \hfa, \h59, \h47, \hf0, \had, \hd4, \ha2, \haf, \h9c, \ha4, \h72, \hc0,
    \hb7, \hfd, \h93, \h26, \h36, \h3f, \hf7, \hcc, \h34, \ha5, \he5, \hf1, \h71, \hd8, \h31, \h15,
    \h04, \hc7, \h23, \hc3, \h18, \h96, \h05, \h9a, \h07, \h12, \h80, \he2, \heb, \h27, \hb2, \h75,
    \h09, \h83, \h2c, \h1a, \h1b, \h6e, \h5a, \ha0, \h52, \h3b, \hd6, \hb3, \h29, \he3, \h2f, \h84,
    \h53, \hd1, \h00, \hed, \h20, \hfc, \hb1, \h5b, \h6a, \hcb, \hbe, \h39, \h4a, \h4c, \h58, \hcf,
    \hd0, \hef, \haa, \hfb, \h43, \h4d, \h33, \h85, \h45, \hf9, \h02, \h7f, \h50, \h3c, \h9f, \ha8,
    \h51, \ha3, \h40, \h8f, \h92, \h9d, \h38, \hf5, \hbc, \hb6, \hda, \h21, \h10, \hff, \hf3, \hd2,
    \hcd, \h0c, \h13, \hec, \h5f, \h97, \h44, \h17, \hc4, \ha7, \h7e, \h3d, \h64, \h5d, \h19, \h73,
    \h60, \h81, \h4f, \hdc, \h22, \h2a, \h90, \h88, \h46, \hee, \hb8, \h14, \hde, \h5e, \h0b, \hdb,
    \he0, \h32, \h3a, \h0a, \h49, \h06, \h24, \h5c, \hc2, \hd3, \hac, \h62, \h91, \h95, \he4, \h79,
    \he7, \hc8, \h37, \h6d, \h8d, \hd5, \h4e, \ha9, \h6c, \h56, \hf4, \hea, \h65, \h7a, \hae, \h08,
    \hba, \h78, \h25, \h2e, \h1c, \ha6, \hb4, \hc6, \he8, \hdd, \h74, \h1f, \h4b, \hbd, \h8b, \h8a,
    \h70, \h3e, \hb5, \h66, \h48, \h03, \hf6, \h0e, \h61, \h35, \h57, \hb9, \h86, \hc1, \h1d, \h9e,
    \he1, \hf8, \h98, \h11, \h69, \hd9, \h8e, \h94, \h9b, \h1e, \h87, \he9, \hce, \h55, \h28, \hdf,
    \h8c, \ha1, \h89, \h0d, \hbf, \he6, \h42, \h68, \h41, \h99, \h2d, \h0f, \hb0, \h54, \hbb, \h16>>

subword == Tabulated([a \in SUBSET Bits8 |-> ByteOf[sbox[Value[a] + 1]]])

\* The last word of a key, rotated, through an S-box, with the round constant.
LastWord(t, substitute, imm) ==
  [n \in 0 .. 3 |-> substitute[t[12 + ((n + 1) % 4)]] ++ (IF n = 0 THEN imm ELSE {})]

\* _mm_aeskeygenassist_si128 with its word 3 in all places, and aeskeygenassist.
_mm_aeskeygenassist_si128(t, imm) == LastWord(t, SubByte, imm)
aeskeygenassist(t, imm)           == LastWord(t, subword, imm)

\* The words of a block, n bytes up.
slli(t, n) == [i \in 0 .. 15 |-> IF i >= n THEN t[i - n] ELSE {}]

\* Every word becomes the sum of the words up to it and the last word of before.
BLOCK1(t, last) ==
  LET two  == XorWords(t, slli(t, 4))
      four == XorWords(two, slli(two, 8))
  IN [i \in 0 .. 15 |-> four[i] ++ last[i % 4]]

\* The constants of the ten steps: 0x01, ..., 0x80, 0x1b, 0x36.
Imm == <<{0}, {1}, {2}, {3}, {4}, {5}, {6}, {7}, {0, 1, 3, 4}, {1, 2, 4, 5}>>

\* Bytes are numbers one to one, and the tables of the vector builds are those of FIPS-197.
ASSUME CtrTablesAssumption ==
  /\ ByteOf[0] = {}
  /\ \A n \in 0 .. 255 : ByteOf[n] \in SUBSET Bits8 /\ Value[ByteOf[n]] = n
  /\ \A a \in SUBSET Bits8 : SubByte[a] \in SUBSET Bits8 /\ subword[a] = SubByte[a]
  /\ \A n \in 1 .. 10 : Imm[n] = PowerOf_x[n - 1] /\ Imm[n] \in SUBSET Bits8
-----------------------------------------------------------------------------
\* Instructions.
aesenc(t, rk)     == Tabulated(XorWords(MixColumns(Tabulated(ShiftRows(SubBytes(t)))), rk))
aesenclast(t, rk) == Tabulated(XorWords(ShiftRows(SubBytes(t)), rk))
vaeseq_u8(t, rk)  == Tabulated(ShiftRows(SubBytes(XorWords(t, rk))))

aes128ni_encrypt(nv) ==
  LET block[r \in 0 .. rounds - 1] ==
        IF r = 0 THEN XorWords(nv, rkeys[0]) ELSE aesenc(block[r - 1], rkeys[r])
  IN aesenclast(block[rounds - 1], rkeys[rounds])

arm_aes128_encrypt(nv) ==
  LET block[r \in 0 .. 9] ==
        IF r = 0 THEN vaeseq_u8(nv, rkeys[0])
        ELSE vaeseq_u8(Tabulated(MixColumns(block[r - 1])), rkeys[r])
  IN Tabulated(XorWords(block[9], rkeys[10]))

\* The cipher of FIPS-197 with a schedule of words, in n rounds.
StandardCipher(words, n, b) ==
  LET block[r \in 0 .. n - 1] ==
        IF r = 0 THEN Tabulated(AddRoundKey(b, words, 0))
        ELSE Tabulated(AddRoundKey(MixColumns(Tabulated(ShiftRows(SubBytes(block[r - 1])))), words, r))
  IN Tabulated(AddRoundKey(ShiftRows(SubBytes(block[n - 1])), words, n))

Encrypt(b) == IF build = "c" THEN StandardCipher(rkeys, 10, b)
              ELSE IF build = "neon" THEN arm_aes128_encrypt(b) ELSE aes128ni_encrypt(b)

\* inc4_be counts in the last 4 bytes of a block, the vector builds in the last 8.
CounterBytes == (IF build = "c" THEN 12 ELSE 8) .. 15

\* Mutant: a byte is not carried into the one before it.
inc_beBytewise(b, n) ==
  [i \in 0 .. 15 |-> IF i = 15 THEN ByteOf[(Value[b[i]] + n) % 256] ELSE b[i]]

\* The bytes are swapped, n is added to the number they are, and they are swapped back.
inc_be(b, n) ==
  LET carry[i \in CounterBytes] == IF i = 15 THEN n ELSE (Value[b[i + 1]] + carry[i + 1]) \div 256
  IN [i \in 0 .. 15 |-> IF i \in CounterBytes THEN ByteOf[(Value[b[i]] + carry[i]) % 256] ELSE b[i]]
-----------------------------------------------------------------------------
CtrInit ==
  /\ \E r \in CtrRequests : build = r.build /\ seed = r.key /\ outputByteLen = r.len
  /\ temp0 = seed /\ rkeys = IF build = "c" THEN KeyWords(seed) ELSE <<>>
  /\ ivw = [k \in IF build = "c" THEN 0 .. 3 ELSE {0} |-> inc_be(ZeroBlock, k)]
  /\ outlen = outputByteLen /\ output = <<>>
  /\ ctr = "malloc"

\* Without memory for the schedule the C build exits, the others write through NULL.
Malloc ==
  /\ ctr = "malloc"
  /\ ctr' \in {"keyexp", "gone"}
  /\ UNCHANGED <<ctrCall, temp0, rkeys, ivw, outlen, output>>

\* br_aes_ct64_keysched, word by word.
KeyWord ==
  /\ ctr = "keyexp" /\ build = "c" /\ SliceLen(rkeys) < 44
  /\ rkeys' = Concat(rkeys, [n \in {0} |-> NextWord(rkeys, 4)])
  /\ UNCHANGED <<ctrCall, temp0, ivw, outlen, output, ctr>>

KeyBlock ==
  /\ ctr = "keyexp" /\ build # "c" /\ SliceLen(rkeys) < rounds
  /\ LET imm == Imm[SliceLen(rkeys) + 1]
     IN temp0' = BLOCK1(temp0, IF build = "neon" THEN aeskeygenassist(temp0, imm)
                               ELSE _mm_aeskeygenassist_si128(temp0, imm))
  /\ rkeys' = Concat(rkeys, [n \in {0} |-> temp0])
  /\ UNCHANGED <<ctrCall, ivw, outlen, output, ctr>>

LastKey ==
  /\ ctr = "keyexp" /\ SliceLen(rkeys) = IF build = "c" THEN 44 ELSE rounds
  /\ rkeys' = IF build = "c" THEN rkeys ELSE Concat(rkeys, [n \in {0} |-> temp0])
  /\ ctr' = "ctr"
  /\ UNCHANGED <<ctrCall, temp0, ivw, outlen, output>>

\* The key stream of n blocks: those of the four counters, or of the one counted on.
Stream(n) ==
  LET nv(k) == IF build = "c" THEN ivw[k] ELSE inc_be(ivw[0], k)
      block == Tabulated([k \in 0 .. n - 1 |-> Encrypt(nv(k))])
  IN [i \in 0 .. 16 * n - 1 |-> block[i \div 16][i % 16]]

Count(n) == ivw' = [k \in DOMAIN ivw |-> inc_be(ivw[k], n)]

\* An iteration: n blocks are written and counted.
Write(n) ==
  /\ output' = Stream(n)
  /\ outlen' = outlen - 16 * n
  /\ Count(n)
  /\ UNCHANGED <<ctrCall, temp0, rkeys, ctr>>

\* while (outlen > 64) in C, while (out_len >= 64) for x86.
FourBlocks ==
  /\ ctr = "ctr"
  /\ \/ build = "c" /\ outlen > 64
     \/ build \in {"ni", "ni4"} /\ outlen >= 64
  /\ Write(4)

OneBlock ==
  /\ ctr = "ctr" /\ outlen >= 16
  /\ \/ build \in {"ni", "ni4"} /\ outlen < 64
     \/ build = "neon"
  /\ Write(1)

\* The rest of the output is copied from tmp, and the schedule is freed.
Rest ==
  /\ ctr = "ctr"
  /\ IF build = "c" THEN outlen <= 64 ELSE outlen < 16
  /\ output' = IF outlen = 0 THEN <<>> ELSE Slice(Stream(IF build = "c" THEN 4 ELSE 1), 0, outlen)
  /\ IF build = "c" /\ outlen > 0 THEN Count(4) ELSE UNCHANGED ivw
  /\ outlen' = 0
  /\ ctr' = "returned"
  /\ UNCHANGED <<ctrCall, temp0, rkeys>>

CtrNext == Malloc \/ KeyWord \/ KeyBlock \/ LastKey \/ FourBlocks \/ OneBlock \/ Rest

CtrSpec == CtrInit /\ [][CtrNext]_ctrVars
-----------------------------------------------------------------------------
\* The schedules of FIPS-197.
Schedule ==
  Tabulated([k \in {r.key : r \in CtrRequests} |->
     LET words[n \in 0 .. 40] ==
           IF n = 0 THEN KeyWords(k)
           ELSE LET w == Tabulated(words[n - 1]) IN Concat(w, [i \in {0} |-> Tabulated(NextWord(w, 4))])
     IN Tabulated(words[40])])

\* Block k of the key stream: the cipher of k, the most significant byte first.
StandardBlock(k) ==
  LET quotient[i \in 12 .. 15] == IF i = 15 THEN k ELSE quotient[i + 1] \div 256
  IN StandardCipher(Schedule[seed], rounds,
                    Tabulated([i \in 0 .. 15 |-> ByteOf[IF i < 12 THEN 0 ELSE quotient[i] % 256]]))

\* n bytes of the key stream, from byte first on.
StandardStream(first, n) ==
  LET block == Tabulated([k \in first \div 16 .. (first + n - 1) \div 16 |-> StandardBlock(k)])
  IN [i \in 0 .. n - 1 |-> block[(first + i) \div 16][(first + i) % 16]]

\* Whatever the build makes of a request, with its own schedule, instructions, batches
\* and counter, the bytes it writes are the next ones of the AES key stream from zero
\* on, and when it returns it has written as many as were asked for.
StreamIsStandard ==
  [][outlen' # outlen => output' = StandardStream(outputByteLen - outlen, outlen - outlen')]_ctrVars
=============================================================================
