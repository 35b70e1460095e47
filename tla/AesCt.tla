------------------------------- MODULE AesCt -------------------------------
(***************************************************************************)
(* src/rand/aes_c.c, the cipher behind the random generator.  It handles   *)
(* four blocks at once, bit by bit: eight words of 64 bits, of which word  *)
(* v holds bit v of all 64 bytes.  AES_256_ECB calls it with one block,    *)
(* and the lanes of the other three hold what the stack held.              *)
(*                                                                         *)
(* One action is one iteration of the loops over key words, batches and    *)
(* rounds; the loops that build the bitsliced round keys are one action.   *)
(***************************************************************************)
EXTENDS Words, Sequences

CONSTANTS
  Requests,    \* records: key, of 16, 24 or 32 bytes, and data, whole blocks
  Garbage      \* values of the array blocks before it is assigned

ASSUME AesCtAssumption ==
  /\ \A r \in Requests : /\ \E n \in {16, 24, 32} : r.key \in SliceOf(n, SUBSET Bits8)
                         /\ SliceLen(r.data) \in Nat /\ SliceLen(r.data) % 16 = 0
                         /\ r.data \in SliceOf(SliceLen(r.data), SUBSET Bits8)
  /\ \A g \in Garbage : g \subseteq Bits32

VARIABLES
  key, in,                     \* the arguments
  skey, tmp, jKey, kKey,       \* of br_aes_ct64_keysched, where i is SliceLen(skey)
  sk_exp,                      \* the expanded round keys
  nblocks, blocks, out,        \* of aes_ecb: in and out advance with SliceLen(out)
  q, round,                    \* of aes_ecb4x
  ecb

args    == <<key, in>>
sched   == <<skey, tmp, jKey, kKey>>
ecbVars == <<args, sched, sk_exp, nblocks, blocks, out, q, round, ecb>>

nk      == SliceLen(key) \div 4
nrounds == 10 + ((SliceLen(key) - 16) \div 4)
nkf     == 4 * (nrounds + 1)
----------------------------------------------------------------------------
\* The circuit of the S-box, in the order of the code.  The gates of one record do
\* not use one another.
SboxCircuit ==
  <<[y14 |-> <<"x3", "^", "x5">>, y13 |-> <<"x0", "^", "x6">>, y9 |-> <<"x0", "^", "x3">>,
      y8 |-> <<"x0", "^", "x5">>, t0 |-> <<"x1", "^", "x2">>],
     [y1 |-> <<"t0", "^", "x7">>],
     [y4 |-> <<"y1", "^", "x3">>, y12 |-> <<"y13", "^", "y14">>, y2 |-> <<"y1", "^", "x0">>,
      y5 |-> <<"y1", "^", "x6">>],
     [y3 |-> <<"y5", "^", "y8">>, t1 |-> <<"x4", "^", "y12">>],
     [y15 |-> <<"t1", "^", "x5">>, y20 |-> <<"t1", "^", "x1">>],
     [y6 |-> <<"y15", "^", "x7">>, y10 |-> <<"y15", "^", "t0">>, y11 |-> <<"y20", "^", "y9">>],
     [y7 |-> <<"x7", "^", "y11">>, y17 |-> <<"y10", "^", "y11">>, y19 |-> <<"y10", "^", "y8">>,
      y16 |-> <<"t0", "^", "y11">>],
     [y21 |-> <<"y13", "^", "y16">>, y18 |-> <<"x0", "^", "y16">>, t2 |-> <<"y12", "&", "y15">>,
      t3 |-> <<"y3", "&", "y6">>],
     [t4 |-> <<"t3", "^", "t2">>, t5 |-> <<"y4", "&", "x7">>],
     [t6 |-> <<"t5", "^", "t2">>, t7 |-> <<"y13", "&", "y16">>, t8 |-> <<"y5", "&", "y1">>],
     [t9 |-> <<"t8", "^", "t7">>, t10 |-> <<"y2", "&", "y7">>],
     [t11 |-> <<"t10", "^", "t7">>, t12 |-> <<"y9", "&", "y11">>, t13 |-> <<"y14", "&", "y17">>],
     [t14 |-> <<"t13", "^", "t12">>, t15 |-> <<"y8", "&", "y10">>],
     [t16 |-> <<"t15", "^", "t12">>, t17 |-> <<"t4", "^", "t14">>],
     [t18 |-> <<"t6", "^", "t16">>, t19 |-> <<"t9", "^", "t14">>, t20 |-> <<"t11", "^", "t16">>,
      t21 |-> <<"t17", "^", "y20">>],
     [t22 |-> <<"t18", "^", "y19">>, t23 |-> <<"t19", "^", "y21">>, t24 |-> <<"t20", "^", "y18">>],
     [t25 |-> <<"t21", "^", "t22">>, t26 |-> <<"t21", "&", "t23">>],
     [t27 |-> <<"t24", "^", "t26">>],
     [t28 |-> <<"t25", "&", "t27">>],
     [t29 |-> <<"t28", "^", "t22">>, t30 |-> <<"t23", "^", "t24">>, t31 |-> <<"t22", "^", "t26">>],
     [t32 |-> <<"t31", "&", "t30">>],
     [t33 |-> <<"t32", "^", "t24">>],
     [t34 |-> <<"t23", "^", "t33">>, t35 |-> <<"t27", "^", "t33">>],
     [t36 |-> <<"t24", "&", "t35">>],
     [t37 |-> <<"t36", "^", "t34">>, t38 |-> <<"t27", "^", "t36">>],
     [t39 |-> <<"t29", "&", "t38">>],
     [t40 |-> <<"t25", "^", "t39">>],
     [t41 |-> <<"t40", "^", "t37">>, t42 |-> <<"t29", "^", "t33">>, t43 |-> <<"t29", "^", "t40">>,
      t44 |-> <<"t33", "^", "t37">>],
     [t45 |-> <<"t42", "^", "t41">>, z0 |-> <<"t44", "&", "y15">>, z1 |-> <<"t37", "&", "y6">>,
      z2 |-> <<"t33", "&", "x7">>, z3 |-> <<"t43", "&", "y16">>, z4 |-> <<"t40", "&", "y1">>,
      z5 |-> <<"t29", "&", "y7">>, z6 |-> <<"t42", "&", "y11">>],
     [z7 |-> <<"t45", "&", "y17">>, z8 |-> <<"t41", "&", "y10">>, z9 |-> <<"t44", "&", "y12">>,
      z10 |-> <<"t37", "&", "y3">>, z11 |-> <<"t33", "&", "y4">>, z12 |-> <<"t43", "&", "y13">>,
      z13 |-> <<"t40", "&", "y5">>, z14 |-> <<"t29", "&", "y2">>, z15 |-> <<"t42", "&", "y9">>,
      z16 |-> <<"t45", "&", "y14">>, z17 |-> <<"t41", "&", "y8">>],
     [t46 |-> <<"z15", "^", "z16">>, t47 |-> <<"z10", "^", "z11">>, t48 |-> <<"z5", "^", "z13">>,
      t49 |-> <<"z9", "^", "z10">>, t50 |-> <<"z2", "^", "z12">>, t51 |-> <<"z2", "^", "z5">>,
      t52 |-> <<"z7", "^", "z8">>, t53 |-> <<"z0", "^", "z3">>, t54 |-> <<"z6", "^", "z7">>,
      t55 |-> <<"z16", "^", "z17">>],
     [t56 |-> <<"z12", "^", "t48">>, t57 |-> <<"t50", "^", "t53">>, t58 |-> <<"z4", "^", "t46">>,
      t59 |-> <<"z3", "^", "t54">>],
     [t60 |-> <<"t46", "^", "t57">>, t61 |-> <<"z14", "^", "t57">>, t62 |-> <<"t52", "^", "t58">>,
      t63 |-> <<"t49", "^", "t58">>, t64 |-> <<"z4", "^", "t59">>],
     [t65 |-> <<"t61", "^", "t62">>, t66 |-> <<"z1", "^", "t63">>, s0 |-> <<"t59", "^", "t63">>,
      s6 |-> <<"t56", "^~", "t62">>, s7 |-> <<"t48", "^~", "t60">>],
     [t67 |-> <<"t64", "^", "t65">>, s3 |-> <<"t53", "^", "t66">>, s4 |-> <<"t51", "^", "t66">>,
      s5 |-> <<"t47", "^", "t65">>],
     [s1 |-> <<"t64", "^~", "s3">>, s2 |-> <<"t55", "^~", "t67">>]>>

Gate(g, wires) ==
  LET left  == wires[g[1]]
      right == wires[g[3]]
  IN IF g[2] = "&" THEN left \cap right ELSE left ++ (IF g[2] = "^~" THEN Not(right) ELSE right)

\* The wires known after some gates.
Through(gates, known) ==
  [n \in DOMAIN known \cup DOMAIN gates |-> IF n \in DOMAIN gates THEN Gate(gates[n], known) ELSE known[n]]

\* x0 and s0 are the high bits.
br_aes_ct64_bitslice_Sbox(w) ==
  LET wires[k \in 0 .. Len(SboxCircuit)] ==
        IF k = 0
        THEN [x0 |-> w[7], x1 |-> w[6], x2 |-> w[5], x3 |-> w[4],
              x4 |-> w[3], x5 |-> w[2], x6 |-> w[1], x7 |-> w[0]]
        ELSE Through(SboxCircuit[k], Tabulated(wires[k - 1]))
      all    == Tabulated(wires[Len(SboxCircuit)])
      output == <<"s7", "s6", "s5", "s4", "s3", "s2", "s1", "s0">>
  IN Tabulated([v \in 0 .. 7 |-> all[output[v + 1]]])

\* SWAP2, SWAP4 and SWAP8: words at distance n exchange their bits at distance n.
SwapN(n, w) ==
  Tabulated([v \in 0 .. 7 |->
     IF (v \div n) % 2 = 0
     THEN (w[v] \cap Alternate[n]) \cup Shl(w[v + n] \cap Alternate[n], n)
     ELSE Shr(w[v - n] \ Alternate[n], n) \cup (w[v] \ Alternate[n])])

br_aes_ct64_ortho(w) ==
  LET w2 == SwapN(1, w)   w4 == SwapN(2, w2) IN SwapN(4, w4)

\* The four words w[at .. at + 3] of a block, as two words of interleaved bytes.
Spread(x) == LET y == (x \cup Shl(x, 16)) \cap Alternate[16] IN (y \cup Shl(y, 8)) \cap Alternate[8]

br_aes_ct64_interleave_in(w, at) ==
  <<Spread(w[at]) \cup Shl(Spread(w[at + 2]), 8), Spread(w[at + 1]) \cup Shl(Spread(w[at + 3]), 8)>>

Gather(x) ==
  LET y == x \cap Alternate[8]
      z == (y \cup Shr(y, 8)) \cap Alternate[16]
  IN (z \cup Shr(z, 16)) \cap Bits32

br_aes_ct64_interleave_out(q0, q1) ==
  [n \in 0 .. 3 |-> Gather(Shr(IF n % 2 = 0 THEN q0 ELSE q1, 8 * (n \div 2)))]

sub_word(x) ==
  LET sliced == br_aes_ct64_ortho([v \in 0 .. 7 |-> IF v = 0 THEN x ELSE {}])
      mapped == br_aes_ct64_bitslice_Sbox(sliced)
  IN br_aes_ct64_ortho(mapped)[0] \cap Bits32

\* 0x01, 0x02, ..., 0x80, 0x1B, 0x36
Rcon == [n \in 0 .. 9 |-> IF n < 8 THEN {n} ELSE IF n = 8 THEN {0, 1, 3, 4} ELSE {1, 2, 4, 5}]

\* Two words for round r: a bit of the key where its four copies will be.
comp_skey(words, r) ==
  LET inter == br_aes_ct64_interleave_in(words, 4 * r)
      o     == br_aes_ct64_ortho([v \in 0 .. 7 |-> inter[1 + (v \div 4)]])
  IN [h \in 0 .. 1 |-> UNION {o[4 * h + v] \cap Every4th[v] : v \in 0 .. 3}]

\* Mutant: (x << 3) - x, which leaves the key out of the fourth lane.
br_aes_ct64_skey_expandThree(words) ==
  [n \in 0 .. 2 * nkf - 1 |->
     LET x == Shr(comp_skey(words, n \div 8)[(n \div 4) % 2] \cap Every4th[n % 4], n % 4)
     IN {b \in Bits64 : b % 4 < 3 /\ b - (b % 4) \in x}]

\* (x << 4) - x has the bits 4n .. 4n + 3 for a bit 4n of x.
br_aes_ct64_skey_expand(words) ==
  [n \in 0 .. 2 * nkf - 1 |->
     LET x == Shr(comp_skey(words, n \div 8)[(n \div 4) % 2] \cap Every4th[n % 4], n % 4)
     IN {b \in Bits64 : b - (b % 4) \in x}]

add_round_key(w, at) == [v \in 0 .. 7 |-> w[v] ++ sk_exp[at + v]]

\* Mutant: the last row is rotated the other way.
shift_rowsLastRowBack(w) ==
  [v \in 0 .. 7 |->
     LET x == w[v]
     IN (x \cap 0 .. 15) \cup Shr(x \cap 20 .. 31, 4) \cup Shl(x \cap 16 .. 19, 12)
          \cup Shr(x \cap 40 .. 47, 8) \cup Shl(x \cap 32 .. 39, 8)
          \cup Shr(x \cap 52 .. 63, 4) \cup Shl(x \cap 48 .. 51, 12)]

\* A row of sixteen bits, four to a column, is rotated by its number of columns.
shift_rows(w) ==
  [v \in 0 .. 7 |->
     LET x == w[v]
     IN (x \cap 0 .. 15) \cup Shr(x \cap 20 .. 31, 4) \cup Shl(x \cap 16 .. 19, 12)
          \cup Shr(x \cap 40 .. 47, 8) \cup Shl(x \cap 32 .. 39, 8)
          \cup Shr(x \cap 60 .. 63, 12) \cup Shl(x \cap 48 .. 59, 4)]

\* w[7] comes back in at x^8 = x^4 + x^3 + x + 1, that is in words 0, 1, 3 and 4.
mix_columns(w) ==
  LET r    == [v \in 0 .. 7 |-> Rotr(w[v], 16, 64)]
      Prev(v) == w[(v + 7) % 8] ++ r[(v + 7) % 8]
      Back(v) == IF v \in {1, 3, 4} THEN w[7] ++ r[7] ELSE {}
  IN [v \in 0 .. 7 |-> Prev(v) ++ (Back(v) ++ (r[v] ++ Rotr(w[v] ++ r[v], 32, 64)))]
----------------------------------------------------------------------------
EcbInit ==
  /\ \E r \in Requests : key = r.key /\ in = r.data
  /\ skey = br_range_dec32le(nk, key) /\ tmp = skey[nk - 1] /\ jKey = 0 /\ kKey = 0
  /\ sk_exp = <<>>
  /\ nblocks = SliceLen(in) \div 16 /\ out = <<>>
  /\ \E g \in Garbage : blocks = [n \in 0 .. 15 |-> g]
  /\ q = <<>> /\ round = 0
  /\ ecb = "keysched"

\* Mutant: the extra substitution of long keys also for keys of 24 bytes.
MixedWordFrom6 ==
  IF jKey = 0 THEN sub_word(Rotr(tmp, 8, 32)) ++ Rcon[kKey]
  ELSE IF nk >= 6 /\ jKey = 4 THEN sub_word(tmp)
  ELSE tmp

\* tmp before it is added to the word nk places back.
MixedWord ==
  IF jKey = 0 THEN sub_word(Rotr(tmp, 8, 32)) ++ Rcon[kKey]
  ELSE IF nk > 6 /\ jKey = 4 THEN sub_word(tmp)
  ELSE tmp

\* The loop over i: j counts the words up to nk, k the times it started again.
KeyschedWord ==
  /\ ecb = "keysched" /\ SliceLen(skey) < nkf
  /\ tmp' = MixedWord ++ skey[SliceLen(skey) - nk]
  /\ skey' = Concat(skey, [n \in {0} |-> tmp'])
  /\ jKey' = (jKey + 1) % nk
  /\ kKey' = IF jKey + 1 = nk THEN kKey + 1 ELSE kKey
  /\ UNCHANGED <<args, sk_exp, nblocks, blocks, out, q, round, ecb>>

SkeyExpand ==
  /\ ecb = "keysched" /\ SliceLen(skey) = nkf
  /\ sk_exp' = br_aes_ct64_skey_expand(skey)
  /\ ecb' = "ecb"
  /\ UNCHANGED <<args, sched, nblocks, blocks, out, q, round>>

\* The blocks of a batch: four, or the rest.
batch == IF nblocks >= 4 THEN 4 ELSE nblocks

\* The rest leaves what is behind it in the array blocks as it was.
LoadBatch ==
  /\ ecb = "ecb" /\ nblocks > 0
  /\ LET loaded == br_range_dec32le(4 * batch, Slice(in, SliceLen(out), SliceLen(out) + 16 * batch))
         w      == CopyAt(blocks, 0, loaded)
         inter  == [b \in 0 .. 3 |-> br_aes_ct64_interleave_in(w, 4 * b)]
         sliced == br_aes_ct64_ortho([v \in 0 .. 7 |-> inter[v % 4][1 + (v \div 4)]])
     IN blocks' = w /\ q' = add_round_key(sliced, 0)
  /\ round' = 1
  /\ ecb' = "rounds"
  /\ UNCHANGED <<args, sched, sk_exp, nblocks, out>>

Round ==
  /\ ecb = "rounds" /\ round < nrounds
  /\ LET subst   == br_aes_ct64_bitslice_Sbox(q)
         shifted == shift_rows(subst)
     IN q' = add_round_key(mix_columns(shifted), 8 * round)
  /\ round' = round + 1
  /\ UNCHANGED <<args, sched, sk_exp, nblocks, blocks, out, ecb>>

\* The last round, and what follows it in aes_ecb.  (The code does not count
\* nblocks down for the rest, it returns.)
LastRound ==
  /\ ecb = "rounds" /\ round = nrounds
  /\ LET subst  == br_aes_ct64_bitslice_Sbox(q)
         final  == add_round_key(shift_rows(subst), 8 * nrounds)
         plain  == br_aes_ct64_ortho(final)
         words  == [b \in 0 .. 3 |-> br_aes_ct64_interleave_out(plain[b], plain[b + 4])]
         t      == br_range_enc32le([n \in 0 .. 15 |-> words[n \div 4][n % 4]], 16)
     IN out' = Concat(out, Slice(t, 0, 16 * batch))
  /\ nblocks' = nblocks - batch
  /\ q' = <<>> /\ round' = 0
  /\ ecb' = "ecb"
  /\ UNCHANGED <<args, sched, sk_exp, blocks>>

EcbNext == KeyschedWord \/ SkeyExpand \/ LoadBatch \/ Round \/ LastRound

EcbSpec == EcbInit /\ [][EcbNext]_ecbVars
----------------------------------------------------------------------------
\* Where the bits of byte n of block b are.
Position(b, n) == 16 * (n % 4) + 4 * (n \div 4) + b

\* After the compression and expansion of the round keys every one of the four
\* lanes holds every bit of every round key, at its place.
EveryLaneHasTheKey ==
  \A n \in DOMAIN sk_exp, b \in 0 .. 3, m \in 0 .. 15 :
    Position(b, m) \in sk_exp[n] <=> 8 * (m % 4) + (n % 8) \in skey[4 * (n \div 8) + (m \div 4)]

\* Step by step the bitsliced code does what FIPS-197 does to bytes: each word of
\* the key schedule, and in each round all blocks of a batch.  The lanes nobody
\* assigned never reach a block, also when a batch is left over after others.
Cipher == INSTANCE BlockCipher
            WITH data   <- in,
                 words  <- [n \in DOMAIN skey |-> [b \in 0 .. 3 |-> {v \in Bits8 : 8 * b + v \in skey[n]}]],
                 blocks <- IF ecb = "rounds"
                           THEN [b \in 0 .. batch - 1 |->
                                  [n \in 0 .. 15 |-> {v \in Bits8 : Position(b, n) \in q[v]}]]
                           ELSE <<>>,
                 answer <- out
ImplementsBlockCipher == Cipher!Spec

\* The wires the gates of record k may use, and the byte across eight words at a bit.
WiresBefore(k) ==
  {"x0", "x1", "x2", "x3", "x4", "x5", "x6", "x7"} \cup UNION {DOMAIN SboxCircuit[i] : i \in 1 .. k - 1}
ByteAcross(w, p) == {v \in Bits8 : p \in w[v]}

\* The circuit is wired in its order, and in a single lane it is the S-box of FIPS-197.
ASSUME SboxAssumption ==
  /\ \A k \in 1 .. Len(SboxCircuit) : \A n \in DOMAIN SboxCircuit[k] :
       {SboxCircuit[k][n][1], SboxCircuit[k][n][3]} \subseteq WiresBefore(k)
  /\ {"s0", "s1", "s2", "s3", "s4", "s5", "s6", "s7"} \subseteq WiresBefore(Len(SboxCircuit) + 1)
  /\ \A a \in SUBSET Bits8 :
       LET w == [v \in 0 .. 7 |-> IF v \in a THEN {0} ELSE {}]
       IN ByteAcross(br_aes_ct64_bitslice_Sbox(w), 0) = Cipher!SubByte[a]
============================================================================
