--------------------------- MODULE Fips202Proofs ---------------------------
(***************************************************************************)
(* Proofs about src/rand/fips202.c, for any number of contexts and blocks  *)
(* of the heap, any inputs and lengths, any subset of the five functions   *)
(* for the incremental half, and any permutation of the states:            *)
(*                                                                         *)
(*   - memory: no context uses the block of another one, or a freed one;   *)
(*   - counters: s_inc[25] is below the rate between two calls;            *)
(*   - refinement: every context is a sponge of its own (AbstractSponge);  *)
(*   - outputs: all that is handed out, by both halves of the file, is     *)
(*     what FIPS 202 says of the message (SpongeReference).                *)
(*                                                                         *)
(* The state of a sponge holds the pending bytes xored into the words.     *)
(* Xor is bit by bit, so the data lemmas compare single bits: Has says     *)
(* whether a byte sequence adds to one.  For the outputs the blocks of a   *)
(* message (AfterBlocks), the last one (Final) and the bytes squeezed from *)
(* it (Stream) get closed forms, to which both the code and the standard   *)
(* are brought; Standard then ties a context to them, and every step       *)
(* keeps it.                                                               *)
(***************************************************************************)
EXTENDS Fips202Process, SliceProofs

-----------------------------------------------------------------------------
\* Bytes xored into a state.

\* Adding bytes to a state gives a state.
LEMMA XorBytesType ==
  ASSUME NEW s \in States, NEW at \in Int, NEW u
  PROVE  XorBytes(s, at, u) \in States
  BY DEF XorBytes, States, Lanes, ++, Bits64

\* Bytes taken from a state.
LEMMA BytesAtType ==
  ASSUME NEW s, NEW from \in Nat, NEW n \in Nat
  PROVE  /\ BytesAt(s, from, n) \in Seq(Byte)
         /\ Len(BytesAt(s, from, n)) = n
<1>1. \A k : ByteAt(s, k) \in Byte
  BY DEF ByteAt, Byte
<1>2. BytesAt(s, from, n) = [i \in 1 .. n |-> ByteAt(s, from + i - 1)]
  BY DEF BytesAt
<1>3. BytesAt(s, from, n) \in [1 .. n -> Byte]
  BY <1>1, <1>2
<1> QED BY <1>3

\* Whether the bytes of u, from byte at on, have the bit in byte n.
Has(u, at, n, bit) == n - at \in 0 .. Len(u) - 1 /\ bit \in u[n - at + 1]

\* The byte and the bit in it for bit b of lane l.
ByteOf(l, b) == 8 * l + (b \div 8)

\* These are numbers of a byte and of a bit.
LEMMA BitNumbers ==
  ASSUME NEW l \in Lanes, NEW b \in Bits64
  PROVE  ByteOf(l, b) \in Nat /\ b % 8 \in Bits8
  BY DEF Lanes, Bits64, Bits8, ByteOf

\* The bits of a state to which bytes are added.
LEMMA XorBytesBit ==
  ASSUME NEW s \in States, NEW at \in Nat, NEW u \in Seq(Byte), NEW l \in Lanes, NEW b \in Bits64
  PROVE  b \in XorBytes(s, at, u)[l] <=> ~(b \in s[l] <=> Has(u, at, ByteOf(l, b), b % 8))
<1> DEFINE Added(k) == {x \in Bits64 : LET i == 8 * k + (x \div 8) - at
                                      IN i \in 0 .. Len(u) - 1 /\ x % 8 \in u[i + 1]}
<1>1. XorBytes(s, at, u)[l] = s[l] ++ Added(l)
  BY DEF XorBytes
<1>2. b \in Added(l) <=> Has(u, at, ByteOf(l, b), b % 8)
  <2>1. b \in Added(l) <=> /\ 8 * l + (b \div 8) - at \in 0 .. Len(u) - 1
                           /\ b % 8 \in u[8 * l + (b \div 8) - at + 1]
    OBVIOUS
  <2>2. ByteOf(l, b) - at = 8 * l + (b \div 8) - at
    BY DEF Lanes, Bits64, ByteOf
  <2>3. Has(u, at, ByteOf(l, b), b % 8) <=> /\ ByteOf(l, b) - at \in 0 .. Len(u) - 1
                                           /\ b % 8 \in u[ByteOf(l, b) - at + 1]
    BY Zenon DEF Has
  <2> HIDE DEF Added
  <2> QED BY <2>1, <2>2, <2>3, Zenon
<1> HIDE DEF Added
<1>3. b \in s[l] ++ Added(l) <=> ~(b \in s[l] <=> b \in Added(l))
  BY DEF ++
<1> QED BY <1>1, <1>2, <1>3

\* States with the same bits are the same.
LEMMA SameBits ==
  ASSUME NEW s \in States, NEW t \in States,
         \A l \in Lanes : \A b \in Bits64 : b \in s[l] <=> b \in t[l]
  PROVE  s = t
<1>1. ASSUME NEW l \in Lanes PROVE s[l] = t[l]
  <2>1. s[l] \subseteq Bits64 /\ t[l] \subseteq Bits64
    BY DEF States
  <2> QED BY <2>1
<1>2. s = [l \in Lanes |-> s[l]] /\ t = [l \in Lanes |-> t[l]]
  BY DEF States
<1> QED BY <1>1, <1>2

\* The first of two pieces.
LEMMA FirstPiece ==
  ASSUME NEW u \in Seq(Byte), NEW v \in Seq(Byte), NEW i \in 1 .. Len(u)
  PROVE  (u \o v)[i] = u[i]
  OBVIOUS

\* The second of two pieces.
LEMMA SecondPiece ==
  ASSUME NEW u \in Seq(Byte), NEW v \in Seq(Byte), NEW i \in 1 .. Len(v)
  PROVE  (u \o v)[Len(u) + i] = v[i]
  OBVIOUS

\* Two pieces are one behind the other.
LEMMA HasAppend ==
  ASSUME NEW u \in Seq(Byte), NEW v \in Seq(Byte), NEW at \in Nat, NEW n \in Nat, NEW bit
  PROVE  /\ Has(u \o v, at, n, bit) <=> Has(u, at, n, bit) \/ Has(v, at + Len(u), n, bit)
         /\ ~(Has(u, at, n, bit) /\ Has(v, at + Len(u), n, bit))
<1> DEFINE k == n - at
<1>1. Len(u \o v) = Len(u) + Len(v) /\ Len(u) \in Nat /\ Len(v) \in Nat /\ k \in Int
  OBVIOUS
<1>2. Has(u \o v, at, n, bit) <=> k \in 0 .. Len(u) + Len(v) - 1 /\ bit \in (u \o v)[k + 1]
  BY <1>1 DEF Has
<1>3. Has(u, at, n, bit) <=> k \in 0 .. Len(u) - 1 /\ bit \in u[k + 1]
  BY DEF Has
<1>4. Has(v, at + Len(u), n, bit) <=> k - Len(u) \in 0 .. Len(v) - 1 /\ bit \in v[k - Len(u) + 1]
  <2>1. n - (at + Len(u)) = k - Len(u)
    BY <1>1
  <2> QED BY <2>1 DEF Has
<1>5. k \in 0 .. Len(u) - 1 => (u \o v)[k + 1] = u[k + 1]
  <2>1. k \in 0 .. Len(u) - 1 => k + 1 \in 1 .. Len(u)
    BY <1>1
  <2> QED BY <2>1, FirstPiece
<1>6. k - Len(u) \in 0 .. Len(v) - 1 => (u \o v)[k + 1] = v[k - Len(u) + 1]
  <2> SUFFICES ASSUME k - Len(u) \in 0 .. Len(v) - 1 PROVE (u \o v)[k + 1] = v[k - Len(u) + 1]
    OBVIOUS
  <2> DEFINE i == k - Len(u) + 1
  <2>1. i \in 1 .. Len(v) /\ k + 1 = Len(u) + i
    BY <1>1
  <2> HIDE DEF i, k
  <2>2. (u \o v)[Len(u) + i] = v[i]
    BY <2>1, SecondPiece
  <2> QED BY <2>1, <2>2, Zenon DEF i
<1> HIDE DEF k
<1>7. CASE k \in 0 .. Len(u) - 1
  <2>1. k - Len(u) \notin 0 .. Len(v) - 1 /\ k \in 0 .. Len(u) + Len(v) - 1
    BY <1>1, <1>7
  <2> QED BY <1>2, <1>3, <1>4, <1>5, <1>7, <2>1
<1>8. CASE k \notin 0 .. Len(u) - 1
  <2>1. k \in 0 .. Len(u) + Len(v) - 1 <=> k - Len(u) \in 0 .. Len(v) - 1
    BY <1>1, <1>8
  <2> QED BY <1>2, <1>3, <1>4, <1>6, <1>8, <2>1
<1> QED BY <1>7, <1>8

\* Adding bytes one piece after the other is adding them at once.
LEMMA XorAppend ==
  ASSUME NEW s \in States, NEW at \in Nat, NEW u \in Seq(Byte), NEW v \in Seq(Byte)
  PROVE  XorBytes(XorBytes(s, at, u), at + Len(u), v) = XorBytes(s, at, u \o v)
<1> DEFINE one == XorBytes(s, at, u)
           two == XorBytes(one, at + Len(u), v)
           all == XorBytes(s, at, u \o v)
<1>1. one \in States /\ two \in States /\ all \in States /\ u \o v \in Seq(Byte) /\ at + Len(u) \in Nat
  BY XorBytesType
<1>2. ASSUME NEW l \in Lanes, NEW b \in Bits64 PROVE b \in two[l] <=> b \in all[l]
  <2>1. /\ b \in two[l] <=> ~(b \in one[l] <=> Has(v, at + Len(u), ByteOf(l, b), b % 8))
        /\ b \in one[l] <=> ~(b \in s[l] <=> Has(u, at, ByteOf(l, b), b % 8))
        /\ b \in all[l] <=> ~(b \in s[l] <=> Has(u \o v, at, ByteOf(l, b), b % 8))
    BY <1>1, XorBytesBit
  <2>2. /\ Has(u \o v, at, ByteOf(l, b), b % 8)
             <=> Has(u, at, ByteOf(l, b), b % 8) \/ Has(v, at + Len(u), ByteOf(l, b), b % 8)
        /\ ~(Has(u, at, ByteOf(l, b), b % 8) /\ Has(v, at + Len(u), ByteOf(l, b), b % 8))
    BY BitNumbers, HasAppend
  <2> QED BY <2>1, <2>2
<1> QED BY <1>1, <1>2, SameBits

\* Adding bytes twice is not adding them.
LEMMA XorTwice ==
  ASSUME NEW s \in States, NEW u \in Seq(Byte)
  PROVE  XorBytes(XorBytes(s, 0, u), 0, u) = s
<1> DEFINE one == XorBytes(s, 0, u)
           two == XorBytes(one, 0, u)
<1>1. one \in States /\ two \in States
  BY XorBytesType
<1>2. ASSUME NEW l \in Lanes, NEW b \in Bits64 PROVE b \in two[l] <=> b \in s[l]
  <2>1. /\ b \in two[l] <=> ~(b \in one[l] <=> Has(u, 0, ByteOf(l, b), b % 8))
        /\ b \in one[l] <=> ~(b \in s[l] <=> Has(u, 0, ByteOf(l, b), b % 8))
    BY <1>1, XorBytesBit
  <2> QED BY <2>1
<1> QED BY <1>1, <1>2, SameBits

\* Adding no bytes changes nothing.
LEMMA XorNothing ==
  ASSUME NEW s \in States
  PROVE  XorBytes(s, 0, <<>>) = s
<1> DEFINE none == XorBytes(s, 0, <<>>)
<1>1. none \in States /\ <<>> \in Seq(Byte)
  BY XorBytesType
<1>2. ASSUME NEW l \in Lanes, NEW b \in Bits64 PROVE b \in none[l] <=> b \in s[l]
  <2>1. ~ Has(<<>>, 0, ByteOf(l, b), b % 8)
    BY BitNumbers DEF Has
  <2> QED BY <1>1, <2>1, XorBytesBit
<1> QED BY <1>1, <1>2, SameBits
-----------------------------------------------------------------------------
\* The inductive invariant, and the types.

\* All that is assumed of KeccakF1600_StatePermute.
PermuteKeepsStates == \A s \in States : Permute(s) \in States

\* Where a call stands: a context in a loop is in the phase of the loop, one that still
\* squeezes has handed out all that was there, and no more bytes are pending than were
\* absorbed.
LoopInv ==
  \A c \in Contexts :
    /\ pc[c] = "absorb" => phase[c] = "absorb"
    /\ pc[c] = "squeeze" => phase[c] = "squeeze" /\ outlen[c] > 0 /\ Count(c) = 0
    /\ phase[c] = "absorb" => Count(c) <= Len(msg[c])

\* The inductive invariant.
IInv == TypeOK /\ Ownership /\ CountBelowRate /\ LoopInv

\* The rates of the five functions.
Rates == {72, 104, 136, 168}

\* The constants of the five functions.
LEMMA FunctionFacts ==
  ASSUME NEW f \in Functions202
  PROVE  /\ f.rate \in Rates /\ f.rate \in Nat /\ f.rate >= 72 /\ f.rate % 8 = 0
         /\ f.domain \in Byte /\ 7 \notin f.domain
         /\ f.digest \in Nat /\ f.digest < f.rate
BY DEF Functions202, Function, AnyLength, SHAKE128, SHAKE256, SHA3_256, SHA3_384, SHA3_512, Byte, Bits8, Rates

\* And of those the contexts are for.
LEMMA AlgorithmFacts ==
  ASSUME NEW f \in Algorithms
  PROVE  /\ f \in Functions202
         /\ f.rate \in Nat /\ f.rate >= 72 /\ f.domain \in Byte /\ f.digest \in Nat /\ f.digest <= f.rate
<1>1. f \in Functions202
  BY IncAssumption
<1>2. f.rate \in Nat /\ f.rate >= 72 /\ f.domain \in Byte /\ f.digest \in Nat /\ f.digest < f.rate
  BY <1>1, FunctionFacts
<1> QED BY <1>1, <1>2

\* The smaller of two numbers.
LEMMA LeastFacts ==
  ASSUME NEW a \in Nat, NEW b \in Nat
  PROVE  Least(a, b) \in Nat /\ Least(a, b) <= a /\ Least(a, b) <= b /\ (Least(a, b) = a \/ Least(a, b) = b)
BY DEF Least

\* The invariant holds before the first call.
LEMMA InitInv == Init => IInv
<1> SUFFICES ASSUME Init PROVE IInv
  OBVIOUS
<1> DEFINE unset == [l \in Lanes |-> Garbage]
<1>1. unset \in States
  BY IncAssumption DEF States
<1>2. TypeOK
  <2>1. words = [b \in Blocks |-> unset]
    BY DEF Init
  <2> HIDE DEF unset
  <2>2. words \in [Blocks -> States]
    BY <1>1, <2>1
  <2>3. msg \in [Contexts -> Seq(Byte)] /\ out \in [Contexts -> Seq(Byte)] /\ m \in [Contexts -> Seq(Byte)]
    BY DEF Init
  <2> QED BY <2>2, <2>3 DEF Init, TypeOK
<1>3. Live = {}
  BY DEF Init, Live
<1> QED BY <1>2, <1>3 DEF Init, IInv, Ownership, CountBelowRate, LoopInv

\* The words inc_init writes.
LEMMA ZeroIsState == ZeroState \in States
  BY DEF ZeroState, States

\* The fields of a context in use, and its state once it is finalized.
LEMMA FinalizedIsState ==
  ASSUME IInv, NEW c \in Contexts, phase[c] # "none"
  PROVE  /\ ctx[c] \in Blocks /\ Words(c) \in States /\ Count(c) \in Nat /\ Count(c) < Rate(c)
         /\ alg[c] \in Algorithms /\ Rate(c) \in Nat /\ Rate(c) >= 72
         /\ keccak_inc_finalize(c) \in States
<1>1. ctx[c] \in Blocks /\ words[ctx[c]] \in States /\ count[ctx[c]] \in Nat /\ alg[c] \in Algorithms
  BY DEF IInv, TypeOK
<1>2. Rate(c) \in Nat /\ Rate(c) >= 72
  BY <1>1, AlgorithmFacts DEF Rate
<1>3. Count(c) < Rate(c)
  BY DEF IInv, CountBelowRate, Live
<1>4. XorBytes(Words(c), Count(c), <<alg[c].domain>>) \in States
  BY <1>1, XorBytesType DEF Words, Count
<1>5. keccak_inc_finalize(c) \in States
  BY <1>2, <1>4, XorBytesType DEF keccak_inc_finalize
<1> QED BY <1>1, <1>2, <1>3, <1>5 DEF Words, Count

\* Every step keeps the types.  It needs the whole invariant: n bytes are only missing
\* from a block, and a remainder is only a number, because the counter is below the rate.
LEMMA TypeStep ==
  ASSUME PermuteKeepsStates, IInv, [Next]_vars
  PROVE  TypeOK'
<1> USE DEF TypeOK
<1>0. TypeOK
  BY DEF IInv
<1>1. CASE UNCHANGED vars
  BY <1>0, <1>1 DEF vars, heap, local, ghost
<1>2. CASE OutOfMemory
  BY <1>0, <1>2 DEF OutOfMemory, Called, heap, local, ghost
<1>3. ASSUME NEW c \in Contexts, inc_init(c) PROVE TypeOK'
  BY <1>0, <1>3, ZeroIsState DEF inc_init, malloc, Called, local
<1>4. ASSUME NEW c \in Contexts, inc_absorb(c) PROVE TypeOK'
  BY <1>0, <1>4, IncAssumption DEF inc_absorb, Called, heap, ghost
<1>5. ASSUME NEW c \in Contexts, AbsorbBlock(c) PROVE TypeOK'
  <2>1. phase[c] # "none"
    BY <1>5 DEF AbsorbBlock, InLoop, IInv, LoopInv
  <2>2. ctx[c] \in Blocks /\ Words(c) \in States /\ Count(c) \in Nat /\ Count(c) < Rate(c) /\ Rate(c) \in Nat
    BY <2>1, FinalizedIsState
  <2>3. Missing(c) \in Nat /\ Missing(c) <= Len(m[c])
    <3>1. m[c] \in Seq(Byte) /\ Len(m[c]) \in Nat
      BY <1>0
    <3>2. ~Fits(c)
      BY <1>5 DEF AbsorbBlock
    <3> QED BY <2>2, <3>1, <3>2 DEF Fits, Missing
  <2> DEFINE u == SubSeq(m[c], 1, Missing(c))
             v == SubSeq(m[c], Missing(c) + 1, Len(m[c]))
             s == Permute(XorBytes(words[ctx[c]], Count(c), u))
  <2>4. u \in Seq(Byte) /\ v \in Seq(Byte)
    BY <1>0, <2>3
  <2>5. s \in States
    BY <2>2, XorBytesType DEF PermuteKeepsStates, Words
  <2>6. /\ words' = [words EXCEPT ![ctx[c]] = s]
        /\ count' = [count EXCEPT ![ctx[c]] = 0]
        /\ m' = [m EXCEPT ![c] = v]
        /\ msg' = [msg EXCEPT ![c] = @ \o u]
        /\ UNCHANGED <<allocated, ctx, pc, outlen, exited, phase, alg, out, calls>>
    BY <1>5 DEF AbsorbBlock
  <2> HIDE DEF u, v, s
  <2> QED BY <1>0, <2>4, <2>5, <2>6
<1>6. ASSUME NEW c \in Contexts, AbsorbRest(c) PROVE TypeOK'
  <2>1. phase[c] # "none"
    BY <1>6 DEF AbsorbRest, InLoop, IInv, LoopInv
  <2>2. Words(c) \in States /\ Count(c) \in Nat
    BY <2>1, FinalizedIsState
  <2>3. XorBytes(words[ctx[c]], Count(c), m[c]) \in States
    BY <2>2, XorBytesType DEF Words
  <2>4. m[c] \in Seq(Byte) /\ Len(m[c]) \in Nat
    BY <1>0
  <2> QED BY <1>0, <1>6, <2>3, <2>4 DEF AbsorbRest
<1>7. ASSUME NEW c \in Contexts, shake_inc_finalize(c) PROVE TypeOK'
  <2>1. keccak_inc_finalize(c) \in States
    BY <1>7, FinalizedIsState DEF shake_inc_finalize
  <2> QED BY <1>0, <1>7, <2>1 DEF shake_inc_finalize, Called, local
<1>8. ASSUME NEW c \in Contexts, sha3_inc_finalize(c) PROVE TypeOK'
  <2>1. keccak_inc_finalize(c) \in States /\ alg[c] \in Algorithms
    BY <1>8, FinalizedIsState DEF sha3_inc_finalize
  <2> DEFINE s == Permute(keccak_inc_finalize(c))
  <2>2. s \in States
    BY <2>1 DEF PermuteKeepsStates
  <2>3. BytesAt(s, 0, alg[c].digest) \in Seq(Byte)
    BY <2>1, AlgorithmFacts, BytesAtType
  <2> HIDE DEF s
  <2>4. /\ words' = [words EXCEPT ![ctx[c]] = s]
        /\ count' = [count EXCEPT ![ctx[c]] = 0]
        /\ allocated' = allocated \ {ctx[c]}
        /\ phase' = [phase EXCEPT ![c] = "none"]
        /\ out' = [out EXCEPT ![c] = BytesAt(s, 0, alg[c].digest)]
        /\ calls' = calls + 1
        /\ UNCHANGED <<ctx, local, exited, alg, msg>>
    BY <1>8 DEF sha3_inc_finalize, free, Called, s
  <2> QED BY <1>0, <2>2, <2>3, <2>4 DEF local
<1>9. ASSUME NEW c \in Contexts, inc_squeeze(c) PROVE TypeOK'
  <2>1. Words(c) \in States /\ Count(c) \in Nat /\ Count(c) < Rate(c) /\ Rate(c) \in Nat
    BY <1>9, FinalizedIsState DEF inc_squeeze
  <2>2. PICK wanted \in Lengths :
          LET i == Least(wanted, Count(c))
          IN /\ out' = [out EXCEPT ![c] = @ \o BytesAt(Words(c), Rate(c) - Count(c), i)]
             /\ count' = [count EXCEPT ![ctx[c]] = @ - i]
             /\ outlen' = [outlen EXCEPT ![c] = wanted - i]
             /\ pc' = [pc EXCEPT ![c] = IF wanted = i THEN "idle" ELSE "squeeze"]
    BY <1>9 DEF inc_squeeze
  <2> DEFINE i == Least(wanted, Count(c))
             given == BytesAt(Words(c), Rate(c) - Count(c), i)
  <2>3. wanted \in Nat /\ i \in Nat /\ i <= wanted /\ i <= count[ctx[c]]
    BY <2>1, IncAssumption, LeastFacts DEF Count
  <2>4. given \in Seq(Byte)
    BY <2>1, <2>3, BytesAtType
  <2>5. wanted - i \in Nat /\ count[ctx[c]] - i \in Nat
    BY <2>1, <2>3 DEF Count
  <2>6. /\ out' = [out EXCEPT ![c] = @ \o given]
        /\ count' = [count EXCEPT ![ctx[c]] = @ - i]
        /\ outlen' = [outlen EXCEPT ![c] = wanted - i]
        /\ pc' = [pc EXCEPT ![c] = IF wanted = i THEN "idle" ELSE "squeeze"]
        /\ calls' = calls + 1
        /\ UNCHANGED <<words, allocated, ctx, m, exited, phase, alg, msg>>
    BY <1>9, <2>2 DEF inc_squeeze, Called
  <2> HIDE DEF i, given
  <2> QED BY <1>0, <2>3, <2>4, <2>5, <2>6, SMTT(20)
<1>10. ASSUME NEW c \in Contexts, SqueezeBlock(c) PROVE TypeOK'
  <2>1. phase[c] # "none"
    BY <1>10 DEF SqueezeBlock, InLoop, IInv, LoopInv
  <2>2. Words(c) \in States /\ Rate(c) \in Nat
    BY <2>1, FinalizedIsState
  <2> DEFINE s == Permute(Words(c))
             i == Squeezed(c)
  <2>3. s \in States
    BY <2>2 DEF PermuteKeepsStates
  <2>4. i \in Nat /\ i <= outlen[c] /\ i <= Rate(c)
    BY <1>0, <2>2, LeastFacts DEF Squeezed
  <2>5. BytesAt(s, 0, i) \in Seq(Byte)
    BY <2>4, BytesAtType
  <2>6. outlen[c] - i \in Nat /\ Rate(c) - i \in Nat
    BY <1>0, <2>2, <2>4
  <2>7. /\ words' = [words EXCEPT ![ctx[c]] = s]
        /\ out' = [out EXCEPT ![c] = @ \o BytesAt(s, 0, i)]
        /\ outlen' = [outlen EXCEPT ![c] = @ - i]
        /\ count' = [count EXCEPT ![ctx[c]] = Rate(c) - i]
        /\ pc' = [pc EXCEPT ![c] = IF outlen[c] = i THEN "idle" ELSE "squeeze"]
        /\ UNCHANGED <<allocated, ctx, m, exited, phase, alg, msg, calls>>
    BY <1>10 DEF SqueezeBlock
  <2> HIDE DEF i, s
  <2> QED BY <1>0, <2>3, <2>4, <2>5, <2>6, <2>7
<1>11. ASSUME NEW c \in Contexts, inc_ctx_release(c) PROVE TypeOK'
  BY <1>0, <1>11 DEF inc_ctx_release, free, Called, local
<1>12. ASSUME NEW dest \in Contexts, NEW src \in Contexts, inc_ctx_clone(dest, src) PROVE TypeOK'
  <2>1. Words(src) \in States /\ Count(src) \in Nat
    BY <1>12, FinalizedIsState DEF inc_ctx_clone
  <2> QED BY <1>0, <1>12, <2>1 DEF inc_ctx_clone, malloc, memcpy, Called, local
<1> QED BY <1>1, <1>2, <1>3, <1>4, <1>5, <1>6, <1>7, <1>8, <1>9, <1>10, <1>11, <1>12 DEF Next
-----------------------------------------------------------------------------
\* Who owns a block.

\* Every step keeps the ownership of blocks.
LEMMA OwnershipStep ==
  ASSUME IInv, [Next]_vars
  PROVE  Ownership'
<1>0. TypeOK /\ Ownership
  BY DEF IInv
<1>1. ASSUME UNCHANGED <<allocated, ctx, phase>> PROVE Ownership'
  BY <1>0, <1>1 DEF Ownership, Live
\* A context is taken into use with a block of its own, or stays in use.
<1>2. ASSUME NEW c \in Contexts, NEW b \in Blocks, malloc(c, b), phase[c] = "none",
             \A d \in Contexts \ {c} : phase'[d] = phase[d]
      PROVE  Ownership'
  <2>1. \A d \in Contexts \ {c} : ctx'[d] = ctx[d]
    BY <1>2 DEF malloc
  <2>2. ctx'[c] = b /\ b \notin allocated /\ allocated' = allocated \cup {b}
    BY <1>0, <1>2 DEF malloc, TypeOK
  <2>3. ASSUME NEW d \in Live', d # c PROVE d \in Live /\ ctx'[d] = ctx[d] /\ ctx[d] \in allocated
    BY <1>0, <1>2, <2>1, <2>3 DEF Live, Ownership
  <2>4. \A d \in Live' : ctx'[d] \in allocated'
    BY <2>2, <2>3
  <2>5. ASSUME NEW d \in Live', NEW e \in Live', ctx'[d] = ctx'[e] PROVE d = e
    BY <1>0, <2>2, <2>3, <2>5 DEF Ownership
  <2> QED BY <2>4, <2>5 DEF Ownership
\* A context is given up, with its block.
<1>3. ASSUME NEW c \in Contexts, c \in Live, free(c), ctx' = ctx,
             phase' = [phase EXCEPT ![c] = "none"]
      PROVE  Ownership'
  <2>1. ASSUME NEW d \in Live' PROVE d \in Live /\ d # c
    BY <1>0, <1>3, <2>1 DEF Live, TypeOK
  <2>2. ASSUME NEW d \in Live' PROVE ctx'[d] \in allocated'
    BY <1>0, <1>3, <2>1, <2>2 DEF Ownership, free
  <2>3. ASSUME NEW d \in Live', NEW e \in Live', ctx'[d] = ctx'[e] PROVE d = e
    BY <1>0, <1>3, <2>1, <2>3 DEF Ownership
  <2> QED BY <2>2, <2>3 DEF Ownership
<1>4. CASE UNCHANGED vars
  BY <1>1, <1>4 DEF vars, heap, ghost
<1>5. CASE OutOfMemory
  BY <1>1, <1>5 DEF OutOfMemory, heap, ghost
<1>6. ASSUME NEW c \in Contexts, inc_init(c) PROVE Ownership'
  <2>1. phase[c] = "none" /\ phase' = [phase EXCEPT ![c] = "absorb"] /\ \E b \in Blocks : malloc(c, b)
    BY <1>6 DEF inc_init
  <2>2. \A d \in Contexts \ {c} : phase'[d] = phase[d]
    BY <1>0, <2>1 DEF TypeOK
  <2> QED BY <1>2, <2>1, <2>2
<1>7. ASSUME NEW c \in Contexts, inc_absorb(c) PROVE Ownership'
  BY <1>1, <1>7 DEF inc_absorb, heap, ghost
<1>8. ASSUME NEW c \in Contexts, AbsorbBlock(c) PROVE Ownership'
  BY <1>1, <1>8 DEF AbsorbBlock
<1>9. ASSUME NEW c \in Contexts, AbsorbRest(c) PROVE Ownership'
  BY <1>1, <1>9 DEF AbsorbRest
<1>10. ASSUME NEW c \in Contexts, shake_inc_finalize(c) PROVE Ownership'
  <2>1. phase[c] = "absorb" /\ phase' = [phase EXCEPT ![c] = "squeeze"] /\ UNCHANGED <<allocated, ctx>>
    BY <1>10 DEF shake_inc_finalize
  <2>2. Live' = Live
    BY <1>0, <2>1 DEF Live, TypeOK
  <2> QED BY <1>0, <2>1, <2>2 DEF Ownership
<1>11. ASSUME NEW c \in Contexts, sha3_inc_finalize(c) PROVE Ownership'
  BY <1>3, <1>11 DEF sha3_inc_finalize, Live
<1>12. ASSUME NEW c \in Contexts, inc_squeeze(c) PROVE Ownership'
  BY <1>1, <1>12 DEF inc_squeeze
<1>13. ASSUME NEW c \in Contexts, SqueezeBlock(c) PROVE Ownership'
  BY <1>1, <1>13 DEF SqueezeBlock
<1>14. ASSUME NEW c \in Contexts, inc_ctx_release(c) PROVE Ownership'
  BY <1>3, <1>14 DEF inc_ctx_release, Live
<1>15. ASSUME NEW dest \in Contexts, NEW src \in Contexts, inc_ctx_clone(dest, src) PROVE Ownership'
  <2>1. phase[dest] = "none" /\ \E b \in Blocks : malloc(dest, b)
    BY <1>15 DEF inc_ctx_clone
  <2>2. phase' = [phase EXCEPT ![dest] = phase[src]]
    BY <1>15 DEF inc_ctx_clone
  <2>3. \A d \in Contexts \ {dest} : phase'[d] = phase[d]
    BY <1>0, <2>2 DEF TypeOK
  <2> QED BY <1>2, <2>1, <2>3
<1> QED BY <1>4, <1>5, <1>6, <1>7, <1>8, <1>9, <1>10, <1>11, <1>12, <1>13, <1>14, <1>15 DEF Next

\* What a step of context c leaves alone: the other contexts and their blocks.
Others(c) ==
  \A d \in Contexts \ {c} :
    /\ phase'[d] = phase[d] /\ ctx'[d] = ctx[d] /\ alg'[d] = alg[d] /\ msg'[d] = msg[d]
    /\ pc'[d] = pc[d] /\ outlen'[d] = outlen[d]
    /\ phase[d] # "none" => words'[ctx[d]] = words[ctx[d]] /\ count'[ctx[d]] = count[ctx[d]]

\* A step that writes only the block of a live context.
LEMMA OwnBlock ==
  ASSUME IInv, NEW c \in Contexts, phase[c] # "none",
         \A b \in Blocks \ {ctx[c]} : words'[b] = words[b] /\ count'[b] = count[b],
         ctx' = ctx, alg' = alg,
         \A d \in Contexts \ {c} : /\ phase'[d] = phase[d] /\ msg'[d] = msg[d]
                                   /\ pc'[d] = pc[d] /\ outlen'[d] = outlen[d]
  PROVE  Others(c)
<1>0. TypeOK /\ Ownership
  BY DEF IInv
<1>1. ASSUME NEW d \in Contexts \ {c}, phase[d] # "none"
      PROVE  words'[ctx[d]] = words[ctx[d]] /\ count'[ctx[d]] = count[ctx[d]]
  <2>1. ctx[d] # ctx[c] /\ ctx[d] \in Blocks
    BY <1>0, <1>1 DEF Ownership, Live, TypeOK
  <2> QED BY <1>0, <2>1 DEF TypeOK
<1> QED BY <1>0, <1>1 DEF Others, TypeOK

\* A step that takes a free block.
LEMMA NewBlock ==
  ASSUME IInv, NEW c \in Contexts, NEW b \in Blocks, malloc(c, b), NEW w, NEW n,
         words' = [words EXCEPT ![b] = w], count' = [count EXCEPT ![b] = n],
         \A d \in Contexts \ {c} : /\ phase'[d] = phase[d] /\ msg'[d] = msg[d] /\ alg'[d] = alg[d]
                                   /\ pc'[d] = pc[d] /\ outlen'[d] = outlen[d]
  PROVE  /\ Others(c)
         /\ ctx'[c] = b /\ count'[b] = n
<1>0. TypeOK /\ Ownership
  BY DEF IInv
<1>1. ASSUME NEW d \in Contexts \ {c}, phase[d] # "none"
      PROVE  words'[ctx[d]] = words[ctx[d]] /\ count'[ctx[d]] = count[ctx[d]]
  <2>1. ctx[d] # b /\ ctx[d] \in Blocks
    BY <1>0, <1>1 DEF Ownership, Live, TypeOK, malloc
  <2> QED BY <1>0, <2>1 DEF TypeOK
<1>2. \A d \in Contexts \ {c} : ctx'[d] = ctx[d]
  BY DEF malloc
<1>3. ctx'[c] = b /\ count'[b] = n
  BY <1>0 DEF malloc, TypeOK
<1> QED BY <1>1, <1>2, <1>3 DEF Others
-----------------------------------------------------------------------------
\* The counter and the loops.

\* Its own counter.
Counted(c) ==
  /\ phase[c] # "none" => Count(c) < Rate(c)
  /\ pc[c] = "absorb" => phase[c] = "absorb"
  /\ pc[c] = "squeeze" => phase[c] = "squeeze" /\ outlen[c] > 0 /\ Count(c) = 0
  /\ phase[c] = "absorb" => Count(c) <= Len(msg[c])

\* The counters and loops of all contexts, one by one.
LEMMA CountedAll == CountBelowRate /\ LoopInv <=> \A c \in Contexts : Counted(c)
  BY DEF CountBelowRate, LoopInv, Live, Counted

\* A step of c keeps what holds of the others.
LEMMA CountedStep ==
  ASSUME CountBelowRate, LoopInv, NEW c \in Contexts, Others(c), Counted(c)'
  PROVE  CountBelowRate' /\ LoopInv'
<1>1. \A d \in Contexts : Counted(d)
  BY CountedAll
<1>2. ASSUME NEW d \in Contexts, d # c PROVE Counted(d)'
  <2>1. /\ phase'[d] = phase[d] /\ ctx'[d] = ctx[d] /\ alg'[d] = alg[d] /\ msg'[d] = msg[d]
        /\ pc'[d] = pc[d] /\ outlen'[d] = outlen[d]
        /\ phase[d] # "none" => count'[ctx[d]] = count[ctx[d]]
    BY <1>2 DEF Others
  <2>2. Counted(d)
    BY <1>1
  <2> QED BY <2>1, <2>2 DEF Counted, Count, Rate
<1>3. \A d \in Contexts : Counted(d)'
  BY <1>2
<1> QED BY <1>3 DEF CountBelowRate, LoopInv, Live, Counted

\* The step of a context is its own.
LEMMA OthersKept ==
  ASSUME IInv, NEW c \in Contexts,
         \/ inc_init(c) \/ AbsorbBlock(c) \/ AbsorbRest(c) \/ shake_inc_finalize(c)
         \/ sha3_inc_finalize(c) \/ inc_squeeze(c) \/ SqueezeBlock(c) \/ inc_ctx_release(c)
         \/ \E src \in Contexts : inc_ctx_clone(c, src)
  PROVE  Others(c)
<1>0. TypeOK /\ LoopInv
  BY DEF IInv
<1>1. CASE inc_init(c)
  <2>1. PICK b \in Blocks : /\ malloc(c, b)
                            /\ words' = [words EXCEPT ![b] = ZeroState]
                            /\ count' = [count EXCEPT ![b] = 0]
    BY <1>1 DEF inc_init
  <2>2. \A d \in Contexts \ {c} : phase'[d] = phase[d] /\ msg'[d] = msg[d] /\ alg'[d] = alg[d]
                                  /\ pc'[d] = pc[d] /\ outlen'[d] = outlen[d]
    BY <1>0, <1>1 DEF inc_init, TypeOK, local
  <2> QED BY <2>1, <2>2, NewBlock
<1>2. CASE \E src \in Contexts : inc_ctx_clone(c, src)
  <2>1. PICK src \in Contexts : inc_ctx_clone(c, src)
    BY <1>2
  <2>2. PICK b \in Blocks : /\ malloc(c, b)
                            /\ words' = [words EXCEPT ![b] = Words(src)]
                            /\ count' = [count EXCEPT ![b] = Count(src)]
    BY <2>1 DEF inc_ctx_clone, memcpy
  <2>3. \A d \in Contexts \ {c} : phase'[d] = phase[d] /\ msg'[d] = msg[d] /\ alg'[d] = alg[d]
                                  /\ pc'[d] = pc[d] /\ outlen'[d] = outlen[d]
    BY <1>0, <2>1 DEF inc_ctx_clone, TypeOK, local
  <2> QED BY <2>2, <2>3, NewBlock
<1>3. CASE inc_ctx_release(c)
  <2>1. \A d \in Contexts \ {c} : phase'[d] = phase[d]
    BY <1>0, <1>3 DEF inc_ctx_release, TypeOK
  <2> QED BY <1>3, <2>1 DEF inc_ctx_release, Others, local
<1>4. CASE \/ AbsorbBlock(c) \/ AbsorbRest(c) \/ shake_inc_finalize(c)
           \/ sha3_inc_finalize(c) \/ inc_squeeze(c) \/ SqueezeBlock(c)
  <2>1. phase[c] # "none" /\ ctx' = ctx /\ alg' = alg
    BY <1>0, <1>4 DEF AbsorbBlock, AbsorbRest, shake_inc_finalize, sha3_inc_finalize, inc_squeeze,
                      SqueezeBlock, InLoop, LoopInv
  <2>2. \A b \in Blocks \ {ctx[c]} : words'[b] = words[b]
    BY <1>0, <1>4 DEF AbsorbBlock, AbsorbRest, shake_inc_finalize, sha3_inc_finalize, inc_squeeze,
                      SqueezeBlock, TypeOK
  <2>3. \A b \in Blocks \ {ctx[c]} : count'[b] = count[b]
    BY <1>0, <1>4 DEF AbsorbBlock, AbsorbRest, shake_inc_finalize, sha3_inc_finalize, inc_squeeze,
                      SqueezeBlock, TypeOK
  <2>4. \A d \in Contexts \ {c} : phase'[d] = phase[d] /\ msg'[d] = msg[d]
    BY <1>0, <1>4 DEF AbsorbBlock, AbsorbRest, shake_inc_finalize, sha3_inc_finalize, inc_squeeze,
                      SqueezeBlock, TypeOK
  <2>5. \A d \in Contexts \ {c} : pc'[d] = pc[d] /\ outlen'[d] = outlen[d]
    BY <1>0, <1>4 DEF AbsorbBlock, AbsorbRest, shake_inc_finalize, sha3_inc_finalize, inc_squeeze,
                      SqueezeBlock, TypeOK, local
  <2> QED BY <2>1, <2>2, <2>3, <2>4, <2>5, OwnBlock, SMTT(20)
<1> QED BY <1>1, <1>2, <1>3, <1>4

\* A counter of k bytes, to which n more are added.
LEMMA RoomForRest ==
  ASSUME NEW k \in Nat, NEW n \in Nat, NEW l \in Nat, NEW r \in Nat, k <= l, n + k < r
  PROVE  k + n < r /\ k + n <= l + n
  OBVIOUS

\* Every step keeps the counters below the rate and the loops in their phases.
LEMMA LoopStep ==
  ASSUME IInv, TypeOK', [Next]_vars
  PROVE  CountBelowRate' /\ LoopInv'
<1>0. TypeOK /\ CountBelowRate /\ LoopInv
  BY DEF IInv
<1>t. \A c \in Contexts : /\ ctx[c] \in Blocks /\ count[ctx[c]] \in Nat /\ m[c] \in Seq(Byte)
                          /\ msg[c] \in Seq(Byte) /\ out[c] \in Seq(Byte) /\ outlen[c] \in Nat
                          /\ Len(m[c]) \in Nat /\ Len(msg[c]) \in Nat
  BY <1>0 DEF TypeOK
<1>1. ASSUME UNCHANGED <<words, count, ctx, alg, phase, msg, pc, outlen>> PROVE CountBelowRate' /\ LoopInv'
  BY <1>0, <1>1 DEF CountBelowRate, LoopInv, Live, Count, Rate
<1>2. CASE UNCHANGED vars
  BY <1>1, <1>2 DEF vars, heap, local, ghost
<1>3. CASE OutOfMemory
  BY <1>1, <1>3 DEF OutOfMemory, heap, local, ghost
<1>4. ASSUME NEW c \in Contexts, inc_init(c) PROVE CountBelowRate' /\ LoopInv'
  <2>1. PICK b \in Blocks : /\ malloc(c, b)
                            /\ words' = [words EXCEPT ![b] = ZeroState]
                            /\ count' = [count EXCEPT ![b] = 0]
    BY <1>4 DEF inc_init
  <2>2. PICK f \in Algorithms : alg' = [alg EXCEPT ![c] = f]
    BY <1>4 DEF inc_init
  <2>3. /\ phase' = [phase EXCEPT ![c] = "absorb"] /\ msg' = [msg EXCEPT ![c] = <<>>]
        /\ pc' = pc /\ outlen' = outlen /\ pc[c] = "idle"
    BY <1>4 DEF inc_init, Idle, local
  <2>4. Others(c) /\ ctx'[c] = b /\ count'[b] = 0
    BY <1>0, <2>1, <2>2, <2>3, NewBlock DEF TypeOK
  <2>5. alg'[c] = f /\ f.rate \in Nat /\ f.rate >= 72 /\ Len(msg'[c]) = 0 /\ pc'[c] = "idle"
    BY <1>0, <2>2, <2>3, AlgorithmFacts DEF TypeOK
  <2>6. Counted(c)'
    BY <2>4, <2>5 DEF Counted, Count, Rate
  <2> QED BY <1>0, <2>4, <2>6, CountedStep
<1>5. ASSUME NEW c \in Contexts, inc_absorb(c) PROVE CountBelowRate' /\ LoopInv'
  <2>1. /\ UNCHANGED <<words, count, ctx, alg, phase, msg, outlen>>
        /\ pc' = [pc EXCEPT ![c] = "absorb"] /\ phase[c] = "absorb"
    BY <1>5 DEF inc_absorb, heap, ghost
  <2>2. \A d \in Contexts : pc'[d] = IF d = c THEN "absorb" ELSE pc[d]
    BY <1>0, <2>1 DEF TypeOK
  <2> QED BY <1>0, <2>1, <2>2 DEF CountBelowRate, LoopInv, Live, Count, Rate
<1>6. ASSUME NEW c \in Contexts, AbsorbBlock(c) PROVE CountBelowRate' /\ LoopInv'
  <2>1. phase[c] = "absorb" /\ pc[c] = "absorb"
    BY <1>0, <1>6 DEF AbsorbBlock, InLoop, LoopInv
  <2>2. PICK w, u : /\ words' = [words EXCEPT ![ctx[c]] = w] /\ count' = [count EXCEPT ![ctx[c]] = 0]
                    /\ msg' = [msg EXCEPT ![c] = u]
                    /\ UNCHANGED <<ctx, pc, outlen, phase, alg>>
    BY <1>6 DEF AbsorbBlock
  <2>3. \A d \in Contexts \ {c} : msg'[d] = msg[d]
    BY <1>0, <2>2 DEF TypeOK
  <2>4. Others(c) /\ count'[ctx[c]] = 0
    BY <1>6, <1>0, <1>t, <2>2, OthersKept DEF TypeOK
  <2>5. Rate(c) \in Nat /\ Rate(c) >= 72
    BY <2>1, FinalizedIsState
  <2>6. msg'[c] \in Seq(Byte)
    BY DEF TypeOK
  <2>7. Counted(c)'
    BY <2>1, <2>2, <2>4, <2>5, <2>6 DEF Counted, Count, Rate
  <2> QED BY <1>0, <2>4, <2>7, CountedStep
<1>7. ASSUME NEW c \in Contexts, AbsorbRest(c) PROVE CountBelowRate' /\ LoopInv'
  <2>1. phase[c] = "absorb" /\ Count(c) <= Len(msg[c]) /\ Len(m[c]) + Count(c) < Rate(c)
    BY <1>0, <1>7 DEF AbsorbRest, InLoop, LoopInv, Fits
  <2> DEFINE n == count[ctx[c]] + Len(m[c])
  <2>2. /\ words' = [words EXCEPT ![ctx[c]] = XorBytes(words[ctx[c]], Count(c), m[c])]
        /\ count' = [count EXCEPT ![ctx[c]] = n]
        /\ pc' = [pc EXCEPT ![c] = "idle"] /\ msg' = [msg EXCEPT ![c] = msg[c] \o m[c]]
        /\ UNCHANGED <<ctx, outlen, phase, alg>>
    BY <1>7 DEF AbsorbRest
  <2> HIDE DEF n
  <2>3. \A d \in Contexts \ {c} : msg'[d] = msg[d] /\ pc'[d] = pc[d]
    BY <1>0, <2>2 DEF TypeOK
  <2>4. Others(c) /\ count'[ctx[c]] = n
    BY <1>7, <1>0, <1>t, <2>2, OthersKept DEF TypeOK
  <2>5. pc'[c] = "idle" /\ Len(msg'[c]) = Len(msg[c]) + Len(m[c])
    <3>1. msg'[c] = msg[c] \o m[c] /\ pc'[c] = "idle"
      BY <1>0, <2>2 DEF TypeOK
    <3> QED BY <1>t, <3>1
  <2>6. n < Rate(c) /\ n <= Len(msg[c]) + Len(m[c])
    <3>1. Rate(c) \in Nat
      BY <2>1, FinalizedIsState
    <3>2. /\ count[ctx[c]] \in Nat /\ Len(m[c]) \in Nat /\ Len(msg[c]) \in Nat
          /\ count[ctx[c]] <= Len(msg[c]) /\ Len(m[c]) + count[ctx[c]] < Rate(c)
      BY <1>t, <2>1 DEF Count
    <3> QED BY <3>1, <3>2, RoomForRest, Zenon DEF n
  <2>7. Counted(c)'
    BY <2>1, <2>2, <2>4, <2>5, <2>6 DEF Counted, Count, Rate
  <2> QED BY <1>0, <2>4, <2>7, CountedStep
<1>8. ASSUME NEW c \in Contexts, shake_inc_finalize(c) PROVE CountBelowRate' /\ LoopInv'
  <2>1. phase[c] = "absorb" /\ pc[c] = "idle"
    BY <1>8 DEF shake_inc_finalize, Idle
  <2>2. /\ words' = [words EXCEPT ![ctx[c]] = keccak_inc_finalize(c)]
        /\ count' = [count EXCEPT ![ctx[c]] = 0]
        /\ phase' = [phase EXCEPT ![c] = "squeeze"]
        /\ UNCHANGED <<ctx, pc, outlen, alg, msg>>
    BY <1>8 DEF shake_inc_finalize, local
  <2>3. phase'[c] = "squeeze" /\ \A d \in Contexts \ {c} : phase'[d] = phase[d]
    BY <1>0, <2>2 DEF TypeOK
  <2>4. Others(c) /\ count'[ctx[c]] = 0
    BY <1>8, <1>0, <1>t, <2>2, OthersKept DEF TypeOK
  <2>5. Rate(c) \in Nat /\ Rate(c) >= 72
    BY <2>1, FinalizedIsState
  <2>6. Counted(c)'
    BY <2>1, <2>2, <2>3, <2>4, <2>5 DEF Counted, Count, Rate
  <2> QED BY <1>0, <2>4, <2>6, CountedStep
<1>9. ASSUME NEW c \in Contexts, sha3_inc_finalize(c) PROVE CountBelowRate' /\ LoopInv'
  <2>1. phase[c] = "absorb" /\ pc[c] = "idle"
    BY <1>9 DEF sha3_inc_finalize, Idle
  <2>2. /\ words' = [words EXCEPT ![ctx[c]] = Permute(keccak_inc_finalize(c))]
        /\ count' = [count EXCEPT ![ctx[c]] = 0]
        /\ phase' = [phase EXCEPT ![c] = "none"]
        /\ UNCHANGED <<ctx, pc, outlen, alg, msg>>
    BY <1>9 DEF sha3_inc_finalize, local
  <2>3. phase'[c] = "none" /\ \A d \in Contexts \ {c} : phase'[d] = phase[d]
    BY <1>0, <2>2 DEF TypeOK
  <2>4. Others(c)
    BY <1>9, OthersKept
  <2>5. Counted(c)'
    BY <2>1, <2>2, <2>3 DEF Counted
  <2> QED BY <1>0, <2>4, <2>5, CountedStep
<1>10. ASSUME NEW c \in Contexts, inc_squeeze(c) PROVE CountBelowRate' /\ LoopInv'
  <2>1. phase[c] = "squeeze" /\ pc[c] = "idle"
    BY <1>10 DEF inc_squeeze, Idle
  <2>2. PICK wanted \in Lengths :
          LET i == Least(wanted, Count(c))
          IN /\ count' = [count EXCEPT ![ctx[c]] = @ - i]
             /\ outlen' = [outlen EXCEPT ![c] = wanted - i]
             /\ pc' = [pc EXCEPT ![c] = IF wanted = i THEN "idle" ELSE "squeeze"]
    BY <1>10 DEF inc_squeeze
  <2> DEFINE i == Least(wanted, Count(c))
             n == count[ctx[c]] - i
  <2>3. wanted \in Nat /\ Count(c) \in Nat /\ Count(c) < Rate(c) /\ Rate(c) \in Nat
    BY <2>1, IncAssumption, FinalizedIsState
  <2>4. i \in Nat /\ i <= wanted /\ i <= Count(c) /\ (i = wanted \/ i = Count(c))
    BY <2>3, LeastFacts
  <2>5. n < Rate(c) /\ (wanted # i => n = 0 /\ wanted - i > 0)
    BY <2>3, <2>4 DEF Count
  <2>6. /\ count' = [count EXCEPT ![ctx[c]] = n]
        /\ outlen' = [outlen EXCEPT ![c] = wanted - i]
        /\ pc' = [pc EXCEPT ![c] = IF wanted = i THEN "idle" ELSE "squeeze"]
        /\ UNCHANGED <<words, ctx, phase, alg, msg>>
    BY <1>10, <2>2 DEF inc_squeeze
  <2> HIDE DEF i, n
  <2>7. /\ \A d \in Contexts \ {c} : pc'[d] = pc[d] /\ outlen'[d] = outlen[d]
        /\ outlen'[c] = wanted - i
        /\ pc'[c] = IF wanted = i THEN "idle" ELSE "squeeze"
    BY <1>0, <2>6 DEF TypeOK
  <2>8. Others(c) /\ count'[ctx[c]] = n
    BY <1>10, <1>0, <1>t, <2>6, OthersKept DEF TypeOK
  <2>9. Counted(c)'
    BY <2>1, <2>5, <2>6, <2>7, <2>8 DEF Counted, Count, Rate
  <2> QED BY <1>0, <2>8, <2>9, CountedStep
<1>11. ASSUME NEW c \in Contexts, SqueezeBlock(c) PROVE CountBelowRate' /\ LoopInv'
  <2>1. phase[c] = "squeeze" /\ outlen[c] > 0
    BY <1>0, <1>11 DEF SqueezeBlock, InLoop, LoopInv
  <2> DEFINE i == Squeezed(c)
             n == Rate(c) - i
  <2>2. Rate(c) \in Nat /\ Rate(c) >= 72
    BY <2>1, FinalizedIsState
  <2>3. i \in Nat /\ i <= outlen[c] /\ i <= Rate(c) /\ (i = outlen[c] \/ i = Rate(c))
    BY <1>t, <2>2, LeastFacts DEF Squeezed
  <2>4. n < Rate(c) /\ (outlen[c] # i => n = 0 /\ outlen[c] - i > 0)
    BY <1>t, <2>1, <2>2, <2>3
  <2>5. /\ words' = [words EXCEPT ![ctx[c]] = Permute(Words(c))]
        /\ count' = [count EXCEPT ![ctx[c]] = n]
        /\ outlen' = [outlen EXCEPT ![c] = outlen[c] - i]
        /\ pc' = [pc EXCEPT ![c] = IF outlen[c] = i THEN "idle" ELSE "squeeze"]
        /\ UNCHANGED <<ctx, phase, alg, msg>>
    BY <1>11 DEF SqueezeBlock
  <2> HIDE DEF i, n
  <2>6. /\ \A d \in Contexts \ {c} : pc'[d] = pc[d] /\ outlen'[d] = outlen[d]
        /\ outlen'[c] = outlen[c] - i
        /\ pc'[c] = IF outlen[c] = i THEN "idle" ELSE "squeeze"
    BY <1>0, <2>5 DEF TypeOK
  <2>7. Others(c) /\ count'[ctx[c]] = n
    BY <1>11, <1>0, <1>t, <2>5, OthersKept DEF TypeOK
  <2>8. Counted(c)'
    BY <2>1, <2>4, <2>5, <2>6, <2>7 DEF Counted, Count, Rate
  <2> QED BY <1>0, <2>7, <2>8, CountedStep
<1>12. ASSUME NEW c \in Contexts, inc_ctx_release(c) PROVE CountBelowRate' /\ LoopInv'
  <2>1. /\ phase' = [phase EXCEPT ![c] = "none"]
        /\ pc[c] = "idle"
        /\ UNCHANGED <<words, count, ctx, pc, outlen, alg, msg>>
    BY <1>12 DEF inc_ctx_release, Idle, local
  <2>2. phase'[c] = "none" /\ \A d \in Contexts \ {c} : phase'[d] = phase[d]
    BY <1>0, <2>1 DEF TypeOK
  <2>3. Others(c) /\ Counted(c)'
    BY <2>1, <2>2 DEF Others, Counted
  <2> QED BY <1>0, <2>3, CountedStep
<1>13. ASSUME NEW dest \in Contexts, NEW src \in Contexts, inc_ctx_clone(dest, src)
       PROVE  CountBelowRate' /\ LoopInv'
  <2>1. PICK b \in Blocks : malloc(dest, b) /\ memcpy(b, src)
    BY <1>13 DEF inc_ctx_clone
  <2>2. /\ phase' = [phase EXCEPT ![dest] = phase[src]]
        /\ alg' = [alg EXCEPT ![dest] = alg[src]]
        /\ msg' = [msg EXCEPT ![dest] = msg[src]]
        /\ pc' = pc /\ outlen' = outlen /\ pc[dest] = "idle" /\ pc[src] = "idle" /\ phase[src] # "none"
    BY <1>13 DEF inc_ctx_clone, Idle, local
  <2>3. Others(dest) /\ ctx'[dest] = b /\ count'[b] = Count(src)
    BY <1>0, <2>1, <2>2, NewBlock DEF TypeOK, memcpy
  <2>4. phase'[dest] = phase[src] /\ alg'[dest] = alg[src] /\ msg'[dest] = msg[src]
    BY <1>0, <2>2 DEF TypeOK
  <2>5. Counted(src)
    BY <1>0, CountedAll
  <2>6. Counted(dest)'
    BY <2>2, <2>3, <2>4, <2>5 DEF Counted, Count, Rate
  <2> QED BY <1>0, <2>3, <2>6, CountedStep
<1> QED BY <1>2, <1>3, <1>4, <1>5, <1>6, <1>7, <1>8, <1>9, <1>10, <1>11, <1>12, <1>13 DEF Next

\* The invariant is inductive.
LEMMA InvAlways ==
  ASSUME PermuteKeepsStates
  PROVE  Spec => []IInv
<1>1. IInv /\ [Next]_vars => IInv'
  <2> SUFFICES ASSUME IInv, [Next]_vars PROVE IInv'
    OBVIOUS
  <2>1. TypeOK'
    BY TypeStep
  <2> QED BY <2>1, OwnershipStep, LoopStep DEF IInv
<1> QED BY <1>1, InitInv, PTL DEF Spec

\* Every variable has its type in every reachable state: words stay words of 64 bits and
\* lengths and counters never go below zero, as size_t arithmetic in the code must not.
THEOREM TypeCorrect ==
  ASSUME PermuteKeepsStates
  PROVE  Spec => []TypeOK
<1>1. IInv => TypeOK
  BY DEF IInv
<1> QED BY <1>1, InvAlways, PTL

\* Every context in use points to memory that malloc has handed out, and to no block of
\* another context, whatever is cloned, released or finalized in whichever order.
THEOREM MemoryOwned ==
  ASSUME PermuteKeepsStates
  PROVE  Spec => []Ownership
<1>1. IInv => Ownership
  BY DEF IInv
<1> QED BY <1>1, InvAlways, PTL

\* The comment of keccak_inc_finalize, "we are guaranteed that s_inc[25] < r", between
\* any two calls: the domain byte never lands outside the block.
THEOREM CounterBelowRate ==
  ASSUME PermuteKeepsStates
  PROVE  Spec => []CountBelowRate
<1>1. IInv => CountBelowRate
  BY DEF IInv
<1> QED BY <1>1, InvAlways, PTL
-----------------------------------------------------------------------------
\* Pending bytes and padding.

\* Bytes added to a state without p, behind p.
LEMMA Rejoin ==
  ASSUME NEW w \in States, NEW p \in Seq(Byte), NEW b \in Seq(Byte)
  PROVE  XorBytes(XorBytes(w, 0, p), 0, p \o b) = XorBytes(w, Len(p), b)
<1> DEFINE t == XorBytes(w, 0, p)
<1>1. t \in States
  BY XorBytesType
<1>2. XorBytes(t, 0, p) = w
  BY XorTwice
<1> HIDE DEF t
<1>3. XorBytes(XorBytes(t, 0, p), 0 + Len(p), b) = XorBytes(t, 0, p \o b)
  BY <1>1, XorAppend
<1>4. 0 + Len(p) = Len(p)
  OBVIOUS
<1> QED BY <1>2, <1>3, <1>4 DEF t

\* The last k bytes of a message.
LastBytes(ms, k) == SubSeq(ms, Len(ms) - k + 1, Len(ms))

\* They are k bytes.
LEMMA LastBytesType ==
  ASSUME NEW ms \in Seq(Byte), NEW k \in Nat, k <= Len(ms)
  PROVE  LastBytes(ms, k) \in Seq(Byte) /\ Len(LastBytes(ms, k)) = k
  BY DEF LastBytes

\* And the last ones.
LEMMA LastBytesAt ==
  ASSUME NEW ms \in Seq(Byte), NEW k \in Nat, k <= Len(ms), NEW i \in 1 .. k
  PROVE  LastBytes(ms, k)[i] = ms[Len(ms) - k + i]
<1>1. Len(ms) \in Nat
  OBVIOUS
<1>2. LastBytes(ms, k)[i] = ms[(Len(ms) - k + 1) + i - 1]
  BY <1>1 DEF LastBytes
<1>3. (Len(ms) - k + 1) + i - 1 = Len(ms) - k + i
  BY <1>1
<1> QED BY <1>2, <1>3

\* None of them.
LEMMA NoLastBytes ==
  ASSUME NEW ms \in Seq(Byte)
  PROVE  LastBytes(ms, 0) = <<>>
  BY DEF LastBytes

\* More bytes behind a message.
LEMMA LastBytesGrow ==
  ASSUME NEW ms \in Seq(Byte), NEW k \in Nat, k <= Len(ms), NEW b \in Seq(Byte)
  PROVE  LastBytes(ms \o b, k + Len(b)) = LastBytes(ms, k) \o b
<1> DEFINE whole == LastBytes(ms \o b, k + Len(b))
           parts == LastBytes(ms, k) \o b
<1>1. ms \o b \in Seq(Byte) /\ Len(ms \o b) = Len(ms) + Len(b) /\ Len(ms) \in Nat /\ Len(b) \in Nat
  OBVIOUS
<1>2. whole \in Seq(Byte) /\ Len(whole) = k + Len(b)
  <2>1. k + Len(b) \in Nat /\ k + Len(b) <= Len(ms \o b)
    BY <1>1
  <2> QED BY <1>1, <2>1, LastBytesType
<1>3. LastBytes(ms, k) \in Seq(Byte) /\ Len(LastBytes(ms, k)) = k
  BY LastBytesType
<1>4. parts \in Seq(Byte) /\ Len(parts) = k + Len(b)
  BY <1>3
<1>5. ASSUME NEW i \in 1 .. k + Len(b) PROVE whole[i] = parts[i]
  <2>1. whole[i] = (ms \o b)[Len(ms) - k + i]
    <3>1. k + Len(b) \in Nat /\ k + Len(b) <= Len(ms \o b)
      BY <1>1
    <3>2. whole[i] = (ms \o b)[Len(ms \o b) - (k + Len(b)) + i]
      BY <1>1, <3>1, LastBytesAt
    <3>3. Len(ms \o b) - (k + Len(b)) + i = Len(ms) - k + i
      BY <1>1
    <3> QED BY <3>2, <3>3
  <2>2. CASE i <= k
    <3>1. (ms \o b)[Len(ms) - k + i] = ms[Len(ms) - k + i]
      BY <1>1, <1>5, <2>2
    <3>2. i \in 1 .. k
      BY <1>5, <2>2
    <3>3. parts[i] = LastBytes(ms, k)[i] /\ LastBytes(ms, k)[i] = ms[Len(ms) - k + i]
      BY <1>3, <3>2, LastBytesAt
    <3> QED BY <2>1, <3>1, <3>3
  <2>3. CASE i > k
    <3> DEFINE j == i - k
    <3>1. j \in 1 .. Len(b) /\ Len(ms) - k + i = Len(ms) + j /\ i = k + j
      BY <1>1, <1>5, <2>3
    <3> HIDE DEF j
    <3>2. (ms \o b)[Len(ms) + j] = b[j]
      BY <3>1, SecondPiece
    <3>3. (LastBytes(ms, k) \o b)[k + j] = b[j]
      BY <1>3, <3>1, SecondPiece
    <3> QED BY <2>1, <3>1, <3>2, <3>3
  <2> HIDE DEF whole, parts
  <2>4. i \in Nat
    OBVIOUS
  <2> QED BY <2>2, <2>3, <2>4
<1> HIDE DEF whole, parts
<1>6. whole = [i \in 1 .. k + Len(b) |-> whole[i]] /\ parts = [i \in 1 .. k + Len(b) |-> parts[i]]
  BY <1>2, <1>4
<1>7. whole = parts
  BY <1>5, <1>6
<1> QED BY <1>7 DEF whole, parts

\* What a step appended.
LEMMA AddedBytes ==
  ASSUME NEW ms \in Seq(Byte), NEW b \in Seq(Byte)
  PROVE  Sponges!Added(ms, ms \o b) = b
  BY DEF Sponges!Added

\* The domain byte and the last bit of the block are the padding.
LEMMA PaddingBits ==
  ASSUME NEW f \in Functions202, NEW k \in Nat, k < f.rate, NEW n \in Nat, NEW bit
  PROVE  Has(Sponges!Padding(f, f.rate - k), k, n, bit)
           <=> ~(Has(<<f.domain>>, k, n, bit) <=> Has(<<{7}>>, f.rate - 1, n, bit))
<1> DEFINE d == f.domain
           r == f.rate
           pad == Sponges!Padding(f, r - k)
<1>1. r \in Nat /\ r >= 72 /\ d \in Byte
  BY FunctionFacts
<1>2. pad = [i \in 1 .. r - k |-> (IF i = 1 THEN d ELSE {}) ++ (IF i = r - k THEN {7} ELSE {})]
  BY DEF Sponges!Padding, Sponges!++, ++
<1> SUFFICES Has(pad, k, n, bit) <=> ~(Has(<<d>>, k, n, bit) <=> Has(<<{7}>>, r - 1, n, bit))
  OBVIOUS
<1> HIDE DEF d, r, pad
<1>3. Len(pad) = r - k
  BY <1>1, <1>2 DEF r
<1>4. Has(<<d>>, k, n, bit) <=> n = k /\ bit \in d
  BY DEF Has
<1>5. Has(<<{7}>>, r - 1, n, bit) <=> n = r - 1 /\ bit = 7
  BY <1>1 DEF Has
<1>6. Has(pad, k, n, bit) <=> n - k \in 0 .. r - k - 1 /\ bit \in pad[n - k + 1]
  BY <1>3 DEF Has
<1>7. CASE n - k \in 0 .. r - k - 1
  <2>1. n - k + 1 \in 1 .. r - k
    BY <1>1, <1>7 DEF r
  <2>2. pad[n - k + 1] = (IF n - k + 1 = 1 THEN d ELSE {}) ++ (IF n - k + 1 = r - k THEN {7} ELSE {})
    BY <1>2, <2>1
  <2>3. (n - k + 1 = 1 <=> n = k) /\ (n - k + 1 = r - k <=> n = r - 1)
    BY <1>1
  <2>4. pad[n - k + 1] = (IF n = k THEN d ELSE {}) ++ (IF n = r - 1 THEN {7} ELSE {})
    BY <2>2, <2>3
  <2>5. bit \in pad[n - k + 1] <=> ~((n = k /\ bit \in d) <=> (n = r - 1 /\ bit = 7))
    BY <2>4 DEF ++
  <2> QED BY <1>4, <1>5, <1>6, <1>7, <2>5
<1>8. CASE n - k \notin 0 .. r - k - 1
  <2>1. n # k /\ n # r - 1
    BY <1>1, <1>8 DEF r
  <2> QED BY <1>4, <1>5, <1>6, <1>8, <2>1
<1> QED BY <1>7, <1>8

\* The padding is n bytes.
LEMMA PaddingType ==
  ASSUME NEW f \in Functions202, NEW n \in Nat
  PROVE  Sponges!Padding(f, n) \in Seq(Byte) /\ Len(Sponges!Padding(f, n)) = n
<1> DEFINE byte(i) == (IF i = 1 THEN f.domain ELSE {}) ++ (IF i = n THEN {7} ELSE {})
<1>1. \A i \in 1 .. n : byte(i) \in Byte
  BY FunctionFacts DEF ++, Byte, Bits8
<1>2. Sponges!Padding(f, n) = [i \in 1 .. n |-> byte(i)]
  BY DEF Sponges!Padding, Sponges!++, ++
<1> HIDE DEF byte
<1> QED BY <1>1, <1>2

\* Two single bytes are added where the padding is one sequence.
LEMMA PaddingAdded ==
  ASSUME NEW f \in Functions202, NEW w \in States, NEW k \in Nat, k < f.rate
  PROVE  XorBytes(XorBytes(w, k, <<f.domain>>), f.rate - 1, <<{7}>>)
           = XorBytes(w, k, Sponges!Padding(f, f.rate - k))
<1> DEFINE one == XorBytes(w, k, <<f.domain>>)
           two == XorBytes(one, f.rate - 1, <<{7}>>)
           all == XorBytes(w, k, Sponges!Padding(f, f.rate - k))
<1>1. f.rate \in Nat /\ f.rate - 1 \in Nat /\ f.rate - k \in Nat /\ <<f.domain>> \in Seq(Byte) /\ <<{7}>> \in Seq(Byte)
  BY FunctionFacts DEF Byte, Bits8
<1>2. one \in States /\ two \in States /\ all \in States /\ Sponges!Padding(f, f.rate - k) \in Seq(Byte)
  <2>1. one \in States /\ all \in States
    BY XorBytesType
  <2>2. two \in States
    <3> HIDE DEF one
    <3> QED BY <1>1, <2>1, XorBytesType
  <2> QED BY <1>1, <2>1, <2>2, PaddingType
<1>3. ASSUME NEW l \in Lanes, NEW b \in Bits64 PROVE b \in two[l] <=> b \in all[l]
  <2>1. /\ b \in two[l] <=> ~(b \in one[l] <=> Has(<<{7}>>, f.rate - 1, ByteOf(l, b), b % 8))
        /\ b \in one[l] <=> ~(b \in w[l] <=> Has(<<f.domain>>, k, ByteOf(l, b), b % 8))
        /\ b \in all[l] <=> ~(b \in w[l] <=> Has(Sponges!Padding(f, f.rate - k), k, ByteOf(l, b), b % 8))
    BY <1>1, <1>2, XorBytesBit
  <2>2. Has(Sponges!Padding(f, f.rate - k), k, ByteOf(l, b), b % 8)
           <=> ~(Has(<<f.domain>>, k, ByteOf(l, b), b % 8) <=> Has(<<{7}>>, f.rate - 1, ByteOf(l, b), b % 8))
    BY BitNumbers, PaddingBits
  <2> QED BY <2>1, <2>2
<1> QED BY <1>2, <1>3, SameBits
-----------------------------------------------------------------------------
\* Contexts as sponges.

\* The definitions the abstract sponge brings along are those of the code.
LEMMA SameOperators ==
  /\ \A s, at, u : Sponges!XorBytes(s, at, u) = XorBytes(s, at, u)
  /\ \A s, from, n : Sponges!BytesAt(s, from, n) = BytesAt(s, from, n)
  /\ Sponges!ZeroState = ZeroState
<1>1. ASSUME NEW s, NEW at, NEW u PROVE Sponges!XorBytes(s, at, u) = XorBytes(s, at, u)
  BY DEF XorBytes, Sponges!XorBytes, Lanes, Sponges!Lanes, Bits64, Sponges!Bits64, ++, Sponges!++
<1>2. ASSUME NEW s, NEW from, NEW n PROVE Sponges!BytesAt(s, from, n) = BytesAt(s, from, n)
  BY DEF BytesAt, Sponges!BytesAt, ByteAt, Sponges!ByteAt, Bits8, Sponges!Bits8
<1>3. Sponges!ZeroState = ZeroState
  BY DEF ZeroState, Sponges!ZeroState, Lanes, Sponges!Lanes
<1> QED BY <1>1, <1>2, <1>3

\* Functions that differ at one argument.
LEMMA ChangedAt ==
  ASSUME NEW S, NEW f, NEW g, f = [x \in S |-> f[x]], g = [x \in S |-> g[x]], NEW c \in S,
         \A d \in S \ {c} : g[d] = f[d]
  PROVE  /\ g = [f EXCEPT ![c] = g[c]]
         /\ g[c] = f[c] => g = f
<1>1. \A x \in S : g[x] = [f EXCEPT ![c] = g[c]][x]
  OBVIOUS
<1>2. [f EXCEPT ![c] = g[c]] = [x \in S |-> [f EXCEPT ![c] = g[c]][x]]
  OBVIOUS
<1> QED BY <1>1, <1>2

\* A step of context c is a step of its sponge alone.
LEMMA SpongeStep ==
  ASSUME NEW c \in Contexts, Others(c)
  PROVE  /\ SpongeMode' = [SpongeMode EXCEPT ![c] = SpongeMode'[c]]
         /\ SpongeSt'   = [SpongeSt EXCEPT ![c] = SpongeSt'[c]]
         /\ SpongeBuf'  = [SpongeBuf EXCEPT ![c] = SpongeBuf'[c]]
         /\ SpongeLeft' = [SpongeLeft EXCEPT ![c] = SpongeLeft'[c]]
         /\ SpongeMode'[c] = SpongeMode[c] => SpongeMode' = SpongeMode
         /\ SpongeSt'[c] = SpongeSt[c] => SpongeSt' = SpongeSt
         /\ SpongeBuf'[c] = SpongeBuf[c] => SpongeBuf' = SpongeBuf
         /\ SpongeLeft'[c] = SpongeLeft[c] => SpongeLeft' = SpongeLeft
<1>1. ASSUME NEW d \in Contexts \ {c}
      PROVE  /\ SpongeMode'[d] = SpongeMode[d] /\ SpongeSt'[d] = SpongeSt[d]
             /\ SpongeBuf'[d] = SpongeBuf[d] /\ SpongeLeft'[d] = SpongeLeft[d]
  <2>1. phase'[d] = phase[d] /\ ctx'[d] = ctx[d] /\ msg'[d] = msg[d]
    BY DEF Others
  <2>2. phase[d] # "none" => Words(d)' = Words(d) /\ Count(d)' = Count(d)
    BY <2>1 DEF Others, Words, Count
  <2>3. phase[d] # "none" => Pending(d)' = Pending(d)
    BY <2>1, <2>2 DEF Pending
  <2>4. SpongeMode'[d] = SpongeMode[d]
    BY <2>1 DEF SpongeMode
  <2>5. SpongeSt'[d] = SpongeSt[d]
    BY <2>1, <2>2, <2>3, Zenon DEF SpongeSt
  <2>6. SpongeBuf'[d] = SpongeBuf[d]
    BY <2>1, <2>3, Zenon DEF SpongeBuf
  <2>7. SpongeLeft'[d] = SpongeLeft[d]
    BY <2>1, <2>2, Zenon DEF SpongeLeft
  <2> QED BY <2>4, <2>5, <2>6, <2>7
<1>2. /\ SpongeMode = [x \in Contexts |-> SpongeMode[x]] /\ SpongeMode' = [x \in Contexts |-> SpongeMode'[x]]
      /\ SpongeSt = [x \in Contexts |-> SpongeSt[x]] /\ SpongeSt' = [x \in Contexts |-> SpongeSt'[x]]
      /\ SpongeBuf = [x \in Contexts |-> SpongeBuf[x]] /\ SpongeBuf' = [x \in Contexts |-> SpongeBuf'[x]]
      /\ SpongeLeft = [x \in Contexts |-> SpongeLeft[x]] /\ SpongeLeft' = [x \in Contexts |-> SpongeLeft'[x]]
  BY DEF SpongeMode, SpongeSt, SpongeBuf, SpongeLeft
<1>3. /\ SpongeMode' = [SpongeMode EXCEPT ![c] = SpongeMode'[c]]
      /\ SpongeMode'[c] = SpongeMode[c] => SpongeMode' = SpongeMode
  BY <1>1, <1>2, ChangedAt, Zenon
<1>4. /\ SpongeSt' = [SpongeSt EXCEPT ![c] = SpongeSt'[c]]
      /\ SpongeSt'[c] = SpongeSt[c] => SpongeSt' = SpongeSt
  BY <1>1, <1>2, ChangedAt, Zenon
<1>5. /\ SpongeBuf' = [SpongeBuf EXCEPT ![c] = SpongeBuf'[c]]
      /\ SpongeBuf'[c] = SpongeBuf[c] => SpongeBuf' = SpongeBuf
  BY <1>1, <1>2, ChangedAt, Zenon
<1>6. /\ SpongeLeft' = [SpongeLeft EXCEPT ![c] = SpongeLeft'[c]]
      /\ SpongeLeft'[c] = SpongeLeft[c] => SpongeLeft' = SpongeLeft
  BY <1>1, <1>2, ChangedAt, Zenon
<1> QED BY <1>3, <1>4, <1>5, <1>6, Zenon

\* A context as a sponge, by its phase.
LEMMA SpongeAt ==
  ASSUME NEW c \in Contexts
  PROVE  /\ phase[c] = "none" => /\ SpongeMode[c] = "off" /\ SpongeSt[c] = ZeroState
                                 /\ SpongeBuf[c] = <<>> /\ SpongeLeft[c] = 0
         /\ phase[c] = "absorb" => /\ SpongeMode[c] = "absorbing"
                                   /\ SpongeSt[c] = XorBytes(Words(c), 0, Pending(c))
                                   /\ SpongeBuf[c] = Pending(c) /\ SpongeLeft[c] = 0
         /\ phase[c] = "squeeze" => /\ SpongeMode[c] = "squeezing" /\ SpongeSt[c] = Words(c)
                                    /\ SpongeBuf[c] = <<>> /\ SpongeLeft[c] = Count(c)
  BY Zenon DEF SpongeMode, SpongeSt, SpongeBuf, SpongeLeft

\* The same after the step.
LEMMA SpongeAtNext ==
  ASSUME NEW c \in Contexts
  PROVE  /\ phase'[c] = "none" => /\ SpongeMode'[c] = "off" /\ SpongeSt'[c] = ZeroState
                                  /\ SpongeBuf'[c] = <<>> /\ SpongeLeft'[c] = 0
         /\ phase'[c] = "absorb" => /\ SpongeMode'[c] = "absorbing"
                                    /\ SpongeSt'[c] = XorBytes(Words(c)', 0, Pending(c)')
                                    /\ SpongeBuf'[c] = Pending(c)' /\ SpongeLeft'[c] = 0
         /\ phase'[c] = "squeeze" => /\ SpongeMode'[c] = "squeezing" /\ SpongeSt'[c] = Words(c)'
                                     /\ SpongeBuf'[c] = <<>> /\ SpongeLeft'[c] = Count(c)'
  BY Zenon DEF SpongeMode, SpongeSt, SpongeBuf, SpongeLeft

\* The bytes in the state that wait for a permutation.
LEMMA PendingBytes ==
  ASSUME IInv, NEW c \in Contexts, phase[c] = "absorb"
  PROVE  /\ Pending(c) \in Seq(Byte) /\ Len(Pending(c)) = Count(c)
         /\ Pending(c) = LastBytes(msg[c], Count(c))
         /\ msg[c] \in Seq(Byte) /\ Count(c) \in Nat /\ Count(c) <= Len(msg[c])
<1>1. msg[c] \in Seq(Byte)
  BY DEF IInv, TypeOK
<1>2. Count(c) \in Nat
  BY FinalizedIsState
<1>3. Count(c) <= Len(msg[c])
  BY DEF IInv, LoopInv
<1>4. Pending(c) = LastBytes(msg[c], Count(c))
  BY DEF Pending, LastBytes
<1> QED BY <1>1, <1>2, <1>3, <1>4, LastBytesType
-----------------------------------------------------------------------------
\* The steps that absorb.

\* What the step of a context needs of its own fields.
LEMMA OwnFields ==
  ASSUME IInv, NEW c \in Contexts, phase[c] # "none"
  PROVE  /\ ctx[c] \in Blocks /\ Words(c) \in States /\ Count(c) \in Nat /\ Count(c) < Rate(c)
         /\ alg[c] \in Algorithms /\ Rate(c) \in Nat /\ Rate(c) >= 72
         /\ words \in [Blocks -> States] /\ count \in [Blocks -> Nat]
         /\ msg[c] \in Seq(Byte) /\ out[c] \in Seq(Byte) /\ m[c] \in Seq(Byte) /\ outlen[c] \in Nat
  BY FinalizedIsState DEF IInv, TypeOK

\* Contexts not in use are sponges that are off.
LEMMA InitStarts == Init => Sponges!Init
<1> SUFFICES ASSUME Init PROVE Sponges!Init
  OBVIOUS
<1>1. \A c \in Contexts : phase[c] = "none"
  BY DEF Init
<1>2. SpongeMode = [c \in Contexts |-> "off"]
  BY <1>1 DEF SpongeMode
<1>3. SpongeSt = [c \in Contexts |-> Sponges!ZeroState]
  BY <1>1, SameOperators DEF SpongeSt
<1>4. SpongeBuf = [c \in Contexts |-> <<>>]
  BY <1>1 DEF SpongeBuf
<1>5. SpongeLeft = [c \in Contexts |-> 0]
  BY <1>1 DEF SpongeLeft
<1> QED BY <1>2, <1>3, <1>4, <1>5 DEF Init, Sponges!Init

\* shake*_inc_init and sha3_*_inc_init.
LEMMA InitIsStart ==
  ASSUME IInv, NEW c \in Contexts, inc_init(c)
  PROVE  Sponges!Start(c)
<1>0. TypeOK
  BY DEF IInv
<1>1. Others(c)
  BY OthersKept
<1>2. PICK b \in Blocks : malloc(c, b) /\ words' = [words EXCEPT ![b] = ZeroState]
                                       /\ count' = [count EXCEPT ![b] = 0]
  BY DEF inc_init
<1>3. ctx'[c] = b /\ Words(c)' = ZeroState /\ Count(c)' = 0
  BY <1>0, <1>2 DEF malloc, TypeOK, Words, Count
<1>4. phase[c] = "none" /\ phase'[c] = "absorb" /\ msg'[c] = <<>>
  BY <1>0 DEF inc_init, TypeOK
<1>5. Pending(c)' = <<>>
  BY <1>3, <1>4 DEF Pending
<1>6. SpongeSt'[c] = ZeroState /\ SpongeMode'[c] = "absorbing" /\ SpongeBuf'[c] = <<>> /\ SpongeLeft'[c] = 0
  <2>1. XorBytes(ZeroState, 0, <<>>) = ZeroState
    BY ZeroIsState, XorNothing
  <2> QED BY <1>3, <1>4, <1>5, <2>1, SpongeAtNext
<1>7. SpongeMode[c] = "off"
  BY <1>4, SpongeAt
<1>8. /\ SpongeMode' = [SpongeMode EXCEPT ![c] = "absorbing"]
      /\ SpongeSt' = [SpongeSt EXCEPT ![c] = Sponges!ZeroState]
      /\ SpongeBuf' = [SpongeBuf EXCEPT ![c] = <<>>] /\ SpongeLeft' = [SpongeLeft EXCEPT ![c] = 0]
  BY <1>1, <1>6, SpongeStep, SameOperators
<1>9. /\ \E f \in Algorithms : alg' = [alg EXCEPT ![c] = f]
      /\ msg' = [msg EXCEPT ![c] = <<>>] /\ out' = [out EXCEPT ![c] = <<>>]
  BY DEF inc_init
<1> QED BY <1>7, <1>8, <1>9, Zenon DEF Sponges!Start

\* An iteration of the loop of absorb: the bytes pending in the state and the new ones
\* are a whole block.
LEMMA BlockIsFill ==
  ASSUME PermuteKeepsStates, IInv, NEW c \in Contexts, AbsorbBlock(c)
  PROVE  Sponges!Fill(c)
<1>0. TypeOK /\ Others(c) /\ phase[c] = "absorb"
  BY OthersKept DEF IInv, LoopInv, AbsorbBlock, InLoop
<1> DEFINE n == Missing(c)
           u == SubSeq(m[c], 1, n)
           s == Permute(XorBytes(Words(c), Count(c), u))
           p == Pending(c)
<1>1. /\ p \in Seq(Byte) /\ Len(p) = Count(c) /\ msg[c] \in Seq(Byte)
      /\ Words(c) \in States /\ ctx[c] \in Blocks /\ Count(c) \in Nat /\ Rate(c) \in Nat
  BY <1>0, PendingBytes, OwnFields
<1>2. u \in Seq(Byte) /\ Len(u) = n /\ n \in Nat /\ Count(c) + n = Rate(c)
  <2>1. m[c] \in Seq(Byte) /\ Len(m[c]) \in Nat
    BY <1>0 DEF TypeOK
  <2>2. ~(Len(m[c]) + Count(c) < Rate(c)) /\ Count(c) < Rate(c)
    BY <1>0, OwnFields DEF AbsorbBlock, Fits
  <2>3. n \in Nat /\ n <= Len(m[c]) /\ Count(c) + n = Rate(c)
    BY <1>1, <2>1, <2>2 DEF Missing
  <2> QED BY <2>1, <2>3
<1>3. /\ words' = [words EXCEPT ![ctx[c]] = s] /\ count' = [count EXCEPT ![ctx[c]] = 0]
      /\ msg' = [msg EXCEPT ![c] = msg[c] \o u]
      /\ UNCHANGED <<ctx, phase, alg, out>>
  BY DEF AbsorbBlock, Words
<1>4. s \in States
  BY <1>1, XorBytesType DEF PermuteKeepsStates
<1> HIDE DEF n, u, s, p
<1>5. Words(c)' = s /\ Count(c)' = 0 /\ msg'[c] = msg[c] \o u /\ phase'[c] = "absorb"
  BY <1>0, <1>1, <1>3 DEF TypeOK, Words, Count
<1>6. Pending(c)' = <<>>
  <2>1. msg[c] \o u \in Seq(Byte)
    BY <1>1, <1>2
  <2> QED BY <1>5, <2>1, NoLastBytes DEF Pending, LastBytes
<1>7. /\ SpongeMode'[c] = "absorbing" /\ SpongeSt'[c] = s /\ SpongeBuf'[c] = <<>> /\ SpongeLeft'[c] = 0
  BY <1>4, <1>5, <1>6, SpongeAtNext, XorNothing
<1>8. SpongeMode[c] = "absorbing" /\ SpongeSt[c] = XorBytes(Words(c), 0, p) /\ SpongeBuf[c] = p /\ SpongeLeft[c] = 0
  BY <1>0, SpongeAt DEF p
<1>9. Sponges!Added(msg[c], msg'[c]) = u
  BY <1>1, <1>2, <1>5, AddedBytes
<1>10. s = Permute(Sponges!XorBytes(SpongeSt[c], 0, SpongeBuf[c] \o u))
  <2>1. XorBytes(XorBytes(Words(c), 0, p), 0, p \o u) = XorBytes(Words(c), Count(c), u)
    BY <1>1, <1>2, Rejoin
  <2> QED BY <1>8, <2>1, SameOperators DEF s
<1>11. Len(SpongeBuf[c]) + Len(u) = Sponges!Rate(c)
  BY <1>1, <1>2, <1>8 DEF Sponges!Rate, Rate
<1>12. /\ SpongeMode' = SpongeMode /\ SpongeLeft' = SpongeLeft
       /\ SpongeSt' = [SpongeSt EXCEPT ![c] = s] /\ SpongeBuf' = [SpongeBuf EXCEPT ![c] = <<>>]
  BY <1>0, <1>7, <1>8, SpongeStep
<1> QED BY <1>3, <1>8, <1>9, <1>10, <1>11, <1>12, Zenon DEF Sponges!Fill

\* The end of absorb: the sponge without its pending bytes stays the same.
LEMMA RestIsTake ==
  ASSUME IInv, TypeOK', NEW c \in Contexts, AbsorbRest(c)
  PROVE  Sponges!Take(c)
<1>0. TypeOK /\ Others(c) /\ phase[c] = "absorb"
  BY OthersKept DEF IInv, LoopInv, AbsorbRest, InLoop
<1> DEFINE u == m[c]
           s == XorBytes(Words(c), Count(c), u)
           p == Pending(c)
<1>1. /\ p \in Seq(Byte) /\ Len(p) = Count(c) /\ p = LastBytes(msg[c], Count(c))
      /\ msg[c] \in Seq(Byte) /\ Count(c) <= Len(msg[c])
      /\ Words(c) \in States /\ ctx[c] \in Blocks /\ Count(c) \in Nat /\ Rate(c) \in Nat
  BY <1>0, PendingBytes, OwnFields
<1>2. u \in Seq(Byte) /\ Count(c) + Len(u) < Rate(c)
  <2>1. m[c] \in Seq(Byte) /\ Len(m[c]) \in Nat
    BY <1>0 DEF TypeOK
  <2>2. Len(m[c]) + Count(c) < Rate(c)
    BY DEF AbsorbRest, Fits
  <2> QED BY <1>1, <2>1, <2>2
<1>3. /\ words' = [words EXCEPT ![ctx[c]] = s]
      /\ count' = [count EXCEPT ![ctx[c]] = Count(c) + Len(u)]
      /\ msg' = [msg EXCEPT ![c] = msg[c] \o u]
      /\ UNCHANGED <<ctx, phase, alg, out>>
  BY DEF AbsorbRest, Words, Count
<1> HIDE DEF u, s, p
<1>5. Words(c)' = s /\ Count(c)' = Count(c) + Len(u) /\ msg'[c] = msg[c] \o u /\ phase'[c] = "absorb"
  BY <1>0, <1>1, <1>3 DEF TypeOK, Words, Count
<1>6. Pending(c)' = p \o u
  <2>1. Pending(c)' = LastBytes(msg[c] \o u, Count(c) + Len(u))
    BY <1>5 DEF Pending, LastBytes
  <2> QED BY <1>1, <1>2, <2>1, LastBytesGrow
<1>7. XorBytes(s, 0, p \o u) = XorBytes(Words(c), 0, p)
  <2> DEFINE w == XorBytes(Words(c), 0, p)
  <2>1. w \in States /\ p \o u \in Seq(Byte)
    BY <1>1, <1>2, XorBytesType
  <2>2. s = XorBytes(w, 0, p \o u)
    BY <1>1, <1>2, Rejoin DEF s
  <2> HIDE DEF w
  <2>3. XorBytes(s, 0, p \o u) = w
    BY <2>1, <2>2, XorTwice
  <2> QED BY <2>3 DEF w
<1>8. /\ SpongeMode'[c] = "absorbing" /\ SpongeSt'[c] = XorBytes(Words(c), 0, p)
      /\ SpongeBuf'[c] = p \o u /\ SpongeLeft'[c] = 0
  BY <1>5, <1>6, <1>7, SpongeAtNext
<1>9. SpongeMode[c] = "absorbing" /\ SpongeSt[c] = XorBytes(Words(c), 0, p) /\ SpongeBuf[c] = p /\ SpongeLeft[c] = 0
  BY <1>0, SpongeAt DEF p
<1>10. Sponges!Added(msg[c], msg'[c]) = u
  BY <1>1, <1>2, <1>5, AddedBytes
<1>11. Len(SpongeBuf[c]) + Len(u) < Sponges!Rate(c)
  BY <1>1, <1>2, <1>9 DEF Sponges!Rate, Rate
<1>12. /\ SpongeMode' = SpongeMode /\ SpongeLeft' = SpongeLeft /\ SpongeSt' = SpongeSt
       /\ SpongeBuf' = [SpongeBuf EXCEPT ![c] = SpongeBuf[c] \o u]
  BY <1>0, <1>8, <1>9, SpongeStep
<1> QED BY <1>3, <1>9, <1>10, <1>11, <1>12, Zenon DEF Sponges!Take
-----------------------------------------------------------------------------
\* The steps that end a message, squeeze or copy.

\* keccak_inc_finalize adds the last, padded block.
LEMMA FinalizedIsPadded ==
  ASSUME IInv, NEW c \in Contexts, phase[c] = "absorb"
  PROVE  Sponges!Padded(c) = keccak_inc_finalize(c)
<1> DEFINE k == Count(c)
           r == Rate(c)
           p == Pending(c)
           w == Words(c)
           f == alg[c]
           pad == Sponges!Padding(f, r - k)
<1>1. /\ p \in Seq(Byte) /\ Len(p) = k /\ w \in States /\ k \in Nat /\ k < r /\ r \in Nat
      /\ f \in Algorithms /\ r = f.rate
  BY PendingBytes, OwnFields DEF Rate
<1>2. pad \in Seq(Byte)
  <2>1. r - k \in Nat
    BY <1>1
  <2> QED BY <1>1, <2>1, PaddingType, AlgorithmFacts
<1>3. keccak_inc_finalize(c) = XorBytes(XorBytes(w, k, <<f.domain>>), r - 1, <<{7}>>)
  BY DEF keccak_inc_finalize
<1>4. SpongeSt[c] = XorBytes(w, 0, p) /\ SpongeBuf[c] = p
  BY SpongeAt
<1>5. Sponges!Padded(c) = Sponges!XorBytes(SpongeSt[c], 0, SpongeBuf[c] \o Sponges!Padding(f, r - Len(SpongeBuf[c])))
  BY DEF Sponges!Padded, Sponges!Rate, Rate
<1> HIDE DEF k, r, p, w, f
<1>6. XorBytes(XorBytes(w, 0, p), 0, p \o pad) = XorBytes(w, k, pad)
  BY <1>1, <1>2, Rejoin
<1>7. XorBytes(w, k, pad) = keccak_inc_finalize(c)
  BY <1>1, <1>3, PaddingAdded, AlgorithmFacts
<1>8. Sponges!Padded(c) = XorBytes(XorBytes(w, 0, p), 0, p \o pad)
  BY <1>1, <1>4, <1>5, SameOperators
<1> QED BY <1>6, <1>7, <1>8

\* shake*_inc_finalize.
LEMMA FinalizeIsFinish ==
  ASSUME IInv, NEW c \in Contexts, shake_inc_finalize(c)
  PROVE  Sponges!Finish(c)
<1>0. TypeOK /\ Others(c) /\ phase[c] = "absorb"
  BY OthersKept DEF IInv, shake_inc_finalize
<1>1. ctx[c] \in Blocks
  BY <1>0, OwnFields
<1>2. /\ words' = [words EXCEPT ![ctx[c]] = keccak_inc_finalize(c)]
      /\ count' = [count EXCEPT ![ctx[c]] = 0] /\ phase' = [phase EXCEPT ![c] = "squeeze"]
      /\ UNCHANGED <<ctx, alg, msg, out>>
  BY DEF shake_inc_finalize
<1>3. Words(c)' = Sponges!Padded(c) /\ Count(c)' = 0 /\ phase'[c] = "squeeze"
  BY <1>0, <1>1, <1>2, FinalizedIsPadded DEF TypeOK, Words, Count
<1>4. /\ SpongeMode'[c] = "squeezing" /\ SpongeSt'[c] = Sponges!Padded(c)
      /\ SpongeBuf'[c] = <<>> /\ SpongeLeft'[c] = 0
  BY <1>3, SpongeAtNext
<1>5. SpongeMode[c] = "absorbing" /\ SpongeLeft[c] = 0
  BY <1>0, SpongeAt
<1>6. /\ SpongeMode' = [SpongeMode EXCEPT ![c] = "squeezing"] /\ SpongeLeft' = SpongeLeft
      /\ SpongeSt' = [SpongeSt EXCEPT ![c] = Sponges!Padded(c)]
      /\ SpongeBuf' = [SpongeBuf EXCEPT ![c] = <<>>]
  BY <1>0, <1>4, <1>5, SpongeStep
<1> QED BY <1>2, <1>5, <1>6, Zenon DEF Sponges!Finish

\* A context that is released or finalized as a hash.
LEMMA GivenUp ==
  ASSUME IInv, NEW c \in Contexts, Others(c), phase' = [phase EXCEPT ![c] = "none"]
  PROVE  Sponges!Off(c)
<1>1. phase'[c] = "none"
  BY DEF IInv, TypeOK
<1>2. SpongeMode'[c] = "off" /\ SpongeSt'[c] = ZeroState /\ SpongeBuf'[c] = <<>> /\ SpongeLeft'[c] = 0
  BY <1>1, SpongeAtNext
<1>3. /\ SpongeMode' = [SpongeMode EXCEPT ![c] = "off"]
      /\ SpongeSt' = [SpongeSt EXCEPT ![c] = Sponges!ZeroState]
      /\ SpongeBuf' = [SpongeBuf EXCEPT ![c] = <<>>] /\ SpongeLeft' = [SpongeLeft EXCEPT ![c] = 0]
  BY <1>2, SpongeStep, SameOperators
<1> QED BY <1>3 DEF Sponges!Off

\* sha3_*_inc_finalize.
LEMMA FinalizeIsDigest ==
  ASSUME IInv, NEW c \in Contexts, sha3_inc_finalize(c)
  PROVE  Sponges!Digest(c)
<1>0. Others(c) /\ phase[c] = "absorb" /\ phase' = [phase EXCEPT ![c] = "none"] /\ UNCHANGED <<alg, msg>>
  BY OthersKept DEF sha3_inc_finalize
<1>1. SpongeMode[c] = "absorbing"
  BY <1>0, SpongeAt
<1>2. out' = [out EXCEPT ![c] = Sponges!BytesAt(Permute(Sponges!Padded(c)), 0, alg[c].digest)]
  BY <1>0, FinalizedIsPadded, SameOperators DEF sha3_inc_finalize
<1> QED BY <1>0, <1>1, <1>2, GivenUp DEF Sponges!Digest

\* shake*_inc_ctx_release and sha3_*_inc_ctx_release.
LEMMA ReleaseIsStop ==
  ASSUME IInv, NEW c \in Contexts, inc_ctx_release(c)
  PROVE  Sponges!Stop(c)
<1>0. Others(c) /\ phase[c] # "none" /\ phase' = [phase EXCEPT ![c] = "none"] /\ UNCHANGED <<alg, msg, out>>
  BY OthersKept DEF inc_ctx_release
<1>1. SpongeMode[c] # "off"
  BY <1>0 DEF SpongeMode
<1> QED BY <1>0, <1>1, GivenUp DEF Sponges!Stop

\* What the steps that squeeze append.
LEMMA AddedLength ==
  ASSUME NEW o \in Seq(Byte), NEW b \in Seq(Byte)
  PROVE  Len(o \o b) - Len(o) = Len(b)
  OBVIOUS

\* The first part of squeeze: the bytes that are still there.
LEMMA SqueezeIsGive ==
  ASSUME IInv, NEW c \in Contexts, inc_squeeze(c)
  PROVE  Sponges!Give(c)
<1>0. TypeOK /\ Others(c) /\ phase[c] = "squeeze"
  BY OthersKept DEF IInv, inc_squeeze
<1>1. /\ ctx[c] \in Blocks /\ Words(c) \in States /\ Count(c) \in Nat /\ Count(c) < Rate(c)
      /\ Rate(c) \in Nat /\ out[c] \in Seq(Byte)
  BY <1>0, OwnFields
<1>2. PICK wanted \in Lengths :
        LET i == Least(wanted, Count(c))
        IN /\ out' = [out EXCEPT ![c] = @ \o BytesAt(Words(c), Rate(c) - Count(c), i)]
           /\ count' = [count EXCEPT ![ctx[c]] = @ - i]
  BY DEF inc_squeeze
<1> DEFINE i == Least(wanted, Count(c))
           given == BytesAt(Words(c), Rate(c) - Count(c), i)
<1>3. i \in Nat /\ i <= Count(c)
  BY <1>1, IncAssumption, LeastFacts
<1>4. given \in Seq(Byte) /\ Len(given) = i
  <2>1. Rate(c) - Count(c) \in Nat
    BY <1>1
  <2> QED BY <1>3, <2>1, BytesAtType
<1>5. /\ out' = [out EXCEPT ![c] = out[c] \o given]
      /\ count' = [count EXCEPT ![ctx[c]] = Count(c) - i]
      /\ UNCHANGED <<words, ctx, phase, alg, msg>>
  BY <1>2 DEF inc_squeeze, Count
<1> HIDE DEF i
<1>6. Words(c)' = Words(c) /\ Count(c)' = Count(c) - i /\ phase'[c] = "squeeze"
  BY <1>0, <1>1, <1>5 DEF TypeOK, Words, Count
<1>7. /\ SpongeMode'[c] = "squeezing" /\ SpongeSt'[c] = Words(c)
      /\ SpongeBuf'[c] = <<>> /\ SpongeLeft'[c] = Count(c) - i
  BY <1>6, SpongeAtNext
<1>8. /\ SpongeMode[c] = "squeezing" /\ SpongeSt[c] = Words(c)
      /\ SpongeBuf[c] = <<>> /\ SpongeLeft[c] = Count(c)
  BY <1>0, SpongeAt
<1>9. /\ SpongeMode' = SpongeMode /\ SpongeSt' = SpongeSt /\ SpongeBuf' = SpongeBuf
      /\ SpongeLeft' = [SpongeLeft EXCEPT ![c] = SpongeLeft[c] - i]
  BY <1>0, <1>7, <1>8, SpongeStep
<1>10. given = Sponges!BytesAt(SpongeSt[c], Sponges!Rate(c) - SpongeLeft[c], i)
  BY <1>8, SameOperators DEF Sponges!Rate, Rate
<1> HIDE DEF given
<1>11. Len(out'[c]) - Len(out[c]) = i
  <2>1. out'[c] = out[c] \o given
    BY <1>0, <1>5 DEF TypeOK
  <2> QED BY <1>1, <1>4, <2>1, AddedLength
<1>12. i <= SpongeLeft[c]
  BY <1>3, <1>8
<1> QED BY <1>5, <1>8, <1>9, <1>10, <1>11, <1>12, Zenon DEF Sponges!Give

\* An iteration of its loop: bytes of the next block.
LEMMA SqueezeBlockIsGive ==
  ASSUME PermuteKeepsStates, IInv, NEW c \in Contexts, SqueezeBlock(c)
  PROVE  Sponges!GiveFromNext(c)
<1>0. TypeOK /\ Others(c) /\ phase[c] = "squeeze" /\ outlen[c] > 0 /\ Count(c) = 0
  BY OthersKept DEF IInv, LoopInv, SqueezeBlock, InLoop
<1>1. /\ ctx[c] \in Blocks /\ Words(c) \in States
      /\ Rate(c) \in Nat /\ Rate(c) >= 72 /\ out[c] \in Seq(Byte) /\ outlen[c] \in Nat
  BY <1>0, OwnFields
<1> DEFINE i == Squeezed(c)
           s == Permute(Words(c))
           given == BytesAt(s, 0, i)
<1>2. i \in 1 .. Rate(c)
  <2>1. i \in Nat /\ i <= Rate(c) /\ (i = outlen[c] \/ i = Rate(c))
    BY <1>1, LeastFacts DEF Squeezed
  <2> QED BY <1>0, <1>1, <2>1
<1>3. given \in Seq(Byte) /\ Len(given) = i
  BY <1>1, <1>2, BytesAtType
<1>4. /\ words' = [words EXCEPT ![ctx[c]] = s]
      /\ count' = [count EXCEPT ![ctx[c]] = Rate(c) - i]
      /\ out' = [out EXCEPT ![c] = out[c] \o given]
      /\ UNCHANGED <<ctx, phase, alg, msg>>
  BY DEF SqueezeBlock
<1> HIDE DEF i, given, s
<1>5. Words(c)' = s /\ Count(c)' = Rate(c) - i /\ phase'[c] = "squeeze"
  BY <1>0, <1>1, <1>4 DEF TypeOK, Words, Count
<1>6. /\ SpongeMode'[c] = "squeezing" /\ SpongeSt'[c] = s
      /\ SpongeBuf'[c] = <<>> /\ SpongeLeft'[c] = Rate(c) - i
  BY <1>5, SpongeAtNext
<1>7. /\ SpongeMode[c] = "squeezing" /\ SpongeSt[c] = Words(c)
      /\ SpongeBuf[c] = <<>> /\ SpongeLeft[c] = 0
  BY <1>0, SpongeAt
<1>8. /\ SpongeMode' = SpongeMode /\ SpongeBuf' = SpongeBuf
      /\ SpongeSt' = [SpongeSt EXCEPT ![c] = Permute(SpongeSt[c])]
      /\ SpongeLeft' = [SpongeLeft EXCEPT ![c] = Sponges!Rate(c) - i]
  BY <1>0, <1>6, <1>7, SpongeStep DEF s, Sponges!Rate, Rate
<1>9. given = Sponges!BytesAt(Permute(SpongeSt[c]), 0, i)
  BY <1>7, SameOperators DEF given, s
<1>10. Len(out'[c]) - Len(out[c]) = i
  <2>1. out'[c] = out[c] \o given
    BY <1>0, <1>4 DEF TypeOK
  <2> QED BY <1>1, <1>3, <2>1, AddedLength
<1>11. i \in 1 .. Sponges!Rate(c)
  BY <1>2 DEF Sponges!Rate, Rate
<1> QED BY <1>4, <1>7, <1>8, <1>9, <1>10, <1>11, Zenon DEF Sponges!GiveFromNext

\* shake*_inc_ctx_clone and sha3_*_inc_ctx_clone.
LEMMA CloneIsCopy ==
  ASSUME IInv, NEW dest \in Contexts, NEW src \in Contexts, inc_ctx_clone(dest, src)
  PROVE  Sponges!Copy(dest, src)
<1>0. TypeOK /\ Others(dest) /\ phase[dest] = "none" /\ phase[src] # "none"
  BY OthersKept DEF IInv, inc_ctx_clone
<1>1. PICK b \in Blocks : malloc(dest, b) /\ memcpy(b, src)
  BY DEF inc_ctx_clone
<1>2. Words(dest)' = Words(src) /\ Count(dest)' = Count(src)
  BY <1>0, <1>1 DEF malloc, memcpy, TypeOK, Words, Count
<1>3. /\ phase' = [phase EXCEPT ![dest] = phase[src]] /\ alg' = [alg EXCEPT ![dest] = alg[src]]
      /\ msg' = [msg EXCEPT ![dest] = msg[src]] /\ out' = [out EXCEPT ![dest] = out[src]]
  BY DEF inc_ctx_clone
<1>4. phase'[dest] = phase[src] /\ msg'[dest] = msg[src] /\ phase[src] \in {"absorb", "squeeze"}
  BY <1>0, <1>3 DEF TypeOK
<1>5. Pending(dest)' = Pending(src)
  BY <1>2, <1>4 DEF Pending
<1>6. /\ SpongeMode'[dest] = SpongeMode[src] /\ SpongeSt'[dest] = SpongeSt[src]
      /\ SpongeBuf'[dest] = SpongeBuf[src] /\ SpongeLeft'[dest] = SpongeLeft[src]
  <2>1. CASE phase[src] = "absorb"
    BY <1>2, <1>4, <1>5, <2>1, SpongeAt, SpongeAtNext
  <2>2. CASE phase[src] = "squeeze"
    BY <1>2, <1>4, <2>2, SpongeAt, SpongeAtNext
  <2> QED BY <1>4, <2>1, <2>2
<1>7. SpongeMode[dest] = "off" /\ SpongeMode[src] # "off"
  BY <1>0 DEF SpongeMode
<1>8. /\ SpongeMode' = [SpongeMode EXCEPT ![dest] = SpongeMode[src]]
      /\ SpongeSt' = [SpongeSt EXCEPT ![dest] = SpongeSt[src]]
      /\ SpongeBuf' = [SpongeBuf EXCEPT ![dest] = SpongeBuf[src]]
      /\ SpongeLeft' = [SpongeLeft EXCEPT ![dest] = SpongeLeft[src]]
  BY <1>0, <1>6, SpongeStep
<1> QED BY <1>3, <1>7, <1>8 DEF Sponges!Copy

\* A step that the sponges do not see.
LEMMA Unseen ==
  ASSUME UNCHANGED <<words, count, ctx, phase, alg, msg, out>>
  PROVE  UNCHANGED Sponges!vars
<1>1. SpongeMode' = SpongeMode /\ SpongeSt' = SpongeSt /\ SpongeBuf' = SpongeBuf /\ SpongeLeft' = SpongeLeft
  BY DEF SpongeMode, SpongeSt, SpongeBuf, SpongeLeft, Pending, Words, Count
<1> QED BY <1>1 DEF Sponges!vars

\* Every step is a step of one sponge, or one the sponges do not see.
LEMMA StepIsSpongeStep ==
  ASSUME PermuteKeepsStates, IInv, IInv', [Next]_vars
  PROVE  [Sponges!Next]_(Sponges!vars)
<1>1. CASE UNCHANGED vars
  BY <1>1, Unseen DEF vars, heap, ghost
<1>2. CASE OutOfMemory
  BY <1>2, Unseen DEF OutOfMemory, heap, ghost
<1>3. ASSUME NEW c \in Contexts, inc_absorb(c) PROVE UNCHANGED Sponges!vars
  BY <1>3, Unseen DEF inc_absorb, heap, ghost
<1>4. ASSUME NEW c \in Contexts,
             \/ inc_init(c) \/ AbsorbBlock(c) \/ AbsorbRest(c) \/ shake_inc_finalize(c)
             \/ sha3_inc_finalize(c) \/ inc_squeeze(c) \/ SqueezeBlock(c) \/ inc_ctx_release(c)
      PROVE  Sponges!Next
  <2>1. TypeOK'
    BY DEF IInv
  <2>2. \/ Sponges!Start(c) \/ Sponges!Take(c) \/ Sponges!Fill(c) \/ Sponges!Finish(c)
        \/ Sponges!Give(c) \/ Sponges!GiveFromNext(c) \/ Sponges!Digest(c) \/ Sponges!Stop(c)
    BY <1>4, <2>1, InitIsStart, BlockIsFill, RestIsTake, FinalizeIsFinish, FinalizeIsDigest,
       SqueezeIsGive, SqueezeBlockIsGive, ReleaseIsStop
  <2> QED BY <2>2 DEF Sponges!Next
<1>5. ASSUME NEW dest \in Contexts, NEW src \in Contexts, inc_ctx_clone(dest, src) PROVE Sponges!Next
  BY <1>5, CloneIsCopy DEF Sponges!Next
<1> QED BY <1>1, <1>2, <1>3, <1>4, <1>5 DEF Next

\* The incremental functions implement the sponges: message and output may be cut into
\* calls anywhere, calls for several contexts may interleave, and clones go their own way.
THEOREM SpongesImplemented ==
  ASSUME PermuteKeepsStates
  PROVE  Spec => ImplementsSponges
<1>1. IInv /\ IInv' /\ [Next]_vars => [Sponges!Next]_(Sponges!vars)
  BY StepIsSpongeStep
<1> QED BY <1>1, InitStarts, InvAlways, PTL DEF Spec, ImplementsSponges, Sponges!Spec

-----------------------------------------------------------------------------
\* Pointers.

\* Every allocated block is the one of a single context: of one in L, whose pointer
\* is in p, or of one in M, whose pointer is in q.
Owned(p, L, q, M, blocks) ==
  /\ blocks = {p[c] : c \in L} \cup {q[d] : d \in M}
  /\ \A c, e \in L : p[c] = p[e] => c = e
  /\ \A d, e \in M : q[d] = q[e] => d = e
  /\ \A c \in L, d \in M : p[c] # q[d]

\* Which kind comes first does not matter.
LEMMA OwnedSymmetric ==
  ASSUME NEW p, NEW L, NEW q, NEW M, NEW blocks
  PROVE  Owned(p, L, q, M, blocks) <=> Owned(q, M, p, L, blocks)
  BY DEF Owned

\* malloc: a context gets a block that was free.
LEMMA TakeOwned ==
  ASSUME NEW S, NEW p, DOMAIN p = S, NEW L \in SUBSET S, NEW q, NEW M, NEW blocks,
         Owned(p, L, q, M, blocks), NEW c \in S \ L, NEW b, b \notin blocks
  PROVE  Owned([p EXCEPT ![c] = b], L \cup {c}, q, M, blocks \cup {b})
<1> DEFINE r == [p EXCEPT ![c] = b]
<1>1. r[c] = b /\ \A e \in L : r[e] = p[e] /\ r[e] # b
  BY DEF Owned
<1>2. \A d \in M : q[d] # b
  BY DEF Owned
<1> HIDE DEF r
<1>3. blocks \cup {b} = {r[e] : e \in L \cup {c}} \cup {q[d] : d \in M}
  BY <1>1 DEF Owned
<1> QED BY <1>1, <1>2, <1>3 DEF Owned, r

\* free: a context gives up its block.
LEMMA GiveOwned ==
  ASSUME NEW p, NEW L, NEW q, NEW M, NEW blocks,
         Owned(p, L, q, M, blocks), NEW c \in L
  PROVE  Owned(p, L \ {c}, q, M, blocks \ {p[c]})
  BY DEF Owned

\* Pointers that are all different point to as many blocks.
LEMMA DistinctPointers ==
  ASSUME NEW p, NEW L, IsFiniteSet(L), \A c, e \in L : p[c] = p[e] => c = e
  PROVE  /\ IsFiniteSet({p[c] : c \in L})
         /\ Cardinality({p[c] : c \in L}) = Cardinality(L)
<1> DEFINE P == {p[c] : c \in L}
           f == [c \in L |-> p[c]]
<1>1. f \in [L -> P] /\ \A c, e \in L : f[c] = f[e] => c = e
  OBVIOUS
<1>2. \A b \in P : \E c \in L : f[c] = b
  OBVIOUS
<1> HIDE DEF f, P
<1>3. f \in Injection(L, P)
  BY <1>1 DEF Injection, IsInjective
<1>4. f \in Bijection(L, P)
  BY <1>1, <1>2, <1>3, Zenon DEF Bijection, Surjection
<1>5. IsFiniteSet(P) /\ Cardinality(P) = Cardinality(L)
  BY <1>4, FS_Bijection, Zenon DEF ExistsBijection
<1> QED BY <1>5 DEF P

\* As many blocks are allocated as there are contexts.
LEMMA OwnedNumber ==
  ASSUME NEW p, NEW L, NEW q, NEW M, NEW blocks, Owned(p, L, q, M, blocks),
         IsFiniteSet(L), IsFiniteSet(M)
  PROVE  Cardinality(blocks) = Cardinality(L) + Cardinality(M)
<1> DEFINE P == {p[c] : c \in L}
           Q == {q[d] : d \in M}
<1>1. IsFiniteSet(P) /\ Cardinality(P) = Cardinality(L)
  BY DistinctPointers DEF Owned
<1>2. IsFiniteSet(Q) /\ Cardinality(Q) = Cardinality(M)
  BY DistinctPointers DEF Owned
<1>3. P \cap Q = {} /\ blocks = P \cup Q
  BY DEF Owned
<1> HIDE DEF P, Q
<1>4. Cardinality(P \cap Q) = 0
  BY <1>3, FS_EmptySet
<1>5. Cardinality(P \cup Q) = Cardinality(P) + Cardinality(Q) - Cardinality(P \cap Q)
  BY <1>1, <1>2, FS_Union, Zenon
<1>6. Cardinality(P) \in Nat /\ Cardinality(Q) \in Nat
  BY <1>1, <1>2, FS_CardinalityType, Zenon
<1>7. Cardinality(P \cup Q) = Cardinality(P) + Cardinality(Q)
  BY <1>4, <1>5, <1>6
<1> QED BY <1>1, <1>2, <1>3, <1>7, Zenon

-----------------------------------------------------------------------------
\* The process.

\* The pointers of both kinds of contexts over the heap, and what they are pointers of.
OwnedInv ==
  /\ DOMAIN ctx = Contexts /\ DOMAIN phase = Contexts /\ DOMAIN blockCtx = BlockContexts
  /\ live \subseteq BlockContexts
  /\ Owned(ctx, Live, blockCtx, live, allocated)

\* A call of an incremental function changes at most the block of its context.
LEMMA IncKeeps ==
  ASSUME OwnedInv, Next, UNCHANGED blockVars
  PROVE  OwnedInv'
<1>0. /\ DOMAIN ctx = Contexts /\ DOMAIN phase = Contexts
      /\ Live \subseteq Contexts
      /\ Owned(ctx, Live, blockCtx, live, allocated)
  BY DEF OwnedInv, Live
<1>a. UNCHANGED <<blockCtx, live>>
  BY DEF blockVars
<1>1. ASSUME UNCHANGED <<allocated, ctx>>, DOMAIN phase' = Contexts, Live' = Live
      PROVE  OwnedInv'
  BY <1>0, <1>1, <1>a DEF OwnedInv
<1>2. ASSUME NEW c \in Contexts, phase[c] = "none", NEW b \in Blocks, malloc(c, b),
             NEW x, x # "none", phase' = [phase EXCEPT ![c] = x]
      PROVE  OwnedInv'
  <2>1. Live' = Live \cup {c} /\ c \in Contexts \ Live /\ DOMAIN phase' = Contexts
    BY <1>0, <1>2 DEF Live
  <2>2. /\ b \notin allocated /\ allocated' = allocated \cup {b}
        /\ ctx' = [ctx EXCEPT ![c] = b] /\ DOMAIN ctx' = Contexts
    BY <1>0, <1>2 DEF malloc
  <2>3. Owned([ctx EXCEPT ![c] = b], Live \cup {c}, blockCtx, live, allocated \cup {b})
    BY <1>0, <2>1, <2>2, TakeOwned
  <2> QED BY <1>a, <2>1, <2>2, <2>3 DEF OwnedInv
<1>3. ASSUME NEW c \in Contexts, phase[c] # "none", free(c), UNCHANGED ctx,
             phase' = [phase EXCEPT ![c] = "none"]
      PROVE  OwnedInv'
  <2>1. Live' = Live \ {c} /\ c \in Live /\ DOMAIN phase' = Contexts
    BY <1>0, <1>3 DEF Live
  <2>2. allocated' = allocated \ {ctx[c]}
    BY <1>3 DEF free
  <2>3. Owned(ctx, Live \ {c}, blockCtx, live, allocated \ {ctx[c]})
    BY <1>0, <2>1, GiveOwned
  <2> QED BY <1>0, <1>3, <1>a, <2>1, <2>2, <2>3 DEF OwnedInv
<1>4. ASSUME OutOfMemory PROVE OwnedInv'
  BY <1>0, <1>1, <1>4 DEF OutOfMemory, heap, ghost, Live
<1>5. ASSUME NEW c \in Contexts, inc_init(c) PROVE OwnedInv'
  BY <1>2, <1>5 DEF inc_init
<1>6. ASSUME NEW c \in Contexts, inc_absorb(c) PROVE OwnedInv'
  BY <1>0, <1>1, <1>6 DEF inc_absorb, heap, ghost, Live
<1>7. ASSUME NEW c \in Contexts, AbsorbBlock(c) \/ AbsorbRest(c) PROVE OwnedInv'
  <2>1. UNCHANGED <<allocated, ctx, phase>>
    BY <1>7, Zenon DEF AbsorbBlock, AbsorbRest
  <2> QED BY <1>0, <1>1, <2>1 DEF Live
<1>8. ASSUME NEW c \in Contexts, shake_inc_finalize(c) PROVE OwnedInv'
  <2>1. /\ UNCHANGED <<allocated, ctx>> /\ phase[c] = "absorb"
        /\ phase' = [phase EXCEPT ![c] = "squeeze"]
    BY <1>8, Zenon DEF shake_inc_finalize
  <2>2. DOMAIN phase' = Contexts /\ Live' = Live
    BY <1>0, <2>1 DEF Live
  <2> QED BY <1>1, <2>1, <2>2
<1>9. ASSUME NEW c \in Contexts, sha3_inc_finalize(c) PROVE OwnedInv'
  <2>1. /\ UNCHANGED ctx /\ phase[c] = "absorb" /\ free(c)
        /\ phase' = [phase EXCEPT ![c] = "none"]
    BY <1>9, Zenon DEF sha3_inc_finalize
  <2> QED BY <1>3, <2>1
<1>10. ASSUME NEW c \in Contexts, inc_squeeze(c) \/ SqueezeBlock(c) PROVE OwnedInv'
  <2>1. UNCHANGED <<allocated, ctx, phase>>
    BY <1>10, Zenon DEF inc_squeeze, SqueezeBlock
  <2> QED BY <1>0, <1>1, <2>1 DEF Live
<1>11. ASSUME NEW c \in Contexts, inc_ctx_release(c) PROVE OwnedInv'
  <2>1. /\ UNCHANGED ctx /\ phase[c] # "none" /\ free(c)
        /\ phase' = [phase EXCEPT ![c] = "none"]
    BY <1>11, Zenon DEF inc_ctx_release
  <2> QED BY <1>3, <2>1
<1>12. ASSUME NEW dest \in Contexts, NEW src \in Contexts, inc_ctx_clone(dest, src)
       PROVE  OwnedInv'
  <2>1. /\ phase[dest] = "none" /\ phase[src] # "none"
        /\ phase' = [phase EXCEPT ![dest] = phase[src]]
        /\ \E b \in Blocks : malloc(dest, b)
    BY <1>12, Zenon DEF inc_ctx_clone
  <2> QED BY <1>2, <2>1
<1> QED BY <1>4, <1>5, <1>6, <1>7, <1>8, <1>9, <1>10, <1>11, <1>12 DEF Next

\* So does a call of the functions that take the whole message.
LEMMA OneGoKeeps ==
  ASSUME OwnedInv, OneGo!Next, UNCHANGED <<count, ctx, local, ghost>>
  PROVE  OwnedInv'
<1>0. /\ DOMAIN blockCtx = BlockContexts /\ live \subseteq BlockContexts
      /\ Owned(blockCtx, live, ctx, Live, allocated)
  BY OwnedSymmetric DEF OwnedInv
<1>a. UNCHANGED <<ctx, phase>> /\ Live' = Live
  BY DEF ghost, Live
<1>b. ASSUME DOMAIN blockCtx' = BlockContexts, live' \subseteq BlockContexts,
             Owned(blockCtx', live', ctx, Live, allocated')
      PROVE  OwnedInv'
  BY <1>a, <1>b, OwnedSymmetric DEF OwnedInv
<1>1. ASSUME UNCHANGED <<allocated, blockCtx, live>> PROVE OwnedInv'
  BY <1>0, <1>1, <1>b
<1>2. ASSUME NEW c \in BlockContexts, c \notin live, NEW b \in Blocks, OneGo!malloc(c, b),
             live' = live \cup {c}
      PROVE  OwnedInv'
  <2>1. /\ b \notin allocated /\ allocated' = allocated \cup {b}
        /\ blockCtx' = [blockCtx EXCEPT ![c] = b] /\ DOMAIN blockCtx' = BlockContexts
    BY <1>0, <1>2 DEF OneGo!malloc
  <2>2. Owned([blockCtx EXCEPT ![c] = b], live \cup {c}, ctx, Live, allocated \cup {b})
    BY <1>0, <1>2, <2>1, TakeOwned
  <2> QED BY <1>0, <1>2, <1>b, <2>1, <2>2
<1>3. ASSUME OneGo!OutOfMemory PROVE OwnedInv'
  BY <1>1, <1>3 DEF OneGo!OutOfMemory, OneGo!heap, OneGo!ghost
<1>4. ASSUME NEW c \in BlockContexts, OneGo!shake_absorb(c) PROVE OwnedInv'
  <2>1. c \notin live /\ live' = live \cup {c} /\ \E b \in Blocks : OneGo!malloc(c, b)
    BY <1>4, Zenon DEF OneGo!shake_absorb
  <2> QED BY <1>2, <2>1
<1>5. ASSUME NEW c \in BlockContexts, OneGo!shake_squeezeblocks(c) PROVE OwnedInv'
  <2>1. UNCHANGED <<allocated, blockCtx, live>>
    BY <1>5, Zenon DEF OneGo!shake_squeezeblocks
  <2> QED BY <1>1, <2>1
<1>6. ASSUME NEW dest \in BlockContexts, NEW src \in BlockContexts, OneGo!shake_ctx_clone(dest, src)
      PROVE  OwnedInv'
  <2>1. dest \notin live /\ live' = live \cup {dest} /\ \E b \in Blocks : OneGo!malloc(dest, b)
    BY <1>6, Zenon DEF OneGo!shake_ctx_clone
  <2> QED BY <1>2, <2>1
<1>7. ASSUME NEW c \in BlockContexts, OneGo!shake_ctx_release(c) PROVE OwnedInv'
  <2>1. /\ c \in live /\ allocated' = allocated \ {blockCtx[c]}
        /\ live' = live \ {c} /\ UNCHANGED blockCtx
    BY <1>7, Zenon DEF OneGo!shake_ctx_release
  <2>2. Owned(blockCtx, live \ {c}, ctx, Live, allocated \ {blockCtx[c]})
    BY <1>0, <2>1, GiveOwned
  <2> QED BY <1>0, <1>b, <2>1, <2>2
<1>8. ASSUME OneGo!shake \/ OneGo!sha3 PROVE OwnedInv'
  <2>1. UNCHANGED <<allocated, blockCtx, live>>
    BY <1>8, Zenon DEF OneGo!shake, OneGo!sha3, OneGo!heap, OneGo!ghost
  <2> QED BY <1>1, <2>1
<1> QED BY <1>3, <1>4, <1>5, <1>6, <1>7, <1>8 DEF OneGo!Next, OneGo!OneShot, OneGo!ContextCall

\* The invariant of the process.
LEMMA OwnedAlways == ProcessSpec => []OwnedInv
<1>1. ProcessInit => OwnedInv
  BY DEF ProcessInit, Init, OneGo!Init, OwnedInv, Owned, Live
<1>2. OwnedInv /\ [ProcessNext]_allVars => OwnedInv'
  <2> SUFFICES ASSUME OwnedInv, [ProcessNext]_allVars
               PROVE  OwnedInv'
    OBVIOUS
  <2>1. CASE Next /\ UNCHANGED blockVars
    BY <2>1, IncKeeps
  <2>2. CASE OneGo!Next /\ UNCHANGED <<count, ctx, local, ghost>>
    BY <2>2, OneGoKeeps
  <2>3. CASE UNCHANGED allVars
    BY <2>3 DEF allVars, vars, heap, ghost, blockVars, OwnedInv, Live
  <2> QED BY <2>1, <2>2, <2>3 DEF ProcessNext, IncStep, OneGoStep, OneGo!Next
<1> QED BY <1>1, <1>2, PTL DEF ProcessSpec

\* However calls of both halves of the file follow one another, every block of the
\* heap has one owner among the contexts in use: nothing is lost, freed twice or shared.
THEOREM OneOwnerHolds ==
  ASSUME IsFiniteSet(Contexts), IsFiniteSet(BlockContexts)
  PROVE  ProcessSpec => []OneOwner
<1>1. OwnedInv => OneOwner
  <2> SUFFICES ASSUME OwnedInv PROVE OneOwner
    OBVIOUS
  <2>1. IsFiniteSet(Live) /\ IsFiniteSet(live)
    BY FS_Subset DEF OwnedInv, Live
  <2>2. Cardinality(allocated) = Cardinality(Live) + Cardinality(live)
    BY <2>1, OwnedNumber DEF OwnedInv
  <2> QED BY <2>2 DEF OneOwner, OwnedInv, Owned
<1> QED BY <1>1, OwnedAlways, PTL
-----------------------------------------------------------------------------
\* Blocks of bytes, and sequences of states.

\* Quotient and remainder.
LEMMA Divided ==
  ASSUME NEW r \in Rates, NEW x \in Nat
  PROVE  x \div r \in Nat /\ x % r \in 0 .. r - 1 /\ x = r * (x \div r) + (x % r)
<1>1. CASE r = 72 BY <1>1
<1>2. CASE r = 104 BY <1>2
<1>3. CASE r = 136 BY <1>3
<1>4. CASE r = 168 BY <1>4
<1> QED BY <1>1, <1>2, <1>3, <1>4 DEF Rates

\* They are the only ones.
LEMMA Quotient ==
  ASSUME NEW r \in Rates, NEW q \in Nat, NEW a \in 0 .. r - 1
  PROVE  (r * q + a) \div r = q /\ (r * q + a) % r = a
<1>1. CASE r = 72 BY <1>1
<1>2. CASE r = 104 BY <1>2
<1>3. CASE r = 136 BY <1>3
<1>4. CASE r = 168 BY <1>4
<1> QED BY <1>1, <1>2, <1>3, <1>4 DEF Rates

\* A function whose values follow from the one before, if that is one of S.
LEMMA Unfold ==
  ASSUME NEW n \in Nat, NEW S, NEW base \in S, NEW step \in [(1 .. n) \X S -> S],
         NEW g, g = [k \in 0 .. n |-> g[k]], g[0] = base,
         \A k \in 1 .. n : g[k - 1] \in S => g[k] = step[<<k, g[k - 1]>>]
  PROVE  Recursion(n, S, base, step, g)
<1> DEFINE T == {k \in 0 .. n : g[k] \in S}
<1>1. 0 \in T OBVIOUS
<1>2. ASSUME NEW k \in 1 .. n, k - 1 \in T PROVE k \in T
  <2>1. g[k - 1] \in S /\ <<k, g[k - 1]>> \in (1 .. n) \X S /\ k \in 0 .. n BY <1>2
  <2>2. g[k] = step[<<k, g[k - 1]>>] /\ step[<<k, g[k - 1]>>] \in S BY <2>1
  <2> QED BY <2>1, <2>2
<1> HIDE DEF T
<1>3. \A k \in 0 .. n : k \in T BY <1>1, <1>2, BoundedInduction, Zenon
<1>4. \A k \in 0 .. n : g[k] \in S BY <1>3 DEF T
<1>5. \A k \in 1 .. n : k - 1 \in 0 .. n OBVIOUS
<1>6. \A k \in 1 .. n : g[k] = step[<<k, g[k - 1]>>] BY <1>4, <1>5
<1>7. g \in [0 .. n -> S] BY <1>4
<1> QED BY <1>6, <1>7 DEF Recursion

\* Two of them that do the same m times.
LEMMA SameRecursion ==
  ASSUME NEW S, NEW base, NEW n \in Nat, NEW step, NEW g, Recursion(n, S, base, step, g),
         NEW l \in Nat, NEW other, NEW h, Recursion(l, S, base, other, h),
         NEW k \in Nat, k <= n, k <= l, \A i \in 1 .. k, x \in S : step[<<i, x>>] = other[<<i, x>>]
  PROVE  g[k] = h[k]
<1> DEFINE T == {i \in 0 .. k : g[i] = h[i]}
<1>1. 0 \in T BY DEF Recursion
<1>2. ASSUME NEW i \in 1 .. k, i - 1 \in T PROVE i \in T
  <2>1. i \in 1 .. n /\ i \in 1 .. l /\ i - 1 \in 0 .. n /\ g[i - 1] = h[i - 1] /\ i \in 0 .. k BY <1>2
  <2>2. g[i] = step[<<i, g[i - 1]>>] /\ h[i] = other[<<i, h[i - 1]>>] /\ g[i - 1] \in S
    BY <2>1 DEF Recursion
  <2>3. step[<<i, g[i - 1]>>] = other[<<i, g[i - 1]>>] BY <2>2
  <2> QED BY <2>1, <2>2, <2>3
<1> HIDE DEF T
<1>3. \A i \in 0 .. k : i \in T BY <1>1, <1>2, BoundedInduction, Zenon
<1>4. k \in 0 .. k OBVIOUS
<1> QED BY <1>3, <1>4 DEF T
-----------------------------------------------------------------------------
\* A message absorbed block by block, and the states that are squeezed from then on.

\* The kth whole block of a message, from 1 on.
MessageBlock(f, ms, k) == SubSeq(ms, f.rate * (k - 1) + 1, f.rate * k)

\* The state behind the first n blocks of ms, and behind n permutations of s.
AfterBlocks(f, ms, n) ==
  LET after[k \in 0 .. n] ==
        IF k = 0 THEN ZeroState ELSE Permute(XorBytes(after[k - 1], 0, MessageBlock(f, ms, k)))
  IN after[n]
AfterSqueezes(s, n) ==
  LET after[k \in 0 .. n] == IF k = 0 THEN s ELSE Permute(after[k - 1])
  IN after[n]

\* The steps of these recursions as functions of the number of the step and the state.
BlockStep(f, ms, n) ==
  [p \in (1 .. n) \X States |-> Permute(XorBytes(p[2], 0, MessageBlock(f, ms, p[1])))]
SqueezeStep(n) == [p \in (1 .. n) \X States |-> Permute(p[2])]

\* g is the recursion with such steps.
Absorbing(f, ms, n, g)   == Recursion(n, States, ZeroState, BlockStep(f, ms, n), g)
SqueezingFrom(s, n, g)   == Recursion(n, States, s, SqueezeStep(n), g)

\* Both lead from states to states.
LEMMA StepTypes ==
  ASSUME PermuteKeepsStates, NEW f, NEW ms, NEW n \in Nat
  PROVE  /\ BlockStep(f, ms, n) \in [(1 .. n) \X States -> States]
         /\ SqueezeStep(n) \in [(1 .. n) \X States -> States]
<1>1. 0 \in Int OBVIOUS
<1>2. \A p \in (1 .. n) \X States : XorBytes(p[2], 0, MessageBlock(f, ms, p[1])) \in States
  BY <1>1, XorBytesType
<1>3. \A p \in (1 .. n) \X States : Permute(XorBytes(p[2], 0, MessageBlock(f, ms, p[1]))) \in States
  BY <1>2 DEF PermuteKeepsStates
<1>4. \A p \in (1 .. n) \X States : Permute(p[2]) \in States
  BY DEF PermuteKeepsStates
<1> QED BY <1>3, <1>4, Zenon DEF BlockStep, SqueezeStep

\* A recursive function with such steps.
LEMMA AbsorbingIs ==
  ASSUME NEW f, NEW ms, NEW n \in Nat, NEW g \in [0 .. n -> States]
  PROVE  Absorbing(f, ms, n, g) <=>
           /\ g[0] = ZeroState
           /\ \A k \in 1 .. n : g[k] = Permute(XorBytes(g[k - 1], 0, MessageBlock(f, ms, k)))
<1>1. ASSUME NEW k \in 1 .. n
      PROVE  BlockStep(f, ms, n)[<<k, g[k - 1]>>] = Permute(XorBytes(g[k - 1], 0, MessageBlock(f, ms, k)))
  <2>1. k - 1 \in 0 .. n OBVIOUS
  <2>2. g[k - 1] \in States BY <2>1
  <2>3. <<k, g[k - 1]>> \in (1 .. n) \X States BY <2>2
  <2>4. <<k, g[k - 1]>>[1] = k /\ <<k, g[k - 1]>>[2] = g[k - 1] OBVIOUS
  <2> QED BY <2>3, <2>4, Zenon DEF BlockStep
<1> QED BY <1>1, Zenon DEF Absorbing, Recursion

\* The same for squeezing.
LEMMA SqueezingIs ==
  ASSUME NEW s, NEW n \in Nat, NEW g \in [0 .. n -> States]
  PROVE  SqueezingFrom(s, n, g) <=> g[0] = s /\ \A k \in 1 .. n : g[k] = Permute(g[k - 1])
<1>1. ASSUME NEW k \in 1 .. n PROVE SqueezeStep(n)[<<k, g[k - 1]>>] = Permute(g[k - 1])
  <2>1. k - 1 \in 0 .. n OBVIOUS
  <2>2. g[k - 1] \in States BY <2>1
  <2>3. <<k, g[k - 1]>> \in (1 .. n) \X States BY <2>2
  <2>4. <<k, g[k - 1]>>[2] = g[k - 1] OBVIOUS
  <2> QED BY <2>3, <2>4, Zenon DEF SqueezeStep
<1> QED BY <1>1, Zenon DEF SqueezingFrom, Recursion

\* The recursions of the definitions.
LEMMA AfterBlocksIs ==
  ASSUME PermuteKeepsStates, NEW f, NEW ms, NEW n \in Nat
  PROVE  \E g \in [0 .. n -> States] : Absorbing(f, ms, n, g) /\ AfterBlocks(f, ms, n) = g[n]
<1> DEFINE next(h, k) == Permute(XorBytes(h[k - 1], 0, MessageBlock(f, ms, k)))
           body(h) == [k \in 0 .. n |-> IF k = 0 THEN ZeroState ELSE next(h, k)]
           g == CHOOSE h : h = body(h)
<1>0. BlockStep(f, ms, n) \in [(1 .. n) \X States -> States] /\ ZeroState \in States
  BY StepTypes, ZeroIsState
<1>a. PICK h : Recursion(n, States, ZeroState, BlockStep(f, ms, n), h)
  BY <1>0, RecursionExists, Zenon
<1>1. h \in [0 .. n -> States] /\ Absorbing(f, ms, n, h)
  BY <1>a DEF Absorbing, Recursion
<1>2. h[0] = ZeroState /\ \A k \in 1 .. n : h[k] = next(h, k)
  BY <1>1, AbsorbingIs
<1> HIDE DEF next
<1>3. h = body(h)
  <2>1. \A k \in 0 .. n : h[k] = IF k = 0 THEN ZeroState ELSE next(h, k)
    BY <1>2
  <2>2. h = [k \in 0 .. n |-> h[k]]
    BY <1>1
  <2> QED BY <2>1, <2>2
<1>4. g = body(g)
  BY <1>3
<1>5. AfterBlocks(f, ms, n) = g[n]
  BY DEF AfterBlocks, next
<1> HIDE DEF g
<1>6. g = [k \in 0 .. n |-> g[k]] /\ g[0] = ZeroState /\ \A k \in 1 .. n : g[k] = next(g, k)
  BY <1>4
<1>7. ASSUME NEW k \in 1 .. n, g[k - 1] \in States
      PROVE  g[k] = BlockStep(f, ms, n)[<<k, g[k - 1]>>]
  <2>1. <<k, g[k - 1]>> \in (1 .. n) \X States BY <1>7
  <2>2. <<k, g[k - 1]>>[1] = k /\ <<k, g[k - 1]>>[2] = g[k - 1] OBVIOUS
  <2>3. BlockStep(f, ms, n)[<<k, g[k - 1]>>] = next(g, k)
    BY <2>1, <2>2, Zenon DEF BlockStep, next
  <2> QED BY <1>6, <2>3
<1>8. Absorbing(f, ms, n, g)
  <2>1. BlockStep(f, ms, n) \in [(1 .. n) \X States -> States] /\ ZeroState \in States
    BY StepTypes, ZeroIsState
  <2> HIDE DEF body
  <2> QED BY <1>6, <1>7, <2>1, Unfold DEF Absorbing
<1>9. g \in [0 .. n -> States]
  BY <1>8 DEF Absorbing, Recursion
<1> QED BY <1>5, <1>8, <1>9

\* AfterSqueezes is the last value of such a function.
LEMMA AfterSqueezesIs ==
  ASSUME PermuteKeepsStates, NEW s \in States, NEW n \in Nat
  PROVE  \E g \in [0 .. n -> States] : SqueezingFrom(s, n, g) /\ AfterSqueezes(s, n) = g[n]
<1> DEFINE next(h, k) == Permute(h[k - 1])
           body(h) == [k \in 0 .. n |-> IF k = 0 THEN s ELSE next(h, k)]
           g == CHOOSE h : h = body(h)
<1>0. SqueezeStep(n) \in [(1 .. n) \X States -> States]
  BY StepTypes
<1>a. PICK h : Recursion(n, States, s, SqueezeStep(n), h)
  BY <1>0, RecursionExists, Zenon
<1>1. h \in [0 .. n -> States] /\ SqueezingFrom(s, n, h)
  BY <1>a DEF SqueezingFrom, Recursion
<1>2. h[0] = s /\ \A k \in 1 .. n : h[k] = next(h, k)
  BY <1>1, SqueezingIs
<1> HIDE DEF next
<1>3. h = body(h)
  <2>1. \A k \in 0 .. n : h[k] = IF k = 0 THEN s ELSE next(h, k)
    BY <1>2
  <2>2. h = [k \in 0 .. n |-> h[k]]
    BY <1>1
  <2> QED BY <2>1, <2>2
<1>4. g = body(g)
  BY <1>3
<1>5. AfterSqueezes(s, n) = g[n]
  BY DEF AfterSqueezes, next
<1> HIDE DEF g
<1>6. g = [k \in 0 .. n |-> g[k]] /\ g[0] = s /\ \A k \in 1 .. n : g[k] = next(g, k)
  BY <1>4
<1>7. ASSUME NEW k \in 1 .. n, g[k - 1] \in States
      PROVE  g[k] = SqueezeStep(n)[<<k, g[k - 1]>>]
  <2>1. <<k, g[k - 1]>> \in (1 .. n) \X States BY <1>7
  <2>2. <<k, g[k - 1]>>[2] = g[k - 1] OBVIOUS
  <2>3. SqueezeStep(n)[<<k, g[k - 1]>>] = next(g, k)
    BY <2>1, <2>2, Zenon DEF SqueezeStep, next
  <2> QED BY <1>6, <2>3
<1>8. SqueezingFrom(s, n, g)
  <2>1. SqueezeStep(n) \in [(1 .. n) \X States -> States]
    BY StepTypes
  <2> HIDE DEF body
  <2> QED BY <1>6, <1>7, <2>1, Unfold DEF SqueezingFrom
<1>9. g \in [0 .. n -> States]
  BY <1>8 DEF SqueezingFrom, Recursion
<1> QED BY <1>5, <1>8, <1>9

\* Messages that begin with the same blocks.
LEMMA SameBlocks ==
  ASSUME NEW f, NEW n \in Nat, NEW ms, NEW g, Absorbing(f, ms, n, g),
         NEW l \in Nat, NEW other, NEW h, Absorbing(f, other, l, h),
         NEW k \in Nat, k <= n, k <= l,
         \A i \in 1 .. k : MessageBlock(f, ms, i) = MessageBlock(f, other, i)
  PROVE  g[k] = h[k]
<1>1. ASSUME NEW i \in 1 .. k, NEW x \in States
      PROVE  BlockStep(f, ms, n)[<<i, x>>] = BlockStep(f, other, l)[<<i, x>>]
  <2>1. <<i, x>> \in (1 .. n) \X States /\ <<i, x>> \in (1 .. l) \X States
        /\ <<i, x>>[1] = i /\ <<i, x>>[2] = x
    OBVIOUS
  <2>2. BlockStep(f, ms, n)[<<i, x>>] = Permute(XorBytes(x, 0, MessageBlock(f, ms, i)))
    BY <2>1, Zenon DEF BlockStep
  <2>3. BlockStep(f, other, l)[<<i, x>>] = Permute(XorBytes(x, 0, MessageBlock(f, other, i)))
    BY <2>1, Zenon DEF BlockStep
  <2> QED BY <2>2, <2>3
<1> DEFINE first  == BlockStep(f, ms, n)
           second == BlockStep(f, other, l)
<1>2. Recursion(n, States, ZeroState, first, g) /\ Recursion(l, States, ZeroState, second, h)
  BY DEF Absorbing
<1>3. \A i \in 1 .. k, x \in States : first[<<i, x>>] = second[<<i, x>>]
  BY <1>1
<1> HIDE DEF first, second
<1> QED BY <1>2, <1>3, SameRecursion

\* Two of them agree as far as both go.
LEMMA SameSqueezes ==
  ASSUME NEW s, NEW n \in Nat, NEW g, SqueezingFrom(s, n, g),
         NEW l \in Nat, NEW h, SqueezingFrom(s, l, h), NEW k \in Nat, k <= n, k <= l
  PROVE  g[k] = h[k]
<1>1. ASSUME NEW i \in 1 .. k, NEW x \in States
      PROVE  SqueezeStep(n)[<<i, x>>] = SqueezeStep(l)[<<i, x>>]
  <2>1. <<i, x>> \in (1 .. n) \X States /\ <<i, x>> \in (1 .. l) \X States /\ <<i, x>>[2] = x
    OBVIOUS
  <2> QED BY <2>1, Zenon DEF SqueezeStep
<1> QED BY <1>1, SameRecursion DEF SqueezingFrom

\* The state of a prefix is the one any such recursion reaches.
LEMMA AfterBlocksAt ==
  ASSUME PermuteKeepsStates, NEW f, NEW ms, NEW n \in Nat, NEW g, Absorbing(f, ms, n, g),
         NEW k \in Nat, k <= n
  PROVE  AfterBlocks(f, ms, k) = g[k] /\ g[k] \in States
<1>1. PICK h \in [0 .. k -> States] : Absorbing(f, ms, k, h) /\ AfterBlocks(f, ms, k) = h[k]
  BY AfterBlocksIs
<1>2. \A i \in 1 .. k : MessageBlock(f, ms, i) = MessageBlock(f, ms, i) /\ k <= k
  OBVIOUS
<1>3. h[k] = g[k]
  BY <1>1, <1>2, SameBlocks
<1>4. k \in 0 .. k OBVIOUS
<1> QED BY <1>1, <1>3, <1>4

\* So the values of one are the AfterSqueezes.
LEMMA AfterSqueezesAt ==
  ASSUME PermuteKeepsStates, NEW s \in States, NEW n \in Nat, NEW g, SqueezingFrom(s, n, g),
         NEW k \in Nat, k <= n
  PROVE  AfterSqueezes(s, k) = g[k] /\ g[k] \in States
<1>1. PICK h \in [0 .. k -> States] : SqueezingFrom(s, k, h) /\ AfterSqueezes(s, k) = h[k]
  BY AfterSqueezesIs
<1>2. k <= k /\ k \in 0 .. k OBVIOUS
<1>3. h[k] = g[k]
  BY <1>1, <1>2, SameSqueezes
<1> QED BY <1>1, <1>2, <1>3

\* One block more.
LEMMA NextBlock ==
  ASSUME PermuteKeepsStates, NEW f, NEW ms, NEW n \in Nat
  PROVE  /\ AfterBlocks(f, ms, n) \in States
         /\ AfterBlocks(f, ms, 0) = ZeroState
         /\ AfterBlocks(f, ms, n + 1)
              = Permute(XorBytes(AfterBlocks(f, ms, n), 0, MessageBlock(f, ms, n + 1)))
<1>1. n + 1 \in Nat /\ n <= n + 1 /\ n + 1 <= n + 1 /\ 0 \in Nat /\ 0 <= n + 1 OBVIOUS
<1>2. PICK g \in [0 .. n + 1 -> States] : Absorbing(f, ms, n + 1, g)
  BY <1>1, AfterBlocksIs
<1>3. /\ AfterBlocks(f, ms, n) = g[n] /\ AfterBlocks(f, ms, n + 1) = g[n + 1]
      /\ AfterBlocks(f, ms, 0) = g[0] /\ g[n] \in States
  BY <1>1, <1>2, AfterBlocksAt
<1>4. g[0] = ZeroState /\ \A k \in 1 .. n + 1 : g[k] = Permute(XorBytes(g[k - 1], 0, MessageBlock(f, ms, k)))
  BY <1>1, <1>2, AbsorbingIs
<1>5. n + 1 \in 1 .. n + 1 /\ (n + 1) - 1 = n OBVIOUS
<1>6. g[n + 1] = Permute(XorBytes(g[n], 0, MessageBlock(f, ms, n + 1)))
  BY <1>4, <1>5
<1> QED BY <1>3, <1>4, <1>6

\* From one squeezed state to the next.
LEMMA NextSqueeze ==
  ASSUME PermuteKeepsStates, NEW s \in States, NEW n \in Nat
  PROVE  /\ AfterSqueezes(s, n) \in States
         /\ AfterSqueezes(s, 0) = s
         /\ AfterSqueezes(s, n + 1) = Permute(AfterSqueezes(s, n))
<1>1. n + 1 \in Nat /\ n <= n + 1 /\ n + 1 <= n + 1 /\ 0 \in Nat /\ 0 <= n + 1 OBVIOUS
<1>2. PICK g \in [0 .. n + 1 -> States] : SqueezingFrom(s, n + 1, g)
  BY <1>1, AfterSqueezesIs
<1>3. /\ AfterSqueezes(s, n) = g[n] /\ AfterSqueezes(s, n + 1) = g[n + 1]
      /\ AfterSqueezes(s, 0) = g[0] /\ g[n] \in States
  BY <1>1, <1>2, AfterSqueezesAt
<1>4. g[0] = s /\ \A k \in 1 .. n + 1 : g[k] = Permute(g[k - 1])
  BY <1>1, <1>2, SqueezingIs
<1>5. n + 1 \in 1 .. n + 1 /\ (n + 1) - 1 = n OBVIOUS
<1>6. g[n + 1] = Permute(g[n])
  BY <1>4, <1>5
<1> QED BY <1>3, <1>4, <1>6

\* Bytes behind whole blocks do not change the blocks.
LEMMA BlocksKept ==
  ASSUME NEW f \in Functions202, NEW ms \in Seq(Byte), NEW u \in Seq(Byte), NEW n \in Nat, f.rate * n <= Len(ms),
         NEW k \in 1 .. n
  PROVE  MessageBlock(f, ms \o u, k) = MessageBlock(f, ms, k)
<1> DEFINE r == f.rate
           a == r * (k - 1) + 1
           e == r * k
<1>1. a \in Nat /\ e \in Nat /\ a >= 1 /\ e <= Len(ms)
  <2>1. r \in Rates BY FunctionFacts
  <2>2. r * (k - 1) \in Nat /\ r * k <= r * n /\ r * k \in Nat
    <3>1. CASE r = 72 BY <3>1
    <3>2. CASE r = 104 BY <3>2
    <3>3. CASE r = 136 BY <3>3
    <3>4. CASE r = 168 BY <3>4
    <3> QED BY <2>1, <3>1, <3>2, <3>3, <3>4 DEF Rates
  <2> DEFINE x == r * (k - 1)
             y == r * k
             z == r * n
  <2>3. x \in Nat /\ y <= z /\ y \in Nat /\ z <= Len(ms) BY <2>2
  <2> HIDE DEF x, y, z
  <2>4. x + 1 \in Nat /\ x + 1 >= 1 /\ y \in Nat /\ y <= Len(ms)
    <3>1. Len(ms) \in Nat OBVIOUS
    <3>2. z \in Int BY FunctionFacts DEF z
    <3> QED BY <2>3, <3>1, <3>2
  <2> QED BY <2>4 DEF x, y
<1> HIDE DEF a, e
<1>2. SubSeq(ms \o u, a, e) = SubSeq(ms, a, e)
  <2>1. \A i \in 1 .. e - a + 1 : a + i - 1 \in 1 .. Len(ms)
    BY <1>1
  <2>a. ms \o u \in Seq(Byte) /\ e <= Len(ms \o u)
    BY <1>1
  <2>2. \A i \in 1 .. e - a + 1 : (ms \o u)[a + i - 1] = ms[a + i - 1]
    BY <2>1, FirstPiece
  <2>3. SubSeq(ms \o u, a, e) = [i \in 1 .. e - a + 1 |-> (ms \o u)[a + i - 1]]
    BY <1>1, <2>a
  <2>4. SubSeq(ms, a, e) = [i \in 1 .. e - a + 1 |-> ms[a + i - 1]]
    BY <1>1
  <2> QED BY <2>2, <2>3, <2>4
<1> QED BY <1>2 DEF MessageBlock, a, e

\* What is appended to a message changes none of its whole blocks.
LEMMA PrefixKept ==
  ASSUME PermuteKeepsStates, NEW f \in Functions202, NEW ms \in Seq(Byte), NEW u \in Seq(Byte),
         NEW n \in Nat, f.rate * n <= Len(ms)
  PROVE  AfterBlocks(f, ms \o u, n) = AfterBlocks(f, ms, n)
<1>1. PICK g \in [0 .. n -> States] : Absorbing(f, ms, n, g) /\ AfterBlocks(f, ms, n) = g[n]
  BY AfterBlocksIs
<1>2. PICK h \in [0 .. n -> States] : Absorbing(f, ms \o u, n, h) /\ AfterBlocks(f, ms \o u, n) = h[n]
  BY AfterBlocksIs
<1>3. n <= n /\ \A k \in 1 .. n : MessageBlock(f, ms \o u, k) = MessageBlock(f, ms, k)
  BY BlocksKept
<1>4. h[n] = g[n]
  BY <1>1, <1>2, <1>3, SameBlocks
<1> QED BY <1>1, <1>2, <1>4

-----------------------------------------------------------------------------
\* FIPS 202 on bit strings.

\* The bits that follow the message are the domain byte.
LEMMA SuffixBits ==
  ASSUME NEW f \in Functions202, NEW e \in Bits8
  PROVE  /\ Len(Suffix(f)) \in {2, 4}
         /\ e \in f.domain <=> \/ e < Len(Suffix(f)) /\ Suffix(f)[1 + e] = 1
                               \/ e = Len(Suffix(f))
<1>1. \/ f.digest = 0 /\ f.domain = 0 .. 4
      \/ f.digest # 0 /\ f.domain = {1, 2}
  BY DEF Functions202, Function, AnyLength, SHAKE128, SHAKE256, SHA3_256, SHA3_384, SHA3_512
<1>2. CASE f.digest = 0 /\ f.domain = 0 .. 4
  <2>1. Suffix(f) = <<1, 1, 1, 1>> /\ Len(<<1, 1, 1, 1>>) = 4 BY <1>2 DEF Suffix, AnyLength
  <2>2. \A i \in 1 .. 4 : <<1, 1, 1, 1>>[i] = 1 OBVIOUS
  <2>3. e < 4 => 1 + e \in 1 .. 4 BY DEF Bits8
  <2> QED BY <1>2, <2>1, <2>2, <2>3 DEF Bits8
<1>3. CASE f.digest # 0 /\ f.domain = {1, 2}
  <2>1. Suffix(f) = <<0, 1>> /\ Len(<<0, 1>>) = 2 BY <1>3 DEF Suffix, AnyLength
  <2>2. <<0, 1>>[1] = 0 /\ <<0, 1>>[2] = 1 OBVIOUS
  <2>3. e < 2 <=> e = 0 \/ e = 1 BY DEF Bits8
  <2> QED BY <1>3, <2>1, <2>2, <2>3 DEF Bits8
<1> QED BY <1>1, <1>2, <1>3

\* The message and its padding fill one block more than the message.
LEMMA PaddedBlocksIs ==
  ASSUME NEW f \in Functions202, NEW ms \in Seq(Byte)
  PROVE  PaddedBlocks(f, ms) = (Len(ms) \div f.rate) + 1
<1> DEFINE n == Len(ms)
           s == Len(Suffix(f))
           r == f.rate
<1>1. n \in Nat /\ r \in Rates BY FunctionFacts
<1>2. s \in {2, 4}
  <2>1. 0 \in Bits8 BY DEF Bits8
  <2> QED BY <2>1, SuffixBits
<1>3. PaddedBlocks(f, ms) = (8 * n + s + 2 + 8 * r - 1) \div (8 * r) BY DEF PaddedBlocks
<1> HIDE DEF n, s, r
<1>4. (8 * n + s + 2 + 8 * r - 1) \div (8 * r) = (n \div r) + 1
  <2>1. CASE r = 72 BY <1>1, <1>2, <2>1
  <2>2. CASE r = 104 BY <1>1, <1>2, <2>2
  <2>3. CASE r = 136 BY <1>1, <1>2, <2>3
  <2>4. CASE r = 168 BY <1>1, <1>2, <2>4
  <2> QED BY <1>1, <2>1, <2>2, <2>3, <2>4 DEF Rates
<1> QED BY <1>3, <1>4 DEF n, r

\* Whether bit e of byte p of the padded message is one.
LEMMA PaddedBitIs ==
  ASSUME NEW f \in Functions202, NEW ms \in Seq(Byte), NEW p \in Nat, NEW e \in Bits8
  PROVE  PaddedBit(f, ms, 8 * p + e) <=>
           IF p < Len(ms) THEN e \in ms[1 + p]
           ELSE \/ p = Len(ms) /\ e \in f.domain
                \/ e = 7 /\ p = f.rate * PaddedBlocks(f, ms) - 1
<1> DEFINE n == 8 * p + e
           L == Len(ms)
           s == Len(Suffix(f))
           t == f.rate * PaddedBlocks(f, ms)
           z == 8 * f.rate * PaddedBlocks(f, ms)
<1>1. L \in Nat /\ s \in {2, 4} /\ e \in 0 .. 7 BY SuffixBits DEF Bits8
<1>2. t \in Int /\ z = 8 * t
  <2>1. f.rate \in Rates /\ f.rate \in Nat BY FunctionFacts
  <2>2. Len(ms) \div f.rate \in Nat BY <1>1, <2>1, Divided
  <2>3. PaddedBlocks(f, ms) \in Nat BY <2>2, PaddedBlocksIs
  <2> QED BY <2>1, <2>3
<1>3. PaddedBit(f, ms, n) <=> IF n < 8 * L THEN n % 8 \in ms[1 + (n \div 8)]
                              ELSE IF n < 8 * L + s THEN Suffix(f)[1 + n - 8 * L] = 1
                              ELSE n = 8 * L + s \/ n = z - 1
  BY Zenon DEF PaddedBit
<1>4. e \in f.domain <=> (e < s /\ Suffix(f)[1 + e] = 1) \/ e = s BY SuffixBits
<1>5. n % 8 = e /\ n \div 8 = p /\ (n < 8 * L <=> p < L) BY <1>1
<1>6. CASE p < L BY <1>3, <1>5, <1>6
<1>7. CASE p = L
  <2>1. ~(n < 8 * L) /\ 1 + n - 8 * L = 1 + e /\ (n < 8 * L + s <=> e < s) /\ (n = 8 * L + s <=> e = s)
    BY <1>1, <1>7
  <2>2. n = z - 1 <=> e = 7 /\ p = t - 1 BY <1>1, <1>2
  <2> HIDE DEF n, L, s, t, z
  <2>3. e < s => e # 7 BY <1>1
  <2>4. PaddedBit(f, ms, n) <=> (e < s /\ Suffix(f)[1 + e] = 1) \/ (~(e < s) /\ (e = s \/ (e = 7 /\ p = t - 1)))
    BY <1>3, <2>1, <2>2, Zenon
  <2>5. ~(p < L) BY <1>1, <1>7
  <2>6. e = s => ~(e < s) BY <1>1
  <2>7. PaddedBit(f, ms, n) <=> (p = L /\ e \in f.domain) \/ (e = 7 /\ p = t - 1)
    BY <1>4, <1>7, <2>3, <2>4, <2>6, Zenon
  <2> QED BY <2>5, <2>7 DEF n, L, t
<1>8. CASE p > L
  <2>1. ~(n < 8 * L) /\ ~(n < 8 * L + s) /\ n # 8 * L + s
    <3> HIDE DEF L, s
    <3> QED BY <1>1, <1>8
  <2>2. n = z - 1 <=> e = 7 /\ p = t - 1 BY <1>1, <1>2
  <2>3. ~(p < L) /\ p # L BY <1>1, <1>8
  <2> HIDE DEF n, L, s, t, z
  <2>4. PaddedBit(f, ms, n) <=> e = 7 /\ p = t - 1
    BY <1>3, <2>1, <2>2, Zenon
  <2> QED BY <2>3, <2>4 DEF n, L, t
<1> QED BY <1>1, <1>6, <1>7, <1>8

\* A block of the padded message xored into a state, as the standard has it.
LEMMA PaddedXor ==
  ASSUME NEW f \in Functions202, NEW ms \in Seq(Byte), NEW s \in States, NEW k \in Nat
  PROVE  /\ XorWords(s, PaddedBlock(f, ms, k)) \in States
         /\ \A l \in Lanes, b \in Bits64 :
              b \in XorWords(s, PaddedBlock(f, ms, k))[l] <=>
                ~(b \in s[l] <=> /\ ByteOf(l, b) < f.rate
                                 /\ PaddedBit(f, ms, 8 * (f.rate * k + ByteOf(l, b)) + (b % 8)))
<1> DEFINE x == PaddedBlock(f, ms, k)
           y == XorWords(s, x)
<1>1. \A l \in Lanes : x[l] = {b \in Bits64 : /\ 8 * l < f.rate
                                              /\ PaddedBit(f, ms, 8 * f.rate * k + 64 * l + b)}
  BY Zenon DEF PaddedBlock
<1>2. DOMAIN s = Lanes /\ \A l \in Lanes : s[l] \subseteq Bits64
  BY DEF States
<1>3. y = [l \in Lanes |-> s[l] ++ x[l]]
  BY <1>2, Zenon DEF XorWords
<1>4. \A l \in Lanes : x[l] \subseteq Bits64
  BY <1>1
<1>5. y \in States
  <2> HIDE DEF x
  <2>1. \A l \in Lanes : s[l] ++ x[l] \in SUBSET Bits64 BY <1>2, <1>4 DEF ++
  <2> QED BY <1>3, <2>1 DEF States
<1>6. ASSUME NEW l \in Lanes, NEW b \in Bits64
      PROVE  b \in y[l] <=>
               ~(b \in s[l] <=> /\ ByteOf(l, b) < f.rate
                                /\ PaddedBit(f, ms, 8 * (f.rate * k + ByteOf(l, b)) + (b % 8)))
  <2>1. y[l] = s[l] ++ x[l] BY <1>3
  <2>2. b \in x[l] <=> 8 * l < f.rate /\ PaddedBit(f, ms, 8 * f.rate * k + 64 * l + b)
    BY <1>1
  <2>3. l \in Nat /\ b \in Nat BY DEF Lanes, Bits64
  <2>4. f.rate \in Rates /\ f.rate \in Nat /\ f.rate % 8 = 0 BY FunctionFacts
  <2> DEFINE z == f.rate * k
  <2>5. z \in Nat /\ 8 * f.rate * k = 8 * z BY <2>4
  <2>6. 8 * f.rate * k + 64 * l + b = 8 * (z + ByteOf(l, b)) + (b % 8)
    <3> HIDE DEF z
    <3>1. b = 8 * (b \div 8) + (b % 8) BY <2>3
    <3>2. b \div 8 \in Nat /\ b % 8 \in Nat BY <2>3
    <3>3. ByteOf(l, b) = 8 * l + (b \div 8) BY DEF ByteOf
    <3> QED BY <2>3, <2>5, <3>1, <3>2, <3>3
  <2>7. 8 * l < f.rate <=> ByteOf(l, b) < f.rate
    <3>1. b \div 8 \in 0 .. 7 BY DEF Bits64
    <3> QED BY <2>3, <2>4, <3>1 DEF ByteOf, Rates
  <2>8. b \in s[l] ++ x[l] <=> ~(b \in s[l] <=> b \in x[l])
    BY DEF ++
  <2> HIDE DEF x, y
  <2> QED BY <2>1, <2>2, <2>6, <2>7, <2>8
<1> QED BY <1>5, <1>6

\* A block of message bytes.
LEMMA WholeBlock ==
  ASSUME NEW f \in Functions202, NEW ms \in Seq(Byte), NEW s \in States,
         NEW k \in Nat, k < Len(ms) \div f.rate
  PROVE  XorWords(s, PaddedBlock(f, ms, k)) = XorBytes(s, 0, MessageBlock(f, ms, k + 1))
<1> DEFINE u == MessageBlock(f, ms, k + 1)
           r == f.rate
           z == r * k
<1>1. r \in Rates /\ r \in Nat /\ r >= 72 /\ Len(ms) \in Nat BY FunctionFacts
<1>2. z \in Nat /\ z + r <= Len(ms) /\ r * (k + 1) = z + r
  <2>1. Len(ms) \div r \in Nat /\ Len(ms) % r \in 0 .. r - 1
        /\ Len(ms) = r * (Len(ms) \div r) + (Len(ms) % r)
    BY <1>1, Divided
  <2>2. \A q \in Nat : k < q => r * k + r <= r * q
    <3>1. CASE r = 72 BY <3>1
    <3>2. CASE r = 104 BY <3>2
    <3>3. CASE r = 136 BY <3>3
    <3>4. CASE r = 168 BY <3>4
    <3> QED BY <1>1, <3>1, <3>2, <3>3, <3>4 DEF Rates
  <2>3. r * k + r <= r * (Len(ms) \div r) BY <2>1, <2>2
  <2>4. r * (Len(ms) \div r) \in Nat /\ r * k \in Nat
    <3> HIDE DEF r
    <3>1. \A a, b \in Nat : a * b \in Nat OBVIOUS
    <3> QED BY <1>1, <2>1, <3>1
  <2>5. r * (k + 1) = r * k + r BY <1>1
  <2> HIDE DEF r
  <2> QED BY <1>1, <2>1, <2>3, <2>4, <2>5
<1>3. u = SubSeq(ms, z + 1, z + r)
  <2>1. r * ((k + 1) - 1) + 1 = z + 1 OBVIOUS
  <2> QED BY <1>2, <2>1 DEF MessageBlock
<1> HIDE DEF z
<1>4. u \in Seq(Byte) /\ Len(u) = r /\ \A i \in 1 .. r : u[i] = ms[z + i]
  <2> HIDE DEF u, r
  <2>1. u \in Seq(Byte) BY <1>1, <1>2, <1>3
  <2>2. Len(u) = r BY <1>1, <1>2, <1>3
  <2>3. \A i \in 1 .. r : u[i] = ms[(z + 1) + i - 1] BY <1>1, <1>2, <1>3
  <2>4. \A i \in 1 .. r : (z + 1) + i - 1 = z + i BY <1>1, <1>2
  <2> QED BY <2>1, <2>2, <2>3, <2>4
<1> HIDE DEF u
<1>5. XorWords(s, PaddedBlock(f, ms, k)) \in States /\ XorBytes(s, 0, u) \in States
  BY PaddedXor, XorBytesType
<1>6. ASSUME NEW l \in Lanes, NEW b \in Bits64
      PROVE  b \in XorWords(s, PaddedBlock(f, ms, k))[l] <=> b \in XorBytes(s, 0, u)[l]
  <2> DEFINE p == ByteOf(l, b)
             e == b % 8
  <2>1. p \in Nat /\ e \in Bits8 BY BitNumbers
  <2>2. b \in XorWords(s, PaddedBlock(f, ms, k))[l] <=>
          ~(b \in s[l] <=> p < r /\ PaddedBit(f, ms, 8 * (z + p) + e))
    BY PaddedXor DEF z
  <2>3. b \in XorBytes(s, 0, u)[l] <=> ~(b \in s[l] <=> Has(u, 0, p, e))
    BY <1>4, XorBytesBit
  <2> HIDE DEF p, e
  <2>4. p < r => (PaddedBit(f, ms, 8 * (z + p) + e) <=> e \in ms[1 + (z + p)])
    <3>1. z + p \in Nat /\ (p < r => z + p < Len(ms)) BY <1>1, <1>2, <2>1
    <3> QED BY <2>1, <3>1, PaddedBitIs
  <2>5. Has(u, 0, p, e) <=> p < r /\ e \in u[p + 1]
    BY <1>1, <1>4, <2>1 DEF Has
  <2>6. p < r => u[p + 1] = ms[1 + (z + p)]
    <3>1. p < r => p + 1 \in 1 .. r BY <1>1, <2>1
    <3>2. z + (p + 1) = 1 + (z + p) BY <1>2, <2>1
    <3> QED BY <1>4, <3>1, <3>2
  <2> QED BY <2>2, <2>3, <2>4, <2>5, <2>6
<1> QED BY <1>5, <1>6, SameBits DEF u

\* The bytes behind the whole blocks, and with the padding.
Rest(f, ms)       == LastBytes(ms, Len(ms) % f.rate)
PaddedRest(f, ms) == Rest(f, ms) \o Sponges!Padding(f, f.rate - (Len(ms) % f.rate))

\* The length of the rest, and of the whole blocks.
LEMMA RestType ==
  ASSUME NEW f \in Functions202, NEW ms \in Seq(Byte)
  PROVE  /\ Len(ms) % f.rate \in 0 .. f.rate - 1 /\ Len(ms) \div f.rate \in Nat
         /\ Len(ms) = f.rate * (Len(ms) \div f.rate) + (Len(ms) % f.rate)
         /\ Len(ms) % f.rate <= Len(ms)
         /\ Rest(f, ms) \in Seq(Byte) /\ Len(Rest(f, ms)) = Len(ms) % f.rate
         /\ PaddedRest(f, ms) \in Seq(Byte)
<1> DEFINE r == f.rate
           n == Len(ms)
           d == n % r
<1>1. r \in Rates /\ r \in Nat /\ n \in Nat BY FunctionFacts
<1>2. n \div r \in Nat /\ d \in 0 .. r - 1 /\ n = r * (n \div r) + d BY <1>1, Divided
<1>3. d <= n
  <2>1. r * (n \div r) \in Nat
    <3> HIDE DEF r, n
    <3>1. \A a, b \in Nat : a * b \in Nat OBVIOUS
    <3> QED BY <1>1, <1>2, <3>1
  <2> QED BY <1>1, <1>2, <2>1
<1>4. Rest(f, ms) \in Seq(Byte) /\ Len(Rest(f, ms)) = d
  <2>1. d \in Nat BY <1>2
  <2> QED BY <1>3, <2>1, LastBytesType DEF Rest
<1>5. Sponges!Padding(f, r - d) \in Seq(Byte)
  <2>1. r - d \in Nat
    <3> HIDE DEF r, d
    <3> QED BY <1>1, <1>2
  <2> QED BY <2>1, PaddingType
<1>6. PaddedRest(f, ms) \in Seq(Byte)
  <2>1. \A u, v \in Seq(Byte) : u \o v \in Seq(Byte) OBVIOUS
  <2> QED BY <1>4, <1>5, <2>1, Zenon DEF PaddedRest
<1> QED BY <1>2, <1>3, <1>4, <1>6

\* The last block of the padded message.
LEMMA EndBlock ==
  ASSUME NEW f \in Functions202, NEW ms \in Seq(Byte), NEW s \in States
  PROVE  XorWords(s, PaddedBlock(f, ms, Len(ms) \div f.rate)) = XorBytes(s, 0, PaddedRest(f, ms))
<1> DEFINE r == f.rate
           n == Len(ms)
           q == n \div r
           d == n % r
           z == r * q
           u == Rest(f, ms)
           pad == Sponges!Padding(f, r - d)
           x == XorWords(s, PaddedBlock(f, ms, q))
           y == XorBytes(s, 0, PaddedRest(f, ms))
<1>1. r \in Rates /\ r \in Nat /\ r >= 72 /\ n \in Nat /\ 7 \notin f.domain BY FunctionFacts
<1>a. q \in Nat /\ d \in 0 .. r - 1 /\ n = z + d /\ d <= n BY RestType
<1>2. q \in Nat /\ d \in 0 .. r - 1 /\ n = z + d /\ d <= n /\ d \in Nat /\ d < r
  <2> HIDE DEF q, d, n, z, r
  <2> QED BY <1>1, <1>a
<1>3. z \in Nat
  <2> HIDE DEF q, r
  <2>1. \A a, b \in Nat : a * b \in Nat OBVIOUS
  <2> QED BY <1>1, <1>2, <2>1
<1>4. r * PaddedBlocks(f, ms) - 1 = z + r - 1
  <2>1. PaddedBlocks(f, ms) = q + 1 BY PaddedBlocksIs
  <2>2. r * (q + 1) = z + r
    <3> HIDE DEF q
    <3>1. CASE r = 72 BY <1>2, <3>1
    <3>2. CASE r = 104 BY <1>2, <3>2
    <3>3. CASE r = 136 BY <1>2, <3>3
    <3>4. CASE r = 168 BY <1>2, <3>4
    <3> QED BY <1>1, <3>1, <3>2, <3>3, <3>4 DEF Rates
  <2> HIDE DEF q, r
  <2> QED BY <1>1, <1>3, <2>1, <2>2
<1>5. u \in Seq(Byte) /\ Len(u) = d /\ \A i \in 1 .. d : u[i] = ms[n - d + i]
  <2>1. \A i \in 1 .. d : LastBytes(ms, d)[i] = ms[n - d + i]
    <3>1. d \in Nat /\ d <= Len(ms) BY <1>2
    <3> HIDE DEF d
    <3> QED BY <3>1, LastBytesAt DEF n
  <2> QED BY <2>1, RestType DEF Rest
<1>6. pad \in Seq(Byte) /\ PaddedRest(f, ms) \in Seq(Byte) /\ PaddedRest(f, ms) = u \o pad
  <2>1. r - d \in Nat
    <3> HIDE DEF r, d
    <3> QED BY <1>1, <1>2
  <2> QED BY <2>1, PaddingType, RestType DEF PaddedRest
<1>7. x \in States /\ y \in States
  BY <1>2, PaddedXor, XorBytesType
<1>8. ASSUME NEW l \in Lanes, NEW b \in Bits64 PROVE b \in x[l] <=> b \in y[l]
  <2> DEFINE p == ByteOf(l, b)
             e == b % 8
  <2>1. p \in Nat /\ e \in Bits8 BY BitNumbers
  <2>2. b \in x[l] <=> ~(b \in s[l] <=> p < r /\ PaddedBit(f, ms, 8 * (z + p) + e))
    BY <1>2, PaddedXor
  <2>3. b \in y[l] <=> ~(b \in s[l] <=> Has(PaddedRest(f, ms), 0, p, e))
    BY <1>6, XorBytesBit
  <2> HIDE DEF p, e, x, y, pad, u
  <2>4. Has(PaddedRest(f, ms), 0, p, e) <=> Has(u, 0, p, e) \/ Has(pad, d, p, e)
    <3>1. 0 \in Nat /\ 0 + Len(u) = d BY <1>2, <1>5
    <3> HIDE DEF d
    <3>2. Has(u \o pad, 0, p, e) <=> Has(u, 0, p, e) \/ Has(pad, 0 + Len(u), p, e)
      BY <1>5, <1>6, <2>1, <3>1, HasAppend
    <3> QED BY <1>6, <3>1, <3>2
  <2>5. Has(pad, d, p, e) <=> ~((p = d /\ e \in f.domain) <=> (p = r - 1 /\ e = 7))
    <3>1. Has(pad, d, p, e) <=> ~(Has(<<f.domain>>, d, p, e) <=> Has(<<{7}>>, r - 1, p, e))
      <4>1. d \in Nat /\ d < f.rate BY <1>2
      <4> HIDE DEF d
      <4> QED BY <2>1, <4>1, PaddingBits DEF pad
    <3>2. Has(<<f.domain>>, d, p, e) <=> p = d /\ e \in f.domain
      BY <1>2, <2>1 DEF Has
    <3>3. Has(<<{7}>>, r - 1, p, e) <=> p = r - 1 /\ e = 7
      <4> HIDE DEF r
      <4> QED BY <1>1, <2>1 DEF Has
    <3> QED BY <3>1, <3>2, <3>3
  <2>6. Has(u, 0, p, e) <=> p < d /\ e \in u[p + 1]
    BY <1>2, <1>5, <2>1 DEF Has
  <2>7. p < d => u[p + 1] = ms[1 + (z + p)]
    <3>1. p < d => p + 1 \in 1 .. d BY <1>2, <2>1
    <3>2. n - d + (p + 1) = 1 + (z + p)
      <4> HIDE DEF n, d, z
      <4> QED BY <1>1, <1>2, <1>3, <2>1
    <3> QED BY <1>5, <3>1, <3>2
  <2>8. PaddedBit(f, ms, 8 * (z + p) + e) <=>
          IF p < d THEN e \in ms[1 + (z + p)]
          ELSE (p = d /\ e \in f.domain) \/ (e = 7 /\ p = r - 1)
    <3>1. z + p \in Nat BY <1>3, <2>1
    <3>2. PaddedBit(f, ms, 8 * (z + p) + e) <=>
            IF z + p < n THEN e \in ms[1 + (z + p)]
            ELSE (z + p = n /\ e \in f.domain) \/ (e = 7 /\ z + p = r * PaddedBlocks(f, ms) - 1)
      BY <2>1, <3>1, PaddedBitIs
    <3>3. (z + p < n <=> p < d) /\ (z + p = n <=> p = d) /\ (z + p = z + r - 1 <=> p = r - 1)
      <4> HIDE DEF n, d, z, r
      <4> QED BY <1>1, <1>2, <1>3, <2>1
    <3> HIDE DEF n, d, z, r
    <3> QED BY <1>4, <3>2, <3>3
  <2>9. (p < d => p < r /\ p # d) /\ (p = d => p < r) /\ (p = r - 1 => p < r)
    <3> HIDE DEF n, d, z, r
    <3> QED BY <1>1, <1>2, <2>1
  <2>10. p < d => p # r - 1
    <3> HIDE DEF n, d, z, r
    <3> QED BY <1>1, <1>2, <2>1
  <2>11. e \in f.domain => e # 7 BY <1>1
  <2> HIDE DEF n, d, z, r
  <2>12. CASE p < d
    BY <2>2, <2>3, <2>4, <2>5, <2>6, <2>7, <2>8, <2>9, <2>10, <2>12
  <2>13. CASE ~(p < d)
    <3>1. Has(PaddedRest(f, ms), 0, p, e) <=> (p = d /\ e \in f.domain) \/ (e = 7 /\ p = r - 1)
      BY <2>4, <2>5, <2>6, <2>11, <2>13, Zenon
    <3>2. PaddedBit(f, ms, 8 * (z + p) + e) <=> (p = d /\ e \in f.domain) \/ (e = 7 /\ p = r - 1)
      BY <2>8, <2>13, Zenon
    <3> QED BY <2>2, <2>3, <2>9, <3>1, <3>2, Zenon
  <2> QED BY <2>12, <2>13
<1> QED BY <1>7, <1>8, SameBits

\* The state with the last block of the message, not yet permuted.
Final(f, ms) == XorBytes(AfterBlocks(f, ms, Len(ms) \div f.rate), 0, PaddedRest(f, ms))

\* It is a state.
LEMMA FinalType ==
  ASSUME PermuteKeepsStates, NEW f \in Functions202, NEW ms \in Seq(Byte)
  PROVE  Final(f, ms) \in States
<1>1. Len(ms) \div f.rate \in Nat BY RestType
<1>2. AfterBlocks(f, ms, Len(ms) \div f.rate) \in States BY <1>1, NextBlock
<1> QED BY <1>2, XorBytesType DEF Final

\* The standard absorbs the same blocks.
LEMMA AbsorbedIs ==
  ASSUME PermuteKeepsStates, NEW f \in Functions202, NEW ms \in Seq(Byte)
  PROVE  Absorbed(f, ms) = Permute(Final(f, ms))
<1> DEFINE q == Len(ms) \div f.rate
           n == PaddedBlocks(f, ms)
           next(h, k) == Permute(XorWords(h[k - 1], PaddedBlock(f, ms, k - 1)))
           body(h) == [k \in 0 .. n |-> IF k = 0 THEN ZeroState ELSE next(h, k)]
           h == [k \in 0 .. n |-> IF k = n THEN Permute(Final(f, ms)) ELSE AfterBlocks(f, ms, k)]
           g == CHOOSE x : x = body(x)
<1>1. q \in Nat /\ n = q + 1 BY RestType, PaddedBlocksIs
<1> HIDE DEF q, n
<1>2. h[0] = ZeroState
  <2>1. 0 \in Nat /\ 0 # n /\ 0 \in 0 .. n BY <1>1
  <2> QED BY <2>1, NextBlock
<1>3. ASSUME NEW k \in 1 .. n PROVE h[k] = next(h, k)
  <2>1. k - 1 \in Nat /\ k - 1 # n /\ k - 1 \in 0 .. n /\ (k - 1) + 1 = k /\ k \in 0 .. n BY <1>1
  <2>2. h[k - 1] = AfterBlocks(f, ms, k - 1) BY <2>1
  <2>3. h[k] = IF k = n THEN Permute(Final(f, ms)) ELSE AfterBlocks(f, ms, k) BY <2>1
  <2> HIDE DEF h
  <2>4. AfterBlocks(f, ms, k - 1) \in States
        /\ AfterBlocks(f, ms, (k - 1) + 1)
             = Permute(XorBytes(AfterBlocks(f, ms, k - 1), 0, MessageBlock(f, ms, (k - 1) + 1)))
    BY <2>1, NextBlock
  <2>5. CASE k = n
    <3>1. k - 1 = q BY <1>1, <2>5
    <3>2. XorWords(AfterBlocks(f, ms, k - 1), PaddedBlock(f, ms, q)) = XorBytes(AfterBlocks(f, ms, k - 1), 0, PaddedRest(f, ms))
      BY <2>4, EndBlock DEF q
    <3> QED BY <2>2, <2>3, <2>5, <3>1, <3>2 DEF Final, q
  <2>6. CASE k # n
    <3>1. k - 1 < Len(ms) \div f.rate BY <1>1, <2>6 DEF q
    <3>2. XorWords(AfterBlocks(f, ms, k - 1), PaddedBlock(f, ms, k - 1))
            = XorBytes(AfterBlocks(f, ms, k - 1), 0, MessageBlock(f, ms, (k - 1) + 1))
      BY <2>1, <2>4, <3>1, WholeBlock
    <3> QED BY <2>1, <2>2, <2>3, <2>4, <2>6, <3>2
  <2> QED BY <2>5, <2>6
<1>4. h = [k \in 0 .. n |-> h[k]] OBVIOUS
<1>5. h[n] = Permute(Final(f, ms)) BY <1>1
<1> HIDE DEF h, next
<1>6. h = body(h)
  <2>1. \A k \in 0 .. n : h[k] = IF k = 0 THEN ZeroState ELSE next(h, k) BY <1>2, <1>3
  <2> QED BY <1>4, <2>1
<1>7. g = body(g) BY <1>6
<1>8. Absorbed(f, ms) = g[n] BY DEF Absorbed, next, n
<1> HIDE DEF g
<1>9. g[0] = ZeroState /\ \A k \in 1 .. n : g[k] = next(g, k)
  <2>1. 0 \in 0 .. n /\ \A k \in 1 .. n : k \in 0 .. n /\ k # 0 BY <1>1
  <2> QED BY <1>7, <2>1
<1> DEFINE T == {k \in 0 .. n : g[k] = h[k]}
<1>10. 0 \in T
  <2>1. 0 \in 0 .. n BY <1>1
  <2> QED BY <1>2, <1>9, <2>1
<1>11. ASSUME NEW k \in 1 .. n, k - 1 \in T PROVE k \in T
  <2>1. g[k - 1] = h[k - 1] /\ k \in 0 .. n BY <1>11
  <2>2. next(g, k) = next(h, k) BY <2>1 DEF next
  <2> QED BY <1>3, <1>9, <2>1, <2>2
<1> HIDE DEF T
<1>12. n \in Nat BY <1>1
<1>13. \A k \in 0 .. n : k \in T BY <1>10, <1>11, <1>12, BoundedInduction, Zenon
<1>14. n \in 0 .. n BY <1>12
<1>15. g[n] = h[n] BY <1>13, <1>14 DEF T
<1> QED BY <1>5, <1>8, <1>15

\* The functions that take the whole message, on the operators of this module.
LEMMA SameInBlocks ==
  /\ \A s, at, u : OneGo!XorBytes(s, at, u) = XorBytes(s, at, u)
  /\ \A s, from, n : OneGo!BytesAt(s, from, n) = BytesAt(s, from, n)
<1>1. ASSUME NEW s, NEW at, NEW u PROVE OneGo!XorBytes(s, at, u) = XorBytes(s, at, u)
  BY DEF XorBytes, OneGo!XorBytes, Lanes, OneGo!Lanes, Bits64, OneGo!Bits64, ++, OneGo!++
<1>2. ASSUME NEW s, NEW from, NEW n PROVE OneGo!BytesAt(s, from, n) = BytesAt(s, from, n)
  BY DEF BytesAt, OneGo!BytesAt, ByteAt, OneGo!ByteAt, Bits8, OneGo!Bits8
<1> QED BY <1>1, <1>2

\* The last block keccak_absorb builds in t is the rest of the message with the padding.
LEMMA LastBlockIs ==
  ASSUME NEW f \in Functions202, NEW u \in Seq(Byte), Len(u) < f.rate
  PROVE  OneGo!LastBlock(f, u) = u \o Sponges!Padding(f, f.rate - Len(u))
<1> DEFINE r == f.rate
           d == Len(u)
           zeros == [i \in 1 .. r - d - 1 |-> {}]
           t == u \o <<f.domain>> \o zeros
           pad == Sponges!Padding(f, r - d)
<1>1. r \in Nat /\ d \in Nat /\ d < r /\ 7 \notin f.domain /\ f.domain \in Byte BY FunctionFacts
<1> HIDE DEF r, d
<1>2. {} \in Byte BY DEF Byte
<1>3. zeros \in Seq(Byte) /\ Len(zeros) = r - d - 1 BY <1>1, <1>2
<1>4. u \o <<f.domain>> \in Seq(Byte) /\ Len(u \o <<f.domain>>) = d + 1 BY <1>1 DEF d
<1>5. t \in Seq(Byte) /\ Len(t) = r
  <2> HIDE DEF zeros
  <2> QED BY <1>1, <1>3, <1>4
<1>6. ASSUME NEW i \in 1 .. r
      PROVE  t[i] = IF i <= d THEN u[i] ELSE IF i = d + 1 THEN f.domain ELSE {}
  <2>1. CASE i <= d BY <1>1, <1>4, <2>1 DEF d
  <2>2. CASE i = d + 1 BY <1>1, <1>4, <2>2 DEF d
  <2>3. CASE i > d + 1
    <3> DEFINE j == i - (d + 1)
               x == u \o <<f.domain>>
    <3>1. j \in 1 .. r - d - 1 /\ Len(x) + j = i BY <1>1, <1>4, <2>3
    <3> HIDE DEF j
    <3>2. zeros[j] = {} /\ j \in 1 .. Len(zeros) BY <1>3, <3>1
    <3> HIDE DEF zeros, x
    <3>3. (x \o zeros)[Len(x) + j] = zeros[j] BY <1>3, <1>4, <3>2, SecondPiece DEF x
    <3>4. t[i] = {} BY <3>1, <3>2, <3>3 DEF x
    <3>5. ~(i <= d) /\ i # d + 1 BY <1>1, <2>3
    <3> QED BY <3>4, <3>5
  <2> HIDE DEF t
  <2>4. i \in Nat OBVIOUS
  <2> QED BY <1>1, <2>1, <2>2, <2>3, <2>4
<1>7. pad \in Seq(Byte) /\ Len(pad) = r - d
  <2>1. r - d \in Nat BY <1>1
  <2> QED BY <2>1, PaddingType
<1>8. ASSUME NEW i \in 1 .. r - d
      PROVE  pad[i] = (IF i = 1 THEN f.domain ELSE {}) \cup (IF i = r - d THEN {7} ELSE {})
  <2>1. pad[i] = (IF i = 1 THEN f.domain ELSE {}) ++ (IF i = r - d THEN {7} ELSE {})
    BY DEF Sponges!Padding, Sponges!++, ++
  <2> QED BY <1>1, <2>1 DEF ++
<1>9. OneGo!LastBlock(f, u) = [t EXCEPT ![r] = @ \cup {7}]
  BY DEF OneGo!LastBlock, r, d
<1> HIDE DEF t, pad, zeros
<1>10. t = [i \in 1 .. r |-> t[i]] BY <1>1, <1>5
<1>11. u \o pad \in Seq(Byte) /\ Len(u \o pad) = r BY <1>1, <1>7 DEF d
<1>12. u \o pad = [i \in 1 .. r |-> (u \o pad)[i]]
  <2>1. \A w \in Seq(Byte) : w = [i \in 1 .. Len(w) |-> w[i]] OBVIOUS
  <2> QED BY <1>11, <2>1, Zenon
<1>13. ASSUME NEW i \in 1 .. r PROVE [t EXCEPT ![r] = @ \cup {7}][i] = (u \o pad)[i]
  <2>1. [t EXCEPT ![r] = @ \cup {7}][i] = IF i = r THEN t[i] \cup {7} ELSE t[i]
    BY <1>10
  <2>2. CASE i <= d
    <3>1. i \in 1 .. Len(u) /\ i # r BY <1>1, <2>2 DEF d
    <3>2. (u \o pad)[i] = u[i] BY <1>7, <3>1, FirstPiece
    <3>3. t[i] = u[i] BY <1>6, <2>2
    <3> QED BY <2>1, <3>1, <3>2, <3>3
  <2>3. CASE i > d
    <3> DEFINE j == i - d
    <3>1. j \in 1 .. r - d BY <1>1, <2>3
    <3>3. d + j = i /\ (j = 1 <=> i = d + 1) /\ (j = r - d <=> i = r) /\ ~(i <= d)
      BY <1>1, <2>3
    <3> HIDE DEF j
    <3>2. (u \o pad)[d + j] = pad[j] BY <1>7, <3>1, SecondPiece DEF d
    <3>4. (u \o pad)[i] = (IF i = d + 1 THEN f.domain ELSE {}) \cup (IF i = r THEN {7} ELSE {})
      BY <1>8, <3>1, <3>2, <3>3
    <3>5. t[i] = IF i = d + 1 THEN f.domain ELSE {} BY <1>6, <3>3
    <3> QED BY <2>1, <3>4, <3>5
  <2>4. i \in Nat /\ (i <= d \/ i > d) BY <1>1
  <2> QED BY <2>2, <2>3, <2>4
<1>14. [t EXCEPT ![r] = @ \cup {7}] = [i \in 1 .. r |-> [t EXCEPT ![r] = @ \cup {7}][i]]
  BY <1>10
<1>15. [t EXCEPT ![r] = @ \cup {7}] = u \o pad BY <1>12, <1>13, <1>14
<1> QED BY <1>9, <1>15 DEF pad, r, d

\* keccak_absorb makes the same state.
LEMMA AbsorbIs ==
  ASSUME NEW f \in Functions202, NEW ms \in Seq(Byte)
  PROVE  OneGo!keccak_absorb(f, ms) = Final(f, ms)
<1> DEFINE q == Len(ms) \div f.rate
           u == SubSeq(ms, f.rate * q + 1, Len(ms))
<1>1. OneGo!keccak_absorb(f, ms) = OneGo!XorBytes(AfterBlocks(f, ms, q), 0, OneGo!LastBlock(f, u))
  BY Zenon DEF OneGo!keccak_absorb, OneGo!FullBlocks, AfterBlocks, MessageBlock, OneGo!ZeroState, ZeroState,
       XorBytes, OneGo!XorBytes, Lanes, OneGo!Lanes, Bits64, OneGo!Bits64, ++, OneGo!++
<1>2. u = Rest(f, ms)
  <2> DEFINE d == Len(ms) % f.rate
             z == f.rate * q
  <2>1. Len(ms) = z + d /\ d \in 0 .. f.rate - 1 /\ q \in Nat /\ f.rate \in Nat /\ Len(ms) \in Nat
    BY RestType, FunctionFacts
  <2>2. z \in Nat
    <3> HIDE DEF q
    <3>1. \A a, b \in Nat : a * b \in Nat OBVIOUS
    <3> QED BY <2>1, <3>1
  <2> HIDE DEF d, z
  <2>3. z + 1 = (Len(ms) - d) + 1 BY <2>1, <2>2
  <2>4. Rest(f, ms) = SubSeq(ms, Len(ms) - d + 1, Len(ms)) BY DEF Rest, LastBytes, d
  <2> QED BY <2>3, <2>4 DEF z
<1>3. OneGo!LastBlock(f, u) = PaddedRest(f, ms)
  <2>1. u \in Seq(Byte) /\ Len(u) = Len(ms) % f.rate /\ Len(u) < f.rate
    <3>1. Rest(f, ms) \in Seq(Byte) /\ Len(Rest(f, ms)) = Len(ms) % f.rate
          /\ Len(ms) % f.rate \in 0 .. f.rate - 1 /\ f.rate \in Nat
      BY RestType, FunctionFacts
    <3> HIDE DEF u
    <3> QED BY <1>2, <3>1
  <2> HIDE DEF u
  <2> QED BY <1>2, <2>1, LastBlockIs DEF PaddedRest
<1> QED BY <1>1, <1>3, SameInBlocks DEF Final

-----------------------------------------------------------------------------
\* The bytes squeezed from a state.

\* The first n bytes behind k blocks of what s gives.
Stream(r, s, k, n) == [i \in 1 .. n |-> ByteAt(AfterSqueezes(s, (k + 1) + ((i - 1) \div r)), (i - 1) % r)]

\* A sequence of n bytes.
LEMMA StreamType ==
  ASSUME NEW r, NEW s, NEW k \in Nat, NEW n \in Nat
  PROVE  Stream(r, s, k, n) \in Seq(Byte) /\ Len(Stream(r, s, k, n)) = n
<1> DEFINE b(i) == ByteAt(AfterSqueezes(s, (k + 1) + ((i - 1) \div r)), (i - 1) % r)
<1>1. \A i : b(i) \in Byte BY DEF ByteAt, Byte
<1> HIDE DEF b
<1>2. Stream(r, s, k, n) = [i \in 1 .. n |-> b(i)] BY Zenon DEF Stream, b
<1>3. Stream(r, s, k, n) \in [1 .. n -> Byte] BY <1>1, <1>2
<1> QED BY <1>3

\* Byte j of block q is the one of the state that the block is taken from.
LEMMA StreamAt ==
  ASSUME NEW r \in Rates, NEW s, NEW k \in Nat, NEW n \in Nat, NEW q \in Nat, NEW j \in 0 .. r - 1,
         r * q + j + 1 <= n
  PROVE  Stream(r, s, k, n)[r * q + j + 1] = ByteAt(AfterSqueezes(s, (k + 1) + q), j)
<1> DEFINE i == r * q + j + 1
<1>1. (r * q + j) \div r = q /\ (r * q + j) % r = j BY Quotient
<1>2. r * q \in Nat
  <2>1. \A a, b \in Nat : a * b \in Nat OBVIOUS
  <2>2. r \in Nat BY DEF Rates
  <2> QED BY <2>1, <2>2
<1>3. i \in 1 .. n /\ i - 1 = r * q + j
  <2> DEFINE z == r * q
  <2>1. z \in Nat /\ j \in Nat BY <1>2
  <2>2. z + j + 1 <= n OBVIOUS
  <2> HIDE DEF z
  <2>3. z + j + 1 \in 1 .. n /\ (z + j + 1) - 1 = z + j BY <2>1, <2>2
  <2> QED BY <2>3 DEF z
<1> HIDE DEF i
<1>4. Stream(r, s, k, n)[i] = ByteAt(AfterSqueezes(s, (k + 1) + ((i - 1) \div r)), (i - 1) % r)
  BY <1>3, Zenon DEF Stream
<1> QED BY <1>1, <1>3, <1>4 DEF i

\* A longer stream begins with a shorter one.
LEMMA StreamPrefix ==
  ASSUME NEW r, NEW s, NEW k \in Nat, NEW n \in Nat, NEW l \in Nat, n <= l
  PROVE  SubSeq(Stream(r, s, k, l), 1, n) = Stream(r, s, k, n)
<1> DEFINE u == Stream(r, s, k, l)
<1>1. u \in Seq(Byte) /\ Len(u) = l BY StreamType
<1>2. ASSUME NEW i \in 1 .. n PROVE u[i] = Stream(r, s, k, n)[i]
  <2>1. i \in 1 .. l OBVIOUS
  <2> QED BY <2>1, Zenon DEF Stream
<1>3. Stream(r, s, k, n) = [i \in 1 .. n |-> Stream(r, s, k, n)[i]] BY DEF Stream
<1> HIDE DEF u
<1>4. SubSeq(u, 1, n) = [i \in 1 .. n |-> u[i]] BY <1>1
<1> QED BY <1>2, <1>3, <1>4 DEF u

\* Sequences of bytes that agree.
LEMMA SameBytes ==
  ASSUME NEW u \in Seq(Byte), NEW v \in Seq(Byte), Len(u) = Len(v),
         \A i \in 1 .. Len(u) : u[i] = v[i]
  PROVE  u = v
<1>1. \A w \in Seq(Byte) : w = [i \in 1 .. Len(w) |-> w[i]] OBVIOUS
<1>2. u = [i \in 1 .. Len(u) |-> u[i]] /\ v = [i \in 1 .. Len(u) |-> v[i]] BY <1>1
<1> QED BY <1>2

\* n bytes are q blocks and a bytes, and c more do not fill another block.
Room(r, n, q, a, c) ==
  /\ n \in Nat /\ q \in Nat /\ a \in Nat /\ c \in Nat
  /\ n = r * q + a /\ a + c <= r

\* The bytes of the state the next ones come from.
Continues(r, s, k, n, q, a, c) ==
  Stream(r, s, k, n) \o BytesAt(AfterSqueezes(s, (k + 1) + q), a, c) = Stream(r, s, k, n + c)

\* Bytes from the next state behind those before.
LEMMA StreamGrows ==
  ASSUME NEW r \in Rates, NEW s, NEW k \in Nat, NEW n, NEW q, NEW a, NEW c, Room(r, n, q, a, c)
  PROVE  Continues(r, s, k, n, q, a, c)
<1> DEFINE u == Stream(r, s, k, n)
           v == BytesAt(AfterSqueezes(s, (k + 1) + q), a, c)
           w == Stream(r, s, k, n + c)
<1>a. n \in Nat /\ q \in Nat /\ a \in Nat /\ c \in Nat /\ n = r * q + a /\ a + c <= r BY DEF Room
<1>1. u \in Seq(Byte) /\ Len(u) = n /\ w \in Seq(Byte) /\ Len(w) = n + c
  <2>1. n + c \in Nat BY <1>a
  <2> QED BY <1>a, <2>1, StreamType
<1>2. v \in Seq(Byte) /\ Len(v) = c BY <1>a, BytesAtType
<1>3. ASSUME NEW i \in 1 .. n PROVE u[i] = w[i]
  <2>1. i \in 1 .. n + c BY <1>a
  <2> QED BY <2>1, Zenon DEF Stream
<1>4. ASSUME NEW j \in 1 .. c PROVE w[n + j] = v[j]
  <2> DEFINE z == r * q
             d == a + j - 1
  <2>1. z \in Nat
    <3>1. \A x, y \in Nat : x * y \in Nat OBVIOUS
    <3>2. r \in Nat BY DEF Rates
    <3> QED BY <1>a, <3>1, <3>2
  <2>2. d \in 0 .. r - 1 /\ r \in Nat BY <1>a DEF Rates
  <2>3. v[j] = ByteAt(AfterSqueezes(s, (k + 1) + q), d) BY Zenon DEF BytesAt
  <2>4. n = z + a /\ a \in Nat /\ n \in Nat /\ q \in Nat BY <1>a
  <2> HIDE DEF z
  <2>5. z + d + 1 = n + j /\ z + d + 1 <= n + c /\ n + c \in Nat BY <1>a, <2>1, <2>4
  <2> HIDE DEF d, w, v
  <2>6. Stream(r, s, k, n + c)[z + d + 1] = ByteAt(AfterSqueezes(s, (k + 1) + q), d)
    BY <2>2, <2>4, <2>5, StreamAt DEF z
  <2> QED BY <2>3, <2>5, <2>6 DEF w
<1> HIDE DEF u, v, w
<1>5. u \o v \in Seq(Byte) /\ Len(u \o v) = n + c BY <1>a, <1>1, <1>2
<1>6. ASSUME NEW i \in 1 .. n + c PROVE (u \o v)[i] = w[i]
  <2>1. CASE i <= n
    <3>1. i \in 1 .. Len(u) BY <1>1, <2>1
    <3> QED BY <1>1, <1>2, <1>3, <3>1, FirstPiece
  <2>2. CASE i > n
    <3> DEFINE j == i - n
    <3>1. j \in 1 .. c /\ i = n + j BY <1>a, <2>2
    <3> HIDE DEF j
    <3>2. (u \o v)[Len(u) + j] = v[j] BY <1>1, <1>2, <3>1, SecondPiece
    <3> QED BY <1>1, <1>4, <3>1, <3>2
  <2>3. i \in Nat /\ (i <= n \/ i > n) BY <1>a
  <2> QED BY <2>1, <2>2, <2>3
<1>7. u \o v = w BY <1>1, <1>5, <1>6, SameBytes
<1> QED BY <1>7 DEF u, v, w, Continues

\* Whole blocks, and what comes behind them.
Joins(r, s, k, n) == Stream(r, s, 0, r * k) \o Stream(r, s, k, n) = Stream(r, s, 0, (r * k) + n)

\* Whole blocks and what comes behind them are one stream.
LEMMA StreamJoins ==
  ASSUME NEW r \in Rates, NEW s, NEW k \in Nat, NEW n \in Nat
  PROVE  Joins(r, s, k, n)
<1> DEFINE z == r * k
           u == Stream(r, s, 0, z)
           v == Stream(r, s, k, n)
           w == Stream(r, s, 0, z + n)
<1>0. z \in Nat /\ r \in Nat
  <2>1. \A x, y \in Nat : x * y \in Nat OBVIOUS
  <2>2. r \in Nat BY DEF Rates
  <2> QED BY <2>1, <2>2
<1>1. u \in Seq(Byte) /\ Len(u) = z /\ w \in Seq(Byte) /\ Len(w) = z + n /\ v \in Seq(Byte) /\ Len(v) = n
  <2> HIDE DEF z
  <2>1. z + n \in Nat BY <1>0
  <2> QED BY <1>0, <2>1, StreamType
<1>2. ASSUME NEW i \in 1 .. z PROVE u[i] = w[i]
  <2> HIDE DEF z
  <2>1. i \in 1 .. z + n BY <1>0
  <2> QED BY <2>1, Zenon DEF Stream
<1>3. ASSUME NEW j \in 1 .. n PROVE w[z + j] = v[j]
  <2> DEFINE q == (j - 1) \div r
             a == (j - 1) % r
  <2>1. j - 1 \in Nat OBVIOUS
  <2>2. q \in Nat /\ a \in 0 .. r - 1 /\ j - 1 = r * q + a BY <2>1, Divided
  <2>3. v[j] = ByteAt(AfterSqueezes(s, (k + 1) + q), a) BY Zenon DEF Stream
  <2> HIDE DEF q, a
  <2>4. r * (k + q) = r * k + r * q
    <3>1. CASE r = 72 BY <2>2, <3>1
    <3>2. CASE r = 104 BY <2>2, <3>2
    <3>3. CASE r = 136 BY <2>2, <3>3
    <3>4. CASE r = 168 BY <2>2, <3>4
    <3> QED BY <3>1, <3>2, <3>3, <3>4 DEF Rates
  <2> DEFINE y == r * q
             x == r * (k + q)
  <2>5. x = z + y /\ j - 1 = y + a /\ y \in Nat
    <3>1. \A b, c \in Nat : b * c \in Nat OBVIOUS
    <3> QED BY <1>0, <2>2, <2>4, <3>1
  <2> HIDE DEF x, y, z
  <2>6. x + a + 1 = z + j /\ x + a + 1 <= z + n /\ z + n \in Nat /\ k + q \in Nat
    BY <1>0, <2>2, <2>5
  <2>7. Stream(r, s, 0, z + n)[x + a + 1] = ByteAt(AfterSqueezes(s, (0 + 1) + (k + q)), a)
    BY <2>2, <2>6, StreamAt DEF x
  <2>8. (0 + 1) + (k + q) = (k + 1) + q BY <2>2
  <2> QED BY <2>3, <2>6, <2>7, <2>8
<1> HIDE DEF z, u, v, w
<1>4. u \o v \in Seq(Byte) /\ Len(u \o v) = z + n BY <1>0, <1>1
<1>5. ASSUME NEW i \in 1 .. z + n PROVE (u \o v)[i] = w[i]
  <2>1. CASE i <= z
    <3>1. i \in 1 .. Len(u) /\ i \in 1 .. z BY <1>0, <1>1, <2>1
    <3> QED BY <1>1, <1>2, <3>1, FirstPiece
  <2>2. CASE i > z
    <3> DEFINE j == i - z
    <3>1. j \in 1 .. n /\ i = z + j BY <1>0, <2>2
    <3> HIDE DEF j
    <3>2. (u \o v)[Len(u) + j] = v[j] BY <1>1, <3>1, SecondPiece
    <3> QED BY <1>1, <1>3, <3>1, <3>2
  <2>3. i \in Nat /\ (i <= z \/ i > z) BY <1>0
  <2> QED BY <2>1, <2>2, <2>3
<1>6. u \o v = w BY <1>1, <1>4, <1>5, SameBytes
<1> QED BY <1>6 DEF u, v, w, z, Joins

\* The state and the bytes behind q blocks, of which the first k were not kept.
Squeezed202(r, s, k, q) == [state |-> AfterSqueezes(s, k + q), h |-> Stream(r, s, k, r * q)]

\* One block more.
LEMMA SqueezedNext ==
  ASSUME PermuteKeepsStates, NEW r \in Rates, NEW s \in States, NEW k \in Nat, NEW q \in Nat
  PROVE  LET before == Squeezed202(r, s, k, q)
             t      == Permute(before.state)
         IN [state |-> t, h |-> before.h \o BytesAt(t, 0, r)] = Squeezed202(r, s, k, q + 1)
<1> DEFINE t == AfterSqueezes(s, (k + 1) + q)
<1>1. t = Permute(AfterSqueezes(s, k + q)) /\ (k + 1) + q = k + (q + 1)
  <2>1. k + q \in Nat /\ (k + q) + 1 = (k + 1) + q /\ (k + 1) + q = k + (q + 1) OBVIOUS
  <2>2. AfterSqueezes(s, (k + q) + 1) = Permute(AfterSqueezes(s, k + q)) BY <2>1, NextSqueeze
  <2> QED BY <2>1, <2>2
<1>2. Stream(r, s, k, r * q) \o BytesAt(t, 0, r) = Stream(r, s, k, r * (q + 1))
  <2>0. r \in Nat BY DEF Rates
  <2>1. \A a, b \in Nat : a * b \in Nat OBVIOUS
  <2> DEFINE z == r * q
  <2>2. z + r = r * (q + 1)
    <3>1. CASE r = 72 BY <3>1
    <3>2. CASE r = 104 BY <3>2
    <3>3. CASE r = 136 BY <3>3
    <3>4. CASE r = 168 BY <3>4
    <3> QED BY <3>1, <3>2, <3>3, <3>4 DEF Rates
  <2>3. Room(r, z, q, 0, r)
    <3>1. z \in Nat BY <2>0, <2>1
    <3>2. (\A x \in Nat : x = x + 0) /\ 0 + r <= r BY <2>0
    <3> QED BY <2>0, <3>1, <3>2 DEF Room
  <2> HIDE DEF z, t
  <2>4. Continues(r, s, k, z, q, 0, r) BY <2>3, StreamGrows
  <2> QED BY <2>2, <2>4 DEF z, t, Continues
<1> HIDE DEF t
<1>3. Squeezed202(r, s, k, q).state = AfterSqueezes(s, k + q)
      /\ Squeezed202(r, s, k, q).h = Stream(r, s, k, r * q)
  BY DEF Squeezed202
<1>4. Squeezed202(r, s, k, q + 1) = [state |-> t, h |-> Stream(r, s, k, r * (q + 1))]
  BY <1>1 DEF Squeezed202, t
<1> QED BY <1>1, <1>2, <1>3, <1>4

\* A function that adds one block at a time.
AddsBlocks(r, n, g) ==
  \A i \in 1 .. n : LET before == g[i - 1]
                        t      == Permute(before.state)
                    IN g[i] = [state |-> t, h |-> before.h \o BytesAt(t, 0, r)]

\* Doing so n times adds n blocks.
LEMMA SqueezedAll ==
  ASSUME PermuteKeepsStates, NEW r \in Rates, NEW s \in States, NEW k \in Nat, NEW q \in Nat,
         NEW n \in Nat, NEW g, g[0] = Squeezed202(r, s, k, q), AddsBlocks(r, n, g)
  PROVE  g[n] = Squeezed202(r, s, k, q + n)
<1> DEFINE T == {i \in 0 .. n : g[i] = Squeezed202(r, s, k, q + i)}
           Next202(before) == LET t == Permute(before.state)
                              IN [state |-> t, h |-> before.h \o BytesAt(t, 0, r)]
<1>a. \A i \in 1 .. n : g[i] = Next202(g[i - 1]) BY DEF AddsBlocks
<1>b. \A j \in Nat : Next202(Squeezed202(r, s, k, j)) = Squeezed202(r, s, k, j + 1) BY SqueezedNext
<1> HIDE DEF Next202
<1>1. 0 \in T
  <2>1. q + 0 = q /\ 0 \in 0 .. n OBVIOUS
  <2> QED BY <2>1
<1>2. ASSUME NEW i \in 1 .. n, i - 1 \in T PROVE i \in T
  <2>1. g[i - 1] = Squeezed202(r, s, k, q + (i - 1)) /\ q + (i - 1) \in Nat /\ (q + (i - 1)) + 1 = q + i
        /\ i \in 0 .. n
    BY <1>2
  <2>2. g[i] = Squeezed202(r, s, k, q + i) BY <1>a, <1>b, <2>1
  <2> QED BY <2>1, <2>2
<1> HIDE DEF T
<1>3. \A i \in 0 .. n : i \in T BY <1>1, <1>2, BoundedInduction, Zenon
<1>4. n \in 0 .. n OBVIOUS
<1> QED BY <1>3, <1>4 DEF T

\* keccak_squeezeblocks, of a state that follows k blocks of s.
LEMMA SqueezeblocksIs ==
  ASSUME PermuteKeepsStates, NEW f \in Functions202, NEW s \in States, NEW k \in Nat, NEW n \in Nat
  PROVE  OneGo!keccak_squeezeblocks(f, n, AfterSqueezes(s, k)) = Squeezed202(f.rate, s, k, n)
<1> DEFINE r == f.rate
           first == [state |-> AfterSqueezes(s, k), h |-> <<>>]
           next(h, i) == LET before == h[i - 1]
                             t      == Permute(before.state)
                         IN [state |-> t, h |-> before.h \o BytesAt(t, 0, r)]
           body(h) == [i \in 0 .. n |-> IF i = 0 THEN first ELSE next(h, i)]
           h == [i \in 0 .. n |-> Squeezed202(r, s, k, i)]
           g == CHOOSE x : x = body(x)
<1>0. r \in Rates BY FunctionFacts
<1>1. OneGo!keccak_squeezeblocks(f, n, AfterSqueezes(s, k)) = g[n]
  BY SameInBlocks, Zenon DEF OneGo!keccak_squeezeblocks
<1>2. first = Squeezed202(r, s, k, 0)
  <2>1. k + 0 = k OBVIOUS
  <2>2. Stream(r, s, k, r * 0) = <<>>
    <3>1. r * 0 = 0 BY <1>0 DEF Rates
    <3>2. 0 \in Nat OBVIOUS
    <3>3. Stream(r, s, k, 0) \in Seq(Byte) /\ Len(Stream(r, s, k, 0)) = 0 BY <3>2, StreamType
    <3>4. \A w \in Seq(Byte) : Len(w) = 0 => w = <<>> OBVIOUS
    <3> QED BY <3>1, <3>3, <3>4
  <2> QED BY <2>1, <2>2 DEF Squeezed202
<1>3. \A i \in 1 .. n : h[i] = next(h, i)
  <2>1. ASSUME NEW i \in 1 .. n PROVE h[i] = next(h, i)
    <3>1. i - 1 \in Nat /\ i - 1 \in 0 .. n /\ (i - 1) + 1 = i /\ i \in 0 .. n OBVIOUS
    <3>2. h[i - 1] = Squeezed202(r, s, k, i - 1) /\ h[i] = Squeezed202(r, s, k, i) BY <3>1
    <3> HIDE DEF h, r
    <3>3. LET before == Squeezed202(r, s, k, i - 1)
              t      == Permute(before.state)
          IN [state |-> t, h |-> before.h \o BytesAt(t, 0, r)] = Squeezed202(r, s, k, (i - 1) + 1)
      BY <1>0, <3>1, SqueezedNext
    <3> QED BY <3>1, <3>2, <3>3
  <2> QED BY <2>1
<1>4. h[0] = first /\ h = [i \in 0 .. n |-> h[i]]
  <2>1. 0 \in 0 .. n OBVIOUS
  <2> QED BY <1>2, <2>1
<1> HIDE DEF h, next, first
<1>5. h = body(h)
  <2>1. \A i \in 0 .. n : h[i] = IF i = 0 THEN first ELSE next(h, i) BY <1>3, <1>4
  <2> QED BY <1>4, <2>1
<1>6. g = body(g) BY <1>5
<1> HIDE DEF g
<1>7. g[0] = first /\ \A i \in 1 .. n : g[i] = next(g, i)
  <2>1. 0 \in 0 .. n /\ \A i \in 1 .. n : i \in 0 .. n /\ i # 0 OBVIOUS
  <2> QED BY <1>6, <2>1
<1>8. g[n] = Squeezed202(r, s, k, 0 + n)
  <2>1. g[0] = Squeezed202(r, s, k, 0) BY <1>2, <1>7
  <2>2. AddsBlocks(r, n, g) BY <1>7 DEF next, AddsBlocks
  <2>3. 0 \in Nat OBVIOUS
  <2> HIDE DEF r
  <2> QED BY <1>0, <2>1, <2>2, <2>3, SqueezedAll
<1>9. 0 + n = n OBVIOUS
<1> QED BY <1>1, <1>8, <1>9

\* The output FIPS 202 defines is the stream of the absorbed message.
LEMMA OutputIs ==
  ASSUME PermuteKeepsStates, NEW f \in Functions202, NEW ms \in Seq(Byte), NEW l \in Nat
  PROVE  Output(f, ms, l) = Stream(f.rate, Final(f, ms), 0, l)
<1> DEFINE r == f.rate
           s == Final(f, ms)
           n == l \div r
           first == [state |-> Absorbed(f, ms), h |-> BytesAt(Absorbed(f, ms), 0, r)]
           next(h, i) == LET before == h[i - 1]
                             t      == Permute(before.state)
                         IN [state |-> t, h |-> before.h \o BytesAt(t, 0, r)]
           body(h) == [i \in 0 .. n |-> IF i = 0 THEN first ELSE next(h, i)]
           h == [i \in 0 .. n |-> Squeezed202(r, s, 0, 1 + i)]
           g == CHOOSE x : x = body(x)
<1>0. r \in Rates /\ r \in Nat /\ s \in States /\ n \in Nat /\ l = r * n + (l % r) /\ l % r \in 0 .. r - 1
  BY FunctionFacts, FinalType, Divided
<1>1. Output(f, ms, l) = SubSeq(g[n].h, 1, l)
  BY Zenon DEF Output
<1>2. first = Squeezed202(r, s, 0, 1)
  <2>1. 0 \in Nat /\ 0 + 1 = 1 /\ 0 + 0 = 0 OBVIOUS
  <2>2. AfterSqueezes(s, 0) = s /\ AfterSqueezes(s, 0 + 1) = Permute(AfterSqueezes(s, 0))
    BY <1>0, <2>1, NextSqueeze
  <2>3. Absorbed(f, ms) = Permute(AfterSqueezes(s, 0)) BY <2>2, AbsorbedIs
  <2>4. Squeezed202(r, s, 0, 0).state = AfterSqueezes(s, 0) /\ Squeezed202(r, s, 0, 0).h = <<>>
    <3>1. r * 0 = 0 BY <1>0
    <3>2. Stream(r, s, 0, 0) \in Seq(Byte) /\ Len(Stream(r, s, 0, 0)) = 0 BY <2>1, StreamType
    <3>3. \A w \in Seq(Byte) : Len(w) = 0 => w = <<>> OBVIOUS
    <3>4. Stream(r, s, 0, 0) = <<>> BY <3>2, <3>3
    <3> HIDE DEF r, s
    <3> QED BY <2>1, <3>1, <3>4 DEF Squeezed202
  <2> HIDE DEF s, r
  <2>5. LET before == Squeezed202(r, s, 0, 0)
            t      == Permute(before.state)
        IN [state |-> t, h |-> before.h \o BytesAt(t, 0, r)] = Squeezed202(r, s, 0, 0 + 1)
    BY <1>0, <2>1, SqueezedNext
  <2>6. BytesAt(Absorbed(f, ms), 0, r) \in Seq(Byte) /\ \A w \in Seq(Byte) : <<>> \o w = w
    BY <1>0, <2>1, BytesAtType
  <2> QED BY <2>1, <2>3, <2>4, <2>5, <2>6
<1>3. \A i \in 1 .. n : h[i] = next(h, i)
  <2>1. ASSUME NEW i \in 1 .. n PROVE h[i] = next(h, i)
    <3> HIDE DEF r, s, n
    <3>1. i \in Nat /\ i - 1 \in 0 .. n /\ 1 + (i - 1) = i /\ i \in 0 .. n /\ i + 1 = 1 + i BY <1>0
    <3>2. h[i - 1] = Squeezed202(r, s, 0, i) /\ h[i] = Squeezed202(r, s, 0, i + 1) BY <3>1
    <3> HIDE DEF h
    <3>3. LET before == Squeezed202(r, s, 0, i)
              t      == Permute(before.state)
          IN [state |-> t, h |-> before.h \o BytesAt(t, 0, r)] = Squeezed202(r, s, 0, i + 1)
      <4>1. 0 \in Nat OBVIOUS
      <4> QED BY <1>0, <3>1, <4>1, SqueezedNext
    <3> QED BY <3>2, <3>3
  <2> QED BY <2>1
<1>4. h[0] = first /\ h = [i \in 0 .. n |-> h[i]]
  <2> HIDE DEF n
  <2>1. 0 \in 0 .. n /\ 1 + 0 = 1 BY <1>0
  <2> QED BY <1>2, <2>1
<1> HIDE DEF h, next, first, n, s, r
<1>5. h = body(h)
  <2>0. \A i \in 0 .. n : i = 0 \/ i \in 1 .. n BY <1>0
  <2>1. \A i \in 0 .. n : h[i] = IF i = 0 THEN first ELSE next(h, i) BY <1>3, <1>4, <2>0, Zenon
  <2> QED BY <1>4, <2>1
<1>6. g = body(g) BY <1>5
<1> HIDE DEF g
<1>7. g[0] = first /\ \A i \in 1 .. n : g[i] = next(g, i)
  <2>1. 0 \in 0 .. n /\ \A i \in 1 .. n : i \in 0 .. n /\ i # 0 BY <1>0
  <2> QED BY <1>6, <2>1
<1>8. g[n] = Squeezed202(r, s, 0, 1 + n)
  <2>1. g[0] = Squeezed202(r, s, 0, 1) BY <1>2, <1>7
  <2>2. AddsBlocks(r, n, g) BY <1>7 DEF next, AddsBlocks
  <2>3. 0 \in Nat /\ 1 \in Nat OBVIOUS
  <2> QED BY <1>0, <2>1, <2>2, <2>3, SqueezedAll
<1>9. g[n].h = Stream(r, s, 0, r * (1 + n)) BY <1>8 DEF Squeezed202
<1>10. r * (1 + n) \in Nat /\ l <= r * (1 + n)
  <2>1. CASE r = 72 BY <1>0, <2>1
  <2>2. CASE r = 104 BY <1>0, <2>2
  <2>3. CASE r = 136 BY <1>0, <2>3
  <2>4. CASE r = 168 BY <1>0, <2>4
  <2> QED BY <1>0, <2>1, <2>2, <2>3, <2>4 DEF Rates
<1> DEFINE z == r * (1 + n)
<1> HIDE DEF z
<1>11. SubSeq(Stream(r, s, 0, z), 1, l) = Stream(r, s, 0, l) BY <1>10, StreamPrefix DEF z
<1> QED BY <1>1, <1>9, <1>11 DEF z, r, s

-----------------------------------------------------------------------------
\* A context against the standard.

\* What phase, function, message, output, words and counter of a context have to do with
\* each other: the words are the blocks absorbed and the bytes behind them, or the state
\* that the bytes not yet handed out are taken from.
Absorbs(f, ms, w, n) ==
  /\ n = Len(ms) % f.rate
  /\ w = XorBytes(AfterBlocks(f, ms, Len(ms) \div f.rate), 0, Rest(f, ms))

\* And what has been handed out is always the beginning of the stream of the message.
Standard(ph, f, ms, o, w, n) ==
  /\ ph = "absorb" => o = <<>> /\ Absorbs(f, ms, w, n)
  /\ ph = "squeeze" => \E q \in Nat : Len(o) + n = f.rate * q /\ w = AfterSqueezes(Final(f, ms), q)
  /\ o = Stream(f.rate, Final(f, ms), 0, Len(o))

\* No bytes are the beginning of every stream.
LEMMA NoBytes ==
  ASSUME NEW r, NEW s, NEW k \in Nat
  PROVE  <<>> = Stream(r, s, k, 0) /\ Len(<<>>) = 0 /\ <<>> \in Seq(Byte)
<1>1. 0 \in Nat OBVIOUS
<1>2. Stream(r, s, k, 0) \in Seq(Byte) /\ Len(Stream(r, s, k, 0)) = 0 BY <1>1, StreamType
<1>3. \A w \in Seq(Byte) : Len(w) = 0 => w = <<>> OBVIOUS
<1> QED BY <1>2, <1>3

\* In absorb nothing is handed out.
LEMMA AbsorbStandard ==
  ASSUME NEW f, NEW ms, NEW n, NEW w, Absorbs(f, ms, w, n)
  PROVE  Standard("absorb", f, ms, <<>>, w, n)
<1>1. 0 \in Nat OBVIOUS
<1>2. <<>> = Stream(f.rate, Final(f, ms), 0, Len(<<>>)) BY <1>1, NoBytes
<1> QED BY <1>2, Zenon DEF Standard

\* A context whose memory is gone.
LEMMA GoneStandard ==
  ASSUME NEW ph, NEW f, NEW ms, NEW o, NEW w, NEW n, Standard(ph, f, ms, o, w, n), NEW v, NEW l
  PROVE  Standard("none", f, ms, o, v, l)
  BY Zenon DEF Standard

\* inc_init.
LEMMA StartStandard ==
  ASSUME PermuteKeepsStates, NEW f \in Functions202
  PROVE  Standard("absorb", f, <<>>, <<>>, ZeroState, 0)
<1> DEFINE e == <<>>
<1>1. e \in Seq(Byte) /\ Len(e) = 0 OBVIOUS
<1>2. f.rate \in Rates /\ 0 \in Nat BY FunctionFacts
<1>3. 0 = Len(e) % f.rate /\ Len(e) \div f.rate = 0
  <2>1. CASE f.rate = 72 BY <1>1, <2>1
  <2>2. CASE f.rate = 104 BY <1>1, <2>2
  <2>3. CASE f.rate = 136 BY <1>1, <2>3
  <2>4. CASE f.rate = 168 BY <1>1, <2>4
  <2> QED BY <1>2, <2>1, <2>2, <2>3, <2>4 DEF Rates
<1> HIDE DEF e
<1>4. Rest(f, e) = <<>> BY <1>1, <1>3, NoLastBytes DEF Rest
<1>5. AfterBlocks(f, e, 0) = ZeroState BY <1>2, NextBlock
<1>6. XorBytes(ZeroState, 0, <<>>) = ZeroState BY XorNothing, ZeroIsState
<1>7. Absorbs(f, e, ZeroState, 0)
  BY <1>3, <1>4, <1>5, <1>6 DEF Absorbs
<1>8. Standard("absorb", f, e, <<>>, ZeroState, 0) BY <1>7, AbsorbStandard
<1> QED BY <1>8 DEF e

\* Bytes behind a message.
LEMMA Appended ==
  ASSUME PermuteKeepsStates, NEW f \in Functions202, NEW ms \in Seq(Byte), NEW b \in Seq(Byte),
         NEW n, NEW w, Absorbs(f, ms, w, n), NEW q, q = Len(ms) \div f.rate
  PROVE  /\ q \in Nat /\ n \in 0 .. f.rate - 1 /\ Len(ms) = f.rate * q + n
         /\ ms \o b \in Seq(Byte) /\ Len(ms \o b) = Len(ms) + Len(b)
         /\ AfterBlocks(f, ms \o b, q) \in States
         /\ XorBytes(w, n, b) = XorBytes(AfterBlocks(f, ms \o b, q), 0, LastBytes(ms \o b, n + Len(b)))
<1>1. /\ n \in 0 .. f.rate - 1 /\ q \in Nat /\ Len(ms) = f.rate * q + n /\ n <= Len(ms)
      /\ Rest(f, ms) \in Seq(Byte) /\ Len(Rest(f, ms)) = n /\ Rest(f, ms) = LastBytes(ms, n)
  BY RestType DEF Rest, Absorbs
<1>2. f.rate \in Nat BY FunctionFacts
<1>3. n \in Nat /\ f.rate * q <= Len(ms)
  <2> DEFINE z == f.rate * q
  <2>1. z \in Nat
    <3>1. \A x, y \in Nat : x * y \in Nat OBVIOUS
    <3> QED BY <1>1, <1>2, <3>1
  <2>2. Len(ms) = z + n BY <1>1
  <2>3. n \in 0 .. f.rate - 1 BY <1>1
  <2> HIDE DEF z
  <2>4. n \in Nat BY <1>2, <2>3
  <2>5. z <= Len(ms) BY <2>1, <2>2, <2>4
  <2> QED BY <2>4, <2>5 DEF z
<1>4. AfterBlocks(f, ms \o b, q) = AfterBlocks(f, ms, q) /\ AfterBlocks(f, ms, q) \in States
  BY <1>1, <1>3, PrefixKept, NextBlock
<1>5. LastBytes(ms \o b, n + Len(b)) = Rest(f, ms) \o b
  <2>1. \A k \in Nat : k <= Len(ms) => LastBytes(ms \o b, k + Len(b)) = LastBytes(ms, k) \o b
    BY LastBytesGrow
  <2> QED BY <1>1, <1>3, <2>1
<1> DEFINE s == AfterBlocks(f, ms, q)
<1>6. XorBytes(XorBytes(s, 0, Rest(f, ms)), n, b) = XorBytes(s, 0, Rest(f, ms) \o b)
  <2> HIDE DEF s
  <2>1. s \in States /\ 0 \in Nat BY <1>4 DEF s
  <2>2. XorBytes(XorBytes(s, 0, Rest(f, ms)), 0 + Len(Rest(f, ms)), b) = XorBytes(s, 0, Rest(f, ms) \o b)
    BY <1>1, <2>1, XorAppend
  <2>3. 0 + Len(Rest(f, ms)) = n
    <3>1. \A x \in Nat : 0 + x = x OBVIOUS
    <3> QED BY <1>1, <1>3, <3>1, Zenon
  <2> QED BY <2>2, <2>3
<1>7. w = XorBytes(s, 0, Rest(f, ms)) BY DEF Absorbs
<1>8. ms \o b \in Seq(Byte) /\ Len(ms \o b) = Len(ms) + Len(b) OBVIOUS
<1> QED BY <1>1, <1>4, <1>5, <1>6, <1>7, <1>8

\* A block is filled and permuted.
LEMMA FillStandard ==
  ASSUME PermuteKeepsStates, NEW f \in Functions202, NEW ms \in Seq(Byte), NEW o, NEW w, NEW n,
         Standard("absorb", f, ms, o, w, n), NEW b \in Seq(Byte), n + Len(b) = f.rate
  PROVE  Standard("absorb", f, ms \o b, o, Permute(XorBytes(w, n, b)), 0)
<1> DEFINE q == Len(ms) \div f.rate
           r == f.rate
           t == ms \o b
           z == r * q
<1>1. o = <<>> /\ Absorbs(f, ms, w, n) BY Zenon DEF Standard
<1>2. /\ q \in Nat /\ n \in 0 .. r - 1 /\ Len(ms) = z + n
      /\ t \in Seq(Byte) /\ Len(t) = Len(ms) + Len(b)
      /\ AfterBlocks(f, t, q) \in States
      /\ XorBytes(w, n, b) = XorBytes(AfterBlocks(f, t, q), 0, LastBytes(t, n + Len(b)))
  <2>1. Len(ms) \div f.rate = Len(ms) \div f.rate OBVIOUS
  <2> QED BY <1>1, <2>1, Appended
<1>3. r \in Rates /\ r \in Nat /\ r >= 72 BY FunctionFacts
<1> HIDE DEF q, t
<1>b. z \in Nat
  <2>1. \A x, y \in Nat : x * y \in Nat OBVIOUS
  <2> QED BY <1>2, <1>3, <2>1
<1>4. z \in Nat /\ r * (q + 1) = z + r
  <2>1. CASE r = 72 BY <1>2, <2>1
  <2>2. CASE r = 104 BY <1>2, <2>2
  <2>3. CASE r = 136 BY <1>2, <2>3
  <2>4. CASE r = 168 BY <1>2, <2>4
  <2> QED BY <1>3, <2>1, <2>2, <2>3, <2>4 DEF Rates
<1>5. n + Len(b) = r /\ Len(t) = z + r
  <2> HIDE DEF z
  <2>1. n + Len(b) = r OBVIOUS
  <2>2. Len(t) = Len(ms) + Len(b) /\ Len(ms) = z + n /\ n \in 0 .. r - 1 /\ Len(b) \in Nat BY <1>2
  <2> HIDE DEF r
  <2> QED BY <1>3, <1>b, <2>1, <2>2
<1>6. Len(t) \div r = q + 1 /\ Len(t) % r = 0
  <2>1. q + 1 \in Nat /\ 0 \in 0 .. r - 1 BY <1>2, <1>3
  <2>2. (r * (q + 1) + 0) \div r = q + 1 /\ (r * (q + 1) + 0) % r = 0 BY <1>3, <2>1, Quotient
  <2>3. r * (q + 1) + 0 = Len(t)
    <3> HIDE DEF z
    <3>1. z + r = (z + r) + 0 BY <1>3, <1>4
    <3> QED BY <1>4, <1>5, <3>1
  <2> QED BY <2>2, <2>3
<1>7. LastBytes(t, n + Len(b)) = MessageBlock(f, t, q + 1)
  <2>1. LastBytes(t, r) = SubSeq(t, Len(t) - r + 1, Len(t)) BY DEF LastBytes
  <2>2. (q + 1) - 1 = q BY <1>2
  <2>3. MessageBlock(f, t, q + 1) = SubSeq(t, z + 1, z + r) BY <1>4, <2>2 DEF MessageBlock
  <2>4. Len(t) - r + 1 = z + 1
    <3> HIDE DEF z
    <3> QED BY <1>3, <1>4, <1>5
  <2> QED BY <1>5, <2>1, <2>3, <2>4
<1>8. AfterBlocks(f, t, q + 1) = Permute(XorBytes(w, n, b)) /\ AfterBlocks(f, t, q + 1) \in States
  <2>1. q + 1 \in Nat BY <1>2
  <2> QED BY <1>2, <1>7, <2>1, NextBlock
<1>9. Rest(f, t) = <<>> BY <1>2, <1>6, NoLastBytes DEF Rest
<1>10. XorBytes(AfterBlocks(f, t, q + 1), 0, <<>>) = AfterBlocks(f, t, q + 1) BY <1>8, XorNothing
<1>11. Permute(XorBytes(w, n, b)) = XorBytes(AfterBlocks(f, t, Len(t) \div f.rate), 0, Rest(f, t))
  BY <1>6, <1>8, <1>9, <1>10
<1>12. Absorbs(f, t, Permute(XorBytes(w, n, b)), 0) BY <1>6, <1>11 DEF Absorbs
<1>13. Standard("absorb", f, t, <<>>, Permute(XorBytes(w, n, b)), 0) BY <1>12, AbsorbStandard
<1> QED BY <1>1, <1>13 DEF t

\* Bytes that do not fill the block.
LEMMA TakeStandard ==
  ASSUME PermuteKeepsStates, NEW f \in Functions202, NEW ms \in Seq(Byte), NEW o, NEW w, NEW n,
         Standard("absorb", f, ms, o, w, n), NEW b \in Seq(Byte), Len(b) + n < f.rate
  PROVE  Standard("absorb", f, ms \o b, o, XorBytes(w, n, b), n + Len(b))
<1> DEFINE q == Len(ms) \div f.rate
           r == f.rate
           t == ms \o b
           z == r * q
<1>1. o = <<>> /\ Absorbs(f, ms, w, n) BY Zenon DEF Standard
<1>2. /\ q \in Nat /\ n \in 0 .. r - 1 /\ Len(ms) = z + n
      /\ t \in Seq(Byte) /\ Len(t) = Len(ms) + Len(b)
      /\ AfterBlocks(f, t, q) \in States
      /\ XorBytes(w, n, b) = XorBytes(AfterBlocks(f, t, q), 0, LastBytes(t, n + Len(b)))
  <2>1. Len(ms) \div f.rate = Len(ms) \div f.rate OBVIOUS
  <2> QED BY <1>1, <2>1, Appended
<1>3. r \in Rates /\ r \in Nat /\ r >= 72 /\ Len(b) \in Nat /\ Len(b) + n < r BY FunctionFacts
<1> HIDE DEF q, t
<1>4. z \in Nat
  <2>1. \A x, y \in Nat : x * y \in Nat OBVIOUS
  <2> QED BY <1>2, <1>3, <2>1
<1> DEFINE l == n + Len(b)
<1>5. l \in 0 .. r - 1 /\ Len(t) = z + l
  <2> HIDE DEF z, r
  <2> QED BY <1>2, <1>3, <1>4
<1> HIDE DEF l
<1>6. Len(t) \div r = q /\ Len(t) % r = l
  <2>1. (r * q + l) \div r = q /\ (r * q + l) % r = l BY <1>2, <1>3, <1>5, Quotient
  <2> QED BY <1>5, <2>1
<1>7. XorBytes(w, n, b) = XorBytes(AfterBlocks(f, t, Len(t) \div f.rate), 0, Rest(f, t))
  BY <1>2, <1>6 DEF Rest, l
<1>8. Absorbs(f, t, XorBytes(w, n, b), l) BY <1>6, <1>7 DEF Absorbs
<1>9. Standard("absorb", f, t, <<>>, XorBytes(w, n, b), l) BY <1>8, AbsorbStandard
<1> QED BY <1>1, <1>9 DEF t, l

\* The padded state is the final one.
LEMMA FinalIs ==
  ASSUME PermuteKeepsStates, NEW f \in Functions202, NEW ms \in Seq(Byte), NEW o, NEW w, NEW n,
         Standard("absorb", f, ms, o, w, n)
  PROVE  Final(f, ms) = XorBytes(XorBytes(w, n, <<f.domain>>), f.rate - 1, <<{7}>>)
<1> DEFINE s == AfterBlocks(f, ms, Len(ms) \div f.rate)
           p == Sponges!Padding(f, f.rate - n)
<1>1. n = Len(ms) % f.rate /\ w = XorBytes(s, 0, Rest(f, ms)) BY Zenon DEF Standard, Absorbs
<1>2. /\ n \in 0 .. f.rate - 1 /\ Len(ms) \div f.rate \in Nat
      /\ Rest(f, ms) \in Seq(Byte) /\ Len(Rest(f, ms)) = n
  BY <1>1, RestType
<1>3. s \in States /\ 0 \in Nat BY <1>2, NextBlock
<1>4. f.rate \in Nat /\ n \in Nat /\ n < f.rate /\ f.rate - n \in Nat
  <2>1. f.rate \in Nat BY FunctionFacts
  <2> QED BY <1>2, <2>1
<1>5. p \in Seq(Byte) BY <1>4, PaddingType
<1>6. w \in States BY <1>1, <1>3, XorBytesType
<1>7. XorBytes(XorBytes(w, n, <<f.domain>>), f.rate - 1, <<{7}>>) = XorBytes(w, n, p)
  BY <1>4, <1>6, PaddingAdded
<1>8. Final(f, ms) = XorBytes(s, 0, Rest(f, ms) \o p) BY <1>1 DEF Final, PaddedRest
<1> HIDE DEF s, p
<1>9. XorBytes(XorBytes(s, 0, Rest(f, ms)), 0 + Len(Rest(f, ms)), p) = XorBytes(s, 0, Rest(f, ms) \o p)
  BY <1>2, <1>3, <1>5, XorAppend
<1>10. 0 + Len(Rest(f, ms)) = n BY <1>2, <1>4
<1> QED BY <1>1, <1>7, <1>8, <1>9, <1>10

\* keccak_inc_finalize.
LEMMA FinalizeStandard ==
  ASSUME PermuteKeepsStates, NEW f \in Functions202, NEW ms \in Seq(Byte), NEW o, NEW w, NEW n,
         Standard("absorb", f, ms, o, w, n)
  PROVE  Standard("squeeze", f, ms, o, XorBytes(XorBytes(w, n, <<f.domain>>), f.rate - 1, <<{7}>>), 0)
<1> DEFINE s == Final(f, ms)
<1>1. s \in States /\ 0 \in Nat /\ f.rate \in Nat BY FinalType, FunctionFacts
<1>2. AfterSqueezes(s, 0) = s
  <2> HIDE DEF s
  <2> QED BY <1>1, NextSqueeze
<1>3. o = <<>> /\ o = Stream(f.rate, s, 0, Len(o)) BY Zenon DEF Standard
<1>4. Len(o) + 0 = f.rate * 0 BY <1>1, <1>3
<1>5. \E q \in Nat : Len(o) + 0 = f.rate * q /\ s = AfterSqueezes(s, q) BY <1>1, <1>2, <1>4
<1>6. Standard("squeeze", f, ms, o, s, 0)
  <2>1. "squeeze" # "absorb" OBVIOUS
  <2> QED BY <1>3, <1>5, <2>1, Zenon DEF Standard
<1> QED BY <1>6, FinalIs

\* What squeezes says of a context.
LEMMA SqueezeIs ==
  ASSUME NEW f, NEW ms, NEW o, NEW w, NEW n
  PROVE  Standard("squeeze", f, ms, o, w, n) <=>
           /\ \E q \in Nat : Len(o) + n = f.rate * q /\ w = AfterSqueezes(Final(f, ms), q)
           /\ o = Stream(f.rate, Final(f, ms), 0, Len(o))
<1>1. "squeeze" # "absorb" OBVIOUS
<1> QED BY <1>1, Zenon DEF Standard

\* The bytes that are still there.
LEMMA GiveStandard ==
  ASSUME PermuteKeepsStates, NEW f \in Functions202, NEW ms \in Seq(Byte), NEW o \in Seq(Byte), NEW w,
         NEW n \in Nat, n < f.rate, Standard("squeeze", f, ms, o, w, n), NEW i \in Nat, i <= n
  PROVE  Standard("squeeze", f, ms, o \o BytesAt(w, f.rate - n, i), w, n - i)
<1> DEFINE r == f.rate
           s == Final(f, ms)
           b == BytesAt(w, r - n, i)
           l == Len(o)
<1>1. r \in Rates /\ r \in Nat /\ n < r /\ l \in Nat BY FunctionFacts
<1>2. o = Stream(r, s, 0, l) BY SqueezeIs
<1>3. PICK q \in Nat : l + n = r * q /\ w = AfterSqueezes(s, q) BY SqueezeIs
<1>4. b \in Seq(Byte) /\ Len(b) = i
  <2>1. r - n \in Nat
    <3> HIDE DEF r
    <3> QED BY <1>1
  <2> QED BY <2>1, BytesAtType
<1> HIDE DEF s
<1>5. Len(o \o b) = l + i /\ o \o b \in Seq(Byte)
  <2> HIDE DEF b
  <2> QED BY <1>4
<1>6. Len(o \o b) + (n - i) = r * q
  <2> DEFINE z == r * q
  <2>1. l + n = z BY <1>3
  <2> HIDE DEF z, b, r, l
  <2>2. (l + i) + (n - i) = l + n BY <1>1
  <2> QED BY <1>5, <2>1, <2>2 DEF z
<1>7. o \o b = Stream(r, s, 0, l + i)
  <2>1. CASE i = 0
    <3>1. \A v \in Seq(Byte) : Len(v) = 0 => o \o v = o OBVIOUS
    <3> HIDE DEF b, r, l
    <3>2. o \o b = o BY <1>4, <2>1, <3>1
    <3>3. l + i = l BY <1>1, <2>1
    <3> QED BY <1>2, <3>2, <3>3
  <2>2. CASE i > 0
    <3>1. q >= 1
      <4>1. CASE q = 0
        <5>1. r * q = 0 BY <1>1, <4>1
        <5> DEFINE z == r * q
        <5>2. l + n = z /\ z = 0 BY <1>3, <5>1
        <5> HIDE DEF z, r, l
        <5> QED BY <1>1, <2>2, <5>2
      <4> QED BY <4>1
    <3> DEFINE p == q - 1
    <3>2. p \in Nat /\ (0 + 1) + p = q /\ q = p + 1 BY <3>1
    <3> HIDE DEF p
    <3>3. r * q = r * p + r
      <4>1. CASE r = 72 BY <3>2, <4>1
      <4>2. CASE r = 104 BY <3>2, <4>2
      <4>3. CASE r = 136 BY <3>2, <4>3
      <4>4. CASE r = 168 BY <3>2, <4>4
      <4> QED BY <1>1, <4>1, <4>2, <4>3, <4>4 DEF Rates
    <3>4. Room(r, l, p, r - n, i)
      <4> DEFINE z == r * p
      <4>1. z \in Nat
        <5>1. \A x, y \in Nat : x * y \in Nat OBVIOUS
        <5> QED BY <1>1, <3>2, <5>1
      <4>2. l + n = z + r BY <1>3, <3>3
      <4> HIDE DEF z, r, l
      <4>3. l = z + (r - n) /\ r - n \in Nat /\ (r - n) + i <= r BY <1>1, <4>1, <4>2
      <4> QED BY <1>1, <3>2, <4>3 DEF Room, z
    <3> HIDE DEF r, l
    <3>5. 0 \in Nat OBVIOUS
    <3>6. Continues(r, s, 0, l, p, r - n, i) BY <1>1, <3>4, <3>5, StreamGrows
    <3>7. Stream(r, s, 0, l) \o BytesAt(AfterSqueezes(s, (0 + 1) + p), r - n, i) = Stream(r, s, 0, l + i)
      BY <3>6 DEF Continues
    <3> QED BY <1>2, <1>3, <3>2, <3>7 DEF r
  <2>3. i = 0 \/ i > 0 OBVIOUS
  <2> QED BY <2>1, <2>2, <2>3
<1> HIDE DEF b, r, l
<1>8. o \o b = Stream(r, s, 0, Len(o \o b)) BY <1>5, <1>7
<1>9. \E x \in Nat : Len(o \o b) + (n - i) = r * x /\ w = AfterSqueezes(s, x) BY <1>3, <1>6
<1>10. Standard("squeeze", f, ms, o \o b, w, n - i) BY <1>8, <1>9, SqueezeIs, Zenon DEF r, s
<1> QED BY <1>10 DEF b, r

\* The bytes of the next state.
LEMMA NextStandard ==
  ASSUME PermuteKeepsStates, NEW f \in Functions202, NEW ms \in Seq(Byte), NEW o \in Seq(Byte), NEW w,
         Standard("squeeze", f, ms, o, w, 0), NEW i \in Nat, i <= f.rate
  PROVE  Standard("squeeze", f, ms, o \o BytesAt(Permute(w), 0, i), Permute(w), f.rate - i)
<1> DEFINE r == f.rate
           s == Final(f, ms)
           b == BytesAt(Permute(w), 0, i)
           l == Len(o)
<1>1. r \in Rates /\ r \in Nat /\ i <= r /\ l \in Nat /\ s \in States BY FunctionFacts, FinalType
<1>2. o = Stream(r, s, 0, l) BY SqueezeIs
<1>3. PICK q \in Nat : l + 0 = r * q /\ w = AfterSqueezes(s, q) BY SqueezeIs
<1> HIDE DEF s
<1>4. b \in Seq(Byte) /\ Len(b) = i
  <2>1. 0 \in Nat OBVIOUS
  <2> QED BY <2>1, BytesAtType
<1>5. Len(o \o b) = l + i /\ o \o b \in Seq(Byte)
  <2> HIDE DEF b
  <2> QED BY <1>4
<1>6. Permute(w) = AfterSqueezes(s, q + 1) BY <1>1, <1>3, NextSqueeze
<1>7. (0 + 1) + q = q + 1 /\ q + 1 \in Nat OBVIOUS
<1> DEFINE z == r * q
<1>8. l = z /\ z \in Nat
  <2> HIDE DEF z, l, r
  <2>1. l + 0 = z BY <1>3 DEF z
  <2> QED BY <1>1, <2>1
<1>9. r * (q + 1) = z + r
  <2>1. CASE r = 72 BY <2>1
  <2>2. CASE r = 104 BY <2>2
  <2>3. CASE r = 136 BY <2>3
  <2>4. CASE r = 168 BY <2>4
  <2> QED BY <1>1, <2>1, <2>2, <2>3, <2>4 DEF Rates
<1> HIDE DEF b, r, l, z
<1>10. Room(r, l, q, 0, i)
  <2>1. z = z + 0 /\ 0 + i <= r BY <1>1, <1>8
  <2> QED BY <1>1, <1>8, <2>1 DEF Room, z
<1>11. Continues(r, s, 0, l, q, 0, i)
  <2>1. 0 \in Nat OBVIOUS
  <2> QED BY <1>1, <1>10, <2>1, StreamGrows
<1>12. o \o b = Stream(r, s, 0, Len(o \o b)) BY <1>2, <1>5, <1>6, <1>7, <1>11 DEF Continues, b
<1>13. Len(o \o b) + (r - i) = r * (q + 1) BY <1>1, <1>5, <1>8, <1>9
<1>14. \E x \in Nat : Len(o \o b) + (r - i) = r * x /\ Permute(w) = AfterSqueezes(s, x) BY <1>6, <1>7, <1>13
<1>15. Standard("squeeze", f, ms, o \o b, Permute(w), r - i) BY <1>12, <1>14, SqueezeIs, Zenon DEF r, s
<1> QED BY <1>15 DEF b, r

\* A digest.
LEMMA DigestStandard ==
  ASSUME PermuteKeepsStates, NEW f \in Functions202, NEW ms \in Seq(Byte), NEW v, NEW l
  PROVE  Standard("none", f, ms, BytesAt(Permute(Final(f, ms)), 0, f.digest), v, l)
<1> DEFINE s == Final(f, ms)
           b == BytesAt(Permute(s), 0, f.digest)
<1>1. f.digest \in Nat /\ f.digest <= f.rate /\ 0 \in Nat BY FunctionFacts
<1>2. <<>> \in Seq(Byte) /\ Len(<<>>) = 0 OBVIOUS
<1>3. AfterSqueezes(s, 0) = s BY FinalType, NextSqueeze
<1>4. Standard("squeeze", f, ms, <<>>, s, 0)
  <2>1. f.rate * 0 = 0
    <3>1. f.rate \in Nat BY FunctionFacts
    <3> QED BY <3>1
  <2>2. \E q \in Nat : Len(<<>>) + 0 = f.rate * q /\ s = AfterSqueezes(s, q) BY <1>1, <1>2, <1>3, <2>1
  <2>3. <<>> = Stream(f.rate, s, 0, Len(<<>>)) BY <1>1, NoBytes
  <2> QED BY <2>2, <2>3, SqueezeIs, Zenon
<1>5. Standard("squeeze", f, ms, <<>> \o b, Permute(s), f.rate - f.digest) BY <1>1, <1>2, <1>4, NextStandard
<1>6. <<>> \o b = b
  <2>1. b \in Seq(Byte) BY <1>1, BytesAtType
  <2> HIDE DEF b
  <2> QED BY <2>1
<1> HIDE DEF b, s
<1>7. Standard("squeeze", f, ms, b, Permute(s), f.rate - f.digest) BY <1>5, <1>6
<1>8. Standard("none", f, ms, b, v, l) BY <1>7, GoneStandard, Zenon
<1> QED BY <1>8 DEF b, s

\* shake*_absorb.
LEMMA AbsorbedStandard ==
  ASSUME PermuteKeepsStates, NEW f \in Functions202, NEW ms \in Seq(Byte)
  PROVE  /\ Standard("squeeze", f, ms, <<>>, OneGo!keccak_absorb(f, ms), 0)
         /\ OneGo!keccak_absorb(f, ms) \in States
<1> DEFINE s == Final(f, ms)
<1>1. 0 \in Nat /\ f.rate \in Nat /\ s \in States BY FunctionFacts, FinalType
<1>2. AfterSqueezes(s, 0) = s BY <1>1, NextSqueeze
<1>3. Len(<<>>) + 0 = f.rate * 0 BY <1>1
<1>4. \E q \in Nat : Len(<<>>) + 0 = f.rate * q /\ s = AfterSqueezes(s, q) BY <1>1, <1>2, <1>3
<1>5. <<>> = Stream(f.rate, s, 0, Len(<<>>)) BY <1>1, NoBytes
<1>6. Standard("squeeze", f, ms, <<>>, s, 0) BY <1>4, <1>5, SqueezeIs, Zenon
<1> QED BY <1>1, <1>6, AbsorbIs

\* shake*_squeezeblocks.
LEMMA BlocksStandard ==
  ASSUME PermuteKeepsStates, NEW f \in Functions202, NEW ms \in Seq(Byte), NEW o \in Seq(Byte), NEW w,
         Standard("squeeze", f, ms, o, w, 0), NEW n \in Nat
  PROVE  /\ Standard("squeeze", f, ms, o \o OneGo!keccak_squeezeblocks(f, n, w).h,
                     OneGo!keccak_squeezeblocks(f, n, w).state, 0)
         /\ o \o OneGo!keccak_squeezeblocks(f, n, w).h \in Seq(Byte)
         /\ OneGo!keccak_squeezeblocks(f, n, w).state \in States
<1> DEFINE r == f.rate
           s == Final(f, ms)
           l == Len(o)
           x == OneGo!keccak_squeezeblocks(f, n, w)
<1>1. r \in Rates /\ r \in Nat /\ s \in States /\ l \in Nat BY FunctionFacts, FinalType
<1>2. o = Stream(r, s, 0, l) BY SqueezeIs
<1>3. PICK k \in Nat : l + 0 = r * k /\ w = AfterSqueezes(s, k) BY SqueezeIs
<1>4. x = Squeezed202(r, s, k, n) BY <1>1, <1>3, SqueezeblocksIs
<1> HIDE DEF x, s
<1>5. x.state = AfterSqueezes(s, k + n) /\ x.h = Stream(r, s, k, r * n) BY <1>4 DEF Squeezed202
<1>6. \A a, b \in Nat : a * b \in Nat OBVIOUS
<1>7. k + n \in Nat /\ r * k + r * n = r * (k + n)
  <2>1. CASE r = 72 BY <2>1
  <2>2. CASE r = 104 BY <2>2
  <2>3. CASE r = 136 BY <2>3
  <2>4. CASE r = 168 BY <2>4
  <2> QED BY <1>1, <2>1, <2>2, <2>3, <2>4 DEF Rates
<1> DEFINE y == r * k
           z == r * n
<1>8. y \in Nat /\ z \in Nat /\ y + 0 = y /\ l = y
  <2>1. y \in Nat /\ z \in Nat BY <1>1, <1>6
  <2>2. l + 0 = y BY <1>3
  <2> HIDE DEF y, z, l
  <2> QED BY <1>1, <2>1, <2>2
<1>9. Stream(r, s, 0, y) \o Stream(r, s, k, z) = Stream(r, s, 0, y + z)
  <2>1. z \in Nat BY <1>8
  <2> HIDE DEF z
  <2>2. Joins(r, s, k, z) BY <1>1, <2>1, StreamJoins
  <2> HIDE DEF r
  <2> QED BY <2>2 DEF Joins
<1> HIDE DEF l, r
<1>10. o \o x.h = Stream(r, s, 0, y + z) BY <1>2, <1>5, <1>8, <1>9
<1>11. Len(o \o x.h) = y + z /\ o \o x.h \in Seq(Byte)
  <2>1. y + z \in Nat /\ 0 \in Nat
    <3> HIDE DEF y, z
    <3> QED BY <1>8
  <2> QED BY <1>10, <2>1, StreamType
<1>12. Len(o \o x.h) + 0 = r * (k + n)
  <2> HIDE DEF y, z
  <2>1. (y + z) + 0 = y + z BY <1>8
  <2>2. y + z = r * (k + n) BY <1>7 DEF y, z
  <2> QED BY <1>11, <2>1, <2>2
<1>13. \E q \in Nat : Len(o \o x.h) + 0 = r * q /\ x.state = AfterSqueezes(s, q) BY <1>5, <1>7, <1>12
<1>14. o \o x.h = Stream(r, s, 0, Len(o \o x.h)) BY <1>10, <1>11
<1>15. Standard("squeeze", f, ms, o \o x.h, x.state, 0) BY <1>13, <1>14, SqueezeIs, Zenon DEF r, s
<1>16. x.state \in States BY <1>1, <1>5, <1>7, NextSqueeze
<1> QED BY <1>11, <1>15, <1>16 DEF x

\* shake128 and shake256: the whole blocks, and the rest of one more.
Whole202(f, ms, l)    == OneGo!keccak_squeezeblocks(f, l \div f.rate, OneGo!keccak_absorb(f, ms))
OneMore202(f, ms, l)  == OneGo!keccak_squeezeblocks(f, 1, Whole202(f, ms, l).state)
Remains(f, l)         == l - (l \div f.rate) * f.rate
ShakeOutput(f, ms, l) == IF Remains(f, l) = 0 THEN Whole202(f, ms, l).h
                         ELSE Whole202(f, ms, l).h \o SubSeq(OneMore202(f, ms, l).h, 1, Remains(f, l))
ShakeState(f, ms, l)  == IF Remains(f, l) = 0 THEN Whole202(f, ms, l).state ELSE OneMore202(f, ms, l).state

\* Both give what FIPS 202 says, for every length.
LEMMA ShakeIs ==
  ASSUME PermuteKeepsStates, NEW f \in Functions202, NEW ms \in Seq(Byte), NEW l \in Nat
  PROVE  ShakeOutput(f, ms, l) = Output(f, ms, l) /\ ShakeState(f, ms, l) \in States
<1> DEFINE r == f.rate
           s == Final(f, ms)
           n == l \div r
           a == l % r
           z == r * n
<1>1. r \in Rates /\ r \in Nat /\ s \in States /\ n \in Nat /\ a \in 0 .. r - 1 /\ l = z + a
  BY FunctionFacts, FinalType, Divided
<1>2. z \in Nat /\ a \in Nat /\ a <= r
  <2>1. \A x, y \in Nat : x * y \in Nat OBVIOUS
  <2>2. z \in Nat BY <1>1, <2>1
  <2> HIDE DEF z, a, r
  <2> QED BY <1>1, <2>2
<1>3. Remains(f, l) = a
  <2>1. n * r = z BY <1>1
  <2>2. Remains(f, l) = l - n * r BY DEF Remains
  <2> HIDE DEF z, a, n
  <2> QED BY <1>1, <1>2, <2>1, <2>2
<1> HIDE DEF a, s
<1>4. Whole202(f, ms, l) = Squeezed202(r, s, 0, n)
  <2>1. 0 \in Nat OBVIOUS
  <2>2. AfterSqueezes(s, 0) = s BY <1>1, NextSqueeze
  <2>3. OneGo!keccak_absorb(f, ms) = s BY AbsorbIs DEF s
  <2> HIDE DEF n
  <2>4. OneGo!keccak_squeezeblocks(f, n, AfterSqueezes(s, 0)) = Squeezed202(r, s, 0, n)
    BY <1>1, <2>1, SqueezeblocksIs
  <2> QED BY <2>2, <2>3, <2>4 DEF Whole202, n
<1> HIDE DEF n
<1>5. Whole202(f, ms, l).state = AfterSqueezes(s, n) /\ Whole202(f, ms, l).h = Stream(r, s, 0, r * n)
  <2>1. 0 + n = n BY <1>1
  <2> QED BY <1>4, <2>1 DEF Squeezed202
<1>6. OneMore202(f, ms, l) = Squeezed202(r, s, n, 1)
  <2>1. 1 \in Nat OBVIOUS
  <2> QED BY <1>1, <1>5, <2>1, SqueezeblocksIs DEF OneMore202
<1>7. OneMore202(f, ms, l).state = AfterSqueezes(s, n + 1) /\ OneMore202(f, ms, l).h = Stream(r, s, n, r)
  <2>1. r * 1 = r BY <1>1
  <2> QED BY <1>6, <2>1 DEF Squeezed202
<1>8. AfterSqueezes(s, n) \in States /\ AfterSqueezes(s, n + 1) \in States
  <2>1. n + 1 \in Nat BY <1>1
  <2> QED BY <1>1, <2>1, NextSqueeze
<1>9. Output(f, ms, l) = Stream(r, s, 0, l) BY OutputIs DEF s
<1>10. CASE a = 0
  <2>1. l = z
    <3> HIDE DEF z
    <3> QED BY <1>1, <1>2, <1>10
  <2>2. ShakeOutput(f, ms, l) = Whole202(f, ms, l).h /\ ShakeState(f, ms, l) = Whole202(f, ms, l).state
    BY <1>3, <1>10, Zenon DEF ShakeOutput, ShakeState
  <2> QED BY <1>5, <1>8, <1>9, <2>1, <2>2
<1>11. CASE a # 0
  <2>0. n \in Nat /\ a \in Nat /\ r \in Nat /\ r \in Rates /\ a <= r BY <1>1, <1>2
  <2> HIDE DEF r
  <2>1. SubSeq(Stream(r, s, n, r), 1, a) = Stream(r, s, n, a) BY <2>0, StreamPrefix
  <2>2. Joins(r, s, n, a) BY <2>0, StreamJoins
  <2>3. ShakeOutput(f, ms, l) = Whole202(f, ms, l).h \o SubSeq(OneMore202(f, ms, l).h, 1, a)
        /\ ShakeState(f, ms, l) = OneMore202(f, ms, l).state
    BY <1>3, <1>11, Zenon DEF ShakeOutput, ShakeState
  <2>4. ShakeOutput(f, ms, l) = Stream(r, s, 0, (r * n) + a)
    BY <1>5, <1>7, <2>1, <2>2, <2>3 DEF Joins
  <2> QED BY <1>1, <1>7, <1>8, <1>9, <2>3, <2>4
<1> QED BY <1>10, <1>11

\* sha3_256, sha3_384 and sha3_512: the beginning of one block.
LEMMA Sha3Is ==
  ASSUME PermuteKeepsStates, NEW f \in Functions202, NEW ms \in Seq(Byte)
  PROVE  SubSeq(OneGo!keccak_squeezeblocks(f, 1, OneGo!keccak_absorb(f, ms)).h, 1, f.digest)
           = Output(f, ms, f.digest)
<1> DEFINE s == Final(f, ms)
           r == f.rate
           x == OneGo!keccak_squeezeblocks(f, 1, OneGo!keccak_absorb(f, ms))
<1>1. r \in Rates /\ r \in Nat /\ s \in States /\ f.digest \in Nat /\ f.digest <= r
  BY FunctionFacts, FinalType
<1>2. 0 \in Nat /\ 1 \in Nat OBVIOUS
<1>3. AfterSqueezes(s, 0) = s BY <1>1, <1>2, NextSqueeze
<1>4. OneGo!keccak_absorb(f, ms) = s BY AbsorbIs
<1> HIDE DEF s
<1>5. OneGo!keccak_squeezeblocks(f, 1, AfterSqueezes(s, 0)) = Squeezed202(r, s, 0, 1)
  BY <1>1, <1>2, SqueezeblocksIs
<1>6. r * 1 = r BY <1>1
<1>7. x.h = Stream(r, s, 0, r) BY <1>3, <1>4, <1>5, <1>6 DEF Squeezed202
<1> HIDE DEF x, r
<1>8. SubSeq(Stream(r, s, 0, r), 1, f.digest) = Stream(r, s, 0, f.digest) BY <1>1, <1>2, StreamPrefix
<1>9. Output(f, ms, f.digest) = Stream(r, s, 0, f.digest) BY <1>1, OutputIs DEF s, r
<1> QED BY <1>7, <1>8, <1>9 DEF x

-----------------------------------------------------------------------------
\* The invariant of the process.

\* Every context of the incremental functions follows the standard.
ContextsStandard ==
  \A c \in Contexts : Standard(phase[c], alg[c], msg[c], out[c], Words(c), Count(c))

\* The types of the contexts for blocks, and what their words have to do with the rest.
BlockPhase(c) == IF c \in live THEN "squeeze" ELSE "none"
BlocksInv ==
  /\ blockCtx \in [BlockContexts -> Blocks] /\ blockAlg \in [BlockContexts -> Functions202]
  /\ blockMsg \in [BlockContexts -> Seq(Byte)] /\ blockOut \in [BlockContexts -> Seq(Byte)]
  /\ \A c \in BlockContexts :
       Standard(BlockPhase(c), blockAlg[c], blockMsg[c], blockOut[c], words[blockCtx[c]], 0)

\* The inductive invariant of the process.
ProcessInv == IInv /\ OwnedInv /\ ContextsStandard /\ BlocksInv /\ OneShotIsStandard

\* Words of a context in use that a step leaves alone.
LEMMA StandardKept ==
  ASSUME NEW ph, NEW f, NEW ms, NEW o, NEW w, NEW n, Standard(ph, f, ms, o, w, n),
         NEW v, NEW l, ph # "none" => v = w /\ l = n, ph \in {"none", "absorb", "squeeze"}
  PROVE  Standard(ph, f, ms, o, v, l)
<1>1. CASE ph = "none" BY <1>1, GoneStandard, Zenon
<1>2. CASE ph # "none" BY <1>2, Zenon
<1> QED BY <1>1, <1>2

\* It holds before the first call.
LEMMA InitProcess == ProcessInit => ProcessInv
<1> SUFFICES ASSUME ProcessInit PROVE ProcessInv
  OBVIOUS
<1>1. Init /\ OneGo!Init BY DEF ProcessInit
<1>2. IInv BY <1>1, InitInv
<1>3. OwnedInv BY <1>1 DEF Init, OneGo!Init, OwnedInv, Owned, Live
<1>4. ASSUME NEW f, NEW w, NEW n PROVE Standard("none", f, <<>>, <<>>, w, n)
  <2>1. 0 \in Nat OBVIOUS
  <2>2. <<>> = Stream(f.rate, Final(f, <<>>), 0, Len(<<>>)) BY <2>1, NoBytes
  <2>3. "none" # "absorb" /\ "none" # "squeeze" OBVIOUS
  <2> QED BY <2>2, <2>3, Zenon DEF Standard
<1>5. ContextsStandard
  <2>1. \A c \in Contexts : phase[c] = "none" /\ msg[c] = <<>> /\ out[c] = <<>> BY <1>1 DEF Init
  <2> QED BY <1>4, <2>1 DEF ContextsStandard
<1>6. BlocksInv
  <2>1. /\ blockCtx \in [BlockContexts -> Blocks] /\ blockAlg \in [BlockContexts -> Functions202]
        /\ blockMsg = [c \in BlockContexts |-> <<>>] /\ blockOut = [c \in BlockContexts |-> <<>>]
        /\ live = {}
    BY <1>1 DEF OneGo!Init
  <2>2. \A c \in BlockContexts : BlockPhase(c) = "none" /\ blockMsg[c] = <<>> /\ blockOut[c] = <<>>
    BY <2>1 DEF BlockPhase
  <2>3. blockMsg \in [BlockContexts -> Seq(Byte)] /\ blockOut \in [BlockContexts -> Seq(Byte)]
    <3>1. <<>> \in Seq(Byte) OBVIOUS
    <3> QED BY <2>1, <3>1
  <2> QED BY <1>4, <2>1, <2>2, <2>3 DEF BlocksInv
<1>7. OneShotIsStandard BY <1>1 DEF OneGo!Init, OneShotIsStandard
<1> QED BY <1>2, <1>3, <1>5, <1>6, <1>7 DEF ProcessInv

-----------------------------------------------------------------------------
\* The steps of the incremental functions.

\* A context of the incremental functions follows the standard.
Follows(c) == Standard(phase[c], alg[c], msg[c], out[c], Words(c), Count(c))

\* All of them, one by one.
LEMMA FollowsAll == ContextsStandard <=> \A c \in Contexts : Follows(c)
  BY DEF ContextsStandard, Follows

\* The fields of one that does.
LEMMA FollowsIs ==
  ASSUME NEW c, NEW ph, NEW w, NEW n, Follows(c), phase[c] = ph, Words(c) = w, Count(c) = n
  PROVE  Standard(ph, alg[c], msg[c], out[c], w, n)
  BY Zenon DEF Follows

\* The same after a step.
LEMMA FollowsNext ==
  ASSUME NEW c, NEW ph, NEW f, NEW ms, NEW o, NEW w, NEW n, Standard(ph, f, ms, o, w, n),
         phase'[c] = ph, alg'[c] = f, msg'[c] = ms, out'[c] = o, Words(c)' = w, Count(c)' = n
  PROVE  Follows(c)'
  BY Zenon DEF Follows

\* A step of c keeps what the others follow.
LEMMA FollowsStep ==
  ASSUME IInv, ContextsStandard, NEW c \in Contexts, Others(c),
         \A d \in Contexts \ {c} : out'[d] = out[d], Follows(c)'
  PROVE  ContextsStandard'
<1>1. ASSUME NEW d \in Contexts, d # c PROVE Follows(d)'
  <2>1. /\ phase'[d] = phase[d] /\ ctx'[d] = ctx[d] /\ alg'[d] = alg[d] /\ msg'[d] = msg[d]
        /\ phase[d] # "none" => words'[ctx[d]] = words[ctx[d]] /\ count'[ctx[d]] = count[ctx[d]]
        /\ out'[d] = out[d]
    BY <1>1 DEF Others
  <2>2. Standard(phase[d], alg[d], msg[d], out[d], Words(d), Count(d))
    BY FollowsAll, Zenon DEF Follows
  <2>3. phase[d] \in {"none", "absorb", "squeeze"}
    BY DEF IInv, TypeOK
  <2>4. phase[d] # "none" => Words(d)' = Words(d) /\ Count(d)' = Count(d)
    BY <2>1 DEF Words, Count
  <2>5. Standard(phase[d], alg[d], msg[d], out[d], Words(d)', Count(d)')
    BY <2>2, <2>3, <2>4, StandardKept, Zenon
  <2> QED BY <2>1, <2>5, Zenon DEF Follows
<1>2. \A d \in Contexts : Follows(d)'
  BY <1>1
<1> QED BY <1>2 DEF ContextsStandard, Follows

\* An iteration of the loop of absorb.
LEMMA BlockFollows ==
  ASSUME PermuteKeepsStates, IInv, NEW c \in Contexts, Follows(c), AbsorbBlock(c)
  PROVE  Follows(c)' /\ \A d \in Contexts \ {c} : out'[d] = out[d]
<1>0. TypeOK /\ phase[c] = "absorb"
  BY DEF IInv, LoopInv, AbsorbBlock, InLoop
<1> DEFINE n == Missing(c)
           u == SubSeq(m[c], 1, n)
           s == Permute(XorBytes(Words(c), Count(c), u))
<1>1. /\ msg[c] \in Seq(Byte) /\ Words(c) \in States /\ ctx[c] \in Blocks
      /\ Count(c) \in Nat /\ Rate(c) \in Nat /\ alg[c] \in Functions202
  BY <1>0, OwnFields, AlgorithmFacts
<1>2. u \in Seq(Byte) /\ Len(u) = n /\ n \in Nat /\ Count(c) + n = Rate(c)
  <2>1. m[c] \in Seq(Byte) /\ Len(m[c]) \in Nat
    BY <1>0 DEF TypeOK
  <2>2. ~(Len(m[c]) + Count(c) < Rate(c)) /\ Count(c) < Rate(c)
    BY <1>0, OwnFields DEF AbsorbBlock, Fits
  <2>3. n \in Nat /\ n <= Len(m[c]) /\ Count(c) + n = Rate(c)
    BY <1>1, <2>1, <2>2 DEF Missing
  <2> QED BY <2>1, <2>3
<1>3. /\ words' = [words EXCEPT ![ctx[c]] = s] /\ count' = [count EXCEPT ![ctx[c]] = 0]
      /\ msg' = [msg EXCEPT ![c] = msg[c] \o u]
      /\ UNCHANGED <<ctx, phase, alg, out>>
  BY DEF AbsorbBlock, Words
<1>4. Standard("absorb", alg[c], msg[c], out[c], Words(c), Count(c))
  BY <1>0, Zenon DEF Follows
<1>5. Count(c) + Len(u) = alg[c].rate
  BY <1>2 DEF Rate
<1>6. Standard("absorb", alg[c], msg[c] \o u, out[c], s, 0)
  <2> HIDE DEF u
  <2> QED BY <1>1, <1>2, <1>4, <1>5, FillStandard
<1> HIDE DEF n, u, s
<1>7. Words(c)' = s /\ Count(c)' = 0 /\ msg'[c] = msg[c] \o u /\ phase'[c] = "absorb"
      /\ alg'[c] = alg[c] /\ out'[c] = out[c]
  BY <1>0, <1>1, <1>3 DEF TypeOK, Words, Count
<1>8. Follows(c)'
  BY <1>6, <1>7, FollowsNext, Zenon
<1> QED BY <1>3, <1>8

\* The end of absorb.
LEMMA RestFollows ==
  ASSUME PermuteKeepsStates, IInv, NEW c \in Contexts, Follows(c), AbsorbRest(c)
  PROVE  Follows(c)' /\ \A d \in Contexts \ {c} : out'[d] = out[d]
<1>0. TypeOK /\ phase[c] = "absorb"
  BY DEF IInv, LoopInv, AbsorbRest, InLoop
<1> DEFINE u == m[c]
           s == XorBytes(Words(c), Count(c), u)
<1>1. /\ msg[c] \in Seq(Byte) /\ Words(c) \in States /\ ctx[c] \in Blocks
      /\ Count(c) \in Nat /\ Rate(c) \in Nat /\ alg[c] \in Functions202
  BY <1>0, OwnFields, AlgorithmFacts
<1>2. u \in Seq(Byte) /\ Len(u) + Count(c) < alg[c].rate
  BY <1>0 DEF TypeOK, AbsorbRest, Fits, Rate
<1>3. /\ words' = [words EXCEPT ![ctx[c]] = s]
      /\ count' = [count EXCEPT ![ctx[c]] = Count(c) + Len(u)]
      /\ msg' = [msg EXCEPT ![c] = msg[c] \o u]
      /\ UNCHANGED <<ctx, phase, alg, out>>
  BY DEF AbsorbRest, Words, Count
<1>4. Standard("absorb", alg[c], msg[c], out[c], Words(c), Count(c))
  BY <1>0, Zenon DEF Follows
<1>6. Standard("absorb", alg[c], msg[c] \o u, out[c], s, Count(c) + Len(u))
  <2> HIDE DEF u
  <2> QED BY <1>1, <1>2, <1>4, TakeStandard
<1> HIDE DEF u, s
<1>7. Words(c)' = s /\ Count(c)' = Count(c) + Len(u) /\ msg'[c] = msg[c] \o u /\ phase'[c] = "absorb"
      /\ alg'[c] = alg[c] /\ out'[c] = out[c]
  BY <1>0, <1>1, <1>3 DEF TypeOK, Words, Count
<1>8. Follows(c)'
  BY <1>6, <1>7, FollowsNext, Zenon
<1> QED BY <1>3, <1>8

\* The state keccak_inc_finalize leaves.
LEMMA FinalizedFollows ==
  ASSUME PermuteKeepsStates, IInv, NEW c \in Contexts, Follows(c), phase[c] = "absorb"
  PROVE  /\ keccak_inc_finalize(c) = Final(alg[c], msg[c])
         /\ Standard("squeeze", alg[c], msg[c], out[c], keccak_inc_finalize(c), 0)
<1>1. msg[c] \in Seq(Byte) /\ alg[c] \in Functions202
  BY OwnFields, AlgorithmFacts
<1>2. Standard("absorb", alg[c], msg[c], out[c], Words(c), Count(c))
  BY Zenon DEF Follows
<1>3. keccak_inc_finalize(c)
        = XorBytes(XorBytes(Words(c), Count(c), <<alg[c].domain>>), alg[c].rate - 1, <<{7}>>)
  BY DEF keccak_inc_finalize, Rate
<1>4. Final(alg[c], msg[c])
        = XorBytes(XorBytes(Words(c), Count(c), <<alg[c].domain>>), alg[c].rate - 1, <<{7}>>)
  BY <1>1, <1>2, FinalIs
<1>5. Standard("squeeze", alg[c], msg[c], out[c],
               XorBytes(XorBytes(Words(c), Count(c), <<alg[c].domain>>), alg[c].rate - 1, <<{7}>>), 0)
  BY <1>1, <1>2, FinalizeStandard
<1> QED BY <1>3, <1>4, <1>5, Zenon

\* shake*_inc_finalize.
LEMMA FinalizeFollows ==
  ASSUME PermuteKeepsStates, IInv, NEW c \in Contexts, Follows(c), shake_inc_finalize(c)
  PROVE  Follows(c)' /\ \A d \in Contexts \ {c} : out'[d] = out[d]
<1>0. TypeOK /\ phase[c] = "absorb"
  BY DEF IInv, shake_inc_finalize
<1>1. ctx[c] \in Blocks
  BY <1>0, OwnFields
<1>2. /\ words' = [words EXCEPT ![ctx[c]] = keccak_inc_finalize(c)]
      /\ count' = [count EXCEPT ![ctx[c]] = 0] /\ phase' = [phase EXCEPT ![c] = "squeeze"]
      /\ UNCHANGED <<ctx, alg, msg, out>>
  BY DEF shake_inc_finalize
<1>3. Words(c)' = keccak_inc_finalize(c) /\ Count(c)' = 0 /\ phase'[c] = "squeeze"
  BY <1>0, <1>1, <1>2 DEF TypeOK, Words, Count
<1>4. Follows(c)'
  BY <1>0, <1>2, <1>3, FinalizedFollows, FollowsNext, Zenon
<1> QED BY <1>2, <1>4

\* sha3_*_inc_finalize.
LEMMA DigestFollows ==
  ASSUME PermuteKeepsStates, IInv, NEW c \in Contexts, Follows(c), sha3_inc_finalize(c)
  PROVE  Follows(c)' /\ \A d \in Contexts \ {c} : out'[d] = out[d]
<1>0. TypeOK /\ phase[c] = "absorb"
  BY DEF IInv, sha3_inc_finalize
<1> DEFINE o == BytesAt(Permute(keccak_inc_finalize(c)), 0, alg[c].digest)
<1>1. msg[c] \in Seq(Byte) /\ alg[c] \in Functions202
  BY <1>0, OwnFields, AlgorithmFacts
<1>2. /\ phase' = [phase EXCEPT ![c] = "none"] /\ out' = [out EXCEPT ![c] = o]
      /\ UNCHANGED <<alg, msg>>
  BY DEF sha3_inc_finalize
<1>3. o = BytesAt(Permute(Final(alg[c], msg[c])), 0, alg[c].digest)
  BY <1>0, FinalizedFollows, Zenon
<1>4. Standard("none", alg[c], msg[c], o, Words(c)', Count(c)')
  BY <1>1, <1>3, DigestStandard
<1> HIDE DEF o
<1>5. phase'[c] = "none" /\ out'[c] = o /\ alg'[c] = alg[c] /\ msg'[c] = msg[c]
      /\ \A d \in Contexts \ {c} : out'[d] = out[d]
  BY <1>0, <1>2 DEF TypeOK
<1>6. Follows(c)'
  BY <1>4, <1>5, FollowsNext, Zenon
<1> QED BY <1>5, <1>6

\* The first part of squeeze.
LEMMA SqueezeFollows ==
  ASSUME PermuteKeepsStates, IInv, NEW c \in Contexts, Follows(c), inc_squeeze(c)
  PROVE  Follows(c)' /\ \A d \in Contexts \ {c} : out'[d] = out[d]
<1>0. TypeOK /\ phase[c] = "squeeze"
  BY DEF IInv, inc_squeeze
<1>1. /\ ctx[c] \in Blocks /\ Words(c) \in States /\ Count(c) \in Nat /\ Count(c) < alg[c].rate
      /\ out[c] \in Seq(Byte) /\ msg[c] \in Seq(Byte) /\ alg[c] \in Functions202
  BY <1>0, OwnFields, AlgorithmFacts DEF Rate
<1>2. PICK wanted \in Lengths :
        LET i == Least(wanted, Count(c))
        IN /\ out' = [out EXCEPT ![c] = @ \o BytesAt(Words(c), Rate(c) - Count(c), i)]
           /\ count' = [count EXCEPT ![ctx[c]] = @ - i]
  BY DEF inc_squeeze
<1> DEFINE i == Least(wanted, Count(c))
           given == BytesAt(Words(c), alg[c].rate - Count(c), i)
<1>3. i \in Nat /\ i <= Count(c)
  BY <1>1, IncAssumption, LeastFacts
<1>4. Standard("squeeze", alg[c], msg[c], out[c], Words(c), Count(c))
  BY <1>0, Zenon DEF Follows
<1>5. /\ out' = [out EXCEPT ![c] = out[c] \o given]
      /\ count' = [count EXCEPT ![ctx[c]] = Count(c) - i]
      /\ UNCHANGED <<words, ctx, phase, alg, msg>>
  BY <1>2 DEF inc_squeeze, Count, Rate
<1> HIDE DEF i
<1>6. Standard("squeeze", alg[c], msg[c], out[c] \o given, Words(c), Count(c) - i)
  BY <1>1, <1>3, <1>4, GiveStandard
<1> HIDE DEF given
<1>7. /\ Words(c)' = Words(c) /\ Count(c)' = Count(c) - i /\ phase'[c] = "squeeze"
      /\ out'[c] = out[c] \o given /\ alg'[c] = alg[c] /\ msg'[c] = msg[c]
      /\ \A d \in Contexts \ {c} : out'[d] = out[d]
  BY <1>0, <1>1, <1>5 DEF TypeOK, Words, Count
<1>8. Follows(c)'
  BY <1>6, <1>7, FollowsNext, Zenon
<1> QED BY <1>7, <1>8

\* An iteration of its loop.
LEMMA SqueezeBlockFollows ==
  ASSUME PermuteKeepsStates, IInv, NEW c \in Contexts, Follows(c), SqueezeBlock(c)
  PROVE  Follows(c)' /\ \A d \in Contexts \ {c} : out'[d] = out[d]
<1>0. TypeOK /\ phase[c] = "squeeze" /\ Count(c) = 0
  BY DEF IInv, LoopInv, SqueezeBlock, InLoop
<1>1. /\ ctx[c] \in Blocks /\ Words(c) \in States /\ outlen[c] \in Nat /\ Rate(c) \in Nat
      /\ out[c] \in Seq(Byte) /\ msg[c] \in Seq(Byte) /\ alg[c] \in Functions202
  BY <1>0, OwnFields, AlgorithmFacts
<1> DEFINE i == Squeezed(c)
           given == BytesAt(Permute(Words(c)), 0, i)
<1>2. i \in Nat /\ i <= alg[c].rate
  BY <1>1, LeastFacts DEF Squeezed, Rate
<1>3. Standard("squeeze", alg[c], msg[c], out[c], Words(c), 0)
  BY <1>0, Zenon DEF Follows
<1>4. /\ words' = [words EXCEPT ![ctx[c]] = Permute(Words(c))]
      /\ count' = [count EXCEPT ![ctx[c]] = alg[c].rate - i]
      /\ out' = [out EXCEPT ![c] = out[c] \o given]
      /\ UNCHANGED <<ctx, phase, alg, msg>>
  BY DEF SqueezeBlock, Rate
<1> HIDE DEF i
<1>5. Standard("squeeze", alg[c], msg[c], out[c] \o given, Permute(Words(c)), alg[c].rate - i)
  BY <1>1, <1>2, <1>3, NextStandard
<1> HIDE DEF given
<1>6. /\ Words(c)' = Permute(Words(c)) /\ Count(c)' = alg[c].rate - i /\ phase'[c] = "squeeze"
      /\ out'[c] = out[c] \o given /\ alg'[c] = alg[c] /\ msg'[c] = msg[c]
      /\ \A d \in Contexts \ {c} : out'[d] = out[d]
  BY <1>0, <1>1, <1>4 DEF TypeOK, Words, Count
<1>7. Follows(c)'
  BY <1>5, <1>6, FollowsNext, Zenon
<1> QED BY <1>6, <1>7

\* shake*_inc_init and sha3_*_inc_init.
LEMMA InitFollows ==
  ASSUME PermuteKeepsStates, IInv, NEW c \in Contexts, inc_init(c)
  PROVE  Follows(c)' /\ \A d \in Contexts \ {c} : out'[d] = out[d]
<1>0. TypeOK
  BY DEF IInv
<1>1. PICK b \in Blocks : malloc(c, b) /\ words' = [words EXCEPT ![b] = ZeroState]
                                       /\ count' = [count EXCEPT ![b] = 0]
  BY DEF inc_init
<1>2. PICK f \in Algorithms : alg' = [alg EXCEPT ![c] = f]
  BY DEF inc_init
<1>3. Words(c)' = ZeroState /\ Count(c)' = 0
  BY <1>0, <1>1 DEF malloc, TypeOK, Words, Count
<1>4. /\ phase'[c] = "absorb" /\ msg'[c] = <<>> /\ out'[c] = <<>> /\ alg'[c] = f
      /\ \A d \in Contexts \ {c} : out'[d] = out[d]
  BY <1>0, <1>2 DEF inc_init, TypeOK
<1>5. Standard("absorb", f, <<>>, <<>>, ZeroState, 0)
  BY AlgorithmFacts, StartStandard
<1>6. Follows(c)'
  BY <1>3, <1>4, <1>5, FollowsNext, Zenon
<1> QED BY <1>4, <1>6

\* shake*_inc_ctx_release and sha3_*_inc_ctx_release.
LEMMA ReleaseFollows ==
  ASSUME IInv, NEW c \in Contexts, Follows(c), inc_ctx_release(c)
  PROVE  Follows(c)' /\ \A d \in Contexts \ {c} : out'[d] = out[d]
<1>1. phase'[c] = "none" /\ UNCHANGED <<alg, msg, out>>
  BY DEF IInv, TypeOK, inc_ctx_release
<1>2. Standard("none", alg[c], msg[c], out[c], Words(c)', Count(c)')
  BY GoneStandard, Zenon DEF Follows
<1>3. Follows(c)'
  BY <1>1, <1>2, FollowsNext, Zenon
<1> QED BY <1>1, <1>3

\* shake*_inc_ctx_clone and sha3_*_inc_ctx_clone.
LEMMA CloneFollows ==
  ASSUME IInv, NEW c \in Contexts, NEW src \in Contexts, Follows(src), inc_ctx_clone(c, src)
  PROVE  Follows(c)' /\ \A d \in Contexts \ {c} : out'[d] = out[d]
<1>0. TypeOK
  BY DEF IInv
<1>1. PICK b \in Blocks : malloc(c, b) /\ memcpy(b, src)
  BY DEF inc_ctx_clone
<1>2. Words(c)' = Words(src) /\ Count(c)' = Count(src)
  BY <1>0, <1>1 DEF malloc, memcpy, TypeOK, Words, Count
<1>3. /\ phase'[c] = phase[src] /\ alg'[c] = alg[src] /\ msg'[c] = msg[src] /\ out'[c] = out[src]
      /\ \A d \in Contexts \ {c} : out'[d] = out[d]
  BY <1>0 DEF inc_ctx_clone, TypeOK
<1>4. Follows(c)'
  BY <1>2, <1>3, FollowsNext, Zenon DEF Follows
<1> QED BY <1>3, <1>4

\* A step that changes nothing a context is judged by.
LEMMA FollowsSame ==
  ASSUME ContextsStandard, UNCHANGED <<words, count, ctx, phase, alg, msg, out>>
  PROVE  ContextsStandard'
  BY DEF ContextsStandard, Words, Count

\* A step of the incremental functions.
LEMMA IncStandard ==
  ASSUME PermuteKeepsStates, IInv, ContextsStandard, Next
  PROVE  ContextsStandard'
<1>0. \A c \in Contexts : Follows(c)
  BY FollowsAll
<1>1. CASE OutOfMemory
  BY <1>1, FollowsSame DEF OutOfMemory, heap, ghost
<1>2. ASSUME NEW c \in Contexts, inc_absorb(c) PROVE ContextsStandard'
  BY <1>2, FollowsSame DEF inc_absorb, heap, ghost
<1>3. ASSUME NEW c \in Contexts,
             \/ inc_init(c) \/ AbsorbBlock(c) \/ AbsorbRest(c) \/ shake_inc_finalize(c)
             \/ sha3_inc_finalize(c) \/ inc_squeeze(c) \/ SqueezeBlock(c) \/ inc_ctx_release(c)
             \/ \E src \in Contexts : inc_ctx_clone(c, src)
      PROVE  ContextsStandard'
  <2>1. Others(c)
    BY <1>3, OthersKept
  <2>2. Follows(c)' /\ \A d \in Contexts \ {c} : out'[d] = out[d]
    BY <1>0, <1>3, InitFollows, BlockFollows, RestFollows, FinalizeFollows, DigestFollows,
       SqueezeFollows, SqueezeBlockFollows, ReleaseFollows, CloneFollows
  <2> QED BY <2>1, <2>2, FollowsStep
<1> QED BY <1>1, <1>2, <1>3 DEF Next

-----------------------------------------------------------------------------
\* The contexts for blocks and the one-shot functions.

\* A context for blocks follows the standard.
BlockFollowsIt(c) == Standard(BlockPhase(c), blockAlg[c], blockMsg[c], blockOut[c], words[blockCtx[c]], 0)

\* The types of these contexts.
BlockTypes ==
  /\ blockCtx \in [BlockContexts -> Blocks] /\ blockAlg \in [BlockContexts -> Functions202]
  /\ blockMsg \in [BlockContexts -> Seq(Byte)] /\ blockOut \in [BlockContexts -> Seq(Byte)]

\* Both are the invariant.
LEMMA BlocksAll == BlocksInv <=> BlockTypes /\ \A c \in BlockContexts : BlockFollowsIt(c)
  BY DEF BlocksInv, BlockTypes, BlockFollowsIt

\* The blocks of the contexts for blocks are neither free nor of another context.
LEMMA OthersBlocks ==
  ASSUME OwnedInv, NEW d \in live
  PROVE  /\ blockCtx[d] \in allocated
         /\ \A c \in Live : ctx[c] # blockCtx[d]
         /\ \A c \in live : blockCtx[c] = blockCtx[d] => c = d
  BY DEF OwnedInv, Owned

\* A step of the incremental functions writes at most one block, a free one or the one
\* of its context.
LEMMA BlockWordsKept ==
  ASSUME IInv, OwnedInv, BlocksInv, Next, NEW d \in live
  PROVE  words'[blockCtx[d]] = words[blockCtx[d]]
<1>0. TypeOK /\ LoopInv /\ blockCtx[d] \in Blocks /\ blockCtx[d] \in allocated
  BY OthersBlocks DEF IInv, OwnedInv, BlocksInv
<1>1. ASSUME NEW b \in Blocks, b \notin allocated, NEW w, words' = [words EXCEPT ![b] = w]
      PROVE  words'[blockCtx[d]] = words[blockCtx[d]]
  BY <1>0, <1>1 DEF TypeOK
<1>2. ASSUME NEW c \in Contexts, phase[c] # "none", NEW w, words' = [words EXCEPT ![ctx[c]] = w]
      PROVE  words'[blockCtx[d]] = words[blockCtx[d]]
  <2>1. ctx[c] # blockCtx[d]
    BY <1>2, OthersBlocks DEF Live
  <2> QED BY <1>0, <1>2, <2>1 DEF TypeOK
<1>3. CASE OutOfMemory
  BY <1>3 DEF OutOfMemory, heap
<1>4. ASSUME NEW c \in Contexts, inc_init(c) PROVE words'[blockCtx[d]] = words[blockCtx[d]]
  BY <1>1, <1>4 DEF inc_init, malloc
<1>5. ASSUME NEW c \in Contexts, inc_absorb(c) \/ inc_squeeze(c) \/ inc_ctx_release(c)
      PROVE  words'[blockCtx[d]] = words[blockCtx[d]]
  BY <1>5 DEF inc_absorb, inc_squeeze, inc_ctx_release, heap
<1>6. ASSUME NEW c \in Contexts, AbsorbBlock(c) \/ AbsorbRest(c) \/ SqueezeBlock(c)
      PROVE  words'[blockCtx[d]] = words[blockCtx[d]]
  <2>1. phase[c] # "none"
    BY <1>0, <1>6 DEF AbsorbBlock, AbsorbRest, SqueezeBlock, InLoop, LoopInv
  <2>2. PICK w : words' = [words EXCEPT ![ctx[c]] = w]
    BY <1>6 DEF AbsorbBlock, AbsorbRest, SqueezeBlock
  <2> QED BY <1>2, <2>1, <2>2
<1>7. ASSUME NEW c \in Contexts, shake_inc_finalize(c) \/ sha3_inc_finalize(c)
      PROVE  words'[blockCtx[d]] = words[blockCtx[d]]
  <2>1. phase[c] # "none"
    BY <1>7 DEF shake_inc_finalize, sha3_inc_finalize
  <2>2. PICK w : words' = [words EXCEPT ![ctx[c]] = w]
    BY <1>7 DEF shake_inc_finalize, sha3_inc_finalize
  <2> QED BY <1>2, <2>1, <2>2
<1>8. ASSUME NEW c \in Contexts, NEW src \in Contexts, inc_ctx_clone(c, src)
      PROVE  words'[blockCtx[d]] = words[blockCtx[d]]
  <2>1. PICK b \in Blocks : malloc(c, b) /\ memcpy(b, src)
    BY <1>8 DEF inc_ctx_clone
  <2> QED BY <1>1, <2>1 DEF malloc, memcpy
<1> QED BY <1>3, <1>4, <1>5, <1>6, <1>7, <1>8 DEF Next

\* A step that leaves a context for blocks and its words alone.
LEMMA BlockKept ==
  ASSUME NEW d, BlockFollowsIt(d), live' = live \/ (d \in live <=> d \in live'),
         blockAlg'[d] = blockAlg[d], blockMsg'[d] = blockMsg[d], blockOut'[d] = blockOut[d],
         d \in live => words'[blockCtx'[d]] = words[blockCtx[d]]
  PROVE  BlockFollowsIt(d)'
<1>1. BlockPhase(d)' = BlockPhase(d) /\ BlockPhase(d) \in {"none", "absorb", "squeeze"}
  BY DEF BlockPhase
<1>2. BlockPhase(d) # "none" => words'[blockCtx'[d]] = words[blockCtx[d]]
  BY DEF BlockPhase
<1>3. Standard(BlockPhase(d), blockAlg[d], blockMsg[d], blockOut[d], words[blockCtx[d]], 0)
  BY Zenon DEF BlockFollowsIt
<1>4. Standard(BlockPhase(d), blockAlg[d], blockMsg[d], blockOut[d], words'[blockCtx'[d]], 0)
  BY <1>1, <1>2, <1>3, StandardKept, Zenon
<1> QED BY <1>1, <1>4, Zenon DEF BlockFollowsIt

\* A step of the incremental functions keeps all of the process.
LEMMA IncProcess ==
  ASSUME PermuteKeepsStates, ProcessInv, Next, UNCHANGED blockVars
  PROVE  ProcessInv'
<1>0. IInv /\ OwnedInv /\ ContextsStandard /\ BlocksInv /\ OneShotIsStandard
  BY DEF ProcessInv
<1>1. IInv'
  <2>1. TypeOK'
    BY <1>0, TypeStep
  <2> QED BY <1>0, <2>1, OwnershipStep, LoopStep DEF IInv
<1>2. OwnedInv'
  BY <1>0, IncKeeps
<1>3. ContextsStandard'
  BY <1>0, IncStandard
<1>4. BlocksInv'
  <2>1. UNCHANGED <<blockCtx, live, blockAlg, blockMsg, blockOut>>
    BY DEF blockVars
  <2>2. ASSUME NEW d \in BlockContexts PROVE BlockFollowsIt(d)'
    <3>1. d \in live => words'[blockCtx[d]] = words[blockCtx[d]]
      BY <1>0, BlockWordsKept
    <3>2. BlockFollowsIt(d)
      BY <1>0, BlocksAll
    <3> QED BY <2>1, <3>1, <3>2, BlockKept
  <2>3. BlockTypes'
    BY <1>0, <2>1, BlocksAll DEF BlockTypes
  <2> QED BY <2>2, <2>3 DEF BlocksInv, BlockTypes, BlockFollowsIt
<1>5. OneShotIsStandard'
  BY <1>0 DEF OneShotIsStandard, blockVars
<1> QED BY <1>1, <1>2, <1>3, <1>4, <1>5 DEF ProcessInv

\* What a step writes of the heap: at most one block, a free one or one of a context for blocks.
WritesOneBlock ==
  \/ words' = words
  \/ \E b \in Blocks, w \in States :
       /\ words' = [words EXCEPT ![b] = w]
       /\ b \notin allocated \/ \E e \in live : b = blockCtx[e]

\* Such a step leaves the words of the incremental contexts alone.
LEMMA ContextWordsKept ==
  ASSUME IInv, OwnedInv, WritesOneBlock, NEW c \in Contexts, phase[c] # "none"
  PROVE  words'[ctx[c]] = words[ctx[c]]
<1>0. TypeOK /\ c \in Live
  BY DEF IInv, Live
<1>1. ASSUME NEW b \in Blocks, NEW w \in States, words' = [words EXCEPT ![b] = w],
             b \notin allocated \/ \E e \in live : b = blockCtx[e]
      PROVE  words'[ctx[c]] = words[ctx[c]]
  <2>1. ctx[c] \in allocated /\ \A e \in live : ctx[c] # blockCtx[e]
    BY <1>0 DEF OwnedInv, Owned
  <2>2. b # ctx[c]
    BY <1>1, <2>1
  <2> QED BY <1>0, <1>1, <2>2 DEF TypeOK
<1> QED BY <1>1 DEF WritesOneBlock

\* The incremental contexts in a step that writes no more than that.
LEMMA OneGoContexts ==
  ASSUME IInv, OwnedInv, OwnedInv', ContextsStandard, UNCHANGED <<count, ctx, local, ghost>>,
         allocated' \subseteq Blocks, exited' \in BOOLEAN, calls' \in Nat,
         WritesOneBlock
  PROVE  IInv' /\ ContextsStandard'
<1>0. TypeOK /\ CountBelowRate /\ LoopInv
  BY DEF IInv
<1>1. UNCHANGED <<count, ctx, pc, m, outlen, phase, alg, msg, out>>
  BY DEF local, ghost
<1>2. words' \in [Blocks -> States]
  BY <1>0 DEF TypeOK, WritesOneBlock
<1>3. TypeOK'
  BY <1>0, <1>1, <1>2 DEF TypeOK
<1>4. Ownership'
  BY DEF OwnedInv, Owned, Ownership
<1>5. CountBelowRate' /\ LoopInv'
  BY <1>0, <1>1 DEF CountBelowRate, LoopInv, Live, Count, Rate
<1>6. ASSUME NEW c \in Contexts PROVE Follows(c)'
  <2>1. phase[c] # "none" => words'[ctx[c]] = words[ctx[c]]
    BY ContextWordsKept
  <2>2. phase[c] # "none" => Words(c)' = Words(c) /\ Count(c)' = Count(c)
    BY <1>1, <2>1 DEF Words, Count
  <2>3. phase[c] \in {"none", "absorb", "squeeze"}
    BY <1>0 DEF TypeOK
  <2>4. Standard(phase[c], alg[c], msg[c], out[c], Words(c), Count(c))
    BY FollowsAll, Zenon DEF Follows
  <2>5. Standard(phase[c], alg[c], msg[c], out[c], Words(c)', Count(c)')
    BY <2>2, <2>3, <2>4, StandardKept, Zenon
  <2> QED BY <1>1, <2>5, Zenon DEF Follows
<1>7. ContextsStandard'
  BY <1>6 DEF ContextsStandard, Follows
<1> QED BY <1>3, <1>4, <1>5, <1>7 DEF IInv

\* What a step of the functions that take the whole message keeps of the heap.
HeapKept == allocated' \subseteq Blocks /\ exited' \in BOOLEAN /\ calls' \in Nat /\ WritesOneBlock

\* A call counts, and does not end the process.
LEMMA CallKept ==
  ASSUME IInv, OneGo!Call
  PROVE  calls' \in Nat /\ exited \in BOOLEAN /\ allocated \subseteq Blocks
  BY DEF IInv, TypeOK, OneGo!Call

\* A step of one context for blocks.
LEMMA BlocksStep ==
  ASSUME BlocksInv, BlockTypes', NEW c \in BlockContexts, BlockFollowsIt(c)',
         \A d \in BlockContexts \ {c} :
           /\ d \in live <=> d \in live'
           /\ blockAlg'[d] = blockAlg[d] /\ blockMsg'[d] = blockMsg[d] /\ blockOut'[d] = blockOut[d]
           /\ d \in live => words'[blockCtx'[d]] = words[blockCtx[d]]
  PROVE  BlocksInv'
<1>1. ASSUME NEW d \in BlockContexts, d # c PROVE BlockFollowsIt(d)'
  <2>1. BlockFollowsIt(d)
    BY BlocksAll
  <2> QED BY <1>1, <2>1, BlockKept
<1>2. \A d \in BlockContexts : BlockFollowsIt(d)'
  BY <1>1
<1> QED BY <1>2 DEF BlocksInv, BlockTypes, BlockFollowsIt

\* A context for blocks after the step.
LEMMA BlockFollowsNext ==
  ASSUME NEW c, NEW ph, NEW f, NEW ms, NEW o, NEW w, Standard(ph, f, ms, o, w, 0),
         BlockPhase(c)' = ph, blockAlg'[c] = f, blockMsg'[c] = ms, blockOut'[c] = o,
         words'[blockCtx'[c]] = w
  PROVE  BlockFollowsIt(c)'
  BY Zenon DEF BlockFollowsIt

\* A context for blocks in use.
LEMMA LiveBlock ==
  ASSUME BlocksInv, NEW c \in BlockContexts, c \in live
  PROVE  /\ Standard("squeeze", blockAlg[c], blockMsg[c], blockOut[c], words[blockCtx[c]], 0)
         /\ blockAlg[c] \in Functions202 /\ blockMsg[c] \in Seq(Byte) /\ blockOut[c] \in Seq(Byte)
         /\ blockCtx[c] \in Blocks
<1>1. BlockFollowsIt(c) /\ BlockTypes
  BY BlocksAll
<1>2. BlockPhase(c) = "squeeze"
  BY DEF BlockPhase
<1>3. Standard("squeeze", blockAlg[c], blockMsg[c], blockOut[c], words[blockCtx[c]], 0)
  BY <1>1, <1>2, Zenon DEF BlockFollowsIt
<1> QED BY <1>1, <1>3 DEF BlockTypes

\* shake128_absorb and shake256_absorb.
LEMMA AbsorbKeeps ==
  ASSUME PermuteKeepsStates, IInv, OwnedInv, BlocksInv, NEW c \in BlockContexts, OneGo!shake_absorb(c)
  PROVE  HeapKept /\ BlocksInv'
<1>0. TypeOK /\ BlockTypes
  BY BlocksAll DEF IInv
<1>1. PICK b \in Blocks, f \in {g \in Functions202 : g.digest = AnyLength}, input \in Inputs :
        /\ OneGo!malloc(c, b)
        /\ words' = [words EXCEPT ![b] = OneGo!keccak_absorb(f, input)]
        /\ blockAlg' = [blockAlg EXCEPT ![c] = f]
        /\ blockMsg' = [blockMsg EXCEPT ![c] = input] /\ blockOut' = [blockOut EXCEPT ![c] = <<>>]
  BY DEF OneGo!shake_absorb, OneGo!AnyLength, AnyLength
<1>2. /\ c \notin live /\ live' = live \cup {c} /\ exited' = exited /\ OneGo!Call
      /\ UNCHANGED <<output, asked>>
  BY DEF OneGo!shake_absorb
<1>3. b \notin allocated /\ allocated' = allocated \cup {b} /\ blockCtx' = [blockCtx EXCEPT ![c] = b]
  BY <1>1 DEF OneGo!malloc
<1> DEFINE w == OneGo!keccak_absorb(f, input)
<1>4. f \in Functions202 /\ input \in Seq(Byte)
  BY <1>1, ProcessAssumption
<1>5. Standard("squeeze", f, input, <<>>, w, 0) /\ w \in States
  BY <1>4, AbsorbedStandard
<1>6. words' = [words EXCEPT ![b] = w]
  BY <1>1
<1> HIDE DEF w
<1>7. HeapKept
  BY <1>0, <1>2, <1>3, <1>5, <1>6, CallKept DEF HeapKept, WritesOneBlock
<1>8. BlockTypes'
  <2>1. <<>> \in Seq(Byte)
    OBVIOUS
  <2> QED BY <1>0, <1>1, <1>3, <1>4, <2>1 DEF BlockTypes
<1>9. /\ blockAlg'[c] = f /\ blockMsg'[c] = input /\ blockOut'[c] = <<>> /\ blockCtx'[c] = b /\ words'[b] = w
      /\ BlockPhase(c)' = "squeeze"
  BY <1>0, <1>1, <1>2, <1>3, <1>6 DEF TypeOK, BlockTypes, BlockPhase
<1>10. BlockFollowsIt(c)'
  BY <1>5, <1>9, BlockFollowsNext, Zenon
<1>11. ASSUME NEW d \in BlockContexts \ {c}
       PROVE  /\ d \in live <=> d \in live'
              /\ blockAlg'[d] = blockAlg[d] /\ blockMsg'[d] = blockMsg[d] /\ blockOut'[d] = blockOut[d]
              /\ d \in live => words'[blockCtx'[d]] = words[blockCtx[d]]
  <2>1. blockCtx'[d] = blockCtx[d] /\ blockCtx[d] \in Blocks
    BY <1>0, <1>3 DEF BlockTypes
  <2>2. d \in live => blockCtx[d] # b
    BY <1>3, OthersBlocks
  <2>3. d \in live => words'[blockCtx'[d]] = words[blockCtx[d]]
    BY <1>0, <1>6, <2>1, <2>2 DEF TypeOK
  <2> QED BY <1>0, <1>1, <1>2, <2>3 DEF BlockTypes
<1>12. BlocksInv'
  BY <1>8, <1>10, <1>11, BlocksStep
<1> QED BY <1>7, <1>12

\* shake128_squeezeblocks and shake256_squeezeblocks.
LEMMA SqueezeKeeps ==
  ASSUME PermuteKeepsStates, IInv, OwnedInv, BlocksInv, NEW c \in BlockContexts,
         OneGo!shake_squeezeblocks(c)
  PROVE  HeapKept /\ BlocksInv'
<1>0. TypeOK /\ BlockTypes
  BY BlocksAll DEF IInv
<1>1. /\ c \in live /\ OneGo!Call
      /\ UNCHANGED <<allocated, blockCtx, exited, output, live, blockAlg, blockMsg, asked>>
  BY DEF OneGo!shake_squeezeblocks
<1>2. PICK nblocks \in Counts :
        LET squeezed == OneGo!keccak_squeezeblocks(blockAlg[c], nblocks, words[blockCtx[c]])
        IN /\ words' = [words EXCEPT ![blockCtx[c]] = squeezed.state]
           /\ blockOut' = [blockOut EXCEPT ![c] = @ \o squeezed.h]
  BY DEF OneGo!shake_squeezeblocks
<1> DEFINE x == OneGo!keccak_squeezeblocks(blockAlg[c], nblocks, words[blockCtx[c]])
           w == x.state
           o == blockOut[c] \o x.h
<1>3. /\ Standard("squeeze", blockAlg[c], blockMsg[c], blockOut[c], words[blockCtx[c]], 0)
      /\ blockAlg[c] \in Functions202 /\ blockMsg[c] \in Seq(Byte) /\ blockOut[c] \in Seq(Byte)
      /\ blockCtx[c] \in Blocks
  BY <1>1, LiveBlock
<1>4. nblocks \in Nat
  BY ProcessAssumption
<1>5. Standard("squeeze", blockAlg[c], blockMsg[c], o, w, 0) /\ o \in Seq(Byte) /\ w \in States
  BY <1>3, <1>4, BlocksStandard
<1>6. words' = [words EXCEPT ![blockCtx[c]] = w] /\ blockOut' = [blockOut EXCEPT ![c] = o]
  BY <1>2
<1> HIDE DEF w, o, x
<1>7. HeapKept
  BY <1>0, <1>1, <1>3, <1>5, <1>6, CallKept DEF HeapKept, WritesOneBlock
<1>8. BlockTypes'
  BY <1>0, <1>1, <1>5, <1>6 DEF BlockTypes
<1>9. /\ blockAlg'[c] = blockAlg[c] /\ blockMsg'[c] = blockMsg[c] /\ blockOut'[c] = o
      /\ words'[blockCtx'[c]] = w /\ BlockPhase(c)' = "squeeze"
  BY <1>0, <1>1, <1>3, <1>6 DEF TypeOK, BlockTypes, BlockPhase
<1>10. BlockFollowsIt(c)'
  BY <1>5, <1>9, BlockFollowsNext, Zenon
<1>11. ASSUME NEW d \in BlockContexts \ {c}
       PROVE  /\ d \in live <=> d \in live'
              /\ blockAlg'[d] = blockAlg[d] /\ blockMsg'[d] = blockMsg[d] /\ blockOut'[d] = blockOut[d]
              /\ d \in live => words'[blockCtx'[d]] = words[blockCtx[d]]
  <2>1. d \in live => blockCtx[d] # blockCtx[c]
    BY <1>1, <1>11, OthersBlocks
  <2>2. d \in live => words'[blockCtx'[d]] = words[blockCtx[d]]
    BY <1>0, <1>1, <1>6, <2>1 DEF TypeOK, BlockTypes
  <2> QED BY <1>0, <1>1, <1>6, <2>2 DEF BlockTypes
<1>12. BlocksInv'
  BY <1>8, <1>10, <1>11, BlocksStep
<1> QED BY <1>7, <1>12

\* shake128_ctx_clone and shake256_ctx_clone.
LEMMA CloneKeeps ==
  ASSUME IInv, OwnedInv, BlocksInv, NEW c \in BlockContexts, NEW src \in BlockContexts,
         OneGo!shake_ctx_clone(c, src)
  PROVE  HeapKept /\ BlocksInv'
<1>0. TypeOK /\ BlockTypes
  BY BlocksAll DEF IInv
<1>1. PICK b \in Blocks : OneGo!malloc(c, b) /\ words' = [words EXCEPT ![b] = words[blockCtx[src]]]
  BY DEF OneGo!shake_ctx_clone
<1>2. /\ c \notin live /\ src \in live /\ live' = live \cup {c} /\ exited' = exited /\ OneGo!Call
      /\ blockAlg' = [blockAlg EXCEPT ![c] = blockAlg[src]]
      /\ blockMsg' = [blockMsg EXCEPT ![c] = blockMsg[src]]
      /\ blockOut' = [blockOut EXCEPT ![c] = blockOut[src]]
  BY DEF OneGo!shake_ctx_clone
<1>3. b \notin allocated /\ allocated' = allocated \cup {b} /\ blockCtx' = [blockCtx EXCEPT ![c] = b]
  BY <1>1 DEF OneGo!malloc
<1> DEFINE w == words[blockCtx[src]]
<1>4. Standard("squeeze", blockAlg[src], blockMsg[src], blockOut[src], w, 0) /\ w \in States
  BY <1>0, <1>2, LiveBlock DEF TypeOK
<1>5. words' = [words EXCEPT ![b] = w]
  BY <1>1
<1> HIDE DEF w
<1>6. HeapKept
  BY <1>0, <1>2, <1>3, <1>4, <1>5, CallKept DEF HeapKept, WritesOneBlock
<1>7. BlockTypes'
  BY <1>0, <1>2, <1>3 DEF BlockTypes
<1>8. /\ blockAlg'[c] = blockAlg[src] /\ blockMsg'[c] = blockMsg[src] /\ blockOut'[c] = blockOut[src]
      /\ words'[blockCtx'[c]] = w /\ BlockPhase(c)' = "squeeze"
  BY <1>0, <1>2, <1>3, <1>5 DEF TypeOK, BlockTypes, BlockPhase
<1>9. BlockFollowsIt(c)'
  BY <1>4, <1>8, BlockFollowsNext, Zenon
<1>10. ASSUME NEW d \in BlockContexts \ {c}
       PROVE  /\ d \in live <=> d \in live'
              /\ blockAlg'[d] = blockAlg[d] /\ blockMsg'[d] = blockMsg[d] /\ blockOut'[d] = blockOut[d]
              /\ d \in live => words'[blockCtx'[d]] = words[blockCtx[d]]
  <2>1. blockCtx'[d] = blockCtx[d] /\ blockCtx[d] \in Blocks
    BY <1>0, <1>3 DEF BlockTypes
  <2>2. d \in live => blockCtx[d] # b
    BY <1>3, OthersBlocks
  <2>3. d \in live => words'[blockCtx'[d]] = words[blockCtx[d]]
    BY <1>0, <1>5, <2>1, <2>2 DEF TypeOK
  <2> QED BY <1>0, <1>2, <2>3 DEF BlockTypes
<1>11. BlocksInv'
  BY <1>7, <1>9, <1>10, BlocksStep
<1> QED BY <1>6, <1>11

\* shake128_ctx_release and shake256_ctx_release.
LEMMA GiveUpKeeps ==
  ASSUME IInv, BlocksInv, NEW c \in BlockContexts, OneGo!shake_ctx_release(c)
  PROVE  HeapKept /\ BlocksInv'
<1>0. TypeOK /\ BlockTypes /\ BlockFollowsIt(c)
  BY BlocksAll DEF IInv
<1>1. /\ OneGo!Call /\ allocated' = allocated \ {blockCtx[c]} /\ live' = live \ {c}
      /\ UNCHANGED <<words, blockCtx, exited, blockAlg, blockMsg, blockOut>>
  BY DEF OneGo!shake_ctx_release
<1>2. HeapKept
  BY <1>1, CallKept DEF HeapKept, WritesOneBlock
<1>3. BlockPhase(c)' = "none"
  BY <1>1 DEF BlockPhase
<1>4. Standard("none", blockAlg[c], blockMsg[c], blockOut[c], words'[blockCtx'[c]], 0)
  BY <1>0, GoneStandard, Zenon DEF BlockFollowsIt
<1>5. BlockFollowsIt(c)'
  BY <1>1, <1>3, <1>4, BlockFollowsNext, Zenon
<1>6. BlocksInv'
  BY <1>0, <1>1, <1>5, BlocksStep DEF BlockTypes
<1> QED BY <1>2, <1>6

\* A step after which the contexts for blocks and their words are the same.
LEMMA BlocksSame ==
  ASSUME BlocksInv, UNCHANGED <<blockCtx, live, blockAlg, blockMsg, blockOut>>,
         \A d \in live : words'[blockCtx[d]] = words[blockCtx[d]]
  PROVE  BlocksInv'
<1>1. ASSUME NEW d \in BlockContexts PROVE BlockFollowsIt(d)'
  <2>1. BlockFollowsIt(d)
    BY BlocksAll
  <2> QED BY <2>1, BlockKept
<1>2. BlockTypes'
  BY BlocksAll DEF BlockTypes
<1> QED BY <1>1, <1>2 DEF BlocksInv, BlockTypes, BlockFollowsIt

\* shake128 and shake256.
LEMMA ShakeKeeps ==
  ASSUME PermuteKeepsStates, IInv, OwnedInv, BlocksInv, OneGo!shake
  PROVE  HeapKept /\ BlocksInv' /\ OneShotIsStandard'
<1>0. TypeOK /\ BlockTypes
  BY BlocksAll DEF IInv
<1>1. PICK b \in Blocks \ allocated, f \in {g \in Functions202 : g.digest = AnyLength},
           input \in Messages, l \in OutLengths :
        /\ output' = ShakeOutput(f, input, l)
        /\ words' = [words EXCEPT ![b] = ShakeState(f, input, l)]
        /\ asked' = <<f, input, l>>
  BY DEF OneGo!shake, OneGo!AnyLength, AnyLength, ShakeOutput, ShakeState, Remains, Whole202, OneMore202
<1>2. OneGo!Call /\ UNCHANGED <<allocated, blockCtx, exited, live, blockAlg, blockMsg, blockOut>>
  BY DEF OneGo!shake, OneGo!ghost
<1>3. f \in Functions202 /\ input \in Seq(Byte) /\ l \in Nat
  BY ProcessAssumption
<1>4. ShakeOutput(f, input, l) = Output(f, input, l) /\ ShakeState(f, input, l) \in States
  BY <1>3, ShakeIs
<1>5. HeapKept
  BY <1>1, <1>2, <1>4, CallKept DEF HeapKept, WritesOneBlock
<1>6. ASSUME NEW d \in live PROVE words'[blockCtx[d]] = words[blockCtx[d]]
  <2>1. blockCtx[d] \in allocated
    BY OthersBlocks
  <2> QED BY <1>0, <1>1, <2>1 DEF TypeOK
<1>7. BlocksInv'
  BY <1>2, <1>6, BlocksSame
<1>8. asked'[1] = f /\ asked'[2] = input /\ asked'[3] = l
  BY <1>1
<1>9. OneShotIsStandard'
  BY <1>1, <1>4, <1>8 DEF OneShotIsStandard
<1> QED BY <1>5, <1>7, <1>9

\* sha3_256, sha3_384 and sha3_512.
LEMMA Sha3Keeps ==
  ASSUME PermuteKeepsStates, IInv, BlocksInv, OneGo!sha3
  PROVE  HeapKept /\ BlocksInv' /\ OneShotIsStandard'
<1>1. PICK f \in Functions202, input \in Messages :
        /\ output' = SubSeq(OneGo!keccak_squeezeblocks(f, 1, OneGo!keccak_absorb(f, input)).h, 1, f.digest)
        /\ asked' = <<f, input, f.digest>>
  BY DEF OneGo!sha3
<1>2. OneGo!Call /\ UNCHANGED <<words, allocated, blockCtx, exited, live, blockAlg, blockMsg, blockOut>>
  BY DEF OneGo!sha3, OneGo!heap, OneGo!ghost
<1>3. output' = Output(f, input, f.digest)
  BY <1>1, ProcessAssumption, Sha3Is
<1>4. HeapKept
  BY <1>2, CallKept DEF HeapKept, WritesOneBlock
<1>5. BlocksInv'
  BY <1>2, BlocksSame
<1>6. asked'[1] = f /\ asked'[2] = input /\ asked'[3] = f.digest
  BY <1>1
<1>7. OneShotIsStandard'
  BY <1>3, <1>6 DEF OneShotIsStandard
<1> QED BY <1>4, <1>5, <1>7

\* A step of the functions that take the whole message keeps all of the process.
LEMMA OneGoProcess ==
  ASSUME PermuteKeepsStates, ProcessInv, OneGo!Next, UNCHANGED <<count, ctx, local, ghost>>
  PROVE  ProcessInv'
<1>0. IInv /\ OwnedInv /\ ContextsStandard /\ BlocksInv /\ OneShotIsStandard
  BY DEF ProcessInv
<1>1. OwnedInv'
  BY <1>0, OneGoKeeps
<1>2. ASSUME UNCHANGED <<output, asked>> PROVE OneShotIsStandard'
  BY <1>0, <1>2 DEF OneShotIsStandard
<1>3. CASE OneGo!OutOfMemory
  <2>1. /\ OneGo!Call /\ exited' = TRUE
        /\ UNCHANGED <<words, allocated, blockCtx, output, live, blockAlg, blockMsg, blockOut, asked>>
    BY <1>3 DEF OneGo!OutOfMemory, OneGo!heap, OneGo!ghost
  <2>2. HeapKept
    BY <1>0, <2>1, CallKept DEF HeapKept, WritesOneBlock
  <2>3. BlocksInv'
    BY <1>0, <2>1, BlocksSame
  <2> QED BY <1>0, <1>1, <1>2, <2>1, <2>2, <2>3, OneGoContexts DEF HeapKept, ProcessInv
<1>4. ASSUME NEW c \in BlockContexts,
             \/ OneGo!shake_absorb(c) \/ OneGo!shake_squeezeblocks(c) \/ OneGo!shake_ctx_release(c)
             \/ \E src \in BlockContexts : OneGo!shake_ctx_clone(c, src)
      PROVE  ProcessInv'
  <2>1. HeapKept /\ BlocksInv'
    BY <1>0, <1>4, AbsorbKeeps, SqueezeKeeps, GiveUpKeeps, CloneKeeps
  <2>2. UNCHANGED <<output, asked>>
    BY <1>4 DEF OneGo!shake_absorb, OneGo!shake_squeezeblocks, OneGo!shake_ctx_release, OneGo!shake_ctx_clone
  <2> QED BY <1>0, <1>1, <1>2, <2>1, <2>2, OneGoContexts DEF HeapKept, ProcessInv
<1>5. CASE OneGo!OneShot
  <2>1. HeapKept /\ BlocksInv' /\ OneShotIsStandard'
    BY <1>0, <1>5, ShakeKeeps, Sha3Keeps DEF OneGo!OneShot
  <2> QED BY <1>0, <1>1, <2>1, OneGoContexts DEF HeapKept, ProcessInv
<1> QED BY <1>3, <1>4, <1>5 DEF OneGo!Next, OneGo!ContextCall

\* A step in which nothing changes.
LEMMA SameProcess ==
  ASSUME ProcessInv, UNCHANGED allVars
  PROVE  ProcessInv'
<1>1. UNCHANGED <<vars, blockVars>>
  BY DEF allVars
<1>2. UNCHANGED <<words, count, allocated, ctx, pc, m, outlen, exited, phase, alg, msg, out, calls>>
  BY <1>1 DEF vars, heap, local, ghost
<1>3. UNCHANGED <<blockCtx, output, live, blockAlg, blockMsg, blockOut, asked>>
  BY <1>1 DEF blockVars
<1>4. IInv'
  BY <1>2 DEF ProcessInv, IInv, TypeOK, Ownership, CountBelowRate, LoopInv, Live, Count, Rate
<1>5. OwnedInv'
  BY <1>2, <1>3 DEF ProcessInv, OwnedInv, Live
<1>6. ContextsStandard'
  BY <1>2, FollowsSame DEF ProcessInv
<1>7. BlocksInv'
  BY <1>2, <1>3, BlocksSame DEF ProcessInv
<1>8. OneShotIsStandard'
  BY <1>3 DEF ProcessInv, OneShotIsStandard
<1> QED BY <1>4, <1>5, <1>6, <1>7, <1>8 DEF ProcessInv

-----------------------------------------------------------------------------
\* The theorems.

\* The invariant of the process is inductive.
LEMMA ProcessAlways ==
  ASSUME PermuteKeepsStates
  PROVE  ProcessSpec => []ProcessInv
<1>1. ProcessInv /\ [ProcessNext]_allVars => ProcessInv'
  <2> SUFFICES ASSUME ProcessInv, [ProcessNext]_allVars
               PROVE  ProcessInv'
    OBVIOUS
  <2>1. CASE Next /\ UNCHANGED blockVars
    BY <2>1, IncProcess
  <2>2. CASE OneGo!Next /\ UNCHANGED <<count, ctx, local, ghost>>
    BY <2>2, OneGoProcess
  <2>3. CASE UNCHANGED allVars
    BY <2>3, SameProcess
  <2> QED BY <2>1, <2>2, <2>3 DEF ProcessNext, IncStep, OneGoStep, OneGo!Next
<1> QED BY <1>1, InitProcess, PTL DEF ProcessSpec

\* What a context hands out is what FIPS 202 says of its message.
LEMMA StandardIsOutput ==
  ASSUME PermuteKeepsStates, NEW ph, NEW f \in Functions202, NEW ms \in Seq(Byte), NEW o \in Seq(Byte),
         NEW w, NEW n, Standard(ph, f, ms, o, w, n)
  PROVE  o = Output(f, ms, Len(o))
<1>1. o = Stream(f.rate, Final(f, ms), 0, Len(o))
  BY Zenon DEF Standard
<1>2. Len(o) \in Nat
  OBVIOUS
<1>3. Output(f, ms, Len(o)) = Stream(f.rate, Final(f, ms), 0, Len(o))
  BY <1>2, OutputIs
<1> QED BY <1>1, <1>3

\* However message and output are cut into calls of the incremental functions, and however
\* calls for several contexts, clones and releases follow one another, what a context has
\* handed out is the beginning of what FIPS 202 says of the bytes it has absorbed.
THEOREM OutputIsStandardHolds ==
  ASSUME PermuteKeepsStates
  PROVE  ProcessSpec => []OutputIsStandard
<1>1. ProcessInv => OutputIsStandard
  <2> SUFFICES ASSUME ProcessInv, NEW c \in Contexts PROVE out[c] = Output(alg[c], msg[c], Len(out[c]))
    BY DEF OutputIsStandard
  <2>1. alg[c] \in Functions202 /\ msg[c] \in Seq(Byte) /\ out[c] \in Seq(Byte)
    BY AlgorithmFacts DEF ProcessInv, IInv, TypeOK
  <2>2. Standard(phase[c], alg[c], msg[c], out[c], Words(c), Count(c))
    BY Zenon DEF ProcessInv, ContextsStandard
  <2> QED BY <2>1, <2>2, StandardIsOutput
<1> QED BY <1>1, ProcessAlways, PTL

\* The blocks shake128_squeezeblocks and shake256_squeezeblocks hand out, in whatever
\* portions and from whichever clone, are the beginning of the output FIPS 202 defines,
\* and stay so while calls for other contexts use the same heap.
THEOREM BlocksAreStandardHolds ==
  ASSUME PermuteKeepsStates
  PROVE  ProcessSpec => []BlocksAreStandard
<1>1. ProcessInv => BlocksAreStandard
  <2> SUFFICES ASSUME ProcessInv, NEW c \in BlockContexts
               PROVE  blockOut[c] = Output(blockAlg[c], blockMsg[c], Len(blockOut[c]))
    BY DEF BlocksAreStandard
  <2>1. BlockTypes /\ BlockFollowsIt(c)
    BY BlocksAll DEF ProcessInv
  <2>2. blockAlg[c] \in Functions202 /\ blockMsg[c] \in Seq(Byte) /\ blockOut[c] \in Seq(Byte)
    BY <2>1 DEF BlockTypes
  <2>3. Standard(BlockPhase(c), blockAlg[c], blockMsg[c], blockOut[c], words[blockCtx[c]], 0)
    BY <2>1, Zenon DEF BlockFollowsIt
  <2> QED BY <2>2, <2>3, StandardIsOutput
<1> QED BY <1>1, ProcessAlways, PTL

\* shake128, shake256, sha3_256, sha3_384 and sha3_512 compute what FIPS 202 says of every
\* message and every length of the output, the multiples of the rate included.
THEOREM OneShotIsStandardHolds ==
  ASSUME PermuteKeepsStates
  PROVE  ProcessSpec => []OneShotIsStandard
<1>1. ProcessInv => OneShotIsStandard
  BY DEF ProcessInv
<1> QED BY <1>1, ProcessAlways, PTL

\* And between any two calls of either half, the incremental contexts have memory of
\* their own, and their counters are below the rate.
THEOREM ProcessSound ==
  ASSUME PermuteKeepsStates
  PROVE  ProcessSpec => [](TypeOK /\ Ownership /\ CountBelowRate)
<1>1. ProcessInv => TypeOK /\ Ownership /\ CountBelowRate
  BY DEF ProcessInv, IInv
<1> QED BY <1>1, ProcessAlways, PTL

\* A call of the functions that take the whole message writes one block at most.
LEMMA OneGoHeap ==
  ASSUME PermuteKeepsStates, ProcessInv, OneGo!Next
  PROVE  WritesOneBlock
<1>0. IInv /\ OwnedInv /\ BlocksInv
  BY DEF ProcessInv
<1>1. CASE OneGo!OutOfMemory
  BY <1>1 DEF OneGo!OutOfMemory, OneGo!heap, WritesOneBlock
<1>2. CASE OneGo!OneShot
  BY <1>0, <1>2, ShakeKeeps, Sha3Keeps DEF OneGo!OneShot, HeapKept
<1>3. ASSUME NEW c \in BlockContexts,
             \/ OneGo!shake_absorb(c) \/ OneGo!shake_squeezeblocks(c) \/ OneGo!shake_ctx_release(c)
             \/ \E src \in BlockContexts : OneGo!shake_ctx_clone(c, src)
      PROVE  WritesOneBlock
  BY <1>0, <1>3, AbsorbKeeps, SqueezeKeeps, GiveUpKeeps, CloneKeeps DEF HeapKept
<1> QED BY <1>1, <1>2, <1>3 DEF OneGo!Next, OneGo!ContextCall

\* The sponges do not see it.
LEMMA OneGoUnseen ==
  ASSUME PermuteKeepsStates, ProcessInv, OneGo!Next, UNCHANGED <<count, ctx, local, ghost>>
  PROVE  UNCHANGED Sponges!vars
<1>0. IInv /\ OwnedInv /\ WritesOneBlock
  BY OneGoHeap DEF ProcessInv
<1>1. UNCHANGED <<count, ctx, phase, alg, msg, out>>
  BY DEF ghost
<1>2. ASSUME NEW c \in Contexts, phase[c] # "none" PROVE Words(c)' = Words(c)
  BY <1>0, <1>1, <1>2, ContextWordsKept DEF Words
<1>3. \A c \in Contexts : Count(c)' = Count(c) /\ Pending(c)' = Pending(c)
  BY <1>1 DEF Count, Pending
<1>4. SpongeMode' = SpongeMode
  BY <1>1 DEF SpongeMode
<1>5. ASSUME NEW c \in Contexts
      PROVE  (IF phase'[c] = "none" THEN ZeroState
              ELSE IF phase'[c] = "absorb" THEN XorBytes(Words(c)', 0, Pending(c)') ELSE Words(c)')
             = (IF phase[c] = "none" THEN ZeroState
                ELSE IF phase[c] = "absorb" THEN XorBytes(Words(c), 0, Pending(c)) ELSE Words(c))
  BY <1>1, <1>2, <1>3, Zenon
<1>6. SpongeSt' = SpongeSt
  BY <1>5, Zenon DEF SpongeSt
<1>7. SpongeBuf' = SpongeBuf
  BY <1>1, <1>3 DEF SpongeBuf
<1>8. SpongeLeft' = SpongeLeft
  BY <1>1, <1>3 DEF SpongeLeft
<1> QED BY <1>1, <1>4, <1>6, <1>7, <1>8 DEF Sponges!vars

\* The contexts stay sponges of their own when calls of the functions that take the whole
\* message come in between and use the same heap.
THEOREM SpongesInProcess ==
  ASSUME PermuteKeepsStates
  PROVE  ProcessSpec => ImplementsSponges
<1>1. ProcessInit => Sponges!Init
  BY InitStarts DEF ProcessInit
<1>2. ProcessInv /\ ProcessInv' /\ [ProcessNext]_allVars => [Sponges!Next]_(Sponges!vars)
  <2> SUFFICES ASSUME ProcessInv, ProcessInv', [ProcessNext]_allVars
               PROVE  [Sponges!Next]_(Sponges!vars)
    OBVIOUS
  <2>0. IInv /\ IInv'
    BY DEF ProcessInv
  <2>1. CASE Next /\ UNCHANGED blockVars
    BY <2>0, <2>1, StepIsSpongeStep
  <2>2. CASE OneGo!Next /\ UNCHANGED <<count, ctx, local, ghost>>
    BY <2>2, OneGoUnseen
  <2>3. CASE UNCHANGED allVars
    <3>1. UNCHANGED vars
      BY <2>3 DEF allVars
    <3> QED BY <3>1, Unseen DEF vars, heap, ghost
  <2> QED BY <2>1, <2>2, <2>3 DEF ProcessNext, IncStep, OneGoStep, OneGo!Next
<1> QED BY <1>1, <1>2, ProcessAlways, PTL DEF ProcessSpec, ImplementsSponges, Sponges!Spec
=============================================================================
