----------------------------- MODULE RandProofs -----------------------------
(***************************************************************************)
(* Proofs about the random generator and its cipher.  The loops over bytes *)
(* and blocks of Drbg keep a counter modulo the number of blocks, no block *)
(* is encrypted twice in a call, and the generator is the one of CtrDrbg.  *)
(* The bitsliced cipher of AesCt is the one of FIPS-197: its circuit works *)
(* on every bit position alone, so the 256 inputs of SboxAssumption are    *)
(* all there is to the S-box, and every other operation only moves bits.   *)
(* The three builds of AES_128_CTR write one key stream: their schedules   *)
(* have the same round keys, their instructions are the rounds of the      *)
(* standard, and their counters carry from byte to byte.                   *)
(***************************************************************************)
EXTENDS Drbg, Aes, SliceProofs

-----------------------------------------------------------------------------
(* Arithmetic *)

LEMMA DivRem ==
  ASSUME NEW b \in Nat \ {0}, NEW i \in Nat
  PROVE  i \div b \in Nat /\ i % b \in 0 .. b - 1 /\ i = (b * (i \div b)) + (i % b)
<1> DEFINE quot == i \div b
           t == i % b
<1>1. quot \in Nat OBVIOUS
<1>2. t \in 0 .. b - 1 OBVIOUS
<1>3. i = t + b * quot OBVIOUS
<1> HIDE DEF quot, t
<1>4. b * quot \in Nat BY <1>1
<1>5. t + b * quot = (b * quot) + t BY <1>2, <1>4
<1>6. quot \in Nat /\ t \in 0 .. b - 1 /\ i = (b * quot) + t BY <1>1, <1>2, <1>3, <1>5
<1> QED BY <1>6 DEF quot, t

LEMMA DivUnique ==
  ASSUME NEW b \in Nat \ {0}, NEW n \in Nat, NEW r \in 0 .. b - 1
  PROVE  ((b * n) + r) \div b = n /\ ((b * n) + r) % b = r
<1> DEFINE i == (b * n) + r
           quot == i \div b
           t == i % b
<1>1. b * n \in Nat OBVIOUS
<1>2. i \in Nat BY <1>1
<1> HIDE DEF i
<1>3. quot \in Nat /\ t \in 0 .. b - 1 /\ i = (b * quot) + t BY <1>2, DivRem
<1> HIDE DEF quot, t
<1>4. (b * quot) + t = (b * n) + r BY <1>3 DEF i
<1>5. quot = n /\ t = r BY <1>3, <1>4, DigitsUnique
<1> QED BY <1>5 DEF i, quot, t

LEMMA ModAdd ==
  ASSUME NEW m \in Nat \ {0}, NEW x \in Nat, NEW y \in Nat
  PROVE  ((x % m) + y) % m = (x + y) % m
<1> DEFINE quot == x \div m
           r == x % m
           z == r + y
           p == z \div m
           t == z % m
<1>1. quot \in Nat /\ r \in 0 .. m - 1 /\ x = (m * quot) + r BY DivRem
<1> HIDE DEF quot, r
<1>2. z \in Nat BY <1>1
<1> HIDE DEF z
<1>3. p \in Nat /\ t \in 0 .. m - 1 /\ z = (m * p) + t BY <1>2, DivRem
<1> HIDE DEF p, t
<1>4. m * quot \in Nat /\ m * p \in Nat /\ m * (quot + p) = (m * quot) + (m * p) BY <1>1, <1>3
<1>5. x + y = (m * (quot + p)) + t BY <1>1, <1>3, <1>4 DEF z
<1>6. quot + p \in Nat BY <1>1, <1>3
<1>7. ((m * (quot + p)) + t) % m = t BY <1>3, <1>6, DivUnique, Zenon
<1> QED BY <1>5, <1>7 DEF t, z, r

LEMMA MulLess ==
  ASSUME NEW b \in Nat \ {0}, NEW x \in Nat, NEW y \in Nat, x < y
  PROVE  (b * x) + b <= b * y
<1> DEFINE d == y - x - 1
<1>1. d \in Nat /\ y = x + 1 + d OBVIOUS
<1> HIDE DEF d
<1>2. b * (x + 1 + d) = (b * x) + b + (b * d) BY <1>1
<1>3. b * d \in Nat BY <1>1
<1>4. b * x \in Nat OBVIOUS
<1> QED BY <1>1, <1>2, <1>3, <1>4

LEMMA ModSucc ==
  ASSUME NEW p \in Nat, NEW f \in 0 .. p
  PROVE  (f + 1) % (p + 1) = IF f < p THEN f + 1 ELSE 0
  OBVIOUS

\* BlockNumbers less than m apart are different modulo m.
LEMMA ModDistinct ==
  ASSUME NEW m \in Nat \ {0}, NEW x \in Nat, NEW i \in Nat, NEW j \in Nat, i < j, j - i < m
  PROVE  (x + i) % m # (x + j) % m
<1> SUFFICES ASSUME (x + i) % m = (x + j) % m PROVE FALSE
  OBVIOUS
<1> DEFINE quot == (x + i) \div m
           p == (x + j) \div m
           r == (x + i) % m
<1>1. x + i \in Nat /\ x + j \in Nat OBVIOUS
<1>2. quot \in Nat /\ r \in 0 .. m - 1 /\ x + i = (m * quot) + r BY <1>1, DivRem
<1>3. p \in Nat /\ x + j = (m * p) + r BY <1>1, DivRem
<1> HIDE DEF quot, p, r
<1>4. m * quot \in Nat /\ m * p \in Nat /\ m * p = (m * quot) + (j - i) BY <1>2, <1>3
<1>5. j - i \in 0 .. m - 1 /\ 0 \in 0 .. m - 1 /\ (m * quot) + (j - i) = (m * p) + 0 BY <1>4
<1> DEFINE d == j - i
           z == 0
<1>6. d \in 0 .. m - 1 /\ z \in 0 .. m - 1 /\ (m * quot) + d = (m * p) + z BY <1>5
<1> HIDE DEF d, z
<1>7. quot \in Nat /\ p \in Nat BY <1>2, <1>3
<1>8. d = z BY <1>6, <1>7, DigitsUnique
<1> QED BY <1>8 DEF d, z

-----------------------------------------------------------------------------
(* The carry *)

\* The loop over j adds one, and from the last block goes on with the first.
LEMMA IncrementAddsOne ==
  ASSUME NEW v \in Blocks
  PROVE  /\ IncrementV(v) \in Blocks
         /\ Number(ByteBase, IncrementV(v)) = (Number(ByteBase, v) + 1) % Counters
<1> DEFINE B == ByteBase
           n == BlockLen
           w == IncrementV(v)
           t == [j \in 0 .. n - 1 |-> B - 1]
           Carry(j) == \A l \in j .. n - 1 : v[l] = B - 1
<1>0. B \in Nat \ {0} /\ n \in Nat \ {0} BY DrbgAssumption
<1>1. v \in SliceOf(n, 0 .. B - 1) /\ \A j \in 0 .. n - 1 : v[j] \in 0 .. B - 1
  BY DEF Blocks, Byte, SliceOf
<1>2. \A j \in 0 .. n - 1 : w[j] = IF Carry(j + 1) THEN (v[j] + 1) % B ELSE v[j]
  BY DEF IncrementV
<1>3. w \in SliceOf(n, 0 .. B - 1)
  <2>1. \A x \in 0 .. B - 1 : (x + 1) % B \in 0 .. B - 1 BY <1>0
  <2> QED BY <1>1, <2>1 DEF IncrementV, SliceOf
<1>4. t \in SliceOf(n, 0 .. B - 1) /\ \A j \in 0 .. n - 1 : t[j] = B - 1 BY <1>0 DEF SliceOf
<1>5. Counters = Number(B, t) + 1 BY DEF Counters
<1> HIDE DEF w, t, B, n
<1>6. PICK f : Horner(B, n, v, f) /\ Number(B, v) = f[n] BY <1>0, <1>1, NumberIsHorner
<1>7. PICK g : Horner(B, n, w, g) /\ Number(B, w) = g[n] BY <1>0, <1>3, NumberIsHorner
<1>8. PICK p : Horner(B, n, t, p) /\ Number(B, t) = p[n] BY <1>0, <1>4, NumberIsHorner
<1> DEFINE Sum(j) == /\ f[j] <= p[j]
                     /\ Carry(j) => \/ g[j] = f[j] + 1 /\ f[j] < p[j]
                                    \/ g[j] = 0 /\ f[j] = p[j]
                     /\ ~Carry(j) => g[j] = f[j]
           T == {j \in 0 .. n : Sum(j)}
<1>9. 0 \in T
  <2>1. f[0] = 0 /\ g[0] = 0 /\ p[0] = 0 BY <1>6, <1>7, <1>8 DEF Horner
  <2>2. 0 \in 0 .. n BY <1>0
  <2> QED BY <2>1, <2>2
<1>10. ASSUME NEW j \in 1 .. n, j - 1 \in T PROVE j \in T
  <2> DEFINE i == j - 1
  <2>0. j \in 0 .. n /\ i \in 0 .. n - 1 /\ i + 1 = j BY <1>0
  <2>1. /\ f[i] \in Nat /\ g[i] \in Nat /\ p[i] \in Nat
    BY <1>0, <1>6, <1>7, <1>8, <2>0 DEF Horner
  <2>2. /\ f[j] = (B * f[i]) + v[i] /\ g[j] = (B * g[i]) + w[i] /\ p[j] = (B * p[i]) + (B - 1)
    BY <1>4, <1>6, <1>7, <1>8, <2>0 DEF Horner
  <2>3. v[i] \in 0 .. B - 1 BY <1>1, <2>0
  <2>5. Sum(i) BY <1>10
  <2>c. f[i] <= p[i] BY <2>5
  <2> HIDE DEF i
  <2>4. /\ B * f[i] \in Nat /\ B * g[i] \in Nat /\ B * p[i] \in Nat BY <1>0, <2>1
  <2>6. f[i] <= p[i] => B * f[i] <= B * p[i] BY <1>0, <2>1
  <2>7. f[i] < p[i] => (B * f[i]) + B <= B * p[i] BY <1>0, <2>1, MulLess, Zenon
  <2>8. Carry(i) <=> Carry(j) /\ v[i] = B - 1
    <3>1. i .. n - 1 = {i} \cup (j .. n - 1) BY <1>0, <2>0
    <3> QED BY <3>1
  <2>9. w[i] = IF Carry(j) THEN (v[i] + 1) % B ELSE v[i] BY <1>2, <2>0
  <2>f. f[j] <= p[j] BY <1>0, <2>c, <2>1, <2>2, <2>3, <2>4, <2>6
  <2> HIDE DEF Carry
  <2>10. CASE ~Carry(j)
    <3>1. g[i] = f[i] BY <2>5, <2>8, <2>10
    <3> QED BY <2>f, <2>0, <2>2, <2>9, <2>10, <3>1
  <2>11. CASE Carry(j) /\ v[i] # B - 1
    <3>1. g[i] = f[i] BY <2>5, <2>8, <2>11
    <3>2. w[i] = v[i] + 1 BY <1>0, <2>3, <2>9, <2>11
    <3>3. g[j] = f[j] + 1 BY <2>2, <2>3, <2>4, <3>1, <3>2
    <3>4. f[j] < p[j] BY <1>0, <2>2, <2>3, <2>4, <2>c, <2>6, <2>11
    <3> QED BY <2>f, <2>0, <2>11, <3>3, <3>4
  <2>12. CASE Carry(j) /\ v[i] = B - 1
    <3>1. w[i] = 0 BY <1>0, <2>9, <2>12
    <3>2. CASE g[i] = f[i] + 1 /\ f[i] < p[i]
      <4>1. B * (f[i] + 1) = (B * f[i]) + B BY <1>0, <2>1
      <4>2. g[j] = f[j] + 1 /\ f[j] < p[j] BY <1>0, <2>2, <2>4, <2>7, <2>12, <3>1, <3>2, <4>1
      <4> QED BY <2>f, <2>0, <2>12, <4>2
    <3>3. CASE g[i] = 0 /\ f[i] = p[i]
      <4>1. B * 0 = 0 BY <1>0
      <4>2. g[j] = 0 /\ f[j] = p[j] BY <1>0, <2>2, <2>4, <2>12, <3>1, <3>3, <4>1
      <4> QED BY <2>f, <2>0, <2>12, <4>2
    <3> QED BY <2>5, <2>8, <2>12, <3>2, <3>3
  <2> QED BY <2>10, <2>11, <2>12
<1> HIDE DEF T
<1>11. n \in T
  <2>1. \A j \in 0 .. n : j \in T BY <1>0, <1>9, <1>10, BoundedInduction, Zenon
  <2> QED BY <1>0, <2>1
<1>12. /\ f[n] <= p[n]
       /\ \/ g[n] = f[n] + 1 /\ f[n] < p[n]
          \/ g[n] = 0 /\ f[n] = p[n]
  <2>1. n .. n - 1 = {} BY <1>0
  <2> QED BY <1>11, <2>1 DEF T
<1>13. f[n] \in Nat /\ p[n] \in Nat BY <1>0, <1>6, <1>8 DEF Horner
<1>14. g[n] = (f[n] + 1) % (p[n] + 1)
  <2>1. (f[n] + 1) % (p[n] + 1) = IF f[n] < p[n] THEN f[n] + 1 ELSE 0
    BY <1>12, <1>13, ModSucc
  <2> QED BY <1>12, <1>13, <2>1
<1>15. Number(B, w) = (Number(B, v) + 1) % Counters BY <1>5, <1>6, <1>7, <1>8, <1>14
<1> QED BY <1>3, <1>15 DEF w, B, n, Blocks, Byte

-----------------------------------------------------------------------------
(* The invariant *)

N(v) == Number(ByteBase, v)
KS(k, c, len) == Mode!KeyStream(k, c, len)
BlocksFor(len) == (len + BlockLen - 1) \div BlockLen

\* What was encrypted under Key are some of the n blocks after the number c.
Numbered(c, n) ==
  \A b \in encrypted : b \in Blocks /\ \E i \in 1 .. n : N(b) = (c + i) % Counters

\* A request of len bytes after n blocks.
Generating(len, n) ==
  /\ Key = entry.Key /\ asked = <<len>>
  /\ xlen \in 0 .. len
  /\ value = KS(Key, N(entry.V), len - xlen)
  /\ N(V) = (N(entry.V) + n) % Counters
  /\ IF xlen = 0 THEN n = BlocksFor(len) ELSE len - xlen = BlockLen * n
  /\ Numbered(N(entry.V), n)

\* An update after m blocks; from is the number it started at.
Updating(from, m) ==
  /\ temp = KS(Key, from, BlockLen * m) /\ temp \in SliceOf(BlockLen * m, Byte)
  /\ N(V) = (from + m) % Counters

Seeding(m) ==
  /\ \E e, p \in Seeds : provided_data = XorSlices(e, p) /\ asked = <<e, p>>
  /\ Key = Zeros(KeyLen) /\ value = <<>>
  /\ Updating(0, m)
  /\ Numbered(0, m)

Rekeying(len, m) ==
  /\ provided_data = <<>> /\ asked = <<len>>
  /\ Key = entry.Key /\ value = KS(Key, N(entry.V), len)
  /\ Updating((N(entry.V) + BlocksFor(len)) % Counters, m)
  /\ Numbered(N(entry.V), BlocksFor(len) + m)

TypeOK ==
  /\ Key \in Keys /\ V \in Blocks
  /\ entry \in [Key : Keys, V : Blocks]
  /\ pc \in {"idle", "generate", "update"}

Inv ==
  /\ TypeOK
  /\ pc = "idle" => encrypted = {}
  /\ pc = "generate" => \E len \in Lengths, n \in 0 .. Counters : Generating(len, n)
  /\ pc = "update" => \E m \in 0 .. 3 : Seeding(m) \/ \E len \in Lengths : Rekeying(len, m)

-----------------------------------------------------------------------------
(* Blocks, numbers and key streams *)

LEMMA BlockNumbers ==
  /\ Counters \in Nat \ {0}
  /\ \A v \in Blocks : N(v) \in 0 .. Counters - 1
  /\ \A u, v \in Blocks : N(u) = N(v) => u = v
<1>0. ByteBase \in Nat \ {0} /\ BlockLen \in Nat BY DrbgAssumption
<1>1. Blocks = SliceOf(BlockLen, 0 .. ByteBase - 1) BY DEF Blocks, Byte
<1>2. ASSUME NEW v \in Blocks PROVE N(v) \in 0 .. Counters - 1 /\ Counters \in Nat \ {0}
  <2> DEFINE p == Number(ByteBase, [j \in 0 .. BlockLen - 1 |-> ByteBase - 1])
  <2>1. N(v) \in Nat /\ p \in Nat /\ N(v) <= p
    BY <1>0, <1>1, NumberBound, Zenon DEF N
  <2>2. Counters = p + 1 BY DEF Counters
  <2> HIDE DEF p
  <2> QED BY <2>1, <2>2
<1>3. ASSUME NEW u \in Blocks, NEW v \in Blocks, N(u) = N(v) PROVE u = v
  BY <1>0, <1>1, <1>3, NumberInjective DEF N
<1>4. Zeros(BlockLen) \in Blocks BY <1>0, <1>1 DEF Zeros, SliceOf
<1> QED BY <1>2, <1>3, <1>4

LEMMA ZeroIsZero == Zeros(BlockLen) \in Blocks /\ N(Zeros(BlockLen)) = 0
<1> DEFINE s == Zeros(BlockLen)
           B == ByteBase
           n == BlockLen
<1>0. B \in Nat \ {0} /\ n \in Nat BY DrbgAssumption
<1>1. s \in SliceOf(n, 0 .. B - 1) /\ \A i \in 0 .. n - 1 : s[i] = 0 BY <1>0 DEF Zeros, SliceOf
<1> HIDE DEF s, B, n
<1>2. PICK f : Horner(B, n, s, f) /\ Number(B, s) = f[n] BY <1>0, <1>1, NumberIsHorner
<1> DEFINE T == {i \in 0 .. n : f[i] = 0}
<1>3. 0 \in T BY <1>0, <1>2 DEF Horner
<1>4. ASSUME NEW i \in 1 .. n, i - 1 \in T PROVE i \in T
  <2>1. f[i] = (B * f[i - 1]) + s[i - 1] /\ f[i - 1] = 0 BY <1>2, <1>4 DEF Horner
  <2>2. s[i - 1] = 0 BY <1>0, <1>1
  <2>3. B * 0 = 0 BY <1>0
  <2> QED BY <1>0, <2>1, <2>2, <2>3
<1> HIDE DEF T
<1>5. n \in T
  <2>1. \A i \in 0 .. n : i \in T BY <1>0, <1>3, <1>4, BoundedInduction, Zenon
  <2> QED BY <1>0, <2>1
<1>6. Number(B, s) = 0 BY <1>2, <1>5 DEF T
<1> QED BY <1>1, <1>6 DEF s, B, n, N, Blocks, Byte

LEMMA ModeNumbers ==
  /\ Mode!Counters = Counters /\ Mode!Blocks = Blocks /\ Mode!KeyLen = KeyLen
  /\ \A b, s : Mode!Number(b, s) = Number(b, s)
<1>1. \A s : Mode!SliceLen(s) = SliceLen(s)
  BY Zenon DEF Mode!SliceLen, SliceLen, Mode!Cardinality, Cardinality
<1>2. \A b, s : Mode!Number(b, s) = Number(b, s) BY <1>1, Zenon DEF Mode!Number, Number
<1>3. Mode!Counters = Counters BY <1>2, Zenon DEF Mode!Counters, Counters
<1>4. Mode!Blocks = Blocks BY DEF Mode!Blocks, Blocks, Mode!SliceOf, SliceOf, Mode!Byte, Byte
<1>5. Mode!KeyLen = KeyLen BY DEF Mode!KeyLen, KeyLen
<1> QED BY <1>2, <1>3, <1>4, <1>5, Zenon

\* A block is found again by its number.
LEMMA BlockOfNumber == ASSUME NEW v \in Blocks PROVE Mode!Block(N(v)) = v
<1>1. Mode!Block(N(v)) = CHOOSE b \in Blocks : Number(ByteBase, b) = N(v)
  BY ModeNumbers DEF Mode!Block
<1> DEFINE b == CHOOSE b \in Blocks : N(b) = N(v)
<1>2. b \in Blocks /\ N(b) = N(v) OBVIOUS
<1>3. b = v BY <1>2, BlockNumbers
<1> QED BY <1>1, <1>3 DEF N

LEMMA StreamIs ==
  ASSUME NEW k, NEW c, NEW len
  PROVE  KS(k, c, len) =
           [i \in 0 .. len - 1 |->
              Aes(k, Mode!Block((c + 1 + (i \div BlockLen)) % Counters))[i % BlockLen]]
  BY ModeNumbers DEF KS, Mode!KeyStream

LEMMA LenOfStream ==
  ASSUME NEW k, NEW c, NEW len \in Nat
  PROVE  SliceLen(KS(k, c, len)) = len
<1> DEFINE s == KS(k, c, len)
           S == {s[i] : i \in 0 .. len - 1}
<1>1. s \in SliceOf(len, S) BY StreamIs DEF SliceOf
<1> HIDE DEF s, S
<1>2. SliceLen(s) = len BY <1>1, LenOfSlice, Zenon
<1> QED BY <1>2 DEF s

LEMMA EmptyStream == ASSUME NEW k, NEW c PROVE KS(k, c, 0) = <<>>
<1>1. 0 .. 0 - 1 = {} OBVIOUS
<1> QED BY <1>1, StreamIs

\* f is s followed by t.
Joins(f, p, s, m, t, n) ==
  /\ SliceLen(s) = m /\ SliceLen(t) = n /\ p = m + n /\ f = [i \in 0 .. p - 1 |-> f[i]]
  /\ \A i \in 0 .. m - 1 : f[i] = s[i]
  /\ \A i \in 0 .. n - 1 : f[m + i] = t[i]

LEMMA ConcatIs ==
  ASSUME NEW m \in Nat, NEW n \in Nat, NEW p, NEW s, NEW t, NEW f, Joins(f, p, s, m, t, n)
  PROVE  Concat(s, t) = f
<1> USE DEF Joins
<1> DEFINE g == Concat(s, t)
<1>1. g = [i \in 0 .. m + n - 1 |-> IF i < m THEN s[i] ELSE t[i - m]] BY DEF Concat
<1>2. m + n - 1 = p - 1 OBVIOUS
<1>3. ASSUME NEW i \in 0 .. p - 1 PROVE (IF i < m THEN s[i] ELSE t[i - m]) = f[i]
  <2>1. CASE i < m
    <3>1. i \in 0 .. m - 1 BY <2>1
    <3>2. f[i] = s[i] BY <3>1
    <3> QED BY <2>1, <3>2
  <2>2. CASE ~(i < m)
    <3>1. i - m \in 0 .. n - 1 /\ m + (i - m) = i BY <2>2
    <3> QED BY <2>2, <3>1
  <2> QED BY <2>1, <2>2
<1> HIDE DEF g
<1>4. DOMAIN g = 0 .. p - 1 /\ g = [i \in DOMAIN g |-> g[i]] BY <1>1, <1>2
<1>5. \A i \in 0 .. p - 1 : g[i] = f[i] BY <1>1, <1>2, <1>3
<1>6. DOMAIN f = 0 .. p - 1 OBVIOUS
<1>7. g = f BY <1>4, <1>5, <1>6
<1> QED BY <1>7 DEF g

\* The stream grows by the block of the next number, or by the start of it.
LEMMA StreamGrows ==
  ASSUME NEW k \in Keys, NEW c \in Nat, NEW n \in Nat, NEW v \in Blocks,
         N(v) = (c + n + 1) % Counters, NEW x \in 1 .. BlockLen
  PROVE  Concat(KS(k, c, BlockLen * n), Slice(Aes(k, v), 0, x)) = KS(k, c, (BlockLen * n) + x)
<1> DEFINE L == BlockLen * n
           s == KS(k, c, L)
           t == Slice(Aes(k, v), 0, x)
           M == L + x
           u == KS(k, c, M)
           At(i) == Aes(k, Mode!Block((c + 1 + (i \div BlockLen)) % Counters))[i % BlockLen]
<1>0. BlockLen \in Nat \ {0} BY DrbgAssumption
<1>1. L \in Nat BY <1>0
<1> HIDE DEF L, M
<1>2. s = [i \in 0 .. L - 1 |-> At(i)] /\ u = [i \in 0 .. M - 1 |-> At(i)] BY StreamIs
<1>3. SliceLen(s) = L BY <1>1, LenOfStream
<1>4. t = [i \in 0 .. x - 1 |-> Aes(k, v)[i]] BY DEF Slice
<1>5. SliceLen(t) = x
  <2>1. t \in SliceOf(x, {t[i] : i \in 0 .. x - 1}) BY <1>4 DEF SliceOf
  <2> HIDE DEF t
  <2>2. x \in Nat OBVIOUS
  <2> QED BY <2>1, <2>2, LenOfSlice, Zenon
<1>6. ASSUME NEW r \in 0 .. x - 1 PROVE At(L + r) = Aes(k, v)[r]
  <2>1. r \in 0 .. BlockLen - 1 BY <1>0
  <2>2. (L + r) \div BlockLen = n /\ (L + r) % BlockLen = r
    BY <1>0, <2>1, DivUnique, Zenon DEF L
  <2>3. c + 1 + n = c + n + 1 OBVIOUS
  <2>4. Mode!Block((c + 1 + n) % Counters) = v BY <2>3, BlockOfNumber
  <2> QED BY <2>2, <2>4
<1> HIDE DEF At, s, t, u
<1>7. \A i \in 0 .. L - 1 : u[i] = s[i]
  <2>1. \A i \in 0 .. L - 1 : i \in 0 .. M - 1 BY <1>1 DEF M
  <2> QED BY <1>2, <2>1
<1>8. \A i \in 0 .. x - 1 : u[L + i] = t[i]
  <2>1. \A i \in 0 .. x - 1 : L + i \in 0 .. M - 1 BY <1>1 DEF M
  <2> QED BY <1>2, <1>4, <1>6, <2>1
<1>9. Concat(s, t) = u
  <2>1. x \in Nat /\ M = L + x BY DEF M
  <2> HIDE DEF M
  <2>2. u = [i \in 0 .. M - 1 |-> u[i]] BY <1>2
  <2>3. Joins(u, M, s, L, t, x) BY <1>3, <1>5, <1>7, <1>8, <2>1, <2>2 DEF Joins
  <2> QED BY <1>1, <2>1, <2>3, ConcatIs, Zenon
<1> QED BY <1>9 DEF s, t, u, L, M

LEMMA WholeBlock == ASSUME NEW b \in Blocks PROVE Slice(b, 0, BlockLen) = b
<1>0. BlockLen \in Nat BY DrbgAssumption
<1>1. b = [i \in 0 .. BlockLen - 1 |-> b[i]] BY DEF Blocks, SliceOf
<1>2. BlockLen - 0 - 1 = BlockLen - 1 /\ \A i \in 0 .. BlockLen - 1 : 0 + i = i BY <1>0
<1> QED BY <1>1, <1>2 DEF Slice

LEMMA ConcatType ==
  ASSUME NEW S, NEW m \in Nat, NEW n \in Nat, NEW s \in SliceOf(m, S), NEW t \in SliceOf(n, S)
  PROVE  Concat(s, t) \in SliceOf(m + n, S)
<1>1. SliceLen(s) = m /\ SliceLen(t) = n BY LenOfSlice
<1>2. ASSUME NEW i \in 0 .. m + n - 1 PROVE (IF i < m THEN s[i] ELSE t[i - m]) \in S
  <2>1. CASE i < m BY <2>1 DEF SliceOf
  <2>2. CASE ~(i < m)
    <3>1. i - m \in 0 .. n - 1 BY <2>2
    <3> QED BY <2>2, <3>1 DEF SliceOf
  <2> QED BY <2>1, <2>2
<1> QED BY <1>1, <1>2 DEF Concat, SliceOf

LEMMA SliceType ==
  ASSUME NEW S, NEW n \in Nat, NEW s \in SliceOf(n, S),
         NEW from \in 0 .. n, NEW to \in from .. n
  PROVE  Slice(s, from, to) \in SliceOf(to - from, S)
<1>1. ASSUME NEW i \in 0 .. to - from - 1 PROVE s[from + i] \in S
  <2>1. from + i \in 0 .. n - 1 OBVIOUS
  <2> QED BY <2>1 DEF SliceOf
<1> QED BY <1>1 DEF Slice, SliceOf

\* The number of blocks a request takes.
LEMMA BlocksForRequest ==
  ASSUME NEW len \in Lengths, NEW n \in Nat, BlockLen * n < len
  PROVE  /\ n < BlocksFor(len)
         /\ len - (BlockLen * n) <= BlockLen => BlocksFor(len) = n + 1
<1>0. BlockLen \in Nat \ {0} /\ len \in Nat \ {0} BY DrbgAssumption
<1> DEFINE a == len + BlockLen - 1
           quot == BlocksFor(len)
           t == a % BlockLen
           L == BlockLen * n
<1>1. a \in Nat BY <1>0
<1>2. quot \in Nat /\ t \in 0 .. BlockLen - 1 /\ a = (BlockLen * quot) + t
  BY <1>0, <1>1, DivRem DEF BlocksFor
<1>3. L \in Nat /\ L < len BY <1>0
<1> HIDE DEF quot, t, L
<1>4. n < quot
  <2> SUFFICES ASSUME quot <= n PROVE FALSE
    BY <1>2
  <2>1. BlockLen * quot <= L BY <1>0, <1>2 DEF L
  <2>2. BlockLen * quot \in Nat BY <1>0, <1>2
  <2> QED BY <1>0, <1>2, <1>3, <2>1, <2>2
<1>5. ASSUME len - L <= BlockLen PROVE quot = n + 1
  <2> DEFINE r == (len - L) - 1
             h == n + 1
  <2>1. BlockLen * (n + 1) = L + BlockLen BY <1>0 DEF L
  <2>2. a = (BlockLen * h) + r BY <1>0, <1>3, <2>1
  <2>3. r \in 0 .. BlockLen - 1 /\ h \in Nat BY <1>0, <1>3, <1>5
  <2> HIDE DEF r, h, a
  <2>4. (BlockLen * quot) + t = (BlockLen * h) + r BY <1>2, <2>2
  <2>5. quot = h BY <1>0, <1>2, <2>3, <2>4, DigitsUnique
  <2> QED BY <2>5 DEF h
<1> QED BY <1>4, <1>5 DEF quot, L

LEMMA BlocksForBound ==
  ASSUME NEW len \in Lengths
  PROVE  len \in Nat \ {0} /\ BlocksFor(len) \in Nat /\ BlocksFor(len) + 3 <= Counters
<1>0. BlockLen \in Nat \ {0} /\ len \in Nat \ {0} BY DrbgAssumption
<1>1. len + BlockLen - 1 \in Nat BY <1>0
<1>2. BlocksFor(len) \in Nat BY <1>0, <1>1, DivRem DEF BlocksFor
<1>3. BlocksFor(len) + 3 <= Counters BY DrbgAssumption DEF BlocksFor
<1> QED BY <1>0, <1>2, <1>3

\* The next block is a new one.
LEMMA NextBlock ==
  ASSUME NEW c \in Nat, NEW n \in Nat, V \in Blocks, N(V) = (c + n) % Counters
  PROVE  /\ IncrementV(V) \in Blocks /\ N(IncrementV(V)) = (c + n + 1) % Counters
         /\ n < Counters /\ Numbered(c, n) => IncrementV(V) \notin encrypted
<1> DEFINE w == IncrementV(V)
<1>1. w \in Blocks /\ N(w) = (N(V) + 1) % Counters BY IncrementAddsOne DEF N
<1> HIDE DEF w
<1>2. c + n \in Nat /\ Counters \in Nat \ {0} /\ 1 \in Nat BY BlockNumbers
<1>3. (((c + n) % Counters) + 1) % Counters = (c + n + 1) % Counters BY <1>2, ModAdd, Zenon
<1>4. N(w) = (c + n + 1) % Counters BY <1>1, <1>3
<1>5. ASSUME n < Counters, Numbered(c, n), w \in encrypted PROVE FALSE
  <2>1. PICK i \in 1 .. n : N(w) = (c + i) % Counters BY <1>5 DEF Numbered
  <2>2. i \in Nat /\ n + 1 \in Nat /\ i < n + 1 /\ (n + 1) - i < Counters
    BY <1>2, <1>5, <2>1
  <2>3. (c + i) % Counters # (c + (n + 1)) % Counters BY <1>2, <2>2, ModDistinct, Zenon
  <2>4. c + (n + 1) = c + n + 1 OBVIOUS
  <2> QED BY <1>4, <2>1, <2>3, <2>4
<1> QED BY <1>1, <1>4, <1>5 DEF w

-----------------------------------------------------------------------------
(* The steps *)

LEMMA InitInv == Init => Inv
<1> SUFFICES ASSUME Init PROVE Inv
  OBVIOUS
<1>1. Zeros(BlockLen) \in Blocks /\ Zeros(KeyLen) \in Keys
  <2>1. ByteBase \in Nat \ {0} /\ BlockLen \in Nat BY DrbgAssumption
  <2> QED BY <2>1 DEF Zeros, SliceOf, Blocks, Keys, Byte
<1> QED BY <1>1 DEF Init, Inv, TypeOK

LEMMA EmptyIsSlice == ASSUME NEW S PROVE <<>> \in SliceOf(0, S)
<1>1. 0 .. 0 - 1 = {} OBVIOUS
<1> QED BY <1>1 DEF SliceOf

LEMMA InitRandomnessInv == Inv /\ InitRandomness => Inv'
<1> SUFFICES ASSUME Inv, InitRandomness PROVE Inv'
  OBVIOUS
<1>0. BlockLen \in Nat \ {0} /\ ByteBase \in Nat \ {0} BY DrbgAssumption
<1>1. TypeOK'
  <2>1. Zeros(KeyLen) \in Keys BY <1>0 DEF Zeros, SliceOf, Keys, Byte, KeyLen
  <2> QED BY <2>1, ZeroIsZero DEF InitRandomness, Inv, TypeOK
<1>2. Updating(0, 0)'
  <2>1. BlockLen * 0 = 0 BY <1>0
  <2>2. temp' = <<>> /\ <<>> = KS(Key', 0, 0) BY EmptyStream DEF InitRandomness
  <2>3. <<>> \in SliceOf(0, Byte) BY EmptyIsSlice
  <2>4. N(V') = (0 + 0) % Counters
    <3>1. N(V') = 0 BY ZeroIsZero DEF InitRandomness
    <3>2. (0 + 0) % Counters = 0 BY BlockNumbers
    <3> QED BY <3>1, <3>2
  <2>5. /\ temp' = KS(Key', 0, BlockLen * 0) /\ temp' \in SliceOf(BlockLen * 0, Byte)
    BY <2>1, <2>2, <2>3
  <2> QED BY <2>4, <2>5 DEF Updating, N, KS
<1>3. Seeding(0)' BY <1>2 DEF Seeding, Numbered, InitRandomness
<1> QED BY <1>1, <1>3 DEF Inv, InitRandomness

LEMMA SampleRandomBytesInv == Inv /\ SampleRandomBytes => Inv'
<1> SUFFICES ASSUME Inv, SampleRandomBytes PROVE Inv'
  OBVIOUS
<1>0. BlockLen \in Nat \ {0} BY DrbgAssumption
<1>1. TypeOK' BY DEF SampleRandomBytes, Inv, TypeOK
<1>2. PICK len \in Lengths : xlen' = len BY DEF SampleRandomBytes
<1>3. Generating(len, 0)'
  <2>1. Key' = entry'.Key /\ V' = entry'.V /\ V' = V BY DEF SampleRandomBytes
  <2>2. len \in Nat \ {0} BY DrbgAssumption
  <2>3. value' = KS(Key', N(entry'.V), len - xlen')
    <3>1. len - xlen' = 0 BY <1>2, <2>2
    <3> QED BY <3>1, EmptyStream DEF SampleRandomBytes
  <2>4. N(V') = (N(entry'.V) + 0) % Counters
    <3>1. N(V) \in 0 .. Counters - 1 /\ Counters \in Nat \ {0} BY BlockNumbers DEF Inv, TypeOK
    <3> QED BY <2>1, <3>1
  <2>5. len - xlen' = BlockLen * 0 /\ xlen' # 0 /\ xlen' \in 0 .. len BY <1>0, <1>2, <2>2
  <2>6. encrypted' = {} BY DEF SampleRandomBytes, Inv
  <2>7. Numbered(N(entry.V), 0)' BY <2>6 DEF Numbered
  <2>8. asked' = <<len>> BY <1>2 DEF SampleRandomBytes
  <2> QED BY <2>1, <2>3, <2>4, <2>5, <2>7, <2>8 DEF Generating, KS, N
<1>4. 0 \in 0 .. Counters BY BlockNumbers
<1>5. \E l \in Lengths, n \in 0 .. Counters : Generating(l, n)' BY <1>3, <1>4
<1>6. pc' = "generate" BY DEF SampleRandomBytes
<1> QED BY <1>1, <1>5, <1>6 DEF Inv

LEMMA GenerateBlockInv == Inv /\ GenerateBlock => Inv' /\ V' \notin encrypted
<1> SUFFICES ASSUME Inv, GenerateBlock PROVE Inv' /\ V' \notin encrypted
  OBVIOUS
<1>0. BlockLen \in Nat \ {0} BY DrbgAssumption
<1>1. PICK len \in Lengths, n \in 0 .. Counters : Generating(len, n) BY DEF Inv, GenerateBlock
<1>2. /\ len \in Nat \ {0} /\ BlocksFor(len) \in Nat /\ BlocksFor(len) + 3 <= Counters
      /\ Counters \in Nat /\ n \in Nat
  BY <1>1, BlocksForBound, BlockNumbers
<1> DEFINE c == N(entry.V)
           L == BlockLen * n
           copied == IF xlen > BlockLen - 1 THEN BlockLen ELSE xlen
<1>3. /\ Key = entry.Key /\ xlen \in 0 .. len /\ value = KS(Key, c, len - xlen)
      /\ N(V) = (c + n) % Counters /\ len - xlen = L /\ xlen # 0 /\ Numbered(c, n)
      /\ asked = <<len>>
  BY <1>1 DEF Generating, GenerateBlock
<1>4. /\ V' = IncrementV(V) /\ value' = Concat(value, Slice(Aes(Key, V'), 0, copied))
      /\ xlen' = xlen - copied /\ encrypted' = encrypted \cup {V'}
      /\ UNCHANGED <<Key, asked, entry, pc>>
  BY DEF GenerateBlock
<1>5. Key \in Keys /\ V \in Blocks /\ c \in Nat BY BlockNumbers DEF Inv, TypeOK
<1>6. L \in Nat /\ L < len BY <1>0, <1>2, <1>3
<1>7. n < BlocksFor(len) /\ (xlen <= BlockLen => BlocksFor(len) = n + 1)
  <2>1. BlockLen * n < len BY <1>6
  <2>2. n < BlocksFor(len) /\ (len - (BlockLen * n) <= BlockLen => BlocksFor(len) = n + 1)
    BY <1>2, <2>1, BlocksForRequest
  <2>3. len - (BlockLen * n) = xlen BY <1>2, <1>3, <1>6
  <2> QED BY <2>2, <2>3
<1> HIDE DEF c, L
<1>8. V' \in Blocks /\ N(V') = (c + n + 1) % Counters /\ V' \notin encrypted
  <2>1. n < Counters BY <1>2, <1>7
  <2> QED BY <1>2, <1>3, <1>4, <1>5, <2>1, NextBlock
<1>9. copied \in 1 .. BlockLen BY <1>0, <1>2, <1>3
<1>10. xlen' \in 0 .. len /\ len - xlen' = L + copied BY <1>0, <1>2, <1>3, <1>4, <1>6
<1>11. xlen' # 0 => copied = BlockLen /\ xlen > BlockLen BY <1>0, <1>2, <1>3, <1>4
<1>12. xlen' = 0 => xlen <= BlockLen BY <1>0, <1>2, <1>3, <1>4
<1> HIDE DEF copied
<1>13. value' = KS(Key, c, len - xlen')
  <2>1. value = KS(Key, c, BlockLen * n) BY <1>3 DEF L
  <2>2. Concat(KS(Key, c, BlockLen * n), Slice(Aes(Key, V'), 0, copied)) = KS(Key, c, (BlockLen * n) + copied)
    BY <1>2, <1>5, <1>8, <1>9, StreamGrows
  <2> QED BY <1>4, <1>10, <2>1, <2>2 DEF L
<1>14. N(V') = (c + (n + 1)) % Counters
  <2>1. c + (n + 1) = c + n + 1 BY <1>2, <1>5
  <2> QED BY <1>8, <2>1
<1>15. IF xlen' = 0 THEN n + 1 = BlocksFor(len) ELSE len - xlen' = BlockLen * (n + 1)
  <2>1. BlockLen * (n + 1) = L + BlockLen BY <1>0, <1>2 DEF L
  <2>2. CASE xlen' = 0 BY <1>7, <1>12, <2>2
  <2>3. CASE xlen' # 0 BY <1>10, <1>11, <2>1, <2>3
  <2> QED BY <2>2, <2>3
<1>16. Numbered(c, n + 1)'
  <2>1. Numbered(c, n) /\ c \in Nat /\ n \in Nat /\ V' \in Blocks /\ N(V') = (c + n + 1) % Counters
        /\ encrypted' = encrypted \cup {V'} BY <1>2, <1>3, <1>4, <1>5, <1>8
  <2>2. \A x \in 1 .. n : x \in 1 .. n + 1 BY <1>2
  <2>3. n + 1 \in 1 .. n + 1 BY <1>2
  <2>4. c' = c BY <1>4 DEF c, N
  <2>5. ASSUME NEW x \in encrypted'
        PROVE  x \in Blocks /\ \E i \in 1 .. n + 1 : N(x) = (c + i) % Counters
    <3>1. CASE x \in encrypted BY <2>1, <2>2, <3>1 DEF Numbered
    <3>2. CASE x = V' BY <1>14, <2>1, <2>3, <3>2
    <3> QED BY <2>1, <3>1, <3>2
  <2> QED BY <2>4, <2>5 DEF Numbered, N
<1>17. Generating(len, n + 1)'
  <2>1. c' = c /\ Key' = Key /\ entry' = entry BY <1>4 DEF c, N
  <2>2. Key' = entry'.Key /\ value' = KS(Key', c, len - xlen') BY <1>3, <1>13, <2>1
  <2>3. asked' = <<len>> BY <1>3, <1>4
  <2> QED BY <1>10, <1>14, <1>15, <1>16, <2>1, <2>2, <2>3 DEF Generating, KS, N, c
<1>18. n + 1 \in 0 .. Counters /\ pc' = "generate" /\ TypeOK'
  BY <1>2, <1>4, <1>7, <1>8 DEF Inv, TypeOK, GenerateBlock
<1>19. \E l \in Lengths, m \in 0 .. Counters : Generating(l, m)' BY <1>17, <1>18
<1> QED BY <1>8, <1>18, <1>19 DEF Inv

LEMMA StartUpdateInv == Inv /\ StartUpdate => Inv'
<1> SUFFICES ASSUME Inv, StartUpdate PROVE Inv'
  OBVIOUS
<1>0. BlockLen \in Nat \ {0} BY DrbgAssumption
<1>1. PICK len \in Lengths, n \in 0 .. Counters : Generating(len, n) BY DEF Inv, StartUpdate
<1>2. len \in Nat \ {0} /\ BlocksFor(len) \in Nat /\ Counters \in Nat \ {0}
  BY BlocksForBound, BlockNumbers
<1> DEFINE c == N(entry.V)
           used == BlocksFor(len)
           from == (c + used) % Counters
<1>3. /\ Key = entry.Key /\ value = KS(Key, c, len) /\ N(V) = from /\ Numbered(c, used)
      /\ asked = <<len>>
  <2>1. xlen = 0 /\ n = used BY <1>1 DEF StartUpdate, Generating
  <2>2. len - xlen = len BY <1>2, <2>1
  <2> QED BY <1>1, <2>1, <2>2 DEF Generating
<1>4. c \in Nat /\ entry \in [Key : Keys, V : Blocks] BY BlockNumbers DEF Inv, TypeOK
<1>5. c' = c /\ used' = used /\ from' = from /\ UNCHANGED <<Key, V, value, asked, entry, encrypted>>
  BY DEF StartUpdate
<1>6. from \in 0 .. Counters - 1 BY <1>2, <1>4
<1> HIDE DEF from
<1>7. Updating(from, 0)'
  <2>1. BlockLen * 0 = 0 /\ temp' = <<>> /\ (from + 0) % Counters = from
    BY <1>0, <1>2, <1>6 DEF StartUpdate
  <2>2. temp' = KS(Key', from, BlockLen * 0) /\ temp' \in SliceOf(BlockLen * 0, Byte)
    BY <2>1, EmptyStream, EmptyIsSlice
  <2> QED BY <1>3, <1>5, <2>1, <2>2 DEF Updating, KS, N
<1>8. Numbered(c, used + 0)' BY <1>2, <1>3, <1>5 DEF Numbered, N
<1>9. Rekeying(len, 0)'
  <2>1. provided_data' = <<>> BY DEF StartUpdate
  <2>2. Key' = entry'.Key /\ value' = KS(Key', c, len) /\ asked' = <<len>> BY <1>3, <1>5
  <2> QED BY <1>5, <1>7, <1>8, <2>1, <2>2 DEF Rekeying, KS, N, c, used, from
<1>10. TypeOK' /\ pc' = "update" BY DEF Inv, TypeOK, StartUpdate
<1>11. 0 \in 0 .. 3 OBVIOUS
<1> QED BY <1>9, <1>10, <1>11 DEF Inv

\* from is the number d after a.
After(a, d, from) == \A x \in Nat : (from + x) % Counters = (a + d + x) % Counters

\* An update that starts at the number from, d blocks after a, has done m blocks.
InUpdate(a, d, from, m) ==
  /\ a \in Nat /\ d \in Nat /\ from \in Nat /\ m \in 0 .. 3
  /\ After(a, d, from) /\ d + 3 <= Counters
  /\ Updating(from, m) /\ Numbered(a, d + m)

LEMMA UpdatingStep ==
  ASSUME NEW a, NEW d, NEW from, NEW m, InUpdate(a, d, from, m), TypeOK, UpdateBlock
  PROVE  /\ m + 1 \in 0 .. 3 /\ Updating(from, m + 1)' /\ V' \in Blocks
         /\ V' \notin encrypted /\ Numbered(a, d + (m + 1))'
<1> USE DEF InUpdate
<1>0. BlockLen \in Nat \ {0} /\ Counters \in Nat \ {0} BY DrbgAssumption, BlockNumbers
<1> DEFINE L == BlockLen * m
           n == d + m
<1>1. L \in Nat /\ n \in Nat /\ m \in Nat BY <1>0
<1>2. /\ V' = IncrementV(V) /\ temp' = Concat(temp, Aes(Key, V'))
      /\ encrypted' = encrypted \cup {V'} /\ Key' = Key
      /\ SliceLen(temp) < 3 * BlockLen
  BY DEF UpdateBlock, SeedLen
<1>3. /\ temp = KS(Key, from, L) /\ temp \in SliceOf(L, Byte) /\ N(V) = (from + m) % Counters
  BY DEF Updating
<1>4. V \in Blocks /\ Key \in Keys BY DEF TypeOK
<1>5. m < 3
  <2>1. SliceLen(temp) = L BY <1>1, <1>3, LenOfSlice
  <2>2. BlockLen * m < 3 * BlockLen BY <1>2, <2>1
  <2> QED BY <1>0, <2>2
<1>6. N(V) = (a + n) % Counters
  <2>1. a + d + m = a + n OBVIOUS
  <2> QED BY <1>1, <1>3, <2>1 DEF After
<1>7. n < Counters BY <1>0, <1>5
<1> HIDE DEF L
<1>8. V' \in Blocks /\ N(V') = (a + n + 1) % Counters /\ V' \notin encrypted
  <2> HIDE DEF n
  <2>1. Numbered(a, n) BY DEF n
  <2> QED BY <1>1, <1>2, <1>4, <1>6, <1>7, <2>1, NextBlock
<1>9. N(V') = (from + m + 1) % Counters
  <2>1. m + 1 \in Nat /\ from + (m + 1) = from + m + 1 /\ a + d + (m + 1) = a + n + 1 OBVIOUS
  <2> QED BY <1>8, <2>1 DEF After
<1>10. Aes(Key, V') \in Blocks BY <1>4, <1>8, DrbgAssumption
<1>11. temp' = KS(Key, from, L + BlockLen)
  <2>1. Slice(Aes(Key, V'), 0, BlockLen) = Aes(Key, V') BY <1>10, WholeBlock
  <2>2. BlockLen \in 1 .. BlockLen BY <1>0
  <2>3. Concat(KS(Key, from, BlockLen * m), Slice(Aes(Key, V'), 0, BlockLen))
          = KS(Key, from, (BlockLen * m) + BlockLen)
    BY <1>1, <1>4, <1>8, <1>9, <2>2, StreamGrows
  <2> QED BY <1>2, <1>3, <2>1, <2>3 DEF L
<1>12. temp' \in SliceOf(L + BlockLen, Byte)
  <2>1. Aes(Key, V') \in SliceOf(BlockLen, Byte) /\ BlockLen \in Nat BY <1>0, <1>10 DEF Blocks
  <2> QED BY <1>1, <1>2, <1>3, <2>1, ConcatType
<1>13. Updating(from, m + 1)'
  <2>1. BlockLen * (m + 1) = L + BlockLen /\ from + (m + 1) = from + m + 1 BY <1>0, <1>1 DEF L
  <2>2. temp' = KS(Key', from, BlockLen * (m + 1)) BY <1>2, <1>11, <2>1
  <2>3. temp' \in SliceOf(BlockLen * (m + 1), Byte) BY <1>12, <2>1
  <2>4. N(V') = (from + (m + 1)) % Counters BY <1>9, <2>1
  <2> QED BY <2>2, <2>3, <2>4 DEF Updating, KS, N
<1>14. Numbered(a, d + (m + 1))'
  <2>1. d + (m + 1) = n + 1 OBVIOUS
  <2>2. \A x \in 1 .. n : x \in 1 .. n + 1 BY <1>1
  <2>3. n + 1 \in 1 .. n + 1 /\ a + (n + 1) = a + n + 1 BY <1>1
  <2> HIDE DEF n
  <2>4. Numbered(a, n) BY DEF n
  <2>5. ASSUME NEW x \in encrypted'
        PROVE  x \in Blocks /\ \E i \in 1 .. n + 1 : N(x) = (a + i) % Counters
    <3>1. CASE x \in encrypted BY <2>2, <2>4, <3>1 DEF Numbered
    <3>2. CASE x = V' BY <1>8, <2>3, <3>2
    <3> QED BY <1>2, <3>1, <3>2
  <2> QED BY <2>1, <2>5 DEF Numbered, N
<1>15. m + 1 \in 0 .. 3 BY <1>1, <1>5
<1> QED BY <1>8, <1>13, <1>14, <1>15

LEMMA UpdateBlockInv == Inv /\ UpdateBlock => Inv' /\ V' \notin encrypted
<1> SUFFICES ASSUME Inv, UpdateBlock PROVE Inv' /\ V' \notin encrypted
  OBVIOUS
<1>0. Counters \in Nat \ {0} BY BlockNumbers
<1>1. TypeOK BY DEF Inv
<1>2. /\ pc' = "update" /\ UNCHANGED <<Key, value, provided_data, asked, entry>>
  BY DEF UpdateBlock
<1>3. ASSUME V' \in Blocks PROVE TypeOK' BY <1>1, <1>2, <1>3 DEF TypeOK
<1>4. PICK m \in 0 .. 3 : Seeding(m) \/ \E len \in Lengths : Rekeying(len, m)
  BY DEF Inv, UpdateBlock
<1>5. CASE Seeding(m)
  <2> DEFINE a == 0
             d == 0
  <2>1. a \in Nat /\ d \in Nat /\ d + 3 <= Counters BY <1>0, DrbgAssumption
  <2>2. After(a, d, a) /\ d + m = m BY DEF After
  <2>3. Updating(a, m) /\ Numbered(a, d + m) BY <1>5, <2>2 DEF Seeding
  <2>4. d + (m + 1) = m + 1 OBVIOUS
  <2> HIDE DEF a, d
  <2>5. /\ m + 1 \in 0 .. 3 /\ Updating(a, m + 1)' /\ V' \in Blocks
        /\ V' \notin encrypted /\ Numbered(a, d + (m + 1))'
    <3>1. InUpdate(a, d, a, m) BY <2>1, <2>2, <2>3 DEF InUpdate
    <3> QED BY <1>1, <3>1, UpdatingStep, Zenon
  <2>6. Seeding(m + 1)' BY <1>2, <1>5, <2>4, <2>5 DEF Seeding, a
  <2> QED BY <1>2, <1>3, <2>5, <2>6 DEF Inv
<1>6. ASSUME NEW len \in Lengths, Rekeying(len, m) PROVE Inv' /\ V' \notin encrypted
  <2>0. PICK a : a = N(entry.V)
    OBVIOUS
  <2> DEFINE d == BlocksFor(len)
             from == (a + d) % Counters
  <2>1. a \in Nat /\ d \in Nat /\ d + 3 <= Counters
    BY <1>1, <2>0, BlocksForBound, BlockNumbers DEF TypeOK
  <2>2. from \in Nat BY <1>0, <2>1
  <2>3. After(a, d, from)
    <3> HIDE DEF d
    <3> SUFFICES ASSUME NEW x \in Nat PROVE (from + x) % Counters = (a + d + x) % Counters
      BY DEF After
    <3> DEFINE z == a + d
    <3>1. z \in Nat BY <2>1
    <3> HIDE DEF z
    <3>2. from = z % Counters /\ z + x = a + d + x BY DEF from, z
    <3> HIDE DEF from
    <3>3. ((z % Counters) + x) % Counters = (z + x) % Counters BY <1>0, <3>1, ModAdd
    <3> QED BY <3>2, <3>3
  <2>4. Updating(from, m) /\ Numbered(a, d + m) BY <1>6, <2>0 DEF Rekeying
  <2>5. N(entry'.V) = a BY <1>2, <2>0
  <2> HIDE DEF d, from
  <2>6. /\ m + 1 \in 0 .. 3 /\ Updating(from, m + 1)' /\ V' \in Blocks
        /\ V' \notin encrypted /\ Numbered(a, d + (m + 1))'
    <3>1. InUpdate(a, d, from, m) BY <2>1, <2>2, <2>3, <2>4 DEF InUpdate
    <3> QED BY <1>1, <3>1, UpdatingStep, Zenon
  <2>7. Rekeying(len, m + 1)'
    <3>1. provided_data' = <<>> /\ asked' = <<len>> BY <1>2, <1>6 DEF Rekeying
    <3>2. Key' = entry'.Key /\ value' = KS(Key', a, len) BY <1>2, <1>6, <2>0 DEF Rekeying
    <3> QED BY <2>5, <2>6, <3>1, <3>2 DEF Rekeying, Updating, Numbered, KS, N, d, from
  <2> QED BY <1>2, <1>3, <2>6, <2>7 DEF Inv
<1> QED BY <1>4, <1>5, <1>6

\* What the update makes Key and V from, for a seed and for a request.
Seeded(material) ==
  /\ value = <<>>
  /\ \E e, p \in Seeds :
       /\ asked = <<e, p>>
       /\ material = XorSlices(KS(Zeros(KeyLen), 0, SeedLen), XorSlices(e, p))

Requested(material) ==
  \E len \in Lengths :
    /\ asked = <<len>>
    /\ value = KS(entry.Key, N(entry.V), len)
    /\ material = KS(entry.Key, (N(entry.V) + BlocksFor(len)) % Counters, SeedLen)

LEMMA Finish ==
  ASSUME Inv, FinishUpdate
  PROVE  \E material \in SliceOf(SeedLen, Byte) :
           /\ Key' = Slice(material, 0, KeyLen) /\ V' = Slice(material, KeyLen, SeedLen)
           /\ Seeded(material) \/ Requested(material)
<1>0. BlockLen \in Nat \ {0} /\ SeedLen \in Nat \ {0} BY DrbgAssumption DEF SeedLen
<1>1. PICK m \in 0 .. 3 : Seeding(m) \/ \E len \in Lengths : Rekeying(len, m)
  BY DEF Inv, FinishUpdate
<1>2. SliceLen(temp) = SeedLen BY DEF FinishUpdate
<1>3. ASSUME NEW from, Updating(from, m)
      PROVE  temp = KS(Key, from, SeedLen) /\ temp \in SliceOf(SeedLen, Byte)
  <2>1. BlockLen * m \in Nat BY <1>0
  <2>2. BlockLen * m = SeedLen BY <1>2, <1>3, <2>1, LenOfSlice DEF Updating
  <2> QED BY <1>3, <2>2 DEF Updating
<1>4. CASE Seeding(m)
  <2>1. PICK e \in Seeds, p \in Seeds : provided_data = XorSlices(e, p) /\ asked = <<e, p>> BY <1>4 DEF Seeding
  <2>2. Key = Zeros(KeyLen) /\ value = <<>> /\ Updating(0, m) BY <1>4 DEF Seeding
  <2>3. e \in SliceOf(SeedLen, Byte) /\ p \in SliceOf(SeedLen, Byte) BY DrbgAssumption
  <2>4. provided_data \in SliceOf(SeedLen, Byte) BY <2>1, <2>3, DrbgAssumption DEF XorSlices, SliceOf
  <2>5. provided_data # <<>>
    <3>1. 0 \in DOMAIN provided_data BY <1>0, <2>4 DEF SliceOf
    <3> QED BY <3>1
  <2> DEFINE material == XorSlices(temp, provided_data)
  <2>6. temp = KS(Key, 0, SeedLen) /\ temp \in SliceOf(SeedLen, Byte) BY <1>3, <2>2
  <2>7. material \in SliceOf(SeedLen, Byte) BY <2>4, <2>6, DrbgAssumption DEF XorSlices, SliceOf
  <2>8. Seeded(material) BY <2>1, <2>2, <2>6 DEF Seeded
  <2>9. Key' = Slice(material, 0, KeyLen) /\ V' = Slice(material, KeyLen, SeedLen)
    BY <2>5 DEF FinishUpdate
  <2> QED BY <2>7, <2>8, <2>9
<1>5. ASSUME NEW len \in Lengths, Rekeying(len, m)
      PROVE  /\ temp \in SliceOf(SeedLen, Byte) /\ Requested(temp)
             /\ Key' = Slice(temp, 0, KeyLen) /\ V' = Slice(temp, KeyLen, SeedLen)
  <2>1. /\ provided_data = <<>> /\ Key = entry.Key /\ value = KS(Key, N(entry.V), len)
        /\ Updating((N(entry.V) + BlocksFor(len)) % Counters, m) /\ asked = <<len>>
    BY <1>5 DEF Rekeying
  <2>2. PICK from : from = (N(entry.V) + BlocksFor(len)) % Counters
    OBVIOUS
  <2>3. temp = KS(Key, from, SeedLen) /\ temp \in SliceOf(SeedLen, Byte) BY <1>3, <2>1, <2>2
  <2>4. Requested(temp) BY <2>1, <2>2, <2>3 DEF Requested
  <2>5. Key' = Slice(temp, 0, KeyLen) /\ V' = Slice(temp, KeyLen, SeedLen)
    BY <2>1 DEF FinishUpdate
  <2> QED BY <2>3, <2>4, <2>5
<1> QED BY <1>1, <1>4, <1>5

LEMMA FinishUpdateInv == Inv /\ FinishUpdate => Inv'
<1> SUFFICES ASSUME Inv, FinishUpdate PROVE Inv'
  OBVIOUS
<1>0. BlockLen \in Nat \ {0} BY DrbgAssumption
<1>1. PICK material \in SliceOf(SeedLen, Byte) :
        Key' = Slice(material, 0, KeyLen) /\ V' = Slice(material, KeyLen, SeedLen)
  BY Finish
<1>2. /\ 0 \in 0 .. SeedLen /\ KeyLen \in 0 .. SeedLen /\ SeedLen \in KeyLen .. SeedLen
      /\ SeedLen \in Nat /\ KeyLen - 0 = KeyLen /\ SeedLen - KeyLen = BlockLen
  BY <1>0 DEF SeedLen, KeyLen
<1>3. Slice(material, 0, KeyLen) \in SliceOf(KeyLen - 0, Byte) BY <1>2, SliceType
<1>4. Slice(material, KeyLen, SeedLen) \in SliceOf(SeedLen - KeyLen, Byte) BY <1>2, SliceType
<1>5. Key' \in Keys /\ V' \in Blocks BY <1>1, <1>2, <1>3, <1>4 DEF Keys, Blocks
<1>6. pc' = "idle" /\ encrypted' = {} /\ entry' = entry BY DEF FinishUpdate
<1> QED BY <1>5, <1>6 DEF Inv, TypeOK

LEMMA NextInv == Inv /\ [Next]_vars => Inv'
<1> SUFFICES ASSUME Inv, [Next]_vars PROVE Inv'
  OBVIOUS
<1>1. CASE UNCHANGED vars
  BY <1>1 DEF vars, Inv, TypeOK, Generating, Seeding, Rekeying, Updating, Numbered, KS, N
<1> QED
  BY <1>1, InitRandomnessInv, SampleRandomBytesInv, GenerateBlockInv, StartUpdateInv,
     UpdateBlockInv, FinishUpdateInv DEF Next

\* The generator is always where its counter says: between the calls nothing is
\* pending, and in a call the output and the material of the update are the key
\* stream after the counter the call began with.
THEOREM Invariance == Spec => []Inv
<1> QED BY InitInv, NextInv, PTL DEF Spec

\* No request and no seed encrypts one block twice under one key.
THEOREM NoBlockTwiceHolds == Spec => NoBlockTwice
<1>1. Inv /\ [Next]_vars => [GenerateBlock \/ UpdateBlock => V' \notin encrypted]_vars
  BY GenerateBlockInv, UpdateBlockInv
<1> QED BY <1>1, Invariance, PTL DEF Spec, NoBlockTwice

-----------------------------------------------------------------------------
(* The counter mode *)

LEMMA ModeSlices ==
  /\ \A n : Mode!Zeros(n) = Zeros(n)
  /\ \A s, i, j : Mode!Slice(s, i, j) = Slice(s, i, j)
  /\ \A s, t : Mode!XorSlices(s, t) = XorSlices(s, t)
<1>1. \A a, i : Mode!Bit(a, i) = Bit(a, i) BY DEF Mode!Bit, Bit
<1>2. \A f : Mode!SumFunction(f) = SumFunction(f)
  BY Zenon DEF Mode!SumFunction, SumFunction, Mode!SumFunctionOnSet, SumFunctionOnSet,
     Mode!FoldFunctionOnSet, FoldFunctionOnSet, Mode!MapThenFoldSet, MapThenFoldSet
<1>3. \A a, b : Mode!XorByte(a, b) = XorByte(a, b) BY <1>1, <1>2, Zenon DEF Mode!XorByte, XorByte
<1>4. \A s, t : Mode!XorSlices(s, t) = XorSlices(s, t)
  BY <1>3, Zenon DEF Mode!XorSlices, XorSlices
<1>5. \A n : Mode!Zeros(n) = Zeros(n) BY DEF Mode!Zeros, Zeros
<1>6. \A s, i, j : Mode!Slice(s, i, j) = Slice(s, i, j) BY DEF Mode!Slice, Slice
<1> QED BY <1>4, <1>5, <1>6

LEMMA ModeInit == Init => Mode!Init
<1> SUFFICES ASSUME Init PROVE Mode!Init
  OBVIOUS
<1>1. N(V) = 0 BY ZeroIsZero DEF Init
<1> QED BY <1>1, ModeSlices, ModeNumbers DEF Init, Mode!Init, N

LEMMA ModeCall == Inv /\ (InitRandomness \/ SampleRandomBytes) => Mode!Call
  BY DEF InitRandomness, SampleRandomBytes, Mode!Call

LEMMA ModeStutter ==
  Inv /\ (GenerateBlock \/ StartUpdate \/ UpdateBlock \/ UNCHANGED vars) => UNCHANGED Mode!vars
  BY DEF GenerateBlock, StartUpdate, UpdateBlock, vars, Mode!vars

LEMMA ModeFinish == Inv /\ FinishUpdate => Mode!Seed \/ Mode!Request
<1> SUFFICES ASSUME Inv, FinishUpdate PROVE Mode!Seed \/ Mode!Request
  OBVIOUS
<1>1. PICK material \in SliceOf(SeedLen, Byte) :
        /\ Key' = Slice(material, 0, KeyLen) /\ V' = Slice(material, KeyLen, SeedLen)
        /\ Seeded(material) \/ Requested(material)
  BY Finish
<1>2. pc = "update" /\ pc' = "idle" /\ value' = value /\ calls' = calls + 1 /\ asked' = asked
  BY DEF FinishUpdate
<1>3. Mode!Rekey(material)
  <2>1. SeedLen = KeyLen + BlockLen
    <3>1. BlockLen \in Nat BY DrbgAssumption
    <3> QED BY <3>1 DEF SeedLen, KeyLen
  <2> QED BY <1>1, <1>2, <2>1, ModeSlices, ModeNumbers DEF Mode!Rekey
<1>4. CASE Seeded(material)
  <2>1. PICK e \in Seeds, p \in Seeds :
          asked = <<e, p>> /\ material = XorSlices(KS(Zeros(KeyLen), 0, SeedLen), XorSlices(e, p))
    BY <1>4 DEF Seeded
  <2>2. material = Mode!XorSlices(Mode!KeyStream(Mode!Zeros(Mode!KeyLen), 0, 3 * BlockLen),
                                  Mode!XorSlices(e, p))
    BY <2>1, ModeSlices, ModeNumbers DEF KS, SeedLen
  <2>3. value = <<>> BY <1>4 DEF Seeded
  <2>4. \E entropy, personalization \in Seeds :
          /\ asked = <<entropy, personalization>>
          /\ Mode!Rekey(Mode!XorSlices(Mode!KeyStream(Mode!Zeros(Mode!KeyLen), 0, 3 * BlockLen),
                                       Mode!XorSlices(entropy, personalization)))
    BY <1>3, <2>1, <2>2, Zenon
  <2>5. /\ (IF pc' = "idle" THEN value' ELSE <<>>) = (IF pc = "idle" THEN value ELSE <<>>)
        /\ (pc # "idle") = TRUE /\ (pc' # "idle") = FALSE
    BY <1>2, <2>3
  <2> QED BY <1>2, <2>4, <2>5, Zenon DEF Mode!Seed
<1>5. CASE Requested(material)
  <2>1. PICK len \in Lengths :
          /\ asked = <<len>>
          /\ value = KS(entry.Key, N(entry.V), len)
          /\ material = KS(entry.Key, (N(entry.V) + BlocksFor(len)) % Counters, SeedLen)
    BY <1>5 DEF Requested
  <2>2. value' = Mode!KeyStream(entry.Key, Number(ByteBase, entry.V), len)
    BY <1>2, <2>1 DEF KS, N
  <2>3. material = Mode!KeyStream(entry.Key,
                     (Number(ByteBase, entry.V) + ((len + BlockLen - 1) \div BlockLen)) % Mode!Counters,
                     3 * BlockLen)
    BY <2>1, ModeNumbers DEF KS, N, BlocksFor, SeedLen
  <2>4. /\ (IF pc' = "idle" THEN value' ELSE <<>>) = value'
        /\ (IF pc = "idle" THEN Key ELSE entry.Key) = entry.Key
        /\ Number(ByteBase, IF pc = "idle" THEN V ELSE entry.V) = Number(ByteBase, entry.V)
        /\ (pc # "idle") = TRUE /\ (pc' # "idle") = FALSE
    BY <1>2
  <2>5. asked = <<len>> BY <2>1
  <2> QED BY <1>2, <1>3, <2>2, <2>3, <2>4, <2>5, Zenon DEF Mode!Request
<1> QED BY <1>1, <1>4, <1>5

LEMMA ModeNext == Inv /\ [Next]_vars => [Mode!Next]_(Mode!vars)
  BY ModeCall, ModeStutter, ModeFinish DEF Next, Mode!Next

\* The safety part of ImplementsCtrDrbg: every behaviour of the loops is one of
\* the generator in counter mode.
THEOREM CounterMode == Spec => Mode!Safety
<1> QED BY ModeInit, ModeNext, Invariance, PTL DEF Spec, Mode!Safety

-----------------------------------------------------------------------------
(* The S-box of the bitsliced cipher *)

\* Tabulated only makes TLC compute.
LEMMA TabulatedIsIdentity == \A f : Tabulated(f) = f
  BY DEF Tabulated

\* Eight words of 64 bits.
EightWords == [0 .. 7 -> SUBSET Bits64]

\* The wires known before the gates of record k + 1, and what they hold: the
\* recursion of the circuit.
WiresOf(w, g) ==
  /\ DOMAIN g = 0 .. Len(SboxCircuit)
  /\ g[0] = [x0 |-> w[7], x1 |-> w[6], x2 |-> w[5], x3 |-> w[4],
             x4 |-> w[3], x5 |-> w[2], x6 |-> w[1], x7 |-> w[0]]
  /\ \A k \in 1 .. Len(SboxCircuit) : g[k] = Through(SboxCircuit[k], g[k - 1])

\* The circuit has an end.
LEMMA CircuitLength == Len(SboxCircuit) \in Nat
  BY DEF SboxCircuit

\* The words the circuit returns are wires of the recursion.
LEMMA SboxIsCircuit ==
  ASSUME NEW w
  PROVE  \E g : /\ WiresOf(w, g)
                /\ br_aes_ct64_bitslice_Sbox(w)
                     = [v \in 0 .. 7 |-> g[Len(SboxCircuit)][<<"s7", "s6", "s5", "s4", "s3", "s2", "s1", "s0">>[v + 1]]]
<1> DEFINE End == Len(SboxCircuit)
           base == [x0 |-> w[7], x1 |-> w[6], x2 |-> w[5], x3 |-> w[4],
                    x4 |-> w[3], x5 |-> w[2], x6 |-> w[1], x7 |-> w[0]]
           Good(k, g) == g[0] = base /\ \A i \in 1 .. k : g[i] = Through(SboxCircuit[i], g[i - 1])
           T == {k \in 0 .. End : \E g : DOMAIN g = 0 .. k /\ Good(k, g)}
           body(g) == [k \in 0 .. End |-> IF k = 0 THEN base ELSE Through(SboxCircuit[k], Tabulated(g[k - 1]))]
           f == CHOOSE g : g = body(g)
<1>0. End \in Nat
  BY CircuitLength
<1> HIDE DEF End, base
<1>1. 0 \in T
  <2> DEFINE g == [i \in 0 .. 0 |-> base]
  <2>1. DOMAIN g = 0 .. 0 /\ g[0] = base OBVIOUS
  <2>2. \A i \in 1 .. 0 : FALSE OBVIOUS
  <2> HIDE DEF g
  <2>3. Good(0, g) BY <2>1, <2>2
  <2> QED BY <1>0, <2>1, <2>3
<1>2. ASSUME NEW k \in 1 .. End, k - 1 \in T PROVE k \in T
  <2>1. PICK g : DOMAIN g = 0 .. k - 1 /\ Good(k - 1, g) BY <1>2
  <2> DEFINE h == [i \in 0 .. k |-> IF i = k THEN Through(SboxCircuit[k], g[k - 1]) ELSE g[i]]
  <2>2. DOMAIN h = 0 .. k OBVIOUS
  <2>3. h[0] = base BY <2>1
  <2>4. ASSUME NEW i \in 1 .. k PROVE h[i] = Through(SboxCircuit[i], h[i - 1])
    <3>1. CASE i = k
      <4>1. h[i] = Through(SboxCircuit[k], g[k - 1]) /\ h[i - 1] = g[k - 1] BY <3>1
      <4> QED BY <3>1, <4>1
    <3>2. CASE i # k
      <4>1. h[i] = g[i] /\ h[i - 1] = g[i - 1] /\ i \in 1 .. k - 1 BY <3>2
      <4> QED BY <2>1, <4>1
    <3> QED BY <3>1, <3>2
  <2> HIDE DEF h
  <2>5. Good(k, h) BY <2>3, <2>4
  <2> HIDE DEF Good
  <2> QED BY <2>2, <2>5
<1> HIDE DEF T
<1>3. \A i \in 0 .. End : i \in T BY <1>0, <1>1, <1>2, BoundedInduction, Zenon
<1>4. End \in T BY <1>0, <1>3
<1>5. PICK g : DOMAIN g = 0 .. End /\ Good(End, g) BY <1>4 DEF T
<1> DEFINE h == [i \in 0 .. End |-> g[i]]
<1>6. h = body(h)
  <2>1. ASSUME NEW k \in 1 .. End PROVE h[k] = Through(SboxCircuit[k], Tabulated(h[k - 1]))
    <3>1. k \in 0 .. End /\ k - 1 \in 0 .. End BY <1>0
    <3>2. h[k] = g[k] /\ h[k - 1] = g[k - 1] BY <3>1
    <3> QED BY <1>5, <3>2, TabulatedIsIdentity
  <2>2. h[0] = base BY <1>0, <1>5
  <2> HIDE DEF h
  <2>3. \A k \in 0 .. End : h[k] = IF k = 0 THEN base ELSE Through(SboxCircuit[k], Tabulated(h[k - 1]))
    BY <1>0, <2>1, <2>2
  <2>4. h = [k \in 0 .. End |-> h[k]] BY DEF h
  <2> QED BY <2>3, <2>4
<1> HIDE DEF h
<1>7. f = body(f) BY <1>6
<1>8. br_aes_ct64_bitslice_Sbox(w)
        = Tabulated([v \in 0 .. 7 |-> Tabulated(f[End])[<<"s7", "s6", "s5", "s4", "s3", "s2", "s1", "s0">>[v + 1]]])
  BY DEF br_aes_ct64_bitslice_Sbox, End, base
<1> HIDE DEF f
<1>9. \A k \in 1 .. End : f[k] = Through(SboxCircuit[k], f[k - 1])
  BY <1>0, <1>7, TabulatedIsIdentity
<1>10. WiresOf(w, f)
  <2>1. f[0] = base BY <1>0, <1>7
  <2>2. DOMAIN f = 0 .. End BY <1>7
  <2> QED BY <1>9, <2>1, <2>2 DEF WiresOf, base, End
<1>11. br_aes_ct64_bitslice_Sbox(w)
         = [v \in 0 .. 7 |-> f[End][<<"s7", "s6", "s5", "s4", "s3", "s2", "s1", "s0">>[v + 1]]]
  BY <1>8, TabulatedIsIdentity, Zenon
<1> QED BY <1>10, <1>11, Zenon DEF End

\* Two states of the wires hold the same bit, the one at p, the other at z.
SameBit(known, p, other, z) ==
  /\ DOMAIN known = DOMAIN other
  /\ \A n \in DOMAIN known : known[n] \in SUBSET Bits64 /\ other[n] \in SUBSET Bits64
  /\ \A n \in DOMAIN known : p \in known[n] <=> z \in other[n]

\* Gates are bitwise.
LEMMA GatesAreBitwise ==
  ASSUME NEW p \in Bits64, NEW z \in Bits64, NEW known, NEW other, SameBit(known, p, other, z),
         NEW gates, \A n \in DOMAIN gates : {gates[n][1], gates[n][3]} \subseteq DOMAIN known
  PROVE  SameBit(Through(gates, known), p, Through(gates, other), z)
<1>1. ASSUME NEW n \in DOMAIN gates
      PROVE  /\ Gate(gates[n], known) \in SUBSET Bits64
             /\ Gate(gates[n], other) \in SUBSET Bits64
             /\ p \in Gate(gates[n], known) <=> z \in Gate(gates[n], other)
  <2> DEFINE a == known[gates[n][1]]   b == known[gates[n][3]]
             c == other[gates[n][1]]   d == other[gates[n][3]]
  <2>1. gates[n][1] \in DOMAIN known /\ gates[n][3] \in DOMAIN known
    OBVIOUS
  <2>2. /\ a \in SUBSET Bits64 /\ b \in SUBSET Bits64 /\ c \in SUBSET Bits64 /\ d \in SUBSET Bits64
        /\ p \in a <=> z \in c
        /\ p \in b <=> z \in d
    BY <2>1 DEF SameBit
  <2>3. /\ Gate(gates[n], known) = IF gates[n][2] = "&" THEN a \cap b
                                   ELSE a ++ (IF gates[n][2] = "^~" THEN Not(b) ELSE b)
        /\ Gate(gates[n], other) = IF gates[n][2] = "&" THEN c \cap d
                                   ELSE c ++ (IF gates[n][2] = "^~" THEN Not(d) ELSE d)
    BY DEF Gate
  <2> HIDE DEF a, b, c, d
  <2>4. CASE gates[n][2] = "&"
    BY <2>2, <2>3, <2>4
  <2>5. CASE gates[n][2] # "&" /\ gates[n][2] = "^~"
    BY <2>2, <2>3, <2>5 DEF ++, Not
  <2>6. CASE gates[n][2] # "&" /\ gates[n][2] # "^~"
    BY <2>2, <2>3, <2>6 DEF ++
  <2> QED BY <2>4, <2>5, <2>6
<1>2. DOMAIN known = DOMAIN other
  BY DEF SameBit
<1>3. ASSUME NEW n \in DOMAIN known
      PROVE  known[n] \in SUBSET Bits64 /\ other[n] \in SUBSET Bits64 /\ (p \in known[n] <=> z \in other[n])
  BY DEF SameBit
<1> QED BY <1>1, <1>2, <1>3 DEF Through, SameBit

\* All wires that may be used are known.
LEMMA KnownWires ==
  ASSUME NEW w, NEW g, WiresOf(w, g)
  PROVE  \A k \in 0 .. Len(SboxCircuit) : DOMAIN g[k] = WiresBefore(k + 1)
<1> DEFINE End == Len(SboxCircuit)
           T == {k \in 0 .. End : DOMAIN g[k] = WiresBefore(k + 1)}
<1>1. End \in Nat BY CircuitLength
<1>2. 0 \in T
  <2>1. UNION {DOMAIN SboxCircuit[i] : i \in 1 .. 0} = {}
    OBVIOUS
  <2>2. (0 + 1) - 1 = 0
    OBVIOUS
  <2>3. WiresBefore(0 + 1) = {"x0", "x1", "x2", "x3", "x4", "x5", "x6", "x7"}
    BY <2>1, <2>2 DEF WiresBefore
  <2>4. DOMAIN g[0] = {"x0", "x1", "x2", "x3", "x4", "x5", "x6", "x7"}
    BY DEF WiresOf
  <2> QED BY <1>1, <2>3, <2>4
<1>3. ASSUME NEW k \in 1 .. End, k - 1 \in T PROVE k \in T
  <2>1. g[k] = Through(SboxCircuit[k], g[k - 1]) BY DEF WiresOf
  <2>2. DOMAIN g[k - 1] = WiresBefore(k) BY <1>1, <1>3
  <2>3. DOMAIN g[k] = DOMAIN g[k - 1] \cup DOMAIN SboxCircuit[k] BY <2>1 DEF Through
  <2> DEFINE X == {"x0", "x1", "x2", "x3", "x4", "x5", "x6", "x7"}
             A == UNION {DOMAIN SboxCircuit[i] : i \in 1 .. k}
             B == UNION {DOMAIN SboxCircuit[i] : i \in 1 .. k - 1}
             D == DOMAIN SboxCircuit[k]
  <2>4. A = B \cup D
    <3>1. 1 .. k = (1 .. k - 1) \cup {k} BY <1>1
    <3>2. ASSUME NEW n \in A PROVE n \in B \cup D
      <4>1. PICK i \in 1 .. k : n \in DOMAIN SboxCircuit[i] OBVIOUS
      <4>2. i \in 1 .. k - 1 \/ i = k BY <3>1
      <4> QED BY <4>1, <4>2
    <3>3. ASSUME NEW n \in B \cup D PROVE n \in A
      <4>1. CASE n \in B
        <5>1. PICK i \in 1 .. k - 1 : n \in DOMAIN SboxCircuit[i] BY <4>1
        <5>2. i \in 1 .. k BY <3>1
        <5> QED BY <5>1, <5>2
      <4>2. CASE n \in D
        <5>1. k \in 1 .. k BY <3>1
        <5> QED BY <4>2, <5>1
      <4> QED BY <4>1, <4>2
    <3> HIDE DEF A, B, D
    <3> QED BY <3>2, <3>3
  <2>5. (k + 1) - 1 = k BY <1>1
  <2>6. WiresBefore(k + 1) = X \cup A
    BY <2>5 DEF WiresBefore
  <2>7. WiresBefore(k) = X \cup B
    BY DEF WiresBefore
  <2>8. DOMAIN g[k] = DOMAIN g[k - 1] \cup D
    BY <2>3
  <2> HIDE DEF X, A, B, D
  <2>9. DOMAIN g[k] = WiresBefore(k + 1)
    BY <2>2, <2>4, <2>6, <2>7, <2>8
  <2> QED BY <1>1, <2>9
<1> HIDE DEF T, End
<1>4. \A k \in 0 .. End : k \in T BY <1>1, <1>2, <1>3, BoundedInduction, Zenon
<1> QED BY <1>4 DEF T, End

\* At every bit position the bitsliced S-box is the S-box of FIPS-197, whatever the
\* other positions hold.
LEMMA SboxIsSubByte ==
  ASSUME NEW w \in EightWords, NEW p \in Bits64
  PROVE  /\ br_aes_ct64_bitslice_Sbox(w) \in EightWords
         /\ ByteAcross(br_aes_ct64_bitslice_Sbox(w), p) = Cipher!SubByte[ByteAcross(w, p)]
<1> DEFINE a == ByteAcross(w, p)
           x == [v \in 0 .. 7 |-> IF v \in a THEN {0} ELSE {}]
           End == Len(SboxCircuit)
           outNames == <<"s7", "s6", "s5", "s4", "s3", "s2", "s1", "s0">>
<1>0. End \in Nat BY CircuitLength
<1>1. PICK g : /\ WiresOf(w, g)
               /\ br_aes_ct64_bitslice_Sbox(w) = [v \in 0 .. 7 |-> g[End][outNames[v + 1]]]
  BY SboxIsCircuit, Zenon
<1>2. PICK h : /\ WiresOf(x, h)
               /\ br_aes_ct64_bitslice_Sbox(x) = [v \in 0 .. 7 |-> h[End][outNames[v + 1]]]
  BY SboxIsCircuit, Zenon
<1>3. a \in SUBSET Bits8 /\ 0 \in Bits64
  BY DEF ByteAcross, Bits64
<1>4. ASSUME NEW v \in 0 .. 7
      PROVE  /\ w[v] \in SUBSET Bits64 /\ x[v] \in SUBSET Bits64
             /\ p \in w[v] <=> 0 \in x[v]
  BY <1>3 DEF EightWords, ByteAcross, Bits8
<1> HIDE DEF x, a
<1> DEFINE T == {k \in 0 .. End : SameBit(g[k], p, h[k], 0)}
<1>5. 0 \in T
  <2>1. /\ g[0] = [x0 |-> w[7], x1 |-> w[6], x2 |-> w[5], x3 |-> w[4],
                   x4 |-> w[3], x5 |-> w[2], x6 |-> w[1], x7 |-> w[0]]
        /\ h[0] = [x0 |-> x[7], x1 |-> x[6], x2 |-> x[5], x3 |-> x[4],
                   x4 |-> x[3], x5 |-> x[2], x6 |-> x[1], x7 |-> x[0]]
    BY <1>1, <1>2 DEF WiresOf
  <2>2. SameBit(g[0], p, h[0], 0)
    BY <1>4, <2>1 DEF SameBit
  <2> QED BY <1>0, <2>2
<1>6. ASSUME NEW k \in 1 .. End, k - 1 \in T PROVE k \in T
  <2>1. g[k] = Through(SboxCircuit[k], g[k - 1]) /\ h[k] = Through(SboxCircuit[k], h[k - 1])
    BY <1>1, <1>2 DEF WiresOf
  <2>2. DOMAIN g[k - 1] = WiresBefore(k)
    <3>1. k - 1 \in 0 .. End /\ (k - 1) + 1 = k BY <1>0
    <3>2. DOMAIN g[k - 1] = WiresBefore((k - 1) + 1) BY <1>1, <3>1, KnownWires
    <3> QED BY <3>1, <3>2
  <2>3. \A n \in DOMAIN SboxCircuit[k] : {SboxCircuit[k][n][1], SboxCircuit[k][n][3]} \subseteq DOMAIN g[k - 1]
    BY <2>2, SboxAssumption
  <2>4. SameBit(g[k - 1], p, h[k - 1], 0)
    BY <1>6
  <2>5. SameBit(Through(SboxCircuit[k], g[k - 1]), p, Through(SboxCircuit[k], h[k - 1]), 0)
    BY <1>3, <2>3, <2>4, GatesAreBitwise
  <2> QED BY <2>1, <2>5
<1> HIDE DEF T
<1>7. SameBit(g[End], p, h[End], 0)
  <2>1. \A k \in 0 .. End : k \in T BY <1>0, <1>5, <1>6, BoundedInduction, Zenon
  <2> QED BY <1>0, <2>1 DEF T
<1>8. DOMAIN g[End] = WiresBefore(End + 1)
  BY <1>0, <1>1, KnownWires
<1>9. ASSUME NEW v \in 0 .. 7 PROVE outNames[v + 1] \in DOMAIN g[End]
  <2>1. outNames[v + 1] \in {"s0", "s1", "s2", "s3", "s4", "s5", "s6", "s7"}
    OBVIOUS
  <2> QED BY <1>8, <2>1, SboxAssumption
<1> DEFINE s == br_aes_ct64_bitslice_Sbox(w)
           t == br_aes_ct64_bitslice_Sbox(x)
<1>10. ASSUME NEW v \in 0 .. 7
       PROVE  s[v] \in SUBSET Bits64 /\ (p \in s[v] <=> 0 \in t[v])
  <2>1. s[v] = g[End][outNames[v + 1]] /\ t[v] = h[End][outNames[v + 1]]
    BY <1>1, <1>2
  <2> HIDE DEF outNames, s, t
  <2> QED BY <1>7, <1>9, <2>1 DEF SameBit
<1>11. s \in EightWords
  <2>1. s = [v \in 0 .. 7 |-> s[v]] BY <1>1
  <2> HIDE DEF s
  <2> QED BY <1>10, <2>1 DEF EightWords
<1>12. ByteAcross(s, p) = ByteAcross(t, 0)
  <2> HIDE DEF s, t
  <2> QED BY <1>10 DEF ByteAcross, Bits8
<1>13. ByteAcross(t, 0) = Cipher!SubByte[a]
  <2> HIDE DEF t
  <2>1. ByteAcross(br_aes_ct64_bitslice_Sbox([v \in 0 .. 7 |-> IF v \in a THEN {0} ELSE {}]), 0) = Cipher!SubByte[a]
    BY <1>3, SboxAssumption, Zenon
  <2> QED BY <2>1 DEF x, t
<1> QED BY <1>11, <1>12, <1>13 DEF a

-----------------------------------------------------------------------------
(* Transpositions and interleaved bytes *)

\* Words at distance n exchange bits at distance n: the bit of n in the number of the
\* word and in the position change places.
Swapped(n, v, p) == (((v \div n) % 2) - ((p \div n) % 2)) * n

\* The masks select the bits whose number has an even quotient.
LEMMA AlternateMasks ==
  \A n \in {1, 2, 4, 8, 16}, p \in Bits64 : p \in Alternate[n] <=> (p \div n) % 2 = 0
  BY DEF Alternate

\* Bits of a shifted word.
LEMMA Shifts ==
  ASSUME NEW x \in SUBSET Bits64, NEW n \in Nat
  PROVE  /\ Shl(x, n) \in SUBSET Bits64 /\ Shr(x, n) \in SUBSET Bits64
         /\ \A p \in Bits64 : p \in Shl(x, n) <=> p - n \in x
         /\ \A p \in Bits64 : p \in Shr(x, n) <=> p + n \in x
<1>1. ASSUME NEW j \in x PROVE j \in Int /\ j >= 0 /\ j <= 63
  BY DEF Bits64
<1>2. ASSUME NEW p \in Bits64 PROVE p \in Int /\ p >= 0 /\ p <= 63
  BY DEF Bits64
<1>3. ASSUME NEW p \in Bits64 PROVE p \in Shl(x, n) <=> p - n \in x
  <2>1. ASSUME p \in Shl(x, n) PROVE p - n \in x
    <3>1. PICK j \in x : p = j + n BY <2>1 DEF Shl
    <3>2. p - n = j BY <1>1, <3>1
    <3> QED BY <3>2
  <2>2. ASSUME p - n \in x PROVE p \in Shl(x, n)
    <3>1. (p - n) + n = p BY <1>2
    <3> QED BY <2>2, <3>1 DEF Shl
  <2> QED BY <2>1, <2>2
<1>4. ASSUME NEW p \in Bits64 PROVE p \in Shr(x, n) <=> p + n \in x
  <2>1. ASSUME p \in Shr(x, n) PROVE p + n \in x
    <3>1. PICK j \in x : p = j - n BY <2>1 DEF Shr
    <3>2. p + n = j BY <1>1, <3>1
    <3> QED BY <3>2
  <2>2. ASSUME p + n \in x PROVE p \in Shr(x, n)
    <3>1. (p + n) - n = p /\ p + n >= n BY <1>2
    <3> QED BY <2>2, <3>1 DEF Shr
  <2> QED BY <2>1, <2>2
<1>5. Shl(x, n) \in SUBSET Bits64
  BY DEF Shl
<1>6. Shr(x, n) \in SUBSET Bits64
  <2> SUFFICES ASSUME NEW j \in x, j >= n PROVE j - n \in Bits64
    BY DEF Shr
  <2> QED BY <1>1 DEF Bits64
<1> QED BY <1>3, <1>4, <1>5, <1>6

\* SWAP2, SWAP4 and SWAP8 make the two bits of each pair change places.
LEMMA SwapBits ==
  ASSUME NEW w \in EightWords, NEW n \in {1, 2, 4}
  PROVE  /\ SwapN(n, w) \in EightWords
         /\ \A v \in 0 .. 7, p \in Bits64 :
              /\ p + Swapped(n, v, p) \in Bits64 /\ v - Swapped(n, v, p) \in 0 .. 7
              /\ p \in SwapN(n, w)[v] <=> p + Swapped(n, v, p) \in w[v - Swapped(n, v, p)]
<1> DEFINE Odd(v)  == Shr(w[v - n] \ Alternate[n], n) \cup (w[v] \ Alternate[n])
           Even(v) == (w[v] \cap Alternate[n]) \cup Shl(w[v + n] \cap Alternate[n], n)
<1>1. SwapN(n, w) = [v \in 0 .. 7 |-> IF (v \div n) % 2 = 0 THEN Even(v) ELSE Odd(v)]
  BY TabulatedIsIdentity DEF SwapN
<1>2. ASSUME NEW v \in 0 .. 7
      PROVE  /\ (v \div n) % 2 = 0 => v + n \in 0 .. 7
             /\ (v \div n) % 2 # 0 => v - n \in 0 .. 7
             /\ (v \div n) % 2 \in {0, 1}
  <2>1. CASE n = 1 BY <2>1
  <2>2. CASE n = 2 BY <2>2
  <2>3. CASE n = 4 BY <2>3
  <2> QED BY <2>1, <2>2, <2>3
<1>3. ASSUME NEW p \in Bits64
      PROVE  /\ (p \div n) % 2 = 0 => p + n \in Bits64 /\ ((p + n) \div n) % 2 = 1
             /\ (p \div n) % 2 # 0 => p - n \in Bits64 /\ ((p - n) \div n) % 2 = 0
             /\ (p \div n) % 2 \in {0, 1}
             /\ p \in Alternate[n] <=> (p \div n) % 2 = 0
             /\ p + n \in Alternate[n] <=> p + n \in Bits64 /\ ((p + n) \div n) % 2 = 0
             /\ p - n \in Alternate[n] <=> p - n \in Bits64 /\ ((p - n) \div n) % 2 = 0
             /\ (p \div n) % 2 = 0 => (((p - n) \div n) % 2 = 1 \/ p - n \notin Bits64)
             /\ (p \div n) % 2 = 1 => (((p + n) \div n) % 2 = 0 \/ p + n \notin Bits64)
  <2>0. Alternate[n] \subseteq Bits64 BY DEF Alternate
  <2>1. CASE n = 1 BY <2>0, <2>1, AlternateMasks DEF Bits64
  <2>2. CASE n = 2 BY <2>0, <2>2, AlternateMasks DEF Bits64
  <2>3. CASE n = 4 BY <2>0, <2>3, AlternateMasks DEF Bits64
  <2> QED BY <2>1, <2>2, <2>3
<1>4. ASSUME NEW v \in 0 .. 7 PROVE w[v] \in SUBSET Bits64
  BY DEF EightWords
<1>5. ASSUME NEW v \in 0 .. 7, (v \div n) % 2 = 0
      PROVE  /\ Even(v) \in SUBSET Bits64
             /\ \A p \in Bits64 : p \in Even(v) <=> IF (p \div n) % 2 = 0 THEN p \in w[v] ELSE p - n \in w[v + n]
  <2> DEFINE x == w[v + n] \cap Alternate[n]
  <2>1. x \in SUBSET Bits64 /\ w[v] \in SUBSET Bits64 /\ w[v + n] \in SUBSET Bits64
    BY <1>2, <1>4, <1>5
  <2>2. x \in SUBSET Bits64 /\ n \in Nat
    BY <2>1
  <2> HIDE DEF x
  <2>3. /\ Shl(x, n) \in SUBSET Bits64
        /\ \A p \in Bits64 : p \in Shl(x, n) <=> p - n \in x
    BY <2>2, Shifts
  <2>4. ASSUME NEW p \in Bits64
        PROVE  p \in Shl(x, n) <=> (p \div n) % 2 = 1 /\ p - n \in w[v + n]
    <3>1. p - n \in x <=> p - n \in w[v + n] /\ p - n \in Alternate[n]
      BY DEF x
    <3>2. p - n \in Alternate[n] <=> p - n \in Bits64 /\ ((p - n) \div n) % 2 = 0
      BY <1>3
    <3>3. p \in Shl(x, n) <=> p - n \in x
      BY <2>3
    <3>4. CASE (p \div n) % 2 = 0
      BY <1>3, <3>1, <3>2, <3>3, <3>4
    <3>5. CASE (p \div n) % 2 = 1
      BY <1>3, <2>1, <3>1, <3>2, <3>3, <3>5
    <3> QED BY <1>3, <3>4, <3>5
  <2>5. ASSUME NEW p \in Bits64 PROVE p \in Alternate[n] <=> (p \div n) % 2 = 0
    BY <1>3
  <2>6. ASSUME NEW p \in Bits64 PROVE (p \div n) % 2 \in {0, 1}
    BY <1>3
  <2>7. Even(v) \in SUBSET Bits64
    <3>1. Even(v) = (w[v] \cap Alternate[n]) \cup Shl(x, n)
      BY DEF x
    <3> HIDE DEF Even
    <3> QED BY <2>1, <2>3, <3>1
  <2>8. ASSUME NEW p \in Bits64
        PROVE  p \in Even(v) <=> IF (p \div n) % 2 = 0 THEN p \in w[v] ELSE p - n \in w[v + n]
    <3>1. p \in Even(v) <=> (p \in w[v] /\ p \in Alternate[n]) \/ p \in Shl(x, n)
      BY DEF x
    <3> QED BY <2>4, <2>5, <2>6, <3>1
  <2> QED BY <2>7, <2>8
<1>6. ASSUME NEW v \in 0 .. 7, (v \div n) % 2 # 0
      PROVE  /\ Odd(v) \in SUBSET Bits64
             /\ \A p \in Bits64 : p \in Odd(v) <=> IF (p \div n) % 2 = 0 THEN p + n \in w[v - n] ELSE p \in w[v]
  <2> DEFINE x == w[v - n] \ Alternate[n]
  <2>1. x \in SUBSET Bits64 /\ w[v] \in SUBSET Bits64 /\ w[v - n] \in SUBSET Bits64
    BY <1>2, <1>4, <1>6
  <2>2. x \in SUBSET Bits64 /\ n \in Nat
    BY <2>1
  <2> HIDE DEF x
  <2>3. /\ Shr(x, n) \in SUBSET Bits64
        /\ \A p \in Bits64 : p \in Shr(x, n) <=> p + n \in x
    BY <2>2, Shifts
  <2>4. ASSUME NEW p \in Bits64
        PROVE  p \in Shr(x, n) <=> (p \div n) % 2 = 0 /\ p + n \in w[v - n]
    <3>1. p + n \in x <=> p + n \in w[v - n] /\ p + n \notin Alternate[n]
      BY DEF x
    <3>2. p + n \in Alternate[n] <=> p + n \in Bits64 /\ ((p + n) \div n) % 2 = 0
      BY <1>3
    <3>3. p \in Shr(x, n) <=> p + n \in x
      BY <2>3
    <3>4. CASE (p \div n) % 2 = 0
      BY <1>3, <2>1, <3>1, <3>2, <3>3, <3>4
    <3>5. CASE (p \div n) % 2 = 1
      BY <1>3, <2>1, <3>1, <3>2, <3>3, <3>5
    <3> QED BY <1>3, <3>4, <3>5
  <2>5. ASSUME NEW p \in Bits64 PROVE p \in Alternate[n] <=> (p \div n) % 2 = 0
    BY <1>3
  <2> QED BY <1>6, <2>1, <2>3, <2>4, <2>5 DEF x
<1> HIDE DEF Odd, Even
<1>7. SwapN(n, w) \in EightWords
  BY <1>1, <1>2, <1>5, <1>6 DEF EightWords
<1>8. ASSUME NEW v \in 0 .. 7, NEW p \in Bits64
      PROVE  /\ p + Swapped(n, v, p) \in Bits64 /\ v - Swapped(n, v, p) \in 0 .. 7
             /\ p \in SwapN(n, w)[v] <=> p + Swapped(n, v, p) \in w[v - Swapped(n, v, p)]
  <2>0. p \in Int /\ v \in Int /\ n \in Int BY DEF Bits64
  <2>1. CASE (v \div n) % 2 = 0 /\ (p \div n) % 2 = 0
    <3>1. Swapped(n, v, p) = 0 BY <2>1 DEF Swapped
    <3>2. p + 0 = p /\ v - 0 = v BY <2>0
    <3> QED BY <1>1, <1>5, <2>1, <3>1, <3>2
  <2>2. CASE (v \div n) % 2 = 0 /\ (p \div n) % 2 = 1
    <3>1. Swapped(n, v, p) = -n BY <2>0, <2>2 DEF Swapped
    <3>2. p + (-n) = p - n /\ v - (-n) = v + n BY <2>0
    <3> QED BY <1>1, <1>2, <1>3, <1>5, <2>2, <3>1, <3>2
  <2>3. CASE (v \div n) % 2 = 1 /\ (p \div n) % 2 = 0
    <3>1. Swapped(n, v, p) = n BY <2>0, <2>3 DEF Swapped
    <3> QED BY <1>1, <1>2, <1>3, <1>6, <2>3, <3>1
  <2>4. CASE (v \div n) % 2 = 1 /\ (p \div n) % 2 = 1
    <3>1. Swapped(n, v, p) = 0 BY <2>4 DEF Swapped
    <3>2. p + 0 = p /\ v - 0 = v BY <2>0
    <3> QED BY <1>1, <1>6, <2>4, <3>1, <3>2
  <2> QED BY <1>2, <1>3, <2>1, <2>2, <2>3, <2>4
<1> QED BY <1>7, <1>8

\* ortho transposes the eight bits at the same byte of eight words.
LEMMA OrthoTransposes ==
  ASSUME NEW w \in EightWords
  PROVE  /\ br_aes_ct64_ortho(w) \in EightWords
         /\ \A v \in 0 .. 7, p \in Bits64 :
              p \in br_aes_ct64_ortho(w)[v] <=> 8 * (p \div 8) + v \in w[p % 8]
<1> DEFINE w1 == SwapN(1, w)
           w2 == SwapN(2, w1)
           w4 == SwapN(4, w2)
<1>1. w1 \in EightWords /\ w2 \in EightWords /\ w4 \in EightWords
  BY SwapBits
<1>2. br_aes_ct64_ortho(w) = w4
  BY DEF br_aes_ct64_ortho
<1> SUFFICES ASSUME NEW v \in 0 .. 7, NEW p \in Bits64
             PROVE  p \in w4[v] <=> 8 * (p \div 8) + v \in w[p % 8]
  BY <1>1, <1>2
<1> DEFINE p1 == p + Swapped(4, v, p)      v1 == v - Swapped(4, v, p)
           p2 == p1 + Swapped(2, v1, p1)   v2 == v1 - Swapped(2, v1, p1)
           p3 == p2 + Swapped(1, v2, p2)   v3 == v2 - Swapped(1, v2, p2)
<1>3. /\ p1 \in Bits64 /\ v1 \in 0 .. 7
      /\ p \in w4[v] <=> p1 \in w2[v1]
  <2> HIDE DEF w2
  <2> QED BY <1>1, SwapBits
<1>4. /\ p2 \in Bits64 /\ v2 \in 0 .. 7
      /\ p1 \in w2[v1] <=> p2 \in w1[v2]
  <2> HIDE DEF w1, p1, v1
  <2> QED BY <1>1, <1>3, SwapBits
<1>5. /\ p3 \in Bits64 /\ v3 \in 0 .. 7
      /\ p2 \in w1[v2] <=> p3 \in w[v3]
  <2> HIDE DEF p2, v2
  <2> QED BY <1>1, <1>4, SwapBits
<1>6. p3 = 8 * (p \div 8) + v /\ v3 = p % 8
  BY DEF Swapped, Bits64
<1> HIDE DEF w1, w2, w4, p1, p2, p3, v1, v2, v3
<1> QED BY <1>3, <1>4, <1>5, <1>6

\* Spread leaves a byte free after each of the four bytes of a word.
LEMMA SpreadBits ==
  ASSUME NEW x \in SUBSET Bits32
  PROVE  /\ Spread(x) \in SUBSET Bits64
         /\ \A p \in Bits64 : p \in Spread(x) <=> (p \div 8) % 2 = 0 /\ 8 * (p \div 16) + (p % 8) \in x
<1> DEFINE y == (x \cup Shl(x, 16)) \cap Alternate[16]
           z == (y \cup Shl(y, 8)) \cap Alternate[8]
<1>1. x \in SUBSET Bits64 /\ \A p \in Int : p \in x => p >= 0 /\ p <= 31
  BY DEF Bits32, Bits64
<1>2. /\ Shl(x, 16) \in SUBSET Bits64
      /\ \A p \in Bits64 : p \in Shl(x, 16) <=> p - 16 \in x
  BY <1>1, Shifts
<1>3. y \in SUBSET Bits64
  BY <1>1, <1>2
<1>4. ASSUME NEW p \in Bits64
      PROVE  p \in y <=> (p \div 16) % 2 = 0 /\ 16 * (p \div 32) + (p % 16) \in x
  <2>1. p \in y <=> (p \in x \/ p - 16 \in x) /\ (p \div 16) % 2 = 0
    <3>1. p \in Alternate[16] <=> (p \div 16) % 2 = 0
      BY AlternateMasks
    <3> QED BY <1>2, <3>1
  <2>2. p \in x => p \div 32 = 0
    BY <1>1 DEF Bits64
  <2>3. p - 16 \in x => (p \div 16) % 2 = 1 \/ p \div 32 = 1
    BY <1>1 DEF Bits64
  <2>4. (p \div 16) % 2 = 0 /\ p \div 32 = 0 => 16 * (p \div 32) + (p % 16) = p
    BY DEF Bits64
  <2>5. (p \div 16) % 2 = 0 /\ p \div 32 = 1 => 16 * (p \div 32) + (p % 16) = p - 16
    BY DEF Bits64
  <2>6. p \div 32 \in {0, 1}
    BY DEF Bits64
  <2> HIDE DEF y
  <2>7. p \in x => p - 16 \notin x \/ (p \div 16) % 2 = 1
    BY <2>2, <2>3
  <2>8. p \div 32 = 0 /\ (p \div 16) % 2 = 0 => p - 16 \notin x
    BY <2>3
  <2> QED BY <2>1, <2>2, <2>4, <2>5, <2>6, <2>8
<1> HIDE DEF y
<1>5. /\ Shl(y, 8) \in SUBSET Bits64
      /\ \A p \in Bits64 : p \in Shl(y, 8) <=> p - 8 \in y
  BY <1>3, Shifts
<1>6. z \in SUBSET Bits64
  BY <1>3, <1>5
<1>7. ASSUME NEW p \in Bits64
      PROVE  p \in z <=> (p \div 8) % 2 = 0 /\ 8 * (p \div 16) + (p % 8) \in x
  <2>1. p \in z <=> (p \in y \/ p - 8 \in y) /\ (p \div 8) % 2 = 0
    <3>1. p \in Alternate[8] <=> (p \div 8) % 2 = 0
      BY AlternateMasks
    <3> QED BY <1>5, <3>1
  <2>2. CASE (p \div 8) % 2 = 1
    BY <2>1, <2>2
  <2>3. CASE (p \div 8) % 2 = 0 /\ (p \div 16) % 2 = 0
    <3>1. p - 8 \notin y
      <4>1. p - 8 \notin Bits64 \/ ((p - 8) \div 16) % 2 = 1
        BY <2>3 DEF Bits64
      <4> QED BY <1>3, <1>4, <4>1
    <3>2. 16 * (p \div 32) + (p % 16) = 8 * (p \div 16) + (p % 8)
      BY <2>3 DEF Bits64
    <3> QED BY <1>4, <2>1, <2>3, <3>1, <3>2
  <2>4. CASE (p \div 8) % 2 = 0 /\ (p \div 16) % 2 = 1
    <3>1. p \notin y
      BY <1>4, <2>4
    <3>2. p - 8 \in Bits64 /\ ((p - 8) \div 16) % 2 = 0
      BY <2>4 DEF Bits64
    <3>3. 16 * ((p - 8) \div 32) + ((p - 8) % 16) = 8 * (p \div 16) + (p % 8)
      BY <2>4 DEF Bits64
    <3> QED BY <1>4, <2>1, <2>4, <3>1, <3>2, <3>3
  <2>5. (p \div 8) % 2 \in {0, 1} /\ (p \div 16) % 2 \in {0, 1}
    BY DEF Bits64
  <2> QED BY <2>2, <2>3, <2>4, <2>5
<1>8. Spread(x) = z
  BY DEF Spread, y
<1> HIDE DEF z
<1> QED BY <1>6, <1>7, <1>8

\* Gather takes every other byte.
LEMMA GatherBits ==
  ASSUME NEW x \in SUBSET Bits64
  PROVE  /\ Gather(x) \in SUBSET Bits32
         /\ \A p \in Bits32 : p \in Gather(x) <=> 16 * (p \div 8) + (p % 8) \in x
<1> DEFINE y == x \cap Alternate[8]
           z == (y \cup Shr(y, 8)) \cap Alternate[16]
           g == (z \cup Shr(z, 16)) \cap Bits32
<1>1. y \in SUBSET Bits64 /\ \A p \in Bits64 : p \in y <=> (p \div 8) % 2 = 0 /\ p \in x
  BY AlternateMasks
<1> HIDE DEF y
<1>2. /\ Shr(y, 8) \in SUBSET Bits64
      /\ \A p \in Bits64 : p \in Shr(y, 8) <=> p + 8 \in y
  BY <1>1, Shifts
<1>3. z \in SUBSET Bits64
  BY <1>1, <1>2
<1>4. ASSUME NEW p \in Bits64
      PROVE  p \in z <=> (p \div 16) % 2 = 0 /\ 16 * (p \div 8) - 16 * (p \div 16) + (p % 8) \in x
  <2>1. p \in z <=> (p \in y \/ p + 8 \in y) /\ (p \div 16) % 2 = 0
    <3>1. p \in Alternate[16] <=> (p \div 16) % 2 = 0
      BY AlternateMasks
    <3> QED BY <1>2, <3>1
  <2>2. CASE (p \div 16) % 2 = 1
    BY <2>1, <2>2
  <2>3. CASE (p \div 16) % 2 = 0 /\ (p \div 8) % 2 = 0
    <3>1. p + 8 \notin y
      <4>1. p + 8 \notin Bits64 \/ ((p + 8) \div 8) % 2 = 1
        BY <2>3 DEF Bits64
      <4> QED BY <1>1, <4>1
    <3>2. 16 * (p \div 8) - 16 * (p \div 16) + (p % 8) = p
      BY <2>3 DEF Bits64
    <3> QED BY <1>1, <2>1, <2>3, <3>1, <3>2
  <2>4. CASE (p \div 16) % 2 = 0 /\ (p \div 8) % 2 = 1
    <3>1. p \notin y
      BY <1>1, <2>4
    <3>2. p + 8 \in Bits64 /\ ((p + 8) \div 8) % 2 = 0
      BY <2>4 DEF Bits64
    <3>3. 16 * (p \div 8) - 16 * (p \div 16) + (p % 8) = p + 8
      BY <2>4 DEF Bits64
    <3> QED BY <1>1, <2>1, <2>4, <3>1, <3>2, <3>3
  <2>5. (p \div 8) % 2 \in {0, 1} /\ (p \div 16) % 2 \in {0, 1}
    BY DEF Bits64
  <2> QED BY <2>2, <2>3, <2>4, <2>5
<1> HIDE DEF z
<1>5. /\ Shr(z, 16) \in SUBSET Bits64
      /\ \A p \in Bits64 : p \in Shr(z, 16) <=> p + 16 \in z
  BY <1>3, Shifts
<1>6. ASSUME NEW p \in Bits32
      PROVE  p \in g <=> 16 * (p \div 8) + (p % 8) \in x
  <2>1. p \in Bits64 /\ p + 16 \in Bits64
    BY DEF Bits32, Bits64
  <2>2. p \in g <=> p \in z \/ p + 16 \in z
    BY <1>5, <2>1
  <2>3. CASE p \div 16 = 0
    <3>1. ((p + 16) \div 16) % 2 = 1 /\ (p \div 16) % 2 = 0
      BY <2>3 DEF Bits32
    <3>2. 16 * (p \div 8) - 16 * (p \div 16) + (p % 8) = 16 * (p \div 8) + (p % 8)
      BY <2>3 DEF Bits32
    <3> QED BY <1>4, <2>1, <2>2, <3>1, <3>2
  <2>4. CASE p \div 16 = 1
    <3>1. ((p + 16) \div 16) % 2 = 0 /\ (p \div 16) % 2 = 1
      BY <2>4 DEF Bits32
    <3>2. 16 * ((p + 16) \div 8) - 16 * ((p + 16) \div 16) + ((p + 16) % 8) = 16 * (p \div 8) + (p % 8)
      BY <2>4 DEF Bits32
    <3> QED BY <1>4, <2>1, <2>2, <3>1, <3>2
  <2>5. p \div 16 \in {0, 1}
    BY DEF Bits32
  <2> QED BY <2>3, <2>4, <2>5
<1>7. Gather(x) = g
  BY DEF Gather, y, z
<1> QED BY <1>6, <1>7

\* Bit p of the two words that hold a block: the byte of row p \div 16 of one of
\* its four columns.
LEMMA InterleaveIn ==
  ASSUME NEW w, NEW at \in Nat, \A n \in at .. at + 3 : w[n] \in SUBSET Bits32
  PROVE  \A h \in 0 .. 1 :
           /\ br_aes_ct64_interleave_in(w, at)[1 + h] \in SUBSET Bits64
           /\ \A p \in Bits64 : p \in br_aes_ct64_interleave_in(w, at)[1 + h]
                                  <=> 8 * (p \div 16) + (p % 8) \in w[at + h + 2 * ((p \div 8) % 2)]
<1> DEFINE Two(x, y) == Spread(x) \cup Shl(Spread(y), 8)
<1>1. ASSUME NEW x \in SUBSET Bits32, NEW y \in SUBSET Bits32
      PROVE  /\ Two(x, y) \in SUBSET Bits64
             /\ \A p \in Bits64 : p \in Two(x, y)
                  <=> IF (p \div 8) % 2 = 0 THEN 8 * (p \div 16) + (p % 8) \in x ELSE 8 * (p \div 16) + (p % 8) \in y
  <2>1. /\ Spread(x) \in SUBSET Bits64 /\ Spread(y) \in SUBSET Bits64
        /\ \A p \in Bits64 : p \in Spread(x) <=> (p \div 8) % 2 = 0 /\ 8 * (p \div 16) + (p % 8) \in x
        /\ \A p \in Bits64 : p \in Spread(y) <=> (p \div 8) % 2 = 0 /\ 8 * (p \div 16) + (p % 8) \in y
    BY SpreadBits
  <2>2. /\ Shl(Spread(y), 8) \in SUBSET Bits64
        /\ \A p \in Bits64 : p \in Shl(Spread(y), 8) <=> p - 8 \in Spread(y)
    BY <2>1, Shifts
  <2>3. ASSUME NEW p \in Bits64
        PROVE  p \in Shl(Spread(y), 8) <=> (p \div 8) % 2 = 1 /\ 8 * (p \div 16) + (p % 8) \in y
    <3>1. CASE (p \div 8) % 2 = 0
      <4>1. p - 8 \notin Bits64 \/ ((p - 8) \div 8) % 2 = 1
        BY <3>1 DEF Bits64
      <4> QED BY <2>1, <2>2, <3>1, <4>1
    <3>2. CASE (p \div 8) % 2 = 1
      <4>1. /\ p - 8 \in Bits64 /\ ((p - 8) \div 8) % 2 = 0
            /\ 8 * ((p - 8) \div 16) + ((p - 8) % 8) = 8 * (p \div 16) + (p % 8)
        BY <3>2 DEF Bits64
      <4> QED BY <2>1, <2>2, <3>2, <4>1
    <3>3. (p \div 8) % 2 \in {0, 1}
      BY DEF Bits64
    <3> QED BY <3>1, <3>2, <3>3
  <2>4. ASSUME NEW p \in Bits64 PROVE (p \div 8) % 2 \in {0, 1}
    BY DEF Bits64
  <2> QED BY <2>1, <2>2, <2>3, <2>4
<1>2. br_aes_ct64_interleave_in(w, at) = <<Two(w[at], w[at + 2]), Two(w[at + 1], w[at + 3])>>
  BY DEF br_aes_ct64_interleave_in
<1> HIDE DEF Two
<1>3. /\ w[at] \in SUBSET Bits32 /\ w[at + 1] \in SUBSET Bits32
      /\ w[at + 2] \in SUBSET Bits32 /\ w[at + 3] \in SUBSET Bits32
  OBVIOUS
<1>4. ASSUME NEW h \in 0 .. 1
      PROVE  /\ br_aes_ct64_interleave_in(w, at)[1 + h] = Two(w[at + h], w[at + h + 2])
             /\ w[at + h] \in SUBSET Bits32 /\ w[at + h + 2] \in SUBSET Bits32
  <2>1. CASE h = 0
    <3>1. at + 0 = at /\ at + 0 + 2 = at + 2 /\ 1 + 0 = 1 OBVIOUS
    <3> QED BY <1>2, <1>3, <2>1, <3>1
  <2>2. CASE h = 1
    <3>1. at + 1 + 2 = at + 3 /\ 1 + 1 = 2 OBVIOUS
    <3> QED BY <1>2, <1>3, <2>2, <3>1
  <2> QED BY <2>1, <2>2
<1>5. ASSUME NEW h \in 0 .. 1, NEW p \in Bits64
      PROVE  /\ (p \div 8) % 2 = 0 => at + h + 2 * ((p \div 8) % 2) = at + h
             /\ (p \div 8) % 2 # 0 => at + h + 2 * ((p \div 8) % 2) = at + h + 2
  BY DEF Bits64
<1>6. ASSUME NEW h \in 0 .. 1
      PROVE  /\ br_aes_ct64_interleave_in(w, at)[1 + h] \in SUBSET Bits64
             /\ \A p \in Bits64 : p \in br_aes_ct64_interleave_in(w, at)[1 + h]
                  <=> 8 * (p \div 16) + (p % 8) \in w[at + h + 2 * ((p \div 8) % 2)]
  <2> DEFINE x == w[at + h]
             y == w[at + h + 2]
  <2>1. x \in SUBSET Bits32 /\ y \in SUBSET Bits32
    BY <1>4
  <2> HIDE DEF x, y
  <2>2. /\ Two(x, y) \in SUBSET Bits64
        /\ \A p \in Bits64 : p \in Two(x, y)
             <=> IF (p \div 8) % 2 = 0 THEN 8 * (p \div 16) + (p % 8) \in x ELSE 8 * (p \div 16) + (p % 8) \in y
    BY <1>1, <2>1
  <2>3. br_aes_ct64_interleave_in(w, at)[1 + h] = Two(x, y)
    BY <1>4 DEF x, y
  <2>4. ASSUME NEW p \in Bits64
        PROVE  w[at + h + 2 * ((p \div 8) % 2)] = IF (p \div 8) % 2 = 0 THEN x ELSE y
    BY <1>5 DEF x, y
  <2>5. ASSUME NEW p \in Bits64
        PROVE  p \in br_aes_ct64_interleave_in(w, at)[1 + h]
                 <=> 8 * (p \div 16) + (p % 8) \in w[at + h + 2 * ((p \div 8) % 2)]
    <3>1. CASE (p \div 8) % 2 = 0
      BY <2>2, <2>3, <2>4, <3>1
    <3>2. CASE (p \div 8) % 2 # 0
      BY <2>2, <2>3, <2>4, <3>2
    <3> QED BY <3>1, <3>2
  <2> QED BY <2>2, <2>3, <2>5
<1> QED BY <1>6

-----------------------------------------------------------------------------
(* The expanded round keys *)

\* Four words transposed: a bit of a word of the block in place of a lane.
LEMMA TransposedBlock ==
  ASSUME NEW w, NEW at \in Nat, \A n \in at .. at + 3 : w[n] \in SUBSET Bits32
  PROVE  LET o == br_aes_ct64_ortho([v \in 0 .. 7 |-> br_aes_ct64_interleave_in(w, at)[1 + (v \div 4)]])
         IN  \A v \in 0 .. 7 :
               /\ o[v] \in SUBSET Bits64
               /\ \A p \in Bits64 : p \in o[v] <=> 8 * (p \div 16) + v \in w[at + ((p \div 4) % 4)]
<1> DEFINE inter == br_aes_ct64_interleave_in(w, at)
           x == [v \in 0 .. 7 |-> inter[1 + (v \div 4)]]
           o == br_aes_ct64_ortho(x)
<1>1. \A h \in 0 .. 1 :
        /\ inter[1 + h] \in SUBSET Bits64
        /\ \A p \in Bits64 : p \in inter[1 + h] <=> 8 * (p \div 16) + (p % 8) \in w[at + h + 2 * ((p \div 8) % 2)]
  BY InterleaveIn
<1> HIDE DEF inter
<1>2. x \in EightWords
  <2>1. \A v \in 0 .. 7 : v \div 4 \in 0 .. 1 OBVIOUS
  <2> QED BY <1>1, <2>1 DEF EightWords
<1>3. x \in EightWords /\ \A v \in 0 .. 7 : x[v] = inter[1 + (v \div 4)]
  BY <1>2
<1> HIDE DEF x
<1>4. /\ o \in EightWords
      /\ \A v \in 0 .. 7, p \in Bits64 : p \in o[v] <=> 8 * (p \div 8) + v \in x[p % 8]
  BY <1>3, OrthoTransposes
<1> HIDE DEF o
<1>5. ASSUME NEW v \in 0 .. 7, NEW p \in Bits64
      PROVE  p \in o[v] <=> 8 * (p \div 16) + v \in w[at + ((p \div 4) % 4)]
  <2> DEFINE h == (p % 8) \div 4
             z == 8 * (p \div 8) + v
  <2>1. p % 8 \in 0 .. 7 /\ h \in 0 .. 1 /\ z \in Bits64
    BY DEF Bits64
  <2>2. /\ z \div 16 = p \div 16 /\ z % 8 = v
        /\ h + 2 * ((z \div 8) % 2) = (p \div 4) % 4
    BY DEF Bits64
  <2>3. at + h + 2 * ((z \div 8) % 2) = at + ((p \div 4) % 4)
    <3> DEFINE k == 2 * ((z \div 8) % 2)
               l == (p \div 4) % 4
    <3>1. k \in Nat /\ l \in Nat /\ h \in Nat /\ h + k = l
      BY <2>1, <2>2 DEF Bits64
    <3> HIDE DEF k, l, h
    <3>2. at + h + k = at + l
      BY <3>1
    <3> QED BY <3>2 DEF k, l
  <2> HIDE DEF z, h
  <2>4. p \in o[v] <=> z \in inter[1 + h]
    BY <1>3, <1>4, <2>1 DEF z, h
  <2>5. z \in inter[1 + h] <=> 8 * (z \div 16) + (z % 8) \in w[at + h + 2 * ((z \div 8) % 2)]
    BY <1>1, <2>1
  <2> QED BY <2>2, <2>3, <2>4, <2>5
<1> QED BY <1>4, <1>5 DEF EightWords, o, x, inter

\* The three lengths of a key, and what the code derives from them.
LEMMA KeySizes ==
  ASSUME SliceLen(key) \in {16, 24, 32}
  PROVE  /\ nk \in {4, 6, 8} /\ nrounds \in {10, 12, 14} /\ nkf \in {44, 52, 60}
         /\ nkf = 4 * (nrounds + 1) /\ nk = SliceLen(key) \div 4
         /\ nrounds = 6 + (SliceLen(key) \div 4)
  BY DEF nk, nrounds, nkf

\* The bits of the words of the expanded round keys.
LaneKeys(sk, words) ==
  /\ DOMAIN sk = 0 .. 2 * nkf - 1
  /\ \A n \in 0 .. 2 * nkf - 1 :
       /\ sk[n] \in SUBSET Bits64
       /\ \A p \in Bits64 : p \in sk[n] <=> 8 * (p \div 16) + (n % 8) \in words[4 * (n \div 8) + ((p \div 4) % 4)]

\* The compression keeps one bit in four, and the expansion copies it to the lanes.
LEMMA ExpandedKeys ==
  ASSUME SliceLen(key) \in {16, 24, 32}, NEW words, \A n \in 0 .. nkf - 1 : words[n] \in SUBSET Bits32
  PROVE  LaneKeys(br_aes_ct64_skey_expand(words), words)
<1> DEFINE sk == br_aes_ct64_skey_expand(words)
<1>0. nkf \in {44, 52, 60}
  BY KeySizes
<1> SUFFICES ASSUME NEW n \in 0 .. 2 * nkf - 1
             PROVE  /\ sk[n] \in SUBSET Bits64
                    /\ \A p \in Bits64 : p \in sk[n] <=> 8 * (p \div 16) + (n % 8) \in words[4 * (n \div 8) + ((p \div 4) % 4)]
  BY DEF LaneKeys, br_aes_ct64_skey_expand
<1> DEFINE r == n \div 8
           h == (n \div 4) % 2
           v == n % 4
           o == br_aes_ct64_ortho([u \in 0 .. 7 |-> br_aes_ct64_interleave_in(words, 4 * r)[1 + (u \div 4)]])
           c == comp_skey(words, r)
           y == c[h] \cap Every4th[v]
           x == Shr(y, v)
<1>1. /\ r \in Nat /\ h \in 0 .. 1 /\ v \in 0 .. 3 /\ 4 * h + v = n % 8 /\ 4 * h + v \in 0 .. 7
      /\ 4 * r \in Nat /\ 4 * r + 3 \in 0 .. nkf - 1
  BY <1>0
<1>2. \A u \in 0 .. 7 :
        /\ o[u] \in SUBSET Bits64
        /\ \A p \in Bits64 : p \in o[u] <=> 8 * (p \div 16) + u \in words[4 * r + ((p \div 4) % 4)]
  <2>1. \A m \in 4 * r .. 4 * r + 3 : words[m] \in SUBSET Bits32
    BY <1>0, <1>1
  <2> HIDE DEF r
  <2> QED BY <1>1, <2>1, TransposedBlock
<1>3. c[h] = UNION {o[4 * h + u] \cap Every4th[u] : u \in 0 .. 3}
  <2> HIDE DEF h
  <2>1. c = [i \in 0 .. 1 |-> UNION {o[4 * i + u] \cap Every4th[u] : u \in 0 .. 3}]
    BY DEF comp_skey
  <2> HIDE DEF c, o
  <2> QED BY <1>1, <2>1
<1>4. sk[n] = {b \in Bits64 : b - (b % 4) \in x}
  BY DEF br_aes_ct64_skey_expand
<1> HIDE DEF o, c, sk, h, v, r
<1>5. \A u \in 0 .. 3, p \in Bits64 : p \in Every4th[u] <=> p % 4 = u
  BY DEF Every4th
<1>6. ASSUME NEW p \in Bits64
      PROVE  p \in y <=> p % 4 = v /\ p \in o[4 * h + v]
  <2>1. p \in c[h] <=> \E u \in 0 .. 3 : p \in o[4 * h + u] /\ p \in Every4th[u]
    BY <1>3
  <2>2. p \in c[h] <=> \E u \in 0 .. 3 : p \in o[4 * h + u] /\ p % 4 = u
    BY <1>5, <2>1
  <2> QED BY <1>1, <1>5, <2>2
<1>7. y \in SUBSET Bits64
  BY <1>1 DEF Every4th
<1> HIDE DEF y
<1>8. \A p \in Bits64 : p \in x <=> p + v \in y
  <2>1. v \in Nat BY <1>1
  <2> QED BY <1>7, <2>1, Shifts
<1> HIDE DEF x
<1>9. ASSUME NEW b \in Bits64
      PROVE  b \in sk[n] <=> 8 * (b \div 16) + (n % 8) \in words[4 * (n \div 8) + ((b \div 4) % 4)]
  <2> DEFINE p == (b - (b % 4)) + v
  <2>1. b - (b % 4) \in Bits64 /\ p \in Bits64 /\ p % 4 = v /\ p \div 16 = b \div 16 /\ p \div 4 = b \div 4
    BY <1>1 DEF Bits64
  <2> HIDE DEF p
  <2>2. b \in sk[n] <=> p \in y
    BY <1>4, <1>8, <2>1 DEF p
  <2>3. p \in y <=> p \in o[4 * h + v]
    BY <1>6, <2>1
  <2>4. p \in o[4 * h + v] <=> 8 * (p \div 16) + (4 * h + v) \in words[4 * r + ((p \div 4) % 4)]
    BY <1>1, <1>2, <2>1
  <2> QED BY <1>1, <2>1, <2>2, <2>3, <2>4 DEF r
<1>10. sk[n] \in SUBSET Bits64
  BY <1>4
<1> QED BY <1>9, <1>10

-----------------------------------------------------------------------------
(* The operations of a round *)

\* The sixteen bytes of a block, from its lane in eight words.
Lane(w, b) == [n \in 0 .. 15 |-> {v \in Bits8 : Position(b, n) \in w[v]}]

\* The bytes of the words of the key schedule.
WordBytes(words) == [n \in DOMAIN words |-> [b \in 0 .. 3 |-> {v \in Bits8 : 8 * b + v \in words[n]}]]

Blocks16 == [0 .. 15 -> SUBSET Bits8]

\* Sums of sets are exclusive ors at every place.
LEMMA SumAt ==
  /\ \A a, b, i : i \in a ++ b <=> ~(i \in a <=> i \in b)
  /\ \A a, b : Cipher!++(a, b) = a ++ b
  BY DEF ++, Cipher!++

\* Places of the bits of a lane.
LEMMA Positions16 ==
  ASSUME NEW b \in 0 .. 3, NEW n \in 0 .. 15
  PROVE  /\ Position(b, n) \in Bits64
         /\ Position(b, n) \div 16 = n % 4
         /\ (Position(b, n) \div 4) % 4 = n \div 4
         /\ Position(b, n) % 4 = b
         /\ n % 4 \in 0 .. 3 /\ n \div 4 \in 0 .. 3
  BY DEF Position, Bits64

\* A lane is a block, and its bits are those at the positions of the lane.
LEMMA LaneIsBlock ==
  ASSUME NEW w, NEW b
  PROVE  /\ Lane(w, b) \in Blocks16
         /\ \A n \in 0 .. 15, v \in Bits8 : v \in Lane(w, b)[n] <=> Position(b, n) \in w[v]
  BY DEF Lane, Blocks16

\* Two blocks with the same bits are the same.
LEMMA SameBlocks ==
  ASSUME NEW s \in Blocks16, NEW t \in Blocks16,
         \A n \in 0 .. 15, v \in Bits8 : v \in s[n] <=> v \in t[n]
  PROVE  s = t
<1>1. ASSUME NEW n \in 0 .. 15 PROVE s[n] = t[n]
  BY DEF Blocks16
<1>2. s = [n \in 0 .. 15 |-> s[n]] /\ t = [n \in 0 .. 15 |-> t[n]]
  BY DEF Blocks16
<1> QED BY <1>1, <1>2

\* The S-box yields bytes.
LEMMA SubByteType == \A a \in SUBSET Bits8 : Cipher!SubByte[a] \in SUBSET Bits8
<1> SUFFICES ASSUME NEW a \in SUBSET Bits8 PROVE Cipher!SubByte[a] \in SUBSET Bits8
  OBVIOUS
<1> DEFINE s == br_aes_ct64_bitslice_Sbox([v \in 0 .. 7 |-> IF v \in a THEN {0} ELSE {}])
<1>1. ByteAcross(s, 0) = Cipher!SubByte[a]
  BY SboxAssumption, Zenon
<1> HIDE DEF s
<1>2. ByteAcross(s, 0) \in SUBSET Bits8
  BY DEF ByteAcross
<1> QED BY <1>1, <1>2

\* In each lane the circuit is SubBytes.
LEMMA LaneSubBytes ==
  ASSUME NEW w \in EightWords, NEW b \in 0 .. 3
  PROVE  Lane(br_aes_ct64_bitslice_Sbox(w), b) = Cipher!SubBytes(Lane(w, b))
<1>1. ASSUME NEW n \in 0 .. 15
      PROVE  Lane(br_aes_ct64_bitslice_Sbox(w), b)[n] = Cipher!SubByte[Lane(w, b)[n]]
  <2>1. Position(b, n) \in Bits64
    BY Positions16
  <2>2. ByteAcross(br_aes_ct64_bitslice_Sbox(w), Position(b, n)) = Cipher!SubByte[ByteAcross(w, Position(b, n))]
    BY <2>1, SboxIsSubByte
  <2>3. \A x : Lane(x, b)[n] = ByteAcross(x, Position(b, n))
    BY DEF Lane, ByteAcross
  <2> QED BY <2>2, <2>3
<1>2. Cipher!SubBytes(Lane(w, b)) = [n \in 0 .. 15 |-> Cipher!SubByte[Lane(w, b)[n]]]
  BY DEF Cipher!SubBytes
<1>3. Lane(br_aes_ct64_bitslice_Sbox(w), b) = [n \in 0 .. 15 |-> Lane(br_aes_ct64_bitslice_Sbox(w), b)[n]]
  BY DEF Lane
<1> HIDE DEF Lane
<1> QED BY <1>1, <1>2, <1>3

\* A bit of shift_rows comes from its row, as many columns on.
LEMMA RowsShift ==
  ASSUME NEW w \in EightWords
  PROVE  /\ shift_rows(w) \in EightWords
         /\ \A v \in 0 .. 7, p \in Bits64 :
              p \in shift_rows(w)[v] <=> 16 * (p \div 16) + ((p + 4 * (p \div 16)) % 16) \in w[v]
<1> DEFINE Row(x) ==
             (x \cap 0 .. 15) \cup Shr(x \cap 20 .. 31, 4) \cup Shl(x \cap 16 .. 19, 12)
               \cup Shr(x \cap 40 .. 47, 8) \cup Shl(x \cap 32 .. 39, 8)
               \cup Shr(x \cap 60 .. 63, 12) \cup Shl(x \cap 48 .. 59, 4)
<1>1. shift_rows(w) = [v \in 0 .. 7 |-> Row(w[v])]
  BY DEF shift_rows
<1>2. ASSUME NEW x \in SUBSET Bits64
      PROVE  /\ Row(x) \in SUBSET Bits64
             /\ \A p \in Bits64 : p \in Row(x) <=> 16 * (p \div 16) + ((p + 4 * (p \div 16)) % 16) \in x
  <2> DEFINE a == x \cap 20 .. 31  b == x \cap 16 .. 19  c == x \cap 40 .. 47
             d == x \cap 32 .. 39  e == x \cap 60 .. 63  f == x \cap 48 .. 59
  <2>1. /\ a \in SUBSET Bits64 /\ b \in SUBSET Bits64 /\ c \in SUBSET Bits64
        /\ d \in SUBSET Bits64 /\ e \in SUBSET Bits64 /\ f \in SUBSET Bits64
    OBVIOUS
  <2>2. ASSUME NEW p \in Bits64
        PROVE  /\ p + 4 \in a <=> p + 4 \in x /\ p \in 16 .. 27
               /\ p - 12 \in b <=> p - 12 \in x /\ p \in 28 .. 31
               /\ p + 8 \in c <=> p + 8 \in x /\ p \in 32 .. 39
               /\ p - 8 \in d <=> p - 8 \in x /\ p \in 40 .. 47
               /\ p + 12 \in e <=> p + 12 \in x /\ p \in 48 .. 51
               /\ p - 4 \in f <=> p - 4 \in x /\ p \in 52 .. 63
    BY DEF Bits64
  <2> HIDE DEF a, b, c, d, e, f
  <2>4. Shr(a, 4) \in SUBSET Bits64 /\ \A p \in Bits64 : p \in Shr(a, 4) <=> p + 4 \in a
    BY <2>1, Shifts
  <2>5. Shl(b, 12) \in SUBSET Bits64 /\ \A p \in Bits64 : p \in Shl(b, 12) <=> p - 12 \in b
    BY <2>1, Shifts
  <2>6. Shr(c, 8) \in SUBSET Bits64 /\ \A p \in Bits64 : p \in Shr(c, 8) <=> p + 8 \in c
    BY <2>1, Shifts
  <2>7. Shl(d, 8) \in SUBSET Bits64 /\ \A p \in Bits64 : p \in Shl(d, 8) <=> p - 8 \in d
    BY <2>1, Shifts
  <2>8. Shr(e, 12) \in SUBSET Bits64 /\ \A p \in Bits64 : p \in Shr(e, 12) <=> p + 12 \in e
    BY <2>1, Shifts
  <2>9. Shl(f, 4) \in SUBSET Bits64 /\ \A p \in Bits64 : p \in Shl(f, 4) <=> p - 4 \in f
    BY <2>1, Shifts
  <2>10. Row(x) = (x \cap 0 .. 15) \cup Shr(a, 4) \cup Shl(b, 12) \cup Shr(c, 8) \cup Shl(d, 8) \cup Shr(e, 12) \cup Shl(f, 4)
    BY DEF a, b, c, d, e, f
  <2>11. ASSUME NEW p \in Bits64
         PROVE  p \in Row(x) <=> 16 * (p \div 16) + ((p + 4 * (p \div 16)) % 16) \in x
    <3>1. p \in Row(x) <=> \/ p \in x /\ p \in 0 .. 15
                           \/ p + 4 \in x /\ p \in 16 .. 27
                           \/ p - 12 \in x /\ p \in 28 .. 31
                           \/ p + 8 \in x /\ p \in 32 .. 39
                           \/ p - 8 \in x /\ p \in 40 .. 47
                           \/ p + 12 \in x /\ p \in 48 .. 51
                           \/ p - 4 \in x /\ p \in 52 .. 63
      <4> HIDE DEF Row
      <4> QED BY <2>2, <2>4, <2>5, <2>6, <2>7, <2>8, <2>9, <2>10
    <3> HIDE DEF Row
    <3> DEFINE s == 16 * (p \div 16) + ((p + 4 * (p \div 16)) % 16)
    <3>2. /\ p \in 0 .. 15 => s = p
          /\ p \in 16 .. 27 => s = p + 4
          /\ p \in 28 .. 31 => s = p - 12
          /\ p \in 32 .. 39 => s = p + 8
          /\ p \in 40 .. 47 => s = p - 8
          /\ p \in 48 .. 51 => s = p + 12
          /\ p \in 52 .. 63 => s = p - 4
      OBVIOUS
    <3>3. \/ p \in 0 .. 15 \/ p \in 16 .. 27 \/ p \in 28 .. 31 \/ p \in 32 .. 39
          \/ p \in 40 .. 47 \/ p \in 48 .. 51 \/ p \in 52 .. 63
      BY DEF Bits64
    <3> HIDE DEF s
    <3> QED BY <3>1, <3>2, <3>3 DEF s
  <2>12. Row(x) \in SUBSET Bits64
    <3> HIDE DEF Row
    <3> QED BY <2>4, <2>5, <2>6, <2>7, <2>8, <2>9, <2>10
  <2> HIDE DEF Row
  <2> QED BY <2>11, <2>12
<1> HIDE DEF Row
<1>3. \A v \in 0 .. 7 : w[v] \in SUBSET Bits64
  BY DEF EightWords
<1> QED BY <1>1, <1>2, <1>3 DEF EightWords

\* In each lane shift_rows is ShiftRows.
LEMMA LaneShiftRows ==
  ASSUME NEW w \in EightWords, NEW b \in 0 .. 3
  PROVE  Lane(shift_rows(w), b) = Cipher!ShiftRows(Lane(w, b))
<1> DEFINE From(n) == (n % 4) + 4 * (((n \div 4) + (n % 4)) % 4)
           t == Cipher!ShiftRows(Lane(w, b))
<1>1. t = [n \in 0 .. 15 |-> Lane(w, b)[From(n)]]
  BY DEF Cipher!ShiftRows
<1>2. ASSUME NEW n \in 0 .. 15, NEW v \in Bits8
      PROVE  v \in Lane(shift_rows(w), b)[n] <=> v \in Lane(w, b)[From(n)]
  <2> DEFINE p == Position(b, n)
             f == From(n)
  <2>1. p \in Bits64 /\ f \in 0 .. 15 /\ v \in 0 .. 7
    BY Positions16 DEF Bits8
  <2>2. 16 * (p \div 16) + ((p + 4 * (p \div 16)) % 16) = Position(b, f)
    BY DEF Position
  <2> HIDE DEF p, f
  <2>3. p \in shift_rows(w)[v] <=> Position(b, f) \in w[v]
    BY <2>1, <2>2, RowsShift
  <2> QED BY <2>1, <2>3, LaneIsBlock DEF p, f
<1>3. ASSUME NEW n \in 0 .. 15 PROVE From(n) \in 0 .. 15
  OBVIOUS
<1>4. Lane(w, b) \in Blocks16 /\ Lane(shift_rows(w), b) \in Blocks16
  BY LaneIsBlock
<1> HIDE DEF From, t
<1>5. t \in Blocks16
  BY <1>1, <1>3, <1>4 DEF Blocks16
<1>6. \A n \in 0 .. 15, v \in Bits8 : v \in Lane(shift_rows(w), b)[n] <=> v \in t[n]
  BY <1>1, <1>2
<1> QED BY <1>4, <1>5, <1>6, SameBlocks DEF t

\* Bits of a rotated word.
LEMMA RotrBits ==
  ASSUME NEW x \in SUBSET Bits64, NEW n \in 0 .. 63
  PROVE  /\ Rotr(x, n, 64) \in SUBSET Bits64
         /\ \A p \in Bits64 : p \in Rotr(x, n, 64) <=> (p + n) % 64 \in x
<1>1. ASSUME NEW p \in Bits64
      PROVE  p \in Rotr(x, n, 64) <=> (p + n) % 64 \in x
  <2>1. ASSUME p \in Rotr(x, n, 64) PROVE (p + n) % 64 \in x
    <3>1. PICK i \in x : p = (i + 64 - n) % 64
      BY <2>1 DEF Rotr
    <3>2. i \in Bits64
      OBVIOUS
    <3>3. (p + n) % 64 = i
      BY <3>1, <3>2 DEF Bits64
    <3> QED BY <3>3
  <2>2. ASSUME (p + n) % 64 \in x PROVE p \in Rotr(x, n, 64)
    <3>1. p = (((p + n) % 64) + 64 - n) % 64
      BY DEF Bits64
    <3> QED BY <2>2, <3>1 DEF Rotr
  <2> QED BY <2>1, <2>2
<1>2. ASSUME NEW i \in x PROVE (i + 64 - n) % 64 \in Bits64
  BY DEF Bits64
<1> QED BY <1>1, <1>2 DEF Rotr

\* Bits of a byte times x.
LEMMA TimesXBits ==
  ASSUME NEW a \in SUBSET Bits8
  PROVE  /\ Cipher!Times_x(a) \in SUBSET Bits8
         /\ \A v \in Bits8 : v \in Cipher!Times_x(a) <=> ~(v - 1 \in a <=> (v \in {0, 1, 3, 4} /\ 7 \in a))
<1> DEFINE s == {i + 1 : i \in a \ {7}}
           m == IF 7 \in a THEN {0, 1, 3, 4} ELSE {}
<1>1. Cipher!Times_x(a) = s ++ m
  BY SumAt DEF Cipher!Times_x
<1>2. ASSUME NEW v \in Bits8 PROVE v \in s <=> v - 1 \in a
  <2>1. ASSUME v \in s PROVE v - 1 \in a
    <3>1. PICK i \in a \ {7} : v = i + 1 BY <2>1
    <3>2. v - 1 = i BY <3>1 DEF Bits8
    <3> QED BY <3>2
  <2>2. ASSUME v - 1 \in a PROVE v \in s
    <3>1. v - 1 # 7 /\ (v - 1) + 1 = v BY DEF Bits8
    <3> QED BY <2>2, <3>1
  <2> QED BY <2>1, <2>2
<1>3. s \in SUBSET Bits8 /\ m \in SUBSET Bits8
  BY DEF Bits8
<1>4. \A v \in Bits8 : v \in m <=> (v \in {0, 1, 3, 4} /\ 7 \in a)
  OBVIOUS
<1> HIDE DEF s, m
<1>5. s ++ m \in SUBSET Bits8
  BY <1>3 DEF ++
<1> QED BY <1>1, <1>2, <1>4, <1>5, SumAt

\* A bit of mix_columns, from the words before and after it in its column.
LEMMA ColumnsMix ==
  ASSUME NEW w \in EightWords
  PROVE  /\ mix_columns(w) \in EightWords
         /\ \A v \in 0 .. 7, p \in Bits64 :
              LET u == (v + 7) % 8
                  m == v \in {1, 3, 4}
              IN p \in mix_columns(w)[v]
                   <=> ~( ~(p \in w[u] <=> (p + 16) % 64 \in w[u])
                          <=> ~( (m /\ ~(p \in w[7] <=> (p + 16) % 64 \in w[7]))
                                 <=> ~( (p + 16) % 64 \in w[v]
                                        <=> ~( (p + 32) % 64 \in w[v] <=> (p + 48) % 64 \in w[v]))))
<1> DEFINE r == [v \in 0 .. 7 |-> Rotr(w[v], 16, 64)]
           Prev(v) == w[(v + 7) % 8] ++ r[(v + 7) % 8]
           Back(v) == IF v \in {1, 3, 4} THEN w[7] ++ r[7] ELSE {}
           Far(v)  == Rotr(w[v] ++ r[v], 32, 64)
<1>1. mix_columns(w) = [v \in 0 .. 7 |-> Prev(v) ++ (Back(v) ++ (r[v] ++ Far(v)))]
  BY DEF mix_columns
<1>2. ASSUME NEW v \in 0 .. 7
      PROVE  /\ w[v] \in SUBSET Bits64 /\ r[v] \in SUBSET Bits64
             /\ \A p \in Bits64 : p \in r[v] <=> (p + 16) % 64 \in w[v]
  <2>1. w[v] \in SUBSET Bits64 BY DEF EightWords
  <2>2. r[v] = Rotr(w[v], 16, 64) OBVIOUS
  <2> HIDE DEF r
  <2> QED BY <2>1, <2>2, RotrBits
<1> HIDE DEF r
<1>3. ASSUME NEW v \in 0 .. 7
      PROVE  /\ Far(v) \in SUBSET Bits64
             /\ \A p \in Bits64 : p \in Far(v) <=> ~((p + 32) % 64 \in w[v] <=> (p + 48) % 64 \in w[v])
  <2>1. w[v] ++ r[v] \in SUBSET Bits64
    BY <1>2 DEF ++
  <2>2. /\ Far(v) \in SUBSET Bits64
        /\ \A p \in Bits64 : p \in Far(v) <=> (p + 32) % 64 \in w[v] ++ r[v]
    BY <2>1, RotrBits
  <2>3. ASSUME NEW p \in Bits64 PROVE (p + 32) % 64 \in Bits64 /\ (((p + 32) % 64) + 16) % 64 = (p + 48) % 64
    BY DEF Bits64
  <2> HIDE DEF Far
  <2> QED BY <1>2, <2>2, <2>3, SumAt
<1>4. ASSUME NEW v \in 0 .. 7
      PROVE  /\ Prev(v) \in SUBSET Bits64 /\ Back(v) \in SUBSET Bits64 /\ (v + 7) % 8 \in 0 .. 7
             /\ \A p \in Bits64 : p \in Prev(v) <=> ~(p \in w[(v + 7) % 8] <=> (p + 16) % 64 \in w[(v + 7) % 8])
             /\ \A p \in Bits64 : p \in Back(v) <=> v \in {1, 3, 4} /\ ~(p \in w[7] <=> (p + 16) % 64 \in w[7])
  <2>1. (v + 7) % 8 \in 0 .. 7 /\ 7 \in 0 .. 7
    OBVIOUS
  <2> DEFINE u == (v + 7) % 8
  <2> HIDE DEF u
  <2>2. u \in 0 .. 7 BY <2>1 DEF u
  <2>3. /\ w[u] ++ r[u] \in SUBSET Bits64
        /\ \A p \in Bits64 : p \in w[u] ++ r[u] <=> ~(p \in w[u] <=> (p + 16) % 64 \in w[u])
    <3>1. w[u] ++ r[u] \in SUBSET Bits64
      BY <1>2, <2>2 DEF ++
    <3> QED BY <1>2, <2>2, <3>1, SumAt
  <2>4. /\ w[7] ++ r[7] \in SUBSET Bits64
        /\ \A p \in Bits64 : p \in w[7] ++ r[7] <=> ~(p \in w[7] <=> (p + 16) % 64 \in w[7])
    <3>1. w[7] ++ r[7] \in SUBSET Bits64
      BY <1>2, <2>1 DEF ++
    <3> QED BY <1>2, <2>1, <3>1, SumAt
  <2>5. Prev(v) = w[u] ++ r[u] BY DEF u
  <2>6. /\ Back(v) \in SUBSET Bits64
        /\ \A p \in Bits64 : p \in Back(v) <=> v \in {1, 3, 4} /\ ~(p \in w[7] <=> (p + 16) % 64 \in w[7])
    BY <2>4
  <2> HIDE DEF Prev, Back
  <2> QED BY <2>1, <2>3, <2>5, <2>6 DEF u
<1> HIDE DEF Prev, Back, Far
<1>5. ASSUME NEW v \in 0 .. 7
      PROVE  /\ mix_columns(w)[v] \in SUBSET Bits64
             /\ \A p : p \in mix_columns(w)[v]
                  <=> ~(p \in Prev(v) <=> ~(p \in Back(v) <=> ~(p \in r[v] <=> p \in Far(v))))
  <2>1. mix_columns(w)[v] = Prev(v) ++ (Back(v) ++ (r[v] ++ Far(v)))
    BY <1>1
  <2>2. Prev(v) ++ (Back(v) ++ (r[v] ++ Far(v))) \in SUBSET Bits64
    BY <1>2, <1>3, <1>4 DEF ++
  <2> QED BY <2>1, <2>2, SumAt
<1>6. mix_columns(w) \in EightWords
  <2>1. mix_columns(w) = [v \in 0 .. 7 |-> mix_columns(w)[v]]
    BY <1>1
  <2> QED BY <1>5, <2>1 DEF EightWords
<1>7. ASSUME NEW v \in 0 .. 7, NEW p \in Bits64
      PROVE  LET u == (v + 7) % 8
                 m == v \in {1, 3, 4}
             IN p \in mix_columns(w)[v]
                  <=> ~( ~(p \in w[u] <=> (p + 16) % 64 \in w[u])
                         <=> ~( (m /\ ~(p \in w[7] <=> (p + 16) % 64 \in w[7]))
                                <=> ~( (p + 16) % 64 \in w[v]
                                       <=> ~( (p + 32) % 64 \in w[v] <=> (p + 48) % 64 \in w[v]))))
  <2>1. p \in mix_columns(w)[v] <=> ~(p \in Prev(v) <=> ~(p \in Back(v) <=> ~(p \in r[v] <=> p \in Far(v))))
    BY <1>5
  <2>2. p \in Prev(v) <=> ~(p \in w[(v + 7) % 8] <=> (p + 16) % 64 \in w[(v + 7) % 8])
    BY <1>4
  <2>3. p \in Back(v) <=> v \in {1, 3, 4} /\ ~(p \in w[7] <=> (p + 16) % 64 \in w[7])
    BY <1>4
  <2>4. p \in r[v] <=> (p + 16) % 64 \in w[v]
    BY <1>2
  <2>5. p \in Far(v) <=> ~((p + 32) % 64 \in w[v] <=> (p + 48) % 64 \in w[v])
    BY <1>3
  <2> QED BY <2>1, <2>2, <2>3, <2>4, <2>5, Zenon
<1> QED BY <1>6, <1>7

\* In each lane mix_columns is MixColumns.
LEMMA LaneMixColumns ==
  ASSUME NEW w \in EightWords, NEW b \in 0 .. 3
  PROVE  Lane(mix_columns(w), b) = Cipher!MixColumns(Lane(w, b))
<1> DEFINE s == Lane(w, b)
           c(n, d) == 4 * (n \div 4) + ((n + d) % 4)
           A(n, d) == s[c(n, d)]
           t == Cipher!MixColumns(s)
<1>0. s \in Blocks16 /\ Lane(mix_columns(w), b) \in Blocks16
  BY LaneIsBlock
<1>1. t = [n \in 0 .. 15 |-> Cipher!Times_x(A(n, 0) ++ A(n, 1)) ++ (A(n, 1) ++ (A(n, 2) ++ A(n, 3)))]
  BY SumAt DEF Cipher!MixColumns
<1>2. ASSUME NEW n \in 0 .. 15, NEW d \in 0 .. 3
      PROVE  /\ c(n, d) \in 0 .. 15
             /\ Position(b, c(n, d)) = (Position(b, n) + 16 * d) % 64
             /\ c(n, 0) = n
  BY DEF Position
<1> HIDE DEF c
<1>3. ASSUME NEW n \in 0 .. 15, NEW d \in 0 .. 3
      PROVE  /\ A(n, d) \in SUBSET Bits8
             /\ \A v \in Bits8 : v \in A(n, d) <=> (Position(b, n) + 16 * d) % 64 \in w[v]
  <2>1. c(n, d) \in 0 .. 15
    BY <1>2
  <2>2. A(n, d) \in SUBSET Bits8
    BY <1>0, <2>1 DEF Blocks16
  <2>3. \A v \in Bits8 : v \in A(n, d) <=> Position(b, c(n, d)) \in w[v]
    BY <2>1, LaneIsBlock
  <2> QED BY <1>2, <2>2, <2>3
<1> HIDE DEF s, A, t
<1>4. ASSUME NEW n \in 0 .. 15
      PROVE  /\ t[n] \in SUBSET Bits8
             /\ \A v \in Bits8 : v \in t[n] <=> v \in Lane(mix_columns(w), b)[n]
  <2> DEFINE a == A(n, 0) ++ A(n, 1)
             p == Position(b, n)
  <2>0. 0 \in 0 .. 3 /\ 1 \in 0 .. 3 /\ 2 \in 0 .. 3 /\ 3 \in 0 .. 3
    OBVIOUS
  <2>1. /\ A(n, 0) \in SUBSET Bits8 /\ A(n, 1) \in SUBSET Bits8 /\ A(n, 2) \in SUBSET Bits8 /\ A(n, 3) \in SUBSET Bits8
    BY <1>3, <2>0
  <2>2. p \in Bits64 /\ (p + 16 * 0) % 64 = p /\ (p + 16 * 1) % 64 = (p + 16) % 64
          /\ (p + 16 * 2) % 64 = (p + 32) % 64 /\ (p + 16 * 3) % 64 = (p + 48) % 64
    BY Positions16 DEF Bits64
  <2> HIDE DEF p
  <2>3. ASSUME NEW v \in Bits8
        PROVE  /\ v \in A(n, 0) <=> p \in w[v]
               /\ v \in A(n, 1) <=> (p + 16) % 64 \in w[v]
               /\ v \in A(n, 2) <=> (p + 32) % 64 \in w[v]
               /\ v \in A(n, 3) <=> (p + 48) % 64 \in w[v]
    BY <1>3, <2>0, <2>2 DEF p
  <2>4. a \in SUBSET Bits8
    BY <2>1 DEF ++
  <2>5. \A v : v \in a <=> ~(v \in A(n, 0) <=> v \in A(n, 1))
    BY SumAt
  <2> HIDE DEF a
  <2>6. /\ Cipher!Times_x(a) \in SUBSET Bits8
        /\ \A v \in Bits8 : v \in Cipher!Times_x(a) <=> ~(v - 1 \in a <=> (v \in {0, 1, 3, 4} /\ 7 \in a))
    BY <2>4, TimesXBits
  <2> DEFINE z == Cipher!Times_x(a)
  <2>7. t[n] = z ++ (A(n, 1) ++ (A(n, 2) ++ A(n, 3)))
    BY <1>1 DEF a
  <2> HIDE DEF z
  <2>8. t[n] \in SUBSET Bits8
    BY <2>1, <2>6, <2>7 DEF ++, z
  <2>9. ASSUME NEW v \in Bits8
        PROVE  v \in t[n] <=> v \in Lane(mix_columns(w), b)[n]
    <3> DEFINE u == (v + 7) % 8
               back == ~(p \in w[7] <=> (p + 16) % 64 \in w[7])
               prev == ~(p \in w[u] <=> (p + 16) % 64 \in w[u])
               rest == ~((p + 16) % 64 \in w[v] <=> ~((p + 32) % 64 \in w[v] <=> (p + 48) % 64 \in w[v]))
    <3>1. v \in 0 .. 7 /\ 7 \in Bits8 /\ u \in Bits8
      BY DEF Bits8
    <3>2. v \in Lane(mix_columns(w), b)[n] <=> ~(prev <=> ~((v \in {1, 3, 4} /\ back) <=> rest))
      <4>1. v \in Lane(mix_columns(w), b)[n] <=> p \in mix_columns(w)[v]
        BY LaneIsBlock DEF p
      <4>2. p \in mix_columns(w)[v] <=> ~(prev <=> ~((v \in {1, 3, 4} /\ back) <=> rest))
        BY <2>2, <3>1, ColumnsMix
      <4> QED BY <4>1, <4>2
    <3>3. v \in t[n] <=> ~(v \in z <=> rest)
      <4>1. v \in t[n] <=> ~(v \in z <=> ~(v \in A(n, 1) <=> ~(v \in A(n, 2) <=> v \in A(n, 3))))
        BY <2>7, SumAt
      <4> QED BY <2>3, <4>1
    <3>4. v \in z <=> ~(v - 1 \in a <=> (v \in {0, 1, 3, 4} /\ 7 \in a))
      BY <2>6 DEF z
    <3>5. 7 \in a <=> back
      BY <2>3, <2>5, <3>1
    <3>6. u \in a <=> prev
      BY <2>3, <2>5, <3>1
    <3>7. CASE v = 0
      <4>1. u = 7 BY <3>7
      <4>2. v - 1 \notin a BY <2>4, <3>7 DEF Bits8
      <4>3. v \notin {1, 3, 4} /\ v \in {0, 1, 3, 4} BY <3>7
      <4>4. prev <=> back BY <4>1
      <4> HIDE DEF prev, back, rest, u
      <4> QED BY <3>2, <3>3, <3>4, <3>5, <4>2, <4>3, <4>4
    <3>8. CASE v # 0
      <4>1. u = v - 1 BY <3>1, <3>8
      <4>2. v \in {1, 3, 4} <=> v \in {0, 1, 3, 4} BY <3>8
      <4> HIDE DEF prev, back, rest, u
      <4> QED BY <3>2, <3>3, <3>4, <3>5, <3>6, <4>1, <4>2
    <3> QED BY <3>7, <3>8
  <2> QED BY <2>8, <2>9
<1>5. t \in Blocks16
  <2>1. t = [n \in 0 .. 15 |-> t[n]] BY <1>1
  <2> QED BY <1>4, <2>1 DEF Blocks16
<1>6. Lane(mix_columns(w), b) = t
  BY <1>0, <1>4, <1>5, SameBlocks
<1> QED BY <1>6 DEF t, s

\* Byte b of a word, the least significant first.
WordByte(x, b) == {v \in Bits8 : 8 * b + v \in x}

\* Two words with the same bytes are the same.
LEMMA WordBits ==
  ASSUME NEW x \in SUBSET Bits32
  PROVE  /\ \A b \in 0 .. 3 : WordByte(x, b) \in SUBSET Bits8
         /\ \A p \in Bits32 : p \in x <=> p % 8 \in WordByte(x, p \div 8)
<1>1. ASSUME NEW p \in Bits32 PROVE p % 8 \in Bits8 /\ 8 * (p \div 8) + (p % 8) = p
  BY DEF Bits32, Bits8
<1> QED BY <1>1 DEF WordByte

\* In each lane add_round_key is AddRoundKey, with the words of the schedule.
LEMMA LaneAddRoundKey ==
  ASSUME SliceLen(key) \in {16, 24, 32}, DOMAIN skey = 0 .. nkf - 1, LaneKeys(sk_exp, skey),
         NEW w \in EightWords, NEW r \in 0 .. nrounds
  PROVE  /\ add_round_key(w, 8 * r) \in EightWords
         /\ \A b \in 0 .. 3 : Lane(add_round_key(w, 8 * r), b) = Cipher!AddRoundKey(Lane(w, b), WordBytes(skey), r)
<1> DEFINE x == add_round_key(w, 8 * r)
<1>0. nkf \in Nat /\ nkf = 4 * (nrounds + 1) /\ nrounds \in Nat
  BY KeySizes
<1>1. ASSUME NEW v \in 0 .. 7
      PROVE  /\ 8 * r + v \in 0 .. 2 * nkf - 1 /\ (8 * r + v) % 8 = v /\ (8 * r + v) \div 8 = r
  BY <1>0
<1>2. ASSUME NEW v \in 0 .. 7
      PROVE  /\ sk_exp[8 * r + v] \in SUBSET Bits64
             /\ \A p \in Bits64 : p \in sk_exp[8 * r + v] <=> 8 * (p \div 16) + v \in skey[4 * r + ((p \div 4) % 4)]
  <2> DEFINE n == 8 * r + v
  <2>1. n \in 0 .. 2 * nkf - 1 /\ n % 8 = v /\ n \div 8 = r
    BY <1>1
  <2> HIDE DEF n
  <2>2. /\ sk_exp[n] \in SUBSET Bits64
        /\ \A p \in Bits64 : p \in sk_exp[n] <=> 8 * (p \div 16) + (n % 8) \in skey[4 * (n \div 8) + ((p \div 4) % 4)]
    BY <2>1 DEF LaneKeys
  <2> QED BY <2>1, <2>2 DEF n
<1>3. x = [v \in 0 .. 7 |-> w[v] ++ sk_exp[8 * r + v]]
  BY DEF add_round_key
<1> HIDE DEF x
<1>4. ASSUME NEW v \in 0 .. 7
      PROVE  x[v] \in SUBSET Bits64 /\ \A p : p \in x[v] <=> ~(p \in w[v] <=> p \in sk_exp[8 * r + v])
  <2>1. w[v] \in SUBSET Bits64 BY DEF EightWords
  <2>2. w[v] ++ sk_exp[8 * r + v] \in SUBSET Bits64 BY <1>2, <2>1 DEF ++
  <2> QED BY <1>3, <2>2, SumAt
<1>5. x \in EightWords
  BY <1>3, <1>4 DEF EightWords
<1>6. ASSUME NEW b \in 0 .. 3
      PROVE  Lane(x, b) = Cipher!AddRoundKey(Lane(w, b), WordBytes(skey), r)
  <2> DEFINE t == Cipher!AddRoundKey(Lane(w, b), WordBytes(skey), r)
             K(n) == WordBytes(skey)[4 * r + (n \div 4)][n % 4]
  <2>1. t = [n \in 0 .. 15 |-> Lane(w, b)[n] ++ K(n)]
    BY SumAt DEF Cipher!AddRoundKey
  <2>2. ASSUME NEW n \in 0 .. 15 PROVE K(n) = WordByte(skey[4 * r + (n \div 4)], n % 4)
    <3>1. 4 * r + (n \div 4) \in 0 .. nkf - 1 /\ n % 4 \in 0 .. 3
      BY <1>0
    <3> DEFINE m == 4 * r + (n \div 4)
    <3>2. m \in DOMAIN skey BY <3>1
    <3> HIDE DEF m
    <3>3. WordBytes(skey)[m] = [c \in 0 .. 3 |-> {v \in Bits8 : 8 * c + v \in skey[m]}]
      BY <3>2 DEF WordBytes
    <3>4. WordBytes(skey)[m][n % 4] = WordByte(skey[m], n % 4)
      BY <3>1, <3>3 DEF WordByte
    <3> QED BY <3>4 DEF m
  <2> HIDE DEF t, K
  <2>3. Lane(w, b) \in Blocks16 /\ Lane(x, b) \in Blocks16
    BY LaneIsBlock
  <2>4. ASSUME NEW n \in 0 .. 15
        PROVE  /\ t[n] \in SUBSET Bits8
               /\ \A v \in Bits8 : v \in Lane(x, b)[n] <=> v \in t[n]
    <3> DEFINE p == Position(b, n)
    <3>1. /\ p \in Bits64 /\ p \div 16 = n % 4 /\ (p \div 4) % 4 = n \div 4
      BY Positions16
    <3> HIDE DEF p
    <3>2. K(n) \in SUBSET Bits8 /\ Lane(w, b)[n] \in SUBSET Bits8
      BY <2>2, <2>3 DEF WordByte, Blocks16
    <3>3. t[n] = Lane(w, b)[n] ++ K(n)
      BY <2>1
    <3>4. t[n] \in SUBSET Bits8
      BY <3>2, <3>3 DEF ++
    <3>5. ASSUME NEW v \in Bits8 PROVE v \in Lane(x, b)[n] <=> v \in t[n]
      <4>1. v \in 0 .. 7 BY DEF Bits8
      <4>2. v \in Lane(x, b)[n] <=> ~(p \in w[v] <=> p \in sk_exp[8 * r + v])
        BY <1>4, <4>1, LaneIsBlock DEF p
      <4>3. p \in sk_exp[8 * r + v] <=> v \in K(n)
        BY <1>2, <2>2, <3>1, <4>1 DEF WordByte
      <4>4. p \in w[v] <=> v \in Lane(w, b)[n]
        BY LaneIsBlock DEF p
      <4> QED BY <3>3, <4>2, <4>3, <4>4, SumAt
    <3> QED BY <3>4, <3>5
  <2>5. t \in Blocks16
    <3>1. t = [n \in 0 .. 15 |-> t[n]] BY <2>1
    <3> QED BY <2>4, <3>1 DEF Blocks16
  <2>6. Lane(x, b) = t
    BY <2>3, <2>4, <2>5, SameBlocks
  <2> QED BY <2>6 DEF t
<1> QED BY <1>5, <1>6 DEF x

\* The bytes of sub_word are those of the S-box.
LEMMA SubWordBytes ==
  ASSUME NEW x \in SUBSET Bits32
  PROVE  /\ sub_word(x) \in SUBSET Bits32
         /\ \A b \in 0 .. 3 : WordByte(sub_word(x), b) = Cipher!SubByte[WordByte(x, b)]
<1> DEFINE one == [v \in 0 .. 7 |-> IF v = 0 THEN x ELSE {}]
           sliced == br_aes_ct64_ortho(one)
           mapped == br_aes_ct64_bitslice_Sbox(sliced)
           o == br_aes_ct64_ortho(mapped)
<1>1. one \in EightWords /\ \A v \in 0 .. 7 : one[v] = IF v = 0 THEN x ELSE {}
  <2>1. x \in SUBSET Bits64 /\ {} \in SUBSET Bits64 BY DEF Bits32, Bits64
  <2> QED BY <2>1 DEF EightWords
<1> HIDE DEF one
<1>2. /\ sliced \in EightWords
      /\ \A v \in 0 .. 7, p \in Bits64 : p \in sliced[v] <=> 8 * (p \div 8) + v \in one[p % 8]
  BY <1>1, OrthoTransposes
<1> HIDE DEF sliced
<1>3. /\ mapped \in EightWords
      /\ \A p \in Bits64 : ByteAcross(mapped, p) = Cipher!SubByte[ByteAcross(sliced, p)]
  <2>1. 0 \in Bits64 BY DEF Bits64
  <2> QED BY <1>2, <2>1, SboxIsSubByte
<1> HIDE DEF mapped
<1>4. /\ o \in EightWords
      /\ \A v \in 0 .. 7, p \in Bits64 : p \in o[v] <=> 8 * (p \div 8) + v \in mapped[p % 8]
  BY <1>3, OrthoTransposes
<1> HIDE DEF o
<1>5. sub_word(x) = o[0] \cap Bits32
  BY DEF sub_word, o, mapped, sliced, one
<1>6. ASSUME NEW b \in 0 .. 3
      PROVE  WordByte(sub_word(x), b) = Cipher!SubByte[WordByte(x, b)]
  <2>0. 8 * b \in Bits64 /\ (8 * b) % 8 = 0 /\ 8 * ((8 * b) \div 8) = 8 * b
    BY DEF Bits64
  <2>1. ByteAcross(sliced, 8 * b) = WordByte(x, b)
    <3>1. ASSUME NEW v \in Bits8 PROVE 8 * b \in sliced[v] <=> 8 * b + v \in x
      <4>1. v \in 0 .. 7 /\ 0 \in 0 .. 7 BY DEF Bits8
      <4>2. 8 * b \in sliced[v] <=> 8 * ((8 * b) \div 8) + v \in one[(8 * b) % 8] BY <1>2, <2>0, <4>1
      <4> QED BY <1>1, <2>0, <4>1, <4>2
    <3> QED BY <3>1 DEF ByteAcross, WordByte
  <2>2. WordByte(sub_word(x), b) = ByteAcross(mapped, 8 * b)
    <3>1. ASSUME NEW v \in Bits8 PROVE 8 * b + v \in o[0] \cap Bits32 <=> 8 * b \in mapped[v]
      <4>1. /\ v \in 0 .. 7 /\ 0 \in 0 .. 7 /\ 8 * b + v \in Bits64 /\ 8 * b + v \in Bits32
            /\ (8 * b + v) % 8 = v /\ 8 * ((8 * b + v) \div 8) + 0 = 8 * b
        BY DEF Bits8, Bits64, Bits32
      <4>2. 8 * b + v \in o[0] <=> 8 * ((8 * b + v) \div 8) + 0 \in mapped[(8 * b + v) % 8] BY <1>4, <4>1
      <4> QED BY <4>1, <4>2
    <3> QED BY <1>5, <3>1 DEF ByteAcross, WordByte
  <2> QED BY <1>3, <2>0, <2>1, <2>2
<1> QED BY <1>5, <1>6

\* A rotation by a byte.
LEMMA RotatedBytes ==
  ASSUME NEW x \in SUBSET Bits32
  PROVE  /\ Rotr(x, 8, 32) \in SUBSET Bits32
         /\ \A b \in 0 .. 3 : WordByte(Rotr(x, 8, 32), b) = WordByte(x, (b + 1) % 4)
<1>1. ASSUME NEW i \in x PROVE (i + 32 - 8) % 32 \in Bits32
  BY DEF Bits32
<1>2. ASSUME NEW b \in 0 .. 3, NEW v \in Bits8
      PROVE  8 * b + v \in Rotr(x, 8, 32) <=> 8 * ((b + 1) % 4) + v \in x
  <2> DEFINE i == 8 * ((b + 1) % 4) + v
  <2>1. (i + 32 - 8) % 32 = 8 * b + v
    BY DEF Bits8
  <2>2. ASSUME NEW j \in Bits32, (j + 32 - 8) % 32 = 8 * b + v PROVE j = i
    BY <2>2 DEF Bits8, Bits32
  <2> HIDE DEF i
  <2> QED BY <2>1, <2>2 DEF Rotr, i
<1> QED BY <1>1, <1>2 DEF Rotr, WordByte

\* The round constants are the powers of x.
LEMMA RoundConstants ==
  /\ \A n \in 0 .. 9 : Rcon[n] = Cipher!PowerOf_x[n]
  /\ \A n \in 0 .. 9 : Rcon[n] \in SUBSET Bits8
<1> DEFINE body(f) == [n \in 0 .. 9 |-> IF n = 0 THEN {0} ELSE Cipher!Times_x(f[n - 1])]
           f == CHOOSE f : f = body(f)
<1>0. \A n \in 0 .. 9 : Rcon[n] \in SUBSET Bits8
  BY DEF Rcon, Bits8
<1>1. ASSUME NEW n \in 1 .. 9 PROVE Rcon[n] = Cipher!Times_x(Rcon[n - 1])
  <2>1. n - 1 \in 0 .. 9 /\ n \in 0 .. 9 OBVIOUS
  <2>2. Rcon[n] \in SUBSET Bits8 /\ Rcon[n - 1] \in SUBSET Bits8 BY <1>0, <2>1
  <2>3. ASSUME NEW v \in Bits8
        PROVE  v \in Rcon[n] <=> ~(v - 1 \in Rcon[n - 1] <=> (v \in {0, 1, 3, 4} /\ 7 \in Rcon[n - 1]))
    BY DEF Rcon, Bits8
  <2>4. /\ Cipher!Times_x(Rcon[n - 1]) \in SUBSET Bits8
        /\ \A v \in Bits8 : v \in Cipher!Times_x(Rcon[n - 1])
             <=> ~(v - 1 \in Rcon[n - 1] <=> (v \in {0, 1, 3, 4} /\ 7 \in Rcon[n - 1]))
    BY <2>2, TimesXBits
  <2> QED BY <2>2, <2>3, <2>4
<1>2. Rcon = body(Rcon)
  <2>1. Rcon = [n \in 0 .. 9 |-> Rcon[n]] BY DEF Rcon
  <2>2. Rcon[0] = {0} BY DEF Rcon
  <2>3. ASSUME NEW n \in 0 .. 9 PROVE Rcon[n] = IF n = 0 THEN {0} ELSE Cipher!Times_x(Rcon[n - 1])
    BY <1>1, <2>2
  <2> QED BY <2>1, <2>3
<1>3. f = body(f)
  BY <1>2
<1>4. Cipher!PowerOf_x = f
  BY DEF Cipher!PowerOf_x
<1> HIDE DEF f
<1> DEFINE T == {n \in 0 .. 9 : f[n] = Rcon[n]}
<1>5. 0 \in T
  <2>1. Rcon[0] = {0} BY DEF Rcon
  <2>2. f[0] = {0} BY <1>3
  <2> QED BY <2>1, <2>2
<1>6. ASSUME NEW n \in 1 .. 9, n - 1 \in T PROVE n \in T
  <2>1. n \in 0 .. 9 /\ n # 0 OBVIOUS
  <2>2. f[n] = Cipher!Times_x(f[n - 1]) BY <1>3, <2>1
  <2> QED BY <1>1, <1>6, <2>1, <2>2
<1> HIDE DEF T
<1>7. \A n \in 0 .. 9 : n \in T
  <2>1. 9 \in Nat OBVIOUS
  <2> QED BY <1>5, <1>6, <2>1, BoundedInduction
<1> QED BY <1>0, <1>4, <1>7 DEF T

-----------------------------------------------------------------------------
(* The key schedule *)

\* The operators on slices are the same in the abstract specification.
LEMMA CipherSlices ==
  /\ \A s : Cipher!SliceLen(s) = SliceLen(s)
  /\ \A s, i, j : Cipher!Slice(s, i, j) = Slice(s, i, j)
  /\ \A s, t : Cipher!Concat(s, t) = Concat(s, t)
<1>1. \A s : Cipher!SliceLen(s) = SliceLen(s)
  BY Zenon DEF Cipher!SliceLen, SliceLen, Cipher!Cardinality, Cardinality
<1>2. \A s, i, j : Cipher!Slice(s, i, j) = Slice(s, i, j)
  BY DEF Cipher!Slice, Slice
<1>3. \A s, t : Cipher!Concat(s, t) = Concat(s, t)
  BY <1>1, Zenon DEF Cipher!Concat, Concat
<1> QED BY <1>1, <1>2, <1>3

\* Sums of words are sums of their bytes.
LEMMA SumBytes ==
  ASSUME NEW x \in SUBSET Bits32, NEW y \in SUBSET Bits32
  PROVE  /\ x ++ y \in SUBSET Bits32
         /\ \A b \in 0 .. 3 : WordByte(x ++ y, b) = WordByte(x, b) ++ WordByte(y, b)
  BY DEF WordByte, ++

\* Bytes become words, the least significant byte first.
LEMMA DecodedWords ==
  ASSUME NEW num \in Nat, NEW src, \A i \in 0 .. 4 * num - 1 : src[i] \in SUBSET Bits8
  PROVE  /\ br_range_dec32le(num, src) \in SliceOf(num, SUBSET Bits32)
         /\ \A n \in 0 .. num - 1, b \in 0 .. 3 : WordByte(br_range_dec32le(num, src)[n], b) = src[4 * n + b]
<1> DEFINE x == br_range_dec32le(num, src)
<1>1. x = [n \in 0 .. num - 1 |-> UNION {{8 * b + i : i \in src[4 * n + b]} : b \in 0 .. 3}]
  BY DEF br_range_dec32le
<1> HIDE DEF x
<1>2. ASSUME NEW n \in 0 .. num - 1, NEW b \in 0 .. 3 PROVE src[4 * n + b] \in SUBSET Bits8
  <2>1. 4 * n + b \in 0 .. 4 * num - 1 OBVIOUS
  <2> QED BY <2>1
<1>3. ASSUME NEW n \in 0 .. num - 1
      PROVE  /\ x[n] \in SUBSET Bits32
             /\ \A b \in 0 .. 3, v \in Bits8 : 8 * b + v \in x[n] <=> v \in src[4 * n + b]
  <2> DEFINE Byte4(b) == {8 * b + i : i \in src[4 * n + b]}
  <2>1. x[n] = UNION {Byte4(b) : b \in 0 .. 3}
    BY <1>1
  <2>2. ASSUME NEW b \in 0 .. 3 PROVE src[4 * n + b] \in SUBSET Bits8
    BY <1>2
  <2>3. ASSUME NEW b \in 0 .. 3 PROVE Byte4(b) \in SUBSET Bits32
    BY <2>2 DEF Bits8, Bits32
  <2>4. ASSUME NEW p \in x[n] PROVE p \in Bits32
    <3>1. PICK b \in 0 .. 3 : p \in Byte4(b) BY <2>1
    <3> HIDE DEF Byte4
    <3> QED BY <2>3, <3>1
  <2>5. ASSUME NEW b \in 0 .. 3, NEW v \in Bits8, 8 * b + v \in x[n] PROVE v \in src[4 * n + b]
    <3>1. PICK c \in 0 .. 3 : 8 * b + v \in Byte4(c) BY <2>1, <2>5
    <3>2. PICK i \in src[4 * n + c] : 8 * b + v = 8 * c + i BY <3>1
    <3>3. i \in Bits8 BY <2>2
    <3>4. b = c /\ v = i BY <3>2, <3>3 DEF Bits8
    <3> QED BY <3>4
  <2>6. ASSUME NEW b \in 0 .. 3, NEW v \in Bits8, v \in src[4 * n + b] PROVE 8 * b + v \in x[n]
    <3>1. 8 * b + v \in Byte4(b) BY <2>6
    <3> HIDE DEF Byte4
    <3> QED BY <2>1, <3>1
  <2> QED BY <2>4, <2>5, <2>6
<1>4. ASSUME NEW n \in 0 .. num - 1, NEW b \in 0 .. 3 PROVE WordByte(x[n], b) = src[4 * n + b]
  <2>1. src[4 * n + b] \in SUBSET Bits8 BY <1>2
  <2>2. \A v \in Bits8 : 8 * b + v \in x[n] <=> v \in src[4 * n + b] BY <1>3
  <2> QED BY <2>1, <2>2 DEF WordByte
<1> QED BY <1>1, <1>3, <1>4 DEF SliceOf, x

\* The first words of the schedule are those of the key.
LEMMA FirstWords ==
  ASSUME SliceLen(key) \in {16, 24, 32}, key \in SliceOf(SliceLen(key), SUBSET Bits8)
  PROVE  /\ br_range_dec32le(nk, key) \in SliceOf(nk, SUBSET Bits32)
         /\ WordBytes(br_range_dec32le(nk, key)) = Cipher!KeyWords(key)
<1> DEFINE x == br_range_dec32le(nk, key)
<1>1. nk \in Nat /\ 4 * nk = SliceLen(key) /\ nk = SliceLen(key) \div 4
  BY DEF nk
<1>2. \A i \in 0 .. 4 * nk - 1 : key[i] \in SUBSET Bits8
  BY <1>1 DEF SliceOf
<1>3. /\ x \in SliceOf(nk, SUBSET Bits32)
      /\ \A n \in 0 .. nk - 1, b \in 0 .. 3 : WordByte(x[n], b) = key[4 * n + b]
  <2> DEFINE m == nk
  <2>1. m \in Nat /\ \A i \in 0 .. 4 * m - 1 : key[i] \in SUBSET Bits8 BY <1>1, <1>2
  <2> HIDE DEF m
  <2>2. /\ br_range_dec32le(m, key) \in SliceOf(m, SUBSET Bits32)
        /\ \A n \in 0 .. m - 1, b \in 0 .. 3 : WordByte(br_range_dec32le(m, key)[n], b) = key[4 * n + b]
    BY <2>1, DecodedWords
  <2> QED BY <2>2 DEF m
<1> HIDE DEF x
<1>4. Cipher!KeyWords(key) = [n \in 0 .. nk - 1 |-> Slice(key, 4 * n, 4 * n + 4)]
  BY <1>1, CipherSlices, Zenon DEF Cipher!KeyWords
<1>5. ASSUME NEW n \in 0 .. nk - 1
      PROVE  Slice(key, 4 * n, 4 * n + 4) = [b \in 0 .. 3 |-> WordByte(x[n], b)]
  <2>1. (4 * n + 4) - 4 * n - 1 = 3 BY <1>1
  <2>2. Slice(key, 4 * n, 4 * n + 4) = [b \in 0 .. 3 |-> key[4 * n + b]]
    BY <2>1 DEF Slice
  <2> QED BY <1>3, <2>2
<1>6. WordBytes(x) = [n \in 0 .. nk - 1 |-> [b \in 0 .. 3 |-> WordByte(x[n], b)]]
  <2>1. DOMAIN x = 0 .. nk - 1 BY <1>3 DEF SliceOf
  <2> QED BY <2>1 DEF WordBytes, WordByte
<1> QED BY <1>3, <1>4, <1>5, <1>6 DEF x

\* The concatenation of slices with known lengths.
LEMMA ConcatForm ==
  ASSUME NEW s, NEW t, NEW m, NEW k, SliceLen(s) = m, SliceLen(t) = k
  PROVE  Concat(s, t) = [i \in 0 .. m + k - 1 |-> IF i < m THEN s[i] ELSE t[i - m]]
  BY DEF Concat

\* A slice of one element.
Single(x) == [n \in {0} |-> x]

\* A word more.
LEMMA WordAppended ==
  ASSUME NEW len \in Nat, NEW w \in SliceOf(len, SUBSET Bits32), NEW x \in SUBSET Bits32
  PROVE  /\ Concat(w, Single(x)) \in SliceOf(len + 1, SUBSET Bits32)
         /\ Concat(w, Single(x))[len] = x
         /\ WordBytes(Concat(w, Single(x))) = Concat(WordBytes(w), Single([b \in 0 .. 3 |-> WordByte(x, b)]))
<1> USE DEF Single
<1> DEFINE y == [b \in 0 .. 3 |-> WordByte(x, b)]
           Words == [0 .. 3 -> SUBSET Bits8]
           c == Concat(w, [n \in {0} |-> x])
           d == Concat(WordBytes(w), [n \in {0} |-> y])
<1>1. {0} = 0 .. 1 - 1
  OBVIOUS
<1>2. SliceLen(w) = len
  BY LenOfSlice
<1>3. ASSUME NEW z PROVE SliceLen([n \in {0} |-> z]) = 1
  <2>1. [n \in {0} |-> z] \in SliceOf(1, {z}) BY <1>1 DEF SliceOf
  <2> QED BY <2>1, LenOfSlice
<1>4. SliceLen(WordBytes(w)) = len
  <2>1. WordBytes(w) = [n \in 0 .. len - 1 |-> [b \in 0 .. 3 |-> WordByte(w[n], b)]]
    BY DEF WordBytes, SliceOf, WordByte
  <2>2. WordBytes(w) \in SliceOf(len, Words)
    BY <2>1 DEF SliceOf, WordByte
  <2> HIDE DEF Words
  <2> QED BY <2>2, LenOfSlice
<1>5. c = [n \in 0 .. len |-> IF n < len THEN w[n] ELSE x]
  <2>1. c = [n \in 0 .. len + 1 - 1 |-> IF n < len THEN w[n] ELSE [i \in {0} |-> x][n - len]]
    <3>1. SliceLen(w) = len /\ SliceLen([i \in {0} |-> x]) = 1 BY <1>2, <1>3
    <3> QED BY <3>1, ConcatForm
  <2>2. len + 1 - 1 = len OBVIOUS
  <2>3. ASSUME NEW n \in 0 .. len, ~(n < len) PROVE [i \in {0} |-> x][n - len] = x
    <3>1. n - len = 0 BY <2>3
    <3> QED BY <3>1
  <2> HIDE DEF c
  <2> QED BY <2>1, <2>2, <2>3
<1>6. d = [n \in 0 .. len |-> IF n < len THEN WordBytes(w)[n] ELSE y]
  <2> HIDE DEF y
  <2>1. d = [n \in 0 .. len + 1 - 1 |-> IF n < len THEN WordBytes(w)[n] ELSE [i \in {0} |-> y][n - len]]
    <3>1. SliceLen(WordBytes(w)) = len /\ SliceLen([i \in {0} |-> y]) = 1 BY <1>3, <1>4
    <3> QED BY <3>1, ConcatForm
  <2>2. len + 1 - 1 = len OBVIOUS
  <2>3. ASSUME NEW n \in 0 .. len, ~(n < len) PROVE [i \in {0} |-> y][n - len] = y
    <3>1. n - len = 0 BY <2>3
    <3> QED BY <3>1
  <2> HIDE DEF d
  <2> QED BY <2>1, <2>2, <2>3
<1>7. \A n \in 0 .. len - 1 : w[n] \in SUBSET Bits32 /\ WordBytes(w)[n] = [b \in 0 .. 3 |-> WordByte(w[n], b)]
  BY DEF WordBytes, SliceOf, WordByte
<1>8. WordBytes(c) = [n \in 0 .. len |-> [b \in 0 .. 3 |-> WordByte(c[n], b)]]
  <2>1. DOMAIN c = 0 .. len BY <1>5
  <2> HIDE DEF c
  <2> QED BY <2>1 DEF WordBytes, WordByte
<1> HIDE DEF c, d
<1>9. WordBytes(c) = d
  <2>1. ASSUME NEW n \in 0 .. len
        PROVE  [b \in 0 .. 3 |-> WordByte(c[n], b)] = IF n < len THEN WordBytes(w)[n] ELSE y
    <3>1. CASE n < len
      <4>1. c[n] = w[n] /\ n \in 0 .. len - 1 BY <1>5, <3>1
      <4> QED BY <1>7, <3>1, <4>1
    <3>2. CASE ~(n < len)
      <4>1. c[n] = x BY <1>5, <3>2
      <4> QED BY <3>2, <4>1
    <3> QED BY <3>1, <3>2
  <2> QED BY <1>6, <1>8, <2>1
<1>10. c \in SliceOf(len + 1, SUBSET Bits32)
  <2>1. len + 1 - 1 = len OBVIOUS
  <2>2. \A n \in 0 .. len : n < len => n \in 0 .. len - 1 OBVIOUS
  <2> QED BY <1>5, <1>7, <2>1, <2>2 DEF SliceOf
<1> QED BY <1>5, <1>9, <1>10 DEF c, d

\* Where the key schedule is.
Scheduling(len) ==
  /\ SliceLen(key) \in {16, 24, 32}
  /\ len \in nk .. nkf /\ skey \in SliceOf(len, SUBSET Bits32)
  /\ tmp = skey[len - 1]
  /\ jKey = len % nk /\ kKey = (len \div nk) - 1

\* The next word of the schedule is the one of FIPS-197.
LEMMA NextWordIsStandard ==
  ASSUME NEW len, Scheduling(len), len < nkf
  PROVE  /\ MixedWord ++ skey[SliceLen(skey) - nk] \in SUBSET Bits32
         /\ [b \in 0 .. 3 |-> WordByte(MixedWord ++ skey[SliceLen(skey) - nk], b)]
              = Cipher!NextWord(WordBytes(skey), nk)
<1> DEFINE mixed ==
             IF len % nk = 0
             THEN [b \in 0 .. 3 |-> Cipher!SubByte[WordByte(tmp, (b + 1) % 4)]
                                      ++ (IF b = 0 THEN Cipher!PowerOf_x[(len \div nk) - 1] ELSE {})]
             ELSE IF nk > 6 /\ len % nk = 4 THEN [b \in 0 .. 3 |-> Cipher!SubByte[WordByte(tmp, b)]]
             ELSE [b \in 0 .. 3 |-> WordByte(tmp, b)]
<1>1. /\ nk \in {4, 6, 8} /\ nkf \in {44, 52, 60} /\ nk = SliceLen(key) \div 4
      /\ (nk = 4 /\ nkf = 44) \/ (nk = 6 /\ nkf = 52) \/ (nk = 8 /\ nkf = 60)
  BY DEF Scheduling, nk, nrounds, nkf
<1>2. len \in Nat /\ len - 1 \in 0 .. len - 1 /\ len - nk \in 0 .. len - 1 /\ len >= nk /\ len < nkf
  BY <1>1 DEF Scheduling
<1>3. SliceLen(skey) = len /\ \A n \in 0 .. len - 1 : skey[n] \in SUBSET Bits32
  BY <1>2, LenOfSlice DEF Scheduling, SliceOf
<1>4. tmp \in SUBSET Bits32
  BY <1>2, <1>3 DEF Scheduling
<1>5. kKey \in 0 .. 9
  BY <1>1, <1>2 DEF Scheduling
<1>6. /\ MixedWord \in SUBSET Bits32
      /\ \A b \in 0 .. 3 : WordByte(MixedWord, b) = mixed[b]
  <2>1. CASE jKey = 0
    <3> DEFINE s == sub_word(Rotr(tmp, 8, 32))
    <3>1. /\ Rotr(tmp, 8, 32) \in SUBSET Bits32
          /\ \A b \in 0 .. 3 : WordByte(Rotr(tmp, 8, 32), b) = WordByte(tmp, (b + 1) % 4)
      BY <1>4, RotatedBytes
    <3>2. /\ s \in SUBSET Bits32
          /\ \A b \in 0 .. 3 : WordByte(s, b) = Cipher!SubByte[WordByte(tmp, (b + 1) % 4)]
      BY <3>1, SubWordBytes
    <3> HIDE DEF s
    <3>3. /\ Rcon[kKey] \in SUBSET Bits8 /\ Rcon[kKey] \in SUBSET Bits32
          /\ Rcon[kKey] = Cipher!PowerOf_x[(len \div nk) - 1]
      <4>1. Rcon[kKey] \in SUBSET Bits8 BY <1>5, RoundConstants
      <4>2. Rcon[kKey] \in SUBSET Bits32 BY <4>1 DEF Bits8, Bits32
      <4> QED BY <1>5, <4>1, <4>2, RoundConstants DEF Scheduling
    <3>4. ASSUME NEW b \in 0 .. 3 PROVE WordByte(Rcon[kKey], b) = IF b = 0 THEN Rcon[kKey] ELSE {}
      BY <3>3 DEF WordByte, Bits8
    <3>5. MixedWord = s ++ Rcon[kKey]
      BY <2>1 DEF MixedWord, s
    <3>6. /\ s ++ Rcon[kKey] \in SUBSET Bits32
          /\ \A b \in 0 .. 3 : WordByte(s ++ Rcon[kKey], b) = WordByte(s, b) ++ WordByte(Rcon[kKey], b)
      BY <3>2, <3>3, SumBytes
    <3>7. ASSUME NEW b \in 0 .. 3
          PROVE  mixed[b] = Cipher!SubByte[WordByte(tmp, (b + 1) % 4)]
                              ++ (IF b = 0 THEN Cipher!PowerOf_x[(len \div nk) - 1] ELSE {})
      <4>1. len % nk = 0 BY <2>1 DEF Scheduling
      <4> QED BY <4>1
    <3> HIDE DEF mixed
    <3> QED BY <3>2, <3>3, <3>4, <3>5, <3>6, <3>7
  <2>2. CASE jKey # 0 /\ nk > 6 /\ jKey = 4
    <3>1. MixedWord = sub_word(tmp) BY <2>2 DEF MixedWord
    <3>2. mixed = [b \in 0 .. 3 |-> Cipher!SubByte[WordByte(tmp, b)]] BY <2>2 DEF Scheduling
    <3> HIDE DEF mixed
    <3>3. /\ sub_word(tmp) \in SUBSET Bits32
          /\ \A b \in 0 .. 3 : WordByte(sub_word(tmp), b) = Cipher!SubByte[WordByte(tmp, b)]
      BY <1>4, SubWordBytes
    <3> QED BY <3>1, <3>2, <3>3
  <2>3. CASE jKey # 0 /\ ~(nk > 6 /\ jKey = 4)
    <3>1. MixedWord = tmp BY <2>3 DEF MixedWord
    <3>2. mixed = [b \in 0 .. 3 |-> WordByte(tmp, b)] BY <2>3 DEF Scheduling
    <3> HIDE DEF mixed
    <3> QED BY <1>4, <3>1, <3>2
  <2> QED BY <2>1, <2>2, <2>3
<1>7. \A n \in 0 .. len - 1 : WordBytes(skey)[n] = [b \in 0 .. 3 |-> WordByte(skey[n], b)]
  BY DEF WordBytes, WordByte, Scheduling, SliceOf
<1>8. SliceLen(WordBytes(skey)) = len
  <2>1. DOMAIN WordBytes(skey) = 0 .. len - 1
    BY DEF WordBytes, Scheduling, SliceOf
  <2>2. WordBytes(skey) = [n \in 0 .. len - 1 |-> WordBytes(skey)[n]]
    BY <2>1 DEF WordBytes
  <2> DEFINE S == {WordBytes(skey)[n] : n \in 0 .. len - 1}
  <2>3. WordBytes(skey) \in SliceOf(len, S)
    BY <2>2 DEF SliceOf
  <2> HIDE DEF S
  <2> QED BY <1>2, <2>3, LenOfSlice
<1>9. Cipher!NextWord(WordBytes(skey), nk) = [b \in 0 .. 3 |-> WordByte(skey[len - nk], b) ++ mixed[b]]
  <2> DEFINE w == WordBytes(skey)
             t == w[len - 1]
             m == IF len % nk = 0
                  THEN [b \in 0 .. 3 |-> Cipher!SubByte[t[(b + 1) % 4]]
                                           ++ (IF b = 0 THEN Cipher!PowerOf_x[(len \div nk) - 1] ELSE {})]
                  ELSE IF nk > 6 /\ len % nk = 4 THEN [b \in 0 .. 3 |-> Cipher!SubByte[t[b]]]
                  ELSE t
  <2>1. Cipher!SliceLen(w) = len
    BY <1>8, CipherSlices
  <2> HIDE DEF w
  <2>2. \A a, b : Cipher!XorWords(a, b) = [n \in DOMAIN a |-> a[n] ++ b[n]]
    BY SumAt DEF Cipher!XorWords
  <2>3. Cipher!NextWord(w, nk) = Cipher!XorWords(w[len - nk], m)
    <3>1. \A a, b : Cipher!++(a, b) = a ++ b BY SumAt
    <3> QED BY <2>1, <3>1 DEF Cipher!NextWord
  <2>4. t = [b \in 0 .. 3 |-> WordByte(tmp, b)]
    <3>1. tmp = skey[len - 1] BY DEF Scheduling
    <3> QED BY <1>2, <1>7, <3>1 DEF w
  <2>5. m = mixed
    <3> HIDE DEF t
    <3>1. ASSUME NEW b \in 0 .. 3 PROVE (b + 1) % 4 \in 0 .. 3 OBVIOUS
    <3> QED BY <2>4, <3>1
  <2>6. w[len - nk] = [b \in 0 .. 3 |-> WordByte(skey[len - nk], b)]
    BY <1>2, <1>7 DEF w
  <2> HIDE DEF m, mixed
  <2>7. Cipher!NextWord(w, nk) = [b \in 0 .. 3 |-> w[len - nk][b] ++ mixed[b]]
    BY <2>2, <2>3, <2>5, <2>6
  <2> QED BY <2>6, <2>7 DEF w
<1> HIDE DEF mixed
<1>10. skey[len - nk] \in SUBSET Bits32
  BY <1>2, <1>3
<1> DEFINE y == skey[len - nk]
<1> HIDE DEF y
<1>11. /\ MixedWord ++ y \in SUBSET Bits32
       /\ \A b \in 0 .. 3 : WordByte(MixedWord ++ y, b) = WordByte(MixedWord, b) ++ WordByte(y, b)
  BY <1>6, <1>10, SumBytes DEF y
<1>12. \A a, b : a ++ b = b ++ a
  BY DEF ++
<1>13. ASSUME NEW b \in 0 .. 3 PROVE WordByte(MixedWord ++ y, b) = WordByte(y, b) ++ mixed[b]
  BY <1>6, <1>11, <1>12
<1> QED BY <1>3, <1>9, <1>11, <1>13 DEF y

-----------------------------------------------------------------------------
(* Loading and unloading a batch *)

SixteenWords == [0 .. 15 -> SUBSET Bits32]

\* The state of a batch before its first round key, from the words of its blocks.
Sliced(w) ==
  LET inter == [b \in 0 .. 3 |-> br_aes_ct64_interleave_in(w, 4 * b)]
  IN br_aes_ct64_ortho([v \in 0 .. 7 |-> inter[v % 4][1 + (v \div 4)]])

\* Every lane gets the bytes of its block.
LEMMA SlicedLanes ==
  ASSUME NEW w \in SixteenWords
  PROVE  /\ Sliced(w) \in EightWords
         /\ \A b \in 0 .. 3, n \in 0 .. 15 : Lane(Sliced(w), b)[n] = WordByte(w[4 * b + (n \div 4)], n % 4)
<1> DEFINE inter == [b \in 0 .. 3 |-> br_aes_ct64_interleave_in(w, 4 * b)]
           x == [v \in 0 .. 7 |-> inter[v % 4][1 + (v \div 4)]]
           o == br_aes_ct64_ortho(x)
<1>1. ASSUME NEW b \in 0 .. 3
      PROVE  \A h \in 0 .. 1 :
               /\ inter[b][1 + h] \in SUBSET Bits64
               /\ \A p \in Bits64 : p \in inter[b][1 + h]
                    <=> 8 * (p \div 16) + (p % 8) \in w[4 * b + h + 2 * ((p \div 8) % 2)]
  <2> DEFINE at == 4 * b
  <2>1. at \in Nat /\ \A n \in at .. at + 3 : w[n] \in SUBSET Bits32
    BY DEF SixteenWords
  <2>2. inter[b] = br_aes_ct64_interleave_in(w, at)
    OBVIOUS
  <2> HIDE DEF at, inter
  <2>3. \A h \in 0 .. 1 :
          /\ inter[b][1 + h] \in SUBSET Bits64
          /\ \A p \in Bits64 : p \in inter[b][1 + h]
               <=> 8 * (p \div 16) + (p % 8) \in w[at + h + 2 * ((p \div 8) % 2)]
    BY <2>1, <2>2, InterleaveIn
  <2> QED BY <2>3 DEF at
<1> HIDE DEF inter
<1>2. x \in EightWords /\ \A v \in 0 .. 7 : x[v] = inter[v % 4][1 + (v \div 4)]
  <2>1. \A v \in 0 .. 7 : v \div 4 \in 0 .. 1 /\ v % 4 \in 0 .. 3 OBVIOUS
  <2> QED BY <1>1, <2>1 DEF EightWords
<1> HIDE DEF x
<1>3. /\ o \in EightWords
      /\ \A v \in 0 .. 7, p \in Bits64 : p \in o[v] <=> 8 * (p \div 8) + v \in x[p % 8]
  BY <1>2, OrthoTransposes
<1>4. Sliced(w) = o
  BY DEF Sliced, o, x, inter
<1> HIDE DEF o
<1>5. ASSUME NEW b \in 0 .. 3, NEW n \in 0 .. 15, NEW v \in Bits8
      PROVE  v \in Lane(o, b)[n] <=> 8 * (n % 4) + v \in w[4 * b + (n \div 4)]
  <2> DEFINE p == Position(b, n)
             z == 8 * (p \div 8) + v
             h == (p % 8) \div 4
  <2>1. /\ p \in Bits64 /\ v \in 0 .. 7
    BY Positions16 DEF Bits8
  <2>2. p % 8 \in 0 .. 7 /\ h \in 0 .. 1 /\ (p % 8) % 4 = b
    BY DEF Position
  <2>3. z \in Bits64 /\ z \div 16 = n % 4 /\ z % 8 = v
    BY DEF Position, Bits8, Bits64
  <2>4. h + 2 * ((z \div 8) % 2) = n \div 4
    BY DEF Position, Bits8
  <2>6. v \in Lane(o, b)[n] <=> p \in o[v]
    BY LaneIsBlock
  <2> HIDE DEF z, h, p
  <2>5. 4 * b + h + 2 * ((z \div 8) % 2) = 4 * b + (n \div 4)
    <3> DEFINE k == 2 * ((z \div 8) % 2)
    <3>1. k \in Nat /\ n \div 4 \in Nat BY <2>3 DEF Bits64
    <3> HIDE DEF k
    <3> QED BY <2>2, <2>4, <3>1 DEF k
  <2>7. p \in o[v] <=> z \in inter[b][1 + h]
    BY <1>2, <1>3, <2>1, <2>2 DEF z, h
  <2>8. z \in inter[b][1 + h] <=> 8 * (z \div 16) + (z % 8) \in w[4 * b + h + 2 * ((z \div 8) % 2)]
    BY <1>1, <2>2, <2>3
  <2> QED BY <2>3, <2>5, <2>6, <2>7, <2>8
<1>6. ASSUME NEW b \in 0 .. 3, NEW n \in 0 .. 15
      PROVE  Lane(o, b)[n] = WordByte(w[4 * b + (n \div 4)], n % 4)
  <2>1. Lane(o, b)[n] \in SUBSET Bits8
    BY DEF Lane
  <2> QED BY <1>5, <2>1 DEF WordByte
<1> QED BY <1>3, <1>4, <1>6

\* The array blocks with n blocks loaded into it.
Loaded(old, data, from, n) == CopyAt(old, 0, br_range_dec32le(4 * n, Slice(data, from, from + 16 * n)))

HasBlocks(data, from, n) == \A i \in 0 .. 16 * n - 1 : data[from + i] \in SUBSET Bits8

\* The batch starts with blocks of the request in its lanes; the blocks behind it
\* stay as they were.
LEMMA LoadedLanes ==
  ASSUME NEW n \in 1 .. 4, NEW from \in Nat, NEW data, HasBlocks(data, from, n), NEW old \in SixteenWords
  PROVE  /\ Loaded(old, data, from, n) \in SixteenWords
         /\ Sliced(Loaded(old, data, from, n)) \in EightWords
         /\ \A b \in 0 .. n - 1 :
              Lane(Sliced(Loaded(old, data, from, n)), b) = Slice(data, from + 16 * b, from + 16 * b + 16)
<1> USE DEF HasBlocks
<1> DEFINE src == Slice(data, from, from + 16 * n)
           m == 4 * n
           loaded == br_range_dec32le(m, src)
           w == CopyAt(old, 0, loaded)
<1>1. m \in Nat /\ 4 * m = 16 * n /\ (from + 16 * n) - from = 16 * n
  OBVIOUS
<1>2. \A i \in 0 .. 4 * m - 1 : src[i] = data[from + i] /\ src[i] \in SUBSET Bits8
  <2>1. src = [i \in 0 .. 16 * n - 1 |-> data[from + i]]
    BY <1>1 DEF Slice
  <2> HIDE DEF src
  <2> QED BY <1>1, <2>1
<1> HIDE DEF src, m
<1>3. /\ loaded \in SliceOf(m, SUBSET Bits32)
      /\ \A i \in 0 .. m - 1, c \in 0 .. 3 : WordByte(loaded[i], c) = src[4 * i + c]
  BY <1>1, <1>2, DecodedWords
<1>4. DOMAIN loaded = 0 .. m - 1 /\ \A i \in 0 .. m - 1 : loaded[i] \in SUBSET Bits32
  BY <1>3 DEF SliceOf
<1> HIDE DEF loaded
<1>5. w = [i \in 0 .. 15 |-> IF i \in 0 .. m - 1 THEN loaded[i] ELSE old[i]]
  <2>1. DOMAIN old = 0 .. 15 BY DEF SixteenWords
  <2>2. \A i \in 0 .. 15 : i - 0 = i OBVIOUS
  <2> QED BY <1>4, <2>1, <2>2 DEF CopyAt
<1> HIDE DEF w
<1>6. w \in SixteenWords
  <2>1. \A i \in 0 .. 15 : old[i] \in SUBSET Bits32 BY DEF SixteenWords
  <2> QED BY <1>4, <1>5, <2>1 DEF SixteenWords
<1>7. /\ Sliced(w) \in EightWords
      /\ \A b \in 0 .. 3, i \in 0 .. 15 : Lane(Sliced(w), b)[i] = WordByte(w[4 * b + (i \div 4)], i % 4)
  BY <1>6, SlicedLanes
<1>8. ASSUME NEW b \in 0 .. n - 1
      PROVE  Lane(Sliced(w), b) = Slice(data, from + 16 * b, from + 16 * b + 16)
  <2>1. b \in 0 .. 3 OBVIOUS
  <2>2. ASSUME NEW i \in 0 .. 15
        PROVE  Lane(Sliced(w), b)[i] = data[(from + 16 * b) + i]
    <3> DEFINE k == 4 * b + (i \div 4)
               c == i % 4
    <3>1. k \in 0 .. 15 /\ k \in 0 .. m - 1 /\ c \in 0 .. 3 /\ 4 * k + c = 16 * b + i
      BY DEF m
    <3>2. Lane(Sliced(w), b)[i] = WordByte(w[k], c)
      BY <1>7, <2>1
    <3> HIDE DEF k, c
    <3>3. WordByte(w[k], c) = src[4 * k + c]
      BY <1>3, <1>5, <3>1
    <3>4. 16 * b + i \in 0 .. 4 * m - 1 /\ from + (16 * b + i) = (from + 16 * b) + i
      BY DEF m
    <3>5. src[16 * b + i] = data[from + (16 * b + i)]
      BY <1>2, <3>4
    <3> QED BY <3>1, <3>2, <3>3, <3>4, <3>5
  <2>3. Lane(Sliced(w), b) = [i \in 0 .. 15 |-> Lane(Sliced(w), b)[i]]
    BY DEF Lane
  <2>4. (from + 16 * b + 16) - (from + 16 * b) - 1 = 15
    OBVIOUS
  <2>5. Slice(data, from + 16 * b, from + 16 * b + 16) = [i \in 0 .. 15 |-> data[(from + 16 * b) + i]]
    BY <2>4 DEF Slice
  <2> QED BY <2>2, <2>3, <2>5
<1>9. Loaded(old, data, from, n) = w
  BY DEF Loaded, w, loaded, m, src
<1> QED BY <1>6, <1>7, <1>8, <1>9

\* The bytes that come out of a batch.
Unsliced(w) ==
  LET plain  == br_aes_ct64_ortho(w)
      words  == [b \in 0 .. 3 |-> br_aes_ct64_interleave_out(plain[b], plain[b + 4])]
  IN br_range_enc32le([n \in 0 .. 15 |-> words[n \div 4][n % 4]], 16)

\* They are the blocks in the lanes.
LEMMA UnslicedLanes ==
  ASSUME NEW w \in EightWords
  PROVE  /\ DOMAIN Unsliced(w) = 0 .. 63
         /\ \A m \in 0 .. 63 : Unsliced(w)[m] = Lane(w, m \div 16)[m % 16]
<1> DEFINE plain == br_aes_ct64_ortho(w)
           words == [b \in 0 .. 3 |-> br_aes_ct64_interleave_out(plain[b], plain[b + 4])]
           all   == [n \in 0 .. 15 |-> words[n \div 4][n % 4]]
<1>1. /\ plain \in EightWords
      /\ \A v \in 0 .. 7, p \in Bits64 : p \in plain[v] <=> 8 * (p \div 8) + v \in w[p % 8]
  BY OrthoTransposes
<1>2. Unsliced(w) = [m \in 0 .. 63 |-> {i \in Bits8 : 8 * (m % 4) + i \in all[m \div 4]}]
  <2>1. 4 * 16 - 1 = 63 OBVIOUS
  <2> QED BY <2>1, Zenon DEF Unsliced, br_range_enc32le
<1> HIDE DEF plain
<1>3. ASSUME NEW b \in 0 .. 3, NEW c \in 0 .. 3, NEW p \in Bits32
      PROVE  p \in words[b][c] <=> 16 * (p \div 8) + 4 * c + b \in w[p % 8]
  <2> DEFINE u == b + 4 * (c % 2)
             d == 8 * (c \div 2)
             x == IF c % 2 = 0 THEN plain[b] ELSE plain[b + 4]
  <2>1. words[b][c] = Gather(Shr(x, d))
    BY DEF br_aes_ct64_interleave_out
  <2>2. u \in 0 .. 7 /\ d \in Nat /\ x = plain[u]
    <3>1. CASE c % 2 = 0
      <4>1. u = b /\ b \in 0 .. 7 /\ x = plain[b] BY <3>1
      <4> QED BY <4>1
    <3>2. CASE c % 2 = 1
      <4>1. u = b + 4 /\ b + 4 \in 0 .. 7 /\ x = plain[b + 4] BY <3>2
      <4> QED BY <4>1
    <3> QED BY <3>1, <3>2
  <2>3. x \in SUBSET Bits64
    BY <1>1, <2>2 DEF EightWords
  <2> DEFINE y == Shr(x, d)
             g == 16 * (p \div 8) + (p % 8)
             z == g + d
  <2>4. g \in Bits64 /\ z \in Bits64 /\ z % 8 = p % 8 /\ 8 * (z \div 8) + u = 16 * (p \div 8) + 4 * c + b
    BY DEF Bits32, Bits64
  <2> HIDE DEF x, d, u, words
  <2>5. y \in SUBSET Bits64 /\ \A i \in Bits64 : i \in y <=> i + d \in x
    BY <2>2, <2>3, Shifts
  <2> HIDE DEF y
  <2>6. p \in Gather(y) <=> g \in y
    BY <2>5, GatherBits
  <2> HIDE DEF g
  <2>7. p \in words[b][c] <=> z \in x
    BY <2>1, <2>4, <2>5, <2>6 DEF y
  <2> HIDE DEF z
  <2>8. z \in x <=> 8 * (z \div 8) + u \in w[z % 8]
    BY <1>1, <2>2, <2>4
  <2> QED BY <2>4, <2>7, <2>8
<1> HIDE DEF words
<1>4. ASSUME NEW m \in 0 .. 63
      PROVE  Unsliced(w)[m] = Lane(w, m \div 16)[m % 16]
  <2> DEFINE b == m \div 16
             c == (m \div 4) % 4
             k == m % 4
             n == m % 16
  <2>1. /\ b \in 0 .. 3 /\ c \in 0 .. 3 /\ k \in 0 .. 3 /\ n \in 0 .. 15
        /\ m \div 4 \in 0 .. 15 /\ (m \div 4) \div 4 = b /\ n % 4 = k /\ n \div 4 = c
    OBVIOUS
  <2>2. Unsliced(w)[m] = {v \in Bits8 : 8 * k + v \in words[b][c]}
    <3>1. all[m \div 4] = words[b][c] BY <2>1
    <3> QED BY <1>2, <3>1
  <2> HIDE DEF b, c, k, n
  <2>3. ASSUME NEW v \in Bits8
        PROVE  8 * k + v \in words[b][c] <=> Position(b, n) \in w[v]
    <3> DEFINE p == 8 * k + v
    <3>1. p \in Bits32 /\ p \div 8 = k /\ p % 8 = v
      BY <2>1 DEF Bits8, Bits32
    <3> HIDE DEF p
    <3>2. p \in words[b][c] <=> 16 * (p \div 8) + 4 * c + b \in w[p % 8]
      BY <1>3, <2>1, <3>1
    <3>3. Position(b, n) = 16 * k + 4 * c + b
      BY <2>1 DEF Position
    <3> QED BY <3>1, <3>2, <3>3 DEF p
  <2>4. Lane(w, b)[n] = {v \in Bits8 : Position(b, n) \in w[v]}
    BY <2>1 DEF Lane
  <2>5. Unsliced(w)[m] = Lane(w, b)[n]
    BY <2>2, <2>3, <2>4
  <2> QED BY <2>5 DEF b, n
<1> QED BY <1>2, <1>4

-----------------------------------------------------------------------------
(* The cipher of FIPS-197 *)

\* What always holds between the iterations.
EcbInv ==
  /\ SliceLen(key) \in {16, 24, 32} /\ key \in SliceOf(SliceLen(key), SUBSET Bits8)
  /\ SliceLen(in) \in Nat /\ in \in SliceOf(SliceLen(in), SUBSET Bits8)
  /\ Scheduling(SliceLen(skey))
  /\ ecb \in {"keysched", "ecb", "rounds"}
  /\ ecb = "keysched" => sk_exp = <<>>
  /\ ecb # "keysched" => SliceLen(skey) = nkf /\ LaneKeys(sk_exp, skey)
  /\ nblocks \in Nat /\ SliceLen(in) - 16 * nblocks \in Nat
  /\ out \in SliceOf(SliceLen(in) - 16 * nblocks, SUBSET Bits8)
  /\ blocks \in SixteenWords
  /\ ecb = "rounds" => nblocks > 0 /\ q \in EightWords /\ round \in 1 .. nrounds
  /\ ecb # "rounds" => round = 0

\* The blocks of the batch that is in the rounds, lane by lane.
BatchBlocks == IF ecb = "rounds" THEN [b \in 0 .. batch - 1 |-> Lane(q, b)] ELSE <<>>

\* The sizes follow from the key.
LEMMA SameSizes == UNCHANGED key => nk' = nk /\ nrounds' = nrounds /\ nkf' = nkf
  BY DEF nk, nrounds, nkf

\* The state the refinement maps to.
LEMMA CipherState ==
  ASSUME EcbInv
  PROVE  /\ Cipher!SliceLen(WordBytes(skey)) = SliceLen(skey)
         /\ Cipher!Rounds(key) = nrounds /\ 4 * (Cipher!Rounds(key) + 1) = nkf
         /\ Cipher!SliceLen(key) \div 4 = nk
         /\ Cipher!SliceLen(out) = SliceLen(in) - 16 * nblocks /\ SliceLen(out) = SliceLen(in) - 16 * nblocks
         /\ Cipher!SliceLen(in) = SliceLen(in)
<1>1. SliceLen(key) \in {16, 24, 32}
  BY DEF EcbInv
<1>2. /\ nk \in {4, 6, 8} /\ nrounds = 6 + (SliceLen(key) \div 4) /\ nkf = 4 * (nrounds + 1)
      /\ nk = SliceLen(key) \div 4
  BY <1>1, KeySizes
<1>3. Cipher!Rounds(key) = 6 + (SliceLen(key) \div 4)
  BY CipherSlices DEF Cipher!Rounds
<1>4. DOMAIN WordBytes(skey) = DOMAIN skey
  BY DEF WordBytes
<1>5. SliceLen(WordBytes(skey)) = SliceLen(skey)
  BY <1>4 DEF SliceLen
<1>6. SliceLen(out) = SliceLen(in) - 16 * nblocks
  <2> DEFINE n == SliceLen(in) - 16 * nblocks
  <2>1. n \in Nat /\ out \in SliceOf(n, SUBSET Bits8) BY DEF EcbInv
  <2> HIDE DEF n
  <2>2. SliceLen(out) = n BY <2>1, LenOfSlice
  <2> QED BY <2>2 DEF n
<1>7. /\ Cipher!SliceLen(WordBytes(skey)) = SliceLen(WordBytes(skey))
      /\ Cipher!SliceLen(key) = SliceLen(key) /\ Cipher!SliceLen(out) = SliceLen(out)
      /\ Cipher!SliceLen(in) = SliceLen(in)
  BY CipherSlices, Zenon
<1>8. Cipher!Rounds(key) = nrounds /\ 4 * (Cipher!Rounds(key) + 1) = nkf
  BY <1>2, <1>3
<1> QED BY <1>2, <1>5, <1>6, <1>7, <1>8

\* A call starts where the cipher of FIPS-197 starts.
LEMMA InitEcb == EcbInit => EcbInv /\ Cipher!Init
<1> SUFFICES ASSUME EcbInit PROVE EcbInv /\ Cipher!Init
  OBVIOUS
<1>1. PICK r \in Requests : key = r.key /\ in = r.data
  BY DEF EcbInit
<1>2. SliceLen(key) \in {16, 24, 32} /\ key \in SliceOf(SliceLen(key), SUBSET Bits8)
  <2>1. PICK n \in {16, 24, 32} : key \in SliceOf(n, SUBSET Bits8)
    BY <1>1, AesCtAssumption
  <2>2. n \in Nat OBVIOUS
  <2>3. SliceLen(key) = n BY <2>1, <2>2, LenOfSlice
  <2> QED BY <2>1, <2>3
<1>3. SliceLen(in) \in Nat /\ SliceLen(in) % 16 = 0 /\ in \in SliceOf(SliceLen(in), SUBSET Bits8)
  BY <1>1, AesCtAssumption
<1>4. /\ skey \in SliceOf(nk, SUBSET Bits32) /\ skey = br_range_dec32le(nk, key)
      /\ WordBytes(skey) = Cipher!KeyWords(key)
  BY <1>2, FirstWords DEF EcbInit
<1>5. nk \in {4, 6, 8} /\ nkf \in {44, 52, 60}
  BY <1>2, KeySizes
<1>6. SliceLen(skey) = nk
  <2> DEFINE n == nk
  <2>1. n \in Nat /\ skey \in SliceOf(n, SUBSET Bits32) BY <1>4, <1>5
  <2> HIDE DEF n
  <2>2. SliceLen(skey) = n BY <2>1, LenOfSlice
  <2> QED BY <2>2 DEF n
<1>7. Scheduling(nk)
  <2>1. nk \in nk .. nkf /\ nk % nk = 0 /\ (nk \div nk) - 1 = 0 BY <1>5
  <2> QED BY <1>2, <1>4, <2>1 DEF Scheduling, EcbInit
<1>8. blocks \in SixteenWords
  <2>1. PICK g \in Garbage : blocks = [n \in 0 .. 15 |-> g] BY DEF EcbInit
  <2>2. g \in SUBSET Bits32 BY AesCtAssumption
  <2> QED BY <2>1, <2>2 DEF SixteenWords
<1>9. nblocks \in Nat /\ SliceLen(in) - 16 * nblocks = 0
  <2>1. nblocks = SliceLen(in) \div 16 BY DEF EcbInit
  <2> QED BY <1>3, <2>1
<1>10. out \in SliceOf(0, SUBSET Bits8)
  <2>1. 0 .. 0 - 1 = {} OBVIOUS
  <2>2. out = <<>> BY DEF EcbInit
  <2> QED BY <2>1, <2>2 DEF SliceOf
<1>11. ecb = "keysched" /\ sk_exp = <<>> /\ round = 0
  BY DEF EcbInit
<1>12. EcbInv
  BY <1>2, <1>3, <1>6, <1>7, <1>8, <1>9, <1>10, <1>11 DEF EcbInv
<1>13. Cipher!Init
  <2>1. ecb # "rounds" BY <1>11
  <2> QED BY <1>1, <1>4, <2>1 DEF Cipher!Init, EcbInit, WordBytes
<1> QED BY <1>12, <1>13

\* An iteration over the key words is a word of the standard's schedule.
LEMMA WordStep == EcbInv /\ KeyschedWord => EcbInv' /\ Cipher!ExpandKey
<1> SUFFICES ASSUME EcbInv, KeyschedWord PROVE EcbInv' /\ Cipher!ExpandKey
  OBVIOUS
<1> DEFINE len == SliceLen(skey)
           x == MixedWord ++ skey[SliceLen(skey) - nk]
<1>1. /\ ecb = "keysched" /\ len < nkf /\ tmp' = x
      /\ skey' = Concat(skey, [n \in {0} |-> x])
      /\ jKey' = (jKey + 1) % nk
      /\ kKey' = IF jKey + 1 = nk THEN kKey + 1 ELSE kKey
      /\ UNCHANGED <<key, in, sk_exp, nblocks, blocks, out, q, round, ecb>>
  BY DEF KeyschedWord, args
<1>2. Scheduling(len) /\ SliceLen(key) \in {16, 24, 32}
  BY DEF EcbInv
<1>3. /\ x \in SUBSET Bits32
      /\ [b \in 0 .. 3 |-> WordByte(x, b)] = Cipher!NextWord(WordBytes(skey), nk)
  <2> HIDE DEF len
  <2>1. /\ MixedWord ++ skey[SliceLen(skey) - nk] \in SUBSET Bits32
        /\ [b \in 0 .. 3 |-> WordByte(MixedWord ++ skey[SliceLen(skey) - nk], b)] = Cipher!NextWord(WordBytes(skey), nk)
    BY <1>1, <1>2, NextWordIsStandard
  <2> QED BY <2>1
<1>4. /\ nk \in {4, 6, 8} /\ nkf \in {44, 52, 60} /\ len \in nk .. nkf /\ skey \in SliceOf(len, SUBSET Bits32)
      /\ jKey = len % nk /\ kKey = (len \div nk) - 1
  BY <1>2, KeySizes DEF Scheduling
<1> HIDE DEF x, len
<1>5. /\ skey' \in SliceOf(len + 1, SUBSET Bits32)
      /\ skey'[len] = x
      /\ WordBytes(skey') = Concat(WordBytes(skey), [n \in {0} |-> [b \in 0 .. 3 |-> WordByte(x, b)]])
  <2>1. skey' = Concat(skey, Single(x))
    BY <1>1 DEF Single
  <2>2. len \in Nat /\ skey \in SliceOf(len, SUBSET Bits32) /\ x \in SUBSET Bits32
    BY <1>3, <1>4
  <2>3. /\ Concat(skey, Single(x)) \in SliceOf(len + 1, SUBSET Bits32)
        /\ Concat(skey, Single(x))[len] = x
        /\ WordBytes(Concat(skey, Single(x))) = Concat(WordBytes(skey), Single([b \in 0 .. 3 |-> WordByte(x, b)]))
    BY <2>2, WordAppended
  <2> QED BY <2>1, <2>3 DEF Single
<1>6. SliceLen(skey') = len + 1
  <2>1. len + 1 \in Nat BY <1>4
  <2> QED BY <1>5, <2>1, LenOfSlice
<1>7. nk' = nk /\ nkf' = nkf /\ nrounds' = nrounds
  BY <1>1, SameSizes
<1>8. Scheduling(SliceLen(skey))'
  <2>1. len + 1 \in nk .. nkf BY <1>1, <1>4
  <2>2. skey'[(len + 1) - 1] = x
    <3>1. (len + 1) - 1 = len /\ len \in 0 .. len BY <1>4
    <3> QED BY <1>5, <3>1
  <2>3. (jKey + 1) % nk = (len + 1) % nk
    <3>1. CASE nk = 4 BY <1>4, <3>1
    <3>2. CASE nk = 6 BY <1>4, <3>2
    <3>3. CASE nk = 8 BY <1>4, <3>3
    <3> QED BY <1>4, <3>1, <3>2, <3>3
  <2>4. kKey' = ((len + 1) \div nk) - 1
    <3>1. CASE nk = 4 BY <1>1, <1>4, <3>1
    <3>2. CASE nk = 6 BY <1>1, <1>4, <3>2
    <3>3. CASE nk = 8 BY <1>1, <1>4, <3>3
    <3> QED BY <1>4, <3>1, <3>2, <3>3
  <2> QED BY <1>1, <1>2, <1>5, <1>6, <1>7, <2>1, <2>2, <2>3, <2>4 DEF Scheduling
<1>9. EcbInv'
  BY <1>1, <1>7, <1>8 DEF EcbInv
<1>10. Cipher!ExpandKey
  <2>1. /\ Cipher!SliceLen(WordBytes(skey)) < 4 * (Cipher!Rounds(key) + 1)
        /\ Cipher!SliceLen(key) \div 4 = nk
    BY <1>1, CipherState DEF len
  <2>2. WordBytes(skey') = Cipher!Concat(WordBytes(skey), [n \in {0} |-> Cipher!NextWord(WordBytes(skey), nk)])
    BY <1>3, <1>5, CipherSlices
  <2>3. WordBytes(skey') = Cipher!Concat(WordBytes(skey), [n \in {0} |-> Cipher!NextWord(WordBytes(skey), Cipher!SliceLen(key) \div 4)])
    BY <2>1, <2>2
  <2>4. BatchBlocks' = BatchBlocks
    BY <1>1 DEF BatchBlocks, batch, Lane
  <2> QED BY <1>1, <2>1, <2>3, <2>4 DEF Cipher!ExpandKey, WordBytes, BatchBlocks, Lane
<1> QED BY <1>9, <1>10

\* Building the bitsliced round keys changes nothing the standard knows.
LEMMA ExpandStep == EcbInv /\ SkeyExpand => EcbInv' /\ UNCHANGED Cipher!vars
<1> SUFFICES ASSUME EcbInv, SkeyExpand PROVE EcbInv' /\ UNCHANGED Cipher!vars
  OBVIOUS
<1>1. /\ ecb = "keysched" /\ SliceLen(skey) = nkf /\ ecb' = "ecb"
      /\ sk_exp' = br_aes_ct64_skey_expand(skey)
      /\ UNCHANGED <<key, in, skey, tmp, jKey, kKey, nblocks, blocks, out, q, round>>
  BY DEF SkeyExpand, args, sched
<1>2. SliceLen(key) \in {16, 24, 32} /\ \A n \in 0 .. nkf - 1 : skey[n] \in SUBSET Bits32
  BY <1>1 DEF EcbInv, Scheduling, SliceOf
<1>3. LaneKeys(sk_exp', skey)
  BY <1>1, <1>2, ExpandedKeys
<1>4. nk' = nk /\ nkf' = nkf /\ nrounds' = nrounds
  BY <1>1, SameSizes
<1>5. LaneKeys(sk_exp, skey)' /\ Scheduling(SliceLen(skey))'
  BY <1>1, <1>3, <1>4 DEF LaneKeys, Scheduling, EcbInv
<1>6. EcbInv'
  BY <1>1, <1>4, <1>5 DEF EcbInv
<1>7. BatchBlocks' = BatchBlocks
  BY <1>1 DEF BatchBlocks, batch
<1>8. UNCHANGED Cipher!vars
  BY <1>1, <1>7 DEF Cipher!vars, BatchBlocks, Lane
<1> QED BY <1>6, <1>8

\* The facts of a batch.
LEMMA BatchSize ==
  ASSUME EcbInv, nblocks > 0
  PROVE  batch \in 1 .. 4 /\ batch <= nblocks
  BY DEF batch, EcbInv

\* What the rounds of a batch use.
LEMMA RoundState ==
  ASSUME EcbInv, ecb # "keysched"
  PROVE  /\ SliceLen(key) \in {16, 24, 32} /\ SliceLen(skey) = nkf /\ DOMAIN skey = 0 .. nkf - 1
         /\ LaneKeys(sk_exp, skey) /\ nrounds \in {10, 12, 14}
  BY KeySizes DEF EcbInv, Scheduling, SliceOf

\* A batch starts as the standard starts its blocks: the lanes behind it do not count.
LEMMA LoadStep == EcbInv /\ LoadBatch => EcbInv' /\ Cipher!Start
<1> SUFFICES ASSUME EcbInv, LoadBatch PROVE EcbInv' /\ Cipher!Start
  OBVIOUS
<1> DEFINE from == SliceLen(out)
           w == CopyAt(blocks, 0, br_range_dec32le(4 * batch, Slice(in, from, from + 16 * batch)))
<1>1. /\ ecb = "ecb" /\ nblocks > 0 /\ ecb' = "rounds" /\ round' = 1
      /\ blocks' = w /\ q' = add_round_key(Sliced(w), 0)
      /\ UNCHANGED <<key, in, skey, tmp, jKey, kKey, sk_exp, nblocks, out>>
  BY DEF LoadBatch, Sliced, args, sched
<1>2. batch \in 1 .. 4 /\ batch <= nblocks /\ nblocks \in Nat
  BY <1>1, BatchSize DEF EcbInv
<1>3. /\ from = SliceLen(in) - 16 * nblocks /\ from \in Nat /\ SliceLen(in) \in Nat
      /\ Cipher!SliceLen(out) = from /\ Cipher!SliceLen(in) = SliceLen(in)
      /\ Cipher!SliceLen(WordBytes(skey)) = SliceLen(skey) /\ 4 * (Cipher!Rounds(key) + 1) = nkf
  BY CipherState DEF EcbInv
<1>4. \A i \in 0 .. 16 * batch - 1 : in[from + i] \in SUBSET Bits8
  <2>1. \A i \in 0 .. 16 * batch - 1 : from + i \in 0 .. SliceLen(in) - 1 BY <1>2, <1>3
  <2> QED BY <2>1 DEF EcbInv, SliceOf
<1>5. from + 16 * batch <= SliceLen(in)
  BY <1>2, <1>3
<1> HIDE DEF from
<1>6. /\ w \in SixteenWords /\ Sliced(w) \in EightWords
      /\ \A b \in 0 .. batch - 1 : Lane(Sliced(w), b) = Slice(in, from + 16 * b, from + 16 * b + 16)
  <2> DEFINE n == batch
  <2>1. n \in 1 .. 4 /\ HasBlocks(in, from, n) BY <1>2, <1>4 DEF HasBlocks
  <2>2. blocks \in SixteenWords BY DEF EcbInv
  <2>3. w = Loaded(blocks, in, from, n) BY DEF Loaded
  <2> HIDE DEF n, w
  <2>4. /\ w \in SixteenWords
        /\ Sliced(w) \in EightWords
        /\ \A b \in 0 .. n - 1 : Lane(Sliced(w), b) = Slice(in, from + 16 * b, from + 16 * b + 16)
    BY <1>3, <2>1, <2>2, <2>3, LoadedLanes
  <2> QED BY <2>4 DEF n
<1> HIDE DEF w
<1>7. /\ SliceLen(key) \in {16, 24, 32} /\ SliceLen(skey) = nkf /\ DOMAIN skey = 0 .. nkf - 1
      /\ LaneKeys(sk_exp, skey) /\ nrounds \in {10, 12, 14}
  BY <1>1, RoundState
<1>8. /\ add_round_key(Sliced(w), 0) \in EightWords
      /\ \A b \in 0 .. 3 : Lane(add_round_key(Sliced(w), 0), b) = Cipher!AddRoundKey(Lane(Sliced(w), b), WordBytes(skey), 0)
  <2>1. 0 \in 0 .. nrounds /\ 8 * 0 = 0 BY <1>7
  <2>2. /\ add_round_key(Sliced(w), 8 * 0) \in EightWords
        /\ \A b \in 0 .. 3 : Lane(add_round_key(Sliced(w), 8 * 0), b) = Cipher!AddRoundKey(Lane(Sliced(w), b), WordBytes(skey), 0)
    BY <1>6, <1>7, <2>1, LaneAddRoundKey
  <2> QED BY <2>1, <2>2
<1>9. nk' = nk /\ nkf' = nkf /\ nrounds' = nrounds
  BY <1>1, SameSizes
<1>10. LaneKeys(sk_exp, skey)' /\ Scheduling(SliceLen(skey))'
  BY <1>1, <1>7, <1>9 DEF LaneKeys, Scheduling, EcbInv
<1>11. EcbInv'
  <2>1. round' \in 1 .. nrounds' BY <1>1, <1>7, <1>9
  <2> QED BY <1>1, <1>6, <1>7, <1>8, <1>9, <1>10, <2>1 DEF EcbInv
<1>12. BatchBlocks' = [b \in 0 .. batch - 1 |->
           Cipher!AddRoundKey(Cipher!Slice(in, from + 16 * b, from + 16 * b + 16), WordBytes(skey), 0)]
  <2>1. BatchBlocks' = [b \in 0 .. batch - 1 |-> Lane(q', b)]
    BY <1>1 DEF BatchBlocks, batch, Lane
  <2>2. ASSUME NEW b \in 0 .. batch - 1
        PROVE  Lane(q', b) = Cipher!AddRoundKey(Cipher!Slice(in, from + 16 * b, from + 16 * b + 16), WordBytes(skey), 0)
    <3>1. b \in 0 .. 3 BY <1>2
    <3>2. Lane(Sliced(w), b) = Slice(in, from + 16 * b, from + 16 * b + 16) BY <1>6
    <3>3. Lane(q', b) = Cipher!AddRoundKey(Lane(Sliced(w), b), WordBytes(skey), 0) BY <1>1, <1>8, <3>1
    <3> QED BY <3>2, <3>3, CipherSlices
  <2> QED BY <2>1, <2>2
<1>13. Cipher!Start
  <2>1. round = 0 BY <1>1 DEF EcbInv
  <2>2. Cipher!SliceLen(out) = from /\ from + 16 * batch <= Cipher!SliceLen(in)
    BY <1>3, <1>5
  <2>3. \E n \in 1 .. 4 :
          /\ Cipher!SliceLen(out) + 16 * n <= Cipher!SliceLen(in)
          /\ BatchBlocks' = [b \in 0 .. n - 1 |->
               Cipher!AddRoundKey(Cipher!Slice(in, Cipher!SliceLen(out) + 16 * b, Cipher!SliceLen(out) + 16 * b + 16),
                                  WordBytes(skey), 0)]
    BY <1>2, <1>12, <2>2
  <2>4. UNCHANGED <<key, in, WordBytes(skey), out>>
    BY <1>1
  <2> QED BY <1>1, <1>3, <1>7, <2>1, <2>3, <2>4 DEF Cipher!Start, WordBytes, BatchBlocks, Lane
<1> QED BY <1>11, <1>13

\* A round of the four lanes is the round of every block of the batch.
LEMMA RoundStep == EcbInv /\ Round => EcbInv' /\ Cipher!Round
<1> SUFFICES ASSUME EcbInv, Round PROVE EcbInv' /\ Cipher!Round
  OBVIOUS
<1> DEFINE subst   == br_aes_ct64_bitslice_Sbox(q)
           shifted == shift_rows(subst)
           mixed   == mix_columns(shifted)
<1>1. /\ ecb = "rounds" /\ ecb' = ecb /\ round < nrounds /\ round' = round + 1
      /\ q' = add_round_key(mixed, 8 * round)
      /\ UNCHANGED <<key, in, skey, tmp, jKey, kKey, sk_exp, nblocks, blocks, out>>
  BY DEF Round, args, sched
<1>2. nblocks > 0 /\ q \in EightWords /\ round \in 1 .. nrounds
  BY <1>1 DEF EcbInv
<1>3. batch \in 1 .. 4
  BY <1>2, BatchSize
<1>4. /\ SliceLen(key) \in {16, 24, 32} /\ SliceLen(skey) = nkf /\ DOMAIN skey = 0 .. nkf - 1
      /\ LaneKeys(sk_exp, skey) /\ nrounds \in {10, 12, 14}
  BY <1>1, RoundState
<1>5. subst \in EightWords /\ \A b \in 0 .. 3 : Lane(subst, b) = Cipher!SubBytes(Lane(q, b))
  <2>1. 0 \in Bits64 BY DEF Bits64
  <2> QED BY <1>2, <2>1, SboxIsSubByte, LaneSubBytes
<1> HIDE DEF subst
<1>6. shifted \in EightWords /\ \A b \in 0 .. 3 : Lane(shifted, b) = Cipher!ShiftRows(Lane(subst, b))
  BY <1>5, RowsShift, LaneShiftRows
<1> HIDE DEF shifted
<1>7. mixed \in EightWords /\ \A b \in 0 .. 3 : Lane(mixed, b) = Cipher!MixColumns(Lane(shifted, b))
  BY <1>6, ColumnsMix, LaneMixColumns
<1> HIDE DEF mixed
<1>8. /\ q' \in EightWords
      /\ \A b \in 0 .. 3 : Lane(q', b) = Cipher!AddRoundKey(Lane(mixed, b), WordBytes(skey), round)
  <2>1. round \in 0 .. nrounds BY <1>2
  <2> QED BY <1>1, <1>4, <1>7, <2>1, LaneAddRoundKey
<1>9. nk' = nk /\ nkf' = nkf /\ nrounds' = nrounds
  BY <1>1, SameSizes
<1>10. LaneKeys(sk_exp, skey)' /\ Scheduling(SliceLen(skey))'
  BY <1>1, <1>4, <1>9 DEF LaneKeys, Scheduling, EcbInv
<1>11. EcbInv'
  <2>1. round' \in 1 .. nrounds' BY <1>1, <1>2, <1>4, <1>9
  <2> QED BY <1>1, <1>8, <1>9, <1>10, <2>1 DEF EcbInv
<1>12. /\ BatchBlocks = [b \in 0 .. batch - 1 |-> Lane(q, b)]
       /\ BatchBlocks' = [b \in 0 .. batch - 1 |-> Lane(q', b)]
  BY <1>1 DEF BatchBlocks, batch, Lane
<1>13. BatchBlocks' = [b \in DOMAIN BatchBlocks |->
           Cipher!AddRoundKey(Cipher!MixColumns(Cipher!ShiftRows(Cipher!SubBytes(BatchBlocks[b]))), WordBytes(skey), round)]
  <2>1. ASSUME NEW b \in 0 .. batch - 1
        PROVE  Lane(q', b) = Cipher!AddRoundKey(Cipher!MixColumns(Cipher!ShiftRows(Cipher!SubBytes(Lane(q, b)))), WordBytes(skey), round)
    <3>1. b \in 0 .. 3 BY <1>3
    <3> QED BY <1>5, <1>6, <1>7, <1>8, <3>1
  <2> QED BY <1>12, <2>1
<1>14. Cipher!Round
  <2>1. round \in 1 .. Cipher!Rounds(key) - 1
    BY <1>1, <1>2, <1>4, CipherState
  <2>2. UNCHANGED <<key, in, WordBytes(skey), out>>
    BY <1>1
  <2> QED BY <1>1, <1>13, <2>1, <2>2 DEF Cipher!Round, WordBytes, BatchBlocks, Lane
<1> QED BY <1>11, <1>14

\* The last round appends the blocks of the batch to the answer.
LEMMA LastStep == EcbInv /\ LastRound => EcbInv' /\ Cipher!LastRound
<1> SUFFICES ASSUME EcbInv, LastRound PROVE EcbInv' /\ Cipher!LastRound
  OBVIOUS
<1> DEFINE subst   == br_aes_ct64_bitslice_Sbox(q)
           shifted == shift_rows(subst)
           final   == add_round_key(shifted, 8 * nrounds)
           t       == Slice(Unsliced(final), 0, 16 * batch)
<1>1. /\ ecb = "rounds" /\ ecb' = "ecb" /\ round = nrounds /\ round' = 0
      /\ out' = Concat(out, t) /\ nblocks' = nblocks - batch
      /\ UNCHANGED <<key, in, skey, tmp, jKey, kKey, sk_exp, blocks>>
  BY DEF LastRound, Unsliced, args, sched
<1>2. nblocks > 0 /\ nblocks \in Nat /\ q \in EightWords
  BY <1>1 DEF EcbInv
<1>3. batch \in 1 .. 4 /\ batch <= nblocks
  BY <1>2, BatchSize
<1>4. /\ SliceLen(key) \in {16, 24, 32} /\ SliceLen(skey) = nkf /\ DOMAIN skey = 0 .. nkf - 1
      /\ LaneKeys(sk_exp, skey) /\ nrounds \in {10, 12, 14}
  BY <1>1, RoundState
<1>5. subst \in EightWords /\ \A b \in 0 .. 3 : Lane(subst, b) = Cipher!SubBytes(Lane(q, b))
  <2>1. 0 \in Bits64 BY DEF Bits64
  <2> QED BY <1>2, <2>1, SboxIsSubByte, LaneSubBytes
<1> HIDE DEF subst
<1>6. shifted \in EightWords /\ \A b \in 0 .. 3 : Lane(shifted, b) = Cipher!ShiftRows(Lane(subst, b))
  BY <1>5, RowsShift, LaneShiftRows
<1> HIDE DEF shifted
<1>7. /\ final \in EightWords
      /\ \A b \in 0 .. 3 : Lane(final, b) = Cipher!AddRoundKey(Lane(shifted, b), WordBytes(skey), nrounds)
  <2>1. nrounds \in 0 .. nrounds BY <1>4
  <2> QED BY <1>4, <1>6, <2>1, LaneAddRoundKey
<1> HIDE DEF final
<1> DEFINE Last(b) == Cipher!AddRoundKey(Cipher!ShiftRows(Cipher!SubBytes(Lane(q, b))), WordBytes(skey), nrounds)
<1>8. \A b \in 0 .. 3 : Lane(final, b) = Last(b)
  BY <1>5, <1>6, <1>7
<1>9. t = [m \in 0 .. 16 * batch - 1 |-> Lane(final, m \div 16)[m % 16]]
  <2>1. 16 * batch - 0 - 1 = 16 * batch - 1 /\ \A m \in 0 .. 16 * batch - 1 : 0 + m = m /\ m \in 0 .. 63
    BY <1>3
  <2>2. t = [m \in 0 .. 16 * batch - 1 |-> Unsliced(final)[0 + m]]
    BY <2>1, Zenon DEF Slice
  <2>3. \A m \in 0 .. 63 : Unsliced(final)[m] = Lane(final, m \div 16)[m % 16]
    BY <1>7, UnslicedLanes
  <2> HIDE DEF t
  <2> QED BY <2>1, <2>2, <2>3
<1> HIDE DEF t
<1>10. t \in SliceOf(16 * batch, SUBSET Bits8)
  <2>1. ASSUME NEW m \in 0 .. 16 * batch - 1 PROVE Lane(final, m \div 16)[m % 16] \in SUBSET Bits8
    <3>1. m % 16 \in 0 .. 15 BY <1>3
    <3> QED BY <3>1, LaneIsBlock DEF Blocks16
  <2> QED BY <1>9, <2>1 DEF SliceOf
<1> DEFINE len == SliceLen(in) - 16 * nblocks
           k   == 16 * batch
<1>11. len \in Nat /\ k \in Nat /\ SliceLen(in) \in Nat /\ out \in SliceOf(len, SUBSET Bits8)
       /\ len + k = SliceLen(in) - 16 * nblocks' /\ nblocks' \in Nat
  BY <1>1, <1>2, <1>3 DEF EcbInv
<1>12. out' \in SliceOf(SliceLen(in) - 16 * nblocks', SUBSET Bits8) /\ SliceLen(in) - 16 * nblocks' \in Nat
  <2>1. t \in SliceOf(k, SUBSET Bits8) BY <1>10
  <2> HIDE DEF len, k
  <2>2. Concat(out, t) \in SliceOf(len + k, SUBSET Bits8)
    BY <1>11, <2>1, ConcatType
  <2> QED BY <1>1, <1>11, <2>2
<1>13. nk' = nk /\ nkf' = nkf /\ nrounds' = nrounds
  BY <1>1, SameSizes
<1>14. LaneKeys(sk_exp, skey)' /\ Scheduling(SliceLen(skey))'
  BY <1>1, <1>4, <1>13 DEF LaneKeys, Scheduling, EcbInv
<1>15. EcbInv'
  BY <1>1, <1>4, <1>11, <1>12, <1>13, <1>14 DEF EcbInv
<1>16. /\ BatchBlocks = [b \in 0 .. batch - 1 |-> Lane(q, b)]
       /\ BatchBlocks' = <<>>
  BY <1>1 DEF BatchBlocks, Lane
<1>17. Cipher!SliceLen(BatchBlocks) = batch
  <2> DEFINE n == batch
             S == {Lane(q, b) : b \in 0 .. n - 1}
  <2>1. n \in Nat /\ BatchBlocks \in SliceOf(n, S) BY <1>3, <1>16 DEF SliceOf
  <2> HIDE DEF n, S
  <2>2. SliceLen(BatchBlocks) = n BY <2>1, LenOfSlice
  <2> QED BY <2>2, CipherSlices DEF n
<1>18. out' = Cipher!Concat(out, [m \in 0 .. 16 * Cipher!SliceLen(BatchBlocks) - 1 |->
          Cipher!AddRoundKey(Cipher!ShiftRows(Cipher!SubBytes(BatchBlocks[m \div 16])), WordBytes(skey), round)[m % 16]])
  <2>1. ASSUME NEW m \in 0 .. 16 * batch - 1
        PROVE  Lane(final, m \div 16)[m % 16]
                 = Cipher!AddRoundKey(Cipher!ShiftRows(Cipher!SubBytes(BatchBlocks[m \div 16])), WordBytes(skey), round)[m % 16]
    <3>1. m \div 16 \in 0 .. 3 /\ m \div 16 \in 0 .. batch - 1 BY <1>3
    <3>2. BatchBlocks[m \div 16] = Lane(q, m \div 16) BY <1>16, <3>1
    <3>3. Lane(final, m \div 16) = Last(m \div 16) BY <1>8, <3>1
    <3> QED BY <1>1, <3>2, <3>3
  <2>2. t = [m \in 0 .. 16 * Cipher!SliceLen(BatchBlocks) - 1 |->
          Cipher!AddRoundKey(Cipher!ShiftRows(Cipher!SubBytes(BatchBlocks[m \div 16])), WordBytes(skey), round)[m % 16]]
    BY <1>9, <1>17, <2>1
  <2> QED BY <1>1, <2>2, CipherSlices
<1>19. Cipher!LastRound
  <2>1. round = Cipher!Rounds(key)
    BY <1>1, CipherState
  <2>2. UNCHANGED <<key, in, WordBytes(skey)>>
    BY <1>1
  <2> QED BY <1>1, <1>16, <1>18, <2>1, <2>2 DEF Cipher!LastRound, WordBytes, BatchBlocks, Lane
<1> QED BY <1>15, <1>19

\* A step that leaves the cipher alone.
LEMMA EcbStutter == EcbInv /\ UNCHANGED ecbVars => EcbInv' /\ UNCHANGED Cipher!vars
<1> SUFFICES ASSUME EcbInv, UNCHANGED ecbVars PROVE EcbInv' /\ UNCHANGED Cipher!vars
  OBVIOUS
<1>1. UNCHANGED <<key, in, skey, tmp, jKey, kKey, sk_exp, nblocks, blocks, out, q, round, ecb>>
  BY DEF ecbVars, args, sched
<1>2. nk' = nk /\ nkf' = nkf /\ nrounds' = nrounds
  BY <1>1, SameSizes
<1>3. Scheduling(SliceLen(skey))' /\ (ecb # "keysched" => LaneKeys(sk_exp, skey)')
  BY <1>1, <1>2 DEF LaneKeys, Scheduling, EcbInv
<1>4. EcbInv'
  BY <1>1, <1>2, <1>3 DEF EcbInv
<1>5. UNCHANGED Cipher!vars
  BY <1>1 DEF Cipher!vars, batch
<1> QED BY <1>4, <1>5

\* Every iteration keeps the invariant, and is a step of the cipher of FIPS-197.
LEMMA CipherNext == EcbInv /\ [EcbNext]_ecbVars => EcbInv' /\ [Cipher!Next]_(Cipher!vars)
<1>1. EcbInv /\ EcbNext => EcbInv' /\ [Cipher!Next]_(Cipher!vars)
  BY WordStep, ExpandStep, LoadStep, RoundStep, LastStep DEF EcbNext, Cipher!Next
<1> QED BY <1>1, EcbStutter

\* A process that makes one of the two calls runs the cipher or leaves it alone.
LEMMA ProcessSteps == [AES_256_ECB \/ AES_128_CTR]_<<called, ecbVars, ctrVars>> => [EcbNext]_ecbVars
  BY DEF AES_256_ECB, AES_128_CTR

\* The invariant of aes_ecb holds in every process: the schedule so far, the expanded
\* round keys, how much of the answer is written, and that the lanes hold words.
THEOREM EcbInvariant == Process => []EcbInv
<1>1. ProcessInit => EcbInv
  BY InitEcb DEF ProcessInit
<1>2. EcbInv /\ [AES_256_ECB \/ AES_128_CTR]_<<called, ecbVars, ctrVars>> => EcbInv'
  BY ProcessSteps, CipherNext
<1> QED BY <1>1, <1>2, PTL DEF Process

\* For every key and schedule, every bit of every round key is in its place in each
\* of the four lanes once br_aes_ct64_skey_expand has run.
THEOREM EveryLaneHasTheKeyHolds == Process => []EveryLaneHasTheKey
<1>1. EcbInv => EveryLaneHasTheKey
  <2> SUFFICES ASSUME EcbInv, NEW n \in DOMAIN sk_exp, NEW b \in 0 .. 3, NEW m \in 0 .. 15
               PROVE  Position(b, m) \in sk_exp[n] <=> 8 * (m % 4) + (n % 8) \in skey[4 * (n \div 8) + (m \div 4)]
    BY DEF EveryLaneHasTheKey
  <2>1. CASE ecb = "keysched"
    <3>1. sk_exp = <<>> BY <2>1 DEF EcbInv
    <3> QED BY <3>1
  <2>2. CASE ecb # "keysched"
    <3>1. LaneKeys(sk_exp, skey) BY <2>2 DEF EcbInv
    <3> DEFINE p == Position(b, m)
    <3>2. p \in Bits64 /\ p \div 16 = m % 4 /\ (p \div 4) % 4 = m \div 4 BY Positions16
    <3> HIDE DEF p
    <3>3. n \in 0 .. 2 * nkf - 1 BY <3>1 DEF LaneKeys
    <3>4. p \in sk_exp[n] <=> 8 * (p \div 16) + (n % 8) \in skey[4 * (n \div 8) + ((p \div 4) % 4)]
      BY <3>1, <3>2, <3>3 DEF LaneKeys
    <3> QED BY <3>2, <3>4 DEF p
  <2> QED BY <2>1, <2>2
<1> QED BY <1>1, EcbInvariant, PTL

\* For every key of the three lengths and every request of whole blocks, whatever the
\* array blocks held before, the bitsliced code is the cipher of FIPS-197 step by step.
THEOREM BlockCipherImplemented == Process => ImplementsBlockCipher
<1>1. ProcessInit => Cipher!Init
  BY InitEcb DEF ProcessInit
<1>2. EcbInv /\ [AES_256_ECB \/ AES_128_CTR]_<<called, ecbVars, ctrVars>> => [Cipher!Next]_(Cipher!vars)
  BY ProcessSteps, CipherNext
<1> QED BY <1>1, <1>2, EcbInvariant, PTL DEF Process, ImplementsBlockCipher, Cipher!Spec
-----------------------------------------------------------------------------
(* The ciphers of the counter mode *)

\* Blocks of bytes, and words of four.
AesBlocks == SliceOf(16, SUBSET Bits8)
AesWords  == SliceOf(4, SUBSET Bits8)

\* Round key n of a schedule of words, as a block.
RoundKey(words, n) == [i \in 0 .. 15 |-> words[4 * n + (i \div 4)][i % 4]]

\* The round keys of a schedule as the vector builds keep them.
HasRoundKeys(words, keys, n) == \A r \in 0 .. n : keys[r] = RoundKey(words, r)

\* A sum of bytes is a byte.
LEMMA ByteSums == \A x, y : x \in SUBSET Bits8 /\ y \in SUBSET Bits8 => x ++ y \in SUBSET Bits8
  BY DEF ++

\* What the parts of a round make of a block of any kind.
LEMMA RoundParts ==
  ASSUME NEW s, NEW words, NEW r
  PROVE  /\ DOMAIN SubBytes(s) = 0 .. 15 /\ DOMAIN ShiftRows(s) = 0 .. 15
         /\ DOMAIN MixColumns(s) = 0 .. 15 /\ DOMAIN AddRoundKey(s, words, r) = 0 .. 15
  BY DEF SubBytes, ShiftRows, MixColumns, AddRoundKey

\* Adding a round key as a block is adding its words.
LEMMA KeyAdded ==
  ASSUME NEW s, DOMAIN s = 0 .. 15, NEW words, NEW r
  PROVE  XorWords(s, RoundKey(words, r)) = AddRoundKey(s, words, r)
<1>1. XorWords(s, RoundKey(words, r)) = [n \in 0 .. 15 |-> s[n] ++ RoundKey(words, r)[n]]
  BY DEF XorWords
<1>2. \A n \in 0 .. 15 : RoundKey(words, r)[n] = words[4 * r + (n \div 4)][n % 4]
  BY DEF RoundKey
<1> QED BY <1>1, <1>2 DEF AddRoundKey

\* The instructions of x86 are the rounds of the standard.
LEMMA NiCipher ==
  ASSUME NEW words, NEW nv, DOMAIN nv = 0 .. 15, rounds \in Nat \ {0}, HasRoundKeys(words, rkeys, rounds)
  PROVE  aes128ni_encrypt(nv) = StandardCipher(words, rounds, nv)
<1> DEFINE Code(f, r) == IF r = 0 THEN XorWords(nv, rkeys[0]) ELSE aesenc(f[r - 1], rkeys[r])
           Std(f, r)  == IF r = 0 THEN Tabulated(AddRoundKey(nv, words, 0))
                         ELSE Tabulated(AddRoundKey(MixColumns(Tabulated(ShiftRows(SubBytes(f[r - 1])))), words, r))
           D == 0 .. rounds - 1
<1>1. ASSUME NEW f, NEW r \in D PROVE Code(f, r) = Std(f, r)
  <2>1. CASE r = 0
    <3>1. Code(f, r) = XorWords(nv, RoundKey(words, 0)) BY <2>1 DEF HasRoundKeys
    <3>2. Std(f, r) = AddRoundKey(nv, words, 0) BY <2>1, TabulatedIsIdentity
    <3> QED BY <3>1, <3>2, KeyAdded
  <2>2. CASE r # 0
    <3> DEFINE s == MixColumns(ShiftRows(SubBytes(f[r - 1])))
    <3>1. Code(f, r) = XorWords(s, RoundKey(words, r)) BY <2>2, TabulatedIsIdentity DEF HasRoundKeys, aesenc
    <3>2. Std(f, r) = AddRoundKey(s, words, r) BY <2>2, TabulatedIsIdentity
    <3>3. DOMAIN s = 0 .. 15 BY RoundParts
    <3> HIDE DEF s, Code, Std
    <3> QED BY <3>1, <3>2, <3>3, KeyAdded
  <2> QED BY <2>1, <2>2
<1> HIDE DEF Code, Std, D
<1> DEFINE P(f) == f = [r \in D |-> Code(f, r)]
           Q(f) == f = [r \in D |-> Std(f, r)]
           c == CHOOSE f : P(f)
           d == CHOOSE f : Q(f)
<1>2. \A f : P(f) <=> Q(f) BY <1>1
<1> HIDE DEF P, Q
<1>3. c = d BY <1>2
<1>4. aes128ni_encrypt(nv) = aesenclast(c[rounds - 1], rkeys[rounds])
  BY DEF aes128ni_encrypt, P, Code, D
<1>5. StandardCipher(words, rounds, nv) = AddRoundKey(ShiftRows(SubBytes(d[rounds - 1])), words, rounds)
  BY TabulatedIsIdentity DEF StandardCipher, Q, Std, D
<1> HIDE DEF c, d
<1>6. aesenclast(c[rounds - 1], rkeys[rounds])
        = XorWords(ShiftRows(SubBytes(c[rounds - 1])), RoundKey(words, rounds))
  BY TabulatedIsIdentity DEF aesenclast, HasRoundKeys
<1>7. DOMAIN ShiftRows(SubBytes(c[rounds - 1])) = 0 .. 15
  BY RoundParts
<1> QED BY <1>3, <1>4, <1>5, <1>6, <1>7, KeyAdded

\* Blocks stay blocks.
LEMMA BlocksStay ==
  ASSUME NEW s \in AesBlocks
  PROVE  /\ SubBytes(s) \in AesBlocks /\ ShiftRows(s) \in AesBlocks /\ MixColumns(s) \in AesBlocks
         /\ \A words, r : (\A c \in 0 .. 3 : words[4 * r + c] \in AesWords) => AddRoundKey(s, words, r) \in AesBlocks
<1>1. \A n \in 0 .. 15 : s[n] \in SUBSET Bits8 BY DEF AesBlocks, SliceOf
<1>2. SubBytes(s) \in AesBlocks BY <1>1, CtrTablesAssumption DEF SubBytes, AesBlocks, SliceOf
<1>3. ShiftRows(s) \in AesBlocks
  <2>1. \A n \in 0 .. 15 : (n % 4) + 4 * (((n \div 4) + (n % 4)) % 4) \in 0 .. 15 OBVIOUS
  <2> QED BY <1>1, <2>1 DEF ShiftRows, AesBlocks, SliceOf
<1>4. \A a : a \in SUBSET Bits8 => Times_x(a) \in SUBSET Bits8 BY DEF Times_x, ++, Bits8
<1>5. MixColumns(s) \in AesBlocks
  <2> DEFINE At(n, d) == s[4 * (n \div 4) + ((n + d) % 4)]
             v(n) == Times_x(At(n, 0) ++ At(n, 1)) ++ (At(n, 1) ++ (At(n, 2) ++ At(n, 3)))
  <2>1. \A n \in 0 .. 15, d \in 0 .. 3 : 4 * (n \div 4) + ((n + d) % 4) \in 0 .. 15 OBVIOUS
  <2>2. \A n \in 0 .. 15, d \in 0 .. 3 : At(n, d) \in SUBSET Bits8 BY <1>1, <2>1
  <2>3. MixColumns(s) = [n \in 0 .. 15 |-> v(n)] BY DEF MixColumns
  <2> HIDE DEF At
  <2>4. \A n \in 0 .. 15 : v(n) \in SUBSET Bits8
    <3> SUFFICES ASSUME NEW n \in 0 .. 15 PROVE v(n) \in SUBSET Bits8 OBVIOUS
    <3>1. At(n, 0) \in SUBSET Bits8 /\ At(n, 1) \in SUBSET Bits8 /\ At(n, 2) \in SUBSET Bits8 /\ At(n, 3) \in SUBSET Bits8
      BY <2>2
    <3>2. At(n, 1) ++ (At(n, 2) ++ At(n, 3)) \in SUBSET Bits8 BY <3>1, ByteSums
    <3>3. Times_x(At(n, 0) ++ At(n, 1)) \in SUBSET Bits8 BY <3>1, ByteSums, <1>4
    <3> QED BY <3>2, <3>3, ByteSums
  <2> QED BY <2>3, <2>4 DEF AesBlocks, SliceOf
<1>6. ASSUME NEW words, NEW r, \A c \in 0 .. 3 : words[4 * r + c] \in AesWords
      PROVE AddRoundKey(s, words, r) \in AesBlocks
  <2>1. \A n \in 0 .. 15 : n \div 4 \in 0 .. 3 /\ n % 4 \in 0 .. 3 OBVIOUS
  <2>2. \A n \in 0 .. 15 : words[4 * r + (n \div 4)][n % 4] \in SUBSET Bits8 BY <1>6, <2>1 DEF AesWords, SliceOf
  <2>3. \A n \in 0 .. 15 : s[n] ++ words[4 * r + (n \div 4)][n % 4] \in SUBSET Bits8 BY <1>1, <2>2, ByteSums
  <2> QED BY <2>3 DEF AddRoundKey, AesBlocks, SliceOf
<1> QED BY <1>2, <1>3, <1>5, <1>6

\* The blocks between the rounds of the standard.
StandardRounds(words, n, b, f) ==
  /\ f \in [0 .. n - 1 -> AesBlocks] /\ f[0] = AddRoundKey(b, words, 0)
  /\ \A r \in 1 .. n - 1 : f[r] = AddRoundKey(MixColumns(ShiftRows(SubBytes(f[r - 1]))), words, r)
  /\ StandardCipher(words, n, b) = AddRoundKey(ShiftRows(SubBytes(f[n - 1])), words, n)

\* The standard cipher, with its rounds unfolded.
LEMMA StandardUnfolds ==
  ASSUME NEW n \in Nat \ {0}, NEW words, \A i \in 0 .. 4 * n + 3 : words[i] \in AesWords, NEW b \in AesBlocks
  PROVE  \E f : StandardRounds(words, n, b, f)
<1> DEFINE D == 0 .. n - 1
           Next1(s, r) == AddRoundKey(MixColumns(ShiftRows(SubBytes(s))), words, r)
           base == AddRoundKey(b, words, 0)
           step == [p \in (1 .. n - 1) \X AesBlocks |-> Next1(p[2], p[1])]
           Body(f, r) == IF r = 0 THEN Tabulated(AddRoundKey(b, words, 0))
                         ELSE Tabulated(AddRoundKey(MixColumns(Tabulated(ShiftRows(SubBytes(f[r - 1])))), words, r))
           P(f) == f = [r \in D |-> Body(f, r)]
           d == CHOOSE f : P(f)
<1>1. ASSUME NEW r \in 0 .. n, NEW c \in 0 .. 3 PROVE words[4 * r + c] \in AesWords
  <2>1. 4 * r + c \in 0 .. 4 * n + 3 OBVIOUS
  <2> QED BY <2>1
<1>2. base \in AesBlocks
  <2>1. \A c \in 0 .. 3 : words[4 * 0 + c] \in AesWords BY <1>1
  <2> QED BY <2>1, BlocksStay
<1>3. ASSUME NEW r \in 1 .. n - 1, NEW s \in AesBlocks PROVE Next1(s, r) \in AesBlocks
  <2>1. \A c \in 0 .. 3 : words[4 * r + c] \in AesWords BY <1>1
  <2> DEFINE u == MixColumns(ShiftRows(SubBytes(s)))
  <2>2. u \in AesBlocks BY BlocksStay
  <2> HIDE DEF u
  <2>3. AddRoundKey(u, words, r) \in AesBlocks BY <2>1, <2>2, BlocksStay
  <2> QED BY <2>3 DEF u
<1> HIDE DEF Next1
<1>4. step \in [(1 .. n - 1) \X AesBlocks -> AesBlocks] BY <1>3
<1>5. \A r \in 1 .. n - 1, s \in AesBlocks : step[<<r, s>>] = Next1(s, r) OBVIOUS
<1> HIDE DEF step, base
<1>6. n - 1 \in Nat OBVIOUS
<1>7. PICK g : Recursion(n - 1, AesBlocks, base, step, g) BY <1>2, <1>4, <1>6, RecursionExists
<1>8. /\ g \in [D -> AesBlocks] /\ g[0] = base
      /\ \A r \in 1 .. n - 1 : g[r] = Next1(g[r - 1], r)
  <2>1. \A r \in 1 .. n - 1 : g[r - 1] \in AesBlocks BY <1>7 DEF Recursion
  <2> QED BY <1>5, <1>7, <2>1 DEF Recursion
<1>9. ASSUME NEW f, NEW r \in D PROVE Body(f, r) = IF r = 0 THEN base ELSE Next1(f[r - 1], r)
  BY TabulatedIsIdentity DEF Next1, base
<1>10. StandardCipher(words, n, b) = AddRoundKey(ShiftRows(SubBytes(d[n - 1])), words, n)
  BY TabulatedIsIdentity DEF StandardCipher
<1> HIDE DEF Body
<1>11. P(g)
  <2>1. \A r \in D : g[r] = Body(g, r) BY <1>8, <1>9
  <2> QED BY <1>8, <2>1
<1> HIDE DEF P
<1>12. P(d) BY <1>11
<1> HIDE DEF d
<1>13. DOMAIN d = D /\ \A r \in D : d[r] = Body(d, r) BY <1>12 DEF P
<1> DEFINE T == {r \in D : d[r] = g[r]}
<1>14. 0 \in T BY <1>8, <1>9, <1>13
<1>15. ASSUME NEW r \in 1 .. n - 1, r - 1 \in T PROVE r \in T
  <2>1. r \in D /\ r # 0 /\ d[r - 1] = g[r - 1] BY <1>15
  <2>2. d[r] = Next1(d[r - 1], r) BY <1>9, <1>13, <2>1
  <2> QED BY <1>8, <2>1, <2>2
<1> HIDE DEF T
<1>16. \A r \in 0 .. n - 1 : r \in T BY <1>6, <1>14, <1>15, BoundedInduction, Zenon
<1>17. \A r \in D : d[r] = g[r] BY <1>16 DEF T
<1>18. d[n - 1] = g[n - 1] BY <1>17
<1>19. StandardCipher(words, n, b) = AddRoundKey(ShiftRows(SubBytes(g[n - 1])), words, n) BY <1>10, <1>18
<1> QED BY <1>8, <1>19 DEF StandardRounds, Next1, base

\* The instructions of ARM take a round apart at another place.
LEMMA ArmCipher ==
  ASSUME NEW words, \A i \in 0 .. 43 : words[i] \in AesWords, NEW nv \in AesBlocks, HasRoundKeys(words, rkeys, 10)
  PROVE  arm_aes128_encrypt(nv) = StandardCipher(words, 10, nv)
<1>1. PICK f : StandardRounds(words, 10, nv, f)
  <2>1. 10 \in Nat \ {0} /\ \A i \in 0 .. 4 * 10 + 3 : words[i] \in AesWords OBVIOUS
  <2> QED BY <2>1, StandardUnfolds
<1> DEFINE Body(g, r) == IF r = 0 THEN vaeseq_u8(nv, rkeys[0]) ELSE vaeseq_u8(Tabulated(MixColumns(g[r - 1])), rkeys[r])
           P(g) == g = [r \in 0 .. 9 |-> Body(g, r)]
           d == CHOOSE g : P(g)
           half == [r \in 0 .. 9 |-> ShiftRows(SubBytes(f[r]))]
<1>2. arm_aes128_encrypt(nv) = XorWords(d[9], rkeys[10])
  BY TabulatedIsIdentity DEF arm_aes128_encrypt
<1>3. DOMAIN nv = 0 .. 15 BY DEF AesBlocks, SliceOf
<1>4. ASSUME NEW g PROVE Body(g, 0) = half[0]
  <2>1. Body(g, 0) = ShiftRows(SubBytes(XorWords(nv, RoundKey(words, 0)))) BY TabulatedIsIdentity DEF vaeseq_u8, HasRoundKeys
  <2>2. XorWords(nv, RoundKey(words, 0)) = f[0] BY <1>1, <1>3, KeyAdded DEF StandardRounds
  <2> QED BY <2>1, <2>2
<1>5. ASSUME NEW g, NEW r \in 1 .. 9, g[r - 1] = half[r - 1] PROVE Body(g, r) = half[r]
  <2> DEFINE s == MixColumns(g[r - 1])
  <2>1. Body(g, r) = ShiftRows(SubBytes(XorWords(s, RoundKey(words, r)))) BY TabulatedIsIdentity DEF vaeseq_u8, HasRoundKeys
  <2>2. DOMAIN s = 0 .. 15 BY DEF MixColumns
  <2>3. s = MixColumns(ShiftRows(SubBytes(f[r - 1]))) BY <1>5
  <2> HIDE DEF s
  <2>4. XorWords(s, RoundKey(words, r)) = AddRoundKey(s, words, r) BY <2>2, KeyAdded
  <2>5. f[r] = AddRoundKey(MixColumns(ShiftRows(SubBytes(f[r - 1]))), words, r)
    <3>1. r \in 1 .. 10 - 1 OBVIOUS
    <3> QED BY <1>1, <3>1 DEF StandardRounds
  <2> QED BY <2>1, <2>3, <2>4, <2>5
<1> HIDE DEF Body
<1>6. P(half)
  <2>1. ASSUME NEW r \in 0 .. 9 PROVE half[r] = Body(half, r)
    <3>1. CASE r = 0 BY <1>4, <3>1
    <3>2. CASE r # 0
      <4>1. r \in 1 .. 9 BY <3>2
      <4> QED BY <1>5, <4>1
    <3> QED BY <3>1, <3>2
  <2>2. DOMAIN half = 0 .. 9 OBVIOUS
  <2> QED BY <2>1, <2>2
<1> HIDE DEF P
<1>7. P(d) BY <1>6
<1> HIDE DEF d
<1>8. \A r \in 0 .. 9 : d[r] = Body(d, r) BY <1>7 DEF P
<1> DEFINE T == {r \in 0 .. 9 : d[r] = half[r]}
<1>9. 0 \in T BY <1>4, <1>8
<1>10. ASSUME NEW r \in 1 .. 9, r - 1 \in T PROVE r \in T
  <2>1. d[r - 1] = half[r - 1] /\ r \in 0 .. 9 BY <1>10
  <2> HIDE DEF half
  <2> QED BY <1>5, <1>8, <2>1
<1> HIDE DEF T
<1>11. 9 \in Nat OBVIOUS
<1>12. \A r \in 0 .. 9 : r \in T BY <1>9, <1>10, <1>11, BoundedInduction, Zenon
<1>13. d[9] = ShiftRows(SubBytes(f[9])) BY <1>12 DEF T
<1>14. XorWords(d[9], rkeys[10]) = AddRoundKey(ShiftRows(SubBytes(f[9])), words, 10)
  <2>1. rkeys[10] = RoundKey(words, 10) BY DEF HasRoundKeys
  <2>2. DOMAIN d[9] = 0 .. 15 BY <1>13, RoundParts
  <2> QED BY <1>13, <2>1, <2>2, KeyAdded
<1>15. StandardCipher(words, 10, nv) = AddRoundKey(ShiftRows(SubBytes(f[9])), words, 10)
  BY <1>1 DEF StandardRounds
<1> QED BY <1>2, <1>14, <1>15
-----------------------------------------------------------------------------
(* The key schedules of the counter mode *)

\* Word m of a schedule under a key of four words, from the words before it.
NextOf(w, m) ==
  [b \in 0 .. 3 |->
     w[m - 4][b] ++ (IF m % 4 = 0
                     THEN SubByte[w[m - 1][(b + 1) % 4]] ++ (IF b = 0 THEN PowerOf_x[(m \div 4) - 1] ELSE {})
                     ELSE w[m - 1][b])]

\* It depends on nothing else.
LEMMA NextOfPrefix ==
  ASSUME NEW m \in 4 .. 43, NEW u, NEW w, \A n \in 0 .. m - 1 : u[n] = w[n]
  PROVE  NextOf(u, m) = NextOf(w, m)
<1>1. m - 4 \in 0 .. m - 1 /\ m - 1 \in 0 .. m - 1 OBVIOUS
<1>2. u[m - 4] = w[m - 4] /\ u[m - 1] = w[m - 1] BY <1>1
<1> QED BY <1>2 DEF NextOf

\* What the standard appends to the words so far.
LEMMA WordExtends ==
  ASSUME NEW m \in 4 .. 43, NEW w \in SliceOf(m, AesWords)
  PROVE  /\ SliceLen(w) = m
         /\ NextWord(w, 4) = NextOf(w, m) /\ NextOf(w, m) \in AesWords
         /\ Concat(w, [i \in {0} |-> NextWord(w, 4)]) = [i \in 0 .. m |-> IF i < m THEN w[i] ELSE NextOf(w, m)]
<1>1. SliceLen(w) = m
  <2>1. m \in Nat OBVIOUS
  <2> QED BY <2>1, LenOfSlice
<1>2. m - 4 \in 0 .. m - 1 /\ m - 1 \in 0 .. m - 1 OBVIOUS
<1>3. w[m - 4] \in AesWords /\ w[m - 1] \in AesWords BY <1>2 DEF SliceOf
<1>4. DOMAIN w[m - 4] = 0 .. 3 /\ DOMAIN w[m - 1] = 0 .. 3 BY <1>3 DEF AesWords, SliceOf
<1>5. NextWord(w, 4) = NextOf(w, m)
  <2> DEFINE sub == [b \in 0 .. 3 |-> SubByte[w[m - 1][(b + 1) % 4]] ++ (IF b = 0 THEN PowerOf_x[(m \div 4) - 1] ELSE {})]
             mixed == IF m % 4 = 0 THEN sub ELSE w[m - 1]
  <2>1. NextWord(w, 4) = XorWords(w[m - 4], mixed)
    BY <1>1 DEF NextWord
  <2>2. XorWords(w[m - 4], mixed) = [b \in 0 .. 3 |-> w[m - 4][b] ++ mixed[b]]
    BY <1>4 DEF XorWords
  <2>3. ASSUME NEW b \in 0 .. 3
        PROVE mixed[b] = IF m % 4 = 0
                         THEN SubByte[w[m - 1][(b + 1) % 4]] ++ (IF b = 0 THEN PowerOf_x[(m \div 4) - 1] ELSE {})
                         ELSE w[m - 1][b]
    OBVIOUS
  <2> HIDE DEF mixed
  <2> QED BY <2>1, <2>2, <2>3 DEF NextOf
<1>6. NextOf(w, m) \in AesWords
  <2>1. ASSUME NEW b \in 0 .. 3 PROVE NextOf(w, m)[b] \in SUBSET Bits8
    <3> DEFINE x == w[m - 4][b]
               y == SubByte[w[m - 1][(b + 1) % 4]]
               c == IF b = 0 THEN PowerOf_x[(m \div 4) - 1] ELSE {}
               z == w[m - 1][b]
    <3>1. (b + 1) % 4 \in 0 .. 3 OBVIOUS
    <3>2. x \in SUBSET Bits8 /\ z \in SUBSET Bits8 /\ w[m - 1][(b + 1) % 4] \in SUBSET Bits8
      BY <1>3, <3>1 DEF AesWords, SliceOf
    <3>3. y \in SUBSET Bits8 BY <3>2, CtrTablesAssumption
    <3>4. c \in SUBSET Bits8
      <4>1. m \div 4 \in 1 .. 10 OBVIOUS
      <4>2. PowerOf_x[(m \div 4) - 1] \in SUBSET Bits8 BY <4>1, CtrTablesAssumption
      <4> QED BY <4>2
    <3>5. NextOf(w, m)[b] = x ++ (IF m % 4 = 0 THEN y ++ c ELSE z) BY DEF NextOf
    <3> HIDE DEF x, y, c, z
    <3> QED BY <3>2, <3>3, <3>4, <3>5, ByteSums
  <2>2. DOMAIN NextOf(w, m) = 0 .. 3 BY DEF NextOf
  <2>3. NextOf(w, m) = [b \in 0 .. 3 |-> NextOf(w, m)[b]] BY DEF NextOf
  <2> HIDE DEF NextOf
  <2> QED BY <2>1, <2>3 DEF AesWords, SliceOf
<1>7. Concat(w, [i \in {0} |-> NextWord(w, 4)]) = [i \in 0 .. m |-> IF i < m THEN w[i] ELSE NextOf(w, m)]
  <2> DEFINE one == [i \in {0} |-> NextWord(w, 4)]
  <2>1. SliceLen(one) = 1
    <3>1. one \in SliceOf(1, {NextWord(w, 4)})
      <4>1. 0 .. 1 - 1 = {0} OBVIOUS
      <4> QED BY <4>1 DEF SliceOf
    <3> QED BY <3>1, LenOfSlice
  <2>2. \A i \in 0 .. m : ~(i < m) => i - m = 0 OBVIOUS
  <2>3. one[0] = NextOf(w, m) BY <1>5
  <2>4. m + 1 - 1 = m OBVIOUS
  <2> HIDE DEF one
  <2>5. Concat(w, one) = [i \in 0 .. m |-> IF i < m THEN w[i] ELSE one[i - m]]
    BY <1>1, <2>1, <2>4 DEF Concat
  <2> QED BY <2>2, <2>3, <2>5 DEF one
<1> QED BY <1>1, <1>5, <1>6, <1>7

\* A schedule of FIPS-197 for a key of 16 bytes.
IsSchedule(k, w) ==
  /\ w \in SliceOf(44, AesWords)
  /\ \A n \in 0 .. 3 : w[n] = Slice(k, 4 * n, 4 * n + 4)
  /\ \A m \in 4 .. 43 : w[m] = NextOf(w, m)

\* The first m words of one.
Begins(k, m, w) ==
  /\ w \in SliceOf(m, AesWords)
  /\ \A n \in 0 .. 3 : w[n] = Slice(k, 4 * n, 4 * n + 4)
  /\ \A j \in 4 .. m - 1 : w[j] = NextOf(w, j)

\* The words of the key begin its schedule.
LEMMA KeyBegins == ASSUME NEW k \in SliceOf(16, SUBSET Bits8) PROVE Begins(k, 4, KeyWords(k))
<1>1. SliceLen(k) = 16 BY LenOfSlice
<1>2. KeyWords(k) = [n \in 0 .. 3 |-> Slice(k, 4 * n, 4 * n + 4)]
  <2>1. (16 \div 4) - 1 = 3 OBVIOUS
  <2> QED BY <1>1, <2>1 DEF KeyWords
<1>3. ASSUME NEW n \in 0 .. 3 PROVE Slice(k, 4 * n, 4 * n + 4) \in AesWords
  <2>1. Slice(k, 4 * n, 4 * n + 4) = [i \in 0 .. 3 |-> k[4 * n + i]]
    <3>1. 4 * n + 4 - 4 * n - 1 = 3 OBVIOUS
    <3> QED BY <3>1 DEF Slice
  <2>2. \A i \in 0 .. 3 : 4 * n + i \in 0 .. 15 OBVIOUS
  <2>3. \A i \in 0 .. 3 : k[4 * n + i] \in SUBSET Bits8 BY <2>2 DEF SliceOf
  <2> QED BY <2>1, <2>3 DEF AesWords, SliceOf
<1>4. KeyWords(k) \in SliceOf(4, AesWords) BY <1>2, <1>3 DEF SliceOf
<1>5. \A j \in 4 .. 4 - 1 : FALSE OBVIOUS
<1> QED BY <1>2, <1>4, <1>5 DEF Begins

\* One more word.
LEMMA GoesOn ==
  ASSUME NEW k, NEW m \in 4 .. 43, NEW w, Begins(k, m, w)
  PROVE  Begins(k, m + 1, Concat(w, [i \in {0} |-> NextWord(w, 4)]))
<1> DEFINE u == Concat(w, [i \in {0} |-> NextWord(w, 4)])
<1>1. w \in SliceOf(m, AesWords) BY DEF Begins
<1>2. u = [i \in 0 .. m |-> IF i < m THEN w[i] ELSE NextOf(w, m)] /\ NextOf(w, m) \in AesWords BY <1>1, WordExtends
<1> HIDE DEF u
<1>3. \A n \in 0 .. m - 1 : u[n] = w[n] /\ w[n] \in AesWords BY <1>1, <1>2 DEF SliceOf
<1>4. u[m] = NextOf(w, m) BY <1>2
<1>5. u \in SliceOf(m + 1, AesWords)
  <2>1. m + 1 - 1 = m OBVIOUS
  <2>2. \A i \in 0 .. m : u[i] \in AesWords BY <1>2, <1>3
  <2> QED BY <1>2, <2>1, <2>2 DEF SliceOf
<1>6. \A n \in 0 .. 3 : n \in 0 .. m - 1 OBVIOUS
<1>7. ASSUME NEW j \in 4 .. m PROVE u[j] = NextOf(u, j)
  <2>1. j \in 4 .. 43 /\ \A n \in 0 .. j - 1 : n \in 0 .. m - 1 OBVIOUS
  <2>2. NextOf(u, j) = NextOf(w, j)
    <3>1. \A n \in 0 .. j - 1 : u[n] = w[n] BY <1>3, <2>1
    <3> QED BY <2>1, <3>1, NextOfPrefix
  <2>3. CASE j = m BY <1>4, <2>2, <2>3
  <2>4. CASE j # m
    <3>1. j \in 0 .. m - 1 /\ j \in 4 .. m - 1 BY <2>4
    <3>2. w[j] = NextOf(w, j) BY <3>1 DEF Begins
    <3> QED BY <1>3, <2>2, <3>1, <3>2
  <2> QED BY <2>3, <2>4
<1>8. \A j \in 4 .. m + 1 - 1 : j \in 4 .. m OBVIOUS
<1> QED BY <1>3, <1>5, <1>6, <1>7, <1>8 DEF Begins, u

\* The schedule of every key is one of FIPS-197.
LEMMA ScheduleIs ==
  ASSUME NEW k \in {r.key : r \in CtrRequests}
  PROVE  IsSchedule(k, Schedule[k])
<1> DEFINE More(w) == Concat(w, [i \in {0} |-> NextWord(w, 4)])
           S == UNION {SliceOf(m, AesWords) : m \in 4 .. 44}
           step == [p \in (1 .. 40) \X S |-> IF SliceLen(p[2]) = 3 + p[1] THEN More(p[2]) ELSE p[2]]
           Body(f, n) == IF n = 0 THEN KeyWords(k)
                         ELSE LET w == Tabulated(f[n - 1]) IN Concat(w, [i \in {0} |-> Tabulated(NextWord(w, 4))])
           P(f) == f = [n \in 0 .. 40 |-> Body(f, n)]
           d == CHOOSE f : P(f)
<1>1. k \in SliceOf(16, SUBSET Bits8)
  <2>1. PICK r \in CtrRequests : k = r.key OBVIOUS
  <2> QED BY <2>1, AesCtrAssumption
<1>2. Schedule[k] = d[40]
  <2> DEFINE K == {r.key : r \in CtrRequests}
             W(x) == LET words[n \in 0 .. 40] ==
                           IF n = 0 THEN KeyWords(x)
                           ELSE LET w == Tabulated(words[n - 1]) IN Concat(w, [i \in {0} |-> Tabulated(NextWord(w, 4))])
                     IN Tabulated(words[40])
  <2>1. Schedule = Tabulated([x \in K |-> W(x)]) BY DEF Schedule
  <2>2. W(k) = d[40] BY TabulatedIsIdentity
  <2> HIDE DEF W, K
  <2>3. Schedule = [x \in K |-> W(x)] BY <2>1, TabulatedIsIdentity
  <2>4. k \in K BY DEF K
  <2> QED BY <2>2, <2>3, <2>4
<1>3. ASSUME NEW f, NEW n \in 0 .. 40 PROVE Body(f, n) = IF n = 0 THEN KeyWords(k) ELSE More(f[n - 1])
  BY TabulatedIsIdentity
<1>4. ASSUME NEW m \in 4 .. 43, NEW w \in SliceOf(m, AesWords) PROVE More(w) \in S
  <2>1. More(w) = [i \in 0 .. m |-> IF i < m THEN w[i] ELSE NextOf(w, m)] /\ NextOf(w, m) \in AesWords
    BY WordExtends
  <2> HIDE DEF More
  <2>2. \A i \in 0 .. m : (i < m => w[i] \in AesWords) BY DEF SliceOf
  <2>3. More(w) \in [0 .. m -> AesWords] BY <2>1, <2>2
  <2>4. m + 1 \in 4 .. 44 /\ m + 1 - 1 = m OBVIOUS
  <2>5. More(w) \in SliceOf(m + 1, AesWords) BY <2>3, <2>4 DEF SliceOf
  <2> QED BY <2>4, <2>5
<1> HIDE DEF More
<1>5. \A m \in 4 .. 44 : \A w \in SliceOf(m, AesWords) : SliceLen(w) = m
  <2>1. \A m \in 4 .. 44 : m \in Nat OBVIOUS
  <2> QED BY <2>1, LenOfSlice
<1>6. step \in [(1 .. 40) \X S -> S]
  <2>1. ASSUME NEW n \in 1 .. 40, NEW w \in S, SliceLen(w) = 3 + n PROVE More(w) \in S
    <3>1. PICK m \in 4 .. 44 : w \in SliceOf(m, AesWords) OBVIOUS
    <3>2. m \in 4 .. 43 BY <1>5, <2>1, <3>1
    <3> HIDE DEF S
    <3> QED BY <1>4, <3>1, <3>2
  <2> HIDE DEF S
  <2> QED BY <2>1
<1>7. KeyWords(k) \in S
  <2>1. KeyWords(k) \in SliceOf(4, AesWords) BY <1>1, KeyBegins DEF Begins
  <2>2. 4 \in 4 .. 44 OBVIOUS
  <2> QED BY <2>1, <2>2
<1>8. \A n \in 1 .. 40, w \in S : SliceLen(w) = 3 + n => step[<<n, w>>] = More(w) OBVIOUS
<1> HIDE DEF step, S
<1>9. PICK g : Recursion(40, S, KeyWords(k), step, g)
  <2>1. 40 \in Nat OBVIOUS
  <2> QED BY <1>6, <1>7, <2>1, RecursionExists
<1> DEFINE T == {n \in 0 .. 40 : Begins(k, 4 + n, g[n]) /\ (n > 0 => g[n] = More(g[n - 1]))}
<1>10. 0 \in T
  <2>1. g[0] = KeyWords(k) BY <1>9 DEF Recursion
  <2>2. Begins(k, 4, KeyWords(k)) BY <1>1, KeyBegins
  <2> QED BY <2>1, <2>2
<1>11. ASSUME NEW n \in 1 .. 40, n - 1 \in T PROVE n \in T
  <2>1. Begins(k, 3 + n, g[n - 1])
    <3>1. 4 + (n - 1) = 3 + n OBVIOUS
    <3> QED BY <1>11, <3>1
  <2>2. 3 + n \in 4 .. 43 /\ 3 + n \in 4 .. 44 /\ 3 + n + 1 = 4 + n OBVIOUS
  <2>3. SliceLen(g[n - 1]) = 3 + n
    <3>1. g[n - 1] \in SliceOf(3 + n, AesWords) BY <2>1 DEF Begins
    <3> QED BY <1>5, <2>2, <3>1, Zenon
  <2>4. g[n - 1] \in S /\ g[n] = step[<<n, g[n - 1]>>]
    <3>1. g \in [0 .. 40 -> S] /\ \A i \in 1 .. 40 : g[i] = step[<<i, g[i - 1]>>] BY <1>9, Zenon DEF Recursion
    <3>2. n - 1 \in 0 .. 40 OBVIOUS
    <3> QED BY <3>1, <3>2, Zenon
  <2>5. g[n] = More(g[n - 1]) BY <1>8, <2>3, <2>4, Zenon
  <2>6. Begins(k, 4 + n, g[n])
    <3>1. Begins(k, 3 + n + 1, More(g[n - 1])) BY <2>1, <2>2, GoesOn DEF More
    <3> QED BY <2>2, <2>5, <3>1
  <2> QED BY <2>5, <2>6
<1> HIDE DEF T
<1>12. \A n \in 0 .. 40 : n \in T
  <2>1. 40 \in Nat OBVIOUS
  <2> QED BY <1>10, <1>11, <2>1, BoundedInduction, Zenon
<1> HIDE DEF Body
<1>13. P(g)
  <2>1. DOMAIN g = 0 .. 40 /\ g = [n \in 0 .. 40 |-> g[n]] BY <1>9 DEF Recursion
  <2>2. ASSUME NEW n \in 0 .. 40 PROVE g[n] = Body(g, n)
    <3>1. CASE n = 0
      <4>1. g[0] = KeyWords(k) BY <1>9 DEF Recursion
      <4> QED BY <1>3, <3>1, <4>1
    <3>2. CASE n # 0
      <4>1. n > 0 BY <3>2
      <4>2. g[n] = More(g[n - 1]) BY <1>12, <4>1 DEF T
      <4> QED BY <1>3, <3>2, <4>2
    <3> QED BY <3>1, <3>2
  <2> QED BY <2>1, <2>2
<1> HIDE DEF P
<1>14. P(d) BY <1>13
<1> HIDE DEF d
<1>15. \A n \in 0 .. 40 : d[n] = Body(d, n) BY <1>14 DEF P
<1> DEFINE U == {n \in 0 .. 40 : d[n] = g[n]}
<1>16. 0 \in U
  <2>1. g[0] = KeyWords(k) BY <1>9 DEF Recursion
  <2>2. d[0] = KeyWords(k) BY <1>3, <1>15
  <2> QED BY <2>1, <2>2
<1>17. ASSUME NEW n \in 1 .. 40, n - 1 \in U PROVE n \in U
  <2>1. n \in 0 .. 40 /\ n # 0 /\ n > 0 OBVIOUS
  <2>2. d[n] = More(d[n - 1]) BY <1>3, <1>15, <2>1
  <2>3. g[n] = More(g[n - 1]) BY <1>12, <2>1 DEF T
  <2> QED BY <1>17, <2>2, <2>3
<1> HIDE DEF U
<1>18. \A n \in 0 .. 40 : n \in U
  <2>1. 40 \in Nat OBVIOUS
  <2> QED BY <1>16, <1>17, <2>1, BoundedInduction, Zenon
<1>19. Begins(k, 44, d[40])
  <2>1. d[40] = g[40] BY <1>18 DEF U
  <2>2. Begins(k, 4 + 40, g[40]) BY <1>12 DEF T
  <2> QED BY <2>1, <2>2
<1> QED BY <1>2, <1>19 DEF Begins, IsSchedule

\* Sums of bytes do not depend on the order.
LEMMA SumsOf ==
  ASSUME NEW u, NEW v, NEW w
  PROVE  u ++ {} = u /\ u ++ v = v ++ u /\ (u ++ v) ++ w = u ++ (v ++ w)
  BY DEF ++

\* Bytes of blocks: the columns of two columns further up are added.
LEMMA Folded ==
  ASSUME NEW t, DOMAIN t = 0 .. 15, NEW last, NEW b \in 0 .. 3
  PROVE  /\ BLOCK1(t, last)[b] = t[b] ++ last[b]
         /\ BLOCK1(t, last)[4 + b] = t[4 + b] ++ (t[b] ++ last[b])
         /\ BLOCK1(t, last)[8 + b] = t[8 + b] ++ (t[4 + b] ++ (t[b] ++ last[b]))
         /\ BLOCK1(t, last)[12 + b] = t[12 + b] ++ (t[8 + b] ++ (t[4 + b] ++ (t[b] ++ last[b])))
<1> DEFINE two  == XorWords(t, slli(t, 4))
           four == XorWords(two, slli(two, 8))
<1>1. DOMAIN two = 0 .. 15 /\ \A i \in 0 .. 15 : two[i] = t[i] ++ (IF i >= 4 THEN t[i - 4] ELSE {})
  BY DEF XorWords, slli
<1> HIDE DEF two
<1>2. \A i \in 0 .. 15 : four[i] = two[i] ++ (IF i >= 8 THEN two[i - 8] ELSE {})
  BY <1>1 DEF XorWords, slli
<1> HIDE DEF four
<1>3. \A i \in 0 .. 15 : BLOCK1(t, last)[i] = four[i] ++ last[i % 4]
  BY DEF BLOCK1, four, two
<1>4. /\ b \in 0 .. 15 /\ 4 + b \in 0 .. 15 /\ 8 + b \in 0 .. 15 /\ 12 + b \in 0 .. 15
      /\ b % 4 = b /\ (4 + b) % 4 = b /\ (8 + b) % 4 = b /\ (12 + b) % 4 = b
      /\ ~(b >= 4) /\ 4 + b >= 4 /\ 8 + b >= 4 /\ 12 + b >= 4
      /\ ~(b >= 8) /\ ~(4 + b >= 8) /\ 8 + b >= 8 /\ 12 + b >= 8
      /\ 4 + b - 4 = b /\ 8 + b - 4 = 4 + b /\ 12 + b - 4 = 8 + b /\ 8 + b - 8 = b /\ 12 + b - 8 = 4 + b
  OBVIOUS
<1>5. /\ two[b] = t[b] /\ two[4 + b] = t[4 + b] ++ t[b]
      /\ two[8 + b] = t[8 + b] ++ t[4 + b] /\ two[12 + b] = t[12 + b] ++ t[8 + b]
  <2>1. two[b] = t[b] ++ {} BY <1>1, <1>4
  <2> QED BY <1>1, <1>4, <2>1, SumsOf
<1>6. /\ four[b] = t[b] /\ four[4 + b] = t[4 + b] ++ t[b]
      /\ four[8 + b] = (t[8 + b] ++ t[4 + b]) ++ t[b]
      /\ four[12 + b] = (t[12 + b] ++ t[8 + b]) ++ (t[4 + b] ++ t[b])
  <2>1. four[b] = two[b] ++ {} /\ four[4 + b] = two[4 + b] ++ {} BY <1>2, <1>4
  <2>2. four[8 + b] = two[8 + b] ++ two[b] /\ four[12 + b] = two[12 + b] ++ two[4 + b] BY <1>2, <1>4
  <2>3. \A u : u ++ {} = u BY SumsOf
  <2> QED BY <1>5, <2>1, <2>2, <2>3
<1>7. /\ BLOCK1(t, last)[b] = four[b] ++ last[b] /\ BLOCK1(t, last)[4 + b] = four[4 + b] ++ last[b]
      /\ BLOCK1(t, last)[8 + b] = four[8 + b] ++ last[b] /\ BLOCK1(t, last)[12 + b] = four[12 + b] ++ last[b]
  BY <1>3, <1>4
<1>8. \A u, v, w : (u ++ v) ++ w = u ++ (v ++ w) BY SumsOf
<1> QED BY <1>6, <1>7, <1>8

\* A step of the key schedules for vectors makes the four next words.
LEMMA NextRoundKey ==
  ASSUME NEW k, NEW w, IsSchedule(k, w), NEW n \in 0 .. 9
  PROVE  /\ BLOCK1(RoundKey(w, n), _mm_aeskeygenassist_si128(RoundKey(w, n), Imm[n + 1])) = RoundKey(w, n + 1)
         /\ BLOCK1(RoundKey(w, n), aeskeygenassist(RoundKey(w, n), Imm[n + 1])) = RoundKey(w, n + 1)
<1> DEFINE t == RoundKey(w, n)
           last == LastWord(t, SubByte, Imm[n + 1])
<1>1. DOMAIN t = 0 .. 15 /\ \A i \in 0 .. 15 : t[i] = w[4 * n + (i \div 4)][i % 4] BY DEF RoundKey
<1>2. ASSUME NEW c \in 0 .. 3, NEW b \in 0 .. 3
      PROVE  /\ t[4 * c + b] = w[4 * n + c][b] /\ t[4 * c + b] \in SUBSET Bits8
  <2>1. 4 * c + b \in 0 .. 15 /\ (4 * c + b) \div 4 = c /\ (4 * c + b) % 4 = b OBVIOUS
  <2>2. 4 * n + c \in 0 .. 43 OBVIOUS
  <2>3. w[4 * n + c] \in AesWords BY <2>2 DEF IsSchedule, SliceOf
  <2>4. w[4 * n + c][b] \in SUBSET Bits8 BY <2>3 DEF AesWords, SliceOf
  <2> QED BY <1>1, <2>1, <2>4
<1> HIDE DEF t
<1>3. ASSUME NEW b \in 0 .. 3
      PROVE  last[b] = SubByte[w[4 * n + 3][(b + 1) % 4]] ++ (IF b = 0 THEN PowerOf_x[n] ELSE {})
  <2>1. (b + 1) % 4 \in 0 .. 3 OBVIOUS
  <2>2. t[12 + ((b + 1) % 4)] = w[4 * n + 3][(b + 1) % 4]
    <3>1. 4 * 3 = 12 OBVIOUS
    <3> QED BY <1>2, <2>1, <3>1
  <2>3. Imm[n + 1] = PowerOf_x[n]
    <3>1. n + 1 \in 1 .. 10 /\ n + 1 - 1 = n OBVIOUS
    <3> QED BY <3>1, CtrTablesAssumption
  <2> QED BY <2>2, <2>3 DEF LastWord
<1>4. LastWord(t, subword, Imm[n + 1]) = last
  <2>1. ASSUME NEW b \in 0 .. 3 PROVE subword[t[12 + ((b + 1) % 4)]] = SubByte[t[12 + ((b + 1) % 4)]]
    <3>1. (b + 1) % 4 \in 0 .. 3 /\ 4 * 3 = 12 OBVIOUS
    <3>2. t[12 + ((b + 1) % 4)] \in SUBSET Bits8 BY <1>2, <3>1
    <3> QED BY <3>2, CtrTablesAssumption
  <2> QED BY <2>1 DEF LastWord
<1> HIDE DEF last
<1>5. ASSUME NEW b \in 0 .. 3
      PROVE  /\ w[4 * n + 4][b] = t[b] ++ last[b]
             /\ w[4 * n + 5][b] = t[4 + b] ++ w[4 * n + 4][b]
             /\ w[4 * n + 6][b] = t[8 + b] ++ w[4 * n + 5][b]
             /\ w[4 * n + 7][b] = t[12 + b] ++ w[4 * n + 6][b]
  <2>1. ASSUME NEW m \in 4 .. 43
        PROVE  w[m][b] = w[m - 4][b] ++ (IF m % 4 = 0
                           THEN SubByte[w[m - 1][(b + 1) % 4]] ++ (IF b = 0 THEN PowerOf_x[(m \div 4) - 1] ELSE {})
                           ELSE w[m - 1][b])
    <3>1. w[m] = NextOf(w, m) BY DEF IsSchedule
    <3> QED BY <3>1 DEF NextOf
  <2>2. /\ t[b] = w[4 * n][b] /\ t[4 + b] = w[4 * n + 1][b]
        /\ t[8 + b] = w[4 * n + 2][b] /\ t[12 + b] = w[4 * n + 3][b]
    <3>1. t[4 * 0 + b] = w[4 * n + 0][b] /\ t[4 * 1 + b] = w[4 * n + 1][b]
          /\ t[4 * 2 + b] = w[4 * n + 2][b] /\ t[4 * 3 + b] = w[4 * n + 3][b] BY <1>2
    <3>2. 4 * 0 + b = b /\ 4 * 1 + b = 4 + b /\ 4 * 2 + b = 8 + b /\ 4 * 3 + b = 12 + b /\ 4 * n + 0 = 4 * n OBVIOUS
    <3> QED BY <3>1, <3>2
  <2>3. w[4 * n + 4][b] = t[b] ++ last[b]
    <3>1. 4 * n + 4 \in 4 .. 43 /\ (4 * n + 4) % 4 = 0 /\ 4 * n + 4 - 4 = 4 * n /\ 4 * n + 4 - 1 = 4 * n + 3
          /\ ((4 * n + 4) \div 4) - 1 = n OBVIOUS
    <3>2. w[4 * n + 4][b] = w[4 * n][b] ++ (SubByte[w[4 * n + 3][(b + 1) % 4]] ++ (IF b = 0 THEN PowerOf_x[n] ELSE {}))
      BY <2>1, <3>1
    <3> QED BY <1>3, <2>2, <3>2
  <2>4. w[4 * n + 5][b] = t[4 + b] ++ w[4 * n + 4][b]
    <3>1. 4 * n + 5 \in 4 .. 43 /\ (4 * n + 5) % 4 # 0 /\ 4 * n + 5 - 4 = 4 * n + 1 /\ 4 * n + 5 - 1 = 4 * n + 4 OBVIOUS
    <3> QED BY <2>1, <2>2, <3>1
  <2>5. w[4 * n + 6][b] = t[8 + b] ++ w[4 * n + 5][b]
    <3>1. 4 * n + 6 \in 4 .. 43 /\ (4 * n + 6) % 4 # 0 /\ 4 * n + 6 - 4 = 4 * n + 2 /\ 4 * n + 6 - 1 = 4 * n + 5 OBVIOUS
    <3> QED BY <2>1, <2>2, <3>1
  <2>6. w[4 * n + 7][b] = t[12 + b] ++ w[4 * n + 6][b]
    <3>1. 4 * n + 7 \in 4 .. 43 /\ (4 * n + 7) % 4 # 0 /\ 4 * n + 7 - 4 = 4 * n + 3 /\ 4 * n + 7 - 1 = 4 * n + 6 OBVIOUS
    <3> QED BY <2>1, <2>2, <3>1
  <2> QED BY <2>3, <2>4, <2>5, <2>6
<1> DEFINE f == BLOCK1(t, last)
<1>6. DOMAIN f = 0 .. 15 /\ f = [i \in 0 .. 15 |-> f[i]] BY DEF BLOCK1
<1>7. ASSUME NEW b \in 0 .. 3
      PROVE  /\ f[b] = w[4 * n + 4][b] /\ f[4 + b] = w[4 * n + 5][b]
             /\ f[8 + b] = w[4 * n + 6][b] /\ f[12 + b] = w[4 * n + 7][b]
  BY <1>1, <1>5, Folded
<1> HIDE DEF f
<1>8. ASSUME NEW i \in 0 .. 15 PROVE f[i] = w[4 * (n + 1) + (i \div 4)][i % 4]
  <2> DEFINE b == i % 4
  <2>1. b \in 0 .. 3 OBVIOUS
  <2>2. \/ (i \div 4 = 0 /\ i = b)
        \/ (i \div 4 = 1 /\ i = 4 + b)
        \/ (i \div 4 = 2 /\ i = 8 + b)
        \/ (i \div 4 = 3 /\ i = 12 + b)
    <3> DEFINE c == i \div 4
    <3>1. c \in 0 .. 3 OBVIOUS
    <3>2. i = (4 * c) + b BY DivRem
    <3> HIDE DEF b, c
    <3>3. (c = 0 /\ i = b) \/ (c = 1 /\ i = 4 + b) \/ (c = 2 /\ i = 8 + b) \/ (c = 3 /\ i = 12 + b)
      BY <2>1, <3>1, <3>2
    <3> QED BY <3>3 DEF c
  <2>3. 4 * (n + 1) + 0 = 4 * n + 4 /\ 4 * (n + 1) + 1 = 4 * n + 5 /\ 4 * (n + 1) + 2 = 4 * n + 6 /\ 4 * (n + 1) + 3 = 4 * n + 7
    OBVIOUS
  <2> HIDE DEF b
  <2>4. f[i] = w[4 * (n + 1) + (i \div 4)][b] BY <1>7, <2>1, <2>2, <2>3
  <2> QED BY <2>4 DEF b
<1>9. f = RoundKey(w, n + 1) BY <1>6, <1>8 DEF RoundKey
<1> QED BY <1>4, <1>9 DEF f, last, t, _mm_aeskeygenassist_si128, aeskeygenassist
-----------------------------------------------------------------------------
(* The counters *)

\* A number shifted by bytes: c, c \div 256, c \div 256^2, ...
Shifted(c) == CHOOSE f : Recursion(7, Nat, c, [p \in (1 .. 7) \X Nat |-> p[2] \div 256], f)

\* Every shift is by a byte.
LEMMA ShiftedIs ==
  ASSUME NEW c \in Nat
  PROVE  /\ Shifted(c) \in [0 .. 7 -> Nat] /\ Shifted(c)[0] = c
         /\ \A i \in 1 .. 7 : Shifted(c)[i] = Shifted(c)[i - 1] \div 256
<1> DEFINE step == [p \in (1 .. 7) \X Nat |-> p[2] \div 256]
           s == Shifted(c)
<1>1. \A x \in Nat : x \div 256 \in Nat OBVIOUS
<1>2. step \in [(1 .. 7) \X Nat -> Nat] BY <1>1
<1>3. \A i \in 1 .. 7, x \in Nat : step[<<i, x>>] = x \div 256 OBVIOUS
<1>4. s = CHOOSE f : Recursion(7, Nat, c, step, f) BY DEF Shifted
<1> HIDE DEF step, s
<1>5. 7 \in Nat OBVIOUS
<1>6. \E f : Recursion(7, Nat, c, step, f) BY <1>2, <1>5, RecursionExists
<1>7. Recursion(7, Nat, c, step, s) BY <1>4, <1>6
<1>8. s \in [0 .. 7 -> Nat] /\ s[0] = c /\ \A i \in 1 .. 7 : s[i] = step[<<i, s[i - 1]>>] BY <1>7 DEF Recursion
<1>9. ASSUME NEW i \in 1 .. 7 PROVE s[i] = s[i - 1] \div 256
  <2>1. i - 1 \in 0 .. 7 OBVIOUS
  <2>2. s[i - 1] \in Nat BY <1>8, <2>1
  <2> QED BY <1>3, <1>8, <2>2
<1> QED BY <1>8, <1>9 DEF s

\* A byte of a sum, and what it carries.
LEMMA CarryOf ==
  ASSUME NEW x \in Nat, NEW y \in Nat
  PROVE  /\ ((x % 256) + (y - x)) \div 256 = (y \div 256) - (x \div 256)
         /\ ((x % 256) + (y - x)) % 256 = y % 256
<1>1. /\ x = (256 * (x \div 256)) + (x % 256) /\ x \div 256 \in Nat /\ x % 256 \in 0 .. 255
      /\ y = (256 * (y \div 256)) + (y % 256) /\ y \div 256 \in Nat /\ y % 256 \in 0 .. 255
  OBVIOUS
<1> DEFINE u == x \div 256
           v == y \div 256
           r == x % 256
           t == y % 256
<1>2. r + (y - x) = (256 * (v - u)) + t BY <1>1
<1>3. v - u \in Int /\ t \in 0 .. 255 BY <1>1
<1> HIDE DEF u, v, r, t
<1>4. \A w \in Int, z \in 0 .. 255 : ((256 * w) + z) \div 256 = w /\ ((256 * w) + z) % 256 = z OBVIOUS
<1>5. ((256 * (v - u)) + t) \div 256 = v - u /\ ((256 * (v - u)) + t) % 256 = t BY <1>3, <1>4
<1> QED BY <1>2, <1>5 DEF u, v, r, t

\* The block of a counter, in the bytes a build counts in.
CounterBlock(c) == [i \in 0 .. 15 |-> IF i \in CounterBytes THEN ByteOf[Shifted(c)[15 - i] % 256] ELSE {}]

\* The bytes a build counts in.
LEMMA CounterRange ==
  /\ 15 \in CounterBytes /\ CounterBytes \subseteq 8 .. 15 /\ {12, 13, 14} \subseteq CounterBytes
  /\ \A i \in CounterBytes : i # 15 => i + 1 \in CounterBytes
  BY DEF CounterBytes

\* The block of a counter is one of bytes, those of its number.
LEMMA CounterBytesHeld ==
  ASSUME NEW c \in Nat
  PROVE  /\ CounterBlock(c) \in AesBlocks
         /\ \A i \in CounterBytes : Value[CounterBlock(c)[i]] = Shifted(c)[15 - i] % 256
<1>1. ASSUME NEW i \in CounterBytes PROVE Shifted(c)[15 - i] % 256 \in 0 .. 255
  <2>1. 15 - i \in 0 .. 7 BY CounterRange
  <2>2. Shifted(c)[15 - i] \in Nat BY <2>1, ShiftedIs
  <2> QED BY <2>2
<1>2. ASSUME NEW i \in CounterBytes PROVE CounterBlock(c)[i] = ByteOf[Shifted(c)[15 - i] % 256]
  <2>1. i \in 0 .. 15 BY CounterRange
  <2> QED BY <2>1 DEF CounterBlock
<1>3. ASSUME NEW i \in CounterBytes
      PROVE  /\ Value[CounterBlock(c)[i]] = Shifted(c)[15 - i] % 256
             /\ CounterBlock(c)[i] \in SUBSET Bits8
  <2> DEFINE v == Shifted(c)[15 - i] % 256
  <2>1. v \in 0 .. 255 /\ CounterBlock(c)[i] = ByteOf[v] BY <1>1, <1>2
  <2> HIDE DEF v
  <2>2. Value[ByteOf[v]] = v /\ ByteOf[v] \in SUBSET Bits8 BY <2>1, CtrTablesAssumption, Zenon
  <2>3. Value[CounterBlock(c)[i]] = v /\ CounterBlock(c)[i] \in SUBSET Bits8 BY <2>1, <2>2
  <2> QED BY <2>3 DEF v
<1>4. ASSUME NEW i \in 0 .. 15 PROVE CounterBlock(c)[i] \in SUBSET Bits8
  <2>1. CASE i \in CounterBytes BY <1>3, <2>1
  <2>2. CASE i \notin CounterBytes BY <2>2 DEF CounterBlock
  <2> QED BY <2>1, <2>2
<1>5. CounterBlock(c) = [i \in 0 .. 15 |-> CounterBlock(c)[i]] BY DEF CounterBlock
<1> HIDE DEF CounterBlock
<1>6. CounterBlock(c) \in [0 .. 15 -> SUBSET Bits8] BY <1>4, <1>5
<1>7. 16 - 1 = 15 OBVIOUS
<1> QED BY <1>3, <1>6, <1>7 DEF AesBlocks, SliceOf

\* Counting n on, byte by byte with its carries, is adding n, modulo the last number
\* there is room for.
LEMMA CountsOn ==
  ASSUME NEW c \in Nat, NEW n \in Nat
  PROVE  inc_be(CounterBlock(c), n) = CounterBlock(c + n)
<1> DEFINE a == Shifted(c)
           s == Shifted(c + n)
           b == CounterBlock(c)
           Body(f, i) == IF i = 15 THEN n ELSE (Value[b[i + 1]] + f[i + 1]) \div 256
           P(f) == f = [i \in CounterBytes |-> Body(f, i)]
           d == CHOOSE f : P(f)
           g == [i \in CounterBytes |-> s[15 - i] - a[15 - i]]
<1>1. inc_be(b, n) = [i \in 0 .. 15 |-> IF i \in CounterBytes THEN ByteOf[(Value[b[i]] + d[i]) % 256] ELSE b[i]]
  BY DEF inc_be
<1>2. c + n \in Nat OBVIOUS
<1>3. /\ a \in [0 .. 7 -> Nat] /\ a[0] = c /\ \A i \in 1 .. 7 : a[i] = a[i - 1] \div 256
      /\ s \in [0 .. 7 -> Nat] /\ s[0] = c + n /\ \A i \in 1 .. 7 : s[i] = s[i - 1] \div 256
  BY <1>2, ShiftedIs
<1>4. \A i \in CounterBytes : Value[b[i]] = a[15 - i] % 256 BY CounterBytesHeld
<1>5. \A i \in 0 .. 15 : i \notin CounterBytes => b[i] = {} BY DEF CounterBlock
<1> HIDE DEF a, s, b
<1>6. \A i \in CounterBytes : 15 - i \in 0 .. 7 BY CounterRange
<1>7. ASSUME NEW f, NEW i \in CounterBytes, i # 15 => f[i + 1] = g[i + 1] PROVE Body(f, i) = g[i]
  <2>1. CASE i = 15
    <3>1. g[15] = s[0] - a[0] BY CounterRange
    <3> QED BY <1>3, <2>1, <3>1
  <2>2. CASE i # 15
    <3>1. i + 1 \in CounterBytes /\ 15 - (i + 1) \in 0 .. 7 BY <2>2, <1>6, CounterRange
    <3>2. i \in 8 .. 14 BY <2>2, CounterRange
    <3> DEFINE j == 15 - i
    <3>3. j \in 1 .. 7 /\ j - 1 = 15 - (i + 1) BY <3>2
    <3> HIDE DEF j
    <3>4. a[j - 1] \in Nat /\ s[j - 1] \in Nat BY <1>3, <3>1, <3>3
    <3>5. Body(f, i) = ((a[j - 1] % 256) + (s[j - 1] - a[j - 1])) \div 256
      <4>1. Value[b[i + 1]] = a[j - 1] % 256 BY <1>4, <3>1, <3>3
      <4>2. f[i + 1] = s[j - 1] - a[j - 1] BY <1>7, <2>2, <3>1, <3>3
      <4> QED BY <2>2, <4>1, <4>2
    <3>6. Body(f, i) = (s[j - 1] \div 256) - (a[j - 1] \div 256) BY <3>4, <3>5, CarryOf
    <3>7. g[i] = s[j] - a[j] BY DEF j
    <3>8. s[j] = s[j - 1] \div 256 /\ a[j] = a[j - 1] \div 256 BY <1>3, <3>3
    <3> QED BY <3>6, <3>7, <3>8
  <2> QED BY <2>1, <2>2
<1> HIDE DEF Body
<1>8. P(g)
  <2>1. \A i \in CounterBytes : g[i] = Body(g, i) BY <1>7
  <2>2. g = [i \in CounterBytes |-> g[i]] OBVIOUS
  <2> HIDE DEF g
  <2> QED BY <2>1, <2>2
<1> HIDE DEF P
<1>9. P(d) BY <1>8
<1> HIDE DEF d, g
<1>10. \A i \in CounterBytes : d[i] = Body(d, i) BY <1>9 DEF P
<1> DEFINE T == {j \in 0 .. 7 : 15 - j \in CounterBytes => d[15 - j] = g[15 - j]}
<1>11. 0 \in T
  <2>1. d[15] = g[15] BY <1>7, <1>10, CounterRange
  <2> QED BY <2>1
<1>12. ASSUME NEW j \in 1 .. 7, j - 1 \in T PROVE j \in T
  <2> SUFFICES ASSUME 15 - j \in CounterBytes PROVE d[15 - j] = g[15 - j] OBVIOUS
  <2>1. 15 - j # 15 /\ (15 - j) + 1 = 15 - (j - 1) OBVIOUS
  <2>2. (15 - j) + 1 \in CounterBytes BY <2>1, CounterRange
  <2>3. d[(15 - j) + 1] = g[(15 - j) + 1] BY <1>12, <2>1, <2>2
  <2> QED BY <1>7, <1>10, <2>3
<1> HIDE DEF T
<1>13. \A j \in 0 .. 7 : j \in T
  <2>1. 7 \in Nat OBVIOUS
  <2> QED BY <1>11, <1>12, <2>1, BoundedInduction, Zenon
<1>14. ASSUME NEW i \in CounterBytes PROVE (Value[b[i]] + d[i]) % 256 = s[15 - i] % 256
  <2> DEFINE j == 15 - i
  <2>1. j \in 0 .. 7 /\ 15 - j = i BY CounterRange
  <2>2. d[i] = g[i] BY <1>13, <2>1 DEF T
  <2>3. g[i] = s[j] - a[j] BY DEF g
  <2>4. Value[b[i]] = a[j] % 256 BY <1>4
  <2> HIDE DEF j
  <2>5. a[j] \in Nat /\ s[j] \in Nat BY <1>3, <2>1
  <2> DEFINE x == a[j]
             y == s[j]
  <2>6. Value[b[i]] = x % 256 /\ d[i] = y - x BY <2>2, <2>3, <2>4
  <2> HIDE DEF x, y
  <2>7. x \in Nat /\ y \in Nat BY <2>5 DEF x, y
  <2>8. ((x % 256) + (y - x)) % 256 = y % 256 BY <2>7, CarryOf
  <2> QED BY <2>6, <2>8 DEF j, y
<1>15. CounterBlock(c + n) = [i \in 0 .. 15 |-> IF i \in CounterBytes THEN ByteOf[s[15 - i] % 256] ELSE {}]
  BY DEF CounterBlock, s
<1>16. inc_be(b, n) = CounterBlock(c + n) BY <1>1, <1>5, <1>14, <1>15
<1> QED BY <1>16 DEF b

\* All builds start from zero.
LEMMA StartsAtZero == ZeroBlock = CounterBlock(0)
<1> DEFINE a == Shifted(0)
           T == {j \in 0 .. 7 : a[j] = 0}
<1>1. a[0] = 0 /\ \A i \in 1 .. 7 : a[i] = a[i - 1] \div 256 BY ShiftedIs
<1> HIDE DEF a
<1>2. 0 \in T BY <1>1
<1>3. ASSUME NEW j \in 1 .. 7, j - 1 \in T PROVE j \in T
  <2>1. a[j - 1] = 0 /\ a[j] = a[j - 1] \div 256 BY <1>1, <1>3
  <2>2. 0 \div 256 = 0 OBVIOUS
  <2> QED BY <2>1, <2>2
<1> HIDE DEF T
<1>4. \A j \in 0 .. 7 : j \in T
  <2>1. 7 \in Nat OBVIOUS
  <2> QED BY <1>2, <1>3, <2>1, BoundedInduction, Zenon
<1>5. ASSUME NEW i \in CounterBytes PROVE ByteOf[Shifted(0)[15 - i] % 256] = {}
  <2>1. 15 - i \in 0 .. 7 BY CounterRange
  <2>2. a[15 - i] = 0 BY <1>4, <2>1 DEF T
  <2>3. 0 % 256 = 0 OBVIOUS
  <2> QED BY <2>2, <2>3, CtrTablesAssumption DEF a
<1> QED BY <1>5 DEF ZeroBlock, CounterBlock

\* How many numbers three and four bytes have.
ThreeBytes == 256 * (256 * 256)
FourBytes  == 256 * ThreeBytes

\* They are numbers themselves.
LEMMA BytesNat == ThreeBytes \in Nat /\ FourBytes \in Nat
<1>1. ThreeBytes \in Nat BY DEF ThreeBytes
<1> QED BY <1>1 DEF FourBytes

\* Block k of the standard's key stream encrypts the counter of the build, while eight
\* bytes have room for no more than four.
LEMMA StandardCounter ==
  ASSUME NEW k \in Nat, build # "c" => k < FourBytes
  PROVE  StandardBlock(k) = StandardCipher(Schedule[seed], rounds, CounterBlock(k))
<1> DEFINE a == Shifted(k)
           Body(f, i) == IF i = 15 THEN k ELSE f[i + 1] \div 256
           P(f) == f = [i \in 12 .. 15 |-> Body(f, i)]
           d == CHOOSE f : P(f)
           g == [i \in 12 .. 15 |-> a[15 - i]]
           std == [i \in 0 .. 15 |-> ByteOf[IF i < 12 THEN 0 ELSE d[i] % 256]]
<1>1. StandardBlock(k) = StandardCipher(Schedule[seed], rounds, std)
  BY TabulatedIsIdentity DEF StandardBlock
<1>2. a \in [0 .. 7 -> Nat] /\ a[0] = k /\ \A i \in 1 .. 7 : a[i] = a[i - 1] \div 256 BY ShiftedIs
<1> HIDE DEF a
<1>3. ASSUME NEW f, NEW i \in 12 .. 15, i # 15 => f[i + 1] = g[i + 1] PROVE Body(f, i) = g[i]
  <2>1. CASE i = 15
    <3>1. g[15] = a[0] OBVIOUS
    <3> QED BY <1>2, <2>1, <3>1
  <2>2. CASE i # 15
    <3>1. i + 1 \in 12 .. 15 /\ 15 - i \in 1 .. 7 /\ (15 - i) - 1 = 15 - (i + 1) BY <2>2
    <3>2. g[i + 1] = a[15 - (i + 1)] /\ g[i] = a[15 - i] BY <3>1
    <3>3. a[15 - i] = a[(15 - i) - 1] \div 256 BY <1>2, <3>1
    <3>4. Body(f, i) = g[i + 1] \div 256 BY <1>3, <2>2
    <3> QED BY <3>1, <3>2, <3>3, <3>4
  <2> QED BY <2>1, <2>2
<1> HIDE DEF Body
<1>4. P(g)
  <2>1. \A i \in 12 .. 15 : g[i] = Body(g, i) BY <1>3
  <2>2. g = [i \in 12 .. 15 |-> g[i]] OBVIOUS
  <2> HIDE DEF g
  <2> QED BY <2>1, <2>2
<1> HIDE DEF P
<1>5. P(d) BY <1>4
<1> HIDE DEF d, g
<1>6. \A i \in 12 .. 15 : d[i] = Body(d, i) BY <1>5 DEF P
<1>7. d[15] = g[15] BY <1>3, <1>6
<1>8. d[14] = g[14]
  <2>1. 14 \in 12 .. 15 /\ 14 + 1 = 15 OBVIOUS
  <2> QED BY <1>3, <1>6, <1>7, <2>1
<1>9. d[13] = g[13]
  <2>1. 13 \in 12 .. 15 /\ 13 + 1 = 14 OBVIOUS
  <2> QED BY <1>3, <1>6, <1>8, <2>1
<1>10. d[12] = g[12]
  <2>1. 12 \in 12 .. 15 /\ 12 + 1 = 13 OBVIOUS
  <2> QED BY <1>3, <1>6, <1>9, <2>1
<1>11. ASSUME NEW i \in 12 .. 15 PROVE d[i] = a[15 - i]
  <2>1. i = 12 \/ i = 13 \/ i = 14 \/ i = 15 OBVIOUS
  <2>2. d[i] = g[i] BY <1>7, <1>8, <1>9, <1>10, <2>1
  <2> QED BY <2>2 DEF g
<1>12. build # "c" => a[4] = 0 /\ a[5] = 0 /\ a[6] = 0 /\ a[7] = 0
  <2> SUFFICES ASSUME build # "c" PROVE a[4] = 0 /\ a[5] = 0 /\ a[6] = 0 /\ a[7] = 0 OBVIOUS
  <2>1. a[1] = k \div 256 /\ a[2] = a[1] \div 256 /\ a[3] = a[2] \div 256 /\ a[4] = a[3] \div 256
        /\ a[5] = a[4] \div 256 /\ a[6] = a[5] \div 256 /\ a[7] = a[6] \div 256
    <3>1. a[1] = a[1 - 1] \div 256 /\ a[2] = a[2 - 1] \div 256 /\ a[3] = a[3 - 1] \div 256 /\ a[4] = a[4 - 1] \div 256
          /\ a[5] = a[5 - 1] \div 256 /\ a[6] = a[6 - 1] \div 256 /\ a[7] = a[7 - 1] \div 256 BY <1>2
    <3> QED BY <1>2, <3>1
  <2>2. a[1] \in Nat /\ a[2] \in Nat /\ a[3] \in Nat /\ a[4] \in Nat BY <1>2
  <2>3. ASSUME NEW x \in Nat, NEW m \in Nat, x < 256 * m PROVE x \div 256 < m
    <3>1. x = (256 * (x \div 256)) + (x % 256) /\ x \div 256 \in Nat /\ x % 256 \in 0 .. 255 OBVIOUS
    <3> DEFINE u == x \div 256
               t == x % 256
    <3> HIDE DEF u, t
    <3>2. x = (256 * u) + t /\ u \in Nat /\ t \in 0 .. 255 BY <3>1 DEF u, t
    <3>3. u < m BY <2>3, <3>2
    <3> QED BY <3>3 DEF u
  <2>4. k < 256 * ThreeBytes /\ ThreeBytes \in Nat BY BytesNat DEF FourBytes
  <2>5. a[1] < 256 * (256 * 256) /\ 256 * 256 \in Nat
    <3>1. k \div 256 < ThreeBytes BY <2>3, <2>4
    <3>2. a[1] < ThreeBytes BY <2>1, <3>1
    <3> QED BY <3>2 DEF ThreeBytes
  <2>6. a[2] < 256 * 256
    <3>1. a[1] \div 256 < 256 * 256 BY <2>2, <2>3, <2>5
    <3> QED BY <2>1, <3>1
  <2>7. a[3] < 256
    <3>1. 256 \in Nat OBVIOUS
    <3>2. a[2] \div 256 < 256 BY <2>2, <2>3, <2>6, <3>1
    <3>3. a[3] = a[2] \div 256 BY <2>1, Zenon
    <3> QED BY <3>2, <3>3, Zenon
  <2>8. a[4] = 0
    <3> DEFINE x == a[3]
    <3>1. x \in Nat /\ x < 256 BY <2>2, <2>7
    <3> HIDE DEF x
    <3>2. x \div 256 = 0 BY <3>1
    <3>3. a[4] = x \div 256 BY <2>1, Zenon DEF x
    <3> QED BY <3>2, <3>3
  <2>9. 0 \div 256 = 0 OBVIOUS
  <2>10. a[5] = 0 BY <2>1, <2>8, <2>9
  <2>11. a[6] = 0 BY <2>1, <2>9, <2>10
  <2>12. a[7] = 0 BY <2>1, <2>9, <2>11
  <2> QED BY <2>8, <2>10, <2>11, <2>12
<1>13. std = CounterBlock(k)
  <2>1. ASSUME NEW i \in 0 .. 15
        PROVE  ByteOf[IF i < 12 THEN 0 ELSE d[i] % 256] = IF i \in CounterBytes THEN ByteOf[a[15 - i] % 256] ELSE {}
    <3>1. CASE ~(i < 12)
      <4>1. i \in 12 .. 15 BY <3>1
      <4>2. i \in CounterBytes BY <4>1 DEF CounterBytes
      <4>3. d[i] = a[15 - i] BY <1>11, <4>1
      <4> QED BY <3>1, <4>2, <4>3
    <3>2. CASE i < 12 /\ i \notin CounterBytes
      BY <3>2, CtrTablesAssumption
    <3>3. CASE i < 12 /\ i \in CounterBytes
      <4>1. build # "c" /\ i \in 8 .. 11 BY <3>3 DEF CounterBytes
      <4>2. 15 - i = 4 \/ 15 - i = 5 \/ 15 - i = 6 \/ 15 - i = 7 BY <4>1
      <4>3. a[15 - i] = 0 BY <1>12, <4>1, <4>2
      <4>4. 0 % 256 = 0 OBVIOUS
      <4> QED BY <3>3, <4>3, <4>4, CtrTablesAssumption
    <3> QED BY <3>1, <3>2, <3>3
  <2> QED BY <2>1 DEF CounterBlock, a
<1> QED BY <1>1, <1>13
-----------------------------------------------------------------------------
(* AES_128_CTR *)

\* The schedule of the call.
FullSchedule == Schedule[seed]

\* The counters in the state, when block c is the next one.
CountersAt(c) == [k \in IF build = "c" THEN 0 .. 3 ELSE {0} |-> CounterBlock(c + k)]

\* The round keys so far, in words or in blocks.
WordsSoFar(m)  == rkeys = [n \in 0 .. m - 1 |-> FullSchedule[n]]
BlocksSoFar(n) == rkeys = [r \in 0 .. n - 1 |-> RoundKey(FullSchedule, r)] /\ temp0 = RoundKey(FullSchedule, n)

\* The whole schedule, in words or in blocks.
KeysReady == IF build = "c" THEN rkeys = FullSchedule ELSE HasRoundKeys(FullSchedule, rkeys, rounds)

\* What was written ends with a block, and the counters are those of the next one.
NextBlockIs(c) == outlen \in Nat /\ outputByteLen = outlen + 16 * c /\ ivw = CountersAt(c)

\* The invariant of AES_128_CTR: how far the schedule is, and which block is the next.
CtrInv ==
  /\ \E r \in CtrRequests : build = r.build /\ seed = r.key /\ outputByteLen = r.len
  /\ ctr \in {"malloc", "keyexp", "ctr", "gone", "returned"}
  /\ ctr \in {"malloc", "keyexp"} => IF build = "c" THEN \E m \in 4 .. 44 : WordsSoFar(m)
                                                    ELSE \E n \in 0 .. rounds : BlocksSoFar(n)
  /\ ctr = "ctr" => KeysReady
  /\ ctr \in {"malloc", "keyexp", "ctr"} => \E c \in Nat : NextBlockIs(c)

\* What a call is.
LEMMA CallIs ==
  ASSUME CtrInv
  PROVE  /\ build \in {"c", "ni", "ni4", "neon"} /\ outputByteLen \in Nat
         /\ seed \in SliceOf(16, SUBSET Bits8) /\ IsSchedule(seed, FullSchedule)
         /\ rounds \in {4, 10} /\ (build \in {"c", "neon"} => rounds = 10)
<1>1. PICK r \in CtrRequests : build = r.build /\ seed = r.key /\ outputByteLen = r.len BY DEF CtrInv
<1>2. r.build \in {"c", "ni", "ni4", "neon"} /\ r.len \in Nat /\ r.key \in SliceOf(16, SUBSET Bits8) BY AesCtrAssumption
<1>3. seed \in {x.key : x \in CtrRequests} BY <1>1
<1>4. IsSchedule(seed, FullSchedule) BY <1>3, ScheduleIs DEF FullSchedule
<1>5. rounds \in {4, 10} /\ (build \in {"c", "neon"} => rounds = 10) BY DEF rounds
<1> QED BY <1>1, <1>2, <1>4, <1>5

\* The length of a slice given by its indices.
LEMMA LenByIndices ==
  ASSUME NEW n \in Nat, NEW w, DOMAIN w = 0 .. n - 1, w = [i \in DOMAIN w |-> w[i]]
  PROVE  SliceLen(w) = n
<1>1. w \in SliceOf(n, {w[i] : i \in 0 .. n - 1}) BY DEF SliceOf
<1> QED BY <1>1, LenOfSlice

\* Every build encrypts with the cipher of the standard.
LEMMA Encrypts ==
  ASSUME CtrInv, KeysReady, NEW b \in AesBlocks
  PROVE  Encrypt(b) = StandardCipher(FullSchedule, rounds, b)
<1>1. /\ build \in {"c", "ni", "ni4", "neon"} /\ rounds \in {4, 10} /\ (build \in {"c", "neon"} => rounds = 10)
      /\ \A i \in 0 .. 43 : FullSchedule[i] \in AesWords
  BY CallIs DEF IsSchedule, SliceOf
<1>2. CASE build = "c" BY <1>1, <1>2 DEF KeysReady, Encrypt
<1>3. CASE build = "neon"
  <2>1. HasRoundKeys(FullSchedule, rkeys, 10) BY <1>1, <1>3 DEF KeysReady
  <2>2. arm_aes128_encrypt(b) = StandardCipher(FullSchedule, 10, b) BY <1>1, <2>1, ArmCipher
  <2> QED BY <1>1, <1>3, <2>2 DEF Encrypt
<1>4. CASE build # "c" /\ build # "neon"
  <2>1. HasRoundKeys(FullSchedule, rkeys, rounds) /\ rounds \in Nat \ {0} BY <1>1, <1>4 DEF KeysReady
  <2>2. DOMAIN b = 0 .. 15 BY DEF AesBlocks, SliceOf
  <2>3. aes128ni_encrypt(b) = StandardCipher(FullSchedule, rounds, b) BY <2>1, <2>2, NiCipher
  <2> QED BY <1>4, <2>3 DEF Encrypt
<1> QED BY <1>2, <1>3, <1>4

\* n bytes of the key stream, from block c on.
StreamBytes(c, n) ==
  [i \in 0 .. n - 1 |-> StandardCipher(FullSchedule, rounds, CounterBlock(c + (i \div 16)))[i % 16]]

\* The bytes of a batch of n blocks from block c on.
LEMMA StreamFrom ==
  ASSUME CtrInv, KeysReady, NEW c \in Nat, ivw = CountersAt(c), NEW n \in {1, 4}
  PROVE  Stream(n) = StreamBytes(c, 16 * n)
<1> DEFINE nv(k) == IF build = "c" THEN ivw[k] ELSE inc_be(ivw[0], k)
           block == [k \in 0 .. n - 1 |-> Encrypt(nv(k))]
<1>1. Stream(n) = [i \in 0 .. 16 * n - 1 |-> block[i \div 16][i % 16]] BY TabulatedIsIdentity DEF Stream
<1>2. ASSUME NEW k \in 0 .. n - 1 PROVE nv(k) = CounterBlock(c + k)
  <2>1. k \in 0 .. 3 /\ k \in Nat OBVIOUS
  <2>2. CASE build = "c" BY <2>1, <2>2 DEF CountersAt
  <2>3. CASE build # "c"
    <3>1. ivw[0] = CounterBlock(c + 0) BY <2>3 DEF CountersAt
    <3>2. c + 0 = c OBVIOUS
    <3>3. inc_be(CounterBlock(c), k) = CounterBlock(c + k) BY <2>1, CountsOn
    <3> QED BY <2>3, <3>1, <3>2, <3>3
  <2> QED BY <2>2, <2>3
<1>3. ASSUME NEW k \in 0 .. n - 1 PROVE block[k] = StandardCipher(FullSchedule, rounds, CounterBlock(c + k))
  <2>1. c + k \in Nat OBVIOUS
  <2>2. CounterBlock(c + k) \in AesBlocks BY <2>1, CounterBytesHeld
  <2>3. Encrypt(CounterBlock(c + k)) = StandardCipher(FullSchedule, rounds, CounterBlock(c + k)) BY <2>2, Encrypts
  <2>4. block[k] = Encrypt(nv(k)) OBVIOUS
  <2> HIDE DEF nv, block
  <2> QED BY <1>2, <2>3, <2>4
<1> HIDE DEF block
<1>4. \A i \in 0 .. 16 * n - 1 : i \div 16 \in 0 .. n - 1 OBVIOUS
<1> QED BY <1>1, <1>3, <1>4 DEF StreamBytes

\* The same bytes of the standard's key stream.
LEMMA StandardFrom ==
  ASSUME CtrInv, NEW c \in Nat, NEW first, first = 16 * c, NEW len \in Nat \ {0},
         build # "c" => first + len <= 16 * FourBytes
  PROVE  StandardStream(first, len) = StreamBytes(c, len)
<1> DEFINE block == [k \in first \div 16 .. (first + len - 1) \div 16 |-> StandardBlock(k)]
<1>1. StandardStream(first, len) = [i \in 0 .. len - 1 |-> block[(first + i) \div 16][(first + i) % 16]]
  BY TabulatedIsIdentity DEF StandardStream
<1>2. ASSUME NEW i \in 0 .. len - 1
      PROVE  /\ (first + i) \div 16 = c + (i \div 16) /\ (first + i) % 16 = i % 16
             /\ c + (i \div 16) \in first \div 16 .. (first + len - 1) \div 16
             /\ c + (i \div 16) \in Nat /\ (build # "c" => c + (i \div 16) < FourBytes)
  <2> DEFINE j == i \div 16
             t == i % 16
             e == (first + len - 1) \div 16
             z == (first + len - 1) % 16
  <2>1. i = (16 * j) + t /\ j \in Nat /\ t \in 0 .. 15 BY DivRem
  <2>2. first + len - 1 \in Nat OBVIOUS
  <2>3. first + len - 1 = (16 * e) + z /\ e \in Nat /\ z \in 0 .. 15 BY <2>2, DivRem
  <2>4. first \div 16 = c OBVIOUS
  <2> HIDE DEF j, t, e, z
  <2>5. first + i = (16 * (c + j)) + t /\ c + j \in Nat BY <2>1
  <2>6. ((16 * (c + j)) + t) \div 16 = c + j /\ ((16 * (c + j)) + t) % 16 = t BY <2>1, <2>5, DivUnique
  <2>7. c + j \in c .. e BY <2>1, <2>3
  <2>8. build # "c" => c + j < FourBytes
    <3>1. build # "c" => (16 * c) + len <= 16 * FourBytes OBVIOUS
    <3>2. FourBytes \in Nat BY BytesNat
    <3> QED BY <2>1, <3>1, <3>2
  <2> QED BY <2>4, <2>5, <2>6, <2>7, <2>8 DEF j, t, e
<1>3. ASSUME NEW k \in Nat, build # "c" => k < FourBytes
      PROVE  StandardBlock(k) = StandardCipher(FullSchedule, rounds, CounterBlock(k))
  BY <1>3, StandardCounter DEF FullSchedule
<1>4. ASSUME NEW i \in 0 .. len - 1
      PROVE  block[(first + i) \div 16][(first + i) % 16]
               = StandardCipher(FullSchedule, rounds, CounterBlock(c + (i \div 16)))[i % 16]
  <2>1. block[c + (i \div 16)] = StandardBlock(c + (i \div 16)) BY <1>2
  <2>2. StandardBlock(c + (i \div 16)) = StandardCipher(FullSchedule, rounds, CounterBlock(c + (i \div 16)))
    BY <1>2, <1>3
  <2> HIDE DEF block
  <2> QED BY <1>2, <2>1, <2>2
<1> DEFINE u(i) == block[(first + i) \div 16][(first + i) % 16]
           v(i) == StandardCipher(FullSchedule, rounds, CounterBlock(c + (i \div 16)))[i % 16]
<1>5. \A i \in 0 .. len - 1 : u(i) = v(i) BY <1>4, Zenon
<1> HIDE DEF block
<1>6. StandardStream(first, len) = [i \in 0 .. len - 1 |-> u(i)] BY <1>1
<1> HIDE DEF u, v
<1>7. StandardStream(first, len) = [i \in 0 .. len - 1 |-> v(i)] BY <1>5, <1>6, Zenon
<1> QED BY <1>7 DEF v, StreamBytes

\* The bytes of a word of the key.
LEMMA KeyWordBytes ==
  ASSUME NEW n \in 0 .. 3, NEW k, NEW b \in 0 .. 3
  PROVE  Slice(k, 4 * n, 4 * n + 4)[b] = k[4 * n + b]
<1>1. 4 * n + 4 - 4 * n - 1 = 3 OBVIOUS
<1>2. Slice(k, 4 * n, 4 * n + 4) = [i \in 0 .. 3 |-> k[4 * n + i]] BY <1>1 DEF Slice
<1> QED BY <1>2

\* The first round key is the key.
LEMMA KeyIsRoundKey ==
  ASSUME IsSchedule(seed, FullSchedule), seed \in SliceOf(16, SUBSET Bits8)
  PROVE  seed = RoundKey(FullSchedule, 0)
<1>2. seed = [i \in 0 .. 15 |-> seed[i]]
  <2>1. 16 - 1 = 15 OBVIOUS
  <2> QED BY <2>1 DEF SliceOf
<1>3. ASSUME NEW i \in 0 .. 15 PROVE FullSchedule[4 * 0 + (i \div 4)][i % 4] = seed[i]
  <2> DEFINE n == i \div 4
             b == i % 4
  <2>1. n \in 0 .. 3 /\ b \in 0 .. 3 OBVIOUS
  <2>2. i = (4 * n) + b BY DivRem
  <2> HIDE DEF n, b
  <2>3. FullSchedule[n] = Slice(seed, 4 * n, 4 * n + 4) BY <2>1 DEF IsSchedule
  <2>4. Slice(seed, 4 * n, 4 * n + 4)[b] = seed[4 * n + b] BY <2>1, KeyWordBytes
  <2>5. 4 * 0 + n = n BY <2>1
  <2> QED BY <2>2, <2>3, <2>4, <2>5 DEF n, b
<1> QED BY <1>2, <1>3 DEF RoundKey

\* The calls begin with the key, and with the counter zero.
LEMMA InitCtr == CtrInit => CtrInv
<1> SUFFICES ASSUME CtrInit PROVE CtrInv OBVIOUS
<1>1. PICK r \in CtrRequests : build = r.build /\ seed = r.key /\ outputByteLen = r.len BY DEF CtrInit
<1>2. r.len \in Nat BY AesCtrAssumption
<1>3. ctr = "malloc" /\ outlen = outputByteLen /\ temp0 = seed BY DEF CtrInit
<1>4. NextBlockIs(0)
  <2> DEFINE K == IF build = "c" THEN 0 .. 3 ELSE {0}
  <2>1. ASSUME NEW k \in K PROVE inc_be(ZeroBlock, k) = CounterBlock(0 + k)
    <3>1. k \in Nat /\ 0 \in Nat OBVIOUS
    <3> QED BY <3>1, StartsAtZero, CountsOn
  <2>2. ivw = [k \in K |-> inc_be(ZeroBlock, k)] BY DEF CtrInit
  <2>3. CountersAt(0) = [k \in K |-> CounterBlock(0 + k)] BY DEF CountersAt
  <2> HIDE DEF K
  <2>4. ivw = CountersAt(0) BY <2>1, <2>2, <2>3
  <2>5. outputByteLen = outlen + 16 * 0 BY <1>1, <1>2, <1>3
  <2> QED BY <1>1, <1>2, <1>3, <2>4, <2>5 DEF NextBlockIs
<1>5. \E c \in Nat : NextBlockIs(c) BY <1>4
<1>6. seed \in {x.key : x \in CtrRequests} BY <1>1
<1>7. IsSchedule(seed, FullSchedule) BY <1>6, ScheduleIs DEF FullSchedule
<1>8. CASE build = "c"
  <2>1. seed \in SliceOf(16, SUBSET Bits8) BY <1>1, AesCtrAssumption
  <2>2. SliceLen(seed) = 16 BY <2>1, LenOfSlice
  <2>3. KeyWords(seed) = [n \in 0 .. 3 |-> Slice(seed, 4 * n, 4 * n + 4)]
    <3>1. (16 \div 4) - 1 = 3 OBVIOUS
    <3> QED BY <2>2, <3>1 DEF KeyWords
  <2>4. rkeys = KeyWords(seed) BY <1>8 DEF CtrInit
  <2>5. \A n \in 0 .. 3 : FullSchedule[n] = Slice(seed, 4 * n, 4 * n + 4) BY <1>7 DEF IsSchedule
  <2>6. 4 - 1 = 3 /\ 4 \in 4 .. 44 OBVIOUS
  <2>7. WordsSoFar(4) BY <2>3, <2>4, <2>5, <2>6 DEF WordsSoFar
  <2>8. \E m \in 4 .. 44 : WordsSoFar(m) BY <2>6, <2>7
  <2> QED BY <1>1, <1>3, <1>5, <1>8, <2>8 DEF CtrInv
<1>9. CASE build # "c"
  <2>1. rkeys = <<>> BY <1>9 DEF CtrInit
  <2>2. rkeys = [n \in 0 .. 0 - 1 |-> RoundKey(FullSchedule, n)]
    <3>1. 0 .. 0 - 1 = {} OBVIOUS
    <3> QED BY <2>1, <3>1
  <2>3. (ctr \in {"malloc", "keyexp"} => \E n \in 0 .. rounds : BlocksSoFar(n)) => CtrInv
    BY <1>1, <1>3, <1>5, <1>9 DEF CtrInv
  <2>4. temp0 = RoundKey(FullSchedule, 0)
    <3>1. seed \in SliceOf(16, SUBSET Bits8) BY <1>1, AesCtrAssumption
    <3> QED BY <1>3, <1>7, <3>1, KeyIsRoundKey
  <2>5. BlocksSoFar(0) BY <2>2, <2>4 DEF BlocksSoFar
  <2>6. 0 \in 0 .. rounds BY DEF rounds
  <2>7. \E n \in 0 .. rounds : BlocksSoFar(n) BY <2>5, <2>6
  <2> QED BY <2>3, <2>7
<1> QED BY <1>8, <1>9

\* Eight bytes of counter carry into the upper four after 2^32 blocks, the four bytes of
\* the C build do not: the builds agree on requests of at most 64 GiB.
StreamsFit == \A r \in CtrRequests : r.build # "c" => r.len <= 16 * FourBytes

\* Operators that depend on the call only.
LEMMA SameCall ==
  ASSUME UNCHANGED ctrCall
  PROVE  /\ build' = build /\ seed' = seed /\ outputByteLen' = outputByteLen
         /\ FullSchedule' = FullSchedule /\ rounds' = rounds
         /\ \A c : CountersAt(c)' = CountersAt(c)
<1>1. build' = build /\ seed' = seed /\ outputByteLen' = outputByteLen BY DEF ctrCall
<1>2. FullSchedule' = FullSchedule BY <1>1 DEF FullSchedule
<1>3. rounds' = rounds BY <1>1 DEF rounds
<1>4. ASSUME NEW c PROVE CountersAt(c)' = CountersAt(c)
  BY <1>1 DEF CountersAt, CounterBlock, CounterBytes
<1> QED BY <1>1, <1>2, <1>3, <1>4

\* The keys so far, with nothing done.
LEMMA KeysKept ==
  ASSUME UNCHANGED ctrCall, UNCHANGED rkeys
  PROVE  /\ \A m : WordsSoFar(m)' = WordsSoFar(m)
         /\ temp0' = temp0 => \A n : BlocksSoFar(n)' = BlocksSoFar(n)
         /\ KeysReady' = KeysReady
<1>1. build' = build /\ FullSchedule' = FullSchedule /\ rounds' = rounds BY SameCall
<1>2. ASSUME NEW m PROVE WordsSoFar(m)' = WordsSoFar(m) BY <1>1 DEF WordsSoFar
<1>3. ASSUME temp0' = temp0, NEW n PROVE BlocksSoFar(n)' = BlocksSoFar(n) BY <1>1, <1>3 DEF BlocksSoFar
<1>4. KeysReady' = KeysReady BY <1>1 DEF KeysReady, HasRoundKeys
<1> QED BY <1>2, <1>3, <1>4

\* The counters and the rest to write, with nothing written.
LEMMA NextBlockKept ==
  ASSUME UNCHANGED ctrCall, UNCHANGED <<ivw, outlen>>
  PROVE  \A c : NextBlockIs(c)' = NextBlockIs(c)
  BY SameCall DEF NextBlockIs

\* The schedule has memory, or the process is gone.
LEMMA MallocStep == CtrInv /\ Malloc => CtrInv'
<1> SUFFICES ASSUME CtrInv, Malloc PROVE CtrInv' OBVIOUS
<1>1. /\ UNCHANGED ctrCall /\ UNCHANGED rkeys /\ temp0' = temp0 /\ UNCHANGED <<ivw, outlen>>
      /\ ctr = "malloc" /\ ctr' \in {"keyexp", "gone"}
  BY DEF Malloc
<1>2. \E r \in CtrRequests : build' = r.build /\ seed' = r.key /\ outputByteLen' = r.len
  BY <1>1, SameCall DEF CtrInv
<1>3. IF build' = "c" THEN \E m \in 4 .. 44 : WordsSoFar(m)' ELSE \E n \in 0 .. rounds' : BlocksSoFar(n)'
  <2>1. IF build = "c" THEN \E m \in 4 .. 44 : WordsSoFar(m) ELSE \E n \in 0 .. rounds : BlocksSoFar(n)
    BY <1>1 DEF CtrInv
  <2> QED BY <1>1, <2>1, SameCall, KeysKept
<1>4. \E c \in Nat : NextBlockIs(c)'
  <2>1. \E c \in Nat : NextBlockIs(c) BY <1>1 DEF CtrInv
  <2> QED BY <1>1, <2>1, NextBlockKept
<1> QED BY <1>1, <1>2, <1>3, <1>4 DEF CtrInv

\* br_aes_ct64_keysched appends the next word of the standard's schedule.
LEMMA KeyWordStep == CtrInv /\ KeyWord => CtrInv'
<1> SUFFICES ASSUME CtrInv, KeyWord PROVE CtrInv' OBVIOUS
<1>1. /\ UNCHANGED ctrCall /\ UNCHANGED <<ivw, outlen>>
      /\ ctr = "keyexp" /\ ctr' = "keyexp" /\ build = "c"
      /\ SliceLen(rkeys) < 44 /\ rkeys' = Concat(rkeys, [n \in {0} |-> NextWord(rkeys, 4)])
  BY DEF KeyWord
<1>2. PICK m \in 4 .. 44 : WordsSoFar(m) BY <1>1 DEF CtrInv
<1>3. IsSchedule(seed, FullSchedule) BY CallIs
<1>4. rkeys \in SliceOf(m, AesWords)
  <2>1. \A n \in 0 .. m - 1 : n \in 0 .. 43 OBVIOUS
  <2>2. \A n \in 0 .. m - 1 : FullSchedule[n] \in AesWords
    <3>1. \A n \in 0 .. 43 : FullSchedule[n] \in AesWords BY <1>3 DEF IsSchedule, SliceOf
    <3> QED BY <2>1, <3>1
  <2> QED BY <1>2, <2>2 DEF WordsSoFar, SliceOf
<1>5. m \in 4 .. 43
  <2>1. SliceLen(rkeys) = m
    <3>1. m \in Nat OBVIOUS
    <3> QED BY <1>4, <3>1, LenOfSlice
  <2> QED BY <1>1, <2>1
<1>6. rkeys' = [i \in 0 .. m |-> IF i < m THEN rkeys[i] ELSE NextOf(rkeys, m)]
  BY <1>1, <1>4, <1>5, WordExtends
<1>7. \A i \in 0 .. m - 1 : rkeys[i] = FullSchedule[i] BY <1>2 DEF WordsSoFar
<1>8. NextOf(rkeys, m) = FullSchedule[m]
  <2>1. NextOf(rkeys, m) = NextOf(FullSchedule, m) BY <1>5, <1>7, NextOfPrefix
  <2>2. FullSchedule[m] = NextOf(FullSchedule, m) BY <1>3, <1>5 DEF IsSchedule
  <2> QED BY <2>1, <2>2
<1>9. rkeys' = [i \in 0 .. m |-> FullSchedule[i]]
  <2>1. \A i \in 0 .. m : i < m \/ i = m OBVIOUS
  <2>2. \A i \in 0 .. m : i < m => i \in 0 .. m - 1 OBVIOUS
  <2> QED BY <1>6, <1>7, <1>8, <2>1, <2>2
<1>10. WordsSoFar(m + 1)' /\ m + 1 \in 4 .. 44
  <2>1. m + 1 - 1 = m OBVIOUS
  <2>2. rkeys' = [n \in 0 .. m + 1 - 1 |-> FullSchedule'[n]] BY <1>1, <1>9, <2>1, SameCall
  <2> QED BY <1>5, <2>2 DEF WordsSoFar
<1>11. \E r \in CtrRequests : build' = r.build /\ seed' = r.key /\ outputByteLen' = r.len
  BY <1>1, SameCall DEF CtrInv
<1>12. \E c \in Nat : NextBlockIs(c)'
  <2>1. \E c \in Nat : NextBlockIs(c) BY <1>1 DEF CtrInv
  <2> QED BY <1>1, <2>1, NextBlockKept
<1>13. build' = "c" BY <1>1, SameCall
<1>14. \E j \in 4 .. 44 : WordsSoFar(j)' BY <1>10
<1> QED BY <1>1, <1>11, <1>12, <1>13, <1>14 DEF CtrInv

\* A block more of round keys.
LEMMA BlockAppended ==
  ASSUME NEW n \in Nat, BlocksSoFar(n)
  PROVE  /\ SliceLen(rkeys) = n
         /\ Concat(rkeys, [i \in {0} |-> temp0]) = [r \in 0 .. n |-> RoundKey(FullSchedule, r)]
<1>1. rkeys = [r \in 0 .. n - 1 |-> RoundKey(FullSchedule, r)] /\ temp0 = RoundKey(FullSchedule, n) BY DEF BlocksSoFar
<1>2. DOMAIN rkeys = 0 .. n - 1 /\ rkeys = [i \in DOMAIN rkeys |-> rkeys[i]] BY <1>1
<1>3. SliceLen(rkeys) = n /\ Concat(rkeys, [i \in {0} |-> temp0]) = [i \in 0 .. n |-> IF i < n THEN rkeys[i] ELSE temp0]
  <2> DEFINE one == [i \in {0} |-> temp0]
  <2>1. SliceLen(rkeys) = n BY <1>2, LenByIndices
  <2>2. SliceLen(one) = 1
    <3>1. one \in SliceOf(1, {temp0})
      <4>1. 0 .. 1 - 1 = {0} OBVIOUS
      <4> QED BY <4>1 DEF SliceOf
    <3> QED BY <3>1, LenOfSlice
  <2>3. \A i \in 0 .. n : ~(i < n) => i - n = 0 OBVIOUS
  <2>4. one[0] = temp0 /\ n + 1 - 1 = n OBVIOUS
  <2> HIDE DEF one
  <2>5. Concat(rkeys, one) = [i \in 0 .. n |-> IF i < n THEN rkeys[i] ELSE one[i - n]]
    BY <2>1, <2>2, <2>4 DEF Concat
  <2>6. Concat(rkeys, one) = [i \in 0 .. n |-> IF i < n THEN rkeys[i] ELSE temp0] BY <2>3, <2>4, <2>5
  <2> QED BY <2>1, <2>6 DEF one
<1>4. \A i \in 0 .. n : (i < n => i \in 0 .. n - 1) /\ (~(i < n) => i = n) OBVIOUS
<1>5. \A i \in 0 .. n : (IF i < n THEN rkeys[i] ELSE temp0) = RoundKey(FullSchedule, i) BY <1>1, <1>4
<1> QED BY <1>3, <1>5

\* BLOCK1 makes the next round key of the standard, four words at once.
LEMMA KeyBlockStep == CtrInv /\ KeyBlock => CtrInv'
<1> SUFFICES ASSUME CtrInv, KeyBlock PROVE CtrInv' OBVIOUS
<1> DEFINE imm == Imm[SliceLen(rkeys) + 1]
<1>1. /\ UNCHANGED ctrCall /\ UNCHANGED <<ivw, outlen>>
      /\ ctr = "keyexp" /\ ctr' = "keyexp" /\ build # "c" /\ SliceLen(rkeys) < rounds
      /\ temp0' = BLOCK1(temp0, IF build = "neon" THEN aeskeygenassist(temp0, imm)
                               ELSE _mm_aeskeygenassist_si128(temp0, imm))
      /\ rkeys' = Concat(rkeys, [n \in {0} |-> temp0])
  BY DEF KeyBlock
<1>2. PICK n \in 0 .. rounds : BlocksSoFar(n) BY <1>1 DEF CtrInv
<1>3. IsSchedule(seed, FullSchedule) /\ rounds \in {4, 10} BY CallIs
<1>4. n \in Nat BY <1>3
<1>5. SliceLen(rkeys) = n /\ rkeys' = [r \in 0 .. n |-> RoundKey(FullSchedule, r)] BY <1>1, <1>2, <1>4, BlockAppended
<1>6. n \in 0 .. 9 /\ n + 1 \in 0 .. rounds BY <1>1, <1>3, <1>5
<1>7. temp0' = RoundKey(FullSchedule, n + 1)
  <2>1. temp0 = RoundKey(FullSchedule, n) BY <1>2 DEF BlocksSoFar
  <2>2. imm = Imm[n + 1] BY <1>5
  <2>3. /\ BLOCK1(temp0, _mm_aeskeygenassist_si128(temp0, Imm[n + 1])) = RoundKey(FullSchedule, n + 1)
        /\ BLOCK1(temp0, aeskeygenassist(temp0, Imm[n + 1])) = RoundKey(FullSchedule, n + 1)
    BY <1>3, <1>6, <2>1, NextRoundKey
  <2> HIDE DEF imm
  <2>4. CASE build = "neon" BY <1>1, <2>2, <2>3, <2>4
  <2>5. CASE build # "neon" BY <1>1, <2>2, <2>3, <2>5
  <2> QED BY <2>4, <2>5
<1>8. BlocksSoFar(n + 1)'
  <2>1. n + 1 - 1 = n BY <1>4
  <2>2. FullSchedule' = FullSchedule BY <1>1, SameCall
  <2>3. rkeys' = [r \in 0 .. n + 1 - 1 |-> RoundKey(FullSchedule', r)] /\ temp0' = RoundKey(FullSchedule', n + 1)
    BY <1>5, <1>7, <2>1, <2>2
  <2> QED BY <2>3 DEF BlocksSoFar
<1>9. \E r \in CtrRequests : build' = r.build /\ seed' = r.key /\ outputByteLen' = r.len
  BY <1>1, SameCall DEF CtrInv
<1>10. \E c \in Nat : NextBlockIs(c)'
  <2>1. \E c \in Nat : NextBlockIs(c) BY <1>1 DEF CtrInv
  <2> QED BY <1>1, <2>1, NextBlockKept
<1>11. build' # "c" /\ rounds' = rounds BY <1>1, SameCall
<1>12. \E j \in 0 .. rounds' : BlocksSoFar(j)' BY <1>6, <1>8, <1>11
<1> QED BY <1>1, <1>9, <1>10, <1>11, <1>12 DEF CtrInv

\* After the last round key every build has its whole schedule.
LEMMA LastKeyStep == CtrInv /\ LastKey => CtrInv'
<1> SUFFICES ASSUME CtrInv, LastKey PROVE CtrInv' OBVIOUS
<1>1. /\ UNCHANGED ctrCall /\ UNCHANGED <<ivw, outlen>> /\ ctr = "keyexp" /\ ctr' = "ctr"
      /\ SliceLen(rkeys) = IF build = "c" THEN 44 ELSE rounds
      /\ rkeys' = IF build = "c" THEN rkeys ELSE Concat(rkeys, [n \in {0} |-> temp0])
  BY DEF LastKey
<1>2. IsSchedule(seed, FullSchedule) /\ rounds \in {4, 10} BY CallIs
<1>3. build' = build /\ rounds' = rounds /\ FullSchedule' = FullSchedule BY <1>1, SameCall
<1>4. KeysReady'
  <2>1. CASE build = "c"
    <3>1. PICK m \in 4 .. 44 : WordsSoFar(m) BY <1>1, <2>1 DEF CtrInv
    <3>2. DOMAIN rkeys = 0 .. m - 1 /\ rkeys = [i \in DOMAIN rkeys |-> rkeys[i]] /\ m \in Nat BY <3>1 DEF WordsSoFar
    <3>3. SliceLen(rkeys) = m BY <3>2, LenByIndices
    <3>4. m = 44 BY <1>1, <2>1, <3>3
    <3>5. rkeys = [i \in 0 .. 43 |-> FullSchedule[i]]
      <4>1. 44 - 1 = 43 OBVIOUS
      <4> QED BY <3>1, <3>4, <4>1 DEF WordsSoFar
    <3>6. FullSchedule = [i \in 0 .. 43 |-> FullSchedule[i]]
      <4>1. 44 - 1 = 43 OBVIOUS
      <4> QED BY <1>2, <4>1 DEF IsSchedule, SliceOf
    <3> QED BY <1>1, <1>3, <2>1, <3>5, <3>6 DEF KeysReady
  <2>2. CASE build # "c"
    <3>1. PICK n \in 0 .. rounds : BlocksSoFar(n) BY <1>1, <2>2 DEF CtrInv
    <3>2. n \in Nat BY <1>2
    <3>3. SliceLen(rkeys) = n /\ Concat(rkeys, [i \in {0} |-> temp0]) = [r \in 0 .. n |-> RoundKey(FullSchedule, r)]
      BY <3>1, <3>2, BlockAppended
    <3>4. rkeys' = [r \in 0 .. rounds |-> RoundKey(FullSchedule, r)] BY <1>1, <2>2, <3>3
    <3> QED BY <1>3, <2>2, <3>4 DEF KeysReady, HasRoundKeys
  <2> QED BY <2>1, <2>2
<1>5. \E r \in CtrRequests : build' = r.build /\ seed' = r.key /\ outputByteLen' = r.len
  BY <1>1, SameCall DEF CtrInv
<1>6. \E c \in Nat : NextBlockIs(c)'
  <2>1. \E c \in Nat : NextBlockIs(c) BY <1>1 DEF CtrInv
  <2> QED BY <1>1, <2>1, NextBlockKept
<1> QED BY <1>1, <1>4, <1>5, <1>6 DEF CtrInv

\* Counters counted on by n are those of n blocks later.
LEMMA CountersCounted ==
  ASSUME NEW c \in Nat, NEW n \in Nat, ivw = CountersAt(c), Count(n)
  PROVE  ivw' = CountersAt(c + n)
<1> DEFINE K == IF build = "c" THEN 0 .. 3 ELSE {0}
<1>1. ivw = [k \in K |-> CounterBlock(c + k)] BY DEF CountersAt
<1>2. ASSUME NEW k \in K PROVE inc_be(ivw[k], n) = CounterBlock(c + n + k)
  <2>1. k \in Nat OBVIOUS
  <2>2. c + k \in Nat /\ c + k + n = c + n + k BY <2>1
  <2>3. inc_be(CounterBlock(c + k), n) = CounterBlock(c + k + n) BY <2>2, CountsOn
  <2>4. ivw[k] = CounterBlock(c + k) BY <1>1
  <2> QED BY <2>2, <2>3, <2>4
<1> HIDE DEF K
<1>3. DOMAIN ivw = K BY <1>1
<1>4. ivw' = [k \in K |-> inc_be(ivw[k], n)] BY <1>3 DEF Count
<1>5. ivw' = [k \in K |-> CounterBlock(c + n + k)] BY <1>2, <1>4
<1> QED BY <1>5 DEF CountersAt, K

\* The length of a request a vector build gets.
LEMMA LengthFits ==
  ASSUME StreamsFit, CtrInv
  PROVE  build # "c" => outputByteLen <= 16 * FourBytes
  BY DEF StreamsFit, CtrInv

\* What an iteration makes of the blocks, as the next bytes of the standard.
LEMMA BlocksAreStandard ==
  ASSUME StreamsFit, CtrInv, ctr = "ctr", NEW n \in {1, 4}, NEW len \in Nat \ {0},
         len <= outlen, len <= 16 * n
  PROVE  /\ outputByteLen - outlen \in Nat
         /\ StandardStream(outputByteLen - outlen, len) = Slice(Stream(n), 0, len)
<1>1. KeysReady BY DEF CtrInv
<1>2. PICK c \in Nat : NextBlockIs(c) BY DEF CtrInv
<1>3. /\ ivw = CountersAt(c) /\ outlen \in Nat /\ outputByteLen = outlen + 16 * c
      /\ outputByteLen - outlen = 16 * c
  BY <1>2 DEF NextBlockIs
<1>4. build # "c" => 16 * c + len <= 16 * FourBytes
  <2>1. FourBytes \in Nat BY BytesNat
  <2> QED BY <1>3, <2>1, LengthFits
<1>5. Stream(n) = StreamBytes(c, 16 * n) BY <1>1, <1>3, StreamFrom
<1>6. StandardStream(16 * c, len) = StreamBytes(c, len) BY <1>4, StandardFrom
<1>7. Slice(Stream(n), 0, len) = [i \in 0 .. len - 1 |-> Stream(n)[0 + i]]
  <2>1. len - 0 - 1 = len - 1 OBVIOUS
  <2> QED BY <2>1 DEF Slice
<1>8. ASSUME NEW i \in 0 .. len - 1
      PROVE  Stream(n)[0 + i] = StandardCipher(FullSchedule, rounds, CounterBlock(c + (i \div 16)))[i % 16]
  <2>1. 0 + i = i /\ i \in 0 .. 16 * n - 1 OBVIOUS
  <2> QED BY <1>5, <2>1 DEF StreamBytes
<1>9. Slice(Stream(n), 0, len) = StreamBytes(c, len) BY <1>7, <1>8 DEF StreamBytes
<1>10. StandardStream(outputByteLen - outlen, len) = StandardStream(16 * c, len) BY <1>3
<1> QED BY <1>3, <1>6, <1>9, <1>10

\* All of the blocks.
LEMMA WholeStream ==
  ASSUME NEW n \in {1, 4}
  PROVE  Slice(Stream(n), 0, 16 * n) = Stream(n)
<1>1. PICK g : Stream(n) = [i \in 0 .. 16 * n - 1 |-> g[i]]
  <2>1. \E g : Stream(n) = [i \in 0 .. 16 * n - 1 |-> g[i]]
    <3>1. Stream(n) = [i \in 0 .. 16 * n - 1 |-> Stream(n)[i]] BY DEF Stream
    <3> QED BY <3>1
  <2> QED BY <2>1
<1>2. 16 * n - 0 - 1 = 16 * n - 1 /\ \A i \in 0 .. 16 * n - 1 : 0 + i = i OBVIOUS
<1> QED BY <1>1, <1>2 DEF Slice

\* An iteration of the loops over the output.
LEMMA WriteStep ==
  ASSUME StreamsFit, CtrInv, ctr = "ctr", NEW n \in {1, 4}, 16 * n <= outlen, Write(n)
  PROVE  CtrInv' /\ output' = StandardStream(outputByteLen - outlen, outlen - outlen')
<1>1. /\ output' = Stream(n) /\ outlen' = outlen - 16 * n /\ Count(n)
      /\ UNCHANGED ctrCall /\ rkeys' = rkeys /\ ctr' = ctr
  BY DEF Write
<1>2. PICK c \in Nat : NextBlockIs(c) BY DEF CtrInv
<1>3. ivw = CountersAt(c) /\ outlen \in Nat /\ outputByteLen = outlen + 16 * c BY <1>2 DEF NextBlockIs
<1>4. output' = StandardStream(outputByteLen - outlen, outlen - outlen')
  <2>1. outlen - outlen' = 16 * n /\ 16 * n \in Nat \ {0} BY <1>1, <1>3
  <2>2. StandardStream(outputByteLen - outlen, 16 * n) = Slice(Stream(n), 0, 16 * n)
    BY <2>1, BlocksAreStandard
  <2> QED BY <1>1, <2>1, <2>2, WholeStream
<1>5. \E k \in Nat : NextBlockIs(k)'
  <2>1. n \in Nat /\ c + n \in Nat OBVIOUS
  <2>2. ivw' = CountersAt(c + n) BY <1>1, <1>3, <2>1, CountersCounted
  <2>3. CountersAt(c + n)' = CountersAt(c + n) /\ outputByteLen' = outputByteLen BY <1>1, SameCall
  <2>4. outlen' \in Nat /\ outputByteLen' = outlen' + 16 * (c + n) BY <1>1, <1>3, <2>3
  <2>5. NextBlockIs(c + n)' BY <2>2, <2>3, <2>4 DEF NextBlockIs
  <2> QED BY <2>1, <2>5
<1>6. KeysReady'
  <2>1. KeysReady BY DEF CtrInv
  <2> QED BY <1>1, <2>1, KeysKept
<1>7. \E r \in CtrRequests : build' = r.build /\ seed' = r.key /\ outputByteLen' = r.len
  BY <1>1, SameCall DEF CtrInv
<1> QED BY <1>1, <1>4, <1>5, <1>6, <1>7 DEF CtrInv

\* The rest of the output, less than a batch of the build.
LEMMA RestStep ==
  ASSUME StreamsFit, CtrInv, Rest
  PROVE  CtrInv' /\ (outlen' # outlen => output' = StandardStream(outputByteLen - outlen, outlen - outlen'))
<1> DEFINE n == IF build = "c" THEN 4 ELSE 1
<1>1. /\ ctr = "ctr" /\ ctr' = "returned" /\ outlen' = 0 /\ UNCHANGED ctrCall
      /\ IF build = "c" THEN outlen <= 64 ELSE outlen < 16
      /\ output' = IF outlen = 0 THEN <<>> ELSE Slice(Stream(n), 0, outlen)
  BY DEF Rest
<1>2. CtrInv'
  <2>1. \E r \in CtrRequests : build' = r.build /\ seed' = r.key /\ outputByteLen' = r.len
    BY <1>1, SameCall DEF CtrInv
  <2> QED BY <1>1, <2>1 DEF CtrInv
<1>3. ASSUME outlen' # outlen PROVE output' = StandardStream(outputByteLen - outlen, outlen - outlen')
  <2>1. outlen \in Nat BY <1>1 DEF CtrInv, NextBlockIs
  <2>2. outlen \in Nat \ {0} /\ outlen - outlen' = outlen BY <1>1, <1>3, <2>1
  <2>3. n \in {1, 4} /\ outlen <= 16 * n BY <1>1, <2>1
  <2> HIDE DEF n
  <2>4. output' = Slice(Stream(n), 0, outlen) BY <1>1, <2>2
  <2>5. StandardStream(outputByteLen - outlen, outlen) = Slice(Stream(n), 0, outlen)
    BY <1>1, <2>1, <2>2, <2>3, BlocksAreStandard
  <2> QED BY <2>2, <2>4, <2>5
<1> QED BY <1>2, <1>3

\* Nothing happens.
LEMMA CtrStutters ==
  ASSUME CtrInv, UNCHANGED ctrVars
  PROVE  CtrInv' /\ outlen' = outlen
<1>1. /\ UNCHANGED ctrCall /\ UNCHANGED rkeys /\ temp0' = temp0 /\ UNCHANGED <<ivw, outlen>> /\ ctr' = ctr
  BY DEF ctrVars
<1>2. build' = build /\ rounds' = rounds BY <1>1, SameCall
<1>3. \E r \in CtrRequests : build' = r.build /\ seed' = r.key /\ outputByteLen' = r.len
  BY <1>1, SameCall DEF CtrInv
<1>4. ctr' \in {"malloc", "keyexp"} => IF build' = "c" THEN \E m \in 4 .. 44 : WordsSoFar(m)'
                                                       ELSE \E n \in 0 .. rounds' : BlocksSoFar(n)'
  <2>1. ctr \in {"malloc", "keyexp"} => IF build = "c" THEN \E m \in 4 .. 44 : WordsSoFar(m)
                                                       ELSE \E n \in 0 .. rounds : BlocksSoFar(n)
    BY DEF CtrInv
  <2> QED BY <1>1, <1>2, <2>1, KeysKept
<1>5. ctr' = "ctr" => KeysReady'
  <2>1. ctr = "ctr" => KeysReady BY DEF CtrInv
  <2> QED BY <1>1, <2>1, KeysKept
<1>6. ctr' \in {"malloc", "keyexp", "ctr"} => \E c \in Nat : NextBlockIs(c)'
  <2>1. ctr \in {"malloc", "keyexp", "ctr"} => \E c \in Nat : NextBlockIs(c) BY DEF CtrInv
  <2> QED BY <1>1, <2>1, NextBlockKept
<1>7. ctr' \in {"malloc", "keyexp", "ctr", "gone", "returned"} BY <1>1 DEF CtrInv
<1> QED BY <1>1, <1>3, <1>4, <1>5, <1>6, <1>7 DEF CtrInv

\* A step of AES_128_CTR.
LEMMA CtrStep ==
  ASSUME StreamsFit, CtrInv, [CtrNext]_ctrVars
  PROVE  CtrInv' /\ (outlen' # outlen => output' = StandardStream(outputByteLen - outlen, outlen - outlen'))
<1>1. CASE Malloc BY <1>1, MallocStep DEF Malloc
<1>2. CASE KeyWord BY <1>2, KeyWordStep DEF KeyWord
<1>3. CASE KeyBlock BY <1>3, KeyBlockStep DEF KeyBlock
<1>4. CASE LastKey BY <1>4, LastKeyStep DEF LastKey
<1>5. CASE FourBlocks
  <2>1. ctr = "ctr" /\ outlen >= 64 /\ Write(4)
    <3>1. outlen \in Nat BY <1>5 DEF FourBlocks, CtrInv, NextBlockIs
    <3> QED BY <1>5, <3>1 DEF FourBlocks
  <2>2. 16 * 4 <= outlen
    <3>1. outlen \in Nat BY <2>1 DEF CtrInv, NextBlockIs
    <3> QED BY <2>1, <3>1
  <2>3. 4 \in {1, 4} OBVIOUS
  <2> QED BY <2>1, <2>2, <2>3, WriteStep
<1>6. CASE OneBlock
  <2>1. ctr = "ctr" /\ outlen >= 16 /\ Write(1) BY <1>6 DEF OneBlock
  <2>2. 16 * 1 <= outlen
    <3>1. outlen \in Nat BY <2>1 DEF CtrInv, NextBlockIs
    <3> QED BY <2>1, <3>1
  <2>3. 1 \in {1, 4} OBVIOUS
  <2> QED BY <2>1, <2>2, <2>3, WriteStep
<1>7. CASE Rest BY <1>7, RestStep
<1>8. CASE UNCHANGED ctrVars BY <1>8, CtrStutters
<1> QED BY <1>1, <1>2, <1>3, <1>4, <1>5, <1>6, <1>7, <1>8 DEF CtrNext

\* A process that makes one of the two calls runs AES_128_CTR or leaves it alone.
LEMMA ProcessCtrSteps == [AES_256_ECB \/ AES_128_CTR]_<<called, ecbVars, ctrVars>> => [CtrNext]_ctrVars
  BY DEF AES_256_ECB, AES_128_CTR

\* The invariant of AES_128_CTR holds in every process: the schedule so far is the
\* standard's, and what is written ends with a block, the counters being the next ones.
THEOREM CtrInvariant == StreamsFit => (Process => []CtrInv)
<1> SUFFICES ASSUME StreamsFit PROVE Process => []CtrInv OBVIOUS
<1>1. ProcessInit => CtrInv
  BY InitCtr DEF ProcessInit
<1>2. CtrInv /\ [AES_256_ECB \/ AES_128_CTR]_<<called, ecbVars, ctrVars>> => CtrInv'
  BY ProcessCtrSteps, CtrStep
<1> QED BY <1>1, <1>2, PTL DEF Process

\* For every key, build and length up to 64 GiB (any length in the C build), each
\* iteration writes the next bytes of the key stream the C build counts out: the word-wise
\* and block-wise schedules, the instructions, the batches and the counters agree.
THEOREM StreamIsStandardHolds == StreamsFit => (Process => StreamIsStandard)
<1> SUFFICES ASSUME StreamsFit PROVE Process => StreamIsStandard OBVIOUS
<1>1. CtrInv /\ [AES_256_ECB \/ AES_128_CTR]_<<called, ecbVars, ctrVars>>
        => [outlen' # outlen => output' = StandardStream(outputByteLen - outlen, outlen - outlen')]_ctrVars
  BY ProcessCtrSteps, CtrStep
<1>2. Process => []CtrInv BY CtrInvariant
<1> QED BY <1>1, <1>2, PTL DEF Process, StreamIsStandard
=============================================================================
