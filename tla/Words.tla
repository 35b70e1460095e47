------------------------------- MODULE Words -------------------------------
(***************************************************************************)
(* The bytes, uint32_t and uint64_t of src/rand/aes_c.c.  A word is the    *)
(* set of the positions of its one bits: & and | are \cap and \cup, ^ is   *)
(* the symmetric difference, and a mask is a set of positions.             *)
(***************************************************************************)
EXTENDS Slices, TLC

Bits8  == 0 .. 7
Bits32 == 0 .. 31
Bits64 == 0 .. 63

x ++ y == (x \ y) \cup (y \ x)
Not(x) == Bits64 \ x

XorWords(s, t) == [n \in DOMAIN s |-> s[n] ++ t[n]]

\* x << n and x >> n of a uint64_t.
Shl(x, n) == {i + n : i \in {j \in x : j + n \in Bits64}}
Shr(x, n) == {i - n : i \in {j \in x : j >= n}}

\* (x >> n) | (x << (width - n)) of a word of that width.
Rotr(x, n, width) == {(i + width - n) % width : i \in x}

\* The masks 0x..0F0F, 0x..00FF00FF, ...: n bits on, n bits off.
Alternate == [n \in {1, 2, 4, 8, 16} |-> {i \in Bits64 : (i \div n) % 2 = 0}]
\* The masks 0x11..11, 0x22..22, 0x44..44, 0x88..88.
Every4th == [v \in 0 .. 3 |-> {i \in Bits64 : i % 4 = v}]

\* f itself.  The comparison makes TLC compute the values of a function once, and not
\* at every use.
Tabulated(f) == CHOOSE g \in {f} : g = f

\* Bytes as words and back, the least significant byte first.
br_range_dec32le(num, src) ==
  [n \in 0 .. num - 1 |-> UNION {{8 * b + i : i \in src[4 * n + b]} : b \in 0 .. 3}]

br_range_enc32le(v, num) ==
  [m \in 0 .. 4 * num - 1 |-> {i \in Bits8 : 8 * (m % 4) + i \in v[m \div 4]}]
============================================================================
