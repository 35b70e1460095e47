------------------------------ MODULE Slices ------------------------------
(***************************************************************************)
(* Go slices: a slice of length n is a function on 0 .. n-1.  An index out *)
(* of range, which panics in Go, is an application outside the domain.     *)
(***************************************************************************)
EXTENDS Integers, FiniteSets, Functions

SliceOf(n, S) == [0 .. n - 1 -> S]

SliceLen(s) == Cardinality(DOMAIN s)

\* s[from:to]
Slice(s, from, to) == [i \in 0 .. to - from - 1 |-> s[from + i]]

\* append(s, t...)
Concat(s, t) ==
  LET n == SliceLen(s)
  IN [i \in 0 .. n + SliceLen(t) - 1 |-> IF i < n THEN s[i] ELSE t[i - n]]

\* copy(dst[at:], src) for a dst with room for at least part of src.
CopyAt(dst, at, src) ==
  [i \in DOMAIN dst |-> IF i - at \in DOMAIN src THEN src[i - at] ELSE dst[i]]

Bit(a, i) == (a \div 2^i) % 2

\* The ^ of two bytes, and of two slices of the same length.
XorByte(a, b) == SumFunction([i \in 0 .. 7 |-> 2^i * ((Bit(a, i) + Bit(b, i)) % 2)])
XorSlices(s, t) == [i \in DOMAIN s |-> XorByte(s[i], t[i])]

Zeros(n) == [i \in 0 .. n - 1 |-> 0]

\* The number with the given digits, the most significant one first.
Number(base, digits) ==
  LET upTo[i \in 0 .. SliceLen(digits)] ==
        IF i = 0 THEN 0 ELSE (base * upTo[i - 1]) + digits[i - 1]
  IN upTo[SliceLen(digits)]
============================================================================
