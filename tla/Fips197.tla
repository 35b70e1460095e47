------------------------------ MODULE Fips197 ------------------------------
(***************************************************************************)
(* The operations of AES, which src/rand/aes_c.c is to compute, as the     *)
(* standard has them: on bytes.  A byte is the set of the exponents of a   *)
(* polynomial over GF(2), taken modulo x^8 + x^4 + x^3 + x + 1.  Byte n of *)
(* a block is in row n % 4 and column n \div 4.                            *)
(***************************************************************************)
EXTENDS Words

Times_x(a) == {i + 1 : i \in a \ {7}} ++ (IF 7 \in a THEN {0, 1, 3, 4} ELSE {})

Times(a, b) ==
  LET xa[i \in Bits8] == IF i = 0 THEN a ELSE Times_x(xa[i - 1])
      terms == xa @@ <<>>
  IN {j \in Bits8 : Cardinality({i \in b : j \in terms[i]}) % 2 = 1}

FieldInverse(a) == IF a = {} THEN {} ELSE CHOOSE b \in SUBSET Bits8 : Times(a, b) = {0}

\* (@@ <<>> makes TLC tabulate the function once.)
SubByte ==
  [a \in SUBSET Bits8 |->
     LET b == FieldInverse(a)
     IN {0, 1, 5, 6} ++ (b ++ (Rotr(b, 4, 8) ++ (Rotr(b, 5, 8) ++ (Rotr(b, 6, 8) ++ Rotr(b, 7, 8)))))] @@ <<>>

\* The powers of x.
PowerOf_x[n \in 0 .. 9] == IF n = 0 THEN {0} ELSE Times_x(PowerOf_x[n - 1])

Rounds(k) == 6 + (SliceLen(k) \div 4)

\* The words of a key, each a slice of four bytes, and word i of its schedule.
KeyWords(k) == [n \in 0 .. (SliceLen(k) \div 4) - 1 |-> Slice(k, 4 * n, 4 * n + 4)]

NextWord(w, size) ==
  LET i == SliceLen(w)
      t == w[i - 1]
      mixed ==
        IF i % size = 0
        THEN [b \in 0 .. 3 |-> SubByte[t[(b + 1) % 4]]
                                 ++ (IF b = 0 THEN PowerOf_x[(i \div size) - 1] ELSE {})]
        ELSE IF size > 6 /\ i % size = 4 THEN [b \in 0 .. 3 |-> SubByte[t[b]]]
        ELSE t
  IN XorWords(w[i - size], mixed)

AddRoundKey(s, w, r) == [n \in 0 .. 15 |-> s[n] ++ w[4 * r + (n \div 4)][n % 4]]
SubBytes(s)  == [n \in 0 .. 15 |-> SubByte[s[n]]]
ShiftRows(s) == [n \in 0 .. 15 |-> s[(n % 4) + 4 * (((n \div 4) + (n % 4)) % 4)]]
MixColumns(s) ==
  [n \in 0 .. 15 |->
     LET At(d) == s[4 * (n \div 4) + ((n + d) % 4)]
     IN Times_x(At(0) ++ At(1)) ++ (At(1) ++ (At(2) ++ At(3)))]
============================================================================
