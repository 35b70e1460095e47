------------------------------ MODULE Encode ------------------------------
(***************************************************************************)
(* src/mayo/encode.go: vectors of GF(16) elements packed two to a byte,    *)
(* and lists of m matrices packed entry by entry, the m elements of one    *)
(* position together.                                                      *)
(***************************************************************************)
EXTENDS Slices

\* Mutant: the nibbles of a byte exchanged.
encodeVecSwapped(bytes) ==
  LET n == SliceLen(bytes)
  IN [p \in 0 .. ((n + 1) \div 2) - 1 |->
        IF 2 * p + 1 < n THEN ((bytes[2 * p] * 16) % 256) + (bytes[2 * p + 1] % 16)
                         ELSE bytes[2 * p]]

\* bytes[i+1]<<4 | bytes[i]&0xf; the last byte of an odd slice is taken whole.
encodeVec(bytes) ==
  LET n == SliceLen(bytes)
  IN [p \in 0 .. ((n + 1) \div 2) - 1 |->
        IF 2 * p + 1 < n THEN ((bytes[2 * p + 1] * 16) % 256) + (bytes[2 * p] % 16)
                         ELSE bytes[2 * p]]

\* Mutant: a vector of odd length ends with a high nibble.
decodeVecHighLast(n, byteString) ==
  [i \in 0 .. n - 1 |-> IF i % 2 = 0 /\ i # n - 1 THEN byteString[i \div 2] % 16
                                                 ELSE byteString[i \div 2] \div 16]

decodeVec(n, byteString) ==
  [i \in 0 .. n - 1 |-> IF i % 2 = 0 THEN byteString[i \div 2] % 16
                                     ELSE byteString[i \div 2] \div 16]

decodeMatrix(rows, columns, bytes) ==
  LET flatDecodedMatrix == decodeVec(rows * columns, bytes)
  IN [i \in 0 .. rows - 1 |-> Slice(flatDecodedMatrix, i * columns, (i + 1) * columns)]
----------------------------------------------------------------------------
(* The two nested loops over the positions of a matrix. *)

\* The positions the loops visit.
Positions(r, c, isUpperTriangular) ==
  {p \in (0 .. r - 1) \X (0 .. c - 1) : p[1] <= p[2] \/ ~isUpperTriangular}

\* How many positions the loops have visited before they come to p.
Rank(p, r, c, isUpperTriangular) ==
  Cardinality({q \in Positions(r, c, isUpperTriangular) :
                 q[1] < p[1] \/ (q[1] = p[1] /\ q[2] < p[2])})

decodeMatrices(m, r, c, byteString, isUpperTriangular) ==
  LET encodedVecLength == m \div 2
      visited == Positions(r, c, isUpperTriangular)
      vecs == [p \in visited |->
                 LET currentIndex == Rank(p, r, c, isUpperTriangular) * encodedVecLength
                 IN decodeVec(m, Slice(byteString, currentIndex, currentIndex + encodedVecLength))]
  IN [k \in 0 .. m - 1 |-> [i \in 0 .. r - 1 |-> [j \in 0 .. c - 1 |->
        IF <<i, j>> \in visited THEN vecs[<<i, j>>][k] ELSE 0]]]

\* Mutant: the positions under the diagonal are packed as well.
encodeMatricesAll(r, c, matrices, isUpperTriangular) ==
  LET m == SliceLen(matrices)
      width == (m + 1) \div 2
      visited == Positions(r, c, FALSE)
      vecs == [p \in visited |-> encodeVec([k \in 0 .. m - 1 |-> matrices[k][p[1]][p[2]]])]
      at == [n \in 0 .. Cardinality(visited) - 1 |->
               CHOOSE p \in visited : Rank(p, r, c, FALSE) = n]
  IN [b \in 0 .. Cardinality(visited) * width - 1 |-> vecs[at[b \div width]][b % width]]

encodeMatrices(r, c, matrices, isUpperTriangular) ==
  LET m == SliceLen(matrices)
      width == (m + 1) \div 2
      visited == Positions(r, c, isUpperTriangular)
      vecs == [p \in visited |-> encodeVec([k \in 0 .. m - 1 |-> matrices[k][p[1]][p[2]]])]
      at == [n \in 0 .. Cardinality(visited) - 1 |->
               CHOOSE p \in visited : Rank(p, r, c, isUpperTriangular) = n]
  IN [b \in 0 .. Cardinality(visited) * width - 1 |-> vecs[at[b \div width]][b % width]]
============================================================================
