------------------------------ MODULE Packing ------------------------------
(***************************************************************************)
(* The use the rest of package mayo makes of src/mayo/encode.go: what one  *)
(* operation packs, a later one unpacks with the sizes it knows and not    *)
(* with any that were stored.  CompactKeyGen packs P3 for ExpandPK and     *)
(* Verify, ExpandSK packs L for Sign, and Sign packs s for Verify.         *)
(***************************************************************************)
EXTENDS Encode, Parameters

CONSTANTS
  Vectors,     \* slices of nibbles
  Shapes,      \* records m, r, c, isUpperTriangular
  Lists(_)     \* lists of m matrices for a shape, zero below an upper triangle

Nibble == 0 .. 15

\* As the callers pass them: m is even in every parameter set, the triangular
\* matrices are square, and upper leaves nothing below the diagonal.
ASSUME PackingAssumption ==
  /\ \A v \in Vectors : SliceLen(v) \in Nat /\ v \in SliceOf(SliceLen(v), Nibble)
  /\ \A s \in Shapes :
       /\ s.m \in Nat /\ s.r \in Nat /\ s.c \in Nat /\ s.isUpperTriangular \in BOOLEAN
       /\ s.m % 2 = 0
       /\ s.isUpperTriangular => s.r = s.c
       /\ \A matrices \in Lists(s) :
            /\ matrices \in SliceOf(s.m, SliceOf(s.r, SliceOf(s.c, Nibble)))
            /\ s.isUpperTriangular =>
                 \A k \in 0 .. s.m - 1, i \in 0 .. s.r - 1, j \in 0 .. s.c - 1 :
                   i > j => matrices[k][i][j] = 0

VARIABLES kind, shape, given, packed, unpacked, stage

packVars == <<kind, shape, given, packed, unpacked, stage>>

PackInit ==
  /\ kind = "none" /\ shape = <<>>
  /\ given = <<>> /\ packed = <<>> /\ unpacked = <<>>
  /\ stage = "start"

PackVec ==
  /\ stage = "start"
  /\ \E v \in Vectors : given' = v /\ packed' = encodeVec(v)
  /\ kind' = "vec" /\ stage' = "packed"
  /\ UNCHANGED <<shape, unpacked>>

UnpackVec ==
  /\ stage = "packed" /\ kind = "vec"
  /\ unpacked' = decodeVec(SliceLen(given), packed)
  /\ stage' = "unpacked"
  /\ UNCHANGED <<kind, shape, given, packed>>

PackMatrices ==
  /\ stage = "start"
  /\ \E s \in Shapes : \E matrices \in Lists(s) :
       /\ shape' = s /\ given' = matrices
       /\ packed' = encodeMatrices(s.r, s.c, matrices, s.isUpperTriangular)
  /\ kind' = "matrices" /\ stage' = "packed"
  /\ UNCHANGED unpacked

UnpackMatrices ==
  /\ stage = "packed" /\ kind = "matrices"
  /\ unpacked' = decodeMatrices(shape.m, shape.r, shape.c, packed, shape.isUpperTriangular)
  /\ stage' = "unpacked"
  /\ UNCHANGED <<kind, shape, given, packed>>

PackNext == PackVec \/ UnpackVec \/ PackMatrices \/ UnpackMatrices

PackSpec == PackInit /\ [][PackNext]_packVars
----------------------------------------------------------------------------
\* Nothing is lost: an odd nibble at the end, the order of the m elements of a
\* position, the positions an upper triangle leaves out.
RoundTrip == stage = "unpacked" => unpacked = given

\* A packed list has the size initMayo derives for it, so that the copies into
\* the keys, which would cut it off silently, leave nothing out.
SizeAsDerived ==
  stage # "start" =>
    IF kind = "vec" THEN SliceLen(packed) = HalfUp(SliceLen(given))
    ELSE LET entries == IF shape.isUpperTriangular THEN ((shape.r + 1) * shape.r) \div 2
                                                   ELSE shape.r * shape.c
         IN SliceLen(packed) = (shape.m * entries) \div 2
============================================================================
