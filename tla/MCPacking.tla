----------------------------- MODULE MCPacking -----------------------------
(***************************************************************************)
(* A process that fills the tables of the field, as InitMayo does before   *)
(* it returns, and then packs and unpacks: every vector of at most three   *)
(* nibbles, and lists of two or four matrices of up to three rows and      *)
(* columns with entries that differ.                                       *)
(***************************************************************************)
EXTENDS Packing

MCVectors == UNION {SliceOf(len, 0 .. 15) : len \in 0 .. 3}

MCShapes ==
  {s \in [m : {2, 4}, r : 1 .. 3, c : 1 .. 3, isUpperTriangular : BOOLEAN] :
     s.isUpperTriangular => s.r = s.c}

MCLists(s) ==
  {[k \in 0 .. s.m - 1 |-> [i \in 0 .. s.r - 1 |-> [j \in 0 .. s.c - 1 |->
      IF s.isUpperTriangular /\ i > j THEN 0 ELSE (seed + 5 * k + 9 * i + 3 * j) % 16]]]
   : seed \in 0 .. 15}

VARIABLES mulTable, invTable, row, col
tables == <<mulTable, invTable, row, col>>
Tables == INSTANCE FieldTables

MCInit == PackInit /\ Tables!Init
MCNext == \/ Tables!FillEntry /\ UNCHANGED packVars
          \/ Tables!Done /\ PackNext /\ UNCHANGED tables
MCSpec == MCInit /\ [][MCNext]_<<packVars, tables>>
----------------------------------------------------------------------------
\* gf16Mul multiplies without carries: every entry filled so far is the product.  The
\* tables stay as they are once something is packed.
EntriesAreProducts == stage = "start" => Tables!EntriesAreProducts

\* The filled tables are those of a field.
TablesAreField == stage = "start" => Tables!TablesAreField

\* No element gets a second inverse.
InverseWrittenOnce == Tables!InverseWrittenOnce
============================================================================
