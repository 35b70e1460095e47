---------------------------- MODULE FieldTables ----------------------------
(***************************************************************************)
(* generateMulAndInvTable of src/field/field.go: how InitField fills the   *)
(* two tables through which every later operation multiplies and inverts.  *)
(* One action is one iteration of the inner loop, with the allocation of   *)
(* the row when it starts one.                                             *)
(***************************************************************************)
EXTENDS GF16

VARIABLES
  mulTable,    \* rows allocated so far, each a function on Gf16
  invTable,
  row, col     \* i and j of the two loops

vars == <<mulTable, invTable, row, col>>

ZeroRow == [b \in Gf16 |-> 0]

Init ==
  /\ mulTable = <<>>
  /\ invTable = ZeroRow
  /\ row = 0 /\ col = 0

\* The entry at (row, col), in a fresh row when col = 0.
Filled(p) ==
  LET started == IF col = 0 THEN (row :> ZeroRow) @@ mulTable ELSE mulTable
  IN [started EXCEPT ![row][col] = p]

\* Mutant: any odd product is taken for 1.
RecordInverseOdd(p) ==
  invTable' = IF p % 2 = 1 THEN [invTable EXCEPT ![row] = col] ELSE invTable

RecordInverse(p) ==
  invTable' = IF p = 1 THEN [invTable EXCEPT ![row] = col] ELSE invTable

Advance ==
  IF col < 15 THEN col' = col + 1 /\ UNCHANGED row
              ELSE col' = 0 /\ row' = row + 1

FillEntry ==
  /\ row < 16
  /\ LET p == gf16Mul(row, col)
     IN mulTable' = Filled(p) /\ RecordInverse(p)
  /\ Advance

Spec == Init /\ [][FillEntry]_vars /\ WF_vars(FillEntry)
----------------------------------------------------------------------------
\* Multiplication the schoolbook way: one multiplication by x per bit of a, with
\* the reduction after each, where the code reduces once at the end.
TimesX(b) == IF b < 8 THEN 2 * b ELSE XorByte(2 * b - 16, 3)
RECURSIVE Product(_, _)
Product(a, b) == IF a = 0 THEN 0
                 ELSE XorByte(IF a % 2 = 1 THEN b ELSE 0, Product(a \div 2, TimesX(b)))

\* Every entry behind the cursor is the product in GF(2)[x]/(x^4 + x + 1): the
\* & 0x1, & 0x2, ... of gf16Mul multiply without carries, and one reduction at
\* the end is enough.
EntriesAreProducts ==
  \A a, b \in Gf16 : 16 * a + b < 16 * row + col => mulTable[a][b] = Product(a, b)

Done == row = 16

\* What the solver assumes of the tables it looks up: a field, with the inverse
\* of every element but 0, and nothing stored for 0.
TablesAreField ==
  Done =>
    LET M(a, b) == mulTable[a][b]
    IN /\ \A a, b, c \in Gf16 : M(a, M(b, c)) = M(M(a, b), c)
       /\ \A a, b, c \in Gf16 : M(a, GfXor(b, c)) = GfXor(M(a, b), M(a, c))
       /\ \A a, b \in Gf16 : M(a, b) = M(b, a)
       /\ \A a \in Gf16 \ {0} : M(1, a) = a /\ M(invTable[a], a) = 1
       /\ invTable[0] = 0

\* invTable is assigned inside the loop without a check: no element gets a
\* second inverse, so the order in which the products are found is irrelevant.
InverseWrittenOnce ==
  [][\A a \in Gf16 : invTable[a] # 0 => invTable'[a] = invTable[a]]_vars
============================================================================
