----------------------------- MODULE KatProofs -----------------------------
(***************************************************************************)
(* Proofs about the known-answer tests, for all files that are intact up   *)
(* to some line, whatever comes after it, and for records with any right   *)
(* and wrong answers in them:                                              *)
(*                                                                         *)
(*   - no record that was read mixes the lines of two (NoRecordMixed);     *)
(*   - an intact file is read to its end (IntactFileRead);                 *)
(*   - the test reports the wrong fields and no others, each at its own    *)
(*     record (ReportsExactlyWrong).                                       *)
(***************************************************************************)
EXTENDS Kat, SequenceTheorems, TLAPS

-----------------------------------------------------------------------------
\* Types.

Parsing  == {"header", "record", "field", "panic"}
Checking == {"check", "keygen", "sign", "done"}

TypeOK ==
  /\ file \in Files
  /\ at \in 0 .. Len(file.lines)
  /\ katReqData \in Seq(Values) /\ Len(katReqData) <= 8
  /\ katDataList \in Seq([1 .. 8 -> Values])
  /\ checked \in 0 .. Len(katDataList)
  /\ pc \in Parsing \cup Checking
  /\ pc \in {"keygen", "sign"} => checked < Len(katDataList)

\* What the assumption says of the file that is read.
LEMMA FileTypes ==
  ASSUME file \in Files
  PROVE  /\ file.content \in Seq([1 .. 8 -> Values \ {Blank}])
         /\ file.lines \in Seq(Values) /\ Len(file.lines) \in Nat
         /\ Len(file.content) \in Nat
<1>1. /\ file.content \in Seq([1 .. 8 -> Values \ {Blank}])
      /\ file.lines \in Seq(Values)
  BY FilesAssumption, Zenon
<1>2. ASSUME NEW S, NEW q \in Seq(S) PROVE Len(q) \in Nat
  OBVIOUS
<1> QED BY <1>1, <1>2, Zenon

\* Eight fields are a record.
LEMMA WholeRecord ==
  ASSUME NEW S, NEW fields \in Seq(S), Len(fields) = 8
  PROVE  fields \in [1 .. 8 -> S]
  BY LenProperties

\* The types hold initially and are kept.
LEMMA TypeInit == Init => TypeOK
  BY FileTypes DEF Init, TypeOK, Parsing, Checking

\* Every step keeps the types.
LEMMA TypeStep == TypeOK /\ [Next]_vars => TypeOK'
<1> SUFFICES ASSUME TypeOK, [Next]_vars
             PROVE  TypeOK'
  OBVIOUS
<1> USE DEF TypeOK, Parsing, Checking
<1>0. /\ Len(file.lines) \in Nat
      /\ More => Text \in Values
      /\ Scan => at' \in 0 .. Len(file.lines)
      /\ Len(Fields) = 8
  <2>1. file.lines \in Seq(Values) /\ Len(file.lines) \in Nat
    BY FileTypes
  <2>2. ASSUME NEW S, NEW q \in Seq(S), NEW l \in 1 .. Len(q) PROVE q[l] \in S
    OBVIOUS
  <2>3. at \in 0 .. Len(file.lines) /\ (More => at + 1 \in 1 .. Len(file.lines))
    BY <2>1 DEF More
  <2>4. More => Text \in Values
    BY <2>1, <2>2, <2>3, Zenon DEF Text
  <2>5. Scan => at' \in 0 .. Len(file.lines)
    BY <2>1, <2>3 DEF Scan
  <2> QED BY <2>1, <2>4, <2>5 DEF Fields
<1>1. CASE SkipHeader
  BY <1>0, <1>1 DEF SkipHeader
<1>2. CASE EndOfRecords
  BY <1>0, <1>2 DEF EndOfRecords, Scan
<1>3. CASE StartRecord
  BY <1>0, <1>3 DEF StartRecord, Scan, Text
<1>4. CASE ReadField
  <2>1. CASE Text = Blank
    BY <1>0, <1>4, <2>1 DEF ReadField
  <2>2. CASE Text # Blank
    <3>1. More /\ Text \in Values
      BY <1>0, <2>2 DEF Text
    <3>2. Append(katReqData, Text) \in Seq(Values) /\ Len(Append(katReqData, Text)) = Len(katReqData) + 1
      BY <3>1
    <3>3. Len(katReqData) \in Nat /\ Len(katReqData) < 8
      BY <1>0, <1>4 DEF ReadField
    <3>4. katReqData' = Append(katReqData, Text)
      BY <1>4, <2>2, Zenon DEF ReadField
    <3>5. Len(Append(katReqData, Text)) <= 8
      BY <3>2, <3>3
    <3>6. katReqData' \in Seq(Values) /\ Len(katReqData') <= 8
      BY <3>2, <3>4, <3>5, Zenon
    <3> QED BY <1>0, <1>4, <2>2, <3>6 DEF ReadField
  <2> QED BY <2>1, <2>2
<1>5. CASE AppendRecord
  BY <1>0, <1>5, WholeRecord DEF AppendRecord, Scan
<1>6. CASE Seed
  BY <1>6 DEF Seed
<1>7. CASE CompareKeys
  BY <1>7 DEF CompareKeys
<1>8. CASE CompareSignature
  BY <1>8 DEF CompareSignature
<1>9. CASE Finish
  BY <1>9 DEF Finish
<1>10. CASE UNCHANGED vars
  BY <1>10 DEF vars
<1> QED BY <1>1, <1>2, <1>3, <1>4, <1>5, <1>6, <1>7, <1>8, <1>9, <1>10 DEF Next

\* The program stays within its types: the parser never leaves the file, a record
\* has eight fields, and no record is checked that was not read.
THEOREM TypeCorrect == Spec => []TypeOK
BY TypeInit, TypeStep, PTL DEF Spec

-----------------------------------------------------------------------------
\* The parser.  Where it stands in a file whose first damage is line d: the
\* records it has are the first ones of the file, and the line where it expects
\* the next field is not beyond d.

Position(d) ==
  /\ Len(katDataList) <= Len(file.content)
  /\ \A c \in 1 .. Len(katDataList) : katDataList[c] = file.content[c]
  /\ Len(katDataList) > 0 => LineOf(Len(katDataList), 9) <= d
  /\ pc = "header" => at = 0 /\ Len(katDataList) = 0
  /\ pc = "record" => \/ at = LineOf(Len(katDataList), 9)
                      \/ at = Len(file.lines) /\ at < LineOf(Len(katDataList), 9)
  /\ pc = "field" => /\ at = LineOf(Len(katDataList), 9) + Len(katReqData)
                     /\ at < d /\ Len(katReqData) > 0
                     /\ Len(katDataList) < Len(file.content)
                     /\ \A index \in 1 .. Len(katReqData) :
                          katReqData[index] = file.content[Len(katDataList) + 1][index]
  /\ pc \in Checking /\ file.intact /\ LineOf(Len(file.content), 9) <= d =>
       Len(katDataList) = Len(file.content)

\* The lines of the records.
LEMMA Lines ==
  ASSUME NEW c \in Int, NEW index \in Int
  PROVE  /\ LineOf(c, index) = 9 * c + index - 7 /\ LineOf(c, index) \in Int
         /\ LineOf(c + 1, index) = LineOf(c, 9) + index
  BY DEF LineOf

\* Arithmetic of lines: a line before the end of record c is one of an earlier
\* record or of c, ...
LEMMA RecordBefore ==
  ASSUME NEW k \in Int, NEW c \in Int, NEW d \in Int, NEW index \in 1 .. 8,
         9 * k + 2 + index < d, d <= 9 * c + 3
  PROVE  k < c
  OBVIOUS

\* ... from a distance to a line and ...
LEMMA Distance ==
  ASSUME NEW l \in Int, NEW p \in Int, NEW index \in Int, index = p + 1 - l
  PROVE  p + 1 = l + index
  OBVIOUS

\* ... a record that is not the last one ends before the damage, ...
LEMMA Ends ==
  ASSUME NEW k \in Int, NEW c \in Int, NEW d \in Int, NEW l \in Int,
         9 * k + 11 <= 9 * c + 2, 9 * c + 2 <= d, d <= l + 1
  PROVE  9 * k + 2 < l /\ 9 * k + 3 < d
  OBVIOUS

\* ... the next line of a record, ...
LEMMA NextIndex ==
  ASSUME NEW l \in Int, NEW p \in Int, NEW j \in 1 .. 7, p = l + j
  PROVE  j + 1 = p + 1 - l /\ j + 1 \in 1 .. 8
  OBVIOUS

\* ... and the intervals the indices range over.
LEMMA Bounds ==
  ASSUME NEW j \in Nat
  PROVE  /\ 0 < j /\ j < 8 => j \in 1 .. 7
         /\ \A index \in 1 .. j + 1 : index = j + 1 \/ index \in 1 .. j
         /\ \A c \in Nat : j < c => j + 1 \in 1 .. c
  OBVIOUS

\* The parser begins at the beginning.
LEMMA PositionInit == ASSUME NEW d, FirstDamage(file, d), Init PROVE Position(d)
  BY FileTypes DEF Init, Position, Checking

\* A value found where the next field is expected is the one of the file.
LEMMA NextField ==
  ASSUME TypeOK, NEW d, FirstDamage(file, d), Position(d), NEW index \in 1 .. 8,
         pc \in {"record", "field"}, Text # Blank,
         index = at + 1 - LineOf(Len(katDataList), 9)
  PROVE  /\ at < Len(file.lines) /\ at + 1 < d
         /\ Len(katDataList) < Len(file.content)
         /\ Text = file.content[Len(katDataList) + 1][index]
<1> DEFINE k == Len(katDataList)
           n == Len(file.content)
<1>1. /\ k \in Nat /\ n \in Nat /\ at \in Nat /\ Len(file.lines) \in Nat /\ d \in Nat
      /\ k <= n
  BY FileTypes DEF TypeOK, Position, FirstDamage
<1>2. at < Len(file.lines) /\ Text = file.lines[at + 1]
  BY DEF Text, More
<1>3. /\ LineOf(k, 9) = 9 * k + 2 /\ LineOf(k + 1, index) = 9 * k + 2 + index
      /\ LineOf(n + 1, 1) = 9 * n + 3
  BY <1>1 DEF LineOf
<1>4. at + 1 = LineOf(k + 1, index)
  <2>1. LineOf(k, 9) \in Int /\ LineOf(k + 1, index) = LineOf(k, 9) + index
    BY <1>1, Lines
  <2>2. at + 1 = LineOf(k, 9) + index
    BY <1>1, <2>1, Distance
  <2> QED BY <2>1, <2>2
<1>5. at + 1 # d
  <2>1. CASE d = Len(file.lines) + 1
    BY <1>1, <1>2, <2>1
  <2>2. CASE file.lines[d] = Blank
    BY <1>2, <2>2
  <2> QED BY <2>1, <2>2 DEF FirstDamage
<1>6. at <= d
  <2>1. CASE pc = "field"
    BY <1>1, <2>1 DEF Position
  <2>2. CASE pc = "record" /\ k > 0
    <3>1. LineOf(k, 9) <= d
      BY <2>2 DEF Position
    <3>2. at <= LineOf(k, 9)
      BY <1>1, <1>3, <2>2 DEF Position
    <3> QED BY <1>1, <1>3, <3>1, <3>2
  <2>3. CASE pc = "record" /\ k = 0
    <3>1. at <= 2
      BY <1>1, <1>3, <2>3 DEF Position
    <3>2. d >= 3 \/ d = Len(file.lines) + 1
      BY DEF FirstDamage
    <3> QED BY <1>1, <1>2, <3>1, <3>2
  <2> QED BY <1>1, <2>1, <2>2, <2>3
<1>7. at # d
  <2>1. CASE pc = "field"
    BY <1>1, <2>1 DEF Position
  <2>2. CASE pc = "record" /\ d = Len(file.lines) + 1
    BY <1>1, <1>2, <2>2
  <2>3. CASE pc = "record" /\ d \in 3 .. Len(file.lines) /\ \A c \in 1 .. n : d # LineOf(c, 9)
    <3>1. at = LineOf(k, 9)
      BY <1>1, <1>2, <2>3 DEF Position
    <3>2. CASE k = 0
      BY <1>1, <1>3, <2>3, <3>1, <3>2
    <3>3. CASE k > 0
      <4>1. k \in 1 .. n
        BY <1>1, <3>3
      <4> QED BY <2>3, <3>1, <4>1
    <3> QED BY <1>1, <3>2, <3>3
  <2> QED BY <2>1, <2>2, <2>3 DEF FirstDamage
<1>8. at + 1 < d
  BY <1>1, <1>5, <1>6, <1>7
<1>9. k < n
  <2>1. d <= 9 * n + 3
    BY <1>1, <1>3 DEF FirstDamage
  <2>2. 9 * k + 2 + index < d
    BY <1>3, <1>4, <1>8
  <2>3. k \in Int /\ n \in Int /\ d \in Int
    BY <1>1
  <2> QED BY <2>1, <2>2, <2>3, RecordBefore, Zenon
<1>10. file.lines[at + 1] = file.content[k + 1][index]
  <2>1. k + 1 \in 1 .. n
    BY <1>1, <1>9
  <2>2. file.lines[LineOf(k + 1, index)] = file.content[k + 1][index]
    BY <1>4, <1>8, <2>1 DEF FirstDamage
  <2> QED BY <1>4, <2>2
<1> QED BY <1>2, <1>8, <1>9, <1>10

\* Every step keeps the parser where it should be.
LEMMA PositionStep ==
  ASSUME TypeOK, NEW d, FirstDamage(file, d), Position(d), [Next]_vars
  PROVE  Position(d)'
<1> DEFINE k == Len(katDataList)
           n == Len(file.content)
<1>a. /\ k \in Nat /\ n \in Nat /\ at \in Nat /\ Len(file.lines) \in Nat /\ d \in Nat
      /\ k <= n /\ at <= Len(file.lines) /\ Len(katReqData) \in Nat
  BY FileTypes DEF TypeOK, Position, FirstDamage
<1>b. LineOf(k, 9) = 9 * k + 2 /\ LineOf(k, 9) \in Int
  BY <1>a DEF LineOf
<1>0. /\ k \in Nat /\ n \in Nat /\ at \in Nat /\ Len(file.lines) \in Nat /\ d \in Nat
      /\ k <= n /\ at <= Len(file.lines) /\ Len(katReqData) \in Nat
      /\ LineOf(k, 9) = 9 * k + 2 /\ LineOf(k, 9) \in Int
  BY <1>a, <1>b
<1>c. ASSUME NEW c \in 1 .. n PROVE file.content[c] \in [1 .. 8 -> Values \ {Blank}]
  <2>1. file.content \in Seq([1 .. 8 -> Values \ {Blank}])
    BY FileTypes DEF TypeOK
  <2> QED BY <2>1, ElementOfSeq
<1>1. CASE SkipHeader
  <2>1. at' = 2 \/ (at' = Len(file.lines) /\ at' < 2)
    BY <1>0, <1>1 DEF SkipHeader
  <2>2. k = 0 /\ LineOf(k, 9) = 2
    BY <1>0, <1>1 DEF SkipHeader, Position
  <2> QED BY <1>1, <2>1, <2>2 DEF SkipHeader, Position, Checking
<1>2. CASE EndOfRecords
  <2>1. ASSUME file.intact, LineOf(n, 9) <= d, k # n PROVE FALSE
    <3>1. k < n
      BY <1>0, <2>1
    <3>2. LineOf(n, 9) = 9 * n + 2 /\ LineOf(k + 1, 1) = 9 * k + 3
      BY <1>0 DEF LineOf
    <3>3. d <= Len(file.lines) + 1
      BY <1>0 DEF FirstDamage
    <3>4. 9 * k + 11 <= 9 * n + 2
      BY <1>0, <3>1
    <3>5. LineOf(k, 9) < Len(file.lines) /\ LineOf(k + 1, 1) < d
      <4>1. 9 * n + 2 <= d /\ d \in Int /\ k \in Int /\ n \in Int /\ Len(file.lines) \in Int
        BY <1>0, <2>1, <3>2
      <4>2. 9 * k + 2 < Len(file.lines) /\ 9 * k + 3 < d
        BY <3>3, <3>4, <4>1, Ends, Zenon
      <4> QED BY <1>0, <3>2, <4>2
    <3>6. at = LineOf(k, 9) /\ at + 1 = LineOf(k + 1, 1)
      BY <1>0, <1>2, <3>2, <3>5 DEF EndOfRecords, Position
    <3>7. Text = file.content[k + 1][1]
      <4>1. k + 1 \in 1 .. n
        BY <1>0, <3>1
      <4>2. More
        BY <3>5, <3>6 DEF More
      <4> QED BY <3>5, <3>6, <4>1, <4>2 DEF Text, FirstDamage
    <3>8. file.content[k + 1] \in [1 .. 8 -> Values \ {Blank}]
      <4>1. k + 1 \in 1 .. n
        BY <1>0, <3>1
      <4> QED BY <1>c, <4>1
    <3> QED BY <1>2, <3>7, <3>8 DEF EndOfRecords
  <2> QED BY <1>2, <2>1 DEF EndOfRecords, Position, Checking
<1>3. CASE StartRecord
  <2>1. at = LineOf(k, 9)
    BY <1>0, <1>3 DEF StartRecord, Position, Text, More
  <2>2. 1 = at + 1 - LineOf(k, 9) /\ 1 \in 1 .. 8
    BY <1>0, <2>1
  <2>3. /\ at < Len(file.lines) /\ at + 1 < d
        /\ k < n
        /\ Text = file.content[k + 1][1]
    BY <1>3, <2>2, NextField DEF StartRecord
  <2>4. at' = at + 1 /\ Len(katReqData') = 1 /\ katReqData'[1] = Text
    BY <1>3, <2>3 DEF StartRecord, Scan, More
  <2>5. \A index \in 1 .. 1 : katReqData'[index] = file.content[k + 1][index]
    BY <2>3, <2>4
  <2> QED BY <1>0, <1>3, <2>1, <2>3, <2>4, <2>5 DEF StartRecord, Position, Checking
<1>4. CASE ReadField
  <2>1. CASE Text = Blank
    BY <1>4, <2>1 DEF ReadField, Position, Checking
  <2>2. CASE Text # Blank
    <3> DEFINE j == Len(katReqData)
    <3>1. /\ at = LineOf(k, 9) + j /\ j \in 1 .. 7 /\ at < d
          /\ \A index \in 1 .. j : katReqData[index] = file.content[k + 1][index]
      <4>1. /\ at = LineOf(k, 9) + j /\ j > 0 /\ at < d
            /\ \A index \in 1 .. j : katReqData[index] = file.content[k + 1][index]
        BY <1>4 DEF ReadField, Position
      <4>2. j < 8 /\ j \in Nat
        BY <1>0, <1>4 DEF ReadField, Fields
      <4>3. j \in 1 .. 7
        BY <4>1, <4>2, Bounds
      <4> QED BY <4>1, <4>3, Zenon
    <3>2. j + 1 = at + 1 - LineOf(k, 9) /\ j + 1 \in 1 .. 8
      <4>1. /\ LineOf(k, 9) \in Int /\ at \in Int /\ j \in 1 .. 7
            /\ at = LineOf(k, 9) + j
        BY <1>0, <3>1
      <4> QED BY <4>1, NextIndex
    <3>3. /\ at < Len(file.lines) /\ at + 1 < d
          /\ k < n
          /\ Text = file.content[k + 1][j + 1]
      BY <1>4, <2>2, <3>2, NextField DEF ReadField
    <3>4. at' = at + 1
      BY <1>4, <3>3 DEF ReadField, Scan, More
    <3>5. katReqData' = Append(katReqData, Text)
      BY <1>4, <2>2, Zenon DEF ReadField
    <3>6. /\ Len(katReqData') = j + 1
          /\ \A index \in 1 .. j : katReqData'[index] = katReqData[index]
          /\ katReqData'[j + 1] = Text
      BY <3>5 DEF TypeOK
    <3>7. \A index \in 1 .. j + 1 : katReqData'[index] = file.content[k + 1][index]
      <4> SUFFICES ASSUME NEW index \in 1 .. j + 1
                   PROVE  katReqData'[index] = file.content[k + 1][index]
        OBVIOUS
      <4>1. CASE index = j + 1
        BY <3>3, <3>6, <4>1
      <4>2. CASE index \in 1 .. j
        BY <3>1, <3>6, <4>2
      <4>3. index = j + 1 \/ index \in 1 .. j
        BY <1>0, Bounds, Zenon
      <4> QED BY <4>1, <4>2, <4>3, Zenon
    <3>8. at' = LineOf(k, 9) + Len(katReqData') /\ at' < d /\ Len(katReqData') > 0
      BY <1>0, <3>1, <3>3, <3>4, <3>6
    <3> QED BY <1>4, <2>2, <3>3, <3>6, <3>7, <3>8 DEF ReadField, Position, Checking
  <2> QED BY <2>1, <2>2
<1>5. CASE AppendRecord
  <2>1. /\ Len(katReqData) = 8 /\ at = LineOf(k, 9) + 8 /\ at < d /\ k < n
        /\ \A index \in 1 .. 8 : katReqData[index] = file.content[k + 1][index]
    BY <1>5 DEF AppendRecord, Position, Fields
  <2>2. katReqData = file.content[k + 1]
    <3>1. k + 1 \in 1 .. n
      BY <1>0, <2>1, Bounds, Zenon
    <3>2. file.content[k + 1] \in [1 .. 8 -> Values \ {Blank}]
      BY <1>c, <3>1
    <3>3. katReqData \in [1 .. 8 -> Values]
      BY <2>1, WholeRecord DEF TypeOK
    <3> QED BY <2>1, <3>2, <3>3
  <2>3. /\ Len(katDataList') = k + 1
        /\ \A c \in 1 .. k : katDataList'[c] = katDataList[c]
        /\ katDataList'[k + 1] = katReqData
    BY <1>5 DEF AppendRecord, TypeOK
  <2>4. \A c \in 1 .. k + 1 : katDataList'[c] = file.content[c]
    BY <1>0, <2>2, <2>3 DEF Position
  <2>5. LineOf(k + 1, 9) = at + 1
    BY <1>0, <2>1, Lines
  <2>6. at' = at + 1 \/ (at' = Len(file.lines) /\ at' = at)
    BY <1>0, <1>5 DEF AppendRecord, Scan, More
  <2>7. k + 1 <= n /\ LineOf(k + 1, 9) <= d
    BY <1>0, <2>1, <2>5
  <2> QED BY <1>0, <1>5, <2>3, <2>4, <2>5, <2>6, <2>7 DEF AppendRecord, Position, Checking
<1>6. CASE Seed
  BY <1>6 DEF Seed, Position, Checking
<1>7. CASE CompareKeys
  BY <1>7 DEF CompareKeys, Position, Checking
<1>8. CASE CompareSignature
  BY <1>8 DEF CompareSignature, Position, Checking
<1>9. CASE Finish
  BY <1>9 DEF Finish, Position, Checking
<1>10. CASE UNCHANGED vars
  BY <1>10 DEF vars, Position, Checking
<1> QED BY <1>1, <1>2, <1>3, <1>4, <1>5, <1>6, <1>7, <1>8, <1>9, <1>10 DEF Next

\* Wherever a file is damaged, the parser is where it should be.
PositionInv == \A d : FirstDamage(file, d) => Position(d)

\* Extensionality.
LEMMA SameFunction ==
  ASSUME NEW D, NEW S, NEW T, NEW f \in [D -> S], NEW g \in [D -> T], \A x \in D : f[x] = g[x]
  PROVE  f = g
  OBVIOUS

\* The parser always is where it should be.
LEMMA PositionInvariant == Spec => []PositionInv
<1>1. Init => PositionInv
  BY PositionInit DEF PositionInv
<1>2. TypeOK /\ PositionInv /\ [Next]_vars => PositionInv'
  <2> SUFFICES ASSUME TypeOK, PositionInv, [Next]_vars, NEW d, FirstDamage(file', d)
               PROVE  Position(d)'
    BY DEF PositionInv
  <2>1. file' = file
    BY DEF Next, vars, SkipHeader, EndOfRecords, StartRecord, ReadField, AppendRecord,
           Seed, CompareKeys, CompareSignature, Finish
  <2>2. FirstDamage(file, d)
    BY <2>1
  <2>3. Position(d)
    BY <2>2 DEF PositionInv
  <2> QED BY <2>2, <2>3, PositionStep
<1> QED BY <1>1, <1>2, TypeCorrect, PTL DEF Spec

\* However a file is damaged, and wherever, what was read are whole records from
\* its start: parseKatData never fills a record with the lines of two.
THEOREM NoRecordMixedHolds == Spec => []NoRecordMixed
<1>1. TypeOK /\ PositionInv => NoRecordMixed
  <2> SUFFICES ASSUME TypeOK, PositionInv PROVE NoRecordMixed
    OBVIOUS
  <2>1. PICK d : FirstDamage(file, d)
    BY FilesAssumption DEF TypeOK
  <2>2. Position(d)
    BY <2>1 DEF PositionInv
  <2> QED BY <2>2 DEF Position, NoRecordMixed
<1> QED BY <1>1, TypeCorrect, PositionInvariant, PTL

\* parseKatData reads an intact file to its end, with or without the blank line
\* that ends the last record.
THEOREM IntactFileReadHolds == Spec => []IntactFileRead
<1>1. TypeOK /\ PositionInv => IntactFileRead
  <2> SUFFICES ASSUME TypeOK, PositionInv, pc \in {"check", "done"}, file.intact
               PROVE  katDataList = file.content
    BY DEF IntactFileRead
  <2>1. PICK d : FirstDamage(file, d) /\ d >= LineOf(Len(file.content), 9) /\ d \in Nat
    <3>1. \E e \in 1 .. Len(file.lines) + 1 : FirstDamage(file, e) /\ e >= LineOf(Len(file.content), 9)
      BY FilesAssumption, Zenon DEF TypeOK
    <3>2. Len(file.lines) \in Nat
      BY FileTypes DEF TypeOK
    <3> QED BY <3>1, <3>2
  <2>2. Position(d)
    BY <2>1 DEF PositionInv
  <2>3. LineOf(Len(file.content), 9) <= d
    BY <2>1, FileTypes DEF TypeOK, LineOf
  <2>4. /\ Len(katDataList) = Len(file.content)
        /\ \A c \in 1 .. Len(katDataList) : katDataList[c] = file.content[c]
    BY <2>2, <2>3, Zenon DEF Position, Checking
  <2>5. /\ file.content \in Seq([1 .. 8 -> Values \ {Blank}])
        /\ katDataList \in Seq([1 .. 8 -> Values])
    BY FileTypes DEF TypeOK
  <2>6. /\ file.content \in [1 .. Len(file.content) -> [1 .. 8 -> Values \ {Blank}]]
        /\ katDataList \in [1 .. Len(katDataList) -> [1 .. 8 -> Values]]
    BY <2>5, LenProperties, Zenon
  <2>7. katDataList \in [1 .. Len(file.content) -> [1 .. 8 -> Values]]
    BY <2>4, <2>6, Zenon
  <2>8. \A c \in 1 .. Len(file.content) : katDataList[c] = file.content[c]
    BY <2>4, Zenon
  <2> QED BY <2>6, <2>7, <2>8, SameFunction
<1> QED BY <1>1, TypeCorrect, PositionInvariant, PTL

-----------------------------------------------------------------------------
\* The comparisons.

\* Where the fields that CheckMayoKat looks at stand in a record.
LEMMA FieldNames ==
  /\ 2 \in DOMAIN Fields /\ \A f \in DOMAIN Fields : Fields[f] = "seed" <=> f = 2
  /\ 4 \in DOMAIN Fields /\ \A f \in DOMAIN Fields : Fields[f] = "msg" <=> f = 4
  /\ 5 \in DOMAIN Fields /\ \A f \in DOMAIN Fields : Fields[f] = "pk" <=> f = 5
  /\ 6 \in DOMAIN Fields /\ \A f \in DOMAIN Fields : Fields[f] = "sk" <=> f = 6
  /\ 8 \in DOMAIN Fields /\ \A f \in DOMAIN Fields : Fields[f] = "sm" <=> f = 8
<1>1. DOMAIN Fields = 1 .. 8
  BY DEF Fields
<1>2. /\ Fields[1] = "count" /\ Fields[2] = "seed" /\ Fields[3] = "mlen" /\ Fields[4] = "msg"
      /\ Fields[5] = "pk" /\ Fields[6] = "sk" /\ Fields[7] = "smlen" /\ Fields[8] = "sm"
  BY DEF Fields
<1>3. ASSUME NEW f \in DOMAIN Fields
      PROVE  f = 1 \/ f = 2 \/ f = 3 \/ f = 4 \/ f = 5 \/ f = 6 \/ f = 7 \/ f = 8
  BY <1>1
<1>4. ASSUME NEW f \in DOMAIN Fields
      PROVE  /\ Fields[f] = "seed" <=> f = 2
             /\ Fields[f] = "msg" <=> f = 4
             /\ Fields[f] = "pk" <=> f = 5
             /\ Fields[f] = "sk" <=> f = 6
             /\ Fields[f] = "sm" <=> f = 8
  <2>1. CASE f \in {1, 3, 7}
    BY <1>2, <2>1
  <2>2. CASE f \in {2, 4, 5, 6, 8}
    BY <1>2, <2>2
  <2> QED BY <1>3, <2>1, <2>2
<1>5. 2 \in DOMAIN Fields /\ 4 \in DOMAIN Fields /\ 5 \in DOMAIN Fields
      /\ 6 \in DOMAIN Fields /\ 8 \in DOMAIN Fields
  BY <1>1
<1> QED BY <1>4, <1>5

\* The fields by their places in a record.
LEMMA Places ==
  /\ Value("seed") = katData[2] /\ Value("msg") = katData[4]
  /\ Value("pk") = katData[5] /\ Value("sk") = katData[6] /\ Value("sm") = katData[8]
<1>1. ASSUME NEW field, NEW i \in DOMAIN Fields, \A f \in DOMAIN Fields : Fields[f] = field <=> f = i
      PROVE  Value(field) = katData[i]
  BY <1>1, Zenon DEF Value
<1> QED BY <1>1, FieldNames

\* When one of the three fields is wrong.
LEMMA Wrong ==
  ASSUME NEW record, NEW f
  PROVE  f \in WrongFields(record) <=>
           \/ f = "pk" /\ record[5] # Answer(record[2], record[4], "pk")
           \/ f = "sk" /\ record[6] # Answer(record[2], record[4], "sk")
           \/ f = "sm" /\ record[8] # Answer(record[2], record[4], "sm")
<1>1. f \in WrongFields(record) <=>
        /\ f \in {"pk", "sk", "sm"}
        /\ \E index \in DOMAIN Fields :
             Fields[index] = f /\ record[index] # Answer(record[2], record[4], f)
  BY Zenon DEF WrongFields
<1>2. CASE f = "pk"
  BY FieldNames, <1>1, <1>2
<1>3. CASE f = "sk"
  BY FieldNames, <1>1, <1>3
<1>4. CASE f = "sm"
  BY FieldNames, <1>1, <1>4
<1> QED BY <1>1, <1>2, <1>3, <1>4, Zenon

\* The failures that belong to record c, and those of the records checked.
FailuresOf(c) == {<<c, f>> : f \in WrongFields(katDataList[c])}
Reported      == UNION {FailuresOf(c) : c \in 1 .. checked}

Report ==
  /\ pc \in Parsing => checked = 0 /\ failures = {}
  /\ pc \in {"check", "keygen", "done"} => failures = Reported
  /\ pc = "keygen" => rng = <<katData[2], 0>>
  /\ pc = "sign" => /\ rng = <<katData[2], 1>>
                    /\ keys.sk = <<"sk", <<"keygen", <<katData[2], 0>>>>>>
                    /\ failures = Reported \cup {<<checked + 1, f>> : f \in WrongFields(katData) \ {"sm"}}
  /\ pc = "done" => checked = Len(katDataList)

\* Every step keeps the report: the failures so far are those of the records
\* checked, and the generator is in the state the record calls for.
LEMMA ReportStep == TypeOK /\ Report /\ [Next]_vars => Report'
<1> SUFFICES ASSUME TypeOK, Report, [Next]_vars
             PROVE  Report'
  OBVIOUS
<1>1. CASE SkipHeader \/ EndOfRecords \/ StartRecord \/ ReadField \/ AppendRecord
  <2>1. checked = 0 /\ failures = {} /\ checked' = 0 /\ failures' = {}
        /\ pc' \in Parsing \cup {"check"}
    BY <1>1 DEF Report, Parsing, SkipHeader, EndOfRecords, StartRecord, ReadField, AppendRecord
  <2>2. Reported' = {}
    BY <2>1 DEF Reported
  <2> QED BY <2>1, <2>2 DEF Report, Parsing
<1>2. CASE Seed
  <2>1. /\ pc = "check" /\ pc' = "keygen" /\ rng' = <<katData[2], 0>>
        /\ katData' = katData /\ Reported' = Reported /\ failures' = failures
    BY <1>2, Places DEF Seed, katData, Reported, FailuresOf
  <2> QED BY <2>1 DEF Report, Parsing
<1>3. CASE CompareKeys
  <2> DEFINE seed == katData[2]
  <2>1. /\ pc' = "sign" /\ rng' = <<seed, 1>>
        /\ katData' = katData /\ Reported' = Reported /\ checked' = checked
    BY <1>3 DEF CompareKeys, katData, Reported, FailuresOf, Report
  <2>2. rng = <<seed, 0>> /\ failures = Reported
    BY <1>3 DEF CompareKeys, Report
  <2>3. keys' = [pk |-> <<"pk", <<"keygen", rng>>>>, sk |-> <<"sk", <<"keygen", rng>>>>]
    BY <1>3, Zenon DEF CompareKeys
  <2>4. /\ keys'["pk"] = Answer(seed, katData[4], "pk")
        /\ keys'["sk"] = Answer(seed, katData[4], "sk")
        /\ keys'.sk = <<"sk", <<"keygen", <<seed, 0>>>>>>
    BY <2>2, <2>3 DEF Answer
  <2>5. failures' = failures \cup
          {<<checked + 1, f>> : f \in {g \in {"pk", "sk"} : Value(g) # keys'[g]}}
    BY <1>3, Zenon DEF CompareKeys
  <2>6. {g \in {"pk", "sk"} : Value(g) # keys'[g]} = WrongFields(katData) \ {"sm"}
    <3>1. ASSUME NEW g
          PROVE  g \in {"pk", "sk"} /\ Value(g) # keys'[g] <=> g \in WrongFields(katData) \ {"sm"}
      BY <2>4, Places, Wrong, "pk" # "sm", "sk" # "sm", Zenon
    <3> QED BY <3>1, Zenon
  <2>7. pc' = "sign" => failures' = Reported \cup {<<checked + 1, f>> : f \in WrongFields(katData) \ {"sm"}}
    BY <2>2, <2>5, <2>6, Zenon
  <2> QED BY <2>1, <2>4, <2>7 DEF Report, Parsing
<1>4. CASE CompareSignature
  <2> DEFINE seed == katData[2]
             sig  == <<"sm", keys.sk, Value("msg"), rng>>
             now  == checked + 1
  <2>1. /\ pc = "sign" /\ pc' = "check" /\ checked' = now /\ checked \in Nat
        /\ katDataList' = katDataList
    BY <1>4 DEF CompareSignature, TypeOK
  <2>2. sig = Answer(seed, katData[4], "sm")
    BY <2>1, Places DEF Report, Answer
  <2>3. failures' = IF sig = katData[8] THEN failures ELSE failures \cup {<<now, "sm">>}
    BY <1>4, Places, Zenon DEF CompareSignature
  <2>4. failures = Reported \cup {<<now, f>> : f \in WrongFields(katData) \ {"sm"}}
    BY <2>1 DEF Report
  <2>5. FailuresOf(now) = {<<now, f>> : f \in WrongFields(katData)}
    BY DEF FailuresOf, katData
  <2>6. "sm" \in WrongFields(katData) <=> katData[8] # sig
    <3>1. "sm" # "pk" /\ "sm" # "sk"
      OBVIOUS
    <3> QED BY <2>2, <3>1, Wrong, Zenon
  <2>7. failures' = Reported \cup FailuresOf(now)
    <3> HIDE DEF sig, now
    <3> QED BY <2>3, <2>4, <2>5, <2>6, Zenon
  <2>8. Reported' = Reported \cup FailuresOf(now)
    <3>1. 1 .. checked' = (1 .. checked) \cup {now}
      BY <2>1
    <3>2. \A c : FailuresOf(c)' = FailuresOf(c)
      BY <2>1 DEF FailuresOf
    <3> HIDE DEF now
    <3>3. Reported' = UNION {FailuresOf(c) : c \in (1 .. checked) \cup {now}}
      BY <3>1, <3>2 DEF Reported
    <3> QED BY <3>3, Zenon DEF Reported
  <2> QED BY <2>1, <2>7, <2>8 DEF Report, Parsing
<1>5. CASE Finish
  BY <1>5 DEF Finish, Report, Parsing, Reported, FailuresOf
<1>6. CASE UNCHANGED vars
  BY <1>6 DEF vars, Report, Parsing, Reported, FailuresOf, katData
<1> QED BY <1>1, <1>2, <1>3, <1>4, <1>5, <1>6 DEF Next

\* CheckMayoKat reports exactly the wrong fields, each at its own record: since it
\* seeds the generator for every record, no record depends on the ones before.
THEOREM ReportsExactlyWrongHolds == Spec => []ReportsExactlyWrong
<1>1. Init => Report
  BY DEF Init, Report, Parsing
<1>2. Report => ReportsExactlyWrong
  BY DEF Report, ReportsExactlyWrong, Reported, FailuresOf
<1> QED BY <1>1, <1>2, ReportStep, TypeCorrect, PTL DEF Spec
=============================================================================
