-------------------------------- MODULE Kat --------------------------------
(***************************************************************************)
(* Known-answer tests: parseKatData of src/kat/kat.go, and CheckMayoKat of *)
(* src/kat/kat_test.go, which seeds the generator anew for every record    *)
(* and compares the keys and the signed message with the file.             *)
(*                                                                         *)
(* A line of a .rsp file is a value behind " = ", or Blank.  What the      *)
(* program computes is the operation with the bytes it drew: the seed and  *)
(* the number of requests since seeding (module Drbg).                     *)
(***************************************************************************)
EXTENDS Integers, Sequences

CONSTANTS
  Blank,            \* a line without " = "
  Files             \* records [content |-> records the file is made of, lines |-> its lines]

VARIABLES
  file,             \* the file being read
  at,               \* lines scanned so far
  katReqData,       \* the record being filled, field by field
  katDataList,
  checked,          \* records CheckMayoKat has finished
  rng,              \* the state of the generator
  keys,             \* what CompactKeyGen returned for the record being checked
  failures,         \* t.Error calls: <<record, field>>
  pc

Fields == <<"count", "seed", "mlen", "msg", "pk", "sk", "smlen", "sm">>

\* Where the line of a field is: two lines of header, and after every record
\* a line that the parser skips.
LineOf(c, index) == 2 + 9 * (c - 1) + index

\* d is the first line of a file that is not as the records it is made of have
\* it: the file ends before line d, or a blank line stands in it where a value
\* is expected.  Nothing is said of the lines after d.
FirstDamage(f, d) ==
  /\ \A c \in 1 .. Len(f.content), index \in 1 .. 8 :
       LineOf(c, index) < d => f.lines[LineOf(c, index)] = f.content[c][index]
  /\ d \in 1 .. LineOf(Len(f.content) + 1, 1)
  /\ \/ d = Len(f.lines) + 1
     \/ /\ d \in 3 .. Len(f.lines) /\ f.lines[d] = Blank
        /\ \A c \in 1 .. Len(f.content) : d # LineOf(c, 9)

Values == UNION {{f.lines[l] : l \in 1 .. Len(f.lines)} : f \in Files}
            \cup UNION {UNION {{f.content[c][index] : index \in 1 .. 8} : c \in 1 .. Len(f.content)} : f \in Files}

\* A file is damaged somewhere, were it by its end; an intact one not before
\* the line after its last record.
ASSUME FilesAssumption ==
  \A f \in Files :
    /\ f.content \in Seq([1 .. 8 -> Values \ {Blank}]) /\ f.lines \in Seq(Values)
    /\ \E d \in 1 .. Len(f.lines) + 1 :
         FirstDamage(f, d) /\ (f.intact => d >= LineOf(Len(f.content), 9))

vars == <<file, at, katReqData, katDataList, checked, rng, keys, failures, pc>>

Init ==
  /\ file \in Files
  /\ at = 0 /\ katReqData = <<>> /\ katDataList = <<>>
  /\ checked = 0 /\ rng = <<"unseeded", 0>> /\ keys = <<>> /\ failures = {}
  /\ pc = "header"
----------------------------------------------------------------------------
\* scanner.Scan and scanner.Text: the text is empty after the last line.
More == at < Len(file.lines)
Text == IF More THEN file.lines[at + 1] ELSE Blank
Scan == at' = IF More THEN at + 1 ELSE at

\* Two lines are skipped.
SkipHeader ==
  /\ pc = "header"
  /\ at' = IF Len(file.lines) < 2 THEN Len(file.lines) ELSE 2
  /\ pc' = "record"
  /\ UNCHANGED <<file, katReqData, katDataList, checked, rng, keys, failures>>

\* The loop condition, and the break at an empty line.
EndOfRecords ==
  /\ pc = "record" /\ Text = Blank
  /\ Scan
  /\ pc' = "check"
  /\ UNCHANGED <<file, katReqData, katDataList, checked, rng, keys, failures>>

StartRecord ==
  /\ pc = "record" /\ Text # Blank
  /\ katReqData' = <<Text>> /\ Scan
  /\ pc' = "field"
  /\ UNCHANGED <<file, katDataList, checked, rng, keys, failures>>

\* Mutant: a line without a value is taken for an empty one.
ReadFieldTakesBlank ==
  /\ pc = "field" /\ Len(katReqData) < Len(Fields)
  /\ katReqData' = Append(katReqData, Text) /\ UNCHANGED pc
  /\ Scan
  /\ UNCHANGED <<file, katDataList, checked, rng, keys, failures>>

\* splitAndDecodeInt and splitAndDecodeBytes: lineSlice[1] panics on a line
\* without " = ", the empty text after the end of the file included.
ReadField ==
  /\ pc = "field" /\ Len(katReqData) < Len(Fields)
  /\ IF Text = Blank THEN pc' = "panic" /\ UNCHANGED katReqData
                     ELSE katReqData' = Append(katReqData, Text) /\ UNCHANGED pc
  /\ Scan
  /\ UNCHANGED <<file, katDataList, checked, rng, keys, failures>>

\* Mutant: the line between two records is not skipped.
AppendRecordNoSkip ==
  /\ pc = "field" /\ Len(katReqData) = Len(Fields)
  /\ katDataList' = Append(katDataList, katReqData) /\ katReqData' = <<>>
  /\ pc' = "record"
  /\ UNCHANGED <<file, at, checked, rng, keys, failures>>

\* The record is appended, and the line after it is skipped.
AppendRecord ==
  /\ pc = "field" /\ Len(katReqData) = Len(Fields)
  /\ katDataList' = Append(katDataList, katReqData) /\ katReqData' = <<>>
  /\ Scan
  /\ pc' = "record"
  /\ UNCHANGED <<file, checked, rng, keys, failures>>
----------------------------------------------------------------------------
(* CheckMayoKat *)

katData == katDataList[checked + 1]
Value(field) == katData[CHOOSE f \in DOMAIN Fields : Fields[f] = field]

\* Mutant: only the first record seeds the generator.
SeedOnce ==
  /\ pc = "check" /\ checked < Len(katDataList)
  /\ rng' = IF checked = 0 THEN <<Value("seed"), 0>> ELSE rng
  /\ pc' = "keygen"
  /\ UNCHANGED <<file, at, katReqData, katDataList, checked, keys, failures>>

Seed ==
  /\ pc = "check" /\ checked < Len(katDataList)
  /\ rng' = <<Value("seed"), 0>>
  /\ pc' = "keygen"
  /\ UNCHANGED <<file, at, katReqData, katDataList, checked, keys, failures>>

\* The two comparisons of the keys report and go on.
CompareKeys ==
  /\ pc = "keygen"
  /\ LET drawn == <<"keygen", rng>>
     IN /\ keys' = [pk |-> <<"pk", drawn>>, sk |-> <<"sk", drawn>>]
        /\ failures' = failures \cup {<<checked + 1, f>> : f \in {g \in {"pk", "sk"} : Value(g) # keys'[g]}}
  /\ rng' = <<rng[1], rng[2] + 1>>
  /\ pc' = "sign"
  /\ UNCHANGED <<file, at, katReqData, katDataList, checked>>

\* The message is signed with the generated key, not with the one of the file.
CompareSignature ==
  /\ pc = "sign"
  /\ LET sig == <<"sm", keys.sk, Value("msg"), rng>>
     IN failures' = IF sig = Value("sm") THEN failures ELSE failures \cup {<<checked + 1, "sm">>}
  /\ rng' = <<rng[1], rng[2] + 1>>
  /\ checked' = checked + 1
  /\ pc' = "check"
  /\ UNCHANGED <<file, at, katReqData, katDataList, keys>>

Finish ==
  /\ pc = "check" /\ checked = Len(katDataList)
  /\ pc' = "done"
  /\ UNCHANGED <<file, at, katReqData, katDataList, checked, rng, keys, failures>>

Next == \/ SkipHeader \/ EndOfRecords \/ StartRecord \/ ReadField \/ AppendRecord
        \/ Seed \/ CompareKeys \/ CompareSignature \/ Finish

Spec == Init /\ [][Next]_vars
----------------------------------------------------------------------------
(* Properties *)

\* However a file is cut off, what was read are whole records from its start:
\* no record mixes the lines of two, and a cut inside a record never passes.
NoRecordMixed ==
  /\ Len(katDataList) <= Len(file.content)
  /\ \A c \in 1 .. Len(katDataList) : katDataList[c] = file.content[c]

\* An intact file is read to its end, with or without its last blank line.
\* A blank line too many between two records ends it there, without a message.
IntactFileRead ==
  pc \in {"check", "done"} /\ file.intact => katDataList = file.content

\* What the right implementation returns for a seed and a message.
Answer(seed, msg, field) ==
  LET sk == <<"sk", <<"keygen", <<seed, 0>>>>>>
  IN [pk |-> <<"pk", <<"keygen", <<seed, 0>>>>>>,
      sk |-> sk,
      sm |-> <<"sm", sk, msg, <<seed, 1>>>>][field]

\* The fields of a record that do not hold the right answer.
WrongFields(record) ==
  {f \in {"pk", "sk", "sm"} :
     \E index \in DOMAIN Fields :
       Fields[index] = f /\ record[index] # Answer(record[2], record[4], f)}

\* The test reports exactly the wrong fields, each at its own record: no record
\* depends on what the generator did for the records before it.
ReportsExactlyWrong ==
  pc = "done" =>
    failures = UNION {{<<c, f>> : f \in WrongFields(katDataList[c])} : c \in 1 .. Len(katDataList)}
============================================================================
