----------------------------- MODULE CliProofs -----------------------------
(***************************************************************************)
(* Proofs about the benchmark, for any number of samples, any repetition   *)
(* counts and any arguments:                                               *)
(*                                                                         *)
(*   - a results file is complete (FilesComplete);                         *)
(*   - the verifications that are timed succeed;                           *)
(*   - the sizes of the struct are those of what is packed (StructFits).   *)
(***************************************************************************)
EXTENDS Cli, SequenceTheorems, SliceProofs, TLAPS

\* The loops of Benchmark, in order, and the other places of the program.
AfterKeyGen   == {"generate", "ExpandSK", "ExpandPK", "Sign", "Verify", "write"}
AfterGenerate == AfterKeyGen \ {"generate"}
AfterExpandSK == AfterGenerate \ {"ExpandSK"}
AfterExpandPK == AfterExpandSK \ {"ExpandPK"}
AfterSign     == AfterExpandPK \ {"Sign"}
Benchmarking  == AfterKeyGen \cup {"KeyGen"}
Elsewhere     == {"flags", "report", "demoKeyGen", "demoSign", "demoVerify", "done"}

Timings == [0 .. n - 1 -> Nat \X Nat]

TypeOK ==
  /\ n \in Int
  /\ pc \in Benchmarking \cup Elsewhere \cup {"panic"}
  /\ sample \in Nat /\ run \in Nat
  /\ pc \in Benchmarking => sample \in 0 .. n - 1
  /\ pc = "write" => sample = 0
  /\ pc \in Elsewhere => sample = 0
  /\ results \in [Columns -> Timings]

\* The types hold initially.
LEMMA TypeInit == Init => TypeOK
<1> SUFFICES ASSUME Init PROVE TypeOK
  OBVIOUS
<1>1. n \in Int
  BY CliAssumption DEF Init, n
<1>2. results \in [Columns -> Timings]
  BY DEF Init, Timings
<1>3. sample = 0 /\ run = 0 /\ pc = "flags"
  BY DEF Init
<1>4. pc \in Elsewhere /\ pc \notin Benchmarking /\ pc # "write"
  BY <1>3 DEF Elsewhere, Benchmarking, AfterKeyGen
<1> QED BY <1>1, <1>2, <1>3, <1>4 DEF TypeOK

\* One entry of one column is assigned.
LEMMA RecordType ==
  ASSUME results \in [Columns -> Timings], NEW column \in Columns, sample \in 0 .. n - 1,
         NEW operations \in Nat, NEW divisor \in Nat,
         Record(column, operations, divisor)
  PROVE  /\ results' \in [Columns -> Timings]
         /\ results'[column][sample] = <<operations, divisor>>
         /\ \A s \in 0 .. n - 1 : s # sample => results'[column][s] = results[column][s]
         /\ \A c \in Columns : c # column => results'[c] = results[c]
<1>1. results' = [results EXCEPT ![column][sample] = <<operations, divisor>>]
  BY DEF Record
<1>2. results[column] \in Timings
  OBVIOUS
<1>3. <<operations, divisor>> \in Nat \X Nat
  OBVIOUS
<1>4. [results[column] EXCEPT ![sample] = <<operations, divisor>>] \in Timings
  BY <1>2, <1>3 DEF Timings
<1>5. results' = [results EXCEPT ![column] = [results[column] EXCEPT ![sample] = <<operations, divisor>>]]
  BY <1>1
<1>6. results'[column] = [results[column] EXCEPT ![sample] = <<operations, divisor>>]
  BY <1>5
<1>7. results' \in [Columns -> Timings] /\ \A c \in Columns : c # column => results'[c] = results[c]
  BY <1>4, <1>5
<1> QED BY <1>2, <1>6, <1>7 DEF Timings

\* The end of an iteration.
LEMMA AdvanceSteps ==
  ASSUME n \in Int, sample \in 0 .. n - 1, NEW next, Advance(next)
  PROVE  /\ sample' \in 0 .. n - 1
         /\ \/ sample' = sample + 1 /\ sample' < n /\ pc' = pc
            \/ sample' = 0 /\ sample + 1 = n /\ pc' = next
  BY DEF Advance

-----------------------------------------------------------------------------
\* The columns.

Complete(entry) == entry[1] > 0 /\ entry[1] = entry[2]
FilledUpTo(column, k) == \A s \in 0 .. k - 1 : Complete(results[column][s])

\* The column of a loop is filled up to its entry, those of the loops before
\* are full.
ColumnInv(column, after) ==
  /\ pc = column => FilledUpTo(column, sample)
  /\ pc \in after => FilledUpTo(column, n)

Progress ==
  /\ ColumnInv("KeyGen", AfterKeyGen)
  /\ ColumnInv("ExpandSK", AfterExpandSK)
  /\ ColumnInv("ExpandPK", AfterExpandPK)
  /\ ColumnInv("Sign", AfterSign)
  /\ ColumnInv("Verify", {"write"})

\* One entry more is filled.
LEMMA OneMore ==
  ASSUME TypeOK, NEW column \in Columns, sample \in 0 .. n - 1, FilledUpTo(column, sample),
         NEW operations \in Nat \ {0}, Record(column, operations, operations), n' = n
  PROVE  /\ \A s \in 0 .. sample : Complete(results'[column][s])
         /\ results' \in [Columns -> Timings]
         /\ \A c \in Columns : c # column => results'[c] = results[c]
<1>1. /\ results' \in [Columns -> Timings]
      /\ results'[column][sample] = <<operations, operations>>
      /\ \A s \in 0 .. n - 1 : s # sample => results'[column][s] = results[column][s]
      /\ \A c \in Columns : c # column => results'[c] = results[c]
  BY RecordType DEF TypeOK
<1>2. Complete(<<operations, operations>>)
  BY DEF Complete
<1>3. ASSUME NEW s \in 0 .. sample PROVE Complete(results'[column][s])
  <2>1. CASE s = sample
    BY <1>1, <1>2, <2>1
  <2>2. CASE s # sample
    <3>1. s \in 0 .. n - 1 /\ s \in 0 .. sample - 1
      BY <2>2 DEF TypeOK
    <3> QED BY <1>1, <2>2, <3>1 DEF FilledUpTo
  <2> QED BY <2>1, <2>2
<1> QED BY <1>1, <1>3

\* What the end of an iteration of a loop over a column leaves.
LEMMA ColumnStep ==
  ASSUME TypeOK, NEW column \in Columns, pc = column, column \in Benchmarking \ {"write"},
         FilledUpTo(column, sample),
         NEW operations \in Nat \ {0}, Record(column, operations, operations),
         NEW next \in Benchmarking \ {column}, Advance(next), n' = n
  PROVE  /\ sample' \in 0 .. n - 1 /\ n > 0
         /\ results' \in [Columns -> Timings]
         /\ pc' \in {column, next}
         /\ pc' = column => FilledUpTo(column, sample)'
         /\ pc' = next => sample' = 0 /\ FilledUpTo(column, n)'
         /\ \A c \in Columns : c # column => results'[c] = results[c]
<1>1. sample \in 0 .. n - 1 /\ n \in Int
  BY DEF TypeOK
<1>2. /\ \A s \in 0 .. sample : Complete(results'[column][s])
      /\ results' \in [Columns -> Timings]
      /\ \A c \in Columns : c # column => results'[c] = results[c]
  BY <1>1, OneMore
<1>3. /\ sample' \in 0 .. n - 1 /\ n > 0
      /\ \/ sample' = sample + 1 /\ sample' < n /\ pc' = pc
         \/ sample' = 0 /\ sample + 1 = n /\ pc' = next
  BY <1>1, AdvanceSteps
<1>4. pc' = column => FilledUpTo(column, sample)'
  <2> SUFFICES ASSUME pc' = column PROVE FilledUpTo(column, sample)'
    OBVIOUS
  <2>1. sample' = sample + 1
    BY <1>3
  <2>2. 0 .. sample' - 1 = 0 .. sample
    BY <1>1, <2>1
  <2> QED BY <1>2, <2>2 DEF FilledUpTo
<1>5. pc' = next => FilledUpTo(column, n)'
  BY <1>1, <1>2, <1>3 DEF FilledUpTo
<1> QED BY <1>2, <1>3, <1>4, <1>5

\* A step of one of the loops that repeat an operation runs times.
LEMMA RepeatedStep ==
  ASSUME TypeOK, NEW column \in Columns, column \in Benchmarking \ {"write"},
         FilledUpTo(column, sample), NEW runs \in Nat \ {0},
         NEW next \in Benchmarking \ {column}, Repeated(column, runs, runs, next)
  PROVE  /\ sample' \in 0 .. n - 1 /\ n > 0 /\ n' = n /\ run' \in Nat
         /\ results' \in [Columns -> Timings]
         /\ pc = column /\ pc' \in {column, next}
         /\ pc' = column => FilledUpTo(column, sample)'
         /\ pc' = next => sample' = 0 /\ FilledUpTo(column, n)'
         /\ \A c \in Columns : c # column => results'[c] = results[c]
<1>1. pc = column /\ n' = n /\ sample \in 0 .. n - 1
  BY DEF Repeated, environs, n, TypeOK
<1>2. CASE run + 1 < runs
  BY <1>1, <1>2 DEF Repeated, TypeOK, FilledUpTo
<1>3. CASE ~(run + 1 < runs)
  <2>1. run' = 0 /\ Record(column, runs, runs) /\ Advance(next)
    BY <1>3 DEF Repeated
  <2> QED BY <1>1, <2>1, ColumnStep
<1> QED BY <1>2, <1>3

\* The columns a step leaves alone.
LEMMA OtherColumn ==
  ASSUME NEW column, NEW after, ColumnInv(column, after), n' = n,
         results'[column] = results[column],
         pc' = column => sample' = 0, pc' \in after => pc \in after
  PROVE  ColumnInv(column, after)'
  BY DEF ColumnInv, FilledUpTo

\* Every step keeps the types and the columns.
LEMMA TypeAndProgressStep == TypeOK /\ Progress /\ [Next]_vars => TypeOK' /\ Progress'
<1> SUFFICES ASSUME TypeOK, Progress, [Next]_vars
             PROVE  TypeOK' /\ Progress'
  OBVIOUS
<1> USE DEF Columns, Benchmarking, AfterKeyGen, AfterGenerate, AfterExpandSK, AfterExpandPK,
            AfterSign, Elsewhere
<1>1. CASE StartBenchmark
  <2>1. /\ n' = n /\ pc' \in {"KeyGen", "panic"} /\ n > 0 /\ sample' = sample /\ run' = run /\ results' = results
        /\ pc \in Elsewhere \cup {"write"}
    BY <1>1, Zenon DEF StartBenchmark, environs, loops, n
  <2>2. TypeOK'
    BY <2>1 DEF TypeOK, Timings
  <2>3. Progress'
    <3>1. sample' = 0
      BY <2>1 DEF TypeOK
    <3>2. FilledUpTo("KeyGen", sample)'
      BY <3>1 DEF FilledUpTo
    <3> QED BY <2>1, <3>2 DEF Progress, ColumnInv
  <2> QED BY <2>2, <2>3
<1>2. CASE TimeKeyGen
  <2>1. /\ n' = n /\ n \in Int /\ pc = "KeyGen" /\ run' \in Nat
        /\ Record("KeyGen", 1, 1) /\ Advance("generate")
    BY <1>2 DEF TimeKeyGen, TypeOK, environs, n
  <2>2. FilledUpTo("KeyGen", sample)
    BY <2>1 DEF Progress, ColumnInv
  <2>3. /\ sample' \in 0 .. n - 1 /\ n > 0 /\ run' \in Nat
        /\ results' \in [Columns -> Timings]
        /\ pc' \in {"KeyGen", "generate"}
        /\ pc' = "KeyGen" => FilledUpTo("KeyGen", sample)'
        /\ pc' = "generate" => sample' = 0 /\ FilledUpTo("KeyGen", n)'
        /\ \A c \in Columns : c # "KeyGen" => results'[c] = results[c]
    BY <2>1, <2>2, ColumnStep
  <2>4. TypeOK'
    BY <2>1, <2>3 DEF TypeOK, Timings
  <2>5. ColumnInv("KeyGen", AfterKeyGen)'
    BY <2>3 DEF ColumnInv
  <2>6. ColumnInv("ExpandSK", AfterExpandSK)'
    <3>1. (pc' = "ExpandSK" => sample' = 0) /\ (pc' \in AfterExpandSK => pc \in AfterExpandSK)
      BY <2>1, <2>3
    <3>2. results'["ExpandSK"] = results["ExpandSK"]
      BY <2>3
    <3> QED BY <2>1, <3>1, <3>2, OtherColumn, Zenon DEF Progress
  <2>7. ColumnInv("ExpandPK", AfterExpandPK)'
    <3>1. (pc' = "ExpandPK" => sample' = 0) /\ (pc' \in AfterExpandPK => pc \in AfterExpandPK)
      BY <2>1, <2>3
    <3>2. results'["ExpandPK"] = results["ExpandPK"]
      BY <2>3
    <3> QED BY <2>1, <3>1, <3>2, OtherColumn, Zenon DEF Progress
  <2>8. ColumnInv("Sign", AfterSign)'
    <3>1. (pc' = "Sign" => sample' = 0) /\ (pc' \in AfterSign => pc \in AfterSign)
      BY <2>1, <2>3
    <3>2. results'["Sign"] = results["Sign"]
      BY <2>3
    <3> QED BY <2>1, <3>1, <3>2, OtherColumn, Zenon DEF Progress
  <2>9. ColumnInv("Verify", {"write"})'
    <3>1. (pc' = "Verify" => sample' = 0) /\ (pc' \in {"write"} => pc \in {"write"})
      BY <2>1, <2>3
    <3>2. results'["Verify"] = results["Verify"]
      BY <2>3
    <3> QED BY <2>1, <3>1, <3>2, OtherColumn, Zenon DEF Progress
  <2> QED BY <2>4, <2>5, <2>6, <2>7, <2>8, <2>9 DEF Progress
<1>3. CASE generateCompactKeys
  <2>1. /\ n' = n /\ n \in Int /\ pc = "generate" /\ run' \in Nat
        /\ results' = results /\ Advance("ExpandSK")
    BY <1>3 DEF generateCompactKeys, TypeOK, environs, n
  <2>2. /\ sample' \in 0 .. n - 1
        /\ pc' \in {"generate", "ExpandSK"} /\ (pc' = "ExpandSK" => sample' = 0)
    BY <2>1, AdvanceSteps DEF TypeOK
  <2>3. TypeOK'
    BY <2>1, <2>2 DEF TypeOK, Timings
  <2>4. /\ FilledUpTo("KeyGen", n)
        /\ \A c \in {"ExpandSK", "ExpandPK", "Sign", "Verify"} : pc' = c => sample' = 0
    BY <2>1, <2>2 DEF Progress, ColumnInv
  <2>5. Progress'
    <3>1. ColumnInv("KeyGen", AfterKeyGen)'
      BY <2>1, <2>2, <2>4 DEF ColumnInv, FilledUpTo
    <3>2. ColumnInv("ExpandSK", AfterExpandSK)'
      BY <2>1, <2>2, <2>4, OtherColumn DEF Progress
    <3>3. ColumnInv("ExpandPK", AfterExpandPK)'
      BY <2>1, <2>2, <2>4, OtherColumn DEF Progress
    <3>4. ColumnInv("Sign", AfterSign)'
      BY <2>1, <2>2, <2>4, OtherColumn DEF Progress
    <3>5. ColumnInv("Verify", {"write"})'
      BY <2>1, <2>2, <2>4, OtherColumn DEF Progress
    <3> QED BY <3>1, <3>2, <3>3, <3>4, <3>5 DEF Progress
  <2> QED BY <2>3, <2>5
<1>4. CASE TimeExpandSK
  <2>1. /\ n' = n /\ n \in Int /\ pc = "ExpandSK" /\ run' \in Nat
        /\ Record("ExpandSK", 1, 1) /\ Advance("ExpandPK")
    BY <1>4 DEF TimeExpandSK, TypeOK, environs, n
  <2>2. FilledUpTo("ExpandSK", sample)
    BY <2>1 DEF Progress, ColumnInv
  <2>3. /\ sample' \in 0 .. n - 1 /\ n > 0 /\ run' \in Nat
        /\ results' \in [Columns -> Timings]
        /\ pc' \in {"ExpandSK", "ExpandPK"}
        /\ pc' = "ExpandSK" => FilledUpTo("ExpandSK", sample)'
        /\ pc' = "ExpandPK" => sample' = 0 /\ FilledUpTo("ExpandSK", n)'
        /\ \A c \in Columns : c # "ExpandSK" => results'[c] = results[c]
    BY <2>1, <2>2, ColumnStep
  <2>4. TypeOK'
    BY <2>1, <2>3 DEF TypeOK, Timings
  <2>5. ColumnInv("ExpandSK", AfterExpandSK)'
    BY <2>3 DEF ColumnInv
  <2>6. ColumnInv("KeyGen", AfterKeyGen)'
    <3>1. (pc' = "KeyGen" => sample' = 0) /\ (pc' \in AfterKeyGen => pc \in AfterKeyGen)
      BY <2>1, <2>3
    <3>2. results'["KeyGen"] = results["KeyGen"]
      BY <2>3
    <3> QED BY <2>1, <3>1, <3>2, OtherColumn, Zenon DEF Progress
  <2>7. ColumnInv("ExpandPK", AfterExpandPK)'
    <3>1. (pc' = "ExpandPK" => sample' = 0) /\ (pc' \in AfterExpandPK => pc \in AfterExpandPK)
      BY <2>1, <2>3
    <3>2. results'["ExpandPK"] = results["ExpandPK"]
      BY <2>3
    <3> QED BY <2>1, <3>1, <3>2, OtherColumn, Zenon DEF Progress
  <2>8. ColumnInv("Sign", AfterSign)'
    <3>1. (pc' = "Sign" => sample' = 0) /\ (pc' \in AfterSign => pc \in AfterSign)
      BY <2>1, <2>3
    <3>2. results'["Sign"] = results["Sign"]
      BY <2>3
    <3> QED BY <2>1, <3>1, <3>2, OtherColumn, Zenon DEF Progress
  <2>9. ColumnInv("Verify", {"write"})'
    <3>1. (pc' = "Verify" => sample' = 0) /\ (pc' \in {"write"} => pc \in {"write"})
      BY <2>1, <2>3
    <3>2. results'["Verify"] = results["Verify"]
      BY <2>3
    <3> QED BY <2>1, <3>1, <3>2, OtherColumn, Zenon DEF Progress
  <2> QED BY <2>4, <2>5, <2>6, <2>7, <2>8, <2>9 DEF Progress
<1>5. CASE TimeExpandPK
  <2>1. /\ n' = n /\ n \in Int /\ pc = "ExpandPK"
    BY <1>5 DEF TimeExpandPK, Repeated, TypeOK, environs, n
  <2>2. FilledUpTo("ExpandPK", sample)
    BY <2>1 DEF Progress, ColumnInv
  <2>3. /\ sample' \in 0 .. n - 1 /\ n > 0 /\ run' \in Nat
        /\ results' \in [Columns -> Timings]
        /\ pc' \in {"ExpandPK", "Sign"}
        /\ pc' = "ExpandPK" => FilledUpTo("ExpandPK", sample)'
        /\ pc' = "Sign" => sample' = 0 /\ FilledUpTo("ExpandPK", n)'
        /\ \A c \in Columns : c # "ExpandPK" => results'[c] = results[c]
    BY <1>5, <2>1, <2>2, RepeatedStep, CliAssumption DEF TimeExpandPK
  <2>4. TypeOK'
    BY <2>1, <2>3 DEF TypeOK, Timings
  <2>5. ColumnInv("ExpandPK", AfterExpandPK)'
    BY <2>3 DEF ColumnInv
  <2>6. ColumnInv("KeyGen", AfterKeyGen)'
    <3>1. (pc' = "KeyGen" => sample' = 0) /\ (pc' \in AfterKeyGen => pc \in AfterKeyGen)
      BY <2>1, <2>3
    <3>2. results'["KeyGen"] = results["KeyGen"]
      BY <2>3
    <3> QED BY <2>1, <3>1, <3>2, OtherColumn, Zenon DEF Progress
  <2>7. ColumnInv("ExpandSK", AfterExpandSK)'
    <3>1. (pc' = "ExpandSK" => sample' = 0) /\ (pc' \in AfterExpandSK => pc \in AfterExpandSK)
      BY <2>1, <2>3
    <3>2. results'["ExpandSK"] = results["ExpandSK"]
      BY <2>3
    <3> QED BY <2>1, <3>1, <3>2, OtherColumn, Zenon DEF Progress
  <2>8. ColumnInv("Sign", AfterSign)'
    <3>1. (pc' = "Sign" => sample' = 0) /\ (pc' \in AfterSign => pc \in AfterSign)
      BY <2>1, <2>3
    <3>2. results'["Sign"] = results["Sign"]
      BY <2>3
    <3> QED BY <2>1, <3>1, <3>2, OtherColumn, Zenon DEF Progress
  <2>9. ColumnInv("Verify", {"write"})'
    <3>1. (pc' = "Verify" => sample' = 0) /\ (pc' \in {"write"} => pc \in {"write"})
      BY <2>1, <2>3
    <3>2. results'["Verify"] = results["Verify"]
      BY <2>3
    <3> QED BY <2>1, <3>1, <3>2, OtherColumn, Zenon DEF Progress
  <2> QED BY <2>4, <2>5, <2>6, <2>7, <2>8, <2>9 DEF Progress
<1>6. CASE TimeSign
  <2>1. CASE Record("Sign", 1, 1) /\ Advance("Verify")
    <3>1. /\ n' = n /\ n \in Int /\ pc = "Sign" /\ run' \in Nat
          /\ Record("Sign", 1, 1) /\ Advance("Verify")
      BY <1>6, <2>1 DEF TimeSign, TypeOK, environs, n
    <3>2. FilledUpTo("Sign", sample)
      BY <3>1 DEF Progress, ColumnInv
    <3>3. /\ sample' \in 0 .. n - 1 /\ n > 0 /\ run' \in Nat
          /\ results' \in [Columns -> Timings]
          /\ pc' \in {"Sign", "Verify"}
          /\ pc' = "Sign" => FilledUpTo("Sign", sample)'
          /\ pc' = "Verify" => sample' = 0 /\ FilledUpTo("Sign", n)'
          /\ \A c \in Columns : c # "Sign" => results'[c] = results[c]
      BY <3>1, <3>2, ColumnStep
    <3>4. TypeOK'
      BY <3>1, <3>3 DEF TypeOK, Timings
    <3>5. ColumnInv("Sign", AfterSign)'
      BY <3>3 DEF ColumnInv
    <3>6. ColumnInv("KeyGen", AfterKeyGen)'
      <4>1. (pc' = "KeyGen" => sample' = 0) /\ (pc' \in AfterKeyGen => pc \in AfterKeyGen)
        BY <3>1, <3>3
      <4>2. results'["KeyGen"] = results["KeyGen"]
        BY <3>3
      <4> QED BY <3>1, <4>1, <4>2, OtherColumn, Zenon DEF Progress
    <3>7. ColumnInv("ExpandSK", AfterExpandSK)'
      <4>1. (pc' = "ExpandSK" => sample' = 0) /\ (pc' \in AfterExpandSK => pc \in AfterExpandSK)
        BY <3>1, <3>3
      <4>2. results'["ExpandSK"] = results["ExpandSK"]
        BY <3>3
      <4> QED BY <3>1, <4>1, <4>2, OtherColumn, Zenon DEF Progress
    <3>8. ColumnInv("ExpandPK", AfterExpandPK)'
      <4>1. (pc' = "ExpandPK" => sample' = 0) /\ (pc' \in AfterExpandPK => pc \in AfterExpandPK)
        BY <3>1, <3>3
      <4>2. results'["ExpandPK"] = results["ExpandPK"]
        BY <3>3
      <4> QED BY <3>1, <4>1, <4>2, OtherColumn, Zenon DEF Progress
    <3>9. ColumnInv("Verify", {"write"})'
      <4>1. (pc' = "Verify" => sample' = 0) /\ (pc' \in {"write"} => pc \in {"write"})
        BY <3>1, <3>3
      <4>2. results'["Verify"] = results["Verify"]
        BY <3>3
      <4> QED BY <3>1, <4>1, <4>2, OtherColumn, Zenon DEF Progress
    <3> QED BY <3>4, <3>5, <3>6, <3>7, <3>8, <3>9 DEF Progress
  <2>2. CASE SigningFails /\ UNCHANGED <<sample, results>>
    <3>1. n' = n /\ pc' = "panic" /\ sample' = sample /\ run' = run /\ results' = results
      BY <1>6, <2>2, Zenon DEF TimeSign, SigningFails, environs, n
    <3>2. TypeOK'
      BY <3>1 DEF TypeOK, Timings
    <3>3. Progress'
      BY <3>1 DEF Progress, ColumnInv
    <3> QED BY <3>2, <3>3
  <2> QED BY <1>6, <2>1, <2>2 DEF TimeSign
<1>7. CASE TimeVerify
  <2>1. /\ n' = n /\ n \in Int /\ pc = "Verify"
    BY <1>7 DEF TimeVerify, Repeated, TypeOK, environs, n
  <2>2. FilledUpTo("Verify", sample)
    BY <2>1 DEF Progress, ColumnInv
  <2>3. /\ sample' \in 0 .. n - 1 /\ n > 0 /\ run' \in Nat
        /\ results' \in [Columns -> Timings]
        /\ pc' \in {"Verify", "write"}
        /\ pc' = "Verify" => FilledUpTo("Verify", sample)'
        /\ pc' = "write" => sample' = 0 /\ FilledUpTo("Verify", n)'
        /\ \A c \in Columns : c # "Verify" => results'[c] = results[c]
    BY <1>7, <2>1, <2>2, RepeatedStep, CliAssumption DEF TimeVerify
  <2>4. TypeOK'
    BY <2>1, <2>3 DEF TypeOK, Timings
  <2>5. ColumnInv("Verify", {"write"})'
    BY <2>3 DEF ColumnInv
  <2>6. ColumnInv("KeyGen", AfterKeyGen)'
    <3>1. (pc' = "KeyGen" => sample' = 0) /\ (pc' \in AfterKeyGen => pc \in AfterKeyGen)
      BY <2>1, <2>3
    <3>2. results'["KeyGen"] = results["KeyGen"]
      BY <2>3
    <3> QED BY <2>1, <3>1, <3>2, OtherColumn, Zenon DEF Progress
  <2>7. ColumnInv("ExpandSK", AfterExpandSK)'
    <3>1. (pc' = "ExpandSK" => sample' = 0) /\ (pc' \in AfterExpandSK => pc \in AfterExpandSK)
      BY <2>1, <2>3
    <3>2. results'["ExpandSK"] = results["ExpandSK"]
      BY <2>3
    <3> QED BY <2>1, <3>1, <3>2, OtherColumn, Zenon DEF Progress
  <2>8. ColumnInv("ExpandPK", AfterExpandPK)'
    <3>1. (pc' = "ExpandPK" => sample' = 0) /\ (pc' \in AfterExpandPK => pc \in AfterExpandPK)
      BY <2>1, <2>3
    <3>2. results'["ExpandPK"] = results["ExpandPK"]
      BY <2>3
    <3> QED BY <2>1, <3>1, <3>2, OtherColumn, Zenon DEF Progress
  <2>9. ColumnInv("Sign", AfterSign)'
    <3>1. (pc' = "Sign" => sample' = 0) /\ (pc' \in AfterSign => pc \in AfterSign)
      BY <2>1, <2>3
    <3>2. results'["Sign"] = results["Sign"]
      BY <2>3
    <3> QED BY <2>1, <3>1, <3>2, OtherColumn, Zenon DEF Progress
  <2> QED BY <2>4, <2>5, <2>6, <2>7, <2>8, <2>9 DEF Progress
<1>8. CASE WriteResults
  <2>1. /\ n' = n /\ pc' = "report" /\ sample' = sample /\ run' = run /\ results' = results
        /\ pc \in Elsewhere \cup {"write"}
    BY <1>8, Zenon DEF WriteResults, environs, loops, n
  <2>2. TypeOK'
    BY <2>1 DEF TypeOK, Timings
  <2>3. Progress'
    BY <2>1 DEF Progress, ColumnInv, FilledUpTo
  <2> QED BY <2>2, <2>3
<1>9. CASE ReportBenchmark
  <2>1. /\ n' = n /\ pc' = "done" /\ sample' = sample /\ run' = run /\ results' = results
        /\ pc \in Elsewhere \cup {"write"}
    BY <1>9, Zenon DEF ReportBenchmark, environs, loops, n
  <2>2. TypeOK'
    BY <2>1 DEF TypeOK, Timings
  <2>3. Progress'
    BY <2>1 DEF Progress, ColumnInv, FilledUpTo
  <2> QED BY <2>2, <2>3
<1>10. CASE StartDemo
  <2>1. /\ n' = n /\ pc' = "demoKeyGen" /\ sample' = sample /\ run' = run /\ results' = results
        /\ pc \in Elsewhere \cup {"write"}
    BY <1>10, Zenon DEF StartDemo, environs, loops, n
  <2>2. TypeOK'
    BY <2>1 DEF TypeOK, Timings
  <2>3. Progress'
    BY <2>1 DEF Progress, ColumnInv, FilledUpTo
  <2> QED BY <2>2, <2>3
<1>11. CASE DemoKeyGen
  <2>1. /\ n' = n /\ pc' = "demoSign" /\ sample' = sample /\ run' = run /\ results' = results
        /\ pc \in Elsewhere \cup {"write"}
    BY <1>11, Zenon DEF DemoKeyGen, environs, loops, n
  <2>2. TypeOK'
    BY <2>1 DEF TypeOK, Timings
  <2>3. Progress'
    BY <2>1 DEF Progress, ColumnInv, FilledUpTo
  <2> QED BY <2>2, <2>3
<1>12. CASE DemoSign
  <2>1. /\ n' = n /\ pc' \in {"demoVerify", "panic"} /\ sample' = sample /\ run' = run /\ results' = results
        /\ pc \in Elsewhere \cup {"write"}
    BY <1>12, Zenon DEF DemoSign, SigningFails, environs, loops, n
  <2>2. TypeOK'
    BY <2>1 DEF TypeOK, Timings
  <2>3. Progress'
    BY <2>1 DEF Progress, ColumnInv, FilledUpTo
  <2> QED BY <2>2, <2>3
<1>13. CASE DemoVerify
  <2>1. /\ n' = n /\ pc' = "done" /\ sample' = sample /\ run' = run /\ results' = results
        /\ pc \in Elsewhere \cup {"write"}
    BY <1>13, Zenon DEF DemoVerify, environs, loops, n
  <2>2. TypeOK'
    BY <2>1 DEF TypeOK, Timings
  <2>3. Progress'
    BY <2>1 DEF Progress, ColumnInv, FilledUpTo
  <2> QED BY <2>2, <2>3
<1>14. CASE UNCHANGED vars
  BY <1>14 DEF vars, environs, loops, keys, outputs, n, TypeOK, Timings, Progress, ColumnInv, FilledUpTo
<1> QED BY <1>1, <1>2, <1>3, <1>4, <1>5, <1>6, <1>7, <1>8, <1>9, <1>10, <1>11, <1>12, <1>13, <1>14 DEF Next

\* The types and the columns are an invariant.
LEMMA TypeAndProgress == Spec => [](TypeOK /\ Progress)
<1>1. Init => Progress
  BY DEF Init, Progress, ColumnInv, AfterKeyGen, AfterGenerate, AfterExpandSK, AfterExpandPK, AfterSign
<1> QED BY <1>1, TypeInit, TypeAndProgressStep, PTL DEF Spec

\* A file holds all five columns, every entry the mean of the operations timed
\* for it: Benchmark writes the file after its last loop and no earlier.
THEOREM FilesCompleteHolds == Spec => []FilesComplete
<1>1. Init => FilesComplete
  BY DEF Init, FilesComplete
<1>2. TypeOK /\ Progress /\ FilesComplete /\ [Next]_vars => FilesComplete'
  <2> SUFFICES ASSUME TypeOK, Progress, FilesComplete, [Next]_vars
               PROVE  FilesComplete'
    OBVIOUS
  <2>1. n' = n
    BY Zenon DEF Next, vars, environs, n, StartBenchmark, TimeKeyGen, generateCompactKeys, TimeExpandSK,
           TimeExpandPK, Repeated, TimeSign, TimeVerify, WriteResults, ReportBenchmark,
           StartDemo, DemoKeyGen, DemoSign, DemoVerify
  <2>2. CASE files' = files
    BY <2>1, <2>2 DEF FilesComplete
  <2>3. CASE WriteResults /\ files' = files \cup {results}
    <3>1. pc = "write"
      BY <2>3 DEF WriteResults
    <3>2. \A c \in Columns : FilledUpTo(c, n)
      BY <3>1 DEF Progress, ColumnInv, Columns, AfterKeyGen, AfterGenerate, AfterExpandSK,
                  AfterExpandPK, AfterSign
    <3>3. \A c \in Columns : DOMAIN results[c] = 0 .. n - 1
      BY DEF TypeOK, Timings
    <3>4. \A c \in Columns : \A s \in DOMAIN results[c] :
            results[c][s][1] > 0 /\ results[c][s][1] = results[c][s][2]
      BY <3>2, <3>3, Zenon DEF FilledUpTo, Complete
    <3> SUFFICES ASSUME NEW file \in files', NEW c \in Columns
                 PROVE  /\ DOMAIN file[c] = 0 .. n - 1
                        /\ \A s \in DOMAIN file[c] : file[c][s][1] > 0 /\ file[c][s][1] = file[c][s][2]
      BY <2>1, Zenon DEF FilesComplete
    <3>5. CASE file \in files
      BY <3>5, Zenon DEF FilesComplete
    <3>6. CASE file = results
      BY <3>3, <3>4, <3>6, Zenon
    <3> QED BY <2>3, <3>5, <3>6, Zenon
  <2> QED BY <2>2, <2>3, Zenon
          DEF Next, vars, outputs, StartBenchmark, TimeKeyGen, generateCompactKeys, TimeExpandSK,
              TimeExpandPK, Repeated, TimeSign, TimeVerify, WriteResults, ReportBenchmark,
              StartDemo, DemoKeyGen, DemoSign, DemoVerify
<1> QED BY <1>1, <1>2, TypeAndProgress, PTL DEF Spec

-----------------------------------------------------------------------------
\* The keys.

\* The first k signatures are under the first k keys.
SignedUpTo(k) == Len(signatures) = k /\ \A i \in 1 .. k : signatures[i] = cpks[i]

KeysInv ==
  /\ csks = cpks
  /\ cpks \in Seq(Nat) /\ signatures \in Seq(Nat) /\ drawn \in Nat
  /\ pc \in {"flags", "KeyGen"} => Len(cpks) = 0
  /\ pc = "generate" => Len(cpks) = sample
  /\ pc = "demoSign" => Len(cpks) = 1
  /\ pc \in AfterGenerate => Len(cpks) = n
  /\ pc \in {"flags", "KeyGen", "generate", "ExpandSK", "ExpandPK"} => SignedUpTo(0)
  /\ pc = "Sign" => SignedUpTo(sample)
  /\ pc \in AfterSign => SignedUpTo(n)

\* Every step keeps keys and signatures in their order.
LEMMA KeysStep == TypeOK /\ KeysInv /\ [Next]_vars => KeysInv'
<1> SUFFICES ASSUME TypeOK, KeysInv, [Next]_vars
             PROVE  KeysInv'
  OBVIOUS
<1> USE DEF Benchmarking, AfterKeyGen, AfterGenerate, AfterExpandSK, AfterExpandPK, AfterSign
<1>1. CASE StartBenchmark
  <2>1. /\ UNCHANGED <<cpks, csks, signatures, drawn>> /\ pc = "flags" /\ pc' \in {"KeyGen", "panic"}
    BY <1>1, Zenon DEF StartBenchmark, keys
  <2> QED BY <2>1 DEF KeysInv, SignedUpTo
<1>2. CASE TimeKeyGen
  <2>1. /\ UNCHANGED <<cpks, csks, signatures>> /\ drawn' = drawn + 1 /\ n' = n
        /\ pc = "KeyGen" /\ Advance("generate") /\ sample \in 0 .. n - 1 /\ n \in Int
    BY <1>2 DEF TimeKeyGen, environs, n, TypeOK
  <2>2. pc' = "KeyGen" \/ (pc' = "generate" /\ sample' = 0)
    BY <2>1, AdvanceSteps
  <2> QED BY <2>1, <2>2 DEF KeysInv, SignedUpTo
<1>3. CASE generateCompactKeys
  <2>1. /\ UNCHANGED signatures /\ drawn' = drawn + 1 /\ n' = n
        /\ pc = "generate" /\ Advance("ExpandSK") /\ sample \in 0 .. n - 1 /\ n \in Int
        /\ cpks' = Append(cpks, drawn') /\ csks' = Append(csks, drawn')
    BY <1>3 DEF generateCompactKeys, environs, n, TypeOK
  <2>2. \/ sample' = sample + 1 /\ pc' = "generate"
        \/ sample' = 0 /\ sample + 1 = n /\ pc' = "ExpandSK"
    BY <2>1, AdvanceSteps
  <2>3. csks' = cpks' /\ drawn' \in Nat /\ cpks' \in Seq(Nat) /\ Len(cpks') = sample + 1
    BY <2>1 DEF KeysInv
  <2>4. SignedUpTo(0)'
    BY <2>1 DEF KeysInv, SignedUpTo
  <2> QED BY <2>1, <2>2, <2>3, <2>4 DEF KeysInv
<1>4. CASE TimeExpandSK
  <2>1. /\ UNCHANGED <<cpks, csks, signatures, drawn>> /\ n' = n
        /\ pc = "ExpandSK" /\ Advance("ExpandPK") /\ sample \in 0 .. n - 1 /\ n \in Int
    BY <1>4 DEF TimeExpandSK, environs, keys, n, TypeOK
  <2>2. pc' \in {"ExpandSK", "ExpandPK"}
    BY <2>1, AdvanceSteps
  <2> QED BY <2>1, <2>2 DEF KeysInv, SignedUpTo
<1>5. CASE TimeExpandPK
  <2>1. /\ UNCHANGED <<cpks, csks, signatures, drawn>> /\ n' = n
        /\ pc = "ExpandPK" /\ sample \in 0 .. n - 1 /\ n \in Int
        /\ pc' = "ExpandPK" \/ Advance("Sign")
    BY <1>5 DEF TimeExpandPK, Repeated, environs, keys, n, TypeOK
  <2>2. pc' = "ExpandPK" \/ (pc' = "Sign" /\ sample' = 0)
    BY <2>1, AdvanceSteps
  <2> QED BY <2>1, <2>2 DEF KeysInv, SignedUpTo
<1>6. CASE TimeSign /\ ~ SigningFails
  <2>1. /\ UNCHANGED <<cpks, csks, drawn>> /\ n' = n
        /\ pc = "Sign" /\ Advance("Verify") /\ sample \in 0 .. n - 1 /\ n \in Int
        /\ signatures' = Append(signatures, csks[sample + 1])
    BY <1>6 DEF TimeSign, environs, n, TypeOK
  <2>2. \/ sample' = sample + 1 /\ pc' = "Sign"
        \/ sample' = 0 /\ sample + 1 = n /\ pc' = "Verify"
    BY <2>1, AdvanceSteps
  <2>3. /\ csks = cpks /\ cpks \in Seq(Nat) /\ signatures \in Seq(Nat) /\ Len(cpks) = n
        /\ Len(signatures) = sample /\ \A i \in 1 .. sample : signatures[i] = cpks[i]
    BY <2>1 DEF KeysInv, SignedUpTo
  <2>4. cpks[sample + 1] \in Nat
    BY <2>1, <2>3
  <2>5. /\ signatures' \in Seq(Nat) /\ Len(signatures') = sample + 1
        /\ \A i \in 1 .. sample : signatures'[i] = signatures[i]
        /\ signatures'[sample + 1] = cpks[sample + 1]
    BY <2>1, <2>3, <2>4
  <2>6. \A i \in 1 .. sample + 1 : signatures'[i] = cpks[i]
    BY <2>1, <2>3, <2>5
  <2>7. pc' = "Sign" => SignedUpTo(sample)'
    BY <2>1, <2>2, <2>5, <2>6 DEF SignedUpTo
  <2>8. pc' = "Verify" => SignedUpTo(n)'
    BY <2>1, <2>2, <2>5, <2>6 DEF SignedUpTo
  <2> QED BY <2>1, <2>2, <2>3, <2>5, <2>7, <2>8 DEF KeysInv
<1>7. CASE TimeVerify
  <2>1. /\ UNCHANGED <<cpks, csks, signatures, drawn>> /\ n' = n
        /\ pc = "Verify" /\ sample \in 0 .. n - 1 /\ n \in Int
        /\ pc' = "Verify" \/ Advance("write")
    BY <1>7 DEF TimeVerify, Repeated, environs, keys, n, TypeOK
  <2>2. pc' \in {"Verify", "write"}
    BY <2>1, AdvanceSteps
  <2> QED BY <2>1, <2>2 DEF KeysInv, SignedUpTo
<1>8. CASE WriteResults \/ ReportBenchmark \/ StartDemo \/ DemoVerify
  <2>1. UNCHANGED <<cpks, csks, signatures, drawn>> /\ pc' \in {"report", "done", "demoKeyGen"}
    BY <1>8, Zenon DEF WriteResults, ReportBenchmark, StartDemo, DemoVerify, keys
  <2> QED BY <2>1 DEF KeysInv
<1>9. CASE DemoKeyGen
  <2>1. /\ signatures' = signatures /\ drawn' = drawn + 1 /\ cpks' = <<drawn'>> /\ csks' = cpks'
        /\ pc' = "demoSign"
    BY <1>9, Zenon DEF DemoKeyGen
  <2>2. drawn' \in Nat /\ cpks' \in Seq(Nat) /\ Len(cpks') = 1 /\ signatures' \in Seq(Nat)
    BY <2>1 DEF KeysInv
  <2> QED BY <2>1, <2>2 DEF KeysInv
<1>10. CASE DemoSign /\ ~ SigningFails
  <2>1. /\ UNCHANGED <<cpks, csks, drawn>> /\ signatures' = <<csks[1]>> /\ pc = "demoSign"
        /\ pc' = "demoVerify"
    BY <1>10, Zenon DEF DemoSign
  <2>2. csks = cpks /\ cpks \in Seq(Nat) /\ Len(cpks) = 1 /\ drawn \in Nat
    BY <2>1 DEF KeysInv
  <2>3. cpks[1] \in Nat
    BY <2>2
  <2>4. signatures' \in Seq(Nat)
    BY <2>1, <2>2, <2>3
  <2> QED BY <2>1, <2>2, <2>4 DEF KeysInv
<1>11. CASE (TimeSign \/ DemoSign) /\ SigningFails
  <2>1. UNCHANGED <<cpks, csks, signatures, drawn>> /\ pc' = "panic"
    BY <1>11, Zenon DEF TimeSign, DemoSign, SigningFails
  <2> QED BY <2>1 DEF KeysInv
<1>12. CASE UNCHANGED vars
  BY <1>12 DEF vars, keys, environs, loops, n, KeysInv, SignedUpTo
<1> QED BY <1>1, <1>2, <1>3, <1>4, <1>5, <1>6, <1>7, <1>8, <1>9, <1>10, <1>11, <1>12 DEF Next

\* The verifications that are timed succeed, which nothing in Benchmark checks:
\* the signatures are as many as the samples, and signature i was made with the
\* secret key that belongs to public key i.
THEOREM TimedVerificationsSucceedHolds == Spec => []TimedVerificationsSucceed
<1>1. Init => KeysInv
  BY DEF Init, KeysInv, SignedUpTo, AfterGenerate, AfterKeyGen, AfterSign, AfterExpandPK, AfterExpandSK
<1>2. TypeOK /\ KeysInv => TimedVerificationsSucceed
  <2> SUFFICES ASSUME TypeOK, KeysInv, pc = "Verify"
               PROVE  Len(signatures) = n /\ signatures[sample + 1] = cpks[sample + 1]
    BY DEF TimedVerificationsSucceed
  <2>1. SignedUpTo(n)
    BY DEF KeysInv, AfterSign, AfterExpandPK, AfterExpandSK, AfterGenerate, AfterKeyGen
  <2>2. sample + 1 \in 1 .. n
    BY DEF TypeOK, Benchmarking, AfterKeyGen
  <2> QED BY <2>1, <2>2 DEF SignedUpTo
<1> QED BY <1>1, <1>2, TypeAndProgress, KeysStep, PTL DEF Spec

-----------------------------------------------------------------------------
(* The parameter sets *)

\* For an even m, half of a product with m is an integer product.
LEMMA HalfOfEven ==
  ASSUME NEW m \in Nat, m % 2 = 0, NEW a \in Nat
  PROVE  (m * a) \div 2 = HalfUp(m) * a
<1> DEFINE h == m \div 2
<1>1. h \in Nat /\ m = h + h
  OBVIOUS
<1> HIDE DEF h
<1>2. HalfUp(m) = h
  BY <1>1 DEF HalfUp
<1> DEFINE p == h * a
<1>3. m * a = p + p /\ p \in Nat
  BY <1>1
<1> HIDE DEF p
<1>4. (p + p) \div 2 = p
  BY <1>3
<1> QED
  BY <1>2, <1>3, <1>4 DEF p

\* The sizes of initMayo are those of what is packed, for all parameters with an
\* even m.
LEMMA SizesFit ==
  ASSUME NEW nn \in Nat, NEW m \in Nat, NEW o \in Nat, NEW k \in Nat, NEW s \in Nat, NEW d \in Nat,
         NEW b \in Nat, NEW t, DOMAIN t = 0 .. 3,
         m % 2 = 0, m > 3, k < nn - o, k * o >= m
  PROVE  Fits(initMayo(nn, m, o, k, 16, s, d, b, t))
<1> DEFINE p == initMayo(nn, m, o, k, 16, s, d, b, t)
           v == nn - o
<1>1. /\ p.m = m /\ p.v = v /\ p.o = o /\ p.n = nn /\ p.k = k /\ p.q = 16 /\ p.tailF = t
      /\ p.skSeedBytes = s /\ p.saltBytes = s /\ p.pkSeedBytes = b
      /\ p.p1Bytes = (m * ((v * (v + 1)) \div 2)) \div 2
      /\ p.p2Bytes = (m * v * o) \div 2 /\ p.lBytes = (m * v * o) \div 2
      /\ p.p3Bytes = (m * (((o + 1) * o) \div 2)) \div 2
      /\ p.eskBytes = s + p.oBytes + p.p1Bytes + p.lBytes
      /\ p.cpkBytes = b + p.p3Bytes
      /\ p.sigBytes = HalfUp(nn * k) + s
  BY DEF initMayo
<1>2. v \in Nat
  OBVIOUS
<1> HIDE DEF p, v
<1>3. /\ PackedBytes(m, v, v, TRUE) = HalfUp(m) * (((v + 1) * v) \div 2)
      /\ PackedBytes(m, o, o, TRUE) = HalfUp(m) * (((o + 1) * o) \div 2)
      /\ PackedBytes(m, v, o, FALSE) = HalfUp(m) * (v * o)
  BY <1>2, TriangleCount, RectangleCount DEF PackedBytes
<1>4. /\ ((v + 1) * v) \div 2 \in Nat /\ v * (v + 1) = (v + 1) * v
      /\ ((o + 1) * o) \div 2 \in Nat /\ v * o \in Nat /\ m * v * o = m * (v * o)
  <2>1. /\ (v + 1) * v \in Nat /\ (o + 1) * o \in Nat /\ v * o \in Nat
        /\ v * (v + 1) = (v + 1) * v /\ m * v * o = m * (v * o)
    BY <1>2
  <2>2. ASSUME NEW a \in Nat PROVE a \div 2 \in Nat
    OBVIOUS
  <2> QED
    BY <2>1, <2>2
<1>5. /\ p.p1Bytes = PackedBytes(m, v, v, TRUE) /\ p.p3Bytes = PackedBytes(m, o, o, TRUE)
      /\ p.p2Bytes = PackedBytes(m, v, o, FALSE) /\ p.lBytes = PackedBytes(m, v, o, FALSE)
  <2> DEFINE tv == ((v + 1) * v) \div 2
             to == ((o + 1) * o) \div 2
             vo == v * o
  <2>1. /\ p.p1Bytes = (m * tv) \div 2 /\ p.p3Bytes = (m * to) \div 2
        /\ p.p2Bytes = (m * vo) \div 2 /\ p.lBytes = (m * vo) \div 2
    BY <1>1, <1>4
  <2>2. tv \in Nat /\ to \in Nat /\ vo \in Nat
    BY <1>4
  <2> HIDE DEF tv, to, vo
  <2>3. /\ (m * tv) \div 2 = HalfUp(m) * tv /\ (m * to) \div 2 = HalfUp(m) * to
        /\ (m * vo) \div 2 = HalfUp(m) * vo
    BY <2>2, HalfOfEven, Zenon
  <2> QED
    BY <1>3, <2>1, <2>3, Zenon DEF tv, to, vo
<1>6. Cardinality(DOMAIN t) <= m
  <2>1. ASSUME NEW i \in Nat PROVE Cardinality(0 .. i) = i + 1
    BY FS_Interval
  <2>2. 3 \in Nat
    OBVIOUS
  <2>3. Cardinality(DOMAIN t) = 3 + 1
    BY <2>1, <2>2, Zenon
  <2> QED
    BY <2>3
<1>7. ~ (k >= nn - o)
  OBVIOUS
<1>8. PanicMessage(p.n, p.o, p.k, p.q) = ""
  BY <1>1, <1>7, Zenon DEF PanicMessage
<1>9. p.sigBytes = HalfUp(p.k * p.n) + p.saltBytes
  <2>1. nn * k = k * nn
    OBVIOUS
  <2> QED
    BY <1>1, <2>1
<1>10. p.k * p.o >= p.m /\ p.m % 2 = 0 /\ Cardinality(DOMAIN p.tailF) <= p.m
  BY <1>1, <1>6
<1>11. /\ p.eskBytes = p.skSeedBytes + p.oBytes + p.p1Bytes + p.lBytes
       /\ p.cpkBytes = p.pkSeedBytes + p.p3Bytes
  BY <1>1
<1>12. /\ p.p1Bytes = PackedBytes(p.m, p.v, p.v, TRUE) /\ p.p3Bytes = PackedBytes(p.m, p.o, p.o, TRUE)
       /\ p.p2Bytes = PackedBytes(p.m, p.v, p.o, FALSE) /\ p.lBytes = PackedBytes(p.m, p.v, p.o, FALSE)
  BY <1>1, <1>5
<1> QED
  BY <1>8, <1>9, <1>10, <1>11, <1>12, Zenon DEF Fits, p

LEMMA LevelsFit == \A level \in SecurityLevels : Fits(InitMayo(level))
<1>1. \A a, b, c, d : DOMAIN TailF(a, b, c, d) = 0 .. 3
  BY DEF TailF
<1>2. Fits(initMayo(86, 78, 8, 10, 16, 24, 32, 16, TailF(8, 1, 1, 0)))
  <2>1. /\ {86, 78, 8, 10, 24, 32, 16} \subseteq Nat
        /\ 78 % 2 = 0 /\ 78 > 3 /\ 10 < 86 - 8 /\ 10 * 8 >= 78
    OBVIOUS
  <2>2. /\ 86 \in Nat /\ 78 \in Nat /\ 8 \in Nat /\ 10 \in Nat
        /\ 24 \in Nat /\ 32 \in Nat /\ 16 \in Nat
    BY <2>1
  <2>3. DOMAIN TailF(8, 1, 1, 0) = 0 .. 3
    BY <1>1
  <2> QED
    BY <2>1, <2>2, <2>3, SizesFit, Zenon
<1>3. Fits(initMayo(81, 64, 17, 4, 16, 24, 32, 16, TailF(8, 0, 2, 8)))
  <2>1. /\ {81, 64, 17, 4, 24, 32, 16} \subseteq Nat
        /\ 64 % 2 = 0 /\ 64 > 3 /\ 4 < 81 - 17 /\ 4 * 17 >= 64
    OBVIOUS
  <2>2. /\ 81 \in Nat /\ 64 \in Nat /\ 17 \in Nat /\ 4 \in Nat
        /\ 24 \in Nat /\ 32 \in Nat /\ 16 \in Nat
    BY <2>1
  <2>3. DOMAIN TailF(8, 0, 2, 8) = 0 .. 3
    BY <1>1
  <2> QED
    BY <2>1, <2>2, <2>3, SizesFit, Zenon
<1>4. Fits(initMayo(118, 108, 10, 11, 16, 32, 48, 16, TailF(8, 0, 1, 7)))
  <2>1. /\ {118, 108, 10, 11, 32, 48, 16} \subseteq Nat
        /\ 108 % 2 = 0 /\ 108 > 3 /\ 11 < 118 - 10 /\ 11 * 10 >= 108
    OBVIOUS
  <2>2. /\ 118 \in Nat /\ 108 \in Nat /\ 10 \in Nat /\ 11 \in Nat
        /\ 32 \in Nat /\ 48 \in Nat /\ 16 \in Nat
    BY <2>1
  <2>3. DOMAIN TailF(8, 0, 1, 7) = 0 .. 3
    BY <1>1
  <2> QED
    BY <2>1, <2>2, <2>3, SizesFit, Zenon
<1>5. Fits(initMayo(154, 142, 12, 12, 16, 40, 64, 16, TailF(4, 0, 8, 1)))
  <2>1. /\ {154, 142, 12, 12, 40, 64, 16} \subseteq Nat
        /\ 142 % 2 = 0 /\ 142 > 3 /\ 12 < 154 - 12 /\ 12 * 12 >= 142
    OBVIOUS
  <2>2. /\ 154 \in Nat /\ 142 \in Nat /\ 12 \in Nat /\ 12 \in Nat
        /\ 40 \in Nat /\ 64 \in Nat /\ 16 \in Nat
    BY <2>1
  <2>3. DOMAIN TailF(4, 0, 8, 1) = 0 .. 3
    BY <1>1
  <2> QED
    BY <2>1, <2>2, <2>3, SizesFit, Zenon
<1> QED
  BY <1>2, <1>3, <1>4, <1>5 DEF InitMayo, SecurityLevels

\* The struct every command runs with has the sizes of what is packed into its
\* keys and signatures: InitMayo was called with a level it knows.
THEOREM StructFitsHolds == Spec => []StructFits
<1> DEFINE Inv == securityLevel = 0 \/ securityLevel \in SecurityLevels
<1>1. Init => Inv
  BY DEF Init
<1>2. Inv /\ [Next]_vars => Inv'
  <2> SUFFICES ASSUME Inv, [Next]_vars PROVE Inv'
    OBVIOUS
  <2>1. CASE StartBenchmark
    BY <2>1 DEF StartBenchmark
  <2>2. CASE StartDemo
    BY <2>2 DEF StartDemo, SecurityLevels
  <2>3. CASE UNCHANGED securityLevel
    BY <2>3
  <2>4. CASE \/ TimeKeyGen \/ generateCompactKeys \/ TimeExpandSK \/ TimeExpandPK \/ TimeSign \/ TimeVerify
             \/ WriteResults \/ ReportBenchmark \/ DemoKeyGen \/ DemoSign \/ DemoVerify
    <3>1. UNCHANGED securityLevel
      BY <2>4 DEF TimeKeyGen, generateCompactKeys, TimeExpandSK, TimeExpandPK, TimeSign, TimeVerify,
                  Repeated, WriteResults, ReportBenchmark, DemoKeyGen, DemoSign, DemoVerify
    <3> QED
      BY <2>3, <3>1
  <2>5. CASE UNCHANGED vars
    BY <2>3, <2>5 DEF vars
  <2> QED
    BY <2>1, <2>2, <2>4, <2>5, Zenon DEF Next
<1>3. Inv => StructFits
  <2> SUFFICES ASSUME securityLevel \in SecurityLevels PROVE fitting[securityLevel]
    BY DEF StructFits
  <2> QED
    BY LevelsFit DEF fitting
<1> QED
  BY <1>1, <1>2, <1>3, PTL DEF Spec
=============================================================================
