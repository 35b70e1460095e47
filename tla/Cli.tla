-------------------------------- MODULE Cli --------------------------------
(***************************************************************************)
(* The command line tool: src/main.go with the flags of                    *)
(* src/flags/flags.go, and Benchmark of src/mayo/benchmark.go.  One action *)
(* is one timed operation, or one of the steps between the loops.          *)
(*                                                                         *)
(* A key pair is the number of the CompactKeyGen call that made it, a      *)
(* signature the pair that signed; MayoApi says why a signature opens      *)
(* under its own pair.  A timing is <<operations timed, divisor>>, and     *)
(* <<0, 1>> while its entry is still the 0 of make([]int64, n).            *)
(***************************************************************************)
EXTENDS Encode, Sequences, Parameters

CONSTANTS
  SampleCounts,            \* values of -b
  ParameterSets,           \* values of -p
  amountOfExpandPkRuns, amountOfVerifyRuns

ASSUME CliAssumption ==
  /\ SampleCounts \subseteq Int /\ ParameterSets \subseteq Int
  /\ amountOfExpandPkRuns \in Nat \ {0} /\ amountOfVerifyRuns \in Nat \ {0}

VARIABLES
  arguments,               \* of GetApplicationArguments
  resultsDirectory,        \* whether the working directory has results/
  securityLevel,           \* the level of the Mayo struct, 0 before there is one
  sample, run,             \* i and j of the loops
  drawn,                   \* CompactKeyGen calls made
  cpks, csks, signatures,
  results,                 \* the five arrays of timings
  files,                   \* the contents of the files written
  err,                     \* what Benchmark returns
  printed,                 \* what main prints, in order
  pc

keys     == <<drawn, cpks, csks, signatures>>
loops    == <<sample, run>>
outputs  == <<files, err, printed>>
environs == <<arguments, resultsDirectory>>
vars     == <<environs, securityLevel, loops, keys, results, outputs, pc>>

n == arguments.AmountBenchmarkingSamples

Columns == {"KeyGen", "ExpandSK", "ExpandPK", "Sign", "Verify"}

Init ==
  /\ arguments \in [AmountBenchmarkingSamples : SampleCounts, ParameterSet : ParameterSets]
  /\ resultsDirectory \in BOOLEAN
  /\ securityLevel = 0
  /\ sample = 0 /\ run = 0 /\ drawn = 0
  /\ cpks = <<>> /\ csks = <<>> /\ signatures = <<>>
  /\ results = [c \in Columns |-> [s \in 0 .. n - 1 |-> <<0, 1>>]]
  /\ files = {} /\ err = FALSE /\ printed = <<>>
  /\ pc = "flags"
----------------------------------------------------------------------------
(* Benchmark *)

\* Mutant: the error of InitMayo is not looked at.
StartBenchmarkUnchecked ==
  /\ pc = "flags" /\ n > 0
  /\ IF arguments.ParameterSet \in SecurityLevels
     THEN securityLevel' = arguments.ParameterSet ELSE UNCHANGED securityLevel
  /\ pc' = "KeyGen"
  /\ UNCHANGED <<environs, loops, keys, results, outputs>>

\* The parameter set is -p; a level InitMayo refuses panics.
StartBenchmark ==
  /\ pc = "flags" /\ n > 0
  /\ IF arguments.ParameterSet \in SecurityLevels
     THEN securityLevel' = arguments.ParameterSet /\ pc' = "KeyGen"
     ELSE UNCHANGED securityLevel /\ pc' = "panic"
  /\ UNCHANGED <<environs, loops, keys, results, outputs>>

\* The end of iteration of a loop that hands over to the next one.
Advance(next) ==
  IF sample + 1 < n THEN sample' = sample + 1 /\ UNCHANGED pc
                    ELSE sample' = 0 /\ pc' = next

Record(column, operations, divisor) ==
  results' = [results EXCEPT ![column][sample] = <<operations, divisor>>]

\* The timed keys are dropped.
TimeKeyGen ==
  /\ pc = "KeyGen"
  /\ drawn' = drawn + 1
  /\ Record("KeyGen", 1, 1) /\ Advance("generate")
  /\ UNCHANGED <<environs, securityLevel, run, cpks, csks, signatures, outputs>>

generateCompactKeys ==
  /\ pc = "generate"
  /\ drawn' = drawn + 1
  /\ cpks' = Append(cpks, drawn') /\ csks' = Append(csks, drawn')
  /\ Advance("ExpandSK")
  /\ UNCHANGED <<environs, securityLevel, run, signatures, results, outputs>>

TimeExpandSK ==
  /\ pc = "ExpandSK"
  /\ Record("ExpandSK", 1, 1) /\ Advance("ExpandPK")
  /\ UNCHANGED <<environs, securityLevel, run, keys, outputs>>

\* One of the operations an entry of the column is the mean of.
Repeated(column, runs, divisor, next) ==
  /\ pc = column
  /\ IF run + 1 < runs THEN run' = run + 1 /\ UNCHANGED <<sample, pc, results>>
                       ELSE run' = 0 /\ Record(column, runs, divisor) /\ Advance(next)
  /\ UNCHANGED <<environs, securityLevel, keys, outputs>>

TimeExpandPK == Repeated("ExpandPK", amountOfExpandPkRuns, amountOfExpandPkRuns, "Sign")

\* APISign panics if none of the 256 attempts of Sign finds a solution: x is nil.
SigningFails == pc' = "panic" /\ UNCHANGED signatures

\* Mutant: every message is signed with the first key.
TimeSignFirstKey ==
  /\ pc = "Sign"
  /\ \/ /\ signatures' = Append(signatures, csks[1])
        /\ Record("Sign", 1, 1) /\ Advance("Verify")
     \/ SigningFails /\ UNCHANGED <<sample, results>>
  /\ UNCHANGED <<environs, securityLevel, run, drawn, cpks, csks, outputs>>

TimeSign ==
  /\ pc = "Sign"
  /\ \/ /\ signatures' = Append(signatures, csks[sample + 1])
        /\ Record("Sign", 1, 1) /\ Advance("Verify")
     \/ SigningFails /\ UNCHANGED <<sample, results>>
  /\ UNCHANGED <<environs, securityLevel, run, drawn, cpks, csks, outputs>>

\* Mutant: the other constant as the divisor.
TimeVerifyOtherMean == Repeated("Verify", amountOfVerifyRuns, amountOfExpandPkRuns, "write")

\* The result of APISignOpen is dropped.
TimeVerify == Repeated("Verify", amountOfVerifyRuns, amountOfVerifyRuns, "write")

\* WriteFile creates the file, never the directory.
WriteResults ==
  /\ pc = "write"
  /\ IF resultsDirectory THEN files' = files \cup {results} /\ UNCHANGED err
                         ELSE err' = TRUE /\ UNCHANGED files
  /\ pc' = "report"
  /\ UNCHANGED <<environs, securityLevel, loops, keys, results, printed>>

\* main prints an error and goes on to the line after it; path is then "".
ReportBenchmark ==
  /\ pc = "report"
  /\ printed' = IF err THEN <<"Got error while benchmarking", "Benchmarking done">>
                       ELSE <<"Benchmarking done">>
  /\ pc' = "done"
  /\ UNCHANGED <<environs, securityLevel, loops, keys, results, files, err>>
----------------------------------------------------------------------------
(* main without -b: one key pair, one message *)

\* InitMayo(2), whatever -p says.
StartDemo ==
  /\ pc = "flags" /\ ~(n > 0)
  /\ securityLevel' = 2
  /\ pc' = "demoKeyGen"
  /\ UNCHANGED <<environs, loops, keys, results, outputs>>

DemoKeyGen ==
  /\ pc = "demoKeyGen"
  /\ drawn' = drawn + 1 /\ cpks' = <<drawn'>> /\ csks' = <<drawn'>>
  /\ printed' = Append(printed, "Keygen took")
  /\ pc' = "demoSign"
  /\ UNCHANGED <<environs, securityLevel, loops, signatures, results, files, err>>

DemoSign ==
  /\ pc = "demoSign"
  /\ \/ /\ signatures' = <<csks[1]>>
        /\ printed' = Append(printed, "Signing took")
        /\ pc' = "demoVerify"
     \/ SigningFails /\ UNCHANGED printed
  /\ UNCHANGED <<environs, securityLevel, loops, drawn, cpks, csks, results, files, err>>

DemoVerify ==
  /\ pc = "demoVerify"
  /\ printed' = printed \o <<"Verification took",
                             IF signatures[1] = cpks[1] THEN "valid" ELSE "not valid">>
  /\ pc' = "done"
  /\ UNCHANGED <<environs, securityLevel, loops, keys, results, files, err>>

Next ==
  \/ StartBenchmark \/ TimeKeyGen \/ generateCompactKeys \/ TimeExpandSK \/ TimeExpandPK
  \/ TimeSign \/ TimeVerify \/ WriteResults \/ ReportBenchmark
  \/ StartDemo \/ DemoKeyGen \/ DemoSign \/ DemoVerify

\* A sequential program without waiting: it runs until it stops.
Spec == Init /\ [][Next]_vars /\ WF_vars(Next)
----------------------------------------------------------------------------
(* Properties *)

Stopped == pc \in {"done", "panic"}

\* A file is written only with all five arrays filled: n entries each, every
\* entry the mean of as many operations as were timed for it, none left at 0.
FilesComplete ==
  \A file \in files, c \in Columns :
    /\ DOMAIN file[c] = 0 .. n - 1
    /\ \A s \in DOMAIN file[c] : file[c][s][1] > 0 /\ file[c][s][1] = file[c][s][2]

\* The verifications that are timed succeed, which nothing in Benchmark checks:
\* signature i was made with the secret key that belongs to public key i.
TimedVerificationsSucceed ==
  pc = "Verify" => Len(signatures) = n /\ signatures[sample + 1] = cpks[sample + 1]

\* What the tool is to sign, and a benchmark it cannot begin.
wanted       == IF n > 0 THEN n ELSE 1
unknownLevel == n > 0 /\ arguments.ParameterSet \notin SecurityLevels

\* The tool stops: with a signature for every sample (for the one message without
\* -b), or with a panic because one is missing.  A panic leaves no file of part of
\* the timings and no line about a result; for an unknown level it comes before the
\* first key.
StopsProperly ==
  /\ <>Stopped
  /\ [](pc = "done" => ~unknownLevel /\ Len(signatures) = wanted)
  /\ [](pc = "panic" => /\ Len(signatures) < wanted /\ files = {}
                        /\ printed \in {<<>>, <<"Keygen took">>}
                        /\ unknownLevel => drawn = 0)

\* The bytes encodeMatrices makes of m matrices.
PackedBytes(m, r, c, isUpperTriangular) ==
  HalfUp(m) * Cardinality(Positions(r, c, isUpperTriangular))

\* The pieces of the expanded and compact keys and of a signature fill them
\* exactly, a packed vector ends with a byte of its own (m is even), the system
\* can have rank m, and tailF has degree below m.
Fits(mayo) ==
  /\ mayo.m % 2 = 0
  /\ mayo.p1Bytes = PackedBytes(mayo.m, mayo.v, mayo.v, TRUE)
  /\ mayo.p2Bytes = PackedBytes(mayo.m, mayo.v, mayo.o, FALSE)
  /\ mayo.lBytes = PackedBytes(mayo.m, mayo.v, mayo.o, FALSE)
  /\ mayo.p3Bytes = PackedBytes(mayo.m, mayo.o, mayo.o, TRUE)
  /\ mayo.eskBytes = mayo.skSeedBytes + mayo.oBytes + mayo.p1Bytes + mayo.lBytes
  /\ mayo.cpkBytes = mayo.pkSeedBytes + mayo.p3Bytes
  /\ mayo.sigBytes = HalfUp(mayo.k * mayo.n) + mayo.saltBytes
  /\ mayo.k * mayo.o >= mayo.m
  /\ Cardinality(DOMAIN mayo.tailF) <= mayo.m
  /\ PanicMessage(mayo.n, mayo.o, mayo.k, mayo.q) = ""

fitting == [level \in SecurityLevels |-> Fits(InitMayo(level))]

StructFits == securityLevel # 0 => fitting[securityLevel]

\* "the -p flag ... specifies the parameter set of MAYO" (README.md).
ParameterSetUsed ==
  securityLevel # 0 /\ arguments.ParameterSet \in SecurityLevels =>
    securityLevel = arguments.ParameterSet

\* "Benchmarking done, see /%s for more information": there is something to see.
DoneMeansWritten ==
  \A line \in 1 .. Len(printed) : printed[line] = "Benchmarking done" => files # {}
============================================================================
