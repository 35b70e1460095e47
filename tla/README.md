# A TLA+ development for mayo-go

mayo-go is an implementation of the MAYO signature scheme in Go, with a random
generator in C. This directory holds TLA+ modules that model it, TLC
configurations that check them on small instances, and proofs that TLAPS checks.
Paths are relative to `src/`.

## The system

The program is sequential: it starts no goroutine, has no callback, and persists
nothing but a benchmark's results. What is hard in it is not interleaving. It is
arithmetic done in place, sizes derived in one file and relied on in others,
offsets repeated in several functions, two copies of one loop that have to
agree, and a state (the generator's) that outlives every call.

| Component | State | Operations | Interacts with |
|---|---|---|---|
| Field arithmetic, `field/field.go` | `mulTable`, `invTable`, filled once by `InitField` | lookups, inner product, vector and matrix products | all of `mayo` |
| Linear solver, `echelonForm` and `sampleSolution` in `mayo/mayo.go`, with `mayo/matrix.go` | the matrix (A y), the cursor, x, y: all local to one call | one call per signing attempt, answers `(x, true)` or `(nil, false)` | called by `Sign` |
| Signature scheme, the rest of `mayo/mayo.go` | none of its own: keys and signatures are the caller's byte slices | `CompactKeyGen`, `ExpandSK`, `ExpandPK`, `Sign`, `Verify`, `APISign`, `APISignOpen` | field, encoding, solver, generator, hash |
| Encoding, `mayo/encode.go` | none | `encodeVec`, `decodeVec`, `encodeMatrices`, `decodeMatrices`, `decodeMatrix`, `upper` | the layouts of keys and signatures |
| Parameter sets, `mayo/parameters.go` | the `Mayo` struct, written once | `InitMayo`, `initMayo` | every size and offset |
| Random generator, `rand/random.go`, `rand/randombytes_ctrdrbg.c` | `DRBG_ctx`, a C global: Key, V, reseed_counter | `InitRandomness`, `SampleRandomBytes` | `CompactKeyGen` (seed), `Sign` (R) |
| Hash and key stream, `rand/random.go` | none | `Shake256`, `Aes128ctr` (Go's library) | key expansion, signing, verification |
| Known-answer tests, `kat/` | the scanner, the list of records | `parseKatData`, `CheckMayoKat` | generator, scheme |
| Command line tool, `main.go`, `flags/`, `mayo/benchmark.go` | arguments, arrays of timings, the results file | demonstration, `Benchmark` | scheme |
| Block cipher, `rand/aes_c.c` (vendored) | round keys, four blocks bit by bit: all local to one call | `AES_256_ECB`, `AES_128_CTR` | the first is called by the generator, the second by nothing yet |
| Alternative AES back ends, `rand/aes128ctr.c` (x86) and `rand/aes_neon.c` (ARM), vendored | a schedule on the heap for one call, a counter block | `AES_128_CTR` of these builds | chosen by `aes_ctr.h` with a macro; called by nothing yet |
| Keccak in C, `rand/fips202.c` (vendored) | contexts on the heap: 25 words, for the incremental functions with a counter | the permutation; init, absorb, finalize, squeeze, clone and release of the incremental functions; absorb, squeezeblocks, clone and release of the block functions; the one-shot functions | compiled with the rest, called by nothing yet |
| Memory and debugging helpers, `rand/mem.c`, `rand/debug_bench_tools.h` | none | wiping memory, printing | not reached |

What has to be true of them:

* **Field**: the tables are those of a field, GF(2)[x]/(x^4+x+1), with exactly one
  inverse per element.
* **Solver**: an answer `(x, true)` solves the system; `(nil, false)` comes exactly
  for an A of rank below m; elimination neither gains nor loses solutions; the
  in-place back-substitution, which overwrites a value it is still reading, is
  right all the same.
* **Scheme**: the public forms vanish on the oil space of the secret key; the system
  A x = y of an attempt says P\*(s) = t for every x, not just for solutions;
  what was signed opens; verification accepts exactly the solutions of P\*(s) = t.
* **Encoding and layout**: what is packed is unpacked, also at odd lengths (which
  `encodeVec` handles, and no vector of the four levels has); the pieces of a key fill it
  exactly.
* **Generator**: no block is encrypted twice under one key; seeding forgets the past;
  a request returns as many bytes as it asked for.
* **Block cipher**: the bitsliced code computes FIPS-197, and the three lanes nobody
  assigned never reach the block that was asked for.
* **Key streams**: the three builds of `AES_128_CTR` write the same bytes, those of
  the standard, for every length at which their loops end differently.
* **Keccak**: the unrolled permutation is the one of FIPS 202; what is squeezed is
  what the standard defines, however messages and outputs are cut into calls and
  whenever a context is cloned; no context uses the memory of another one or memory
  that was freed, and none is leaked.
* **Known-answer tests**: a damaged file never yields a record mixed from two; every
  wrong answer is reported at its own record, and no right one is.
* **Tool**: a result file is complete; timed verifications succeed; the tool stops, with
  every signature made, or in a panic that leaves no part of its results.

`PROJECT.json` lists the hazards behind these properties, each at its line.

## Modules

| Module | Models | Remarks |
|---|---|---|
| `Slices` | Go slices as functions on `0 .. n-1`: slicing, `append`, `copy`, `^` | an index out of range is an evaluation error |
| `SliceProofs` | induction, lengths of slices, numbers written in digits, positions of a matrix | what the other proofs share |
| `GF16` | `gf16Mul` on bytes, the tables, the inner product | a failed length check is `Panic`, a value nothing is known of, which TLC refuses to evaluate |
| `FieldTables` | `generateMulAndInvTable`, one action per iteration | |
| `Matrices` | the operations of `field.go` and `matrix.go`, `upper` | |
| `Encode` | `encode.go` | `currentIndex` is the rank of a position in the order of the loops |
| `Packing`, `MCPacking` | the pack/unpack pairs of the package | |
| `Parameters` | `InitMayo`, `initMayo` | |
| `LinearSystem` | what `Sign` relies on when it calls the solver | abstract |
| `SampleSolution`, `MCSampleSolution` | `echelonForm`, `sampleSolution` | implements `LinearSystem` |
| `SampleSolutionProofs` | theorems about `SampleSolution` | |
| `Mayo` | the algorithms of `mayo.go` as operators | hash and AES are constants |
| `MayoApi`, `MCMayoApi` | a caller of the package, with `Sign` taken apart at its attempts | uses `Mayo` and `LinearSystem` |
| `MayoProofs` | theorems about `Packing`, `Mayo` and `MayoApi` | |
| `CtrDrbg` | a generator in counter mode, with a number for its counter | abstract |
| `Drbg`, `MCDrbg` | the C generator with its byte-wise counter and its loops | implements `CtrDrbg` |
| `Words` | bytes and words of the C code, as sets of bit positions | |
| `Fips197`, `BlockCipher` | AES as the standard has it, on bytes | abstract |
| `AesCt` | `aes_c.c`: key schedule, rounds, `aes_ecb` | implements `BlockCipher` |
| `AesCtr` | `AES_128_CTR` in its three builds, and the variant with 4 rounds | compared with the key stream of `Fips197` |
| `Aes`, `MCAes` | the two calls of `aes_ctr.h` | composes `AesCt` and `AesCtr` |
| `RandProofs` | theorems about `Drbg`, and about `AesCt` and `AesCtr` in `Aes` | |
| `KeccakP` | KECCAK-p[1600, 24] as the standard has it; one action is a round | abstract |
| `Keccak`, `MCKeccak` | `KeccakF1600_StatePermute` | implements `KeccakP` |
| `KeccakProofs` | that it does, for every state | |
| `SpongeState` | words and bytes of a sponge, the five functions of `fips202.c` | the permutation is a constant |
| `SpongeReference` | the sponge construction of FIPS 202 on bit strings | reference |
| `AbstractSponge` | sponges that share nothing and buffer what does not fill a block | abstract |
| `Fips202Inc` | the incremental functions, with heap and counter | implements `AbstractSponge` |
| `Fips202Blocks` | the functions that take a whole message | |
| `Fips202Process`, `MCFips202Process` | a process that uses both halves of `fips202.c` | composes the two over one heap |
| `Fips202Proofs` | theorems about `Fips202Inc`, and about the process: owners of the heap, outputs, sponges | |
| `Kat`, `MCKat` | the parser of the known-answer files, the test that uses it | |
| `KatProofs` | theorems about `Kat` | |
| `Cli`, `MCCli` | `main`, the flags, `Benchmark` | uses `Parameters` and `Encode` for the layouts |
| `CliProofs` | theorems about `Cli` | |

How they compose: `MayoApi` calls the solver through `LinearSystem`, and
`SampleSolution` is shown to implement `LinearSystem`. So `MayoApi` needs no
elimination steps, and its results hold for any solution the solver could
return. In the same way the draws of `CompactKeyGen` and `Sign` are any bytes in
`MayoApi`, and `Drbg` says how bytes come about. `Drbg` takes its cipher as a constant, since
its instance has blocks of two bytes; that the cipher of the program is AES, on which
counter mode rests, is what `AesCt` is shown to implement. `AesCtr` in turn takes the cipher of its C
build as what `AesCt` is shown to implement. `Fips202Inc` and `Fips202Blocks` have the
permutation as a constant, for which `Keccak` is the module that shows what it is;
`Fips202Process` puts both on one heap, where `malloc` may return any free block, or
NULL, which ends the process. `Kat` takes from `Drbg` that
seeding forgets the past, and from `MayoApi` that operations are functions of
their arguments and their draws; `Cli` takes from `MayoApi` that a signature
opens under its own key.

Some correspondences that are not one to one:

* In `SampleSolution`, `B` is `AyMatrix`, `z` the local `y`, `xVec` is `x`, and
  `A`, `y`, `R` are the arguments, which never change. The choice of the smallest
  pivot row, the swap, the scaling and the elimination of one column are one
  action, `Pivot`.
* In `Mayo`, the loops over pairs (i, j) are sums over `Pairs`, with `Ell` giving
  the value of the counter `ell` at a pair. `SubtractPairs` stands for both copies
  of the loop, in `Sign` and in `Verify`, which are equal line by line.
* In `MayoApi`, `esk` is kept decoded, as `Sign` holds it; `DecodeEsk(ExpandSK(csk))`
  goes through the bytes. `damaged` records whether `Transmit` changed the signed
  message; it is not in the code and nothing but a property reads it.
* In `Drbg`, `calls`, `entry` and `encrypted` are history variables; `asked` holds the
  arguments of the call, a length or two strings for a seed. `CtrDrbg` has `asked` as
  well: its step that returns goes by what the call asked for.
* In `AesCt`, the expanded key schedule and the four interleaved blocks are words as
  sets of bit positions. `i` of the key schedule is the number of words of `skey`;
  `in` and `out` advance together, so the position is the length of `out`. The
  array `blocks` starts with arbitrary values, as on the stack.
* In `AesCtr`, `output` is what the last iteration wrote, since the pointer only goes
  forward. What an instruction of x86 or ARM does is external. Without memory for the
  schedule a call goes to "gone": the C build exits, the others write through NULL.
* In `Keccak`, the lane `Axy` is entry x + 5y of `A`, and `Rows` is the table of the
  lanes and rotations written out in the code. The second half of the loop body is
  the first one with the names A and E exchanged; both are actions of their own.
* In `Fips202Inc`, a context is a pointer to a block of the heap, and a block has the
  25 words and `count`, the 26th. Its two meanings, bytes absorbed since the last
  permutation and bytes still to be handed out, are the two cases of the refinement
  mapping. What is freed keeps its words. `phase`, `alg`, `msg`, `out` and `calls` are
  not in the code: they say in which order the callers call, as the comments ask
  for, and what went in and out.
* In `Fips202Blocks`, an action is a whole call, since a call of these functions has
  nothing that could come between its iterations.
* In `Cli`, a key pair is the number of the call that made it, and a timing is the
  number of operations it covers with the divisor applied to it. Whether the attempts of
  a signature are used up, which `NextAttempt` of `MayoApi` decides, is a choice of
  `TimeSign` and `DemoSign`: `SigningFails` is the panic at mayo.go:186.

Operators whose comment begins with "Mutant:" are wrong on purpose. No
specification uses them. `PROJECT.json` names, for each property of each passing
run, a mutant that breaks it, and two where a
property has two sides: the length and the seeds of `ImplementsCtrDrbg`, clones and
squeezes of `BlocksAreStandard`.

## Runs

| Run | Question | Instance |
|---|---|---|
| `solver` | Is the solver right, also when leading entries have to be inverted, and does it implement `LinearSystem`? | all 3 x 3 systems with entries 0 and 1, and systems over GF(4), 22608 states |
| `field_packing` | Are the tables those of the field? Is what is packed unpacked, in the derived size? | the real tables; all vectors of up to 3 nibbles, matrices up to 3 x 3, 9763 states |
| `mayo_api` | Do signing and opening agree, with retries and damaged messages? | GF(16), m=2, n=4, o=1, k=2, 1414 states |
| `mayo_two_oil` | Does the oil space vanish when O has several columns? | GF(16), m=2, n=5, o=2, k=1, 323 states |
| `drbg` | Does the C generator implement counter mode? | bytes of 2 bits, blocks of 2 bytes, 3 calls, 1352 states |
| `aes` | Does the bitsliced cipher do what FIPS-197 does to bytes? Do the builds of the counter mode write the same key stream? | 256-bit keys with 1 and 16 blocks, a 192-bit key with 5, a 128-bit key, two fillings of the unused lanes; 8 lengths of output in 4 builds, 2718 states |
| `keccak` | Is the unrolled permutation the one of FIPS 202, and does it give the published hashes? | the blocks of two messages for five functions, three other states, 351 states |
| `hashes` | Is what is squeezed what FIPS 202 says, however it is cut, and who owns the heap? | two incremental contexts, two contexts of whole messages, two blocks, 5 calls, 11076 states up to symmetry |
| `kat` | What does the known-answer test do with intact and damaged files? | up to 3 records, every cut, every extra blank line, 9416 states |
| `cli` | Are results complete, verifications valid, layouts exact, and does the tool stop? | -b from -1 to 3, -p from -1 to 6, 30 and 10 repetitions as in the code, 2496 states |
| `cli_parameter_set` | Does `-p` choose the parameter set? | violated, see below |
| `cli_done` | Does "Benchmarking done" mean that there are results? | violated, see below |

Why the bounds are enough:

* GF(4) is a subfield of GF(16), closed under the real tables, and the solver
  branches only on entries being zero. Three rows give a swap over a distance, rows
  between `pivotRow` and `nextPivotRow`, a pivot in the column of y, zero columns,
  and rows both above and below the row of back-substitution; the systems over GF(4)
  have leading entries that are not their own inverse. A right-hand side of each
  weight is enough with the entries 0 and 1, and one vector R per run, since R only
  shifts the right-hand side. The proofs remove the bounds for everything but
  termination.
* Everything `mayo_api` and `mayo_two_oil` check is proved for all parameters, hash
  functions and draws as well; the instances are where the steps are executed, with
  every branch taken. `mayo_api` uses the whole of GF(16), so the tables, `decodeVec` and the reduction
  modulo z^m + tailF are the real ones. k = 2 has all kinds of pairs, and its
  m + shifts = 5 coefficients make a folded coefficient land above m again. Five
  seeds are key pairs with mixed streams. The sixth, 0, has a zero key stream, so
  no attempt can succeed and the loop runs into its bound, which is 3 here
  instead of 256.
* The mixing functions in place of SHAKE256 and AES are arbitrary: the properties are
  to hold for whatever they return.
* `drbg` wraps the counter within three calls: a block counter runs modulo 16. The
  proofs remove the bound and the sizes.
* `aes` uses the real sizes. The program asks for one block under 256 bits; the other
  requests are what `aes_ecb` and the key schedules are written for. One of them
  sends every byte through the S-box. `StandardExample` compares with the published
  example, so that the abstract side is AES as well. The lengths of the counter mode
  are those just at, before and behind the ends of the three loops, and 4113 bytes
  make the counter pass 256 blocks, where it carries into its second byte.
* `keccak` runs on real states, so a slip in any of the 25 rotations, of the 24
  constants or of the moves of lanes shows in the first rounds already; the state of
  all ones and an irregular one are there because the padded blocks leave most lanes
  zero. The proof removes the choice of the states.
* `hashes` has a small mixing function in place of the permutation, on states of the
  real size. Chunks of 1 and 135 bytes and outputs of 3 and 137 end before, at
  and behind the end of a block of 136 (SHAKE256) and of 72 (SHA3-512); five calls
  are init, two absorbs, finalize and a squeeze, or a clone taken between any two of
  them. For the contexts of whole messages they are an absorb, a squeeze, a clone taken
  before or after it, and squeezes of both, each of one or two blocks. The one-shot functions are called for each of the five rates with messages
  and outputs around multiples of the rate; they leave nothing behind but a free
  block, so the process makes such a call only as its first one. The names of
  contexts and blocks are symmetric: no action distinguishes them. The proofs remove
  the bounds on calls, contexts, blocks and inputs.
* The sizes of the four real parameter sets are checked exactly, in `cli`.

Bounds named in the modules: `MaxAttempts` (256 in the code), `MaxCalls` of `Drbg`,
`Fips202Inc` and `Fips202Blocks` (none in the code). The sets of requests, messages
and lengths are constants; `aes` makes one call per behaviour.

Deadlock checking is off in every run: each of these programs ends, at the latest at
the bound on its calls. The runs check instead where it ends (`StopsProperly`,
`ImplementsPromise`, `PanicOnlyIfExhausted`).

### Fairness

The program is one thread and never waits, so a call that was made runs on:
`WF_vars(Next)` in `SampleSolution` and `Cli`, `WF` of the loop steps in `FieldTables`
and `Drbg`. `Drbg` has no fairness on the two actions that begin a call, since
nothing makes a caller call. `FieldTables` is run inside `MCPacking`, for its safety.
`MayoApi`, `Kat`, `Keccak`, the AES modules and the modules of `fips202.c` state no
liveness and have no fairness: what they say is about the values a call computes, and
their loops run over counts fixed when they begin. Termination of `Sign` is visible in
`NextAttempt`: `ctr` only grows, and stops at the bound.

### Disagreements found

* `ParameterSetUsed`: README.md:36 says that `-p` "specifies the parameter set of
  MAYO". main.go:30 calls `InitMayo(2)`; `-p` matters only together with `-b`.
* `DoneMeansWritten`: when `results/` is missing (it is git-ignored, and no code
  creates it), `os.WriteFile` fails after the whole benchmark. main.go:20-24 prints
  the error and goes on to "Benchmarking done, see / for more information".

## Proofs

`SampleSolutionProofs` proves, for every field with the laws of `FieldAssumption`
and `DotAssumption`, every number of equations and unknowns and every set of
random vectors: `TypeCorrect`, `EchelonShapeHolds`, `SolutionsPreservedHolds`,
`ResidualTrackedHolds` and `SolutionCorrectHolds`.

They all follow from one inductive invariant, `IndInv`. `SolutionCorrect` by itself
is not inductive: that x solves the system at the end depends on three facts kept
on the way. Elimination keeps the set of solutions (`SolutionsPreserved`), and
back-substitution knows how far x is from a solution (`ResidualTracked`); with
nothing missing at the end, the two give A x = y. The second depends on the third,
the staircase (`EchelonShape`): the loop over y reads y[r] after it has become
zero, which is harmless only because the rows below r have a zero in the column
of r's leading entry. And that every row has a leading entry at all, so that
nothing is left missing, is where the rank test comes in. The staircase itself
needs the cursor: rows from `pivotRow` on are zero left of `pivotColumn`, which is
also why the rows between `pivotRow` and `nextPivotRow` need no elimination.

The rank test (`RankCheckExactHolds`) is about the image of A, and needs no dimension:
A has rank m exactly if A x reaches every right-hand side (`Onto`). A pass of the elimination
is invertible on right-hand sides, so it does not change this (`EliminateRank`). At the
end, a staircase with a leading entry in every row reaches every right-hand side, by solving
from the last row up (`FullRankOnto`), and a last row of zeros reaches only those that end
in zero. `RankInv` keeps both, relative to `IndInv`. With that, `PromiseKept` shows the
safety part of the refinement of `LinearSystem`: every behaviour of the solver is one of
its promise, which is all that `MayoApi` uses.

The inner product enters by its laws only (bilinear, and moving by u[c]\*d when
w[c] moves by d). `SolverAssumptionsHold` in `MayoProofs` proves of the field and
the inner product of the code, for every length and with the sizes `Sign` uses, all that the
solver's module assumes of them; it rests on `FieldLaws` and `InverseLaw`, which speak of the
sixteen elements and are evaluated by TLC. That the tables are those of a field is checked in
full by `field_packing`.

`MayoProofs` is about the rest of package mayo, for all parameters as in
`ParametersFit`, a predicate that `ParameterSetsFit` proves of the four parameter sets
of `InitMayo`, and over the real GF(16): the sixteen elements and two tables enter by
`FieldLaws`, which are constant and evaluated by TLC in every run of the package.

* Packing. `DecodeEncodeVec` and `DecodeEncodeMatrices` say of every length and every even
  number of matrices of every shape that unpacking undoes packing, `RoundTripHolds` and
  `SizeAsDerivedHolds` that the packing process keeps this and uses the sizes of
  `initMayo`. A position's place in the bytes is its rank in the order of the loops,
  so the proofs are about counting: different positions have different ranks, and a
  triangle has half of its square and half of its diagonal.
* `VerifyComputesPStar`: the loop over pairs, which subtracts u_ij at the place `ell` has
  reached, and the reduction modulo f, which folds coefficients from the top while it
  overwrites them, together compute P\*. Both sides are linear in the u_ij. For one
  shift the fold is multiplication by z, and the pairs are visited in the order of
  Horner's rule, which is how `PStar` is defined.
* `OilSpaceVanishes`: `upper` keeps the quadratic form of a matrix, and with
  P3 = -O^T P1 O - O^T P2 the three parts of the form at (O x, x) cancel. The key is followed
  through its bytes: derived, packed, cut out at its offset, unpacked, assembled.
* `SystemIsPStar`: the polar form at (v_i + O x_i, x_i) is a constant, a part that is
  linear in x through L, and the vanishing form of the oil space. `BuildM` and
  `LinearSystemOf` sum the same values with shifts into the rows of A and into y, and the
  reduction of A by columns is the one of y.
* The properties of `MayoApi`. The inductive invariant `ApiInv` says what the locals of
  `Sign` are in terms of the seed, the message and the salt. None of the five properties is
  inductive alone: each speaks of one point of the program, and what it says there is
  made several steps before. `KeysInv` keeps that the public key is the one of the secret
  seed. `SigningInv` keeps the decoded secret key, the target, and that every attempt
  before `ctr` missed rank m, which is what `PanicOnlyIfExhausted` needs at the end.
  `AttemptInv` keeps that A, y and v belong to one attempt, and `AnswerInv` that what came
  back is a solution of that system. With `SystemIsPStar` a signature made from it is
  accepted (`EmittedGenuine`); `Genuine` keeps this until the message is opened. TLC
  checks `ApiInv` on the instances of `mayo_api` and `mayo_two_oil` (its byte strings of
  every length replaced by those of the length at hand).

The theorems about states of `MayoApi` assume `Environment`: SHAKE256 and the AES key stream
return as many bytes as asked for, seeds, draws and messages are byte strings, and what
arrives is long enough to hold a signature. The first three are what Go's types and
library give. The last is a precondition of `APISignOpen`, which slices `sm[:sigBytes]`
and panics otherwise (mayo.go:290). `Environment` speaks of byte strings of every length, so
TLC evaluates it for the lengths of the instance, as `MCEnvironment`.

Sums and loops are folds and recursive functions, so many of these lemmas are
inductions. The library's induction theorems have an operator as a parameter; the
proofs use an induction over sets of numbers instead (`SetInduction`, `BoundedInduction`
of `SliceProofs`, and `SubsetInduction` for finite sets), which is first-order and
follows from the well-foundedness of the natural numbers.

`RandProofs` is first about `Drbg` and proves, for every block length, byte size, cipher and sequence of requests,
`Invariance` (where the generator is in its loops), `NoBlockTwiceHolds` and `CounterMode`,
the safety part of the refinement of `CtrDrbg`. The number a counter stands for is the
value of its bytes as digits (`Number`). The byte-wise carry, which sets
0xff to 0 and goes on, adds one to that number modulo the number of blocks; so within a
call the inputs of the cipher are consecutive numbers, and they are different as long as a
call needs no more blocks than there are.

Its second part is about the block cipher of `aes_c.c`. `BlockCipherImplemented` proves for
every key of 16, 24 or 32 bytes, every request of whole blocks and whatever the array
`blocks` held before that the bitsliced code goes through FIPS-197 word by word and
round by round, and `EveryLaneHasTheKeyHolds` that every bit of every round key is in its
place in all four lanes.

* The S-box is a circuit of gates on whole words. Each gate works on every position by
  itself, so the circuit does at every position of eight words what it does to a single
  byte (`SboxIsSubByte`). What it does to the 256 bytes is `SboxAssumption`: a constant
  expression, which TLC decides in the run `aes`, together with the wires being
  assigned before they are used.
* Everything else only moves bits. `OrthoTransposes` (the three swaps transpose 8 x 8 bits,
  wherever they are), `InterleaveIn` and its inverse say where a bit comes from;
  with them `LoadedLanes` and `UnslicedLanes` say that lane b is block b of the request
  and the other way round, `ExpandedKeys` that compressing to two words a round and
  expanding again is a copy into four lanes. `LaneSubBytes`, `LaneShiftRows`, `LaneMixColumns`
  and `LaneAddRoundKey` say of each part of a round that it does to every lane what the
  standard does to a block; for the columns, adding x^8 back in words 0, 1, 3 and 4 is
  multiplication by x in the field. `NextWordIsStandard` is the iteration of the key schedule,
  whose counters j and k replace division by Nk.
* The invariant `EcbInv` ties the counters to the words done and the blocks written, has
  the expanded keys in all lanes (`LaneKeys`) and the lanes of a batch full of words
  of 64 bits. The refinement alone is not inductive: that a round adds the right key needs the
  expansion, and that the rest of a batch is where the answer continues needs the counters.
  TLC checked `EcbInv` on the requests of the run `aes`.

Its third part is about `AES_128_CTR`. `StreamIsStandardHolds` proves for every key, build and
length that each iteration writes the next bytes of the key stream of FIPS-197 with a
counter of four bytes, the one the C build writes.

* The ciphers: a round of AESENC and a round of AESE with AESMC, which begins with the
  key and leaves the last key over, cut the rounds of the standard at different places;
  `NiCipher` and `ArmCipher` prove them equal to `StandardCipher`, the first for any
  number of rounds.
* The schedules: `BLOCK1` makes four words at once, with sums of a block shifted by one and by
  two words. `NextRoundKey` proves that these are the four next words of the standard, where a word
  depends on the one before. That the S-box and the constants of the vector builds are
  those of FIPS-197, and that bytes are numbers one to one, is `CtrTablesAssumption`,
  constant expressions TLC decides in the run `aes`.
* The counters: the carry of `inc_be` into byte i is the difference of two numbers
  shifted by that byte (`CarryOf`), so `CountsOn` proves that adding n to the block
  of counter c is the block of counter c + n, and `StandardCounter` that this is the
  block the standard encrypts.
* The invariant `CtrInv` has the schedule so far as the beginning of the standard's, in words or in
  blocks, and a c for which what is written is c blocks and the counters are those of the
  blocks from c on. `StreamIsStandard` alone says nothing about the counters or the
  keys a step starts from. TLC checked `CtrInv` on the requests of the run `aes`.
* `StreamsFit` is the one hypothesis: requests of the x86 and ARM builds are of at most 64 GiB.
  Their counters have 8 bytes, those of the C build 4, and behind 2^32 blocks the builds
  do differ. The code neither checks nor documents this length.

`Fips202Proofs` is first about the incremental functions of `fips202.c`, for every set of
contexts, heap, set of chunks and lengths, subset of the five functions and
permutation that maps states to states (`PermuteKeepsStates`): `TypeCorrect`,
`MemoryOwned` (`Ownership`), `CounterBelowRate` (`CountBelowRate`) and
`SpongesImplemented` (`ImplementsSponges`).

* The inductive invariant `IInv` is `TypeOK`, `Ownership`, `CountBelowRate` and
  `LoopInv` together, and none of them is inductive alone. The counters are
  differences of sizes (`r - s_inc[25]`), which are natural numbers only while the
  counter is below the rate. That it stays there needs to know, for a call in the
  middle of a loop, which loop it is in and what is left, which is `LoopInv`. And a
  step of one context leaves the counters of the others alone because no two share a
  block, which is `Ownership`.
* The code has no buffer: bytes that do not fill a block are xored into the state
  at once. The refinement mapping takes them out again (`XorTwice`), so that the state
  of the abstract sponge is the words with the last `Count` bytes of the message
  xored once more. Most of the proof says that this fits: bytes xored one
  piece after the other are those of the whole piece (`XorAppend`), the last bytes of
  a longer message are the old ones and the new (`Rejoin`), and the two bytes the
  finalize xors are the padding of the abstract sponge, also when they are the same
  byte (`PaddingAdded`). The lemmas compare single bits.

Its second part is about the composition with the functions that take a whole
message: `OneOwnerHolds` proves for any finite number of contexts of both kinds, in
`ProcessSpec`, that the allocated blocks are exactly those of the contexts in use, one
each (`OneOwner`). malloc and free do the same to both kinds of contexts, so the
argument is made once, about two functions of pointers over one heap.

Its third part is about what comes out: `OutputIsStandardHolds`,
`BlocksAreStandardHolds` and `OneShotIsStandardHolds` prove in `ProcessSpec` that
everything handed out is the beginning of what FIPS 202 says of the message
(`Output` of `SpongeReference`, which pads a string of bits and absorbs it block by block),
for every permutation, message, length and order of calls. `ProcessSound` and
`SpongesInProcess` carry the first part over to the composed process.

* Code and standard are brought to the same closed forms: `AfterBlocks` (the state behind
  n whole blocks of the message), `Final` (with the padded block xored in) and `Stream`
  (the bytes squeezed from there, by index). Each is a recursive function; that two
  such recursions agree is an induction over the number of blocks (`Unfold`,
  `SameRecursion`). `AbsorbedIs` and `OutputIs` do this for the standard, `AbsorbIs`,
  `SqueezeblocksIs`, `ShakeIs` and `Sha3Is` for the functions that take the whole message.
  That the one bit of domain and the pad10*1 of the bit string are the two bytes the code
  xors is `EndBlock`, for all rates and also when both fall into the same byte.
* The properties speak of outputs only and are not inductive. `Standard` ties the
  whole context to its history: while it absorbs, the words are `AfterBlocks` of the
  message with the rest xored in, and the counter is the length of the rest; while it
  squeezes, what is handed out and what is left end at a block, and the words are the
  state this block came from. `ProcessInv` is this for all contexts of both kinds, with
  `IInv` and the owners of the blocks (`OwnedInv`): a call for one context leaves
  the words of the others alone only because no block has two owners. TLC checked
  `Standard` on an instance of the process before it was proved.

`KeccakProofs` proves `PermutationImplemented`: for every state, the code goes through
the 24 rounds of KECCAK-p[1600, 24]. Words are sets of bits. A rotation made of two
shifts is the move of every bit modulo 64 (`Rotation`), theta and the rest of a round
agree with the standard's step mappings lane by lane (`ThetaAgrees`, `RestAgrees`), and
so does a round (`RoundAgrees`). The two tables written out in the code, of rotations with
lanes and of constants, enter by `TablesAssumption`: that they are those the standard
computes from its rules. They are constant expressions without parameters, so TLC
decides this in the run `keccak`, and nothing is left open by it.

`KatProofs` proves `TypeCorrect`, `NoRecordMixedHolds`, `IntactFileReadHolds` and
`ReportsExactlyWrongHolds` for every set of files as in `FilesAssumption`: a file is as
its records have it up to a first damage, its end or a blank line where a
value is expected, and anything may follow. The invariant `Position` says where the
parser is relative to that line: it never expects a field beyond it, so what it
has appended are records from before it. For the last theorem an invariant relates the
state of the generator to the seed of the record being checked.

`CliProofs` proves `FilesCompleteHolds`, `TimedVerificationsSucceedHolds` and
`StructFitsHolds`, for every number of samples and repetitions. The first follows from how far each column is
filled while the five loops follow one another, the second from the keys and
signatures staying in step by index. The third is
proved for any parameters with an even m, by counting the positions of a matrix, and then
for the four levels.

Only model-checked:

* the published values `StandardExample` and `PublishedHashes`: computations on fixed data;
* `EntriesAreProducts` and `TablesAreField`: the field has one instance, checked in full;
* what is eventual (`StopsProperly`, the liveness in `ImplementsPromise`, `ImplementsCtrDrbg` and
  the field tables): liveness under fairness, which the prover does not treat.

## Not modelled

* SHAKE256 and AES-128 in counter mode of Go's library are constants of the modules, and
  so are AES-256 in `Drbg` and the permutation in the sponge modules; what the C code
  computes for the last two is the subject of `AesCt` and of `Keccak`. The wrappers
  `Shake256` and `Aes128ctr` of `random.go` only pass their arguments on.
* `mem.c` and `debug_bench_tools.h`. `mayo_secure_free` wipes memory through a pointer no
  compiler may see through, and frees it; the x86 and ARM builds of `AES_128_CTR`
  (aes128ctr.c:54 and 199, aes_neon.c:170) call it for the key schedule as their last
  step, and nothing reads the schedule afterwards. `mayo_secure_clear` and the macros,
  which print and count cycles, are not called.
* That `aes_neon.c` builds: it defines `AES_128_CTR_NEON` with three parameters
  (aes_neon.c:192), and `aes_ctr.h` declares it with four. `AesCtr` models what the
  function does with the three it has.
* Calls of `fips202.c` in an order its comments forbid (a squeeze before the
  finalize, a context used after its release).
* That z^m + tailF is irreducible, which the choice of the parameter sets rests on.
* Times, texts, JSON, hexadecimal decoding; flags that are no numbers (the `flag`
  package exits).
* `generateZeroMatrix` and the allocations of the Go code: a zero slice is `Zeros`.

## What could follow

1. A composition of `Drbg` with `MayoApi`: which requests a key and a signature make,
   and that the same seed gives the same key and signature.
2. Irreducibility of the four moduli, by Rabin's test.
