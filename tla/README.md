# Verification of `ed301-eddsa`

TLA+ models of the crate `crates/ed301-eddsa` (EdDSA over the 301-bit twisted
Edwards curve ED301-v1), its taint harness, its gate scripts and the programs
that hold it to known answers, TLC configurations that check them on a small
curve, and TLAPS proofs of what holds for every curve, every hash and every
sequence of calls, failures and signals. Paths below are relative
to the repository; `C/` stands for `crates/ed301-eddsa/src/`.

## 1. The system

| part | code | state it keeps | operations |
|---|---|---|---|
| field | `C/field.rs` | none (values in Montgomery form) | add, sub, neg, mul, square, invert, sqrt, canonical bytes |
| points | `C/edwards.rs` | none (extended coordinates) | complete add and double, fixed 301-round multiplication, subgroup tests, encode, decode, strict decode |
| scalars | `C/scalar.rs` | none (integers below L; Montgomery forms inside `mul` and the reductions) | canonical parse, write, two reductions, add, mul |
| transcripts | `C/signature_hash.rs` | none | SHAKE256 of seed, of prefix and message, of commitment, key and message |
| signatures | `C/signature.rs` | a `SigningKey` owns its seed; a call owns its expanded secret, nonce and buffers until it returns | `sign`, `SigningKey::verifying_key`, `validate_public_key`, `verify` |
| secret owners | `C/secret.rs` | the value owned, wiped on drop | `secret(..)` |
| taint instrumentation | `C/secret_taint.rs`, `secret-taint/` | Memcheck's shadow bits | `declassify`; the harness runs `public` and `sign`, defined and tainted |
| gates | `scripts/*.sh` | two temporary directories | `check.sh` runs the test suites and `check-downstream.sh`; `check-secret-taint.sh` the harness |
| downstream workspace | `integration/downstream-workspace/` | profile marker files | a release build through `rustc-profile-guard.sh`, several wrappers at once; a program that compares one key and signature with known answers |
| constants | `C/parameters.rs` | none | compile-time assertions on the lengths and the cofactor |
| vectors | `C/vector_tests.rs`, `inputs/round4/` | data | the positive vectors with every intermediate value; the edge matrices |
| dependencies | `vendor/` | | crypto-bigint, shake, zeroize, ... |

**How they interact.** A call of `signature.rs` hashes a transcript, reduces the
digest with `scalar.rs`, multiplies the base point with `edwards.rs`, which
computes in `field.rs`, and encodes the result. `sign` then parses what it has
just written and verifies it under the key it has just derived, and refuses to
hand out a signature that does not verify. Nothing is shared between calls: the
crate has no lock, no cache and no global state. The gates meet the crate only
through programs they build: the harness under Valgrind and the downstream
program, each reduced to an exit status, and the marker files of the wrappers.
Two calls meet only in the hash function, which both evaluate, and in the bytes
that one makes and another is given.

**What is hard.** This is not a distributed program; its hard parts are:

- *boundaries of encodings*: y between P and 2^301, S at L, reserved bits, the
  sign of a zero, the parity of a root, the partial last word of every loop;
- *exceptional group elements*: the identity, torsion points and points of
  mixed order, which random tests never meet;
- *one secret in two forms*: the pruned scalar above L for the key, its
  reduction for the response;
- *two parties that must agree*: signer and verifier build the same transcript
  from different values, and the draft fixes which signatures are accepted;
- *integers that look alike*: a residue and its Montgomery form are both numbers
  below the modulus, and nothing but the code keeps them apart;
- *one hash for three uses* with no separation between them: a transcript of one
  use may be that of another;
- *gates that are interrupted*: handlers that remove directories the script goes
  on using, verdicts read from files that several processes append to, and
  binaries that an earlier build may have left;
- *failure paths of secrets*: errors and panics with live secret owners, and the
  order in which values are declassified.

**What makes each part correct.** Points: the formulas compute the group law on
every pair, torsion included. Codec: it accepts exactly one encoding per point.
Scalars: every reduction is the residue of the integer the bytes spell, every
scalar has one encoding. Signatures: outcomes are the draft's, a signature made
is accepted, calls are deterministic, no internal failure ever surfaces, one
response per commitment. Secrets: no owner outlives its scope unwiped.
Harness and gates: they pass only when what they check holds.

PROJECT.json lists the hazards with their lines.

## 2. The models

| module | models | its state |
|---|---|---|
| `CtOption` | crypto-bigint's optional values | (operators) |
| `Montgomery` | the dependency's Montgomery form: conversion, product, sum | (operators) |
| `Field` | `C/field.rs` | (operators) |
| `Edwards` | `C/edwards.rs`: formulas, multiplier as a function, encoder, decoders | (operators) |
| `EdwardsGroup` | reference: the affine curve, its group law, discrete logarithms | (operators) |
| `Powers` | powers of a natural number | (operators) |
| `CurveScheme` | the formulas of `Edwards` as the point operations that `Signing` takes as parameters, and the affine multiples they are compared with | (operators) |
| `ScalarMul` | `scalar_mul_with` round by round | `base`, `scalar`, `accumulator`, `bit_index`, the locals of the loop |
| `GroupMul` | specification of `ScalarMul`: an atomic product in a cyclic group | `element`, `multiplier`, `result` |
| `PointCodec` | a compressed point received (decode, key policy, encode again) or written (encode, decode again) | `stage`, `wire`, `point`, `strict`, `back` |
| `Scalar` | `C/scalar.rs` as the signer uses it, and pruning | (operators) |
| `Bytes` | little-endian bytes and words | (operators) |
| `ScalarReduce` | `reduce_pruned_le`, `reduce_hash_le`, `reduce_words`, loop by loop, then `Scalar::mul` and `add` on the results | `schedule`, `bytes`, `stage`, `words`, `index`, `accumulator`, `scalar` |
| `ScalarBytes` | `from_canonical_bytes` and the loop of `write_canonical_bytes` | `input`, `parsed`, `phase`, `output`, `offset`, `word_index` |
| `PointLaws` | what `C/signature.rs` takes from `C/edwards.rs`: operations on points as parameters, and the laws they obey | (operators) |
| `PointMathematics` | the affine mathematics of the draft, and that the operations compute it | (operators) |
| `Signing` | `C/signature.rs` and `C/signature_hash.rs`, any number of callers | see below |
| `EdDSA` | specification of `Signing`: sections 3 to 6 of the draft | `oracle`, `returned` |
| `SigningDraft` | the refinement mapping from `Signing` to `EdDSA` | |
| `SmallCurve` | tables that give `Signing` the point code of `Edwards` on the small curve | |
| `KnownAnswers` | the downstream program and the vector test, statement by statement, over the calls of `Signing` | `program`, `input`, `line`, `status`, `actual`, `expected` |
| `MC...` | the values for TLC | |
| `SecretFlow` | one call of `C/signature.rs` statement by statement: guards of `C/secret.rs`, wiping, taint, `declassify`, branches, failpoints | `memory`, `owned`, `tainted`, `memcheck_error`, `failpoint`, `function`, `at` |
| `SecretCalls` | a thread that arms the failpoint, makes calls and catches their panics, as the unwind test does | `SecretFlow` and counters |
| `TaintHarness` | `secret-taint/src/main.rs` under Valgrind, `valgrind-client/src/lib.rs`, the exit status the gate sees | `SecretFlow`, arguments, `stage`, `verdict`, `exit` |
| `Shell` | what the scripts take from `sh`: `set -e`, the trap, signals between commands | `disk`, `line`, `trapped`, `signals`, `exit` |
| `GateScript` | `scripts/check.sh`, `scripts/check-secret-taint.sh` | variables, flags, `step`, `passed` |
| `Downstream` | `scripts/check-downstream.sh` and the marker files of its build | `home`, `target`, `marker`, `compiled` |
| `Gate` | the scripts together: `check.sh` waits for the downstream script | both, one `disk` |
| `TaintGate` | `check-secret-taint.sh` with the harness it runs: the binary Valgrind finds, its environment and arguments, its exit status | those of `GateScript` and `TaintHarness`, `evidence` |
| `ProfileGuard` | any number of runs of `rustc-profile-guard.sh` at once, word by word, on one set of marker files | `options`, `place` (the option and the word of it that is next), `stage`, `previous`, `crate_name`, `overflow_state` of each; `marked` |
| `WrappedBuild` | `ProfileGuard` as the build inside `check-downstream.sh`, and the mapping to `Gate`'s one step `Build` | those of `ProfileGuard`, `outcome` |
| `CurveProofs` | proofs about `ScalarMul`, `PointCodec` and `CurveScheme` | |
| `ScalarProofs` | proofs about `ScalarReduce` and `ScalarBytes` | |
| `SigningProofs` | proofs about `Signing`, that it implements `EdDSA`, and about `KnownAnswers` | |
| `FlowProofs` | lemmas on the function bodies of `SecretFlow` and on its steps | |
| `SecretProofs` | proofs about `SecretCalls`, from `FlowProofs` | |
| `HarnessProofs` | lemmas on `TaintHarness`, from `FlowProofs` | |
| `TaintGateProofs` | proofs about `TaintGate`, from `HarnessProofs` | |
| `GateProofs` | proofs about `Gate` and `WrappedBuild` | |

**`Signing`.** One action per evaluation of the hash, which is all that two
calls have in common; everything between two evaluations is computation on the
frame of one call and is part of the action. `BeginSign`, `BeginVerifyingKey`,
`ValidatePublicKey` and `BeginVerify` are the entry points up to the first hash
(the length and parse errors return there). `Derive` is
`ExpandedSecret::derive`, `Export` the end of `verifying_key`, `Commit`,
`Respond` and `SelfCheck` are `sign_expanded` in order, `CheckEquation` is
`VerifyingKey::verify`. `expanded`, `nonce` and `encoded` are the locals of the
same names; `Return` drops them, as the code does. `returned` is a history
variable, the calls with their outcomes; it is what the properties speak of.

The hash is `oracle`, a function that grows: a transcript asked for the first
time is given any digest of `Digests`, one asked for again is given the same.
So the properties hold for every hash function, collisions between the three
uses included. A transcript is a sequence of 38-byte blocks; a message is a
sequence of blocks too, so that a message may look like a key.

Points are parameters of `Signing` (`AddPoints`, `MulPoint`, `EncodePoint`, ...)
that obey the laws of `PointLaws`, so that the proofs hold in every group with
these properties. `SmallCurve` gives them the formulas of `Edwards` on the small
curve, not an ideal group, and TLC evaluates the laws; `CurveScheme` gives them
the same formulas on any curve, and `CurveProofs` proves the laws.

**`KnownAnswers`.** One thread makes `Signing`'s calls one after another, takes
each outcome from `returned`, and panics at the first that is an error, a FALSE
or not its known answer. The test's own `trace` of a signature evaluates the hash
three times (`HashInTrace`) and is computed as `test_support::trace` writes it.
A known answer is a literal of the source: the model lets it be the draft's, the
crate's own or another value when it is first compared, and keeps it. Parsing
hexadecimal and JSON is left out, and the vector test runs one of its four cases,
with the empty message, as in the first, or one of one block; only the hash lasts
from one case to the next.

**`SecretFlow`.** A function body is a sequence of statements: a value made from
others (under a guard or not), a guard consumed by the function it is moved
into, a `declassify`, a branch, a failpoint. `Body` writes down `derive`,
`sign_expanded` and the end of `verifying_key` in the order of the code, with
the four checks of `encode_public_artifact` in line. Values are names. A branch
may fail whatever `SigningProofs` says of it, so every error return is taken;
leaving a function wipes what its guards own (`EndCall`, `ReturnDerived`). A
value computed from a tainted one is tainted; a branch on a tainted one is what
Memcheck reports. `SecretCalls` drives this untainted with panics, `TaintHarness`
tainted without: the failpoints exist only in test builds.

**`Gate`.** A file is a path and a marker line is a file below its marker, so
that `rm -rf` is one operator. A trapped signal runs `cleanup` between two
commands and the script goes on; this is how `sh` runs a handler that does not
exit, when the signal comes during a command too, since it is handled when the
command has ended. `mktemp` and `rm` are single steps. Each command succeeds or
fails; a cargo that succeeds makes again what directories are missing. A signal
to `check.sh` while it waits for the downstream script is handled after it
(`LateSignal`); so is one that comes just before the call. SIGKILL, which
nothing can handle, is left out. `TaintGate` puts the harness of `TaintHarness`
where `GateScript` has one command: four processes in turn, from the binary that
the build has written or that the caller's target directory already held. It
also lets the harness be started by hand with any arguments, in Valgrind or out
of it, with `--error-exitcode=99` or without (`error_exitcode`). Without that option
a run that has branched on an undefined bit exits with 0 all the same, so
`PassIsEvidence` claims less of it. Valgrind's other options are those of the gate.

**`WrappedBuild`.** `Gate` has the downstream build as one step that leaves
marker lines. Here that step is taken apart: wrappers read their command lines
word by word and append, interleaved, and rustc runs after the append; the whole
build is shown to be that one step (`ImplementsBuild`). Appending one short line
in append mode is one step, as the kernel does it. A command
line for `ProfileGuard` is a sequence of options as cargo writes them, in one
word or in two; how rustc takes it (`CompiledCrate`, `CompiledOverflow`) is
stated on the options. The script knows only words: `place` is a cursor that goes
from word to word (`Advance`), and what a word is depends on the option and on
how that is spelled (`Spelled`).

**Abstractions.** A field element is its Montgomery form, a scalar its integer;
both are single numbers, so the dependency's limbs and its constant-time
selection are left out. Wiping is in `SecretFlow`, without the copies a compiler
makes, of which the repository promises nothing. A 38-byte string is the integer
it spells where no property looks at single bytes; `ScalarReduce` and
`ScalarBytes` look at them.
The constants are those of a small curve (next section).

## 3. What is checked

The small curve is the smallest with the shape of ED301-v1 that leaves every case
possible: P = 59 (3 mod 4), A = 9 a square, D = 31 a nonsquare, 68 = 4 * 17
points, L = 17 prime, `FieldBits` = 6 (in place of 301), L < 2^5, 4 L >= 2^6,
encodings of 9 bits (0 to 511): y above P, reserved bits, both signs of zero,
all four torsion points, points of order 17, 34 and 68, scalars below and above
L exist and are all enumerated. `CurveAssumption`, `ScalarAssumption` and
`GroupAssumption` state this shape and TLC evaluates them. What depends only on
the algebra and on the shape is exercised in full, and proved for every curve of
the shape (section 4); what depends on the actual 301-bit constants is left to
the repository's vectors.

| run | states | what it shows |
|---|---|---|
| `scalar_mul` | 63,784 | every point (two Z each) times every 6-bit scalar and some with bits above: after each round the accumulator is a valid point (`AccumulatorIsValid`) equal to base times the bits read (`AccumulatorIsPartialProduct`), and the loop refines one atomic product and ends (`ImplementsGroupMul`) |
| `point_codec` | 1,908 | all 512 encodings and all points with four Z: `DecodesExactlyTheCurve`, `ReencodingReproducesTheInput`, `StrictIsExactOrderL`, `WrittenPointReadsBackEqual` |
| `scalar_reduce` | 29,504 | every string of one and of two full words with a partial top word (bytes of one bit, words of four): `WordsSpellTheBytes`, `AccumulatorIsReducedPrefix`; then multiplied by and added to any scalar: `ResponseIsExact` |
| `scalar_bytes` | 4,355 | every string of 5 bytes (4 values each), words of 2, so that the last is partial; L = 769 out of 1024: `OneEncodingPerScalar` |
| `signing_interleaved` | 21,095 | two callers (symmetric), four calls in any interleaving, two digests, one whose prefix equals the seed, two messages: `FramesConsistent`, `Deterministic`, `SignedIsAccepted` |
| `known_answers` | 725,674 | both programs, the test with two messages, with digests for all 8 pruned scalars, all 17 nonces and challenges and two with upper halves: `NoInternalFailure`, `ImplementsDraft`; the programs succeed on the draft's vectors and on no others (`PassesOnTheDraftsVectorsOnly`) and always end (`ProgramEnds`) |
| `verify_language` | 116,196 | two verifications with keys of order 17, 34 and 4, the identity, malformed keys, commitments of every kind of order and responses below, at and above L: `OneResponseAccepted`, `ImplementsDraft` |
| `secret_calls` | 5,189 | three calls, two armings, every check failing or not: `NamedOwnersAreWiped` for the owners `ZEROIZATION_AND_CT_BOUNDARY.md` lists, `OnePanicPerArm`, and every call ends (`CallsEnd`) |
| `taint_gate` | 12,689 | the gate with up to two signals, any command failing, either build in the target directory before it; the harness by hand in all modes, cases and broken invocations, with `--error-exitcode` or without: no branch on a tainted bit in the instrumented build (`NoTaintedBranch`), nothing declassified that an owner holds (`SecretsStayTainted`), what a harness's exit of 0 means (`PassIsEvidence`) and what the gate's means (`GatePassIsEvidence`) |
| `gate` | 93,506 | both gates and the downstream script by itself, two signals to each shell, any command failing, every choice of the caller's directories, every profile: `CallerDirectoriesKept`, `NothingLeftBehind`, `PassMeansEveryStepSucceeded`, `UninterruptedPassMeansProfile` |
| `downstream_signal` | violated | see Finding |
| `wrapped_build` | 730,370 | two wrappers at once, three options in all: every compilation is marked as rustc takes it, no line is lost (`MarkedAsCompiled`), and the build is the one step of the downstream script (`ImplementsBuild`) |

**Finding.** `downstream_signal` violates `PassMeansOverflowChecksOn`. The trap of
`scripts/check-downstream.sh:22` handles HUP, INT and TERM by removing the marker
directory and does not exit. If a signal is handled after the markers were found
(lines 33 to 40) and before line 46, `grep -qvx on` fails for want of a file, the
`if` takes that as "no other line", and the gate goes on to exit 0 for a crate
that line 47 would have refused ("ed301_eddsa did not retain top-level overflow
checks"). `dash` and `bash` both behave so. A handler that simply exits is not
the remedy by itself in the two other scripts: with it a signal between `mktemp`
and its flag leaves a directory behind, which the mutant of `NothingLeftBehind`
shows.

Every passing run also has a mutant per property (PROJECT.json): the same run
finds the property violated when one definition is changed the way a bug would.

**Bounds.** `MaxCalls` caps the calls made. Four calls are what
`SignedIsAccepted` and `Deterministic` need (a key export, a signature and two
verifications, or two pairs of equal calls); two are what `OneResponseAccepted`
needs; the vector test makes four, and a single signature already takes four
evaluations of the hash. Two digests make hash collisions between uses frequent.
`MaxArms` and the three calls of `secret_calls` let a failpoint be armed, not
reached, reached later, and a call follow. Two signals per shell let a second
one come after cargo has made a directory again. Three options are what it takes
for one option to stand before and one after the option that counts; with two
wrappers they are shared between them (`MaxOptions` counts both command lines).
Two wrappers are what it takes to append to one file, or to two, in either
order; a third only repeats it. All runs set `CHECK_DEADLOCK FALSE`: a
computation ends, and callers stop when the bound on calls is reached.

**Fairness.** `ScalarMul` (and `GroupMul`) has weak fairness of the next round,
and `SecretCalls` of the next statement of a call, `KnownAnswers` of the next
step of the program. All run on one thread, take no lock and wait for nothing,
so a step that is enabled stays so until it is taken. The other properties are
safety properties and need none; of the scripts no liveness is claimed, since
cargo may take for ever.

## 4. What is proved

All theorems are about the specifications that TLC runs, for every value of the
constants that meets the assumptions. TLC evaluates each assumption on the
constants of the runs of the module that states it. Every safety invariant and
every action property that a passing run checks is also a theorem.

| assumption | what it says | evaluated by |
|---|---|---|
| `FieldAssumption` | P is a prime, 3 modulo 4; the Montgomery radix is no multiple of it | `scalar_mul`, `point_codec` |
| `CurveAssumption` | A is a square, D is not; P has `FieldBits` bits, L is an odd prime of one bit less with 4 L >= 2^301 | the same |
| `GroupAssumption` of `EdwardsGroup` | the curve is cyclic of order 4 L under its affine group law (a logarithm is one-to-one and turns sums into sums); the base point is on it and has order L | the same |
| `ScalarMulAssumption`, `CodecAssumption` | the Z coordinates tried are not 0, the scalars are 38-byte strings | the same |
| `BytesAssumption`, `ScheduleAssumption`, `LengthAssumption` | bytes have at least two values, L is odd and the number of values of a byte has an inverse modulo L; a schedule's top word has between one byte and all; a scalar fits the string | `scalar_reduce`, `scalar_bytes` |
| `ScalarAssumption` | what section 4 of the draft says of L, the modulus declared in `C/scalar.rs`: L odd, 1 < L < 2^300, 2^301 <= 4 L | the runs of `Signing` |
| `InputAssumption` | seeds, messages, digests and verifier inputs are strings of their lengths | the same |
| `GroupAssumption` of `Signing` (`GroupLaws`) | the point code is closed on the points; the multiples of the base point are a group of order L in which it doubles, adds and multiplies; a multiple up to 2^301 depends on its residue only; what is encoded decodes to itself | the same, on all 68 points of the small curve and the formulas of `Edwards`; `CurveObeysTheGroupLaws` proves it of every curve |
| `CurveMathAssumption` (`MathematicsLaws`) | sums, multiples and encodings of the code are those of the affine mathematics; clearing the cofactor is linear | the same; `CurveComputesTheMathematics` |
| `ProgramAssumption` | a thread, an empty message, and a literal that is wrong | `known_answers` |
| `CallsAssumption`, `SignalsAssumption`, `GateAssumption` | the bounds are natural numbers, a profile is a set of marker lines | `secret_calls`, `taint_gate`, `gate` |
| `OptionsAssumption` | finitely many wrappers, a bound on their options | `wrapped_build` |

No bound of section 3 limits a theorem: calls, armings, signals, wrappers,
options and the lengths of strings are as large as one likes.

Powers, the integer a string spells, the product of a function's values and the
multiples of a point are defined by recursion. The induction theorems of the
library take an operator, which the provers cannot instantiate; the proofs use
sets instead. `SetInduction` (a set of naturals with 0 that is closed under
successor is all of them) follows from the well-foundedness of < on Nat, and
`Recursion`, from it, that a function defined by its value at 0 and a step exists.

### The curve (`CurveProofs`)

From the bottom up, each layer using only the one below:

- *The field.* Congruence modulo P is kept by sums and products. A nonzero
  residue has an inverse: the least positive multiple of it, modulo P, divides P
  (`Least`, `HasInverse`). So there are no zero divisors. `Fermat`'s little
  theorem, by the permutation that a multiplication is of the nonzero residues;
  with P = 3 modulo 4 it makes the power (P + 1) / 4 of a square a root of it
  (`RootOfSquare`), which is what `FieldElement::sqrt` computes (`FeSqrtIs`). The
  operations of `C/field.rs` on Montgomery forms are those of the residues
  (`FieldOperations`), and forms are equal only if the residues are.
- *The addition law.* Its denominators 1 + d x1 x2 y1 y2 and 1 - d x1 x2 y1 y2
  never vanish on the curve (`Complete`): if one did, D would be a square, as A
  is. The sum of two points of the curve is on the curve (`SumOnTheCurve`).
- *The formulas.* `Represents(p, a)`: the extended coordinates p stand for the
  affine point a, with some Z. `PointAdd` and `PointDouble` of representatives
  represent the affine sum (`PointAddRepresents`, `PointDoubleRepresents`), and
  what passes `is_valid` represents something (`ValidPointsRepresent`).
- *The loop.* `LoopInvariant` says that the accumulator represents a point whose
  logarithm is that of the base times the bits of the scalar read so far; a round
  doubles the logarithm and adds the bit (`RoundLog`). The three invariants of
  `scalar_mul` are inductive together and none alone. Theorems `MultiplierTypes`,
  `RoundsStayOnTheCurve`, `RoundsMultiply`; and `LoopMultipliesInTheGroup`, the
  safety part of `ImplementsGroupMul`.
- *The codec.* A point is determined by y and the parity of x, since A - D y^2 is
  never 0 (`DenominatorIsNonzero`, `RootsOfOneSquare`); the decoder finds that
  point exactly when there is one (`DecodeIs`); the encoder writes the affine
  coordinates (`EncodeIs`). `Journey` is the invariant of `PointCodec`: what each
  variable holds as a function of the bytes received or the point written.
  Theorems `DecoderIsExact`, `EncodingIsCanonical`, `SubgroupPolicyIsExact`,
  `WritingLosesNothing`.
- *What the signatures need.* `CurveObeysTheGroupLaws` and
  `CurveComputesTheMathematics`: with the formulas of `Edwards` for its
  parameters, as `CurveScheme` has them, the two assumptions that the theorems on
  signatures rest on are true on every curve of the assumptions above. They are
  stated for affine points and coordinates with Z = 1; `CoordinatesDoNotMatter`
  says that this is no restriction: on any valid coordinates every operation
  gives valid coordinates of the same point, and `ct_eq` is equality of points.

What is left assumed of ED301-v1 is arithmetic about its constants: that P and L
are primes, which of A and D is a square, and that its group is cyclic of order
4 L with a base point of order L.

### Scalars (`ScalarProofs`)

- `RInv`, of `ScalarReduce`: while loading, the words so far are the digits of the
  integer the bytes spell (`Digit`), the partial top word among them; while
  folding, the accumulator is the Montgomery form of that integer divided by the
  power of the word at the index, modulo L; after it, scalar and operands. The
  accumulator alone would not be inductive: a step needs to know what the word it
  adds is, and that it and the shift are converted. `ReduceTypes`, `LoadedWords`,
  `FoldsTheWords`, `ExactResponse` (`TypeOK`, `WordsSpellTheBytes`,
  `AccumulatorIsReducedPrefix`, `ResponseIsExact`).
- `EInv`, of `ScalarBytes`: the bytes written so far are the bytes parsed, the
  offset is the word index times the word. `EncodingTypes`, `OneEncoding`
  (`EncodingTypeOK`, `OneEncodingPerScalar`).

### Signatures (`SigningProofs`)

- `PrunedScalarIsNotZero`: L does not divide a pruned scalar. A pruned scalar is
  a multiple of 4 between 2^300 and 2^301, at most 4 L, so it would be L, 2 L or
  3 L; none is a multiple of 4 as L is odd. From `ScalarAssumption` alone.
- `TypeCorrect`, `FramesStayConsistent`, `SigningNeverFails` (`TypeOK`,
  `FramesConsistent`, `NoInternalFailure`) follow from one invariant, `IInv`,
  their conjunction. That the self-check of a signature passes depends on what
  the frame holds: the key is the encoding of the reduced scalar's multiple, the
  commitment that of the nonce's, the response answers the challenge the hash
  gave. A step of one caller preserves what is known of the others because they
  only read the hash, and the hash only grows (`OneCallerStep`).
  `ResponseVerifies` is the algebra of the scheme: [r + k x]B = [r]B + [k][x]B.
- `OutcomesComputed`: in every interleaving a call ends as the code computes it
  alone, on the hash as it stands. The invariant is `IInv /\ DInv`: every
  answer given is the one `Computed` from its arguments and the hash, and every
  frame holds what its seed, message and hash determine. `IInv` is not enough,
  since it does not say from which seed a frame comes.
- `CallsAreDeterministic`, `SignaturesVerify` and `ResponsesAreUnique`
  (`Deterministic`, `SignedIsAccepted`, `OneResponseAccepted`) are then
  statements about `Computed`, without steps. For the last: two responses that
  the verifier accepts have equal multiples of the base point after two
  doublings; doubling is injective on residues of an odd L, and only residues
  below L parse.
- `CrateImplementsDraft`: `Spec => ImplementsDraft`, the refinement. Every
  outcome computed is the draft's: pruning is the draft's bit arithmetic
  (`PruneIsSecretScalar`), the response reduced at each operation is the integer
  reduced once (`ReducedOnce`), the verifier's points and doublings decide the
  cofactored equation for any order the key's and the commitment's points may
  have (`VerifiersAgree`); and a step adds only such outcomes.

### Known answers (`SigningProofs`)

`AnswersAreKnown` is the invariant `KInv`: `IInv /\ DInv` under the program's
own steps, what the hash has been asked before each line, every value the
program holds is the one its trace computes, and every literal compared so far
agrees with it. It is needed because a literal is compared at one line and
verified at another, and because the same value reaches the test in two ways,
from `trace` and from a call. `ProgramsPassOnTheDraftsVectors`
(`PassesOnTheDraftsVectorsOnly`), `ProgramCallsSucceed` (`NoInternalFailure`) and
`ProgramsKeepToTheDraft` (`ImplementsDraft`) follow with the lemmas of the draft.

### Secrets (`FlowProofs`, `SecretProofs`)

`FlowInv` is the invariant of one call: every named owner in memory is in a frame
of the call, of the function it is in, or is the seed of a key; what `derive`
returns is guarded from the statement that makes it; the frames of functions not
under way are empty. It is proved for each kind of statement (`let`, `drop`,
`declassify`, `branch`, `failpoint`) from a table of the three bodies: which
values a statement makes, whether under a guard, and that what is consumed is no
named owner. `SecretProofs` adds that an armed failpoint is an arming not yet
used up, and has `OwnersAreTyped`, `OwnersAreWiped` and `PanicsUseUpArmings`
(`TypeOK`, `NamedOwnersAreWiped`, `OnePanicPerArm`): with any number of calls, each
left at any statement by an error, a panic or its end.

### The harness in its gate (`HarnessProofs`, `TaintGateProofs`)

`HInv` is the invariant of the harness. Beside `FlowInv` it rests on two
annotations of the bodies, each checked statement by statement
(`BodiesAnnotated`): `IsCleared`, the values that are defined at a statement of
the instrumented build whatever the seed is, and `IsUndefined`, those that are
undefined when the seed is, in either build. The first makes every branch one on
a defined value; the second keeps `declassify` from owners. Of the build without
instrumentation it says that the first check of `derive` is an error already
(`MissedOK`). The rest says what is known at each stage of `run`: the environment
was checked, the seed was made undefined, the output is defined, the verdict.

`TInv` joins it to the gate: while the harness runs, the gate waits at that very
run (`RunOK`); after the build no older harness is left (`FreshOK`); the evidence
is what was to be observed of the runs passed (`EvidenceOK`). From it:
`BranchesAreDefined`, `SecretsAreNotHidden`, `PassedRunsAreEvidence`,
`PassedGateIsEvidence` (`NoTaintedBranch`, `SecretsStayTainted`, `PassIsEvidence`,
`GatePassIsEvidence`). `TaintGate` has the harness twice, by two instances of one
module; the lemmas `Same...` carry what is proved of one to the other.

### The gate scripts (`GateProofs`)

`GInv` (`GateInvariant`) says, at each command of the three scripts, which
directories and marker lines can exist and what each variable names: a directory
with a temporary name is the script's own, its variable names it, and from the
command after `mktemp` on its flag is set, so that the trap removes it
(`CallerLineOK`, `CallerOwnOK`, `DownstreamLineOK`, `DownstreamOwnOK`); a harness
from before the run is only in the target directory of the caller, and gone once
the build has succeeded (`DiskOK`, `StepsOK`); the calling script waits while
the downstream script runs (`CallOK`); and while no signal has come, the marker
lines are those of what was compiled (`MarkersOK`, the part that the finding
shows to be false otherwise). None of the five properties is inductive: each
needs the line at which the script stands. `TypesAreKept`,
`CallersDirectoriesStay`, `ScriptsCleanUp`, `PassIsEveryStep` and `PassIsProfile`
are `TypeOK`, `CallerDirectoriesKept`, `NothingLeftBehind`,
`PassMeansEveryStepSucceeded` and `UninterruptedPassMeansProfile`.

### Wrappers (`GateProofs`)

`WInv` says what a wrapper has read when its cursor stands at a word: the crate
name and the overflow state are those that the options before it give, the last
one counting, and between the two words of an option `previous` holds its flag
(`PlaceOK`, `NameRead`, `ChecksRead`); and that the marker files have, for each
crate and state, as many lines as there are wrappers that have recorded such a
compilation (`MarksOK`). The property that TLC checks speaks only of the lines;
what makes it inductive is the reader. `WrapperTypes`, `EveryCompilationIsMarked`
(`GuardTypeOK`, `MarkedAsCompiled`); `BuildIsOneStep` is the refinement
`ImplementsBuild`: a step of a wrapper changes nothing that the script sees, and
the end of the build is the script's one step.

### Only model-checked

Liveness: that calls, programs and the multiplication end (`CallsEnd`,
`ProgramEnds`, the fairness part of `ImplementsGroupMul`). Fairness and `ENABLED`
are beyond the prover. `PassMeansOverflowChecksOn` is false (see Finding).

## 5. What is not modelled

- SHAKE256, crypto-bigint, zeroize: third-party; only their contracts are used.
- Constant-time execution: a property of machine code.
- The values in `inputs/` and in the fixture's literals: they belong to the
  full-size curve and to SHAKE256. Of `C/vector_tests.rs` the positive vectors are
  modelled; its matrices of edge cases are points, keys and signatures that
  `point_codec` and `verify_language` enumerate all of on the small curve.
- What cargo and Valgrind do inside: a command succeeds or fails.
- `C/lib.rs` (declarations and re-exports) and `vendor/`.

## 6. Plan

1. Points, codec, multiplication; scalars; signing, its draft and first proofs
   (done).
2. Secrets, the harness, the gates and the profile guard (done); Montgomery
   forms, the harness inside its gate, wrappers that run at once, the
   known-answer programs (done).
3. Proofs for all parameters: outcomes, determinism, acceptance and the
   refinement of the draft; the known-answer programs; secret owners; taint and
   the gate's evidence; the directories and verdicts of the scripts (done).
4. Proofs about the data: field, curve, multiplication and codec; reductions and
   encodings of scalars; the parsing of command lines; that the point code is what
   the signatures assume (done).
5. Left: that the constants of ED301-v1 satisfy the assumptions of section 4, which
   is a computation on 301-bit numbers and not one for TLC or its provers.
