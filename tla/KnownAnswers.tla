---------------------------- MODULE KnownAnswers ----------------------------
(***************************************************************************)
(* The two programs that hold the crate to the draft's vectors:            *)
(*   downstream  integration/downstream-workspace/src/main.rs, which the   *)
(*               downstream gate builds with every profile and runs;       *)
(*   vectors     the test all_positive_vectors_and_intermediates_match,    *)
(*               one case of its fixture.                                  *)
(* Each is one thread that makes the calls of Signing one after another    *)
(* and panics at the first outcome that is not its known answer.  Reading  *)
(* the answers (hexadecimal, JSON) is left out; an answer is what it is    *)
(* when it is first compared: the draft's, the crate's own, or neither.    *)
(***************************************************************************)
EXTENDS SigningDraft

CONSTANT AnotherValue   \* an answer neither the draft nor the crate gives

(* The message of the downstream program is empty, as is that of one case  *)
(* of the fixture.                                                         *)
ASSUME ProgramAssumption ==
  Callers # {} /\ <<>> \in Messages /\ AnotherValue # NoValue

VARIABLES
  program,    \* which of the two runs
  input,      \* the seed and the message of the case
  line,       \* the statement it has reached
  status,     \* running, calling, exited or panicked
  actual,     \* its variables: what the crate has answered
  expected    \* its literals, as far as they have been compared

programVars == <<program, input, line, status, actual, expected>>
allVars == <<vars, programVars>>

Main == CHOOSE c \in Callers : TRUE

(* A call, a comparison of the named value, or a hash inside the test's    *)
(* own trace of a signature.                                               *)
Statements ==
  [downstream |-> <<"verifying_key", "sign", "public_key", "signature",
                    "verify">>,
   vectors |-> <<"expand_seed", "nonce_hash", "challenge_hash",
                 "intermediates", "public_key", "signature",
                 "verifying_key", "public_key", "sign", "signature",
                 "verify", "sign", "signature">>]

Statement == Statements[program][line]

Compared == {"intermediates", "public_key", "signature"}

-----------------------------------------------------------------------------
(* test_support::trace, on a hash that has been evaluated.                 *)

TracedPrefix(H) == H[SeedTranscript(input.seed)][2]

TracedKey(H) ==
  EncodePoint(MulPoint(BasePoint,
                       Prune(H[SeedTranscript(input.seed)][1]))).value

TracedNonceHash(H) == H[NonceTranscript(TracedPrefix(H), input.message)]

TracedCommitment(H) ==
  EncodePoint(MulPoint(BasePoint, ReduceHash(TracedNonceHash(H)))).value

TracedChallengeTranscript(H) ==
  ChallengeTranscript(TracedCommitment(H), TracedKey(H), input.message)

Trace(H) ==
  LET expanded_hash == H[SeedTranscript(input.seed)]
      pruned_scalar == Prune(expanded_hash[1])
      nonce_scalar == ReduceHash(TracedNonceHash(H))
      challenge_hash == H[TracedChallengeTranscript(H)]
      challenge_scalar == ReduceHash(challenge_hash)
      response == ScalarAdd(nonce_scalar,
                            ScalarMul(challenge_scalar,
                                      ReducePruned(pruned_scalar)))
  IN  [intermediates |->
         << expanded_hash, pruned_scalar, TracedPrefix(H),
            TracedNonceHash(H), nonce_scalar, TracedCommitment(H),
            challenge_hash, challenge_scalar, response >>,
       public_key |-> TracedKey(H),
       signature |-> <<TracedCommitment(H), response>>]

(* What the draft publishes for the case: something the crate does not     *)
(* give, if the hash has not been asked what the draft asks it.            *)
DraftAnswers(H) ==
  LET seed == input.seed
      M == input.message
      R == Draft!Renc(H, seed, M)
      A == Draft!PublicKey(H, seed)
      signature == Draft!SignatureOf(H, seed, M)
  IN  IF Draft!Asked(H, [op |-> "sign", seed |-> Some(seed), message |-> M])
      THEN [intermediates |->
              << H[<<seed>>], Draft!SecretScalar(H, seed),
                 Draft!Prefix(H, seed), H[Draft!NonceInput(H, seed, M)],
                 Draft!Nonce(H, seed, M), R, H[Draft!ChallengeInput(R, A, M)],
                 Draft!Challenge(H, R, A, M), signature[2] >>,
            public_key |-> A,
            signature |-> signature]
      ELSE [name \in Compared |-> AnotherValue]

-----------------------------------------------------------------------------
(* Control.                                                                *)

Advance ==
  IF line = Len(Statements[program])
  THEN status' = "exited" /\ line' = line
  ELSE status' = "running" /\ line' = line + 1

Panic == status' = "panicked" /\ line' = line

(* assert! and expect.                                                     *)
AdvanceOrPanic(holds) == IF holds THEN Advance ELSE Panic

(* One evaluation of the hash inside trace; the last completes its result. *)
HashInTrace ==
  /\ status = "running"
  /\ \E digest \in Digests :
       \/ /\ Statement = "expand_seed"
          /\ Hash(SeedTranscript(input.seed), digest)
          /\ UNCHANGED actual
       \/ /\ Statement = "nonce_hash"
          /\ Hash(NonceTranscript(TracedPrefix(oracle), input.message), digest)
          /\ UNCHANGED actual
       \/ /\ Statement = "challenge_hash"
          /\ Hash(TracedChallengeTranscript(oracle), digest)
          /\ actual' = Trace(oracle')
  /\ Advance
  /\ UNCHANGED <<pc, call, frame, returned, begun, program, input, expected>>

(* assert_eq! on a value and its literal.                                  *)
Compare ==
  /\ status = "running"
  /\ Statement \in Compared
  /\ \E answer \in IF expected[Statement] = NoValue
                   THEN {actual[Statement], DraftAnswers(oracle)[Statement],
                         AnotherValue}
                   ELSE {expected[Statement]} :
       /\ expected' = [expected EXCEPT ![Statement] = answer]
       /\ AdvanceOrPanic(actual[Statement] = answer)
  /\ UNCHANGED <<vars, program, input, actual>>

(* What the statement passes to the crate: the test verifies its literals, *)
(* the program what it was given.                                          *)
Arguments ==
  LET verified == IF program = "downstream" THEN actual ELSE expected
  IN  CASE Statement = "verifying_key" ->
             [op |-> "verifying_key", seed |-> Some(input.seed)]
        [] Statement = "sign" ->
             [op |-> "sign", seed |-> Some(input.seed),
              message |-> input.message]
        [] Statement = "verify" ->
             [op |-> "verify", public_key |-> Some(verified.public_key),
              message |-> input.message,
              signature |-> Some(verified.signature)]

Call ==
  /\ status = "running"
  /\ Begin(Main)
  /\ \/ /\ Statement \in {"verifying_key", "sign"}
        /\ BeginWithSeed(Main, Arguments)
     \/ /\ Statement = "verify"
        /\ BeginWithInputs(Main, Arguments)
  /\ status' = "calling"
  /\ UNCHANGED <<program, input, line, actual, expected>>

InCall ==
  /\ status = "calling"
  /\ \/ Derive(Main) \/ Export(Main)
     \/ Commit(Main) \/ Respond(Main) \/ SelfCheck(Main)
     \/ CheckEquation(Main)
  /\ UNCHANGED programVars

(* The call has returned: expect on its result, assert! on the boolean.    *)
Receive ==
  /\ status = "calling"
  /\ pc[Main] = "idle"
  /\ \E r \in returned :
       /\ r.call = Arguments
       /\ actual' = [name \in Compared |->
                       IF name \in DOMAIN r.outcome
                       THEN r.outcome[name]
                       ELSE actual[name]]
       /\ AdvanceOrPanic(DOMAIN r.outcome \subseteq Compared
                         \/ r.outcome = [valid |-> TRUE])
  /\ UNCHANGED <<vars, program, input, expected>>

-----------------------------------------------------------------------------

Start ==
  /\ Init
  /\ \/ /\ program = "downstream"
        /\ input \in [seed : Seeds, message : {<<>>}]
     \/ /\ program = "vectors"
        /\ input \in [seed : Seeds, message : Messages]
  /\ line = 1
  /\ status = "running"
  /\ actual = [name \in Compared |-> NoValue]
  /\ expected = [name \in Compared |-> NoValue]

Step == HashInTrace \/ Compare \/ Call \/ InCall \/ Receive

(* One thread that waits for nothing: it goes on as long as it can.        *)
ProgramSpec == Start /\ [][Step]_allVars /\ WF_allVars(Step)

-----------------------------------------------------------------------------
(* Properties.                                                             *)

Literals ==
  {Statements[program][n] : n \in DOMAIN Statements[program]} \cap Compared

(* The programs succeed on the draft's vectors and on no others, whatever  *)
(* the hash is: one that exits has compared every literal, and each is     *)
(* what the draft computes; one that panics holds a literal that is not,   *)
(* and never panics for a call that failed or a signature it cannot verify *)
PassesOnTheDraftsVectorsOnly ==
  /\ status = "exited" =>
       \A name \in Literals :
         expected[name] = DraftAnswers(oracle)[name]
  /\ status = "panicked" =>
       \E name \in Literals :
         /\ expected[name] # NoValue
         /\ expected[name] # DraftAnswers(oracle)[name]

(* Every run comes to an end: no call loops, and none is left waiting at a *)
(* stage that an unlucky value of the hash does not let it leave.          *)
ProgramEnds == <>(status \in {"exited", "panicked"})

=============================================================================
