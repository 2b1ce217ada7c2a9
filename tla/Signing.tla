------------------------------ MODULE Signing -------------------------------
(***************************************************************************)
(* crates/ed301-eddsa/src/signature.rs and signature_hash.rs: the four     *)
(* calls of the crate, run by any number of callers at once, one action    *)
(* per evaluation of the hash.                                             *)
(*   sign                 seed, message            -> signature            *)
(*   verifying_key        seed                     -> public key           *)
(*   validate_public_key  bytes                    -> boolean              *)
(*   verify               bytes, message, bytes    -> boolean              *)
(* A call keeps nothing: its frame is dropped when it returns.  What ties  *)
(* the calls together is the hash function, SHAKE256, evaluated on plain   *)
(* concatenations with no separation between its three uses.  It is        *)
(* external and unknown: `oracle' holds the values asked for so far.       *)
(*                                                                         *)
(* A seed, a prefix, an encoded point and an encoded scalar are all one    *)
(* 38-byte block, an element of Encoding; a transcript is a sequence of    *)
(* blocks.  Byte strings of a wrong length are None.  Points and their     *)
(* operations are the parameters of PointLaws; MCSigning gives them the    *)
(* formulas of Edwards.tla.                                                *)
(***************************************************************************)
EXTENDS PointLaws, Sequences

CONSTANTS
  Points,
  Callers,
  Seeds,              \* the 38-byte seeds
  Messages,           \* sequences of blocks
  PublicKeyInputs,    \* what a verifier may be handed, besides what the
  SignatureInputs,    \*   callers themselves have made
  Digests,            \* the values of the hash
  MaxCalls,           \* bound on the calls made
  NoValue

ASSUME InputAssumption ==
  /\ Seeds \subseteq Encoding
  /\ Messages \subseteq Seq(Encoding)
  /\ \A bytes \in PublicKeyInputs :
       \/ bytes = None
       \/ bytes = Some(bytes.value) /\ bytes.value \in Encoding
  /\ \A bytes \in SignatureInputs :
       \/ bytes = None
       \/ bytes = Some(bytes.value) /\ bytes.value \in Encoding \X Encoding
  /\ Digests \subseteq Encoding \X Encoding
  /\ MaxCalls \in Nat
  /\ NoValue \notin Int

(* The point code obeys the laws of a group and of a codec.                *)
ASSUME GroupAssumption == GroupLaws(Points)

VARIABLES
  oracle,     \* SHAKE256, as far as it has been evaluated
  pc,         \* where each caller's call stands
  call,       \* the arguments of that call
  expanded,   \* ExpandedSecret: reduced scalar, prefix, public key
  nonce,      \* the nonce scalar
  encoded,    \* the signature bytes: commitment and response
  returned,   \* history: the calls that have returned, with their outcomes
  begun       \* the number of calls made

frame == <<expanded, nonce, encoded>>
vars == <<oracle, pc, call, expanded, nonce, encoded, returned, begun>>

-----------------------------------------------------------------------------
(* Points.                                                                 *)

MultiplyByCofactor(p) == DoublePoint(DoublePoint(p))

IsPrimeSubgroup(p) == MulPoint(p, L) = Identity

IsPrimeSubgroupNonidentity(p) == p # Identity /\ IsPrimeSubgroup(p)

(* VerifyingKey::from_bytes, on bytes or on a wrong length.                *)
ParseKey(bytes) ==
  IF bytes.some
  THEN LET point == DecodePoint(bytes.value)
       IN  IF point.some /\ IsPrimeSubgroupNonidentity(point.value)
           THEN Some([encoded |-> bytes.value, point |-> point.value])
           ELSE None
  ELSE None

(* Signature::from_bytes.  The commitment is any point of the curve.       *)
ParseSignature(bytes) ==
  IF bytes.some
  THEN LET commitment == DecodePoint(bytes.value[1])
           response == ScalarFromCanonical(bytes.value[2])
       IN  IF commitment.some /\ response.some
           THEN Some([encoding |-> bytes.value[1],
                      commitment |-> commitment.value,
                      response |-> response.value])
           ELSE None
  ELSE None

(* VerifyingKey::verify without the cofactor on either side.               *)
EquationWithoutCofactor(key, signature, challenge) ==
  MulPoint(BasePoint, signature.response)
    = AddPoints(signature.commitment, MulPoint(key.point, challenge))

(* The comparison at the end of VerifyingKey::verify.                      *)
Equation(key, signature, challenge) ==
  MultiplyByCofactor(MulPoint(BasePoint, signature.response))
    = MultiplyByCofactor(AddPoints(signature.commitment,
                                  MulPoint(key.point, challenge)))

-----------------------------------------------------------------------------
(* The hash.                                                               *)

SeedTranscript(seed) == <<seed>>

(* The prefix hashed after the message.                                    *)
NonceTranscriptMessageFirst(prefix, message) == message \o <<prefix>>

NonceTranscript(prefix, message) == <<prefix>> \o message

ChallengeTranscript(commitment, public_key, message) ==
  <<commitment, public_key>> \o message

(* The hash answers d on a transcript: as before, or for the first time.   *)
Hash(transcript, d) ==
  /\ transcript \in DOMAIN oracle => d = oracle[transcript]
  /\ oracle' = [t \in DOMAIN oracle \cup {transcript} |->
                  IF t = transcript THEN d ELSE oracle[t]]

-----------------------------------------------------------------------------
(* Calls.                                                                  *)

SeedInputs == {None} \cup {Some(seed) : seed \in Seeds}

(* What has been made so far, from the outcomes of the calls.              *)
MadeKeys ==
  {Some(r.outcome.public_key) :
     r \in {q \in returned : "public_key" \in DOMAIN q.outcome}}
MadeSignatures ==
  {Some(r.outcome.signature) :
     r \in {q \in returned : "signature" \in DOMAIN q.outcome}}

InternalFailure == [error |-> "InternalFailure"]

(* The call of caller c returns; its frame is dropped.                     *)
Return(c, outcome) ==
  /\ returned' = returned \cup {[call |-> call[c], outcome |-> outcome]}
  /\ pc' = [pc EXCEPT ![c] = "idle"]
  /\ call' = [call EXCEPT ![c] = NoValue]
  /\ expanded' = [expanded EXCEPT ![c] = NoValue]
  /\ nonce' = [nonce EXCEPT ![c] = NoValue]
  /\ encoded' = [encoded EXCEPT ![c] = NoValue]
  /\ UNCHANGED begun

(* A call that is answered at once, on its arguments alone.                *)
ReturnAtOnce(arguments, outcome) ==
  /\ returned' = returned \cup {[call |-> arguments, outcome |-> outcome]}
  /\ UNCHANGED <<oracle, pc, call, frame>>

(* A call that goes on to stage.                                           *)
Enter(c, arguments, stage) ==
  /\ pc' = [pc EXCEPT ![c] = stage]
  /\ call' = [call EXCEPT ![c] = arguments]
  /\ UNCHANGED <<oracle, frame, returned>>

Begin(c) ==
  /\ pc[c] = "idle"
  /\ begun < MaxCalls
  /\ begun' = begun + 1

(* SigningKey::from_seed, then SigningKey::sign or verifying_key.          *)
BeginWithSeed(c, arguments) ==
  IF arguments.seed.some
  THEN Enter(c, arguments, "derive")
  ELSE ReturnAtOnce(arguments, [error |-> "InvalidSeedLength"])

BeginSign(c) ==
  /\ Begin(c)
  /\ \E seed \in SeedInputs, message \in Messages :
       BeginWithSeed(c, [op |-> "sign", seed |-> seed, message |-> message])

BeginVerifyingKey(c) ==
  /\ Begin(c)
  /\ \E seed \in SeedInputs :
       BeginWithSeed(c, [op |-> "verifying_key", seed |-> seed])

ValidatePublicKey(c) ==
  /\ Begin(c)
  /\ \E public_key \in PublicKeyInputs \cup MadeKeys :
       ReturnAtOnce([op |-> "validate_public_key", public_key |-> public_key],
                    [valid |-> ParseKey(public_key).some])

(* The free function verify: both parsers, in order, before any hashing.   *)
BeginWithInputs(c, arguments) ==
  IF ParseKey(arguments.public_key).some
     /\ ParseSignature(arguments.signature).some
  THEN Enter(c, arguments, "verify")
  ELSE ReturnAtOnce(arguments, [valid |-> FALSE])

BeginVerify(c) ==
  /\ Begin(c)
  /\ \E public_key \in PublicKeyInputs \cup MadeKeys,
        message \in Messages,
        signature \in SignatureInputs \cup MadeSignatures :
       BeginWithInputs(c, [op |-> "verify", public_key |-> public_key,
                           message |-> message, signature |-> signature])

(* A verifier that hashes the commitment and the message without the key.  *)
CheckEquationWithoutKey(c) ==
  /\ pc[c] = "verify"
  /\ \E digest \in Digests :
       LET key == ParseKey(call[c].public_key).value
           signature == ParseSignature(call[c].signature).value
       IN  /\ Hash(<<signature.encoding>> \o call[c].message, digest)
           /\ Return(c, [valid |-> Equation(key, signature,
                                            ReduceHash(digest))])

(* VerifyingKey::verify.                                                   *)
CheckEquation(c) ==
  /\ pc[c] = "verify"
  /\ \E digest \in Digests :
       LET key == ParseKey(call[c].public_key).value
           signature == ParseSignature(call[c].signature).value
       IN  /\ Hash(ChallengeTranscript(signature.encoding, key.encoded,
                                       call[c].message), digest)
           /\ Return(c, [valid |-> Equation(key, signature,
                                            ReduceHash(digest))])

(* ExpandedSecret::derive.                                                 *)
Derive(c) ==
  /\ pc[c] = "derive"
  /\ \E digest \in Digests :
       LET pruned == Prune(digest[1])
           public_point == MulPoint(BasePoint, pruned)
           public_key == EncodePoint(public_point)
       IN  /\ Hash(SeedTranscript(call[c].seed.value), digest)
           /\ IF IsPrimeSubgroupNonidentity(public_point) /\ public_key.some
              THEN /\ expanded' = [expanded EXCEPT ![c] =
                         [reduced_scalar |-> ReducePruned(pruned),
                          prefix |-> digest[2],
                          public_key |-> public_key.value]]
                   /\ pc' = [pc EXCEPT ![c] =
                         IF call[c].op = "sign" THEN "commit" ELSE "export"]
                   /\ UNCHANGED <<call, nonce, encoded, returned, begun>>
              ELSE Return(c, InternalFailure)

(* The end of SigningKey::verifying_key: the derived key is parsed again.  *)
Export(c) ==
  /\ pc[c] = "export"
  /\ UNCHANGED oracle
  /\ LET public_key == expanded[c].public_key
     IN  Return(c, IF ParseKey(Some(public_key)).some
                   THEN [public_key |-> public_key]
                   ELSE InternalFailure)

(* A nonce drawn anew for each signature.                                  *)
CommitRandomized(c) ==
  /\ pc[c] = "commit"
  /\ UNCHANGED oracle
  /\ \E digest \in Digests :
       LET r == ReduceHash(digest)
           commitment == EncodePoint(MulPoint(BasePoint, r))
       IN  /\ nonce' = [nonce EXCEPT ![c] = r]
           /\ encoded' = [encoded EXCEPT ![c] = <<commitment.value, NoValue>>]
           /\ pc' = [pc EXCEPT ![c] = "respond"]
           /\ UNCHANGED <<call, expanded, returned, begun>>

(* A signer that asks again when the nonce is zero.                        *)
CommitRetryingZeroNonce(c) ==
  /\ pc[c] = "commit"
  /\ \E digest \in Digests :
       LET r == ReduceHash(digest)
           commitment == EncodePoint(MulPoint(BasePoint, r))
       IN  /\ Hash(NonceTranscript(expanded[c].prefix, call[c].message),
                   digest)
           /\ IF r # 0
              THEN /\ nonce' = [nonce EXCEPT ![c] = r]
                   /\ encoded' =
                        [encoded EXCEPT ![c] = <<commitment.value, NoValue>>]
                   /\ pc' = [pc EXCEPT ![c] = "respond"]
                   /\ UNCHANGED <<call, expanded, returned, begun>>
              ELSE UNCHANGED <<pc, call, frame, returned, begun>>

(* sign_expanded, up to the commitment.                                    *)
Commit(c) ==
  /\ pc[c] = "commit"
  /\ \E digest \in Digests :
       LET r == ReduceHash(digest)
           commitment_point == MulPoint(BasePoint, r)
           commitment == EncodePoint(commitment_point)
       IN  /\ Hash(NonceTranscript(expanded[c].prefix, call[c].message),
                   digest)
           /\ IF IsPrimeSubgroup(commitment_point) /\ commitment.some
              THEN /\ nonce' = [nonce EXCEPT ![c] = r]
                   /\ encoded' =
                        [encoded EXCEPT ![c] = <<commitment.value, NoValue>>]
                   /\ pc' = [pc EXCEPT ![c] = "respond"]
                   /\ UNCHANGED <<call, expanded, returned, begun>>
              ELSE Return(c, InternalFailure)

(* sign_expanded, the challenge and the response.                          *)
Respond(c) ==
  /\ pc[c] = "respond"
  /\ \E digest \in Digests :
       LET commitment == encoded[c][1]
           term == ScalarMul(ReduceHash(digest), expanded[c].reduced_scalar)
       IN  /\ Hash(ChallengeTranscript(commitment, expanded[c].public_key,
                                       call[c].message), digest)
           /\ encoded' = [encoded EXCEPT ![c] =
                            <<commitment, ScalarAdd(nonce[c], term)>>]
           /\ pc' = [pc EXCEPT ![c] = "self_check"]
           /\ UNCHANGED <<call, expanded, nonce, returned, begun>>

(* sign_expanded, the self-check: the bytes are parsed again, the parsed   *)
(* commitment is held to the subgroup, the derived key is parsed again,    *)
(* and the signature is verified under it.                                 *)
SelfCheck(c) ==
  /\ pc[c] = "self_check"
  /\ LET signature == ParseSignature(Some(encoded[c]))
         key == ParseKey(Some(expanded[c].public_key))
     IN  IF /\ signature.some
            /\ IsPrimeSubgroup(signature.value.commitment)
            /\ key.some
         THEN \E digest \in Digests :
                /\ Hash(ChallengeTranscript(signature.value.encoding,
                                            key.value.encoded,
                                            call[c].message), digest)
                /\ Return(c, IF Equation(key.value, signature.value,
                                         ReduceHash(digest))
                             THEN [signature |-> encoded[c]]
                             ELSE InternalFailure)
         ELSE UNCHANGED oracle /\ Return(c, InternalFailure)

-----------------------------------------------------------------------------

Init ==
  /\ oracle = [t \in {} |-> t]
  /\ pc = [c \in Callers |-> "idle"]
  /\ call = [c \in Callers |-> NoValue]
  /\ expanded = [c \in Callers |-> NoValue]
  /\ nonce = [c \in Callers |-> NoValue]
  /\ encoded = [c \in Callers |-> NoValue]
  /\ returned = {}
  /\ begun = 0

Next ==
  \E c \in Callers :
    \/ BeginSign(c) \/ BeginVerifyingKey(c)
    \/ ValidatePublicKey(c) \/ BeginVerify(c)
    \/ Derive(c) \/ Export(c)
    \/ Commit(c) \/ Respond(c) \/ SelfCheck(c)
    \/ CheckEquation(c)

Spec == Init /\ [][Next]_vars

-----------------------------------------------------------------------------
(* Properties.                                                             *)

Stages == {"idle", "derive", "export", "commit", "respond", "self_check",
           "verify"}

ExpandedSecrets ==
  [reduced_scalar : Scalars, prefix : Encoding, public_key : Encoding]

FrameTypeOK(c) ==
  /\ pc[c] \in {"export", "commit", "respond", "self_check"} =>
       expanded[c] \in ExpandedSecrets
  /\ pc[c] \in {"respond", "self_check"} =>
       nonce[c] \in Scalars /\ encoded[c][1] \in Encoding
  /\ pc[c] = "self_check" => encoded[c][2] \in Scalars

TypeOK ==
  /\ \A t \in DOMAIN oracle : oracle[t] \in Digests
  /\ pc \in [Callers -> Stages]
  /\ DOMAIN call = Callers /\ DOMAIN expanded = Callers
  /\ DOMAIN nonce = Callers /\ DOMAIN encoded = Callers
  /\ \A c \in Callers : FrameTypeOK(c)
  /\ begun \in 0 .. MaxCalls

(* What each stage of a signature leaves to the next.                      *)

KeyDerived(c) ==
  /\ expanded[c].reduced_scalar \in Scalars \ {0}
  /\ expanded[c].public_key =
       EncodePoint(MulPoint(BasePoint, expanded[c].reduced_scalar)).value

Committed(c) ==
  encoded[c][1] = EncodePoint(MulPoint(BasePoint, nonce[c])).value

Responded(c) ==
  LET challenge == ChallengeTranscript(encoded[c][1], expanded[c].public_key,
                                       call[c].message)
  IN  /\ challenge \in DOMAIN oracle
      /\ encoded[c] =
           << encoded[c][1],
              ScalarAdd(nonce[c],
                        ScalarMul(ReduceHash(oracle[challenge]),
                                  expanded[c].reduced_scalar)) >>

FrameConsistent(c) ==
  /\ pc[c] \in {"export", "commit", "respond", "self_check"} => KeyDerived(c)
  /\ pc[c] \in {"respond", "self_check"} => Committed(c)
  /\ pc[c] = "self_check" => Responded(c)

(* The reduced scalar kept for the response and the pruned one used for    *)
(* the public key stay the same secret, the commitment stays that of the   *)
(* nonce, and the response answers the challenge the self-check will ask   *)
(* for again, while other callers go on evaluating the hash.               *)
FramesConsistent == \A c \in Callers : FrameConsistent(c)

(* No call ends in InternalFailure: pruning never yields an identity key,  *)
(* every encoding the signer writes parses again, and the signature it     *)
(* computes passes its own verification, whatever the hash answers.        *)
NoInternalFailure == \A r \in returned : r.outcome # InternalFailure

(* A call is a function of its arguments: made twice, by one caller or     *)
(* two, interleaved in any way with other calls, it has one outcome.       *)
Deterministic ==
  \A q, r \in returned : q.call = r.call => q.outcome = r.outcome

Of(op) == {r \in returned : r.call.op = op}

(* A signature made from a seed is accepted under the key exported from    *)
(* that seed, by a verification made before or after either of them.       *)
SignedIsAccepted ==
  \A s \in Of("sign"), k \in Of("verifying_key"), v \in Of("verify") :
    /\ "signature" \in DOMAIN s.outcome /\ "public_key" \in DOMAIN k.outcome
    /\ s.call.seed = k.call.seed
    /\ v.call.public_key = Some(k.outcome.public_key)
    /\ v.call.message = s.call.message
    /\ v.call.signature = Some(s.outcome.signature)
    => v.outcome.valid

(* Under one key, for one message and one commitment, at most one response *)
(* is accepted: nobody turns an accepted signature into another by         *)
(* rewriting the bytes of S.                                               *)
OneResponseAccepted ==
  \A v, w \in Of("verify") :
    /\ v.outcome.valid /\ w.outcome.valid
    /\ v.call.public_key = w.call.public_key
    /\ v.call.message = w.call.message
    /\ v.call.signature.value[1] = w.call.signature.value[1]
    => v.call.signature = w.call.signature

=============================================================================
