--------------------------- MODULE SigningProofs ----------------------------
(***************************************************************************)
(* Theorems about the signer, in three parts: Signing itself, for every    *)
(* curve and every hash function that satisfy the assumptions of Scalar    *)
(* and Signing; that it implements the draft (SigningDraft); and the two   *)
(* programs that hold it to the draft's vectors (KnownAnswers).            *)
(***************************************************************************)
EXTENDS KnownAnswers, TLAPS

LEMMA OptionFields ==
  /\ ~None.some
  /\ \A v : Some(v).some /\ Some(v).value = v
  BY DEF None, Some

(* A remainder modulo L is a scalar, and what it leaves is a multiple.     *)
LEMMA Remainder ==
  ASSUME NEW n \in Nat
  PROVE  /\ n % L \in Scalars
         /\ n % L = 0 => \E m \in Nat : n = L * m
<1>1. L \in Nat /\ L > 0
  BY ScalarAssumption
<1>2. n % L \in Scalars
  BY <1>1 DEF Scalars
<1>3. n % L = 0 => n = L * (n \div L)
  BY <1>1
<1>4. n \div L \in Nat
  BY <1>1
<1> QED
  BY <1>2, <1>3, <1>4

(* The pruning rule (draft, section 4): a pruned scalar has 301 bits and L *)
(* does not divide it, so it cannot produce the identity as a public key.  *)
THEOREM PrunedScalarIsNotZero ==
  \A e \in Encoding :
    /\ Prune(e) \in 0 .. 2 * TopBit - 1
    /\ Prune(e) % L \in Scalars
    /\ Prune(e) % L # 0
<1> SUFFICES ASSUME NEW e \in Encoding
             PROVE  /\ Prune(e) \in 0 .. 2 * TopBit - 1
                    /\ Prune(e) % L \in Scalars
                    /\ Prune(e) % L # 0
  OBVIOUS
<1> DEFINE low == e % TopBit
           q == low \div 4
<1>1. /\ L \in Nat /\ TopBit \in Nat /\ TopBit > 0
      /\ L < TopBit /\ 2 * TopBit <= 4 * L /\ L % 2 = 1 /\ TopBit % 4 = 0
  BY ScalarAssumption
<1>2. low \in 0 .. TopBit - 1
  BY <1>1 DEF Encoding
<1>3. q \in Nat /\ 4 * q <= low
  BY <1>2
<1>4. PICK u \in Nat : TopBit = 4 * u
  <2>1. TopBit = 4 * (TopBit \div 4) /\ TopBit \div 4 \in Nat
    BY <1>1
  <2> QED
    BY <2>1
<1>5. Prune(e) = 4 * (u + q) /\ Prune(e) \in TopBit .. 2 * TopBit - 1
  BY <1>1, <1>2, <1>3, <1>4 DEF Prune
<1>6. Prune(e) \in Nat /\ Prune(e) > 0 /\ Prune(e) < 4 * L
  BY <1>1, <1>5
<1>7. ASSUME Prune(e) % L = 0
      PROVE  FALSE
  <2>1. PICK m \in Nat : Prune(e) = L * m
    BY <1>6, <1>7, Remainder
  <2>2. m \in {1, 2, 3}
    <3>1. m # 0
      BY <2>1, <1>1, <1>6
    <3>2. ~ m >= 4
      <4>1. SUFFICES ASSUME m >= 4 PROVE FALSE
        OBVIOUS
      <4>2. L * m >= L * 4
        BY <1>1, <4>1
      <4> QED
        BY <1>1, <1>6, <2>1, <4>2
    <3> QED
      BY <3>1, <3>2
  <2>3. PICK h \in Nat : L = 2 * h + 1
    <3>1. L = 2 * (L \div 2) + 1 /\ L \div 2 \in Nat
      BY <1>1
    <3> QED
      BY <3>1
  <2> DEFINE w == u + q
  <2>4. w \in Nat /\ 4 * w = L * m
    BY <1>3, <1>5, <2>1
  <2> HIDE DEF w
  <2>5. CASE m = 1
    BY <2>3, <2>4, <2>5
  <2>6. CASE m = 2
    BY <2>3, <2>4, <2>6
  <2>7. CASE m = 3
    BY <2>3, <2>4, <2>7
  <2> QED
    BY <2>2, <2>5, <2>6, <2>7
<1> QED
  BY <1>1, <1>5, <1>6, <1>7, Remainder

-----------------------------------------------------------------------------
(* Facts about points and scalars.                                         *)

LEMMA ScalarClosure ==
  ASSUME NEW x \in Scalars, NEW y \in Scalars
  PROVE  ScalarAdd(x, y) \in Scalars /\ ScalarMul(x, y) \in Scalars
<1>1. x \in Nat /\ y \in Nat /\ L \in Nat
  BY ScalarAssumption DEF Scalars
<1>2. x + y \in Nat /\ x * y \in Nat
  BY <1>1
<1> QED
  BY <1>2, Remainder DEF ScalarAdd, ScalarMul

LEMMA ScalarIsEncoding ==
  ASSUME NEW x \in Scalars
  PROVE  x \in Encoding /\ x \in 0 .. 2 * TopBit - 1
         /\ ScalarFromCanonical(x) = Some(x)
  BY ScalarAssumption
  DEF Scalars, Encoding, EncodingSpace, ScalarFromCanonical, Checked

LEMMA DigestReduces ==
  ASSUME NEW digest \in Digests
  PROVE  /\ ReduceHash(digest) \in Scalars
         /\ digest[1] \in Encoding /\ digest[2] \in Encoding
<1>1. digest[1] \in Encoding /\ digest[2] \in Encoding
  BY InputAssumption
<1>2. digest[1] \in Nat /\ digest[2] \in Nat /\ EncodingSpace \in Nat
  BY <1>1, ScalarAssumption DEF Encoding, EncodingSpace
<1>3. EncodingSpace * digest[2] \in Nat
  BY <1>2
<1> QED
  BY <1>1, <1>2, <1>3, Remainder DEF ReduceHash

(* Encoding a point never fails, and its bytes decode to the point.        *)
LEMMA EncodedPointDecodes ==
  ASSUME NEW p \in Points
  PROVE  /\ EncodePoint(p).some
         /\ EncodePoint(p).value \in Encoding
         /\ DecodePoint(EncodePoint(p).value) = Some(p)
<1>1. PICK e \in Encoding :
        EncodePoint(p) = Some(e) /\ DecodePoint(e) = Some(p)
  BY GroupAssumption DEF GroupLaws
<1> QED
  BY <1>1 DEF Some

(* A multiple of the base point by a scalar lies in the prime subgroup.    *)
LEMMA BaseMultiple ==
  ASSUME NEW x \in Scalars
  PROVE  /\ MulPoint(BasePoint, x) \in Points
         /\ IsPrimeSubgroup(MulPoint(BasePoint, x))
         /\ x # 0 => MulPoint(BasePoint, x) # Identity
  BY GroupAssumption, ScalarIsEncoding DEF IsPrimeSubgroup, GroupLaws

(* A key derived from a nonzero scalar passes the parser of public keys.   *)
LEMMA DerivedKeyParses ==
  ASSUME NEW x \in Scalars \ {0}
  PROVE  LET p == MulPoint(BasePoint, x)
         IN  ParseKey(Some(EncodePoint(p).value))
               = Some([encoded |-> EncodePoint(p).value, point |-> p])
<1> DEFINE p == MulPoint(BasePoint, x)
<1>1. p \in Points /\ IsPrimeSubgroupNonidentity(p)
  BY BaseMultiple DEF IsPrimeSubgroupNonidentity
<1>2. DecodePoint(EncodePoint(p).value) = Some(p)
  BY <1>1, EncodedPointDecodes
<1> HIDE DEF p
<1>3. ParseKey(Some(EncodePoint(p).value))
        = Some([encoded |-> EncodePoint(p).value, point |-> p])
  BY <1>1, <1>2, OptionFields DEF ParseKey
<1> QED
  BY <1>3 DEF p

(* What the signer writes, a commitment to a nonce and a response below L, *)
(* passes the parser of signatures.                                        *)
LEMMA WrittenSignatureParses ==
  ASSUME NEW r \in Scalars, NEW s \in Scalars
  PROVE  LET R == MulPoint(BasePoint, r)
         IN  ParseSignature(Some(<<EncodePoint(R).value, s>>))
               = Some([encoding |-> EncodePoint(R).value,
                       commitment |-> R, response |-> s])
<1> DEFINE R == MulPoint(BasePoint, r)
<1>1. R \in Points
  BY BaseMultiple
<1>2. DecodePoint(EncodePoint(R).value) = Some(R)
  BY <1>1, EncodedPointDecodes
<1>3. ScalarFromCanonical(s) = Some(s)
  BY ScalarIsEncoding
<1> HIDE DEF R
<1>4. ParseSignature(Some(<<EncodePoint(R).value, s>>))
        = Some([encoding |-> EncodePoint(R).value,
                commitment |-> R, response |-> s])
  BY <1>2, <1>3, OptionFields DEF ParseSignature
<1> QED
  BY <1>4 DEF R

(* The response r + k x satisfies the verification equation, whatever the  *)
(* nonce and the challenge, zero included.                                 *)
LEMMA ResponseVerifies ==
  ASSUME NEW x \in Scalars, NEW r \in Scalars, NEW k \in Scalars,
         NEW key, key.point = MulPoint(BasePoint, x),
         NEW signature, signature.commitment = MulPoint(BasePoint, r),
         signature.response = ScalarAdd(r, ScalarMul(k, x))
  PROVE  Equation(key, signature, k)
<1>1. ScalarMul(k, x) \in Scalars
  BY ScalarClosure
<1>2. MulPoint(BasePoint, ScalarMul(k, x)) = MulPoint(key.point, k)
  BY GroupAssumption DEF ScalarMul, GroupLaws
<1>3. MulPoint(BasePoint, signature.response)
        = AddPoints(signature.commitment, MulPoint(key.point, k))
  BY <1>1, <1>2, GroupAssumption DEF ScalarAdd, GroupLaws
<1> QED
  BY <1>3 DEF Equation

-----------------------------------------------------------------------------
(* The inductive invariant: the types, the frames, and the property.       *)

IInv == TypeOK /\ FramesConsistent /\ NoInternalFailure

(* What every step does to the hash, and to the callers but c.             *)
OracleGrows ==
  /\ \A t \in DOMAIN oracle : t \in DOMAIN oracle' /\ oracle'[t] = oracle[t]
  /\ \A t \in DOMAIN oracle' : oracle'[t] \in Digests

OnlyCaller(c) ==
  /\ pc' \in [Callers -> Stages]
  /\ DOMAIN call' = Callers /\ DOMAIN expanded' = Callers
  /\ DOMAIN nonce' = Callers /\ DOMAIN encoded' = Callers
  /\ \A o \in Callers \ {c} :
       /\ pc'[o] = pc[o] /\ call'[o] = call[o]
       /\ expanded'[o] = expanded[o]
       /\ nonce'[o] = nonce[o] /\ encoded'[o] = encoded[o]
  /\ begun' \in 0 .. MaxCalls

LEMMA HashGrows ==
  ASSUME TypeOK, NEW t, NEW d \in Digests, Hash(t, d)
  PROVE  OracleGrows /\ t \in DOMAIN oracle' /\ oracle'[t] = d
  BY DEF TypeOK, Hash, OracleGrows

LEMMA OracleUnchanged ==
  ASSUME TypeOK, UNCHANGED oracle
  PROVE  OracleGrows
  BY DEF TypeOK, OracleGrows

(* A step of one caller preserves the invariant when it does so for that   *)
(* caller: the frames of the others only read the hash, which only grows.  *)
LEMMA OneCallerStep ==
  ASSUME IInv, NEW c \in Callers, OracleGrows, OnlyCaller(c),
         FrameTypeOK(c)', FrameConsistent(c)', NoInternalFailure'
  PROVE  IInv'
<1>1. ASSUME NEW o \in Callers \ {c}
      PROVE  FrameTypeOK(o)' /\ FrameConsistent(o)'
  <2>1. FrameTypeOK(o) /\ FrameConsistent(o)
    BY DEF IInv, TypeOK, FramesConsistent
  <2>2. FrameTypeOK(o)'
    BY <2>1 DEF FrameTypeOK, OnlyCaller
  <2>3. FrameConsistent(o)'
    BY <2>1 DEF FrameConsistent, KeyDerived, Committed, Responded,
                OnlyCaller, OracleGrows
  <2> QED
    BY <2>2, <2>3
<1>2. TypeOK'
  BY <1>1 DEF TypeOK, OnlyCaller, OracleGrows
<1>3. FramesConsistent'
  BY <1>1 DEF FramesConsistent
<1> QED
  BY <1>2, <1>3 DEF IInv

(* A call that returns anything but InternalFailure.                       *)
LEMMA ReturnStep ==
  ASSUME IInv, NEW c \in Callers, NEW outcome, Return(c, outcome),
         outcome # InternalFailure, OracleGrows
  PROVE  IInv'
<1>1. OnlyCaller(c) /\ pc'[c] = "idle"
  BY DEF IInv, TypeOK, Return, OnlyCaller, Stages
<1>2. FrameTypeOK(c)' /\ FrameConsistent(c)'
  BY <1>1 DEF FrameTypeOK, FrameConsistent
<1>3. NoInternalFailure'
  BY DEF IInv, NoInternalFailure, Return
<1> QED
  BY <1>1, <1>2, <1>3, OneCallerStep

(* The outcomes that are not an error are not InternalFailure.             *)
LEMMA OutcomesDiffer ==
  /\ \A v : [valid |-> v] # InternalFailure
  /\ \A v : [public_key |-> v] # InternalFailure
  /\ \A v : [signature |-> v] # InternalFailure
  /\ [error |-> "InvalidSeedLength"] # InternalFailure
<1>1. DOMAIN InternalFailure = {"error"}
  BY DEF InternalFailure
<1>2. \A v : DOMAIN [valid |-> v] = {"valid"}
  OBVIOUS
<1>3. \A v : DOMAIN [public_key |-> v] = {"public_key"}
  OBVIOUS
<1>4. \A v : DOMAIN [signature |-> v] = {"signature"}
  OBVIOUS
<1>5. [error |-> "InvalidSeedLength"] # InternalFailure
  BY DEF InternalFailure
<1> QED
  BY <1>1, <1>2, <1>3, <1>4, <1>5

-----------------------------------------------------------------------------
(* One lemma per action.                                                   *)

(* A call that begins: it is answered at once, or enters a stage that      *)
(* needs nothing of the frame.                                             *)
LEMMA EnterStep ==
  ASSUME IInv, NEW c \in Callers, Begin(c), NEW arguments,
         NEW stage \in {"derive", "verify"}, Enter(c, arguments, stage)
  PROVE  IInv'
<1>1. OnlyCaller(c) /\ pc'[c] = stage
  BY InputAssumption
  DEF IInv, TypeOK, Begin, Enter, frame, OnlyCaller, Stages
<1>2. FrameTypeOK(c)' /\ FrameConsistent(c)'
  BY <1>1 DEF FrameTypeOK, FrameConsistent
<1>3. NoInternalFailure'
  BY DEF IInv, NoInternalFailure, Enter
<1>4. OracleGrows
  BY OracleUnchanged DEF IInv, Enter
<1> QED
  BY <1>1, <1>2, <1>3, <1>4, OneCallerStep

LEMMA ReturnAtOnceStep ==
  ASSUME IInv, NEW c \in Callers, Begin(c), NEW arguments, NEW outcome,
         ReturnAtOnce(arguments, outcome), outcome # InternalFailure
  PROVE  IInv'
<1>1. OnlyCaller(c)
  BY InputAssumption
  DEF IInv, TypeOK, Begin, ReturnAtOnce, frame, OnlyCaller
<1>2. FrameTypeOK(c)' /\ FrameConsistent(c)'
  BY DEF IInv, TypeOK, FramesConsistent, Begin, ReturnAtOnce, frame,
         FrameTypeOK, FrameConsistent
<1>3. NoInternalFailure'
  BY DEF IInv, NoInternalFailure, ReturnAtOnce
<1>4. OracleGrows
  BY OracleUnchanged DEF IInv, ReturnAtOnce
<1> QED
  BY <1>1, <1>2, <1>3, <1>4, OneCallerStep

LEMMA BeginStep ==
  ASSUME IInv, NEW c \in Callers,
         \/ BeginSign(c) \/ BeginVerifyingKey(c)
         \/ ValidatePublicKey(c) \/ BeginVerify(c)
  PROVE  IInv'
<1>1. ASSUME NEW arguments, Begin(c), BeginWithSeed(c, arguments)
      PROVE  IInv'
  <2>1. CASE arguments.seed.some
    <3>1. Enter(c, arguments, "derive")
      BY <1>1, <2>1 DEF BeginWithSeed
    <3> QED
      BY <1>1, <3>1, EnterStep
  <2>2. CASE ~arguments.seed.some
    <3>1. ReturnAtOnce(arguments, [error |-> "InvalidSeedLength"])
      BY <1>1, <2>2 DEF BeginWithSeed
    <3> QED
      BY <1>1, <3>1, ReturnAtOnceStep, OutcomesDiffer
  <2> QED
    BY <2>1, <2>2
<1>2. CASE BeginSign(c)
  BY <1>1, <1>2 DEF BeginSign
<1>3. CASE BeginVerifyingKey(c)
  BY <1>1, <1>3 DEF BeginVerifyingKey
<1>4. CASE ValidatePublicKey(c)
  BY <1>4, ReturnAtOnceStep, OutcomesDiffer DEF ValidatePublicKey
<1>5. CASE BeginVerify(c)
  <2>1. PICK public_key \in PublicKeyInputs \cup MadeKeys,
             message \in Messages,
             signature \in SignatureInputs \cup MadeSignatures :
          BeginWithInputs(c, [op |-> "verify", public_key |-> public_key,
                              message |-> message, signature |-> signature])
    BY <1>5 DEF BeginVerify
  <2> DEFINE arguments == [op |-> "verify", public_key |-> public_key,
                           message |-> message, signature |-> signature]
  <2>2. \/ Enter(c, arguments, "verify")
        \/ ReturnAtOnce(arguments, [valid |-> FALSE])
    BY <2>1 DEF BeginWithInputs
  <2>3. Begin(c)
    BY <1>5 DEF BeginVerify
  <2> HIDE DEF arguments
  <2> QED
    BY <2>2, <2>3, EnterStep, ReturnAtOnceStep, OutcomesDiffer
<1> QED
  BY <1>2, <1>3, <1>4, <1>5

LEMMA CheckEquationStep ==
  ASSUME IInv, NEW c \in Callers, CheckEquation(c)
  PROVE  IInv'
<1>1. PICK digest, t, v :
        digest \in Digests /\ Hash(t, digest) /\ Return(c, [valid |-> v])
  BY DEF CheckEquation
<1>2. OracleGrows
  BY <1>1, HashGrows DEF IInv
<1> QED
  BY <1>1, <1>2, ReturnStep, OutcomesDiffer

(* The public key: derived from the pruned scalar, it is the multiple of   *)
(* the reduced one, and the pruned scalar is not a multiple of L.          *)
LEMMA DeriveStep ==
  ASSUME IInv, NEW c \in Callers, Derive(c)
  PROVE  IInv'
<1> DEFINE pruned(digest) == Prune(digest[1])
           point(digest) == MulPoint(BasePoint, pruned(digest))
           secret(digest) ==
             [reduced_scalar |-> ReducePruned(pruned(digest)),
              prefix |-> digest[2],
              public_key |-> EncodePoint(point(digest)).value]
<1>1. PICK digest \in Digests :
        /\ Hash(SeedTranscript(call[c].seed.value), digest)
        /\ IF IsPrimeSubgroupNonidentity(point(digest))
              /\ EncodePoint(point(digest)).some
           THEN /\ expanded' = [expanded EXCEPT ![c] = secret(digest)]
                /\ pc' = [pc EXCEPT ![c] =
                      IF call[c].op = "sign" THEN "commit" ELSE "export"]
                /\ UNCHANGED <<call, nonce, encoded, returned, begun>>
           ELSE Return(c, InternalFailure)
  BY DEF Derive
<1> DEFINE x == ReducePruned(pruned(digest))
<1>2. x \in Scalars \ {0} /\ point(digest) = MulPoint(BasePoint, x)
  <2>1. digest[1] \in Encoding
    BY DigestReduces
  <2>2. /\ pruned(digest) \in 0 .. 2 * TopBit - 1
        /\ pruned(digest) % L \in Scalars \ {0}
    BY <2>1, PrunedScalarIsNotZero
  <2> HIDE DEF pruned
  <2> QED
    BY <2>2, GroupAssumption DEF ReducePruned, GroupLaws
<1> HIDE DEF x, pruned
<1>3. /\ point(digest) \in Points
      /\ IsPrimeSubgroupNonidentity(point(digest))
      /\ EncodePoint(point(digest)).some
      /\ EncodePoint(point(digest)).value \in Encoding
  BY <1>2, BaseMultiple, EncodedPointDecodes DEF IsPrimeSubgroupNonidentity
<1>4. /\ expanded' = [expanded EXCEPT ![c] = secret(digest)]
      /\ pc' = [pc EXCEPT ![c] =
            IF call[c].op = "sign" THEN "commit" ELSE "export"]
      /\ UNCHANGED <<call, nonce, encoded, returned, begun>>
  BY <1>1, <1>3
<1>5. OnlyCaller(c) /\ pc'[c] \in {"commit", "export"}
      /\ expanded'[c] = secret(digest)
  BY <1>4 DEF IInv, TypeOK, OnlyCaller, Stages
<1>6. FrameTypeOK(c)'
  <2>1. digest[2] \in Encoding
    BY DigestReduces
  <2>2. secret(digest) \in ExpandedSecrets
    BY <1>2, <1>3, <2>1 DEF ExpandedSecrets, x
  <2> QED
    BY <1>5, <2>2 DEF FrameTypeOK
<1>7. FrameConsistent(c)'
  <2>1. KeyDerived(c)'
    BY <1>2, <1>5 DEF KeyDerived, x
  <2> QED
    BY <1>5, <2>1 DEF FrameConsistent
<1>8. OracleGrows
  BY <1>1, HashGrows DEF IInv
<1>9. NoInternalFailure'
  BY <1>4 DEF IInv, NoInternalFailure
<1> QED
  BY <1>5, <1>6, <1>7, <1>8, <1>9, OneCallerStep

LEMMA ExportStep ==
  ASSUME IInv, NEW c \in Callers, Export(c)
  PROVE  IInv'
<1> DEFINE x == expanded[c].reduced_scalar
<1>1. /\ x \in Scalars \ {0}
      /\ expanded[c].public_key = EncodePoint(MulPoint(BasePoint, x)).value
  BY DEF Export, IInv, FramesConsistent, FrameConsistent, KeyDerived
<1>2. ParseKey(Some(expanded[c].public_key)).some
  BY <1>1, DerivedKeyParses, OptionFields
<1>3. Return(c, [public_key |-> expanded[c].public_key])
  BY <1>2 DEF Export
<1>4. OracleGrows
  BY OracleUnchanged DEF IInv, Export
<1> QED
  BY <1>3, <1>4, ReturnStep, OutcomesDiffer

(* The commitment: every nonce, zero included, gives a subgroup point.     *)
LEMMA CommitStep ==
  ASSUME IInv, NEW c \in Callers, Commit(c)
  PROVE  IInv'
<1>1. PICK digest \in Digests :
        LET r == ReduceHash(digest)
            commitment_point == MulPoint(BasePoint, r)
            commitment == EncodePoint(commitment_point)
        IN  /\ Hash(NonceTranscript(expanded[c].prefix, call[c].message),
                    digest)
            /\ IF IsPrimeSubgroup(commitment_point) /\ commitment.some
               THEN /\ nonce' = [nonce EXCEPT ![c] = r]
                    /\ encoded' =
                         [encoded EXCEPT ![c] = <<commitment.value, NoValue>>]
                    /\ pc' = [pc EXCEPT ![c] = "respond"]
                    /\ UNCHANGED <<call, expanded, returned, begun>>
               ELSE Return(c, InternalFailure)
  BY DEF Commit
<1> DEFINE r == ReduceHash(digest)
           R == MulPoint(BasePoint, r)
<1>2. r \in Scalars
  BY DigestReduces
<1> HIDE DEF r
<1>3. /\ IsPrimeSubgroup(R) /\ EncodePoint(R).some
      /\ EncodePoint(R).value \in Encoding
  BY <1>2, BaseMultiple, EncodedPointDecodes
<1>4. /\ nonce' = [nonce EXCEPT ![c] = r]
      /\ encoded' = [encoded EXCEPT ![c] = <<EncodePoint(R).value, NoValue>>]
      /\ pc' = [pc EXCEPT ![c] = "respond"]
      /\ UNCHANGED <<call, expanded, returned, begun>>
  BY <1>1, <1>3 DEF r
<1>5. /\ OnlyCaller(c) /\ pc'[c] = "respond" /\ pc[c] = "commit"
      /\ nonce'[c] = r /\ encoded'[c] = <<EncodePoint(R).value, NoValue>>
      /\ expanded'[c] = expanded[c]
  BY <1>4 DEF IInv, TypeOK, OnlyCaller, Stages, Commit
<1>6. FrameTypeOK(c)'
  BY <1>2, <1>3, <1>5 DEF IInv, TypeOK, FrameTypeOK
<1>7. FrameConsistent(c)'
  BY <1>5 DEF IInv, FramesConsistent, FrameConsistent, KeyDerived, Committed
<1>8. OracleGrows
  BY <1>1, HashGrows DEF IInv
<1>9. NoInternalFailure'
  BY <1>4 DEF IInv, NoInternalFailure
<1> QED
  BY <1>5, <1>6, <1>7, <1>8, <1>9, OneCallerStep

LEMMA RespondStep ==
  ASSUME IInv, NEW c \in Callers, Respond(c)
  PROVE  IInv'
<1> DEFINE challenge == ChallengeTranscript(encoded[c][1],
                          expanded[c].public_key, call[c].message)
           s(digest) == ScalarAdd(nonce[c], ScalarMul(ReduceHash(digest),
                                    expanded[c].reduced_scalar))
<1>1. PICK digest \in Digests :
        /\ Hash(challenge, digest)
        /\ encoded' = [encoded EXCEPT ![c] = <<encoded[c][1], s(digest)>>]
        /\ pc' = [pc EXCEPT ![c] = "self_check"]
        /\ UNCHANGED <<call, expanded, nonce, returned, begun>>
  BY DEF Respond
<1>2. OracleGrows /\ challenge \in DOMAIN oracle'
      /\ oracle'[challenge] = digest
  BY <1>1, HashGrows DEF IInv
<1>3. /\ pc[c] = "respond" /\ FrameTypeOK(c) /\ FrameConsistent(c)
      /\ encoded[c][1] \in Encoding
  BY DEF Respond, IInv, TypeOK, FrameTypeOK, FramesConsistent
<1>4. s(digest) \in Scalars
  <2>1. nonce[c] \in Scalars /\ expanded[c].reduced_scalar \in Scalars
    BY <1>3 DEF FrameTypeOK, ExpandedSecrets
  <2>2. ReduceHash(digest) \in Scalars
    BY DigestReduces
  <2> QED
    BY <2>1, <2>2, ScalarClosure
<1>5. /\ OnlyCaller(c) /\ pc'[c] = "self_check"
      /\ encoded'[c] = <<encoded[c][1], s(digest)>>
      /\ nonce'[c] = nonce[c] /\ expanded'[c] = expanded[c]
      /\ call'[c] = call[c]
  <2> HIDE DEF s
  <2> QED
    BY <1>1 DEF IInv, TypeOK, OnlyCaller, Stages
<1>6. FrameTypeOK(c)'
  <2> HIDE DEF s
  <2> QED
    BY <1>3, <1>4, <1>5 DEF FrameTypeOK
<1>7. FrameConsistent(c)'
  <2>1. KeyDerived(c)' /\ Committed(c)'
    <3> HIDE DEF s
    <3> QED
      BY <1>3, <1>5 DEF FrameConsistent, KeyDerived, Committed
  <2>2. Responded(c)'
    BY <1>2, <1>5 DEF Responded
  <2> QED
    BY <1>5, <2>1, <2>2 DEF FrameConsistent
<1>8. NoInternalFailure'
  BY <1>1 DEF IInv, NoInternalFailure
<1> QED
  BY <1>2, <1>5, <1>6, <1>7, <1>8, OneCallerStep

(* The self-check asks the hash for the challenge the response was made    *)
(* for, gets the same digest, and accepts.                                 *)
LEMMA SelfCheckStep ==
  ASSUME IInv, NEW c \in Callers, SelfCheck(c)
  PROVE  IInv'
<1> DEFINE x == expanded[c].reduced_scalar
           r == nonce[c]
           A == MulPoint(BasePoint, x)
           R == MulPoint(BasePoint, r)
           challenge == ChallengeTranscript(encoded[c][1],
                          expanded[c].public_key, call[c].message)
           k == ReduceHash(oracle[challenge])
           s == ScalarAdd(r, ScalarMul(k, x))
           key == [encoded |-> expanded[c].public_key, point |-> A]
           signature == [encoding |-> encoded[c][1],
                         commitment |-> R, response |-> s]
<1>1. /\ FrameTypeOK(c) /\ KeyDerived(c) /\ Committed(c) /\ Responded(c)
      /\ r \in Scalars
  BY DEF SelfCheck, IInv, TypeOK, FrameTypeOK, FramesConsistent,
         FrameConsistent
<1>2. /\ x \in Scalars \ {0} /\ expanded[c].public_key = EncodePoint(A).value
      /\ encoded[c][1] = EncodePoint(R).value
  BY <1>1 DEF KeyDerived, Committed
<1>3. challenge \in DOMAIN oracle /\ encoded[c] = <<encoded[c][1], s>>
  BY <1>1 DEF Responded
<1>4. k \in Scalars /\ s \in Scalars
  <2>1. oracle[challenge] \in Digests
    BY <1>3 DEF IInv, TypeOK
  <2>2. k \in Scalars
    BY <2>1, DigestReduces
  <2> QED
    BY <1>1, <1>2, <2>2, ScalarClosure
<1>5. ParseKey(Some(expanded[c].public_key)) = Some(key)
  BY <1>2, DerivedKeyParses
<1>6. ParseSignature(Some(encoded[c])) = Some(signature)
  <2> HIDE DEF s
  <2> QED
    BY <1>1, <1>2, <1>3, <1>4, WrittenSignatureParses
<1>7. IsPrimeSubgroup(signature.commitment)
  BY <1>1, BaseMultiple
<1>8. Equation(key, signature, k)
  BY <1>1, <1>2, <1>4, ResponseVerifies
<1>9. PICK digest \in Digests :
        /\ Hash(challenge, digest)
        /\ Return(c, IF Equation(key, signature, ReduceHash(digest))
                     THEN [signature |-> encoded[c]]
                     ELSE InternalFailure)
  <2>1. signature.encoding = encoded[c][1]
        /\ key.encoded = expanded[c].public_key
    OBVIOUS
  <2> HIDE DEF key, signature
  <2> QED
    BY <1>5, <1>6, <1>7, <2>1, OptionFields DEF SelfCheck
<1>10. digest = oracle[challenge]
  BY <1>3, <1>9 DEF Hash
<1>11. Return(c, [signature |-> encoded[c]])
  <2> HIDE DEF key, signature
  <2> QED
    BY <1>8, <1>9, <1>10
<1>12. OracleGrows
  BY <1>9, HashGrows DEF IInv
<1> QED
  BY <1>11, <1>12, ReturnStep, OutcomesDiffer

-----------------------------------------------------------------------------
(* Theorems.                                                               *)

LEMMA Initially == Init => IInv
  BY InputAssumption
  DEF Init, IInv, TypeOK, FrameTypeOK, FramesConsistent, FrameConsistent,
      NoInternalFailure, Stages

LEMMA Inductive == IInv /\ [Next]_vars => IInv'
<1> SUFFICES ASSUME IInv, [Next]_vars PROVE IInv'
  OBVIOUS
<1>1. CASE Next
  BY <1>1, BeginStep, DeriveStep, ExportStep, CommitStep, RespondStep,
     SelfCheckStep, CheckEquationStep DEF Next
<1>2. CASE UNCHANGED vars
  BY <1>2
  DEF vars, IInv, TypeOK, FrameTypeOK, FramesConsistent, FrameConsistent,
      KeyDerived, Committed, Responded, NoInternalFailure
<1> QED
  BY <1>1, <1>2

THEOREM Invariance == Spec => []IInv
  BY Initially, Inductive, PTL DEF Spec

(* Type correctness of the frames and of the hash.                         *)
THEOREM TypeCorrect == Spec => []TypeOK
<1>1. IInv => TypeOK
  BY DEF IInv
<1> QED
  BY <1>1, Invariance, PTL

(* Every frame is consistent with the secret it was derived from and with  *)
(* the hash, at every stage of every interleaving.                         *)
THEOREM FramesStayConsistent == Spec => []FramesConsistent
<1>1. IInv => FramesConsistent
  BY DEF IInv
<1> QED
  BY <1>1, Invariance, PTL

(* No call of the crate ends in InternalFailure, whatever the hash is, in  *)
(* any group with the properties GroupLaws lists.                          *)
THEOREM SigningNeverFails == Spec => []NoInternalFailure
<1>1. IInv => NoInternalFailure
  BY DEF IInv
<1> QED
  BY <1>1, Invariance, PTL

-----------------------------------------------------------------------------
(* The outcomes.  What a call returns is a function of its arguments and   *)
(* of the hash: every outcome is the one the code computes when it runs    *)
(* alone on the hash as it stands, and stays so while the hash is          *)
(* evaluated further.  The properties of calls made by different callers   *)
(* follow.                                                                 *)

KeyStrings == {None} \cup {Some(e) : e \in Encoding}
SignatureStrings == {None} \cup {Some(s) : s \in Encoding \X Encoding}

SignCalls == [op : {"sign"}, seed : SeedInputs, message : Messages]
KeyCalls == [op : {"verifying_key"}, seed : SeedInputs]
ValidateCalls == [op : {"validate_public_key"}, public_key : KeyStrings]
VerifyCalls == [op : {"verify"}, public_key : KeyStrings,
                message : Messages, signature : SignatureStrings]

Calls == SignCalls \cup KeyCalls \cup ValidateCalls \cup VerifyCalls

-----------------------------------------------------------------------------
(* A call run alone, the hash being H.                                     *)

SecretOf(H, seed) == ReducePruned(Prune(H[SeedTranscript(seed)][1]))
PrefixOf(H, seed) == H[SeedTranscript(seed)][2]
KeyOf(H, seed) == EncodePoint(MulPoint(BasePoint, SecretOf(H, seed))).value

ExpandedOf(H, seed) ==
  [reduced_scalar |-> SecretOf(H, seed),
   prefix |-> PrefixOf(H, seed),
   public_key |-> KeyOf(H, seed)]

NonceAsked(H, seed, m) == NonceTranscript(PrefixOf(H, seed), m)
NonceOf(H, seed, m) == ReduceHash(H[NonceAsked(H, seed, m)])
CommitmentOf(H, seed, m) ==
  EncodePoint(MulPoint(BasePoint, NonceOf(H, seed, m))).value

ChallengeAsked(H, seed, m) ==
  ChallengeTranscript(CommitmentOf(H, seed, m), KeyOf(H, seed), m)
ResponseOf(H, seed, m) ==
  ScalarAdd(NonceOf(H, seed, m),
            ScalarMul(ReduceHash(H[ChallengeAsked(H, seed, m)]),
                      SecretOf(H, seed)))
SignatureOf(H, seed, m) ==
  << CommitmentOf(H, seed, m), ResponseOf(H, seed, m) >>

Parses(a) == ParseKey(a.public_key).some /\ ParseSignature(a.signature).some
CheckAsked(a) ==
  ChallengeTranscript(ParseSignature(a.signature).value.encoding,
                      ParseKey(a.public_key).value.encoded, a.message)
Verifies(H, a) ==
  Equation(ParseKey(a.public_key).value, ParseSignature(a.signature).value,
           ReduceHash(H[CheckAsked(a)]))

(* The hash has been asked what the call a asks it.                        *)
HashAsked(H, a) ==
  /\ a \in SignCalls \cup KeyCalls /\ a.seed.some =>
       SeedTranscript(a.seed.value) \in DOMAIN H
  /\ a \in SignCalls /\ a.seed.some =>
       /\ NonceAsked(H, a.seed.value, a.message) \in DOMAIN H
       /\ ChallengeAsked(H, a.seed.value, a.message) \in DOMAIN H
  /\ a \in VerifyCalls /\ Parses(a) => CheckAsked(a) \in DOMAIN H

(* o is the outcome the code computes for the call a.                      *)
Computed(H, a, o) ==
  /\ a \in SignCalls \cup KeyCalls /\ ~a.seed.some =>
       o = [error |-> "InvalidSeedLength"]
  /\ a \in SignCalls /\ a.seed.some =>
       o = [signature |-> SignatureOf(H, a.seed.value, a.message)]
  /\ a \in KeyCalls /\ a.seed.some =>
       o = [public_key |-> KeyOf(H, a.seed.value)]
  /\ a \in ValidateCalls => o = [valid |-> ParseKey(a.public_key).some]
  /\ a \in VerifyCalls => o = [valid |-> Parses(a) /\ Verifies(H, a)]

-----------------------------------------------------------------------------
(* The inductive invariant.                                                *)

(* Every call returned has the outcome computed from the hash.             *)
Answered ==
  \A r \in returned :
    /\ r = [call |-> r.call, outcome |-> r.outcome]
    /\ r.call \in Calls
    /\ HashAsked(oracle, r.call)
    /\ Computed(oracle, r.call, r.outcome)

(* The frame of a call holds what its arguments and the hash determine.    *)
FrameDetermined(c) ==
  LET seed == call[c].seed.value
      m == call[c].message
  IN  /\ pc[c] \in {"derive", "export"} =>
           call[c] \in SignCalls \cup KeyCalls /\ call[c].seed.some
      /\ pc[c] = "export" => call[c] \in KeyCalls
      /\ pc[c] \in {"commit", "respond", "self_check"} =>
           call[c] \in SignCalls /\ call[c].seed.some
      /\ pc[c] = "verify" => call[c] \in VerifyCalls /\ Parses(call[c])
      /\ pc[c] \in {"export", "commit", "respond", "self_check"} =>
           /\ SeedTranscript(seed) \in DOMAIN oracle
           /\ expanded[c] = ExpandedOf(oracle, seed)
      /\ pc[c] \in {"respond", "self_check"} =>
           /\ NonceAsked(oracle, seed, m) \in DOMAIN oracle
           /\ nonce[c] = NonceOf(oracle, seed, m)

DInv == Answered /\ \A c \in Callers : FrameDetermined(c)

-----------------------------------------------------------------------------
(* The hash only grows, so what was computed from it stays computed.       *)

LEMMA SeedStable ==
  ASSUME OracleGrows, NEW seed, SeedTranscript(seed) \in DOMAIN oracle
  PROVE  /\ SeedTranscript(seed) \in DOMAIN oracle'
         /\ SecretOf(oracle', seed) = SecretOf(oracle, seed)
         /\ PrefixOf(oracle', seed) = PrefixOf(oracle, seed)
         /\ KeyOf(oracle', seed) = KeyOf(oracle, seed)
         /\ ExpandedOf(oracle', seed) = ExpandedOf(oracle, seed)
  BY DEF OracleGrows, SecretOf, PrefixOf, KeyOf, ExpandedOf

LEMMA NonceStable ==
  ASSUME OracleGrows, NEW seed, SeedTranscript(seed) \in DOMAIN oracle,
         NEW m, NonceAsked(oracle, seed, m) \in DOMAIN oracle
  PROVE  /\ NonceAsked(oracle', seed, m) = NonceAsked(oracle, seed, m)
         /\ NonceAsked(oracle', seed, m) \in DOMAIN oracle'
         /\ NonceOf(oracle', seed, m) = NonceOf(oracle, seed, m)
         /\ CommitmentOf(oracle', seed, m) = CommitmentOf(oracle, seed, m)
<1>1. NonceAsked(oracle', seed, m) = NonceAsked(oracle, seed, m)
  BY SeedStable DEF NonceAsked
<1>2. NonceOf(oracle', seed, m) = NonceOf(oracle, seed, m)
  BY <1>1 DEF NonceOf, OracleGrows
<1> QED
  BY <1>1, <1>2 DEF CommitmentOf, OracleGrows

LEMMA SignatureStable ==
  ASSUME OracleGrows, NEW seed, SeedTranscript(seed) \in DOMAIN oracle,
         NEW m, NonceAsked(oracle, seed, m) \in DOMAIN oracle,
         ChallengeAsked(oracle, seed, m) \in DOMAIN oracle
  PROVE  /\ ChallengeAsked(oracle', seed, m) \in DOMAIN oracle'
         /\ SignatureOf(oracle', seed, m) = SignatureOf(oracle, seed, m)
<1>1. ChallengeAsked(oracle', seed, m) = ChallengeAsked(oracle, seed, m)
  BY SeedStable, NonceStable DEF ChallengeAsked
<1>2. oracle'[ChallengeAsked(oracle', seed, m)]
        = oracle[ChallengeAsked(oracle, seed, m)]
  BY <1>1 DEF OracleGrows
<1>3. ResponseOf(oracle', seed, m) = ResponseOf(oracle, seed, m)
  BY <1>2, SeedStable, NonceStable DEF ResponseOf
<1> QED
  BY <1>1, <1>3, NonceStable DEF SignatureOf, OracleGrows

LEMMA OutcomeStable ==
  ASSUME OracleGrows, NEW a, HashAsked(oracle, a),
         NEW o, Computed(oracle, a, o)
  PROVE  HashAsked(oracle', a) /\ Computed(oracle', a, o)
<1>1. CASE a \in SignCalls /\ a.seed.some
  <2>1. /\ SeedTranscript(a.seed.value) \in DOMAIN oracle
        /\ NonceAsked(oracle, a.seed.value, a.message) \in DOMAIN oracle
        /\ ChallengeAsked(oracle, a.seed.value, a.message) \in DOMAIN oracle
    BY <1>1 DEF HashAsked
  <2>2. a \notin KeyCalls /\ a \notin VerifyCalls /\ a \notin ValidateCalls
    BY <1>1 DEF SignCalls, KeyCalls, VerifyCalls, ValidateCalls
  <2> QED
    BY <1>1, <2>1, <2>2, SeedStable, NonceStable, SignatureStable
    DEF HashAsked, Computed
<1>2. CASE a \in KeyCalls /\ a.seed.some
  <2>1. SeedTranscript(a.seed.value) \in DOMAIN oracle
    BY <1>2 DEF HashAsked
  <2>2. a \notin SignCalls /\ a \notin VerifyCalls /\ a \notin ValidateCalls
    BY <1>2 DEF SignCalls, KeyCalls, VerifyCalls, ValidateCalls
  <2> QED
    BY <1>2, <2>1, <2>2, SeedStable DEF HashAsked, Computed
<1>3. CASE a \in VerifyCalls /\ Parses(a)
  <2>1. CheckAsked(a) \in DOMAIN oracle
    BY <1>3 DEF HashAsked
  <2>2. a \notin SignCalls /\ a \notin KeyCalls /\ a \notin ValidateCalls
    BY <1>3 DEF SignCalls, KeyCalls, VerifyCalls, ValidateCalls
  <2>3. CheckAsked(a) \in DOMAIN oracle'
        /\ oracle'[CheckAsked(a)] = oracle[CheckAsked(a)]
    BY <2>1 DEF OracleGrows
  <2> QED
    BY <1>3, <2>2, <2>3 DEF HashAsked, Computed, Verifies
<1>4. CASE ~ \/ a \in SignCalls \cup KeyCalls /\ a.seed.some
             \/ a \in VerifyCalls /\ Parses(a)
  BY <1>4 DEF HashAsked, Computed
<1> QED
  BY <1>1, <1>2, <1>3, <1>4

-----------------------------------------------------------------------------
(* One caller at a time.                                                   *)

OthersUntouched(c) ==
  \A o \in Callers \ {c} :
    /\ pc'[o] = pc[o] /\ call'[o] = call[o]
    /\ expanded'[o] = expanded[o] /\ nonce'[o] = nonce[o]

LEMMA OneCallerDetermined ==
  ASSUME DInv, NEW c \in Callers, OracleGrows, OthersUntouched(c),
         FrameDetermined(c)', Answered'
  PROVE  DInv'
<1>1. ASSUME NEW o \in Callers \ {c}
      PROVE  FrameDetermined(o)'
  <2> DEFINE seed == call[o].seed.value
             m == call[o].message
  <2>1. /\ FrameDetermined(o) /\ pc'[o] = pc[o] /\ call'[o] = call[o]
        /\ expanded'[o] = expanded[o] /\ nonce'[o] = nonce[o]
    BY DEF DInv, OthersUntouched
  <2>2. pc[o] \in {"export", "commit", "respond", "self_check"} =>
          /\ SeedTranscript(seed) \in DOMAIN oracle'
          /\ expanded'[o] = ExpandedOf(oracle', seed)
    BY <2>1, SeedStable DEF FrameDetermined
  <2>3. pc[o] \in {"respond", "self_check"} =>
          /\ NonceAsked(oracle', seed, m) \in DOMAIN oracle'
          /\ nonce'[o] = NonceOf(oracle', seed, m)
    BY <2>1, NonceStable DEF FrameDetermined
  <2> QED
    BY <2>1, <2>2, <2>3 DEF FrameDetermined
<1> QED
  BY <1>1 DEF DInv

(* The answers already given stay right; a new one has to be.              *)
LEMMA AnswersKept ==
  ASSUME DInv, OracleGrows, NEW a \in Calls, NEW o,
         returned' \subseteq returned \cup {[call |-> a, outcome |-> o]},
         HashAsked(oracle', a), Computed(oracle', a, o)
  PROVE  Answered'
<1> SUFFICES ASSUME NEW r \in returned'
             PROVE  /\ r = [call |-> r.call, outcome |-> r.outcome]
                    /\ r.call \in Calls
                    /\ HashAsked(oracle', r.call)
                    /\ Computed(oracle', r.call, r.outcome)
  BY DEF Answered
<1>1. CASE r \in returned
  BY <1>1, OutcomeStable DEF DInv, Answered
<1>2. CASE r = [call |-> a, outcome |-> o]
  BY <1>2
<1> QED
  BY <1>1, <1>2

LEMMA NothingReturned ==
  ASSUME DInv, OracleGrows, UNCHANGED returned
  PROVE  Answered'
  BY OutcomeStable DEF DInv, Answered

LEMMA ReturnDetermined ==
  ASSUME IInv, DInv, NEW c \in Callers, NEW o, Return(c, o), OracleGrows,
         call[c] \in Calls, HashAsked(oracle', call[c]),
         Computed(oracle', call[c], o)
  PROVE  DInv'
<1>1. OthersUntouched(c) /\ pc'[c] = "idle"
  BY DEF IInv, TypeOK, Return, OthersUntouched
<1>2. FrameDetermined(c)'
  BY <1>1 DEF FrameDetermined
<1>3. Answered'
  BY AnswersKept DEF Return
<1> QED
  BY <1>1, <1>2, <1>3, OneCallerDetermined

(* No stage is left by an internal failure: SigningNeverFails.             *)
LEMMA NoFailureReturned ==
  ASSUME NEW c, Return(c, InternalFailure), NoInternalFailure'
  PROVE  FALSE
<1>1. [call |-> call[c], outcome |-> InternalFailure] \in returned'
  BY DEF Return
<1> QED
  BY <1>1 DEF NoInternalFailure

-----------------------------------------------------------------------------
(* What a verifier is handed is a byte string: from outside, or made by a  *)
(* call that returned.                                                     *)

LEMMA CallKinds ==
  ASSUME NEW a \in Calls
  PROVE  /\ a.op = "sign" <=> a \in SignCalls
         /\ a.op = "verifying_key" <=> a \in KeyCalls
         /\ a.op = "validate_public_key" <=> a \in ValidateCalls
         /\ a.op = "verify" <=> a \in VerifyCalls
  BY DEF Calls, SignCalls, KeyCalls, ValidateCalls, VerifyCalls

(* Which outcomes name a key or a signature.                               *)
LEMMA OutcomeKinds ==
  ASSUME NEW H, NEW a \in Calls, NEW o, Computed(H, a, o)
  PROVE  /\ "signature" \in DOMAIN o =>
              a \in SignCalls /\ a.seed.some
              /\ o.signature = SignatureOf(H, a.seed.value, a.message)
         /\ "public_key" \in DOMAIN o =>
              a \in KeyCalls /\ a.seed.some
              /\ o.public_key = KeyOf(H, a.seed.value)
<1>1. CASE a \in SignCalls \cup KeyCalls /\ ~a.seed.some
  <2>1. o = [error |-> "InvalidSeedLength"]
    BY <1>1 DEF Computed
  <2> QED
    BY <2>1
<1>2. CASE a \in SignCalls /\ a.seed.some
  <2>1. o = [signature |-> SignatureOf(H, a.seed.value, a.message)]
    BY <1>2 DEF Computed
  <2> QED
    BY <1>2, <2>1
<1>3. CASE a \in KeyCalls /\ a.seed.some
  <2>1. o = [public_key |-> KeyOf(H, a.seed.value)]
    BY <1>3 DEF Computed
  <2> QED
    BY <1>3, <2>1
<1>4. CASE a \in ValidateCalls \cup VerifyCalls
  <2>1. \E v : o = [valid |-> v]
    BY <1>4 DEF Computed
  <2> QED
    BY <2>1
<1> QED
  BY <1>1, <1>2, <1>3, <1>4 DEF Calls

LEMMA SeedGiven ==
  ASSUME NEW a \in SignCalls \cup KeyCalls, a.seed.some
  PROVE  a.seed.value \in Encoding
<1>1. a.seed \in SeedInputs
  BY DEF SignCalls, KeyCalls
<1> QED
  BY <1>1, OptionFields, InputAssumption DEF SeedInputs

(* The key and the signature computed from a hash of digests: the types of *)
(* their parts, and what the parsers make of them.                         *)
LEMMA ComputedKey ==
  ASSUME NEW H, NEW seed, H[SeedTranscript(seed)] \in Digests
  PROVE  LET x == SecretOf(H, seed)
             A == MulPoint(BasePoint, x)
         IN  /\ x \in Scalars \ {0}
             /\ KeyOf(H, seed) = EncodePoint(A).value
             /\ KeyOf(H, seed) \in Encoding
             /\ ParseKey(Some(KeyOf(H, seed)))
                  = Some([encoded |-> KeyOf(H, seed), point |-> A])
<1> DEFINE x == SecretOf(H, seed)
           A == MulPoint(BasePoint, x)
<1>1. x \in Scalars \ {0}
  <2>1. H[SeedTranscript(seed)][1] \in Encoding
    BY DigestReduces
  <2> QED
    BY <2>1, PrunedScalarIsNotZero DEF SecretOf, ReducePruned
<1>2. KeyOf(H, seed) = EncodePoint(A).value
  BY DEF KeyOf
<1>3. KeyOf(H, seed) \in Encoding
  BY <1>1, <1>2, BaseMultiple, EncodedPointDecodes
<1> HIDE DEF x
<1>4. ParseKey(Some(KeyOf(H, seed)))
        = Some([encoded |-> KeyOf(H, seed), point |-> A])
  BY <1>1, <1>2, DerivedKeyParses
<1> QED
  BY <1>1, <1>2, <1>3, <1>4 DEF x

LEMMA ComputedSignature ==
  ASSUME NEW H, NEW seed, NEW m, H[SeedTranscript(seed)] \in Digests,
         H[NonceAsked(H, seed, m)] \in Digests,
         H[ChallengeAsked(H, seed, m)] \in Digests
  PROVE  LET r == NonceOf(H, seed, m)
             R == MulPoint(BasePoint, r)
             s == ResponseOf(H, seed, m)
         IN  /\ r \in Scalars /\ s \in Scalars
             /\ SignatureOf(H, seed, m) = <<EncodePoint(R).value, s>>
             /\ SignatureOf(H, seed, m) \in Encoding \X Encoding
             /\ ParseSignature(Some(SignatureOf(H, seed, m)))
                  = Some([encoding |-> EncodePoint(R).value,
                          commitment |-> R, response |-> s])
<1> DEFINE r == NonceOf(H, seed, m)
           R == MulPoint(BasePoint, r)
           s == ResponseOf(H, seed, m)
<1>1. r \in Scalars
  BY DigestReduces DEF NonceOf
<1>2. s \in Scalars
  BY <1>1, ComputedKey, DigestReduces, ScalarClosure DEF ResponseOf
<1>3. SignatureOf(H, seed, m) = <<EncodePoint(R).value, s>>
  BY DEF SignatureOf, CommitmentOf
<1>4. EncodePoint(R).value \in Encoding /\ s \in Encoding
  BY <1>1, <1>2, BaseMultiple, EncodedPointDecodes, ScalarIsEncoding
<1> HIDE DEF r, s
<1>5. ParseSignature(Some(SignatureOf(H, seed, m)))
        = Some([encoding |-> EncodePoint(R).value,
                commitment |-> R, response |-> s])
  BY <1>1, <1>2, <1>3, WrittenSignatureParses
<1> QED
  BY <1>1, <1>2, <1>3, <1>4, <1>5 DEF r, s

LEMMA VerifierInputs ==
  ASSUME IInv, DInv
  PROVE  /\ PublicKeyInputs \cup MadeKeys \subseteq KeyStrings
         /\ SignatureInputs \cup MadeSignatures \subseteq SignatureStrings
<1>1. PublicKeyInputs \subseteq KeyStrings
      /\ SignatureInputs \subseteq SignatureStrings
  BY InputAssumption DEF KeyStrings, SignatureStrings
<1>2. ASSUME NEW r \in returned
      PROVE  /\ "public_key" \in DOMAIN r.outcome =>
                  r.outcome.public_key \in Encoding
             /\ "signature" \in DOMAIN r.outcome =>
                  r.outcome.signature \in Encoding \X Encoding
  <2> DEFINE seed == r.call.seed.value
             m == r.call.message
  <2>1. /\ r.call \in Calls
        /\ HashAsked(oracle, r.call)
        /\ Computed(oracle, r.call, r.outcome)
    BY DEF DInv, Answered
  <2>2. ASSUME "public_key" \in DOMAIN r.outcome
        PROVE  r.outcome.public_key \in Encoding
    <3>1. /\ r.outcome.public_key = KeyOf(oracle, seed)
          /\ SeedTranscript(seed) \in DOMAIN oracle
      BY <2>1, <2>2, OutcomeKinds DEF HashAsked
    <3>2. oracle[SeedTranscript(seed)] \in Digests
      BY <3>1 DEF IInv, TypeOK
    <3> QED
      BY <3>1, <3>2, ComputedKey
  <2>3. ASSUME "signature" \in DOMAIN r.outcome
        PROVE  r.outcome.signature \in Encoding \X Encoding
    <3>1. /\ r.outcome.signature = SignatureOf(oracle, seed, m)
          /\ SeedTranscript(seed) \in DOMAIN oracle
          /\ NonceAsked(oracle, seed, m) \in DOMAIN oracle
          /\ ChallengeAsked(oracle, seed, m) \in DOMAIN oracle
      BY <2>1, <2>3, OutcomeKinds DEF HashAsked
    <3>2. /\ oracle[SeedTranscript(seed)] \in Digests
          /\ oracle[NonceAsked(oracle, seed, m)] \in Digests
          /\ oracle[ChallengeAsked(oracle, seed, m)] \in Digests
      BY <3>1 DEF IInv, TypeOK
    <3> HIDE DEF seed, m
    <3>3. SignatureOf(oracle, seed, m) \in Encoding \X Encoding
      BY <3>2, ComputedSignature
    <3> QED
      BY <3>1, <3>3
  <2> QED
    BY <2>2, <2>3
<1>3. MadeKeys \subseteq KeyStrings
  BY <1>2 DEF MadeKeys, KeyStrings
<1>4. MadeSignatures \subseteq SignatureStrings
  BY <1>2 DEF MadeSignatures, SignatureStrings
<1> QED
  BY <1>1, <1>3, <1>4

-----------------------------------------------------------------------------
(* One lemma per action.  Each step preserves IInv (SigningProofs), so its *)
(* consequences in the next state are at hand.                             *)

LEMMA EnterDetermined ==
  ASSUME IInv, DInv, NEW c \in Callers, NEW a, NEW stage, Enter(c, a, stage),
         \/ stage = "derive" /\ a \in SignCalls \cup KeyCalls /\ a.seed.some
         \/ stage = "verify" /\ a \in VerifyCalls /\ Parses(a)
  PROVE  DInv'
<1>1. /\ OthersUntouched(c) /\ pc'[c] = stage /\ call'[c] = a
  BY DEF IInv, TypeOK, Enter, frame, OthersUntouched
<1>2. FrameDetermined(c)'
  BY <1>1 DEF FrameDetermined, Parses
<1>3. OracleGrows
  BY OracleUnchanged DEF IInv, Enter
<1>4. Answered'
  BY <1>3, NothingReturned DEF Enter
<1> QED
  BY <1>1, <1>2, <1>3, <1>4, OneCallerDetermined

LEMMA ReturnAtOnceDetermined ==
  ASSUME IInv, DInv, NEW a \in Calls, NEW o, ReturnAtOnce(a, o),
         HashAsked(oracle, a), Computed(oracle, a, o)
  PROVE  DInv'
<1>1. OracleGrows
  BY OracleUnchanged DEF IInv, ReturnAtOnce
<1>2. HashAsked(oracle', a) /\ Computed(oracle', a, o)
  BY <1>1, OutcomeStable
<1>3. Answered'
  BY <1>1, <1>2, AnswersKept DEF ReturnAtOnce
<1>4. \A c \in Callers : FrameDetermined(c)'
  BY DEF DInv, ReturnAtOnce, frame, FrameDetermined
<1> QED
  BY <1>3, <1>4 DEF DInv

LEMMA BeginDetermined ==
  ASSUME IInv, DInv, NEW c \in Callers,
         \/ BeginSign(c) \/ BeginVerifyingKey(c)
         \/ ValidatePublicKey(c) \/ BeginVerify(c)
  PROVE  DInv'
<1>1. ASSUME NEW a \in SignCalls \cup KeyCalls, BeginWithSeed(c, a)
      PROVE  DInv'
  <2>1. CASE a.seed.some
    BY <1>1, <2>1, EnterDetermined DEF BeginWithSeed
  <2>2. CASE ~a.seed.some
    <3>1. ReturnAtOnce(a, [error |-> "InvalidSeedLength"])
      BY <1>1, <2>2 DEF BeginWithSeed
    <3>2. a \in Calls /\ a \notin ValidateCalls \cup VerifyCalls
      BY <1>1 DEF Calls, SignCalls, KeyCalls, ValidateCalls, VerifyCalls
    <3>3. HashAsked(oracle, a)
          /\ Computed(oracle, a, [error |-> "InvalidSeedLength"])
      BY <2>2, <3>2 DEF HashAsked, Computed
    <3> QED
      BY <3>1, <3>2, <3>3, ReturnAtOnceDetermined
  <2> QED
    BY <2>1, <2>2
<1>2. CASE BeginSign(c)
  BY <1>1, <1>2 DEF BeginSign, SignCalls
<1>3. CASE BeginVerifyingKey(c)
  BY <1>1, <1>3 DEF BeginVerifyingKey, KeyCalls
<1>4. CASE ValidatePublicKey(c)
  <2>1. PICK key \in PublicKeyInputs \cup MadeKeys :
          ReturnAtOnce([op |-> "validate_public_key", public_key |-> key],
                       [valid |-> ParseKey(key).some])
    BY <1>4 DEF ValidatePublicKey
  <2> DEFINE a == [op |-> "validate_public_key", public_key |-> key]
  <2>2. a \in ValidateCalls /\ a.public_key = key
    BY VerifierInputs DEF ValidateCalls
  <2>3. a \in Calls /\ a \notin SignCalls \cup KeyCalls \cup VerifyCalls
    BY <2>2 DEF Calls, SignCalls, KeyCalls, ValidateCalls, VerifyCalls
  <2> HIDE DEF a
  <2>4. HashAsked(oracle, a)
        /\ Computed(oracle, a, [valid |-> ParseKey(key).some])
    BY <2>2, <2>3 DEF HashAsked, Computed
  <2> QED
    BY <2>1, <2>3, <2>4, ReturnAtOnceDetermined DEF a
<1>5. CASE BeginVerify(c)
  <2>1. PICK key \in PublicKeyInputs \cup MadeKeys,
             message \in Messages,
             signature \in SignatureInputs \cup MadeSignatures :
          BeginWithInputs(c, [op |-> "verify", public_key |-> key,
                              message |-> message, signature |-> signature])
    BY <1>5 DEF BeginVerify
  <2> DEFINE a == [op |-> "verify", public_key |-> key,
                   message |-> message, signature |-> signature]
  <2>2. a \in VerifyCalls
    BY VerifierInputs DEF VerifyCalls
  <2>3. a \in Calls /\ a \notin SignCalls \cup KeyCalls \cup ValidateCalls
    BY <2>2 DEF Calls, SignCalls, KeyCalls, ValidateCalls, VerifyCalls
  <2> HIDE DEF a
  <2>4. CASE Parses(a)
    <3>1. Enter(c, a, "verify")
      BY <2>1, <2>4 DEF BeginWithInputs, Parses, a
    <3> QED
      BY <2>2, <2>4, <3>1, EnterDetermined
  <2>5. CASE ~Parses(a)
    <3>1. ReturnAtOnce(a, [valid |-> FALSE])
      BY <2>1, <2>5 DEF BeginWithInputs, Parses, a
    <3>2. HashAsked(oracle, a) /\ Computed(oracle, a, [valid |-> FALSE])
      BY <2>3, <2>5 DEF HashAsked, Computed
    <3> QED
      BY <2>3, <3>1, <3>2, ReturnAtOnceDetermined
  <2> QED
    BY <2>4, <2>5
<1> QED
  BY <1>2, <1>3, <1>4, <1>5

LEMMA DeriveDetermined ==
  ASSUME IInv, IInv', DInv, NEW c \in Callers, Derive(c)
  PROVE  DInv'
<1> DEFINE seed == call[c].seed.value
<1>1. PICK digest \in Digests :
        /\ Hash(SeedTranscript(seed), digest)
        /\ expanded' = [expanded EXCEPT ![c] =
              [reduced_scalar |-> ReducePruned(Prune(digest[1])),
               prefix |-> digest[2],
               public_key |->
                 EncodePoint(MulPoint(BasePoint, Prune(digest[1]))).value]]
        /\ pc' = [pc EXCEPT ![c] =
              IF call[c].op = "sign" THEN "commit" ELSE "export"]
        /\ UNCHANGED <<call, nonce, returned>>
  BY NoFailureReturned DEF Derive, IInv
<1>2. /\ OracleGrows /\ SeedTranscript(seed) \in DOMAIN oracle'
      /\ oracle'[SeedTranscript(seed)] = digest
  BY <1>1, HashGrows DEF IInv
<1>3. /\ OthersUntouched(c) /\ call'[c] = call[c]
      /\ pc'[c] = IF call[c].op = "sign" THEN "commit" ELSE "export"
      /\ expanded'[c].reduced_scalar = SecretOf(oracle', seed)
      /\ expanded'[c].prefix = PrefixOf(oracle', seed)
  BY <1>1, <1>2 DEF IInv, TypeOK, OthersUntouched, SecretOf, PrefixOf
<1>4. expanded'[c] = ExpandedOf(oracle', seed)
  <2>1. KeyDerived(c)' /\ expanded'[c] \in ExpandedSecrets
    BY <1>3 DEF IInv, TypeOK, FrameTypeOK, FramesConsistent, FrameConsistent
  <2>2. expanded'[c].public_key = KeyOf(oracle', seed)
    BY <1>3, <2>1 DEF KeyDerived, KeyOf
  <2> QED
    BY <1>3, <2>1, <2>2 DEF ExpandedOf, ExpandedSecrets
<1>5. /\ call[c] \in SignCalls \cup KeyCalls /\ call[c].seed.some
      /\ call[c].op = "sign" <=> call[c] \in SignCalls
  BY DEF DInv, FrameDetermined, Derive, SignCalls, KeyCalls
<1>6. FrameDetermined(c)'
  BY <1>2, <1>3, <1>4, <1>5 DEF FrameDetermined
<1>7. Answered'
  BY <1>1, <1>2, NothingReturned
<1> QED
  BY <1>2, <1>3, <1>6, <1>7, OneCallerDetermined

LEMMA ExportDetermined ==
  ASSUME IInv, IInv', DInv, NEW c \in Callers, Export(c)
  PROVE  DInv'
<1> DEFINE seed == call[c].seed.value
<1>1. Return(c, [public_key |-> expanded[c].public_key])
  BY NoFailureReturned DEF Export, IInv
<1>2. /\ call[c] \in KeyCalls /\ call[c].seed.some
      /\ SeedTranscript(seed) \in DOMAIN oracle
      /\ expanded[c] = ExpandedOf(oracle, seed)
  BY DEF DInv, FrameDetermined, Export
<1>3. expanded[c].public_key = KeyOf(oracle, seed)
  BY <1>2 DEF ExpandedOf
<1>4. OracleGrows /\ oracle' = oracle
  BY OracleUnchanged DEF IInv, Export
<1>5. /\ call[c] \in Calls
      /\ call[c] \notin SignCalls \cup ValidateCalls \cup VerifyCalls
  BY <1>2 DEF Calls, SignCalls, KeyCalls, ValidateCalls, VerifyCalls
<1>6. HashAsked(oracle', call[c])
      /\ Computed(oracle', call[c], [public_key |-> expanded[c].public_key])
  BY <1>2, <1>3, <1>4, <1>5 DEF HashAsked, Computed
<1> QED
  BY <1>1, <1>4, <1>5, <1>6, ReturnDetermined

LEMMA CommitDetermined ==
  ASSUME IInv, IInv', DInv, NEW c \in Callers, Commit(c)
  PROVE  DInv'
<1> DEFINE seed == call[c].seed.value
           m == call[c].message
<1>1. PICK digest \in Digests :
        /\ Hash(NonceTranscript(expanded[c].prefix, m), digest)
        /\ nonce' = [nonce EXCEPT ![c] = ReduceHash(digest)]
        /\ pc' = [pc EXCEPT ![c] = "respond"]
        /\ UNCHANGED <<call, expanded, returned>>
  BY NoFailureReturned DEF Commit, IInv
<1>2. /\ OracleGrows
      /\ NonceTranscript(expanded[c].prefix, m) \in DOMAIN oracle'
      /\ oracle'[NonceTranscript(expanded[c].prefix, m)] = digest
  BY <1>1, HashGrows DEF IInv
<1>3. /\ call[c] \in SignCalls /\ call[c].seed.some
      /\ SeedTranscript(seed) \in DOMAIN oracle
      /\ expanded[c] = ExpandedOf(oracle, seed)
  BY DEF DInv, FrameDetermined, Commit
<1>4. NonceAsked(oracle', seed, m) = NonceTranscript(expanded[c].prefix, m)
  <2>1. expanded[c].prefix = PrefixOf(oracle, seed)
    BY <1>3 DEF ExpandedOf
  <2>2. PrefixOf(oracle', seed) = PrefixOf(oracle, seed)
    BY <1>2, <1>3, SeedStable
  <2> QED
    BY <2>1, <2>2 DEF NonceAsked
<1>5. /\ OthersUntouched(c) /\ call'[c] = call[c] /\ pc'[c] = "respond"
      /\ expanded'[c] = expanded[c] /\ nonce'[c] = ReduceHash(digest)
  BY <1>1 DEF IInv, TypeOK, OthersUntouched
<1>6. nonce'[c] = NonceOf(oracle', seed, m)
  BY <1>2, <1>4, <1>5 DEF NonceOf
<1>7. FrameDetermined(c)'
  BY <1>2, <1>3, <1>4, <1>5, <1>6, SeedStable DEF FrameDetermined
<1>8. Answered'
  BY <1>1, <1>2, NothingReturned
<1> QED
  BY <1>2, <1>5, <1>7, <1>8, OneCallerDetermined

LEMMA RespondDetermined ==
  ASSUME IInv, DInv, NEW c \in Callers, Respond(c)
  PROVE  DInv'
<1> DEFINE seed == call[c].seed.value
           m == call[c].message
<1>1. PICK digest \in Digests :
        /\ \E t : Hash(t, digest)
        /\ pc' = [pc EXCEPT ![c] = "self_check"]
        /\ UNCHANGED <<call, expanded, nonce, returned>>
  BY DEF Respond
<1>2. OracleGrows
  BY <1>1, HashGrows DEF IInv
<1>3. /\ call[c] \in SignCalls /\ call[c].seed.some
      /\ SeedTranscript(seed) \in DOMAIN oracle
      /\ expanded[c] = ExpandedOf(oracle, seed)
      /\ NonceAsked(oracle, seed, m) \in DOMAIN oracle
      /\ nonce[c] = NonceOf(oracle, seed, m)
  BY DEF DInv, FrameDetermined, Respond
<1>4. /\ OthersUntouched(c) /\ call'[c] = call[c] /\ pc'[c] = "self_check"
      /\ expanded'[c] = expanded[c] /\ nonce'[c] = nonce[c]
  BY <1>1 DEF IInv, TypeOK, OthersUntouched
<1>5. FrameDetermined(c)'
  BY <1>2, <1>3, <1>4, SeedStable, NonceStable DEF FrameDetermined
<1>6. Answered'
  BY <1>1, <1>2, NothingReturned
<1> QED
  BY <1>2, <1>4, <1>5, <1>6, OneCallerDetermined

(* The bytes that pass the self-check are those computed from the hash:    *)
(* the commitment of the nonce, and the response to the challenge.         *)
LEMMA SelfCheckDetermined ==
  ASSUME IInv, IInv', DInv, NEW c \in Callers, SelfCheck(c)
  PROVE  DInv'
<1> DEFINE seed == call[c].seed.value
           m == call[c].message
<1>1. OracleGrows /\ Return(c, [signature |-> encoded[c]])
  <2>1. CASE UNCHANGED oracle
    BY <2>1, NoFailureReturned, OracleUnchanged DEF SelfCheck, IInv
  <2>2. CASE \E digest \in Digests : \E t : Hash(t, digest)
    BY <2>2, NoFailureReturned, HashGrows DEF SelfCheck, IInv
  <2> QED
    BY <2>1, <2>2 DEF SelfCheck
<1>2. /\ call[c] \in SignCalls /\ call[c].seed.some
      /\ SeedTranscript(seed) \in DOMAIN oracle
      /\ expanded[c] = ExpandedOf(oracle, seed)
      /\ NonceAsked(oracle, seed, m) \in DOMAIN oracle
      /\ nonce[c] = NonceOf(oracle, seed, m)
  BY DEF DInv, FrameDetermined, SelfCheck
<1>3. Committed(c) /\ Responded(c)
  BY DEF IInv, FramesConsistent, FrameConsistent, SelfCheck
<1>4. /\ expanded[c].public_key = KeyOf(oracle, seed)
      /\ expanded[c].reduced_scalar = SecretOf(oracle, seed)
      /\ encoded[c][1] = CommitmentOf(oracle, seed, m)
  BY <1>2, <1>3 DEF ExpandedOf, Committed, CommitmentOf
<1>5. ChallengeAsked(oracle, seed, m) \in DOMAIN oracle
      /\ encoded[c] = SignatureOf(oracle, seed, m)
  BY <1>2, <1>3, <1>4
  DEF Responded, ChallengeAsked, SignatureOf, ResponseOf
<1>6. /\ call[c] \in Calls
      /\ call[c] \notin KeyCalls \cup ValidateCalls \cup VerifyCalls
  BY <1>2 DEF Calls, SignCalls, KeyCalls, ValidateCalls, VerifyCalls
<1>7. HashAsked(oracle, call[c])
      /\ Computed(oracle, call[c], [signature |-> encoded[c]])
  BY <1>2, <1>5, <1>6 DEF HashAsked, Computed
<1>8. HashAsked(oracle', call[c])
      /\ Computed(oracle', call[c], [signature |-> encoded[c]])
  BY <1>1, <1>7, OutcomeStable
<1> QED
  BY <1>1, <1>6, <1>8, ReturnDetermined

LEMMA CheckEquationDetermined ==
  ASSUME IInv, DInv, NEW c \in Callers, CheckEquation(c)
  PROVE  DInv'
<1> DEFINE a == call[c]
           key == ParseKey(a.public_key).value
           signature == ParseSignature(a.signature).value
<1>1. PICK digest \in Digests :
        /\ Hash(CheckAsked(a), digest)
        /\ Return(c, [valid |-> Equation(key, signature, ReduceHash(digest))])
  BY DEF CheckEquation, CheckAsked
<1>2. /\ OracleGrows /\ CheckAsked(a) \in DOMAIN oracle'
      /\ oracle'[CheckAsked(a)] = digest
  BY <1>1, HashGrows DEF IInv
<1>3. a \in VerifyCalls /\ Parses(a)
  BY DEF DInv, FrameDetermined, CheckEquation
<1>4. a \in Calls /\ a \notin SignCalls \cup KeyCalls \cup ValidateCalls
  BY <1>3 DEF Calls, SignCalls, KeyCalls, ValidateCalls, VerifyCalls
<1>5. Verifies(oracle', a) = Equation(key, signature, ReduceHash(digest))
  BY <1>2 DEF Verifies
<1>6. (Parses(a) /\ Verifies(oracle', a))
        = Equation(key, signature, ReduceHash(digest))
  BY <1>3, <1>5 DEF Verifies, Equation
<1> HIDE DEF a, key, signature
<1>7. HashAsked(oracle', a)
      /\ Computed(oracle', a,
                  [valid |-> Equation(key, signature, ReduceHash(digest))])
  BY <1>2, <1>3, <1>4, <1>6 DEF HashAsked, Computed
<1> QED
  BY <1>1, <1>2, <1>4, <1>7, ReturnDetermined DEF a

-----------------------------------------------------------------------------
(* Theorems.                                                               *)

LEMMA InitiallyDetermined == Init => DInv
  BY DEF Init, DInv, Answered, FrameDetermined

LEMMA DeterminedInductive ==
  ASSUME IInv, IInv', DInv, [Next]_vars
  PROVE  DInv'
<1>1. CASE Next
  BY <1>1, BeginDetermined, DeriveDetermined, ExportDetermined,
     CommitDetermined, RespondDetermined, SelfCheckDetermined,
     CheckEquationDetermined DEF Next
<1>2. CASE UNCHANGED vars
  BY <1>2 DEF vars, DInv, Answered, FrameDetermined
<1> QED
  BY <1>1, <1>2

(* Every call that has returned has the outcome the code computes for it   *)
(* alone on the hash as it stands, however the calls were interleaved.     *)
THEOREM OutcomesComputed == Spec => [](IInv /\ DInv)
<1>1. Init => IInv /\ DInv
  BY Initially, InitiallyDetermined
<1>2. IInv /\ DInv /\ [Next]_vars => (IInv /\ DInv)'
  BY Inductive, DeterminedInductive
<1> QED
  BY <1>1, <1>2, PTL DEF Spec

LEMMA OneOutcome ==
  ASSUME NEW H, NEW a \in Calls, NEW o, NEW u,
         Computed(H, a, o), Computed(H, a, u)
  PROVE  o = u
  BY DEF Calls, Computed

(* A call is a function of its arguments, for any hash, any callers and    *)
(* any interleaving of their calls.                                        *)
THEOREM CallsAreDeterministic == Spec => []Deterministic
<1>1. DInv => Deterministic
  BY OneOutcome DEF DInv, Answered, Deterministic
<1> QED
  BY <1>1, OutcomesComputed, PTL

LEMMA VerifierAnswer ==
  ASSUME NEW H, NEW a \in VerifyCalls, NEW o, Computed(H, a, o)
  PROVE  o.valid <=> Parses(a) /\ Verifies(H, a)
<1>1. o = [valid |-> Parses(a) /\ Verifies(H, a)]
  BY DEF Computed
<1> HIDE DEF Computed
<1>2. o.valid = (Parses(a) /\ Verifies(H, a))
  BY <1>1, Zenon
<1> QED
  BY <1>2, Zenon

(* A verification of the signature of a seed under the key of that seed.   *)
LEMMA ComputedSignatureVerifies ==
  ASSUME NEW H, NEW seed, NEW m, H[SeedTranscript(seed)] \in Digests,
         H[NonceAsked(H, seed, m)] \in Digests,
         H[ChallengeAsked(H, seed, m)] \in Digests,
         NEW a, a.public_key = Some(KeyOf(H, seed)), a.message = m,
         a.signature = Some(SignatureOf(H, seed, m))
  PROVE  Parses(a) /\ Verifies(H, a)
<1> DEFINE x == SecretOf(H, seed)
           r == NonceOf(H, seed, m)
           k == ReduceHash(H[ChallengeAsked(H, seed, m)])
           key == [encoded |-> KeyOf(H, seed),
                   point |-> MulPoint(BasePoint, x)]
           signature == [encoding |-> CommitmentOf(H, seed, m),
                         commitment |-> MulPoint(BasePoint, r),
                         response |-> ResponseOf(H, seed, m)]
<1>1. x \in Scalars /\ r \in Scalars /\ k \in Scalars
  BY ComputedKey, ComputedSignature, DigestReduces
<1>2. ParseKey(a.public_key) = Some(key)
  BY ComputedKey
<1>3. ParseSignature(a.signature) = Some(signature)
  BY ComputedSignature DEF CommitmentOf
<1>4. key.point = MulPoint(BasePoint, x) /\ key.encoded = KeyOf(H, seed)
      /\ signature.commitment = MulPoint(BasePoint, r)
      /\ signature.encoding = CommitmentOf(H, seed, m)
      /\ signature.response = ScalarAdd(r, ScalarMul(k, x))
  BY DEF ResponseOf
<1> HIDE DEF key, signature
<1>5. Parses(a)
  BY <1>2, <1>3, OptionFields DEF Parses
<1>6. CheckAsked(a) = ChallengeAsked(H, seed, m)
  BY <1>2, <1>3, <1>4, OptionFields DEF CheckAsked, ChallengeAsked
<1> HIDE DEF x, r
<1>7. Equation(key, signature, k)
  BY <1>1, <1>4, ResponseVerifies
<1>8. Verifies(H, a)
  BY <1>2, <1>3, <1>6, <1>7, OptionFields DEF Verifies
<1> QED
  BY <1>5, <1>8

(* What is signed under a seed verifies under the key of that seed, with   *)
(* calls of any callers between the three, for any hash and any curve.     *)
THEOREM SignaturesVerify == Spec => []SignedIsAccepted
<1>1. IInv /\ DInv => SignedIsAccepted
  <2> SUFFICES ASSUME IInv, DInv,
                      NEW s \in Of("sign"), NEW k \in Of("verifying_key"),
                      NEW v \in Of("verify"),
                      "signature" \in DOMAIN s.outcome,
                      "public_key" \in DOMAIN k.outcome,
                      s.call.seed = k.call.seed,
                      v.call.public_key = Some(k.outcome.public_key),
                      v.call.message = s.call.message,
                      v.call.signature = Some(s.outcome.signature)
               PROVE  v.outcome.valid
    BY DEF SignedIsAccepted
  <2> DEFINE seed == s.call.seed.value
             m == s.call.message
  <2>1. /\ s.call \in Calls /\ HashAsked(oracle, s.call)
        /\ Computed(oracle, s.call, s.outcome)
        /\ k.call \in Calls /\ Computed(oracle, k.call, k.outcome)
        /\ v.call \in Calls /\ Computed(oracle, v.call, v.outcome)
    BY DEF Of, DInv, Answered
  <2>2. /\ s.call \in SignCalls /\ s.call.seed.some
        /\ s.outcome.signature = SignatureOf(oracle, seed, m)
        /\ k.outcome.public_key = KeyOf(oracle, seed)
    BY <2>1, OutcomeKinds
  <2>3. /\ oracle[SeedTranscript(seed)] \in Digests
        /\ oracle[NonceAsked(oracle, seed, m)] \in Digests
        /\ oracle[ChallengeAsked(oracle, seed, m)] \in Digests
    BY <2>1, <2>2 DEF HashAsked, IInv, TypeOK
  <2> HIDE DEF seed, m
  <2>4. Parses(v.call) /\ Verifies(oracle, v.call)
    BY <2>2, <2>3, ComputedSignatureVerifies DEF m
  <2>5. v.call \in VerifyCalls
    BY <2>1, CallKinds DEF Of
  <2> QED
    BY <2>1, <2>4, <2>5, VerifierAnswer
<1> QED
  BY <1>1, OutcomesComputed, PTL

-----------------------------------------------------------------------------
(* The response of an accepted signature is determined by the rest.        *)

(* Doubling loses nothing modulo an odd L.                                 *)
LEMMA DoublingIsInjective ==
  ASSUME NEW x \in Scalars, NEW y \in Scalars, (2 * x) % L = (2 * y) % L
  PROVE  x = y
<1>1. L \in Nat /\ L > 1 /\ x \in 0 .. L - 1 /\ y \in 0 .. L - 1
  BY ScalarAssumption DEF Scalars
<1>2. PICK h \in Nat : L = 2 * h + 1
  <2>1. L = 2 * (L \div 2) + 1 /\ L \div 2 \in Nat
    BY ScalarAssumption
  <2> QED
    BY <2>1
<1>3. ASSUME NEW z \in 0 .. L - 1
      PROVE  (2 * z) % L = IF z <= h THEN 2 * z ELSE 2 * z - L
  BY <1>1, <1>2
<1> QED
  BY <1>1, <1>2, <1>3

(* The multiples of the base point by different scalars differ.            *)
LEMMA BaseMultiplesDiffer ==
  ASSUME NEW x \in Scalars, NEW y \in Scalars,
         MulPoint(BasePoint, x) = MulPoint(BasePoint, y)
  PROVE  x = y
<1> DEFINE z == (L - y) % L
<1>1. L \in Nat /\ L > 1 /\ x \in 0 .. L - 1 /\ y \in 0 .. L - 1
  BY ScalarAssumption DEF Scalars
<1>2. z \in Scalars /\ z = IF y = 0 THEN 0 ELSE L - y
  BY <1>1 DEF Scalars
<1> HIDE DEF z
<1> DEFINE w == (x + z) % L
<1>3. (y + z) % L = 0 /\ w \in Scalars
  BY <1>1, <1>2 DEF Scalars
<1>4. MulPoint(BasePoint, w) = MulPoint(BasePoint, 0)
  BY <1>2, <1>3, GroupAssumption DEF GroupLaws
<1>5. w = 0
  <2> HIDE DEF w
  <2>1. 0 \in Scalars
    BY <1>1 DEF Scalars
  <2> QED
    BY <1>3, <1>4, <2>1, GroupAssumption DEF GroupLaws
<1> QED
  BY <1>1, <1>2, <1>5

LEMMA CofactorMultiplesDiffer ==
  ASSUME NEW x \in Scalars, NEW y \in Scalars,
         MultiplyByCofactor(MulPoint(BasePoint, x))
           = MultiplyByCofactor(MulPoint(BasePoint, y))
  PROVE  x = y
<1> DEFINE twice(z) == (2 * z) % L
<1>1. \A z \in Scalars : twice(z) \in Scalars
  BY ScalarAssumption DEF Scalars
<1>2. \A z \in Scalars :
        MultiplyByCofactor(MulPoint(BasePoint, z))
          = MulPoint(BasePoint, twice(twice(z)))
  BY <1>1, GroupAssumption DEF MultiplyByCofactor, GroupLaws
<1>3. twice(twice(x)) = twice(twice(y))
  BY <1>1, <1>2, BaseMultiplesDiffer
<1>4. twice(x) = twice(y)
  BY <1>1, <1>3, DoublingIsInjective
<1> QED
  BY <1>4, DoublingIsInjective

(* The parts of a signature that parses are those of its bytes, and only   *)
(* the canonical bytes of a response are read.                             *)
LEMMA ParsedParts ==
  ASSUME NEW bytes \in SignatureStrings, ParseSignature(bytes).some
  PROVE  LET signature == ParseSignature(bytes).value
         IN  /\ bytes = Some(<<bytes.value[1], bytes.value[2]>>)
             /\ signature.encoding = bytes.value[1]
             /\ signature.commitment = DecodePoint(bytes.value[1]).value
             /\ signature.response = bytes.value[2]
             /\ signature.response \in Scalars
<1>1. bytes.some /\ bytes = Some(bytes.value)
      /\ bytes.value \in Encoding \X Encoding
  BY OptionFields DEF ParseSignature, SignatureStrings
<1>2. DecodePoint(bytes.value[1]).some
      /\ ScalarFromCanonical(bytes.value[2]).some
  BY <1>1, OptionFields DEF ParseSignature
<1>3. ScalarFromCanonical(bytes.value[2]) = Some(bytes.value[2])
      /\ bytes.value[2] \in Scalars
  BY <1>1, <1>2, OptionFields, ScalarAssumption
  DEF ScalarFromCanonical, Checked, Encoding, EncodingSpace, Scalars
<1>4. ParseSignature(bytes)
        = Some([encoding |-> bytes.value[1],
                commitment |-> DecodePoint(bytes.value[1]).value,
                response |-> bytes.value[2]])
  BY <1>1, <1>2, <1>3, OptionFields DEF ParseSignature
<1> QED
  BY <1>1, <1>3, <1>4, OptionFields

(* Nobody turns an accepted signature into another by rewriting S.         *)
THEOREM ResponsesAreUnique == Spec => []OneResponseAccepted
<1>1. IInv /\ DInv => OneResponseAccepted
  <2> SUFFICES ASSUME IInv, DInv,
                      NEW v \in Of("verify"), NEW w \in Of("verify"),
                      v.outcome.valid, w.outcome.valid,
                      v.call.public_key = w.call.public_key,
                      v.call.message = w.call.message,
                      v.call.signature.value[1] = w.call.signature.value[1]
               PROVE  v.call.signature = w.call.signature
    BY DEF OneResponseAccepted
  <2> DEFINE S(a) == ParseSignature(a.signature).value
             key == ParseKey(v.call.public_key).value
             k == ReduceHash(oracle[CheckAsked(v.call)])
  <2>1. ASSUME NEW u \in Of("verify"), u.outcome.valid
        PROVE  /\ Parses(u.call) /\ Verifies(oracle, u.call)
               /\ u.call.signature
                    = Some(<<u.call.signature.value[1], S(u.call).response>>)
               /\ S(u.call).encoding = u.call.signature.value[1]
               /\ S(u.call).commitment
                    = DecodePoint(u.call.signature.value[1]).value
               /\ S(u.call).response \in Scalars
    <3>1. u.call \in VerifyCalls /\ Computed(oracle, u.call, u.outcome)
      BY CallKinds DEF Of, DInv, Answered
    <3>2. Parses(u.call) /\ Verifies(oracle, u.call)
      BY <2>1, <3>1, VerifierAnswer
    <3>3. u.call.signature \in SignatureStrings
          /\ ParseSignature(u.call.signature).some
      BY <3>1, <3>2 DEF VerifyCalls, Parses
    <3> QED
      BY <3>2, <3>3, ParsedParts
  <2> HIDE DEF S, key, k
  <2>2. /\ S(v.call).encoding = S(w.call).encoding
        /\ S(v.call).commitment = S(w.call).commitment
    BY <2>1
  <2>3. CheckAsked(w.call) = CheckAsked(v.call)
    BY <2>2 DEF CheckAsked, S
  <2>4. Equation(key, S(v.call), k) /\ Equation(key, S(w.call), k)
    BY <2>1, <2>3 DEF Verifies, S, key, k
  <2>5. MultiplyByCofactor(MulPoint(BasePoint, S(v.call).response))
          = MultiplyByCofactor(MulPoint(BasePoint, S(w.call).response))
    BY <2>2, <2>4 DEF Equation
  <2>6. S(v.call).response = S(w.call).response
    BY <2>1, <2>5, CofactorMultiplesDiffer
  <2> QED
    BY <2>1, <2>6
<1> QED
  BY <1>1, OutcomesComputed, PTL

-----------------------------------------------------------------------------
(* The draft: for every hash, every number of callers and every curve the  *)
(* assumptions describe, what the code computes for a call is what the     *)
(* draft's equations say, and every step adds outcomes of that kind only.  *)

(* Arithmetic.                                                             *)

LEMMA MultipleVanishes ==
  ASSUME NEW a \in Nat, NEW b \in Nat
  PROVE  (a + L * b) % L = a % L
<1>1. L \in Nat /\ L > 0
  BY ScalarAssumption
<1> DEFINE q == a \div L
           r == a % L
<1>2. q \in Nat /\ r \in 0 .. L - 1 /\ a = L * q + r
  BY <1>1
<1> HIDE DEF q, r
<1>3. a + L * b = L * (q + b) + r
  BY <1>1, <1>2
<1> DEFINE w == q + b
<1>4. w \in Nat /\ a + L * b = L * w + r
  BY <1>2, <1>3
<1> HIDE DEF w
<1>5. (L * w + r) % L = r
  BY <1>1, <1>2, <1>4
<1> QED
  BY <1>4, <1>5 DEF r

(* The response of the code, reduced at every operation, is the integer of *)
(* the draft reduced once.                                                 *)
LEMMA ReducedOnce ==
  ASSUME NEW r \in Nat, NEW k \in Nat, NEW x \in Nat
  PROVE  (r + ((k * (x % L)) % L)) % L = (r + k * x) % L
<1>1. L \in Nat /\ L > 0
  BY ScalarAssumption
<1> DEFINE y == x % L
           q == x \div L
           n == k * y
           m == n % L
           p == n \div L
<1>2. y \in Nat /\ q \in Nat /\ x = y + L * q
  BY <1>1
<1> HIDE DEF y, q
<1>3. n \in Nat
  BY <1>2
<1> DEFINE t == k * q
<1>4. t \in Nat /\ k * x = n + L * t
  BY <1>1, <1>2
<1> HIDE DEF n, t
<1>5. m \in Nat /\ p \in Nat /\ n = m + L * p
  BY <1>1, <1>3
<1>6. m \in Nat /\ p \in Nat /\ k * x = m + L * p + L * t
  BY <1>4, <1>5
<1> HIDE DEF m, p
<1>7. r + k * x = (r + m) + L * (p + t)
  BY <1>1, <1>2, <1>4, <1>6
<1>8. (r + k * x) % L = (r + m) % L
  <2>1. r + m \in Nat /\ p + t \in Nat
    BY <1>4, <1>6
  <2> QED
    BY <1>7, <2>1, MultipleVanishes
<1> QED
  BY <1>8 DEF m, n, y

(* The two ways the crate and the draft write the pruning.                 *)
LEMMA PruneIsSecretScalar ==
  ASSUME NEW e \in Encoding
  PROVE  Prune(e) = TopBit + (e % TopBit) - (e % 4)
<1>1. TopBit \in Nat /\ TopBit > 0 /\ TopBit % 4 = 0 /\ e \in Nat
  BY ScalarAssumption DEF Encoding
<1> DEFINE low == e % TopBit
           q == e \div TopBit
<1>2. low \in Nat /\ q \in Nat /\ e = TopBit * q + low
  BY <1>1
<1>3. PICK u \in Nat : TopBit = 4 * u
  <2>1. TopBit = 4 * (TopBit \div 4) /\ TopBit \div 4 \in Nat
    BY <1>1
  <2> QED
    BY <2>1
<1> HIDE DEF low, q
<1> DEFINE t == u * q
<1>4. t \in Nat /\ e = 4 * t + low
  BY <1>2, <1>3
<1> HIDE DEF t
<1>5. e % 4 = low % 4
  BY <1>2, <1>4
<1>6. low - (low % 4) = (low \div 4) * 4
  BY <1>2
<1> QED
  BY <1>1, <1>2, <1>5, <1>6 DEF Prune, low

-----------------------------------------------------------------------------
(* Points.                                                                 *)

LEMMA CodeIsMathematics ==
  ASSUME NEW p \in Points
  PROVE  /\ EncodePoint(p).value = ENC(p)
         /\ IsPrimeSubgroupNonidentity(p) <=> p \in Draft!KeyPoints
         /\ \A q \in Points : ENC(q) = ENC(p) => q = p
<1>1. EncodePoint(p) = Some(ENC(p))
  BY CurveMathAssumption DEF MathematicsLaws
<1>2. L \in 0 .. 2 * TopBit - 1
  BY ScalarAssumption
<1>3. MulPoint(p, L) = Multiple(L, p)
  BY <1>2, CurveMathAssumption DEF MathematicsLaws
<1>4. \A q \in Points : ENC(q) = ENC(p) => q = p
  <2>1. \A q \in Points : DecodePoint(ENC(q)) = Some(q)
    BY CurveMathAssumption DEF MathematicsLaws
  <2> QED
    BY <2>1, OptionFields
<1> QED
  BY <1>1, <1>3, <1>4, OptionFields
  DEF IsPrimeSubgroupNonidentity, IsPrimeSubgroup, Draft!KeyPoints

LEMMA DecodedPoint ==
  ASSUME NEW e \in Encoding
  PROVE  /\ DecodePoint(e).some <=> \E p \in Points : ENC(p) = e
         /\ DecodePoint(e).some =>
              /\ DecodePoint(e).value \in Points
              /\ DecodePoint(e).value = CHOOSE p \in Points : ENC(p) = e
<1>1. ASSUME NEW p \in Points, ENC(p) = e
      PROVE  DecodePoint(e) = Some(p) /\ p = CHOOSE q \in Points : ENC(q) = e
  BY <1>1, CodeIsMathematics, CurveMathAssumption DEF MathematicsLaws
<1>2. DecodePoint(e) = None \/ \E p \in Points : ENC(p) = e
  BY CurveMathAssumption DEF MathematicsLaws
<1> QED
  BY <1>1, <1>2, OptionFields

(* The parser of public keys and the one of signatures accept exactly the  *)
(* draft's keys and signatures.                                            *)
LEMMA KeysAgree ==
  ASSUME NEW key \in KeyStrings
  PROVE  /\ ParseKey(key).some <=> Draft!ValidKey(key)
         /\ ParseKey(key).some =>
              LET A == CHOOSE p \in Points : ENC(p) = key.value
              IN  A \in Points
                  /\ ParseKey(key) = Some([encoded |-> key.value, point |-> A])
<1>1. CASE key = None
  BY <1>1, OptionFields DEF ParseKey, Draft!ValidKey
<1>2. CASE key # None
  <2>1. key.some /\ key.value \in Encoding
    BY <1>2, OptionFields DEF KeyStrings
  <2> DEFINE point == DecodePoint(key.value)
  <2>2. ParseKey(key)
          = IF point.some /\ IsPrimeSubgroupNonidentity(point.value)
            THEN Some([encoded |-> key.value, point |-> point.value])
            ELSE None
    BY <2>1 DEF ParseKey
  <2>3. Draft!ValidKey(key)
          <=> point.some /\ IsPrimeSubgroupNonidentity(point.value)
    <3>1. ASSUME Draft!ValidKey(key)
          PROVE  point.some /\ IsPrimeSubgroupNonidentity(point.value)
      <4>1. PICK p \in Draft!KeyPoints : ENC(p) = key.value
        BY <3>1 DEF Draft!ValidKey
      <4>2. p \in Points
        BY <4>1 DEF Draft!KeyPoints
      <4>3. point = Some(p)
        BY <4>1, <4>2, CurveMathAssumption DEF MathematicsLaws
      <4> QED
        BY <4>1, <4>2, <4>3, CodeIsMathematics, OptionFields
    <3>2. ASSUME point.some, IsPrimeSubgroupNonidentity(point.value)
          PROVE  Draft!ValidKey(key)
      <4>1. PICK p \in Points : ENC(p) = key.value
        BY <2>1, <3>2, DecodedPoint
      <4>2. point = Some(p)
        BY <4>1, CurveMathAssumption DEF MathematicsLaws
      <4> QED
        BY <2>1, <3>2, <4>1, <4>2, CodeIsMathematics, OptionFields
        DEF Draft!ValidKey
    <3> QED
      BY <3>1, <3>2
  <2> QED
    BY <2>1, <2>2, <2>3, DecodedPoint, OptionFields
<1> QED
  BY <1>1, <1>2

LEMMA SignaturesAgree ==
  ASSUME NEW signature \in SignatureStrings
  PROVE  /\ ParseSignature(signature).some <=> Draft!ParsedSignature(signature)
         /\ ParseSignature(signature).some =>
              LET R == CHOOSE p \in Points : ENC(p) = signature.value[1]
              IN  /\ R \in Points /\ signature.value[2] \in Scalars
                  /\ ParseSignature(signature)
                       = Some([encoding |-> signature.value[1],
                               commitment |-> R,
                               response |-> signature.value[2]])
<1>1. CASE signature = None
  BY <1>1, OptionFields DEF ParseSignature, Draft!ParsedSignature
<1>2. CASE signature # None
  <2> DEFINE e == signature.value[1]
             s == signature.value[2]
             point == DecodePoint(e)
  <2>1. signature.some /\ e \in Encoding /\ s \in Encoding
    BY <1>2, OptionFields DEF SignatureStrings
  <2>2. ScalarFromCanonical(s) = IF s \in Scalars THEN Some(s) ELSE None
    BY <2>1, ScalarAssumption
    DEF ScalarFromCanonical, Checked, Encoding, EncodingSpace, Scalars
  <2>3. ParseSignature(signature)
          = IF point.some /\ s \in Scalars
            THEN Some([encoding |-> e, commitment |-> point.value,
                       response |-> s])
            ELSE None
    BY <2>1, <2>2, OptionFields DEF ParseSignature
  <2>4. Draft!ParsedSignature(signature) <=> point.some /\ s \in Scalars
    BY <2>1, DecodedPoint DEF Draft!ParsedSignature, Scalars, Draft!Scalars
  <2> QED
    BY <2>1, <2>3, <2>4, DecodedPoint, OptionFields
<1> QED
  BY <1>1, <1>2

-----------------------------------------------------------------------------
(* Keys, nonces, commitments and responses.                                *)

LEMMA KeysComputedAgree ==
  ASSUME NEW H, NEW seed, H[SeedTranscript(seed)] \in Digests
  PROVE  /\ PrefixOf(H, seed) = Draft!Prefix(H, seed)
         /\ KeyOf(H, seed) = Draft!PublicKey(H, seed)
         /\ Draft!SecretScalar(H, seed) \in Nat
         /\ SecretOf(H, seed) = Draft!SecretScalar(H, seed) % L
<1> DEFINE e == H[SeedTranscript(seed)][1]
           x == Prune(e)
<1>1. e \in Encoding
  BY DigestReduces
<1>2. x = Draft!SecretScalar(H, seed)
  BY <1>1, PruneIsSecretScalar DEF Draft!SecretScalar, SeedTranscript
<1>3. x \in 0 .. 2 * TopBit - 1 /\ SecretOf(H, seed) = x % L
  BY <1>1, PrunedScalarIsNotZero DEF SecretOf, ReducePruned
<1> HIDE DEF x
<1>4. /\ MulPoint(BasePoint, x) = MulPoint(BasePoint, x % L)
      /\ MulPoint(BasePoint, x) = Multiple(x, BasePoint)
      /\ MulPoint(BasePoint, x) \in Points
  BY <1>3, GroupAssumption, CurveMathAssumption DEF GroupLaws, MathematicsLaws
<1>5. KeyOf(H, seed) = ENC(Multiple(x, BasePoint))
  BY <1>3, <1>4, CodeIsMathematics DEF KeyOf
<1>6. x \in Nat
  BY <1>3
<1> QED
  BY <1>2, <1>3, <1>5, <1>6
  DEF PrefixOf, Draft!Prefix, Draft!PublicKey, SeedTranscript

LEMMA CommitmentsAgree ==
  ASSUME NEW H, NEW seed, NEW m, H[SeedTranscript(seed)] \in Digests,
         H[NonceAsked(H, seed, m)] \in Digests
  PROVE  /\ NonceAsked(H, seed, m) = Draft!NonceInput(H, seed, m)
         /\ NonceOf(H, seed, m) = Draft!Nonce(H, seed, m)
         /\ CommitmentOf(H, seed, m) = Draft!Renc(H, seed, m)
         /\ ChallengeAsked(H, seed, m)
              = Draft!ChallengeInput(Draft!Renc(H, seed, m),
                                     Draft!PublicKey(H, seed), m)
<1> DEFINE r == NonceOf(H, seed, m)
<1>1. NonceAsked(H, seed, m) = Draft!NonceInput(H, seed, m)
  BY KeysComputedAgree DEF NonceAsked, NonceTranscript, Draft!NonceInput
<1>2. r = Draft!Nonce(H, seed, m)
  BY <1>1 DEF NonceOf, Draft!Nonce, ReduceHash, Draft!ScalarOf,
              EncodingSpace, Draft!EncodingSpace
<1>3. r \in Scalars /\ r \in 0 .. 2 * TopBit - 1
  BY DigestReduces, ScalarIsEncoding DEF NonceOf
<1> HIDE DEF r
<1>4. MulPoint(BasePoint, r) \in Points
      /\ MulPoint(BasePoint, r) = Multiple(r, BasePoint)
  BY <1>3, GroupAssumption, CurveMathAssumption DEF GroupLaws, MathematicsLaws
<1>5. EncodePoint(MulPoint(BasePoint, r)).value = ENC(Multiple(r, BasePoint))
  BY <1>4, CodeIsMathematics
<1>6. CommitmentOf(H, seed, m) = Draft!Renc(H, seed, m)
  BY <1>2, <1>5 DEF CommitmentOf, Draft!Renc, r
<1> QED
  BY <1>1, <1>2, <1>6, KeysComputedAgree
  DEF r, ChallengeAsked, ChallengeTranscript, Draft!ChallengeInput

LEMMA SignaturesComputedAgree ==
  ASSUME NEW H, NEW seed, NEW m, H[SeedTranscript(seed)] \in Digests,
         H[NonceAsked(H, seed, m)] \in Digests,
         H[ChallengeAsked(H, seed, m)] \in Digests
  PROVE  SignatureOf(H, seed, m) = Draft!SignatureOf(H, seed, m)
<1> DEFINE r == NonceOf(H, seed, m)
           x == Draft!SecretScalar(H, seed)
           k == ReduceHash(H[ChallengeAsked(H, seed, m)])
<1>1. r \in Nat /\ k \in Nat /\ x \in Nat /\ SecretOf(H, seed) = x % L
  BY DigestReduces, KeysComputedAgree, ScalarAssumption DEF NonceOf, Scalars
<1>2. k = Draft!Challenge(H, Draft!Renc(H, seed, m),
                          Draft!PublicKey(H, seed), m)
  BY CommitmentsAgree
  DEF ReduceHash, Draft!Challenge, Draft!ScalarOf,
      EncodingSpace, Draft!EncodingSpace
<1>3. ResponseOf(H, seed, m) = (r + ((k * (x % L)) % L)) % L
  BY <1>1 DEF ResponseOf, ScalarAdd, ScalarMul
<1> HIDE DEF r, x, k
<1>4. ResponseOf(H, seed, m) = (r + k * x) % L
  BY <1>1, <1>3, ReducedOnce
<1>5. r = Draft!Nonce(H, seed, m)
      /\ CommitmentOf(H, seed, m) = Draft!Renc(H, seed, m)
  BY CommitmentsAgree DEF r
<1> QED
  BY <1>2, <1>4, <1>5 DEF SignatureOf, Draft!SignatureOf, x

(* The verifier of the crate, with points and doublings, decides the       *)
(* cofactored equation of the draft.                                       *)
LEMMA VerifiersAgree ==
  ASSUME NEW H, NEW a \in VerifyCalls,
         Parses(a) => H[CheckAsked(a)] \in Digests
  PROVE  /\ Parses(a) /\ Verifies(H, a)
              <=> Draft!Accepts(H, a.public_key, a.message, a.signature)
         /\ Parses(a) => CheckAsked(a)
              = Draft!ChallengeInput(a.signature.value[1],
                                     a.public_key.value, a.message)
<1> DEFINE e == a.signature.value[1]
           s == a.signature.value[2]
           A == CHOOSE p \in Points : ENC(p) = a.public_key.value
           R == CHOOSE p \in Points : ENC(p) = e
<1>1. a.public_key \in KeyStrings /\ a.signature \in SignatureStrings
  BY DEF VerifyCalls
<1>2. Parses(a) <=> Draft!ValidKey(a.public_key)
                    /\ Draft!ParsedSignature(a.signature)
  BY <1>1, KeysAgree, SignaturesAgree DEF Parses
<1>3. CASE ~Parses(a)
  BY <1>2, <1>3 DEF Draft!Accepts
<1>4. CASE Parses(a)
  <2> DEFINE k == ReduceHash(H[CheckAsked(a)])
             key == [encoded |-> a.public_key.value, point |-> A]
             signature == [encoding |-> e, commitment |-> R, response |-> s]
  <2>1. /\ A \in Points /\ ParseKey(a.public_key) = Some(key)
        /\ R \in Points /\ ParseSignature(a.signature) = Some(signature)
        /\ s \in Scalars
    BY <1>1, <1>4, KeysAgree, SignaturesAgree DEF Parses
  <2>2. CheckAsked(a)
          = Draft!ChallengeInput(e, a.public_key.value, a.message)
    BY <2>1, OptionFields
    DEF CheckAsked, ChallengeTranscript, Draft!ChallengeInput
  <2>3. k \in Scalars
        /\ k = Draft!Challenge(H, e, a.public_key.value, a.message)
    BY <1>4, <2>2, DigestReduces
    DEF Draft!Challenge, Draft!ScalarOf, ReduceHash,
        EncodingSpace, Draft!EncodingSpace
  <2>4. Verifies(H, a)
          <=> MultiplyByCofactor(MulPoint(BasePoint, s))
                = MultiplyByCofactor(AddPoints(R, MulPoint(A, k)))
    <3>1. key.point = A /\ signature.commitment = R
          /\ signature.response = s
      OBVIOUS
    <3> HIDE DEF key, signature
    <3>2. ParseKey(a.public_key).value = key
          /\ ParseSignature(a.signature).value = signature
      BY <2>1, OptionFields
    <3>3. Verifies(H, a) <=> Equation(key, signature, k)
      BY <3>2 DEF Verifies
    <3> QED
      BY <3>1, <3>3 DEF Equation
  <2> HIDE DEF e, s, A, R, k
  <2>5. /\ s \in 0 .. 2 * TopBit - 1 /\ k \in 0 .. 2 * TopBit - 1
        /\ BasePoint \in Points
        /\ MulPoint(BasePoint, s) \in Points /\ MulPoint(A, k) \in Points
        /\ AddPoints(R, MulPoint(A, k)) \in Points
    BY <2>1, <2>3, ScalarIsEncoding, GroupAssumption DEF GroupLaws
  <2>6. MultiplyByCofactor(MulPoint(BasePoint, s)) = Multiple(4 * s, BasePoint)
    BY <2>1, <2>5, CurveMathAssumption DEF MultiplyByCofactor, MathematicsLaws
  <2>7. MultiplyByCofactor(AddPoints(R, MulPoint(A, k)))
          = Sum(Multiple(4, R), Multiple(4 * k, A))
    <3>1. MultiplyByCofactor(AddPoints(R, MulPoint(A, k)))
            = Multiple(4, Sum(R, MulPoint(A, k)))
      BY <2>1, <2>5, CurveMathAssumption DEF MultiplyByCofactor, MathematicsLaws
    <3>2. Multiple(4, MulPoint(A, k)) = Multiple(4 * k, A)
      BY <2>1, <2>3, <2>5, CurveMathAssumption DEF MathematicsLaws
    <3> QED
      BY <2>1, <2>5, <3>1, <3>2, CurveMathAssumption DEF MathematicsLaws
  <2>8. Draft!Accepts(H, a.public_key, a.message, a.signature)
          <=> Multiple(4 * s, BasePoint)
                = Sum(Multiple(4, R), Multiple(4 * k, A))
    BY <1>2, <1>4, <2>3 DEF Draft!Accepts, e, s, A, R
  <2> QED
    BY <1>4, <2>2, <2>4, <2>6, <2>7, <2>8 DEF e
<1> QED
  BY <1>3, <1>4

-----------------------------------------------------------------------------
(* Outcomes, and the refinement.                                           *)

LEMMA OutcomesAgree ==
  ASSUME NEW H, \A t \in DOMAIN H : H[t] \in Digests,
         NEW a \in Calls, NEW o, HashAsked(H, a), Computed(H, a, o)
  PROVE  Draft!Asked(H, a) /\ o = Draft!Outcome(H, a)
<1> DEFINE seed == a.seed.value
           m == a.message
<1>1. \A t \in DOMAIN H : H[t] \in Digests
  OBVIOUS
<1>2. CASE a \in SignCalls \cup KeyCalls /\ ~a.seed.some
  <2>1. a.op \in {"sign", "verifying_key"}
    BY <1>2 DEF SignCalls, KeyCalls
  <2>2. Draft!Outcome(H, a) = [error |-> "InvalidSeedLength"]
    BY <1>2, <2>1 DEF Draft!Outcome
  <2> QED
    BY <1>2, <2>1, <2>2 DEF Computed, Draft!Asked
<1>3. CASE a \in SignCalls /\ a.seed.some
  <2>1. a.op = "sign"
    BY <1>3 DEF SignCalls
  <2>2. /\ SeedTranscript(seed) \in DOMAIN H
        /\ NonceAsked(H, seed, m) \in DOMAIN H
        /\ ChallengeAsked(H, seed, m) \in DOMAIN H
    BY <1>3 DEF HashAsked
  <2>3. o = [signature |-> SignatureOf(H, seed, m)]
    BY <1>3 DEF Computed
  <2>4. Draft!Outcome(H, a)
          = [signature |-> Draft!SignatureOf(H, seed, m)]
    BY <1>3, <2>1 DEF Draft!Outcome
  <2> HIDE DEF seed, m
  <2>5. SignatureOf(H, seed, m) = Draft!SignatureOf(H, seed, m)
    BY <1>1, <2>2, SignaturesComputedAgree
  <2>6. /\ NonceAsked(H, seed, m) = Draft!NonceInput(H, seed, m)
        /\ ChallengeAsked(H, seed, m)
             = Draft!ChallengeInput(Draft!Renc(H, seed, m),
                                    Draft!PublicKey(H, seed), m)
    BY <1>1, <2>2, CommitmentsAgree
  <2>7. Draft!Asked(H, a)
    BY <2>1, <2>2, <2>6 DEF Draft!Asked, SeedTranscript, seed, m
  <2> QED
    BY <2>3, <2>4, <2>5, <2>7
<1>4. CASE a \in KeyCalls /\ a.seed.some
  <2>1. a.op = "verifying_key"
    BY <1>4 DEF KeyCalls
  <2>2. SeedTranscript(seed) \in DOMAIN H
    BY <1>4 DEF HashAsked
  <2>3. o = [public_key |-> KeyOf(H, seed)]
    BY <1>4 DEF Computed
  <2>4. Draft!Outcome(H, a)
          = [public_key |-> Draft!PublicKey(H, seed)]
    BY <1>4, <2>1 DEF Draft!Outcome
  <2> HIDE DEF seed, m
  <2>5. KeyOf(H, seed) = Draft!PublicKey(H, seed)
    BY <1>1, <2>2, KeysComputedAgree
  <2>6. Draft!Asked(H, a)
    BY <2>1, <2>2 DEF Draft!Asked, SeedTranscript, seed
  <2> QED
    BY <2>3, <2>4, <2>5, <2>6
<1>5. CASE a \in ValidateCalls
  <2>1. a.op = "validate_public_key" /\ a.public_key \in KeyStrings
    BY <1>5 DEF ValidateCalls
  <2>2. o = [valid |-> ParseKey(a.public_key).some]
    BY <1>5 DEF Computed
  <2>3. Draft!Outcome(H, a) = [valid |-> Draft!ValidKey(a.public_key)]
    BY <2>1 DEF Draft!Outcome
  <2>4. ParseKey(a.public_key).some = Draft!ValidKey(a.public_key)
    <3>1. ParseKey(a.public_key).some \in BOOLEAN
      BY OptionFields DEF ParseKey, Some, None
    <3>2. Draft!ValidKey(a.public_key) \in BOOLEAN
      BY DEF Draft!ValidKey
    <3> QED
      BY <2>1, <3>1, <3>2, KeysAgree
  <2> QED
    BY <2>1, <2>2, <2>3, <2>4 DEF Draft!Asked
<1>6. CASE a \in VerifyCalls
  <2> DEFINE accepted == Draft!Accepts(H, a.public_key, a.message,
                                       a.signature)
  <2>1. a.op = "verify" /\ a.public_key \in KeyStrings
        /\ a.signature \in SignatureStrings
    BY <1>6 DEF VerifyCalls
  <2>2. o = [valid |-> Parses(a) /\ Verifies(H, a)]
    BY <1>6 DEF Computed
  <2>3. Draft!Outcome(H, a) = [valid |-> accepted]
    BY <2>1 DEF Draft!Outcome
  <2>4. Parses(a) => CheckAsked(a) \in DOMAIN H
    BY <1>6 DEF HashAsked
  <2>5. Parses(a) => H[CheckAsked(a)] \in Digests
    BY <1>1, <2>4
  <2>6. Parses(a) /\ Verifies(H, a) <=> accepted
    BY <1>6, <2>5, VerifiersAgree
  <2>7. (Parses(a) /\ Verifies(H, a)) = accepted
    <3>1. accepted \in BOOLEAN
      BY DEF Draft!Accepts
    <3> HIDE DEF accepted
    <3> QED
      BY <2>6, <3>1
  <2>8. Draft!Asked(H, a)
    <3>1. Parses(a) <=> Draft!ValidKey(a.public_key)
                        /\ Draft!ParsedSignature(a.signature)
      BY <2>1, KeysAgree, SignaturesAgree DEF Parses
    <3>2. Parses(a) => CheckAsked(a)
            = Draft!ChallengeInput(a.signature.value[1],
                                   a.public_key.value, a.message)
      BY <1>6, <2>5, VerifiersAgree
    <3> QED
      BY <2>1, <2>4, <3>1, <3>2 DEF Draft!Asked
  <2> HIDE DEF accepted
  <2> QED
    BY <2>2, <2>3, <2>7, <2>8
<1> QED
  BY <1>2, <1>3, <1>4, <1>5, <1>6 DEF Calls

(* No step takes back an answer of the hash, or of a call.                 *)
LEMMA StepsOnlyAdd ==
  ASSUME IInv, Next
  PROVE  OracleGrows /\ returned \subseteq returned'
<1>1. PICK c \in Callers :
        \/ BeginSign(c) \/ BeginVerifyingKey(c)
        \/ ValidatePublicKey(c) \/ BeginVerify(c)
        \/ Derive(c) \/ Export(c)
        \/ Commit(c) \/ Respond(c) \/ SelfCheck(c)
        \/ CheckEquation(c)
  BY DEF Next
<1>2. ASSUME NEW t, NEW d \in Digests, Hash(t, d)
      PROVE  OracleGrows
  BY <1>2, HashGrows DEF IInv
<1>3. ASSUME UNCHANGED oracle
      PROVE  OracleGrows
  BY <1>3, OracleUnchanged DEF IInv
<1>4. ASSUME NEW o, Return(c, o)
      PROVE  returned \subseteq returned'
  BY <1>4 DEF Return
<1>5. ASSUME NEW a, BeginWithSeed(c, a) \/ BeginWithInputs(c, a)
      PROVE  OracleGrows /\ returned \subseteq returned'
  BY <1>3, <1>5 DEF BeginWithSeed, BeginWithInputs, Enter, ReturnAtOnce
<1>6. CASE BeginSign(c) \/ BeginVerifyingKey(c) \/ BeginVerify(c)
  BY <1>5, <1>6 DEF BeginSign, BeginVerifyingKey, BeginVerify
<1>7. CASE ValidatePublicKey(c)
  BY <1>3, <1>7 DEF ValidatePublicKey, ReturnAtOnce
<1>8. CASE Derive(c)
  BY <1>2, <1>4, <1>8 DEF Derive
<1>9. CASE Export(c)
  BY <1>3, <1>4, <1>9 DEF Export
<1>10. CASE Commit(c)
  BY <1>2, <1>4, <1>10 DEF Commit
<1>11. CASE Respond(c)
  BY <1>2, <1>11 DEF Respond
<1>12. CASE SelfCheck(c)
  BY <1>2, <1>3, <1>4, <1>12 DEF SelfCheck
<1>13. CASE CheckEquation(c)
  BY <1>2, <1>4, <1>13 DEF CheckEquation
<1> QED
  BY <1>1, <1>6, <1>7, <1>8, <1>9, <1>10, <1>11, <1>12, <1>13

LEMMA RefinesInit == Init => Draft!Init
  BY DEF Init, Draft!Init

(* Every step of the crate is a step of the draft, or changes nothing of   *)
(* what the draft speaks of.                                               *)
LEMMA RefinesNext ==
  ASSUME IInv, IInv', DInv, DInv', [Next]_vars
  PROVE  [Draft!Next]_(Draft!vars)
<1>1. CASE Next
  <2>1. OracleGrows /\ returned \subseteq returned'
    BY <1>1, StepsOnlyAdd
  <2>2. Draft!Remembers
    BY <2>1 DEF OracleGrows, Draft!Remembers
  <2>3. ASSUME NEW r \in returned'
        PROVE  Draft!Asked(oracle', r.call)
               /\ r.outcome = Draft!Outcome(oracle', r.call)
    <3>1. /\ r.call \in Calls
          /\ HashAsked(oracle', r.call)
          /\ Computed(oracle', r.call, r.outcome)
      BY DEF DInv, Answered
    <3>2. \A t \in DOMAIN oracle' : oracle'[t] \in Digests
      BY DEF IInv, TypeOK
    <3> QED
      BY <3>1, <3>2, OutcomesAgree
  <2> QED
    BY <2>1, <2>2, <2>3 DEF Draft!Next
<1>2. CASE UNCHANGED vars
  BY <1>2 DEF vars, Draft!vars
<1> QED
  BY <1>1, <1>2

(* The crate implements the draft: for every hash, any callers and any     *)
(* interleaving of their calls, on every curve the assumptions describe,   *)
(* each call returns what the draft's equations say, byte for byte.        *)
THEOREM CrateImplementsDraft == Spec => ImplementsDraft
<1>1. Init => Draft!Init
  BY RefinesInit
<1>2. /\ IInv /\ DInv /\ (IInv /\ DInv)' /\ [Next]_vars
      => [Draft!Next]_(Draft!vars)
  BY RefinesNext
<1> QED
  BY <1>1, <1>2, OutcomesComputed, PTL DEF Spec, ImplementsDraft, Draft!Spec

-----------------------------------------------------------------------------
(* The two programs of KnownAnswers, for every literal they may hold: no   *)
(* call they make fails, every call returns what the draft says, and they  *)
(* succeed on the draft's vectors and on no others.                        *)

(* The statements of the two programs.                                     *)

CallStatements == {"verifying_key", "sign", "verify"}

(* They are literals.                                                      *)
LEMMA StatementTable ==
  /\ Len(Statements["downstream"]) = 5 /\ Len(Statements["vectors"]) = 13
  /\ DOMAIN Statements["downstream"] = 1 .. 5
  /\ DOMAIN Statements["vectors"] = 1 .. 13
  /\ Statements["downstream"][1] = "verifying_key"
  /\ Statements["downstream"][2] = "sign"
  /\ Statements["downstream"][3] = "public_key"
  /\ Statements["downstream"][4] = "signature"
  /\ Statements["downstream"][5] = "verify"
  /\ Statements["vectors"][1] = "expand_seed"
  /\ Statements["vectors"][2] = "nonce_hash"
  /\ Statements["vectors"][3] = "challenge_hash"
  /\ Statements["vectors"][4] = "intermediates"
  /\ Statements["vectors"][5] = "public_key"
  /\ Statements["vectors"][6] = "signature"
  /\ Statements["vectors"][7] = "verifying_key"
  /\ Statements["vectors"][8] = "public_key"
  /\ Statements["vectors"][9] = "sign"
  /\ Statements["vectors"][10] = "signature"
  /\ Statements["vectors"][11] = "verify"
  /\ Statements["vectors"][12] = "sign"
  /\ Statements["vectors"][13] = "signature"
  BY DEF Statements

(* Which lines hash inside trace, and from which line on a value is known, *)
(* compared or passed to a verification.                                   *)
LEMMA StatementLines ==
  ASSUME program \in {"downstream", "vectors"},
         line \in 1 .. Len(Statements[program])
  PROVE  /\ Statement \in {"expand_seed", "nonce_hash", "challenge_hash"} =>
              program = "vectors" /\ line \in 1 .. 3
         /\ Statement = "expand_seed" => line = 1
         /\ Statement = "nonce_hash" => line = 2
         /\ Statement = "challenge_hash" => line = 3
         /\ program = "vectors" /\ line \in 1 .. 3 =>
              Statement \in {"expand_seed", "nonce_hash", "challenge_hash"}
         /\ Statement \in Compared => line > 2
         /\ Statement \in Compared /\ program = "vectors" => line > 3
         /\ Statement = "intermediates" => program = "vectors"
         /\ Statement \in CallStatements /\ program = "vectors" => line > 6
         /\ Statement = "verifying_key" /\ program = "downstream" => line = 1
         /\ Statement = "sign" /\ program = "downstream" => line = 2
         /\ Statement = "verify" => line > 4
         /\ Statement \in CallStatements => Statement \notin Compared
<1>1. CASE program = "downstream"
  <2>1. line \in 1 .. 5
    BY <1>1, StatementTable
  <2>2. \/ line = 1 /\ Statement = "verifying_key"
        \/ line = 2 /\ Statement = "sign"
        \/ line = 3 /\ Statement = "public_key"
        \/ line = 4 /\ Statement = "signature"
        \/ line = 5 /\ Statement = "verify"
    BY <1>1, <2>1, StatementTable DEF Statement
  <2> QED
    BY <1>1, <2>2 DEF Compared, CallStatements
<1>2. CASE program = "vectors"
  <2>1. line \in 1 .. 13
    BY <1>2, StatementTable
  <2>2. \/ line = 1 /\ Statement = "expand_seed"
        \/ line = 2 /\ Statement = "nonce_hash"
        \/ line = 3 /\ Statement = "challenge_hash"
        \/ line = 4 /\ Statement = "intermediates"
        \/ line \in {5, 8} /\ Statement = "public_key"
        \/ line \in {6, 10, 13} /\ Statement = "signature"
        \/ line = 7 /\ Statement = "verifying_key"
        \/ line \in {9, 12} /\ Statement = "sign"
        \/ line = 11 /\ Statement = "verify"
    BY <1>2, <2>1, StatementTable DEF Statement
  <2> QED
    BY <1>2, <2>2 DEF Compared, CallStatements
<1> QED
  BY <1>1, <1>2

-----------------------------------------------------------------------------
(* The inductive invariant.                                                *)

(* The transcripts of the case that the hash has been asked.               *)
SeedHashed(H) == SeedTranscript(input.seed) \in DOMAIN H
NonceHashed(H) == NonceAsked(H, input.seed, input.message) \in DOMAIN H
ChallengeHashed(H) ==
  ChallengeAsked(H, input.seed, input.message) \in DOMAIN H
AllHashed(H) == SeedHashed(H) /\ NonceHashed(H) /\ ChallengeHashed(H)

(* Control, and the types of what the program holds.                       *)
ControlOK ==
  /\ program \in {"downstream", "vectors"}
  /\ input.seed \in Seeds /\ input.message \in Messages
  /\ line \in 1 .. Len(Statements[program])
  /\ status \in {"running", "calling", "exited", "panicked"}
  /\ status = "calling" => Statement \in CallStatements
  /\ status # "calling" => pc[Main] = "idle"
  /\ status = "exited" => line = Len(Statements[program])
  /\ actual = [name \in Compared |-> actual[name]]
  /\ expected = [name \in Compared |-> expected[name]]

(* What the hash has been asked before each line.                          *)
HashedOK ==
  /\ line > 1 => SeedHashed(oracle)
  /\ line > 2 => NonceHashed(oracle)
  /\ line > 3 \/ (program = "downstream" /\ line > 2) =>
       ChallengeHashed(oracle)

(* The lines at which the program holds an answer of the crate.            *)
Known(name) ==
  IF program = "vectors" THEN line > 3
  ELSE \/ name = "public_key" /\ line > 1
       \/ name = "signature" /\ line > 2

(* An answer it holds is the one the trace computes, whichever call gave   *)
(* it.                                                                     *)
ActualOK ==
  \A name \in Compared : Known(name) => actual[name] = Trace(oracle)[name]

(* A literal that has been compared is what the crate answers, until one   *)
(* is not.                                                                 *)
ExpectedOK ==
  status # "panicked" =>
    \A n \in 1 .. Len(Statements[program]) :
      LET name == Statements[program][n]
      IN  name \in Compared /\ (n < line \/ status = "exited") =>
            expected[name] = Trace(oracle)[name]

(* A panic is a literal's fault.                                           *)
PanicOK ==
  status = "panicked" =>
    /\ AllHashed(oracle)
    /\ \E name \in Literals :
         /\ expected[name] # NoValue
         /\ expected[name] # Trace(oracle)[name]

KInv ==
  /\ IInv /\ DInv
  /\ ControlOK /\ HashedOK /\ ActualOK /\ ExpectedOK /\ PanicOK

-----------------------------------------------------------------------------
(* The trace of the test and the draft.                                    *)

(* What the test computes in its own way is what a call computes.          *)
LEMMA TraceIsComputed ==
  ASSUME NEW H, H[SeedTranscript(input.seed)] \in Digests
  PROVE  /\ TracedKey(H) = KeyOf(H, input.seed)
         /\ TracedPrefix(H) = PrefixOf(H, input.seed)
         /\ TracedNonceHash(H) = H[NonceAsked(H, input.seed, input.message)]
         /\ TracedCommitment(H)
              = CommitmentOf(H, input.seed, input.message)
         /\ TracedChallengeTranscript(H)
              = ChallengeAsked(H, input.seed, input.message)
         /\ Trace(H).public_key = KeyOf(H, input.seed)
         /\ Trace(H).signature
              = SignatureOf(H, input.seed, input.message)
<1> DEFINE seed == input.seed
           m == input.message
           e == H[SeedTranscript(seed)][1]
<1>1. e \in Encoding
  BY DigestReduces
<1>2. /\ Prune(e) \in 0 .. 2 * TopBit - 1
      /\ SecretOf(H, seed) = Prune(e) % L
  BY <1>1, PrunedScalarIsNotZero DEF SecretOf, ReducePruned
<1>3. MulPoint(BasePoint, Prune(e)) = MulPoint(BasePoint, SecretOf(H, seed))
  BY <1>2, GroupAssumption DEF GroupLaws
<1>4. TracedKey(H) = KeyOf(H, seed)
  BY <1>3 DEF TracedKey, KeyOf
<1>5. TracedPrefix(H) = PrefixOf(H, seed)
  BY DEF TracedPrefix, PrefixOf
<1>6. TracedNonceHash(H) = H[NonceAsked(H, seed, m)]
  BY <1>5 DEF TracedNonceHash, NonceAsked
<1>7. TracedCommitment(H) = CommitmentOf(H, seed, m)
  BY <1>6 DEF TracedCommitment, CommitmentOf, NonceOf
<1>8. TracedChallengeTranscript(H) = ChallengeAsked(H, seed, m)
  BY <1>4, <1>7 DEF TracedChallengeTranscript, ChallengeAsked
<1>9. Trace(H).public_key = TracedKey(H)
  BY DEF Trace
<1>10. Trace(H).signature
         = <<TracedCommitment(H),
             ScalarAdd(ReduceHash(TracedNonceHash(H)),
                       ScalarMul(ReduceHash(H[TracedChallengeTranscript(H)]),
                                 ReducePruned(Prune(e))))>>
  BY DEF Trace
<1>11. Trace(H).signature = SignatureOf(H, seed, m)
  BY <1>6, <1>7, <1>8, <1>10
  DEF SignatureOf, ResponseOf, NonceOf, SecretOf
<1> QED
  BY <1>4, <1>5, <1>6, <1>7, <1>8, <1>9, <1>11

(* It is what the draft computes.                                          *)
LEMMA TraceIsDraft ==
  ASSUME NEW H, AllHashed(H), \A t \in DOMAIN H : H[t] \in Digests,
         NEW name \in Compared
  PROVE  DraftAnswers(H)[name] = Trace(H)[name]
<1> DEFINE seed == input.seed
           m == input.message
           R == Draft!Renc(H, seed, m)
           A == Draft!PublicKey(H, seed)
           e == H[SeedTranscript(seed)]
<1>1. /\ H[SeedTranscript(seed)] \in Digests
      /\ H[NonceAsked(H, seed, m)] \in Digests
      /\ H[ChallengeAsked(H, seed, m)] \in Digests
  BY DEF AllHashed, SeedHashed, NonceHashed, ChallengeHashed
<1>2. /\ KeyOf(H, seed) = A /\ PrefixOf(H, seed) = Draft!Prefix(H, seed)
      /\ NonceAsked(H, seed, m) = Draft!NonceInput(H, seed, m)
      /\ NonceOf(H, seed, m) = Draft!Nonce(H, seed, m)
      /\ CommitmentOf(H, seed, m) = R
      /\ ChallengeAsked(H, seed, m) = Draft!ChallengeInput(R, A, m)
      /\ SignatureOf(H, seed, m) = Draft!SignatureOf(H, seed, m)
  BY <1>1, KeysComputedAgree, CommitmentsAgree, SignaturesComputedAgree
<1>3. SeedTranscript(seed) = <<seed>>
  BY DEF SeedTranscript
<1>4. Draft!Asked(H, [op |-> "sign", seed |-> Some(seed), message |-> m])
  BY <1>2, <1>3, OptionFields
  DEF Draft!Asked, AllHashed, SeedHashed, NonceHashed, ChallengeHashed
<1>5. Prune(e[1]) = Draft!SecretScalar(H, seed)
  BY <1>1, <1>3, DigestReduces, PruneIsSecretScalar DEF Draft!SecretScalar
<1>6. ReduceHash(H[ChallengeAsked(H, seed, m)])
        = Draft!Challenge(H, R, A, m)
  BY <1>2 DEF ReduceHash, Draft!Challenge, Draft!ScalarOf,
              EncodingSpace, Draft!EncodingSpace
<1>7. SignatureOf(H, seed, m)[2] = Trace(H).signature[2]
  BY <1>1, TraceIsComputed
<1>8. Trace(H).intermediates
        = << e, Prune(e[1]), TracedPrefix(H), TracedNonceHash(H),
             ReduceHash(TracedNonceHash(H)), TracedCommitment(H),
             H[TracedChallengeTranscript(H)],
             ReduceHash(H[TracedChallengeTranscript(H)]),
             Trace(H).signature[2] >>
  BY DEF Trace
<1>9. /\ DraftAnswers(H).intermediates
           = << H[<<seed>>], Draft!SecretScalar(H, seed),
                Draft!Prefix(H, seed), H[Draft!NonceInput(H, seed, m)],
                Draft!Nonce(H, seed, m), R, H[Draft!ChallengeInput(R, A, m)],
                Draft!Challenge(H, R, A, m),
                Draft!SignatureOf(H, seed, m)[2] >>
      /\ DraftAnswers(H).public_key = A
      /\ DraftAnswers(H).signature = Draft!SignatureOf(H, seed, m)
  BY <1>4 DEF DraftAnswers
<1>10. DraftAnswers(H).intermediates = Trace(H).intermediates
  BY <1>1, <1>2, <1>3, <1>5, <1>6, <1>7, <1>8, <1>9, TraceIsComputed
  DEF NonceOf
<1>11. /\ DraftAnswers(H).public_key = Trace(H).public_key
       /\ DraftAnswers(H).signature = Trace(H).signature
  BY <1>1, <1>2, <1>9, TraceIsComputed
<1> QED
  BY <1>10, <1>11 DEF Compared

(* The hash only grows, so what was traced stays traced.                   *)
LEMMA TraceStable ==
  ASSUME OracleGrows
  PROVE  /\ SeedHashed(oracle) => SeedHashed(oracle')
         /\ SeedHashed(oracle) /\ NonceHashed(oracle) => NonceHashed(oracle')
         /\ AllHashed(oracle) => AllHashed(oracle')
         /\ SeedHashed(oracle) =>
              Trace(oracle').public_key = Trace(oracle).public_key
         /\ AllHashed(oracle) =>
              \A name \in Compared : Trace(oracle')[name] = Trace(oracle)[name]
<1>1. ASSUME SeedHashed(oracle)
      PROVE  /\ SeedHashed(oracle')
             /\ oracle'[SeedTranscript(input.seed)]
                  = oracle[SeedTranscript(input.seed)]
             /\ TracedKey(oracle') = TracedKey(oracle)
             /\ TracedPrefix(oracle') = TracedPrefix(oracle)
  BY <1>1 DEF OracleGrows, SeedHashed, TracedKey, TracedPrefix
<1>2. /\ Trace(oracle).public_key = TracedKey(oracle)
      /\ Trace(oracle').public_key = TracedKey(oracle')
  BY DEF Trace
<1>3. ASSUME SeedHashed(oracle), NonceHashed(oracle)
      PROVE  /\ NonceHashed(oracle')
             /\ TracedNonceHash(oracle') = TracedNonceHash(oracle)
  <2>1. NonceAsked(oracle, input.seed, input.message)
          = NonceTranscript(TracedPrefix(oracle), input.message)
    BY DEF NonceAsked, PrefixOf, TracedPrefix
  <2>2. NonceAsked(oracle', input.seed, input.message)
          = NonceTranscript(TracedPrefix(oracle'), input.message)
    BY DEF NonceAsked, PrefixOf, TracedPrefix
  <2> QED
    BY <1>1, <1>3, <2>1, <2>2
    DEF OracleGrows, NonceHashed, TracedNonceHash
<1>4. ASSUME AllHashed(oracle)
      PROVE  /\ AllHashed(oracle')
             /\ \A name \in Compared :
                  Trace(oracle')[name] = Trace(oracle)[name]
  <2>1. SeedHashed(oracle) /\ NonceHashed(oracle) /\ ChallengeHashed(oracle)
    BY <1>4 DEF AllHashed
  <2>2. TracedCommitment(oracle') = TracedCommitment(oracle)
    BY <1>3, <2>1 DEF TracedCommitment
  <2>3. TracedChallengeTranscript(oracle') = TracedChallengeTranscript(oracle)
    BY <1>1, <2>1, <2>2 DEF TracedChallengeTranscript
  <2>4. /\ oracle[SeedTranscript(input.seed)] \in Digests
        /\ oracle'[SeedTranscript(input.seed)] \in Digests
    BY <1>1, <2>1 DEF OracleGrows, SeedHashed
  <2>5. /\ TracedChallengeTranscript(oracle)
             = ChallengeAsked(oracle, input.seed, input.message)
        /\ TracedChallengeTranscript(oracle')
             = ChallengeAsked(oracle', input.seed, input.message)
    BY <2>4, TraceIsComputed
  <2>6. /\ ChallengeHashed(oracle')
        /\ oracle'[TracedChallengeTranscript(oracle')]
             = oracle[TracedChallengeTranscript(oracle)]
    BY <2>1, <2>3, <2>5 DEF OracleGrows, ChallengeHashed
  <2>7. Trace(oracle') = Trace(oracle)
    BY <1>1, <1>3, <2>1, <2>2, <2>3, <2>6 DEF Trace
  <2> QED
    BY <1>1, <1>3, <2>1, <2>6, <2>7 DEF AllHashed
<1> QED
  BY <1>1, <1>2, <1>3, <1>4

(* Up to the challenge.                                                    *)
LEMMA TracesStay ==
  ASSUME OracleGrows, SeedHashed(oracle), NonceHashed(oracle)
  PROVE  /\ TracedKey(oracle') = TracedKey(oracle)
         /\ TracedCommitment(oracle') = TracedCommitment(oracle)
         /\ SeedHashed(oracle') /\ NonceHashed(oracle')
<1>1. /\ SeedHashed(oracle')
      /\ TracedKey(oracle') = TracedKey(oracle)
      /\ TracedPrefix(oracle') = TracedPrefix(oracle)
  BY DEF OracleGrows, SeedHashed, TracedKey, TracedPrefix
<1>2. /\ NonceAsked(oracle, input.seed, input.message)
           = NonceTranscript(TracedPrefix(oracle), input.message)
      /\ NonceAsked(oracle', input.seed, input.message)
           = NonceTranscript(TracedPrefix(oracle'), input.message)
  BY DEF NonceAsked, PrefixOf, TracedPrefix
<1>3. /\ NonceHashed(oracle')
      /\ TracedNonceHash(oracle') = TracedNonceHash(oracle)
  BY <1>1, <1>2 DEF OracleGrows, NonceHashed, TracedNonceHash
<1> QED
  BY <1>1, <1>3 DEF TracedCommitment

(* A trace names what is compared.                                         *)
LEMMA TraceNames ==
  ASSUME NEW H
  PROVE  Trace(H) = [name \in Compared |-> Trace(H)[name]]
  BY DEF Trace, Compared

-----------------------------------------------------------------------------
(* What every step of a program does.                                      *)

(* The thread is one of the callers.                                       *)
LEMMA MainCalls == Main \in Callers
  BY ProgramAssumption DEF Main

(* The case does not change.                                               *)
LEMMA SameCase ==
  ASSUME input' = input
  PROVE  /\ SeedHashed(oracle)' <=> SeedHashed(oracle')
         /\ NonceHashed(oracle)' <=> NonceHashed(oracle')
         /\ ChallengeHashed(oracle)' <=> ChallengeHashed(oracle')
         /\ AllHashed(oracle)' <=> AllHashed(oracle')
         /\ Trace(oracle)' = Trace(oracle')
  BY DEF SeedHashed, NonceHashed, ChallengeHashed, AllHashed, Trace,
         TracedKey, TracedPrefix, TracedNonceHash, TracedCommitment,
         TracedChallengeTranscript

(* A statement that is done is followed by the next, or by the end.        *)
LEMMA Advancing ==
  ASSUME ControlOK, Advance
  PROVE  \/ status' = "exited" /\ line' = line
            /\ line = Len(Statements[program])
         \/ status' = "running" /\ line' = line + 1
            /\ line + 1 \in 1 .. Len(Statements[program])
<1>1. Len(Statements[program]) \in Nat
  BY StatementTable DEF ControlOK
<1> QED
  BY <1>1 DEF ControlOK, Advance

(* No comparison comes before the calls or the trace it compares.          *)
LEMMA Lines ==
  ASSUME ControlOK
  PROVE  /\ line \in 1 .. Len(Statements[program])
         /\ Len(Statements[program]) \in {5, 13}
         /\ DOMAIN Statements[program] = 1 .. Len(Statements[program])
         /\ \A n \in 1 .. Len(Statements[program]) :
              Statements[program][n] \in Compared =>
                n > 2 /\ (program = "vectors" => n > 3)
<1>1. ASSUME NEW n \in 1 .. Len(Statements[program]),
             Statements[program][n] \in Compared
      PROVE  n > 2 /\ (program = "vectors" => n > 3)
  <2>1. CASE program = "downstream"
    BY <1>1, <2>1, StatementTable DEF Compared
  <2>2. CASE program = "vectors"
    BY <1>1, <2>2, StatementTable DEF Compared
  <2> QED
    BY <2>1, <2>2 DEF ControlOK
<1> QED
  BY <1>1, StatementTable DEF ControlOK

(* An answer known before a step is known after it.                        *)
LEMMA KnownStays ==
  ASSUME ControlOK, HashedOK, ActualOK, OracleGrows,
         NEW name \in Compared, Known(name)
  PROVE  actual[name] = Trace(oracle')[name]
<1>1. actual[name] = Trace(oracle)[name]
  BY DEF ActualOK
<1>2. CASE name = "public_key"
  <2>1. line > 1
    BY <1>2, Lines DEF Known
  <2> QED
    BY <1>1, <1>2, <2>1, TraceStable DEF HashedOK
<1>3. CASE name # "public_key"
  <2>1. \/ program = "vectors" /\ line > 3
        \/ program = "downstream" /\ line > 2
    BY <1>3 DEF Known, ControlOK
  <2>2. AllHashed(oracle)
    BY <2>1, Lines DEF HashedOK, AllHashed
  <2> QED
    BY <1>1, <2>2, TraceStable
<1> QED
  BY <1>2, <1>3

(* A step that compares nothing leaves the literals what they were.        *)
LEMMA ExpectedKeeps ==
  ASSUME ControlOK, HashedOK, ExpectedOK, OracleGrows,
         UNCHANGED <<program, input, expected>>, status # "panicked",
         Statement \notin Compared,
         \/ status' = "exited" /\ line' = line
            /\ line = Len(Statements[program])
         \/ status' \in {"running", "calling"} /\ line' \in {line, line + 1}
  PROVE  ExpectedOK'
<1> SUFFICES ASSUME NEW n \in 1 .. Len(Statements[program]),
                    Statements[program][n] \in Compared,
                    n < line' \/ status' = "exited"
             PROVE  expected[Statements[program][n]]
                      = Trace(oracle')[Statements[program][n]]
  BY SameCase DEF ExpectedOK
<1>1. n < line
  <2>1. n # line
    BY DEF Statement
  <2> QED
    BY <2>1, Lines
<1>2. AllHashed(oracle)
  BY <1>1, Lines DEF HashedOK, AllHashed
<1>3. expected[Statements[program][n]] = Trace(oracle)[Statements[program][n]]
  BY <1>1 DEF ExpectedOK
<1> QED
  BY <1>2, <1>3, TraceStable

-----------------------------------------------------------------------------
(* One lemma per action.                                                   *)

LEMMA HashKeeps ==
  ASSUME KInv, HashInTrace
  PROVE  KInv' /\ OracleGrows /\ returned' = returned
<1> USE DEF KInv
<1>1. PICK digest \in Digests :
        \/ /\ Statement = "expand_seed"
           /\ Hash(SeedTranscript(input.seed), digest)
           /\ UNCHANGED actual
        \/ /\ Statement = "nonce_hash"
           /\ Hash(NonceTranscript(TracedPrefix(oracle), input.message),
                   digest)
           /\ UNCHANGED actual
        \/ /\ Statement = "challenge_hash"
           /\ Hash(TracedChallengeTranscript(oracle), digest)
           /\ actual' = Trace(oracle')
  BY DEF HashInTrace
<1>2. /\ UNCHANGED <<pc, call, frame, returned, begun>>
      /\ UNCHANGED <<program, input, expected>>
      /\ status = "running" /\ Advance
  BY DEF HashInTrace
<1>3. program = "vectors" /\ line \in 1 .. 3
  BY <1>1, StatementLines DEF ControlOK
<1>4. status' = "running" /\ line' = line + 1
      /\ line' \in 1 .. Len(Statements[program])
  BY <1>2, <1>3, Advancing, StatementTable
<1>5. OracleGrows
  BY <1>1, HashGrows DEF IInv
<1>6. IInv' /\ DInv'
  <2>1. OnlyCaller(Main) /\ OthersUntouched(Main)
    BY <1>2 DEF IInv, TypeOK, frame, OnlyCaller, OthersUntouched
  <2>2. pc'[Main] = "idle"
    BY <1>2 DEF ControlOK
  <2>3. FrameTypeOK(Main)' /\ FrameConsistent(Main)' /\ FrameDetermined(Main)'
    BY <2>2, MainCalls DEF FrameTypeOK, FrameConsistent, FrameDetermined
  <2>4. NoInternalFailure'
    BY <1>2 DEF IInv, NoInternalFailure
  <2>5. Answered'
    BY <1>2, <1>5, NothingReturned
  <2> QED
    BY <1>5, <2>1, <2>3, <2>4, <2>5, MainCalls, OneCallerStep,
       OneCallerDetermined
<1>7. Statement \notin Compared
  BY <1>3, StatementLines DEF ControlOK
<1>8. \/ line = 1 /\ SeedHashed(oracle')
      \/ line = 2 /\ SeedHashed(oracle') /\ NonceHashed(oracle')
      \/ line = 3 /\ AllHashed(oracle') /\ actual' = Trace(oracle')
  <2>1. CASE Statement = "expand_seed"
    <3>1. line = 1 /\ Hash(SeedTranscript(input.seed), digest)
      BY <1>1, <2>1, StatementLines DEF ControlOK
    <3> QED
      BY <3>1, HashGrows DEF IInv, SeedHashed
  <2>2. CASE Statement = "nonce_hash"
    <3>1. line = 2
          /\ Hash(NonceTranscript(TracedPrefix(oracle), input.message), digest)
      BY <1>1, <2>2, StatementLines DEF ControlOK
    <3>2. SeedHashed(oracle)
      BY <3>1 DEF HashedOK
    <3>3. NonceAsked(oracle', input.seed, input.message)
            = NonceTranscript(TracedPrefix(oracle), input.message)
      BY <1>5, <3>2
      DEF OracleGrows, SeedHashed, NonceAsked, PrefixOf, TracedPrefix
    <3> QED
      BY <1>5, <3>1, <3>2, <3>3, HashGrows, TraceStable DEF IInv, NonceHashed
  <2>3. CASE Statement = "challenge_hash"
    <3>1. /\ line = 3 /\ Hash(TracedChallengeTranscript(oracle), digest)
          /\ actual' = Trace(oracle')
      BY <1>1, <2>3, StatementLines DEF ControlOK
    <3>2. SeedHashed(oracle) /\ NonceHashed(oracle)
      BY <3>1 DEF HashedOK
    <3>3. /\ TracedKey(oracle') = TracedKey(oracle)
          /\ TracedCommitment(oracle') = TracedCommitment(oracle)
          /\ SeedHashed(oracle') /\ NonceHashed(oracle')
      BY <1>5, <3>2, TracesStay
    <3>4. TracedChallengeTranscript(oracle')
            = TracedChallengeTranscript(oracle)
      BY <3>3 DEF TracedChallengeTranscript
    <3>5. oracle'[SeedTranscript(input.seed)] \in Digests
      BY <1>5, <3>3 DEF OracleGrows, SeedHashed
    <3>6. TracedChallengeTranscript(oracle')
            = ChallengeAsked(oracle', input.seed, input.message)
      BY <3>5, TraceIsComputed
    <3>7. ChallengeHashed(oracle')
      BY <3>1, <3>4, <3>6, HashGrows DEF IInv, ChallengeHashed
    <3> QED
      BY <3>1, <3>3, <3>7 DEF AllHashed
  <2> QED
    BY <1>1, <2>1, <2>2, <2>3
<1>9. HashedOK'
  BY <1>2, <1>3, <1>4, <1>8, SameCase DEF HashedOK, AllHashed
<1>10. ActualOK'
  BY <1>2, <1>3, <1>4, <1>8, SameCase DEF ActualOK, Known
<1>11. ExpectedOK'
  BY <1>2, <1>4, <1>5, <1>7, ExpectedKeeps
<1>12. PanicOK'
  BY <1>4 DEF PanicOK
<1>13. ControlOK'
  <2>1. actual' = [name \in Compared |-> actual'[name]]
    <3>1. CASE actual' = actual
      BY <3>1 DEF ControlOK
    <3>2. CASE actual' = Trace(oracle')
      BY <3>2, TraceNames
    <3> QED
      BY <1>1, <3>1, <3>2
  <2> QED
    BY <1>2, <1>4, <2>1 DEF ControlOK
<1> QED
  BY <1>2, <1>5, <1>6, <1>9, <1>10, <1>11, <1>12, <1>13

LEMMA CompareKeeps ==
  ASSUME KInv, Compare
  PROVE  KInv' /\ UNCHANGED vars
<1> USE DEF KInv
<1>1. /\ UNCHANGED vars /\ UNCHANGED <<program, input, actual>>
      /\ status = "running" /\ Statement \in Compared
  BY DEF Compare
<1>2. PICK answer \in IF expected[Statement] = NoValue
                      THEN {actual[Statement],
                            DraftAnswers(oracle)[Statement], AnotherValue}
                      ELSE {expected[Statement]} :
        /\ expected' = [expected EXCEPT ![Statement] = answer]
        /\ AdvanceOrPanic(actual[Statement] = answer)
  BY DEF Compare
<1>3. IInv' /\ DInv'
  BY <1>1 DEF vars, frame, IInv, TypeOK, FrameTypeOK, FramesConsistent,
              FrameConsistent, KeyDerived, Committed, Responded,
              NoInternalFailure, DInv, Answered, FrameDetermined
<1>4. line > 2 /\ (program = "vectors" => line > 3)
  BY <1>1, StatementLines DEF ControlOK
<1>5. AllHashed(oracle)
  BY <1>4, Lines DEF HashedOK, AllHashed, ControlOK
<1>6. actual[Statement] = Trace(oracle)[Statement]
  <2>1. Statement = "intermediates" => program = "vectors"
    BY StatementLines DEF ControlOK
  <2>2. Known(Statement)
    BY <1>1, <1>4, <2>1, Lines DEF Known, Compared
  <2> QED
    BY <1>1, <2>2 DEF ActualOK
<1>7. DraftAnswers(oracle)[Statement] = Trace(oracle)[Statement]
  BY <1>1, <1>5, TraceIsDraft DEF IInv, TypeOK
<1>8. /\ expected' = [name \in Compared |-> expected'[name]]
      /\ expected'[Statement] = answer
      /\ \A name \in Compared \ {Statement} : expected'[name] = expected[name]
  <2> DEFINE e(name) == expected[name]
  <2>1. expected = [name \in Compared |-> e(name)]
    BY DEF ControlOK
  <2> HIDE DEF e
  <2> QED
    BY <1>1, <1>2, <2>1
<1>9. Statement = Statements[program][line]
  BY DEF Statement
<1>10. UNCHANGED oracle /\ Trace(oracle)' = Trace(oracle)
       /\ (AllHashed(oracle)' <=> AllHashed(oracle))
  BY <1>1, SameCase DEF vars
<1>11. CASE actual[Statement] = answer
  <2>1. \/ status' = "exited" /\ line' = line
           /\ line = Len(Statements[program])
        \/ status' = "running" /\ line' = line + 1
           /\ line + 1 \in 1 .. Len(Statements[program])
    BY <1>2, <1>11, Advancing DEF AdvanceOrPanic
  <2>2. ControlOK'
    BY <1>1, <1>8, <2>1 DEF ControlOK, vars
  <2>3. HashedOK'
    BY <1>1, <1>4, <1>5, <1>10, <2>1, Lines, SameCase
    DEF HashedOK, AllHashed
  <2>4. ActualOK'
    BY <1>1, <1>4, <1>10, <2>1, Lines DEF ActualOK, Known
  <2>5. ExpectedOK'
    <3> SUFFICES ASSUME NEW n \in 1 .. Len(Statements[program]),
                        Statements[program][n] \in Compared,
                        n < line' \/ status' = "exited"
                 PROVE  expected'[Statements[program][n]]
                          = Trace(oracle)[Statements[program][n]]
      BY <1>1, <1>10 DEF ExpectedOK
    <3>1. CASE Statements[program][n] = Statement
      BY <1>6, <1>8, <1>11, <3>1
    <3>2. CASE Statements[program][n] # Statement
      <4>1. n < line
        BY <1>9, <2>1, <3>2, Lines
      <4>2. expected[Statements[program][n]]
              = Trace(oracle)[Statements[program][n]]
        BY <1>1, <4>1 DEF ExpectedOK
      <4> QED
        BY <1>8, <3>2, <4>2
    <3> QED
      BY <3>1, <3>2
  <2>6. PanicOK'
    BY <2>1 DEF PanicOK
  <2> QED
    BY <1>1, <1>3, <2>2, <2>3, <2>4, <2>5, <2>6
<1>12. CASE actual[Statement] # answer
  <2>1. status' = "panicked" /\ line' = line
    BY <1>2, <1>12 DEF AdvanceOrPanic, Panic
  <2>2. ControlOK'
    BY <1>1, <1>8, <2>1 DEF ControlOK, vars
  <2>3. HashedOK' /\ ActualOK'
    BY <1>1, <1>10, <2>1, SameCase DEF HashedOK, ActualOK, Known
  <2>4. ExpectedOK'
    BY <2>1 DEF ExpectedOK
  <2>5. expected'[Statement] # Trace(oracle)[Statement]
    BY <1>6, <1>8, <1>12
  <2>6. expected'[Statement] # NoValue
    BY <1>2, <1>6, <1>7, <1>8, <1>12, ProgramAssumption
  <2>7. Statement \in Literals'
    BY <1>1, <1>9, Lines DEF Literals
  <2>8. PanicOK'
    BY <1>5, <1>10, <2>5, <2>6, <2>7 DEF PanicOK
  <2> QED
    BY <1>1, <1>3, <2>2, <2>3, <2>4, <2>8
<1> QED
  BY <1>11, <1>12

LEMMA InCallKeeps ==
  ASSUME KInv, InCall
  PROVE  KInv' /\ OracleGrows /\ returned \subseteq returned'
<1> USE DEF KInv
<1>1. Next /\ UNCHANGED programVars /\ status = "calling"
  BY MainCalls DEF InCall, Next
<1>2. IInv' /\ DInv'
  BY <1>1, Inductive, DeterminedInductive
<1>3. OracleGrows /\ returned \subseteq returned'
  BY <1>1, StepsOnlyAdd
<1>4. /\ UNCHANGED <<program, input, line, status, actual, expected>>
      /\ Statement \in CallStatements /\ Statement' = Statement
  BY <1>1 DEF programVars, ControlOK, Statement
<1>5. ControlOK'
  BY <1>1, <1>4 DEF ControlOK
<1>6. HashedOK'
  <2>1. line > 1 => SeedHashed(oracle')
    BY <1>3, TraceStable DEF HashedOK
  <2>2. line > 2 => NonceHashed(oracle')
    BY <1>3, Lines, TraceStable DEF HashedOK
  <2>3. line > 3 \/ (program = "downstream" /\ line > 2) =>
          ChallengeHashed(oracle')
    BY <1>3, Lines, TraceStable DEF HashedOK, AllHashed
  <2> QED
    BY <1>4, <2>1, <2>2, <2>3, SameCase DEF HashedOK
<1>7. ActualOK'
  BY <1>3, <1>4, KnownStays, SameCase DEF ActualOK, Known
<1>8. ExpectedOK'
  <2>1. Statement \notin Compared
    BY <1>4 DEF CallStatements, Compared
  <2> QED
    BY <1>1, <1>3, <1>4, <2>1, ExpectedKeeps
<1>9. PanicOK'
  BY <1>1, <1>4 DEF PanicOK
<1> QED
  BY <1>2, <1>3, <1>5, <1>6, <1>7, <1>8, <1>9

(* What a verification is given is what the crate has made.                *)
LEMMA VerifiedArguments ==
  ASSUME KInv, status # "panicked", Statement = "verify"
  PROVE  /\ AllHashed(oracle)
         /\ Arguments
              = [op |-> "verify",
                 public_key |-> Some(KeyOf(oracle, input.seed)),
                 message |-> input.message,
                 signature |-> Some(SignatureOf(oracle, input.seed,
                                                input.message))]
         /\ Arguments \in VerifyCalls
         /\ Parses(Arguments) /\ Verifies(oracle, Arguments)
<1> USE DEF KInv
<1> DEFINE seed == input.seed
           m == input.message
<1>1. line > 4
  BY StatementLines DEF ControlOK
<1>2. AllHashed(oracle)
  BY <1>1, Lines DEF HashedOK, AllHashed
<1>3. /\ oracle[SeedTranscript(seed)] \in Digests
      /\ oracle[NonceAsked(oracle, seed, m)] \in Digests
      /\ oracle[ChallengeAsked(oracle, seed, m)] \in Digests
  BY <1>2 DEF AllHashed, SeedHashed, NonceHashed, ChallengeHashed, IInv, TypeOK
<1>4. /\ Trace(oracle).public_key = KeyOf(oracle, seed)
      /\ Trace(oracle).signature = SignatureOf(oracle, seed, m)
  BY <1>3, TraceIsComputed
<1>5. ASSUME program = "downstream"
      PROVE  Arguments
               = [op |-> "verify", public_key |-> Some(KeyOf(oracle, seed)),
                  message |-> m,
                  signature |-> Some(SignatureOf(oracle, seed, m))]
  <2>1. /\ actual["public_key"] = Trace(oracle)["public_key"]
        /\ actual["signature"] = Trace(oracle)["signature"]
    BY <1>1, <1>5, Lines DEF ActualOK, Known, Compared
  <2> QED
    BY <1>4, <1>5, <2>1 DEF Arguments
<1>6. ASSUME program = "vectors"
      PROVE  Arguments
               = [op |-> "verify", public_key |-> Some(KeyOf(oracle, seed)),
                  message |-> m,
                  signature |-> Some(SignatureOf(oracle, seed, m))]
  <2>1. /\ line > 6 /\ 5 \in 1 .. Len(Statements[program])
        /\ 6 \in 1 .. Len(Statements[program])
        /\ Statements[program][5] = "public_key"
        /\ Statements[program][6] = "signature"
    BY <1>6, StatementLines, StatementTable DEF ControlOK, CallStatements
  <2>2. "public_key" \in Compared /\ "signature" \in Compared
    BY DEF Compared
  <2>3. /\ 5 < line /\ 6 < line
    BY <2>1, Lines
  <2>4. /\ expected["public_key"] = Trace(oracle)["public_key"]
        /\ expected["signature"] = Trace(oracle)["signature"]
    BY <2>1, <2>2, <2>3 DEF ExpectedOK
  <2> QED
    BY <1>4, <1>6, <2>4 DEF Arguments
<1>7. Arguments = [op |-> "verify", public_key |-> Some(KeyOf(oracle, seed)),
                   message |-> m,
                   signature |-> Some(SignatureOf(oracle, seed, m))]
  BY <1>5, <1>6 DEF ControlOK
<1>8. /\ KeyOf(oracle, seed) \in Encoding
      /\ SignatureOf(oracle, seed, m) \in Encoding \X Encoding
  BY <1>3, ComputedKey, ComputedSignature
<1>9. Arguments \in VerifyCalls
  BY <1>7, <1>8 DEF VerifyCalls, KeyStrings, SignatureStrings, ControlOK
<1>10. /\ Arguments.public_key = Some(KeyOf(oracle, seed))
       /\ Arguments.message = m
       /\ Arguments.signature = Some(SignatureOf(oracle, seed, m))
  BY <1>7
<1> HIDE DEF seed, m
<1>11. Parses(Arguments) /\ Verifies(oracle, Arguments)
  BY <1>3, <1>10, ComputedSignatureVerifies
<1> QED
  BY <1>2, <1>7, <1>9, <1>11 DEF seed, m

(* The two other kinds of call.                                            *)
LEMMA SeedArguments ==
  ASSUME ControlOK
  PROVE  /\ Statement = "verifying_key" =>
              /\ Arguments = [op |-> "verifying_key", seed |-> Some(input.seed)]
              /\ Arguments \in KeyCalls
         /\ Statement = "sign" =>
              /\ Arguments = [op |-> "sign", seed |-> Some(input.seed),
                              message |-> input.message]
              /\ Arguments \in SignCalls
<1>1. Some(input.seed) \in SeedInputs
  BY DEF SeedInputs, ControlOK
<1> QED
  BY <1>1 DEF Arguments, KeyCalls, SignCalls, ControlOK

LEMMA CallKeeps ==
  ASSUME KInv, Call
  PROVE  KInv' /\ OracleGrows /\ returned \subseteq returned'
<1> USE DEF KInv
<1>1. /\ status = "running" /\ status' = "calling" /\ Begin(Main)
      /\ UNCHANGED <<program, input, line, actual, expected>>
  BY DEF Call
<1>2. \/ /\ Statement \in {"verifying_key", "sign"}
         /\ BeginWithSeed(Main, Arguments)
      \/ /\ Statement = "verify"
         /\ BeginWithInputs(Main, Arguments)
  BY DEF Call
<1>3. /\ IInv' /\ DInv' /\ UNCHANGED oracle /\ returned \subseteq returned'
  <2>1. CASE Statement \in {"verifying_key", "sign"}
    <3>1. /\ Arguments \in SignCalls \cup KeyCalls
          /\ Arguments.seed = Some(input.seed)
      BY <2>1, SeedArguments
    <3>2. Arguments.seed.some
      BY <3>1, OptionFields
    <3>3. Enter(Main, Arguments, "derive")
      BY <1>2, <2>1, <3>2 DEF BeginWithSeed
    <3>4. IInv'
      BY <1>1, <3>3, MainCalls, EnterStep
    <3>5. DInv'
      BY <3>1, <3>2, <3>3, MainCalls, EnterDetermined
    <3> QED
      BY <3>3, <3>4, <3>5 DEF Enter
  <2>2. CASE Statement = "verify"
    <3>1. Arguments \in VerifyCalls /\ Parses(Arguments)
      BY <1>1, <2>2, VerifiedArguments
    <3>2. Enter(Main, Arguments, "verify")
      BY <1>2, <2>2, <3>1 DEF BeginWithInputs, Parses
    <3>3. IInv'
      BY <1>1, <3>2, MainCalls, EnterStep
    <3>4. DInv'
      BY <3>1, <3>2, MainCalls, EnterDetermined
    <3> QED
      BY <3>2, <3>3, <3>4 DEF Enter
  <2> QED
    BY <1>2, <2>1, <2>2
<1>4. OracleGrows
  BY <1>3, OracleUnchanged DEF IInv
<1>5. Statement \in CallStatements /\ Statement' = Statement
  BY <1>1, <1>2 DEF CallStatements, Statement
<1>6. ControlOK'
  BY <1>1, <1>5 DEF ControlOK
<1>7. HashedOK'
  BY <1>1, <1>3, SameCase DEF HashedOK, SeedHashed, NonceHashed,
                              ChallengeHashed
<1>8. ActualOK'
  BY <1>1, <1>4, KnownStays, SameCase DEF ActualOK, Known
<1>9. ExpectedOK'
  <2>1. Statement \notin Compared
    BY <1>5 DEF CallStatements, Compared
  <2> QED
    BY <1>1, <1>4, <2>1, ExpectedKeeps
<1>10. PanicOK'
  BY <1>1 DEF PanicOK
<1> QED
  BY <1>3, <1>4, <1>6, <1>7, <1>8, <1>9, <1>10

(* What the crate has answered when a call of the program has returned: no *)
(* expect fails on it, and no assert.                                      *)
LEMMA Received ==
  ASSUME KInv, status = "calling", NEW r \in returned, r.call = Arguments
  PROVE  \/ /\ Statement = "verifying_key" /\ SeedHashed(oracle)
            /\ r.outcome = [public_key |-> Trace(oracle).public_key]
         \/ /\ Statement = "sign" /\ AllHashed(oracle)
            /\ r.outcome = [signature |-> Trace(oracle).signature]
         \/ Statement = "verify" /\ r.outcome = [valid |-> TRUE]
<1> USE DEF KInv
<1> DEFINE a == Arguments
           seed == input.seed
           m == input.message
<1>1. /\ r.call = a /\ HashAsked(oracle, a) /\ Computed(oracle, a, r.outcome)
  BY DEF DInv, Answered
<1>2. \A t \in DOMAIN oracle : oracle[t] \in Digests
  BY DEF IInv, TypeOK
<1>3. CASE Statement = "verifying_key"
  <2>1. a \in KeyCalls /\ a.seed = Some(seed)
    BY <1>3, SeedArguments
  <2> HIDE DEF a
  <2>2. a.seed.some /\ a.seed.value = seed
    BY <2>1, OptionFields
  <2>3. SeedHashed(oracle)
    BY <1>1, <2>1, <2>2 DEF HashAsked, SeedHashed
  <2>4. r.outcome = [public_key |-> KeyOf(oracle, seed)]
    BY <1>1, <2>1, <2>2 DEF Computed
  <2>5. Trace(oracle).public_key = KeyOf(oracle, seed)
    BY <1>2, <2>3, TraceIsComputed DEF SeedHashed
  <2> QED
    BY <1>3, <2>3, <2>4, <2>5
<1>4. CASE Statement = "sign"
  <2>1. a \in SignCalls /\ a.seed = Some(seed) /\ a.message = m
    BY <1>4, SeedArguments
  <2> HIDE DEF a
  <2>2. a.seed.some /\ a.seed.value = seed
    BY <2>1, OptionFields
  <2>3. AllHashed(oracle)
    BY <1>1, <2>1, <2>2
    DEF HashAsked, AllHashed, SeedHashed, NonceHashed, ChallengeHashed
  <2>4. r.outcome = [signature |-> SignatureOf(oracle, seed, m)]
    BY <1>1, <2>1, <2>2 DEF Computed
  <2>5. Trace(oracle).signature = SignatureOf(oracle, seed, m)
    BY <1>2, <2>3, TraceIsComputed DEF AllHashed, SeedHashed
  <2> QED
    BY <1>4, <2>3, <2>4, <2>5
<1>5. CASE Statement = "verify"
  <2>1. a \in VerifyCalls /\ Parses(a) /\ Verifies(oracle, a)
    BY <1>5, VerifiedArguments
  <2> HIDE DEF a
  <2>2. r.outcome = [valid |-> Parses(a) /\ Verifies(oracle, a)]
    BY <1>1, <2>1 DEF Computed
  <2>3. (Parses(a) /\ Verifies(oracle, a)) = TRUE
    BY <2>1
  <2> QED
    BY <1>5, <2>2, <2>3, Zenon
<1>6. Statement \in CallStatements
  BY DEF ControlOK
<1> QED
  BY <1>3, <1>4, <1>5, <1>6 DEF CallStatements

LEMMA ReceiveKeeps ==
  ASSUME KInv, Receive
  PROVE  KInv' /\ UNCHANGED vars
<1> USE DEF KInv
<1>1. /\ status = "calling" /\ pc[Main] = "idle"
      /\ UNCHANGED vars /\ UNCHANGED <<program, input, expected>>
  BY DEF Receive
<1>2. PICK r \in returned :
        /\ r.call = Arguments
        /\ actual' = [name \in Compared |->
                        IF name \in DOMAIN r.outcome
                        THEN r.outcome[name]
                        ELSE actual[name]]
        /\ AdvanceOrPanic(DOMAIN r.outcome \subseteq Compared
                          \/ r.outcome = [valid |-> TRUE])
  BY DEF Receive
<1>3. \/ /\ Statement = "verifying_key" /\ SeedHashed(oracle)
         /\ r.outcome = [public_key |-> Trace(oracle).public_key]
      \/ /\ Statement = "sign" /\ AllHashed(oracle)
         /\ r.outcome = [signature |-> Trace(oracle).signature]
      \/ Statement = "verify" /\ r.outcome = [valid |-> TRUE]
  BY <1>1, <1>2, Received
<1>4. IInv' /\ DInv'
  BY <1>1 DEF vars, frame, IInv, TypeOK, FrameTypeOK, FramesConsistent,
              FrameConsistent, KeyDerived, Committed, Responded,
              NoInternalFailure, DInv, Answered, FrameDetermined
<1>5. OracleGrows /\ oracle' = oracle /\ returned' = returned
  BY <1>1, OracleUnchanged DEF vars, IInv
<1>6. DOMAIN r.outcome \subseteq Compared \/ r.outcome = [valid |-> TRUE]
  BY <1>3 DEF Compared
<1>7. Advance
  BY <1>2, <1>6 DEF AdvanceOrPanic
<1>8. \/ status' = "exited" /\ line' = line
         /\ line = Len(Statements[program])
      \/ status' = "running" /\ line' = line + 1
         /\ line + 1 \in 1 .. Len(Statements[program])
  BY <1>7, Advancing
<1>9. Statement \notin Compared
  BY <1>3 DEF Compared
<1>10. ControlOK'
  BY <1>1, <1>2, <1>8 DEF ControlOK, vars
<1>11. HashedOK'
  <2>1. CASE status' = "exited"
    BY <1>1, <1>5, <1>8, <2>1, SameCase DEF HashedOK
  <2>2. CASE program = "vectors"
    <3>1. line > 6
      BY <1>3, <2>2, StatementLines DEF ControlOK, CallStatements
    <3>2. AllHashed(oracle)
      BY <3>1, Lines DEF HashedOK, AllHashed
    <3> QED
      BY <1>1, <1>5, <3>2, SameCase DEF HashedOK, AllHashed
  <2>3. CASE program = "downstream" /\ status' # "exited"
    <3>1. \/ line = 1 /\ SeedHashed(oracle)
          \/ line > 1 /\ AllHashed(oracle)
      <4>1. Statement = "verify" => AllHashed(oracle)
        BY <1>1, VerifiedArguments
      <4>2. /\ Statement = "verifying_key" => line = 1
            /\ Statement = "sign" => line = 2
            /\ Statement = "verify" => line > 4
        BY <2>3, StatementLines DEF ControlOK
      <4> QED
        BY <1>3, <4>1, <4>2, Lines
    <3> QED
      BY <1>1, <1>5, <1>8, <2>3, <3>1, Lines, SameCase DEF HashedOK, AllHashed
  <2> QED
    BY <1>8, <2>1, <2>2, <2>3 DEF ControlOK
<1>12. ActualOK'
  <2>1. ASSUME NEW name \in Compared
        PROVE  /\ actual'[name] = actual[name]
                  \/ actual'[name] = Trace(oracle)[name]
               /\ Statement = "verifying_key" =>
                    actual'["public_key"] = Trace(oracle)["public_key"]
               /\ Statement = "sign" =>
                    actual'["signature"] = Trace(oracle)["signature"]
    BY <1>2, <1>3 DEF Compared
  <2>2. ASSUME NEW name \in Compared, Known(name)'
        PROVE  Known(name) \/ actual'[name] = Trace(oracle)[name]
    <3>1. CASE program = "vectors"
      <4>1. line > 6
        BY <1>3, <3>1, StatementLines DEF ControlOK, CallStatements
      <4> QED
        BY <3>1, <4>1, Lines DEF Known
    <3>2. CASE program = "downstream"
      <4>1. \/ line = 1 /\ Statement = "verifying_key"
            \/ line = 2 /\ Statement = "sign"
            \/ line > 4
        BY <1>3, <3>2, StatementLines DEF ControlOK
      <4> QED
        BY <1>1, <1>8, <2>1, <2>2, <3>2, <4>1, Lines DEF Known, Compared
    <3> QED
      BY <3>1, <3>2 DEF ControlOK
  <2> QED
    BY <1>1, <1>5, <2>1, <2>2, SameCase DEF ActualOK
<1>13. ExpectedOK'
  BY <1>1, <1>5, <1>8, <1>9, ExpectedKeeps
<1>14. PanicOK'
  BY <1>8 DEF PanicOK
<1> QED
  BY <1>1, <1>4, <1>10, <1>11, <1>12, <1>13, <1>14

-----------------------------------------------------------------------------
(* Theorems.                                                               *)

(* The invariant holds at the start, and every step keeps it.              *)
LEMMA StartsWell == Start => KInv
<1> SUFFICES ASSUME Start PROVE KInv
  OBVIOUS
<1>1. IInv /\ DInv
  BY Initially, InitiallyDetermined DEF Start
<1>2. /\ program \in {"downstream", "vectors"} /\ input.seed \in Seeds
      /\ input.message \in Messages
  BY ProgramAssumption DEF Start
<1>3. 1 \in 1 .. Len(Statements[program])
  BY <1>2, StatementTable
<1>4. line = 1 /\ status = "running" /\ pc[Main] = "idle"
  BY MainCalls DEF Start, Init
<1>5. ControlOK
  BY <1>2, <1>3, <1>4 DEF Start, ControlOK
<1>6. HashedOK /\ ActualOK /\ PanicOK
  BY <1>4 DEF HashedOK, ActualOK, Known, PanicOK
<1>7. ExpectedOK
  BY <1>4, <1>5, Lines DEF ExpectedOK
<1> QED
  BY <1>1, <1>5, <1>6, <1>7 DEF KInv

LEMMA StepKeeps ==
  ASSUME KInv, [Step]_allVars
  PROVE  KInv' /\ OracleGrows /\ returned \subseteq returned'
<1>1. ASSUME UNCHANGED vars PROVE OracleGrows /\ returned' = returned
  BY <1>1, OracleUnchanged DEF vars, KInv, IInv
<1>2. CASE Step
  BY <1>1, <1>2, HashKeeps, CompareKeeps, CallKeeps, InCallKeeps, ReceiveKeeps
  DEF Step
<1>3. CASE UNCHANGED allVars
  <2>1. UNCHANGED vars /\ UNCHANGED programVars
    BY <1>3 DEF allVars
  <2>2. IInv' /\ DInv'
    BY <2>1 DEF vars, frame, KInv, IInv, TypeOK, FrameTypeOK,
                FramesConsistent, FrameConsistent, KeyDerived, Committed,
                Responded, NoInternalFailure, DInv, Answered, FrameDetermined
  <2>3. UNCHANGED <<program, input, line, status, actual, expected, pc, oracle>>
    BY <2>1 DEF vars, programVars
  <2>4. ControlOK'
    BY <2>3 DEF KInv, ControlOK, Statement
  <2>5. HashedOK' /\ ActualOK' /\ ExpectedOK'
    BY <2>3, SameCase DEF KInv, HashedOK, ActualOK, ExpectedOK, Known
  <2>6. PanicOK'
    BY <2>3, SameCase DEF KInv, PanicOK, Literals
  <2> QED
    BY <1>1, <2>1, <2>2, <2>4, <2>5, <2>6 DEF KInv
<1> QED
  BY <1>2, <1>3

(* The inductive invariant: wherever the programs stand, every value they  *)
(* hold is the one the trace computes, whether it comes from the trace or  *)
(* from a call, and every literal compared so far agrees with it.          *)
THEOREM AnswersAreKnown == ProgramSpec => []KInv
  BY StartsWell, StepKeeps, PTL DEF ProgramSpec

(* The programs succeed on the draft's vectors and on no others, for every *)
(* hash, curve, case and literals: an exit means that each literal is what *)
(* the draft computes, a panic that one is not.                            *)
THEOREM ProgramsPassOnTheDraftsVectors ==
  ProgramSpec => []PassesOnTheDraftsVectorsOnly
<1>1. KInv => PassesOnTheDraftsVectorsOnly
  <2> SUFFICES ASSUME KInv PROVE PassesOnTheDraftsVectorsOnly
    OBVIOUS
  <2> USE DEF KInv
  <2>1. \A t \in DOMAIN oracle : oracle[t] \in Digests
    BY DEF IInv, TypeOK
  <2>2. ASSUME status = "exited", NEW name \in Literals
        PROVE  expected[name] = DraftAnswers(oracle)[name]
    <3>1. PICK n \in DOMAIN Statements[program] :
            Statements[program][n] = name /\ name \in Compared
      BY DEF Literals
    <3>2. n \in 1 .. Len(Statements[program])
      BY <3>1, Lines
    <3>3. expected[name] = Trace(oracle)[name]
      BY <2>2, <3>1, <3>2 DEF ExpectedOK
    <3>4. line > 3
      <4>1. ControlOK /\ line = Len(Statements[program])
        BY <2>2 DEF ControlOK
      <4>2. Len(Statements[program]) \in {5, 13}
        BY <4>1, Lines
      <4>3. line \in {5, 13}
        BY <4>1, <4>2
      <4> QED
        BY <4>3
    <3>5. AllHashed(oracle)
      BY <3>4, Lines DEF HashedOK, AllHashed
    <3> QED
      BY <2>1, <3>1, <3>3, <3>5, TraceIsDraft
  <2>3. ASSUME status = "panicked"
        PROVE  \E name \in Literals :
                 /\ expected[name] # NoValue
                 /\ expected[name] # DraftAnswers(oracle)[name]
    <3>1. PICK name \in Literals :
            expected[name] # NoValue /\ expected[name] # Trace(oracle)[name]
      BY <2>3 DEF PanicOK
    <3>2. AllHashed(oracle) /\ name \in Compared
      BY <2>3 DEF PanicOK, Literals
    <3>3. DraftAnswers(oracle)[name] = Trace(oracle)[name]
      BY <2>1, <3>2, TraceIsDraft
    <3> QED
      BY <3>1, <3>3
  <2> QED
    BY <2>2, <2>3 DEF PassesOnTheDraftsVectorsOnly
<1> QED
  BY <1>1, AnswersAreKnown, PTL

(* No call of the programs ends in InternalFailure, whatever the hash      *)
(* answered when the trace of the test was the first to ask it.            *)
THEOREM ProgramCallsSucceed == ProgramSpec => []NoInternalFailure
<1>1. KInv => NoInternalFailure
  BY DEF KInv, IInv
<1> QED
  BY <1>1, AnswersAreKnown, PTL

(* Under the programs too, hash evaluations of the test's own included,    *)
(* every call returns what the draft says.                                 *)
THEOREM ProgramsKeepToTheDraft == ProgramSpec => ImplementsDraft
<1>1. Start => Draft!Init
  BY RefinesInit DEF Start
<1>2. ASSUME KInv, KInv', [Step]_allVars
      PROVE  [Draft!Next]_(Draft!vars)
  <2>1. OracleGrows /\ returned \subseteq returned'
    BY <1>2, StepKeeps
  <2>2. Draft!Remembers
    BY <2>1 DEF OracleGrows, Draft!Remembers
  <2>3. ASSUME NEW r \in returned'
        PROVE  Draft!Asked(oracle', r.call)
               /\ r.outcome = Draft!Outcome(oracle', r.call)
    <3>1. /\ r.call \in Calls
          /\ HashAsked(oracle', r.call)
          /\ Computed(oracle', r.call, r.outcome)
      BY <1>2 DEF KInv, DInv, Answered
    <3>2. \A t \in DOMAIN oracle' : oracle'[t] \in Digests
      BY <1>2 DEF KInv, IInv, TypeOK
    <3> QED
      BY <3>1, <3>2, OutcomesAgree
  <2> QED
    BY <2>1, <2>2, <2>3 DEF Draft!Next
<1>3. KInv /\ KInv' /\ [Step]_allVars => [Draft!Next]_(Draft!vars)
  BY <1>2
<1> QED
  BY <1>1, <1>3, AnswersAreKnown, PTL
  DEF ProgramSpec, ImplementsDraft, Draft!Spec

=============================================================================
