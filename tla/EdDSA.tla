------------------------------- MODULE EdDSA --------------------------------
(***************************************************************************)
(* What the signature scheme promises (the draft in inputs/round4, its     *)
(* sections 3 to 6), with nothing of how the crate computes it: every call *)
(* that returns has the outcome the draft's equations give it, read off a  *)
(* hash function that never changes its mind.                              *)
(*                                                                         *)
(* The hash function is unknown: its value on a transcript is any digest,  *)
(* fixed when a call first asks for it.  ENC and Multiple are the affine   *)
(* mathematics of the curve, not the code's coordinates.                   *)
(***************************************************************************)
EXTENDS Scalar, Sequences

CONSTANTS
  Points,           \* the points of the curve
  Identity, Base,
  Sum(_, _),        \* the group law
  Multiple(_, _),   \* [n]P for any natural number n
  ENC(_),           \* the encoding of a point
  Digests

VARIABLES
  oracle,           \* the hash function, as far as it has been evaluated
  returned          \* the calls that have returned, with their outcomes

vars == <<oracle, returned>>

-----------------------------------------------------------------------------
(* Section 4.                                                              *)

(* LE_INTEGER of a digest, modulo L.                                       *)
ScalarOf(digest) == (digest[1] + EncodingSpace * digest[2]) % L

(* The lower half without its bits 0 and 1, cut below bit 300 and set at   *)
(* bit 300.                                                                *)
SecretScalar(H, seed) ==
  LET lower == H[<<seed>>][1]
  IN  TopBit + (lower % TopBit) - (lower % 4)
Prefix(H, seed) == H[<<seed>>][2]
PublicKey(H, seed) == ENC(Multiple(SecretScalar(H, seed), Base))

(* Section 5.                                                              *)

NonceInput(H, seed, M) == <<Prefix(H, seed)>> \o M
Nonce(H, seed, M) == ScalarOf(H[NonceInput(H, seed, M)])
Renc(H, seed, M) == ENC(Multiple(Nonce(H, seed, M), Base))
ChallengeInput(commitment, key, M) == <<commitment, key>> \o M
Challenge(H, commitment, key, M) ==
  ScalarOf(H[ChallengeInput(commitment, key, M)])

SignatureOf(H, seed, M) ==
  LET k == Challenge(H, Renc(H, seed, M), PublicKey(H, seed), M)
  IN  << Renc(H, seed, M),
         (Nonce(H, seed, M) + k * SecretScalar(H, seed)) % L >>

(* Section 6.                                                              *)

KeyPoints ==
  {p \in Points : p # Identity /\ Multiple(L, p) = Identity}

ValidKey(key) == key.some /\ \E p \in KeyPoints : ENC(p) = key.value

ParsedSignature(signature) ==
  /\ signature.some
  /\ \E p \in Points : ENC(p) = signature.value[1]
  /\ signature.value[2] \in Scalars

Accepts(H, key, M, signature) ==
  /\ ValidKey(key)
  /\ ParsedSignature(signature)
  /\ LET A == CHOOSE p \in Points : ENC(p) = key.value
         R == CHOOSE p \in Points : ENC(p) = signature.value[1]
         k == Challenge(H, signature.value[1], key.value, M)
     IN  Multiple(4 * signature.value[2], Base)
           = Sum(Multiple(4, R), Multiple(4 * k, A))

-----------------------------------------------------------------------------

(* The transcripts whose hash the outcome of a call depends on.            *)
Asked(H, call) ==
  /\ call.op \in {"sign", "verifying_key"} /\ call.seed.some =>
       <<call.seed.value>> \in DOMAIN H
  /\ call.op = "sign" /\ call.seed.some =>
       /\ NonceInput(H, call.seed.value, call.message) \in DOMAIN H
       /\ ChallengeInput(Renc(H, call.seed.value, call.message),
                         PublicKey(H, call.seed.value), call.message)
            \in DOMAIN H
  /\ call.op = "verify" =>
       \/ ~ValidKey(call.public_key)
       \/ ~ParsedSignature(call.signature)
       \/ ChallengeInput(call.signature.value[1], call.public_key.value,
                         call.message) \in DOMAIN H

Outcome(H, call) ==
  CASE call.op \in {"sign", "verifying_key"} /\ ~call.seed.some ->
         [error |-> "InvalidSeedLength"]
    [] call.op = "sign" /\ call.seed.some ->
         [signature |-> SignatureOf(H, call.seed.value, call.message)]
    [] call.op = "verifying_key" /\ call.seed.some ->
         [public_key |-> PublicKey(H, call.seed.value)]
    [] call.op = "validate_public_key" ->
         [valid |-> ValidKey(call.public_key)]
    [] call.op = "verify" ->
         [valid |-> Accepts(H, call.public_key, call.message, call.signature)]

(* The hash is a function: what it answered once it answers again.         *)
Remembers ==
  /\ \A t \in DOMAIN oracle : t \in DOMAIN oracle' /\ oracle'[t] = oracle[t]
  /\ \A t \in DOMAIN oracle' : oracle'[t] \in Digests

Init == oracle = <<>> /\ returned = {}

Next ==
  /\ Remembers
  /\ returned \subseteq returned'
  /\ \A r \in returned' \ returned :
       Asked(oracle', r.call) /\ r.outcome = Outcome(oracle', r.call)

Spec == Init /\ [][Next]_vars

=============================================================================
