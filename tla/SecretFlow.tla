----------------------------- MODULE SecretFlow -----------------------------
(***************************************************************************)
(* What becomes of secrets inside one call of crates/ed301-eddsa: the      *)
(* named values of signature.rs in the order they are made, which of them  *)
(* a Secret guard of secret.rs owns, which are undefined in the eyes of    *)
(* Memcheck because they were computed from an undefined seed, and where   *)
(* the declassify calls and the branches of the code come in between.      *)
(*                                                                         *)
(* Values are names; what they are is left to Signing.  A fault predicate  *)
(* may come out either way, so that every error return is taken, although  *)
(* SigningProofs shows that none of them is in a machine without faults.   *)
(* Copies that the compiler makes beyond the named values are left out, as *)
(* they are from what the repository promises of wiping.                   *)
(***************************************************************************)
EXTENDS Naturals, Sequences

VARIABLES
  instrumented,    \* the cargo feature secret-taint-instrumentation
  failpoint,       \* SECRET_FAILPOINT, the test slot of the thread
  operation,       \* the call under way: "sign", "verifying_key" or "none"
  function,        \* the function control is in
  at,              \* the next statement of its body
  memory,          \* the values in memory that nothing has wiped
  owned,           \* for each function, the values its guards own
  tainted,         \* the values with undefined bits
  memcheck_error,  \* a branch has depended on an undefined bit
  result           \* how the last call ended

flow == <<instrumented, failpoint, operation, function, at,
          memory, owned, tainted, memcheck_error, result>>

-----------------------------------------------------------------------------
(* Statements.                                                             *)

Guarded(name, from) ==
  [kind |-> "let", name |-> name, from |-> from, guarded |-> TRUE]
Plain(name, from) ==
  [kind |-> "let", name |-> name, from |-> from, guarded |-> FALSE]
Consumed(name) == [kind |-> "drop", name |-> name]
Declassified(name) == [kind |-> "declassify", name |-> name]
Branch(name) == [kind |-> "branch", name |-> name]
Failpoint(point) == [kind |-> "failpoint", point |-> point]

(* The predicate branched on while it is as secret as what it is about.    *)
FaultPredicateUndeclared(name, from) ==
  <<Plain(name, {from}), Branch(name), Declassified(name)>>

(* A predicate computed from a value, declassified, and branched on.       *)
FaultPredicate(name, from) ==
  <<Plain(name, {from}), Declassified(name), Branch(name)>>

(* EdwardsPoint::encode_public_artifact.                                   *)
EncodePublicArtifact(point, encoding) ==
  FaultPredicate("point_is_valid", point)
    \o FaultPredicate("inverse_is_present", point)
    \o <<Plain(encoding, {point})>>

(* ExpandedSecret::derive with its scalar declassified in place of its key *)
DeriveBodyDeclassifiesScalar ==
  << Guarded("expanded_hash", {"seed"}),
     Guarded("pruned_scalar", {"expanded_hash"}),
     Declassified("pruned_scalar"),
     Guarded("prefix", {"expanded_hash"}),
     Guarded("reduced_scalar", {"pruned_scalar"}),
     Failpoint("ExpandedSecret"),
     Plain("public_point", {"pruned_scalar"}) >>
  \o FaultPredicate("public_is_valid", "public_point")
  \o EncodePublicArtifact("public_point", "public_key")

(* ExpandedSecret::derive.                                                 *)
DeriveBody ==
  << Guarded("expanded_hash", {"seed"}),
     Guarded("pruned_scalar", {"expanded_hash"}),
     Guarded("prefix", {"expanded_hash"}),
     Guarded("reduced_scalar", {"pruned_scalar"}),
     Failpoint("ExpandedSecret"),
     Plain("public_point", {"pruned_scalar"}) >>
  \o FaultPredicate("public_is_valid", "public_point")
  \o EncodePublicArtifact("public_point", "public_key")
  \o << Declassified("public_key") >>

(* SigningKey::verifying_key after derive: the key is parsed again.        *)
ExportBody == << Branch("public_key") >>

(* The serialized response in a plain buffer.                              *)
ResponseBytesUnguarded ==
  << Guarded("encoded", {"commitment"}),
     Plain("response_bytes", {"response"}),
     Plain("encoded", {"response_bytes"}) >>

ResponseBytes ==
  << Guarded("encoded", {"commitment"}),
     Guarded("response_bytes", {"response"}),
     Plain("encoded", {"response_bytes"}) >>

(* sign_expanded: nonce and commitment, challenge and response, self-check *)
SignExpandedBody ==
  << Guarded("nonce_digest", {"prefix"}),
     Guarded("nonce", {"nonce_digest"}),
     Consumed("nonce_digest"),
     Plain("commitment_point", {"nonce"}) >>
  \o FaultPredicate("commitment_is_subgroup", "commitment_point")
  \o EncodePublicArtifact("commitment_point", "commitment")
  \o << Declassified("commitment"),
        Guarded("challenge_digest", {"commitment", "public_key"}),
        Guarded("challenge", {"challenge_digest"}),
        Consumed("challenge_digest"),
        Guarded("secret_response_term", {"challenge", "reduced_scalar"}),
        Guarded("response", {"nonce", "secret_response_term"}) >>
  \o ResponseBytes
  \o << Failpoint("SignIntermediates"),
        Declassified("encoded"),
        Branch("encoded"),
        Plain("signature", {"encoded"}) >>
  \o FaultPredicate("serialized_commitment_is_subgroup", "signature")
  \o << Branch("public_key"),
        Plain("verified", {"public_key", "signature"}),
        Branch("verified") >>

Body == [derive |-> DeriveBody, verifying_key |-> ExportBody,
         sign |-> SignExpandedBody]

-----------------------------------------------------------------------------
(* Execution.                                                              *)

(* The frames a value may be owned in: the caller's SigningKey, the call   *)
(* that owns the expanded secret, and the function under it.               *)
Frames == {"key", "call", "function"}

Statement == Body[function][at]

Runs(kind) ==
  /\ function # "idle"
  /\ at <= Len(Body[function])
  /\ Statement.kind = kind

Advance ==
  /\ at' = at + 1
  /\ UNCHANGED <<instrumented, operation, function, result>>

(* Values leave their guards: wiped, they hold zeros, which are defined.   *)
Wipe(names) ==
  /\ memory' = memory \ names
  /\ tainted' = tainted \ names

(* The call ends and both of its frames are dropped.                       *)
EndCall(outcome) ==
  /\ Wipe(owned["function"] \cup owned["call"])
  /\ owned' = [owned EXCEPT !["function"] = {}, !["call"] = {}]
  /\ function' = "idle" /\ operation' = "none" /\ at' = 1
  /\ result' = outcome

(* secret(bytes) of SigningKey::from_seed, from a seed tainted or not.     *)
ImportKey(seed_is_tainted) ==
  /\ function = "idle" /\ "seed" \notin memory
  /\ memory' = memory \cup {"seed"}
  /\ owned' = [owned EXCEPT !["key"] = {"seed"}]
  /\ tainted' = IF seed_is_tainted THEN tainted \cup {"seed"} ELSE tainted
  /\ UNCHANGED <<instrumented, failpoint, operation, function, at,
                 memcheck_error, result>>

DropKey ==
  /\ function = "idle" /\ "seed" \in memory
  /\ Wipe(owned["key"])
  /\ owned' = [owned EXCEPT !["key"] = {}]
  /\ UNCHANGED <<instrumented, failpoint, operation, function, at,
                 memcheck_error, result>>

(* SigningKey::sign or SigningKey::verifying_key.                          *)
EnterCall(op) ==
  /\ function = "idle" /\ "seed" \in memory
  /\ operation' = op /\ function' = "derive" /\ at' = 1
  /\ result' = "none"
  /\ UNCHANGED <<instrumented, failpoint, memory, owned, tainted,
                 memcheck_error>>

(* A value is made, or added to, from others.                              *)
Let ==
  /\ Runs("let")
  /\ memory' = memory \cup {Statement.name}
  /\ owned' = IF Statement.guarded
              THEN [owned EXCEPT !["function"] = @ \cup {Statement.name}]
              ELSE owned
  /\ tainted' = IF Statement.from \cap tainted # {}
                THEN tainted \cup {Statement.name} ELSE tainted
  /\ Advance
  /\ UNCHANGED <<failpoint, memcheck_error>>

(* The consumed guard still counted among those of the function.           *)
ConsumeKeepingGuard ==
  /\ Runs("drop")
  /\ Wipe({Statement.name})
  /\ Advance
  /\ UNCHANGED <<owned, failpoint, memcheck_error>>

(* A guard moved into a function that drops it.                            *)
Consume ==
  /\ Runs("drop")
  /\ Wipe({Statement.name})
  /\ owned' = [owned EXCEPT !["function"] = @ \ {Statement.name}]
  /\ Advance
  /\ UNCHANGED <<failpoint, memcheck_error>>

(* declassify: a client request in the instrumented build, else nothing.   *)
Declassify ==
  /\ Runs("declassify")
  /\ tainted' = IF instrumented THEN tainted \ {Statement.name} ELSE tainted
  /\ Advance
  /\ UNCHANGED <<failpoint, memory, owned, memcheck_error>>

(* A failed check answered by running the function again.                  *)
CheckRetrying ==
  /\ Runs("branch")
  /\ memcheck_error' = (memcheck_error \/ Statement.name \in tainted)
  /\ \/ Advance
     \/ at' = 1 /\ UNCHANGED <<instrumented, operation, function, result>>
  /\ UNCHANGED <<failpoint, memory, owned, tainted>>

(* A branch: the call goes on, or returns InternalFailure.                 *)
Check ==
  /\ Runs("branch")
  /\ memcheck_error' = (memcheck_error \/ Statement.name \in tainted)
  /\ \/ Advance /\ UNCHANGED <<memory, owned, tainted>>
     \/ EndCall("InternalFailure") /\ UNCHANGED instrumented
  /\ UNCHANGED failpoint

(* The hit that leaves the slot armed.                                     *)
HitFailpointKeepingSlot ==
  /\ Runs("failpoint")
  /\ UNCHANGED <<failpoint, memcheck_error>>
  /\ IF failpoint = Statement.point
     THEN EndCall("panicked") /\ UNCHANGED instrumented
     ELSE Advance /\ UNCHANGED <<memory, owned, tainted>>

(* hit_secret_failpoint: an armed point is disarmed and panics, and the    *)
(* unwinding drops the frames of the call.                                 *)
HitFailpoint ==
  /\ Runs("failpoint")
  /\ UNCHANGED memcheck_error
  /\ IF failpoint = Statement.point
     THEN /\ failpoint' = "none"
          /\ EndCall("panicked") /\ UNCHANGED instrumented
     ELSE Advance /\ UNCHANGED <<failpoint, memory, owned, tainted>>

(* derive returns: the scalar and the prefix move to the expanded secret   *)
(* of the call, what else it owns is dropped.                              *)
ReturnDerived ==
  LET moved == {"reduced_scalar", "prefix"}
  IN  /\ function = "derive" /\ at > Len(DeriveBody)
      /\ Wipe(owned["function"] \ moved)
      /\ owned' = [owned EXCEPT !["function"] = {}, !["call"] = moved]
      /\ function' = operation /\ at' = 1
      /\ UNCHANGED <<instrumented, failpoint, operation,
                     memcheck_error, result>>

ReturnFromCall ==
  /\ function \in {"sign", "verifying_key"} /\ at > Len(Body[function])
  /\ EndCall("ok")
  /\ UNCHANGED <<instrumented, failpoint, memcheck_error>>

CallStep ==
  Let \/ Consume \/ Declassify \/ Check \/ HitFailpoint
    \/ ReturnDerived \/ ReturnFromCall

FlowInit ==
  /\ instrumented \in BOOLEAN
  /\ failpoint = "none" /\ operation = "none"
  /\ function = "idle" /\ at = 1
  /\ memory = {} /\ owned = [frame \in Frames |-> {}]
  /\ tainted = {} /\ memcheck_error = FALSE
  /\ result = "none"

(* A process begins, of a build with the instrumentation or without it.    *)
NewProcess(build) ==
  /\ instrumented' = build
  /\ failpoint' = "none" /\ operation' = "none"
  /\ function' = "idle" /\ at' = 1
  /\ memory' = {} /\ owned' = [frame \in Frames |-> {}]
  /\ tainted' = {} /\ memcheck_error' = FALSE
  /\ result' = "none"

-----------------------------------------------------------------------------
(* Properties.                                                             *)

FlowTypeOK ==
  /\ function \in {"idle", "derive", "sign", "verifying_key"}
  /\ operation = "none" <=> function = "idle"
  /\ function # "idle" => at \in 1 .. Len(Body[function]) + 1
  /\ DOMAIN owned = Frames
  /\ \A frame \in Frames : owned[frame] \subseteq memory
  /\ result \in {"none", "ok", "InternalFailure", "panicked"}

(* The owners that ZEROIZATION_AND_CT_BOUNDARY.md promises to be cleared   *)
(* on ordinary return, error return and panic unwinding.                   *)
NamedOwners ==
  {"seed", "expanded_hash", "pruned_scalar", "reduced_scalar", "prefix",
   "nonce", "secret_response_term", "response_bytes"}

=============================================================================
