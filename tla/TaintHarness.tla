---------------------------- MODULE TaintHarness ----------------------------
(***************************************************************************)
(* The program of secret-taint/src/main.rs under Valgrind: it marks a seed *)
(* undefined, makes one call of the crate on it, and asks Memcheck whether *)
(* the output is still undefined.  Memcheck itself is the set of undefined *)
(* values of SecretFlow and its count of branches on them.                 *)
(*                                                                         *)
(* A hexadecimal input is well formed or not, and an output agrees with    *)
(* the known answer or not, whichever way.  One process runs at a time.    *)
(***************************************************************************)
EXTENDS SecretFlow, Integers

VARIABLES
  on_valgrind,     \* running_on_valgrind() is not 0
  error_exitcode,  \* valgrind was given --error-exitcode=99
  case, mode,      \* the arguments --case and --mode
  environment,     \* the variables that are set and well formed
  seed_undefined,  \* the shadow of the harness's own array of seed bytes
  matched,         \* the output was found equal to the known answer
  stage,           \* what run does next, or "idle"
  verdict,         \* what run returns
  exit             \* the exit status that the gate sees, or -1

harness == <<on_valgrind, error_exitcode, case, mode, environment>>
progress == <<seed_undefined, matched>>

vars == <<flow, harness, progress, stage, verdict, exit>>

Cases == {"public", "sign"}
Modes == {"defined", "tainted"}

(* The variables a case reads: the seed and the known answer.              *)
Required == [public |-> {"secret", "expected_public"},
             sign |-> {"secret", "expected_signature"}]
Variables == UNION {Required[c] : c \in Cases}

Init ==
  /\ FlowInit /\ ~instrumented
  /\ on_valgrind = FALSE /\ error_exitcode = FALSE /\ environment = {}
  /\ case = "missing" /\ mode = "missing"
  /\ seed_undefined = FALSE /\ matched = FALSE
  /\ stage = "idle" /\ verdict = "none" /\ exit = -1

(* The program is started, with its arguments and its environment.  The    *)
(* other options of Valgrind are always those of the gate.                 *)
Launch(build, valgrind, exitcode, c, m, set) ==
  /\ stage = "idle" /\ stage' = "start"
  /\ NewProcess(build)
  /\ on_valgrind' = valgrind /\ error_exitcode' = exitcode
  /\ environment' = set
  /\ case' = c /\ mode' = m
  /\ seed_undefined' = FALSE /\ matched' = FALSE
  /\ verdict' = "none" /\ exit' = -1

(* run goes on to the next stage, or returns.                              *)
GoOn(next) == stage' = next /\ UNCHANGED <<verdict, exit>>
Returns(outcome) ==
  stage' = "returning" /\ verdict' = outcome /\ UNCHANGED exit

-----------------------------------------------------------------------------

(* The checks of run, and required_array, before anything secret exists.   *)
CheckInputs ==
  /\ stage = "start"
  /\ IF /\ on_valgrind
        /\ mode \in Modes /\ case \in Cases
        /\ Required[case] \subseteq environment
     THEN GoOn("apply mode") ELSE Returns("error")
  /\ UNCHANGED <<flow, harness, progress>>

MarkUndefined == seed_undefined' = TRUE

ApplyMode ==
  /\ stage = "apply mode"
  /\ IF mode = "tainted" THEN MarkUndefined ELSE UNCHANGED seed_undefined
  /\ GoOn("import")
  /\ UNCHANGED <<flow, harness, matched>>

Import ==
  /\ stage = "import"
  /\ ImportKey(seed_undefined)
  /\ GoOn("enter")
  /\ UNCHANGED <<harness, progress>>

Enter ==
  /\ stage = "enter"
  /\ EnterCall(IF case = "sign" THEN "sign" ELSE "verifying_key")
  /\ GoOn("call")
  /\ UNCHANGED <<harness, progress>>

Call ==
  /\ stage = "call"
  /\ CallStep
  /\ IF function' # "idle" THEN GoOn("call")
     ELSE IF result' = "ok" THEN GoOn("require vbits")
     ELSE Returns("error")
  /\ UNCHANGED <<harness, progress>>

(* The bytes the harness looks at: to_bytes of what the call returned.     *)
Output == IF case = "sign" THEN "signature" ELSE "public_key"

(* The statuses of get_vbits: success, or a request that was refused.      *)
GetVbits == {1, 3}

RequirePublicVbits ==
  /\ stage = "require vbits"
  /\ \E status \in GetVbits :
       LET undefined == Output \in tainted
       IN  IF status # 1 \/ ((mode = "defined" \/ instrumented) /\ undefined)
           THEN Returns("error") ELSE GoOn("make defined")
  /\ UNCHANGED <<flow, harness, progress>>

(* make_defined(&mut seed): of the array, not of the key's copy of it.     *)
MakeDefined ==
  /\ stage = "make defined"
  /\ seed_undefined' = FALSE
  /\ GoOn("compare")
  /\ UNCHANGED <<flow, harness, matched>>

(* The comparison with the known answer is a branch on the output.         *)
Compare ==
  /\ stage = "compare"
  /\ matched' \in BOOLEAN
  /\ memcheck_error' = (memcheck_error \/ Output \in tainted)
  /\ Returns(IF matched' THEN "ok" ELSE "error")
  /\ UNCHANGED <<instrumented, failpoint, operation, function, at, memory,
                 owned, tainted, result, harness, seed_undefined>>

(* The status of main alone, as if --error-exitcode were not given.        *)
ExitStatusOfMain(outcome) == IF outcome = "ok" THEN 0 ELSE 2

(* main's status, which valgrind --error-exitcode=99 replaces.             *)
ExitStatus(outcome) ==
  IF on_valgrind /\ error_exitcode /\ memcheck_error THEN 99
  ELSE IF outcome = "ok" THEN 0 ELSE 2

Return ==
  /\ stage = "returning"
  /\ stage' = "done"
  /\ exit' = ExitStatus(verdict)
  /\ IF owned["key"] # {} THEN DropKey ELSE UNCHANGED flow
  /\ UNCHANGED <<harness, progress, verdict>>

Step ==
  \/ CheckInputs \/ ApplyMode \/ Import \/ Enter \/ Call
  \/ RequirePublicVbits \/ MakeDefined \/ Compare \/ Return

-----------------------------------------------------------------------------

(* In the instrumented build no branch of a call, and none of the harness, *)
(* depends on an undefined bit: every predicate computed from the seed has *)
(* passed through declassify before it is branched on, on every path to a  *)
(* return.                                                                 *)
NoTaintedBranch == instrumented => ~memcheck_error

(* When the seed is undefined, everything the crate names as a secret      *)
(* computed from it stays undefined for as long as it is in memory:        *)
(* declassify is applied to public outputs and predicates and to nothing   *)
(* a secret owner holds, so the instrumentation hides no secret from       *)
(* Memcheck.                                                               *)
SecretsStayTainted ==
  mode = "tainted" => memory \cap NamedOwners \subseteq tainted

(* What anyone may conclude when a run of the harness exits with 0: the    *)
(* program was under Valgrind and the call returned the known answer.  If  *)
(* Valgrind was given --error-exitcode, as the gate gives it, that value   *)
(* was defined, Memcheck saw no branch on an undefined bit, and if the     *)
(* seed was to be undefined the crate was built with the instrumentation.  *)
(* A run without the option shows as much of an instrumented build.        *)
PassIsEvidence ==
  exit = 0 =>
    /\ on_valgrind /\ result = "ok" /\ matched
    /\ error_exitcode \/ instrumented =>
         /\ Output \notin tainted /\ ~memcheck_error
         /\ mode = "tainted" => instrumented

=============================================================================
