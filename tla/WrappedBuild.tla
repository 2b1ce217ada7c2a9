---------------------------- MODULE WrappedBuild ----------------------------
(***************************************************************************)
(* The build of scripts/check-downstream.sh:31 as it happens: cargo runs   *)
(* several wrappers at once on one marker directory, and has succeeded     *)
(* when every one of them has become a rustc that succeeded.  Downstream   *)
(* takes the whole of it for one step.                                     *)
(***************************************************************************)
EXTENDS ProfileGuard

VARIABLE outcome    \* of cargo build: "running", "succeeded" or "failed"

BuildInit == GuardInit /\ outcome = "running"

(* Cargo waits for what it has started, and starts nothing more when       *)
(* something has failed, as any rustc may.                                 *)
Finish ==
  /\ outcome = "running"
  /\ \/ /\ outcome' = "succeeded"
        /\ \A w \in Wrappers : stage[w] = "exec"
     \/ /\ outcome' = "failed"
        /\ \A w \in Wrappers : stage[w] \in {"start", "exec", "error"}
  /\ UNCHANGED guard_vars

BuildNext ==
  \/ outcome = "running" /\ (\E w \in Wrappers : Wrap(w)) /\ UNCHANGED outcome
  \/ Finish

BuildSpec == BuildInit /\ [][BuildNext]_<<guard_vars, outcome>>

-----------------------------------------------------------------------------
(* The state of check-downstream.sh around its build.                      *)

Made ==
  {<<"home", "caller">>, <<"downstream", "temporary">>}
    \cup {path \in {<<"marker", "temporary">>} : directory = "there"}

Lines ==
  UNION { {<<"marker", "temporary", crate, state>> : state \in Range(marked[crate])} :
            crate \in Recorded }

Gate ==
  INSTANCE Downstream WITH
    MaxSignals <- 0,
    Profiles <- SUBSET {"on", "off", "absent"},
    trapped <- TRUE, signals <- 0,
    home <- "caller", target <- "temporary", marker <- "temporary",
    line <- IF outcome = "succeeded" THEN "crypto_bigint written" ELSE "build",
    exit <- IF outcome = "failed" THEN 1 ELSE -1,
    disk <- CASE outcome = "running" -> Made
              [] outcome = "succeeded" -> Made \cup Lines
              [] OTHER -> {<<"home", "caller">>},
    compiled <- [crate \in Recorded |->
                   IF outcome = "succeeded"
                   THEN {CompiledOverflow(w) : w \in Compiling(crate)} ELSE {}]

(* However the wrappers interleave, the build is to the gate the one step  *)
(* that Downstream takes it for: it fails, or leaves for each crate the    *)
(* lines of exactly the compilations there were; and it cannot succeed     *)
(* when there is no directory for a line.                                  *)
ImplementsBuild == [][Gate!Build]_(Gate!vars)

=============================================================================
