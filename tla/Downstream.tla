----------------------------- MODULE Downstream -----------------------------
(***************************************************************************)
(* scripts/check-downstream.sh: it builds the downstream workspace with    *)
(* rustc-profile-guard.sh in front of rustc, and then reads from the       *)
(* marker files the guard left with which overflow checks the crate and    *)
(* crypto-bigint were compiled.                                            *)
(*                                                                         *)
(* A marker file is what is below its path on the disk: its lines, in no   *)
(* order, since every one of them is looked at.                            *)
(***************************************************************************)
EXTENDS Shell

CONSTANT Profiles    \* what the profiles may compile a crate with: sets of
                     \* overflow states, one or several for each compilation

VARIABLES
  home,           \* CARGO_HOME of the invoking gate, or ""
  compiled,       \* the overflow states each crate was compiled with
  target, marker  \* DOWNSTREAM_TARGET_DIR and ED301_PROFILE_MARKER_DIR

made == <<target, marker>>

vars == <<disk, shell, home, compiled, made>>

Crates == {"crypto_bigint", "ed301_eddsa"}

(* The caller may have both variables in its environment.                  *)
DownstreamInit ==
  /\ compiled = [crate \in Crates |-> {}]
  /\ \E path \in {"", "caller"} : target = path /\ marker = path
  /\ ShellInit

-----------------------------------------------------------------------------

(* The paths that cleanup removes: a variable that is empty names none.    *)
Mine ==
  {path \in {<<"downstream", target>>, <<"marker", marker>>} : path[2] # ""}

MarkerFile(crate) == <<"marker", marker, crate>>

(* The lines of a crate's marker file that are not among those given.      *)
OtherLines(crate, states) ==
  {file \in disk : IsPrefix(MarkerFile(crate), file)
                     /\ file[4] \notin states}

CheckHome ==
  /\ At("home")
  /\ IF home # "" THEN GoTo("reset") /\ UNCHANGED disk ELSE Exit(2, {})
  /\ UNCHANGED <<home, compiled, made>>

(* Both variables are emptied ahead of the trap.                           *)
ResetVariables ==
  /\ At("reset")
  /\ target' = "" /\ marker' = ""
  /\ SetTrap("target")
  /\ UNCHANGED <<disk, home, compiled>>

MakeTarget ==
  /\ At("target")
  /\ \/ /\ target' = "temporary"
        /\ disk' = disk \cup {<<"downstream", "temporary">>}
        /\ GoTo("marker")
     \/ target' = "" /\ Exit(1, Mine)
  /\ UNCHANGED <<home, compiled, marker>>

MakeMarkers ==
  /\ At("marker")
  /\ \/ /\ marker' = "temporary"
        /\ disk' = disk \cup {<<"marker", "temporary">>}
        /\ GoTo("build")
     \/ marker' = "" /\ Exit(1, Mine)
  /\ UNCHANGED <<home, compiled, target>>

(* What any cargo makes again if it is gone.                               *)
CargoDirectories == {<<"home", home>>, <<"downstream", target>>}

(* cargo build: each compilation of a crate appends a line to its file; a  *)
(* guard that finds no directory to write in fails, and the build with it. *)
Build ==
  /\ At("build")
  /\ \/ /\ compiled' \in [Crates -> Profiles]
        /\ LET lines == UNION { {Append(MarkerFile(crate), state) :
                                   state \in compiled'[crate]} : crate \in Crates}
           IN  /\ lines = {} \/ Has(<<"marker", marker>>)
               /\ disk' = disk \cup lines \cup CargoDirectories
        /\ GoTo("crypto_bigint written")
     \/ Exit(1, Mine) /\ UNCHANGED compiled
  /\ UNCHANGED <<home, made>>

(* [ ! -s "$marker" ]                                                      *)
CheckWritten(crate, next) ==
  /\ IF Has(MarkerFile(crate)) THEN GoTo(next) /\ UNCHANGED disk
     ELSE Exit(1, Mine)
  /\ UNCHANGED <<home, compiled, made>>

CryptoWritten ==
  /\ At("crypto_bigint written")
  /\ CheckWritten("crypto_bigint", "ed301_eddsa written")

Ed301Written ==
  /\ At("ed301_eddsa written")
  /\ CheckWritten("ed301_eddsa", "crypto_bigint lines")

(* if grep -qv ...: the branch taken is the one that a line which does not *)
(* match selects.  grep finds no such line in a file that is not there:    *)
(* it fails, and the script goes on, as it would if all lines matched.     *)
CheckLines(crate, states, next) ==
  /\ IF OtherLines(crate, states) # {} THEN Exit(1, Mine)
     ELSE GoTo(next) /\ UNCHANGED disk
  /\ UNCHANGED <<home, compiled, made>>

CryptoLines ==
  /\ At("crypto_bigint lines")
  /\ CheckLines("crypto_bigint", {"off", "absent"}, "ed301_eddsa lines")

(* The pattern of the other file.                                          *)
Ed301LinesAnyPresent ==
  /\ At("ed301_eddsa lines")
  /\ CheckLines("ed301_eddsa", {"on", "absent"}, "cargo")

Ed301Lines ==
  /\ At("ed301_eddsa lines")
  /\ CheckLines("ed301_eddsa", {"on"}, "cargo")

(* fmt, clippy, test and run, which make the target directory if need be.  *)
Cargo ==
  /\ At("cargo")
  /\ \/ /\ disk' = disk \cup CargoDirectories
        /\ GoTo("end")
     \/ Exit(1, Mine)
  /\ UNCHANGED <<home, compiled, made>>

Finish ==
  /\ At("end")
  /\ Exit(0, Mine)
  /\ UNCHANGED <<home, compiled, made>>

Interrupt == Signal(Mine) /\ UNCHANGED <<home, compiled, made>>

Next ==
  \/ CheckHome \/ ResetVariables \/ MakeTarget \/ MakeMarkers \/ Build
  \/ CryptoWritten \/ Ed301Written \/ CryptoLines \/ Ed301Lines
  \/ Cargo \/ Finish \/ Interrupt

-----------------------------------------------------------------------------

TypeOK ==
  /\ {target, marker} \subseteq {"", "caller", "temporary"}
  /\ trapped => "caller" \notin {target, marker}
  /\ exit \in {-1, 0, 1, 2, 143} /\ signals \in 0 .. MaxSignals

(* What the caller happens to have under the names of the two variables is *)
(* left alone by every cleanup, that of a failed mktemp included.          *)
CallerDirectoriesKept ==
  Has(<<"downstream", "caller">>) /\ Has(<<"marker", "caller">>)

(* However the script ends, both of its directories are gone, also when a  *)
(* handler removed them and the next cargo made one of them again.         *)
NothingLeftBehind ==
  exit # -1 => /\ ~Has(<<"downstream", "temporary">>)
               /\ ~Has(<<"marker", "temporary">>)

(* What the script is there to find out: the crate was compiled, always    *)
(* with the checks, and crypto-bigint too, always without them.            *)
ProfileHeld ==
  /\ compiled["ed301_eddsa"] = {"on"}
  /\ compiled["crypto_bigint"] # {}
  /\ compiled["crypto_bigint"] \subseteq {"off", "absent"}

=============================================================================
