----------------------------- MODULE ProfileGuard ---------------------------
(***************************************************************************)
(* integration/downstream-workspace/rustc-profile-guard.sh: the wrapper    *)
(* that cargo calls in place of rustc, for several compilations at once.   *)
(* A wrapper reads the name of the crate and the overflow-checks option    *)
(* off its command line, appends a line to the marker file of the crate,   *)
(* if it is one of two, and becomes rustc.                                 *)
(*                                                                         *)
(* A command line is made of options as cargo writes them; each is one     *)
(* word or two.  A word is a pair of a flag, or "", and a value, or "".    *)
(***************************************************************************)
EXTENDS Integers, SequencesExt

CONSTANTS
  Wrappers,      \* the processes, one for each compilation
  MaxOptions     \* a bound on the options of all their command lines

ASSUME OptionsAssumption == MaxOptions \in Nat /\ IsFiniteSet(Wrappers)

VARIABLES
  options,        \* each "$@", as the options that cargo means, or <<>>
  directory,      \* of ED301_PROFILE_MARKER_DIR: "unset", "gone", "there"
  place,          \* of the word read next: its option, and which word of it
  stage,          \* "start", "loop", "record", "exec" or "error"
  crate_name, overflow_state, previous,
  marked          \* the marker files: each crate's lines

inputs == <<options, directory>>
locals == <<crate_name, overflow_state, previous>>

guard_vars == <<inputs, place, stage, locals, marked>>

Recorded == {"crypto_bigint", "ed301_eddsa"}

Options ==
  [flag : {"--crate-name"}, value : Recorded \cup {"other"},
   joined : BOOLEAN]
    \cup [flag : {"-C"},
          value : {"overflow-checks=on", "overflow-checks=off", "opt-level=3"},
          joined : BOOLEAN]
    \cup [flag : {""}, value : {"src/lib.rs"}, joined : {TRUE}]

Spelled(option) ==
  IF option.joined THEN <<<<option.flag, option.value>>>>
  ELSE <<<<option.flag, "">>, <<"", option.value>>>>

(* The path of rustc, the first word of a call that has any.               *)
Command == [flag |-> "", value |-> "rustc", joined |-> TRUE]

(* rustc takes one crate name, and of a codegen option the last value.     *)
CommandLines ==
  {given \in BoundedSeq(Options, MaxOptions) :
     Cardinality({i \in DOMAIN given : given[i].flag = "--crate-name"}) <= 1}

OptionsOf(calls) == SumFunction([w \in Wrappers |-> Len(calls[w])])

GuardInit ==
  /\ \/ options = [w \in Wrappers |-> <<>>]
     \/ \E calls \in [Wrappers -> CommandLines] :
          /\ OptionsOf(calls) <= MaxOptions
          /\ options = [w \in Wrappers |-> <<Command>> \o calls[w]]
  /\ directory \in {"unset", "gone", "there"}
  /\ place = [w \in Wrappers |-> <<1, 1>>]
  /\ stage = [w \in Wrappers |-> "start"]
  /\ crate_name = [w \in Wrappers |-> ""]
  /\ overflow_state = [w \in Wrappers |-> "absent"]
  /\ previous = [w \in Wrappers |-> ""]
  /\ marked = [crate \in Recorded |-> <<>>]

-----------------------------------------------------------------------------

GoTo(w, next) == stage' = [stage EXCEPT ![w] = next]

(* A wrapper's variable takes a value.                                     *)
SetCrateName(w, name) == crate_name' = [crate_name EXCEPT ![w] = name]
SetPrevious(w, value) == previous' = [previous EXCEPT ![w] = value]

(* The word read next, and the step to the one after it.                   *)
Option(w) == options[w][place[w][1]]
Word(w) == Spelled(Option(w))[place[w][2]]

Advance(w) ==
  place' = [place EXCEPT ![w] =
              IF @[2] < Len(Spelled(Option(w))) THEN <<@[1], 2>>
                                                ELSE <<@[1] + 1, 1>>]

Start(w) ==
  /\ stage[w] = "start"
  /\ GoTo(w, IF options[w] = <<>> \/ directory = "unset" THEN "error" ELSE "loop")
  /\ UNCHANGED <<inputs, place, locals, marked>>

(* The argument recorded as it is.                                         *)
SetOverflowVerbatim(w, value) ==
  overflow_state' = [overflow_state EXCEPT ![w] = value]

SetOverflow(w, value) ==
  overflow_state' =
    [overflow_state EXCEPT ![w] =
       CASE value = "overflow-checks=on" -> "on"
         [] value = "overflow-checks=off" -> "off"
         [] OTHER -> @]

(* previous left as it is after the value of a codegen option.             *)
ReadValueKeepingPrevious(w) ==
  \/ /\ previous[w] = "crate-name"
     /\ SetCrateName(w, Word(w)[2]) /\ SetPrevious(w, "")
     /\ UNCHANGED overflow_state
  \/ /\ previous[w] = "codegen"
     /\ SetOverflow(w, Word(w)[2])
     /\ UNCHANGED <<crate_name, previous>>

(* The word after --crate-name or -C.                                      *)
ReadValue(w) ==
  /\ SetPrevious(w, "")
  /\ \/ /\ previous[w] = "crate-name"
        /\ SetCrateName(w, Word(w)[2])
        /\ UNCHANGED overflow_state
     \/ /\ previous[w] = "codegen"
        /\ SetOverflow(w, Word(w)[2])
        /\ UNCHANGED crate_name

(* Any other word: a flag that stands alone makes the next its value.      *)
ReadFlag(w) ==
  /\ previous[w] = ""
  /\ LET flag == Word(w)[1]
         value == Word(w)[2]
         alone == value = ""
     IN  \/ /\ flag = "--crate-name"
            /\ SetPrevious(w, IF alone THEN "crate-name" ELSE "")
            /\ SetCrateName(w, IF alone THEN crate_name[w] ELSE value)
            /\ UNCHANGED overflow_state
         \/ /\ flag = "-C"
            /\ SetPrevious(w, IF alone THEN "codegen" ELSE "")
            /\ SetOverflow(w, value)
            /\ UNCHANGED crate_name
         \/ flag = "" /\ UNCHANGED locals

ReadWord(w) ==
  /\ stage[w] = "loop" /\ place[w][1] <= Len(options[w])
  /\ ReadValue(w) \/ ReadFlag(w)
  /\ Advance(w)
  /\ UNCHANGED <<inputs, stage, marked>>

EndLoop(w) ==
  /\ stage[w] = "loop" /\ place[w][1] > Len(options[w])
  /\ GoTo(w, "record")
  /\ UNCHANGED <<inputs, place, locals, marked>>

(* The line written with > in place of >>.                                 *)
RecordTruncating(w) ==
  /\ stage[w] = "record"
  /\ IF crate_name[w] \in Recorded /\ directory = "there"
     THEN marked' = [marked EXCEPT ![crate_name[w]] = <<overflow_state[w]>>]
     ELSE UNCHANGED marked
  /\ GoTo(w, IF crate_name[w] \in Recorded /\ directory = "gone"
             THEN "error" ELSE "exec")
  /\ UNCHANGED <<inputs, place, locals>>

(* The append passed over when it fails.                                   *)
RecordRegardless(w) ==
  /\ stage[w] = "record"
  /\ IF crate_name[w] \in Recorded /\ directory = "there"
     THEN marked' = [marked EXCEPT ![crate_name[w]] = Append(@, overflow_state[w])]
     ELSE UNCHANGED marked
  /\ GoTo(w, "exec")
  /\ UNCHANGED <<inputs, place, locals>>

(* The append, which ends the run under set -e when it fails, and exec.    *)
Record(w) ==
  /\ stage[w] = "record"
  /\ IF crate_name[w] \in Recorded /\ directory = "there"
     THEN marked' = [marked EXCEPT ![crate_name[w]] = Append(@, overflow_state[w])]
     ELSE UNCHANGED marked
  /\ GoTo(w, IF crate_name[w] \in Recorded /\ directory = "gone"
             THEN "error" ELSE "exec")
  /\ UNCHANGED <<inputs, place, locals>>

Wrap(w) == Start(w) \/ ReadWord(w) \/ EndLoop(w) \/ Record(w)

-----------------------------------------------------------------------------
(* How rustc takes the same command line.                                  *)

(* The options of a flag that have one of the values.                      *)
Given(w, flag, values) ==
  {i \in DOMAIN options[w] :
     options[w][i].flag = flag /\ options[w][i].value \in values}

CompiledCrate(w) ==
  LET names == Given(w, "--crate-name", Recorded \cup {"other"})
  IN  IF names = {} THEN "" ELSE options[w][Min(names)].value

CompiledOverflow(w) ==
  LET checks == Given(w, "-C", {"overflow-checks=on", "overflow-checks=off"})
  IN  IF checks = {} THEN "absent"
      ELSE IF options[w][Max(checks)].value = "overflow-checks=on" THEN "on"
      ELSE "off"

(* The wrappers that have become rustc for a crate.                        *)
Compiling(crate) ==
  {w \in Wrappers : stage[w] = "exec" /\ CompiledCrate(w) = crate}

-----------------------------------------------------------------------------

GuardTypeOK ==
  /\ stage \in [Wrappers -> {"start", "loop", "record", "exec", "error"}]
  /\ crate_name \in [Wrappers -> Recorded \cup {"", "other"}]
  /\ overflow_state \in [Wrappers -> {"on", "off", "absent"}]
  /\ previous \in [Wrappers -> {"", "crate-name", "codegen"}]
  /\ \A crate \in Recorded :
       /\ Range(marked[crate]) \subseteq {"on", "off", "absent"}
       /\ Len(marked[crate]) <= Cardinality(Wrappers)

(* At every moment the marker file of a crate has one line for each        *)
(* compilation that a wrapper has gone on to, with the overflow checks     *)
(* rustc takes from the same command line, however each option is spelled  *)
(* and whichever come before and after it: no line of one wrapper is lost  *)
(* to another, and none is there for a compilation that is not to be.      *)
MarkedAsCompiled ==
  \A crate \in Recorded, state \in {"on", "off", "absent"} :
    Cardinality({i \in DOMAIN marked[crate] : marked[crate][i] = state})
      = Cardinality({w \in Compiling(crate) : CompiledOverflow(w) = state})

=============================================================================
