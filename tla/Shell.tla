------------------------------- MODULE Shell --------------------------------
(***************************************************************************)
(* What the gate scripts under scripts/ take from sh: they run one command *)
(* after another under set -e, and have                                    *)
(*   trap cleanup EXIT HUP INT TERM                                        *)
(* with a cleanup that does not exit.  A signal that arrives during a      *)
(* command is handled when the command has ended, so that it is always     *)
(* handled between two commands; the handler runs cleanup, and the script  *)
(* goes on with the next command.  A signal before the trap is set kills   *)
(* the script.  mktemp and rm are one step each.                           *)
(*                                                                         *)
(* A file is the sequence of the names on its path.                        *)
(***************************************************************************)
EXTENDS Integers, SequencesExt

CONSTANT MaxSignals    \* a bound on the signals

VARIABLES
  disk,       \* the files and directories there are
  line,       \* the command the script is at
  trapped,    \* the trap is set
  signals,    \* how many signals have been handled
  exit        \* the exit status, or -1

shell == <<line, trapped, signals, exit>>

ShellInit == trapped = FALSE /\ signals = 0 /\ exit = -1

At(command) == exit = -1 /\ line = command

GoTo(command) == line' = command /\ UNCHANGED <<trapped, signals, exit>>

Has(path) == \E file \in disk : IsPrefix(path, file)

RemoveAll(paths) ==
  disk' = {file \in disk : \A path \in paths : ~IsPrefix(path, file)}

(* The script ends; cleanup removes the paths given, if it is trapped.     *)
Exit(status, paths) ==
  /\ exit' = status
  /\ RemoveAll(IF trapped THEN paths ELSE {})
  /\ UNCHANGED <<line, trapped, signals>>

SetTrap(command) ==
  trapped' = TRUE /\ line' = command /\ UNCHANGED <<signals, exit>>

(* The handler that exits, so that cleanup runs again as the EXIT trap.    *)
SignalExiting(paths) ==
  /\ exit = -1 /\ signals < MaxSignals
  /\ signals' = signals + 1
  /\ RemoveAll(IF trapped THEN paths ELSE {})
  /\ exit' = 143
  /\ UNCHANGED <<line, trapped>>

Signal(paths) ==
  /\ exit = -1 /\ signals < MaxSignals
  /\ signals' = signals + 1
  /\ RemoveAll(IF trapped THEN paths ELSE {})
  /\ exit' = IF trapped THEN exit ELSE 143
  /\ UNCHANGED <<line, trapped>>

=============================================================================
