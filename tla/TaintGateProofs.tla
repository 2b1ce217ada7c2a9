--------------------------- MODULE TaintGateProofs --------------------------
(***************************************************************************)
(* Theorems about TaintGate, for any number of signals: what Memcheck sees *)
(* of a run of the harness, and what the exit of the gate with 0 means.    *)
(***************************************************************************)
EXTENDS TaintGate, SequenceTheorems, TLAPS

(* HarnessProofs, of the harness in the gate.                              *)
P == INSTANCE HarnessProofs WITH exit <- h_exit

-----------------------------------------------------------------------------
(* The program that HarnessProofs speaks of is that of TaintGate.          *)

(* The bodies are the same.                                                *)
LEMMA SameBodies ==
  H!Body = P!Body /\ H!DeriveBody = P!DeriveBody
  BY DEF H!Body, H!DeriveBody, H!ExportBody, H!SignExpandedBody,
         H!ResponseBytes, H!EncodePublicArtifact, H!FaultPredicate,
         H!Guarded, H!Plain, H!Consumed, H!Declassified, H!Branch,
         H!Failpoint, P!Body, P!DeriveBody, P!ExportBody, P!SignExpandedBody,
         P!ResponseBytes, P!EncodePublicArtifact, P!FaultPredicate,
         P!Guarded, P!Plain, P!Consumed, P!Declassified, P!Branch,
         P!Failpoint

(* A step of a call is the same.                                           *)
LEMMA SameCallStep == H!CallStep <=> P!CallStep
<1>1. H!Statement = P!Statement
  BY SameBodies DEF H!Statement, P!Statement
<1>2. \A kind : H!Runs(kind) <=> P!Runs(kind)
  BY <1>1, SameBodies DEF H!Runs, P!Runs
<1>3. H!Advance <=> P!Advance
  BY DEF H!Advance, P!Advance
<1>4. \A outcome : H!EndCall(outcome) <=> P!EndCall(outcome)
  BY DEF H!EndCall, P!EndCall, H!Wipe, P!Wipe
<1>5. H!Let <=> P!Let
  BY <1>1, <1>2, <1>3 DEF H!Let, P!Let
<1>6. H!Consume <=> P!Consume
  BY <1>1, <1>2, <1>3 DEF H!Consume, P!Consume, H!Wipe, P!Wipe
<1>7. H!Declassify <=> P!Declassify
  BY <1>1, <1>2, <1>3 DEF H!Declassify, P!Declassify
<1>8. H!Check <=> P!Check
  BY <1>1, <1>2, <1>3, <1>4 DEF H!Check, P!Check
<1>9. H!HitFailpoint <=> P!HitFailpoint
  BY <1>1, <1>2, <1>3, <1>4 DEF H!HitFailpoint, P!HitFailpoint
<1>10. H!ReturnDerived <=> P!ReturnDerived
  BY SameBodies DEF H!ReturnDerived, P!ReturnDerived, H!Wipe, P!Wipe
<1>11. H!ReturnFromCall <=> P!ReturnFromCall
  BY <1>4, SameBodies DEF H!ReturnFromCall, P!ReturnFromCall
<1> QED
  BY <1>5, <1>6, <1>7, <1>8, <1>9, <1>10, <1>11 DEF H!CallStep, P!CallStep

(* A step of the program is the same.                                      *)
LEMMA SameStep == H!Step <=> P!Step
<1>1. /\ H!flow = P!flow /\ H!harness = P!harness
      /\ H!progress = P!progress /\ H!Output = P!Output
      /\ H!flow' = P!flow' /\ H!harness' = P!harness'
      /\ H!progress' = P!progress'
  BY DEF H!flow, P!flow, H!harness, P!harness, H!progress, P!progress,
         H!Output, P!Output
<1>2. \A next : H!GoOn(next) <=> P!GoOn(next)
  BY DEF H!GoOn, P!GoOn
<1>3. \A outcome : H!Returns(outcome) <=> P!Returns(outcome)
  BY DEF H!Returns, P!Returns
<1>4. H!CheckInputs <=> P!CheckInputs
  BY <1>1, <1>2, <1>3
     DEF H!CheckInputs, P!CheckInputs, H!Modes, P!Modes, H!Cases, P!Cases,
         H!Required, P!Required
<1>5. H!ApplyMode <=> P!ApplyMode
  BY <1>1, <1>2 DEF H!ApplyMode, P!ApplyMode, H!MarkUndefined, P!MarkUndefined
<1>6. H!Import <=> P!Import
  BY <1>1, <1>2 DEF H!Import, P!Import, H!ImportKey, P!ImportKey
<1>7. H!Enter <=> P!Enter
  BY <1>1, <1>2 DEF H!Enter, P!Enter, H!EnterCall, P!EnterCall
<1>8. H!Call <=> P!Call
  BY <1>1, <1>2, <1>3, SameCallStep DEF H!Call, P!Call
<1>9. H!RequirePublicVbits <=> P!RequirePublicVbits
  BY <1>1, <1>2, <1>3
     DEF H!RequirePublicVbits, P!RequirePublicVbits, H!GetVbits, P!GetVbits
<1>10. H!MakeDefined <=> P!MakeDefined
  BY <1>1, <1>2 DEF H!MakeDefined, P!MakeDefined
<1>11. H!Compare <=> P!Compare
  BY <1>1, <1>3 DEF H!Compare, P!Compare
<1>12. H!Return <=> P!Return
  BY <1>1
     DEF H!Return, P!Return, H!ExitStatus, P!ExitStatus, H!DropKey, P!DropKey,
         H!Wipe, P!Wipe
<1> QED
  BY <1>4, <1>5, <1>6, <1>7, <1>8, <1>9, <1>10, <1>11, <1>12
     DEF H!Step, P!Step

(* Its start is the same.                                                  *)
LEMMA SameStart ==
  /\ H!Init <=> P!Init
  /\ \A build, valgrind, exitcode, c, m, set :
       H!Launch(build, valgrind, exitcode, c, m, set)
         <=> P!Launch(build, valgrind, exitcode, c, m, set)
<1>1. H!Init <=> P!Init
  BY DEF H!Init, P!Init, H!FlowInit, P!FlowInit, H!Frames, P!Frames
<1>2. \A build, valgrind, exitcode, c, m, set :
        H!Launch(build, valgrind, exitcode, c, m, set)
          <=> P!Launch(build, valgrind, exitcode, c, m, set)
  BY DEF H!Launch, P!Launch, H!NewProcess, P!NewProcess, H!Frames, P!Frames
<1> QED  BY <1>1, <1>2

(* What is promised of it is the same.                                     *)
LEMMA SamePromises ==
  /\ NoTaintedBranch <=> P!NoTaintedBranch
  /\ SecretsStayTainted <=> P!SecretsStayTainted
  /\ PassIsEvidence <=> P!PassIsEvidence
<1>1. NoTaintedBranch <=> P!NoTaintedBranch
  BY DEF NoTaintedBranch, H!NoTaintedBranch, P!NoTaintedBranch
<1>2. SecretsStayTainted <=> P!SecretsStayTainted
  BY DEF SecretsStayTainted, H!SecretsStayTainted, P!SecretsStayTainted,
         H!NamedOwners, P!NamedOwners
<1>3. PassIsEvidence <=> P!PassIsEvidence
  BY DEF PassIsEvidence, H!PassIsEvidence, P!PassIsEvidence,
         H!Output, P!Output
<1> QED  BY <1>1, <1>2, <1>3

-----------------------------------------------------------------------------
(* The inductive invariant.                                                *)

(* The names on the paths.                                                 *)
PathNames == {"", "caller", "temporary"}
(* All names on the paths.                                                 *)
Names == {"home", "target"} \cup PathNames \cup {"stale", "fresh"}

(* Files have three names at most, a harness being the deepest.            *)
DiskOK == \A file \in disk : file \in Seq(Names) /\ Len(file) <= 3

(* The lines of check-secret-taint.sh, and that of no script at all.       *)
GateLines ==
  {"none", "tools", "trap", "home", "home flag", "target", "target flag",
   "steps"}

(* The gate has not begun its steps, or it is at one of them.              *)
LineOK ==
  /\ script = "check_secret_taint" /\ path \in [G!Kinds -> PathNames]
  /\ line \in GateLines /\ step \in 1 .. 6
  /\ line # "steps" => step = 1 /\ exit # 0
  /\ line = "none" => exit = -1
  /\ exit = 0 => step = 6

(* A harness older than the gate is gone once the build has succeeded.     *)
FreshOK == step > 1 => Append(G!Target, "stale") \notin disk

(* What the gate ought to see of its n-th run.                             *)
Expected(n) ==
  [mode |-> Invocations[n][1], case |-> Invocations[n][2],
   on_valgrind |-> TRUE, instrumented |-> TRUE, matched |-> TRUE,
   branched |-> FALSE, undefined |-> FALSE]

(* The gate has seen what it ought to of the runs it has passed.           *)
EvidenceOK == evidence = {Expected(n) : n \in 1 .. step - 2}

(* While the harness runs, the gate waits, and the run is the one that the *)
(* gate is at.                                                             *)
RunOK ==
  line # "none" /\ stage # "idle" =>
    /\ Running
    /\ mode = Invocations[step - 1][1] /\ case = Invocations[step - 1][2]
    /\ on_valgrind /\ error_exitcode /\ instrumented

(* The inductive invariant.                                                *)
TInv ==
  /\ P!HInv /\ P!BooleansOK
  /\ LineOK /\ DiskOK /\ FreshOK /\ EvidenceOK /\ RunOK

-----------------------------------------------------------------------------
(* Lemmas on the script.                                                   *)

(* The first of the five steps is the build.                               *)
LEMMA StepsFacts ==
  /\ Len(G!Steps["check_secret_taint"]) = 5
  /\ G!Steps["check_secret_taint"][1] = "build"
  /\ \A n \in 2 .. 5 : G!Steps["check_secret_taint"][n] # "build"
  BY DEF G!Steps

(* The other four are runs of the harness.                                 *)
LEMMA InvocationsFacts == Len(Invocations) = 4
  BY DEF Invocations

(* A path of three names is a prefix of no other path of as many at most.  *)
LEMMA LongestPath ==
  ASSUME NEW S, NEW p \in Seq(S), NEW file \in Seq(S),
         Len(p) = 3, Len(file) <= 3, G!IsPrefix(p, file)
  PROVE  file = p
<1>1. 3 <= Len(file) /\ SubSeq(p, 1, 3) = SubSeq(file, 1, 3)
  BY DEF G!IsPrefix
<1>2. Len(file) = 3
  BY <1>1
<1>3. SubSeq(p, 1, 3) = p /\ SubSeq(file, 1, 3) = file
  BY <1>2, SubSeqFull
<1> QED  BY <1>1, <1>3

(* The path of a harness has three names.                                  *)
LEMMA HarnessPath ==
  ASSUME LineOK, NEW age \in {"stale", "fresh"}
  PROVE  Append(G!Target, age) \in Seq(Names) /\ Len(Append(G!Target, age)) = 3
<1>1. "target" \in Names /\ path["target"] \in Names /\ age \in Names
  BY DEF LineOK, G!Kinds, Names, PathNames
<1>2. G!Target \in Seq(Names) /\ Len(G!Target) = 2
  BY <1>1 DEF G!Target
<1>3. \A S : \A p \in Seq(S) : \A e \in S :
        Append(p, e) \in Seq(S) /\ Len(Append(p, e)) = Len(p) + 1
  OBVIOUS
<1>4. Append(G!Target, age) \in Seq(Names)
  BY <1>1, <1>2, <1>3
<1>5. Len(Append(G!Target, age)) = Len(G!Target) + 1
  BY <1>1, <1>2, <1>3
<1> QED  BY <1>2, <1>4, <1>5

(* After the build there is no older harness to run.                       *)
LEMMA NoStaleBinary ==
  ASSUME LineOK, DiskOK, FreshOK, step > 1
  PROVE  "stale" \notin G!Binaries
<1> SUFFICES ASSUME "stale" \in G!Binaries PROVE FALSE
  OBVIOUS
<1>1. PICK file \in disk : G!IsPrefix(Append(G!Target, "stale"), file)
  BY DEF G!Binaries, G!Has
<1>2. file \in Seq(Names) /\ Len(file) <= 3
  BY DEF DiskOK
<1> DEFINE q == Append(G!Target, "stale")
<1>3. q \in Seq(Names) /\ Len(q) = 3
  BY HarnessPath
<1>4. G!IsPrefix(q, file) /\ q \notin disk
  BY <1>1 DEF FreshOK
<1> HIDE DEF q
<1>5. file = q
  BY <1>2, <1>3, <1>4, LongestPath
<1> QED  BY <1>4, <1>5

(* The target directory is what CARGO_TARGET_DIR names.                    *)
LEMMA TargetRests ==
  ASSUME path' = path
  PROVE  G!Target' = G!Target
  BY DEF G!Target

(* Removing files disturbs nothing.                                        *)
LEMMA RemovingKeeps ==
  ASSUME DiskOK, FreshOK, path' = path, step' = step, disk' \subseteq disk
  PROVE  DiskOK' /\ FreshOK'
  BY TargetRests DEF DiskOK, FreshOK

(* The harness is not running and the gate does something else.            *)
LEMMA GateMoves ==
  ASSUME TInv, stage = "idle", UNCHANGED <<process, evidence>>
  PROVE  P!HInv' /\ P!BooleansOK' /\ RunOK'
<1>1. /\ UNCHANGED <<P!flow, P!harness, P!progress, verdict>>
      /\ UNCHANGED <<stage, h_exit>>
  BY DEF process, P!flow, P!harness, P!progress
<1>2. P!HInv'
  BY <1>1, P!RestKeeps DEF TInv
<1>3. P!BooleansOK'
  BY DEF TInv, P!BooleansOK, process
<1>4. RunOK'
  BY <1>1 DEF RunOK
<1> QED  BY <1>2, <1>3, <1>4

(* An exit other than 0, and a signal, leave the script where it is.       *)
LEMMA StoppingKeeps ==
  ASSUME TInv, UNCHANGED <<script, use, path, step>>,
         disk' \subseteq disk, line' = line, evidence' = evidence,
         line = "none" => exit' = -1, exit' # 0
  PROVE  LineOK' /\ DiskOK' /\ FreshOK' /\ EvidenceOK'
<1>1. DiskOK' /\ FreshOK'
  BY RemovingKeeps DEF TInv
<1>2. LineOK'
  BY DEF TInv, LineOK, G!Kinds
<1>3. EvidenceOK'
  BY DEF TInv, EvidenceOK, Expected, Invocations
<1> QED  BY <1>1, <1>2, <1>3

(* What an exit does.                                                      *)
LEMMA ExitIs ==
  ASSUME NEW status, NEW paths, G!Exit(status, paths)
  PROVE  exit' = status /\ disk' \subseteq disk /\ line' = line
  BY DEF G!Exit, G!RemoveAll

(* A signal, wherever it comes, keeps the gate's part of the invariant.    *)
LEMMA InterruptKeeps ==
  ASSUME TInv, line # "none", G!Interrupt, evidence' = evidence
  PROVE  LineOK' /\ DiskOK' /\ FreshOK' /\ EvidenceOK'
<1>1. /\ UNCHANGED <<script, use, path, step>> /\ line' = line
      /\ disk' \subseteq disk /\ exit' # 0
  BY DEF G!Interrupt, G!Signal, G!RemoveAll, G!settings
<1> QED  BY <1>1, StoppingKeeps

(* The script goes on to a line before its steps.                          *)
LEMMA GoingOnKeeps ==
  ASSUME TInv, line \notin {"none", "steps"}, exit = -1,
         NEW next \in GateLines \ {"none"}, line' = next, exit' = exit,
         UNCHANGED <<script, step, evidence>>,
         path' \in [G!Kinds -> PathNames],
         \A file \in disk' : file \in disk
             \/ (file \in Seq(Names) /\ Len(file) <= 3)
  PROVE  LineOK' /\ DiskOK' /\ FreshOK' /\ EvidenceOK'
<1>1. step = 1
  BY DEF TInv, LineOK
<1>2. LineOK'
  BY <1>1 DEF TInv, LineOK, G!Kinds
<1>3. DiskOK' /\ FreshOK'
  BY <1>1 DEF TInv, DiskOK, FreshOK
<1>4. EvidenceOK'
  BY DEF TInv, EvidenceOK, Expected, Invocations
<1> QED  BY <1>2, <1>3, <1>4

(* So does the choice of a directory, and the flag that goes with it.      *)
LEMMA SelectKeeps ==
  ASSUME TInv, evidence' = evidence,
         NEW kind \in G!Kinds, G!Select(kind) \/ G!SetFlag(kind)
  PROVE  LineOK' /\ DiskOK' /\ FreshOK' /\ EvidenceOK'
<1>1. kind \in {"home", "target"} /\ path \in [G!Kinds -> PathNames]
  BY DEF TInv, LineOK, G!Kinds
<1>2. /\ G!Flag["home"] = "home flag" /\ G!Flag["target"] = "target flag"
      /\ G!After["home"] = "target" /\ G!After["target"] = "steps"
  BY DEF G!Flag, G!After
<1>3. G!At(kind) \/ G!At(G!Flag[kind])
  BY DEF G!Select, G!SetFlag
<1>4. exit = -1 /\ line \notin {"none", "steps"}
  BY <1>1, <1>2, <1>3 DEF G!At
<1>5. script' = script /\ use' = use /\ step' = step
  BY DEF G!Select, G!SetFlag, G!settings
<1>6. /\ exit = -1 /\ line \notin {"none", "steps"}
      /\ UNCHANGED <<script, use, step>>
  BY <1>4, <1>5
<1>7. /\ G!Flag[kind] \in GateLines \ {"none"}
      /\ G!After[kind] \in GateLines \ {"none"}
  BY <1>1, <1>2 DEF GateLines
<1>8. \A next : G!GoTo(next) => line' = next /\ exit' = exit
  BY DEF G!GoTo
<1>9. CASE G!Exit(1, G!Mine) /\ path' = [path EXCEPT ![kind] = ""]
  <2>1. exit' = 1 /\ disk' \subseteq disk /\ line' = line
    BY <1>9, ExitIs
  <2>2. path' \in [G!Kinds -> PathNames]
    BY <1>1, <1>9 DEF PathNames
  <2>3. step = 1 /\ step' = 1
    BY <1>6 DEF TInv, LineOK
  <2>4. line' # "steps" /\ line' # "none" /\ exit' # 0 /\ line' \in GateLines
    BY <1>6, <2>1 DEF TInv, LineOK
  <2>5. script' = "check_secret_taint"
    BY <1>6 DEF TInv, LineOK
  <2>6. step' \in 1 .. 6
    BY <2>3
  <2>7. LineOK'
    BY <2>4, <2>5, <2>6, <2>2, <2>3 DEF LineOK
  <2>8. DiskOK' /\ FreshOK'
    BY <2>1, <2>3 DEF TInv, DiskOK, FreshOK
  <2>9. EvidenceOK'
    BY <1>6 DEF TInv, EvidenceOK, Expected, Invocations
  <2> QED  BY <2>7, <2>8, <2>9
<1>10. CASE G!Exit(2, G!Mine) /\ path' = path
  <2>1. exit' = 2 /\ disk' \subseteq disk /\ line' = line
    BY <1>10, ExitIs
  <2> QED  BY <1>6, <1>10, <2>1, StoppingKeeps
<1>11. CASE /\ path' = [path EXCEPT ![kind] = "temporary"]
           /\ disk' = disk \cup {<<kind, "temporary">>}
           /\ G!GoTo(G!Flag[kind])
  <2>1. path' \in [G!Kinds -> PathNames]
    BY <1>1, <1>11 DEF PathNames
  <2>2. kind \in Names /\ "temporary" \in Names
    BY <1>1 DEF Names, PathNames
  <2>3. <<kind, "temporary">> \in Seq(Names) /\ Len(<<kind, "temporary">>) <= 3
    BY <2>2
  <2>4. \A file \in disk' : file \in disk
            \/ (file \in Seq(Names) /\ Len(file) <= 3)
    BY <1>11, <2>3
  <2> QED  BY <1>6, <1>7, <1>8, <1>11, <2>1, <2>4, GoingOnKeeps
<1>12. CASE G!GoTo(G!After[kind]) /\ path' = path /\ disk' = disk
  <2>1. path' \in [G!Kinds -> PathNames]
    BY <1>1, <1>12
  <2> QED  BY <1>6, <1>7, <1>8, <1>12, <2>1, GoingOnKeeps
<1> QED
  BY <1>9, <1>10, <1>11, <1>12 DEF G!Select, G!SetFlag

(* So does a command when no harness can run: only the build succeeds.     *)
LEMMA RunStepKeeps ==
  ASSUME TInv, ~Running, G!RunStep, evidence' = evidence
  PROVE  LineOK' /\ DiskOK' /\ FreshOK' /\ EvidenceOK'
<1>1. /\ exit = -1 /\ line = "steps" /\ step \in 1 .. 6
      /\ script = "check_secret_taint" /\ path \in [G!Kinds -> PathNames]
      /\ UNCHANGED <<script, use, path>>
  BY DEF TInv, LineOK, G!RunStep, G!At, G!settings
<1>2. step \in 1 .. 5
  BY <1>1, StepsFacts DEF G!RunStep
<1>3. CASE G!Exit(1, G!Mine) /\ UNCHANGED <<passed, step>>
  <2>1. exit' = 1 /\ disk' \subseteq disk /\ line' = line
    BY <1>3, ExitIs
  <2> QED  BY <1>1, <1>3, <2>1, StoppingKeeps
<1>4. CASE /\ (G!Steps[script][step] # "build" => G!Binaries # {})
           /\ disk' = IF G!Steps[script][step] # "build" THEN disk
                      ELSE G!Written(G!Steps[script][step])
           /\ step' = step + 1 /\ G!GoTo("steps")
  <2>1. step = 1
    <3>1. step \in 2 .. 5 => G!Binaries # {}
      BY <1>1, <1>4, StepsFacts
    <3>2. step \in 2 .. 5 => Running
      BY <1>1, <3>1, InvocationsFacts DEF Running, G!At
    <3> QED  BY <1>2, <3>2
  <2>2. G!Steps[script][step] = "build"
    BY <1>1, <2>1, StepsFacts
  <2>3. disk' = (disk \cup {<<kind, path[kind]>> : kind \in G!Kinds}
                   \cup {Append(G!Target, "fresh")})
                  \ {Append(G!Target, "stale")}
    BY <1>4, <2>2 DEF G!Written
  <2>4. step' = 2 /\ line' = "steps" /\ exit' = -1
    BY <1>1, <1>4, <2>1 DEF G!GoTo
  <2>5. LineOK'
    BY <1>1, <2>4 DEF LineOK, GateLines, G!Kinds
  <2>6. DiskOK'
    <3>1. LineOK
      BY DEF TInv
    <3>2. /\ Append(G!Target, "fresh") \in Seq(Names)
          /\ Len(Append(G!Target, "fresh")) = 3
      BY <3>1, HarnessPath
    <3>3. \A kind \in G!Kinds :
            <<kind, path[kind]>> \in Seq(Names)
                /\ Len(<<kind, path[kind]>>) = 2
      <4>1. \A kind \in G!Kinds : kind \in Names /\ path[kind] \in Names
        BY <1>1 DEF G!Kinds, Names, PathNames
      <4> QED  BY <4>1
    <3> QED  BY <2>3, <3>2, <3>3 DEF TInv, DiskOK
  <2>7. FreshOK'
    <3>1. Append(G!Target, "stale") \notin disk'
      BY <2>3
    <3> QED  BY <1>1, <3>1, TargetRests DEF FreshOK
  <2>8. EvidenceOK'
    <3>1. {Expected(n) : n \in 1 .. step - 2} = {}
      BY <2>1
    <3>2. {Expected(n) : n \in 1 .. 2 - 2} = {}
      OBVIOUS
    <3> QED  BY <2>4, <3>1, <3>2 DEF TInv, EvidenceOK, Expected, Invocations
  <2> QED  BY <2>5, <2>6, <2>7, <2>8
<1> QED  BY <1>1, <1>3, <1>4 DEF G!RunStep

(* The gate's own steps keep the invariant.                                *)
LEMMA GateStepKeeps ==
  ASSUME TInv, GateStep
  PROVE  TInv'
<1>1. /\ line # "none" /\ ~Running /\ G!Next
      /\ UNCHANGED process /\ evidence' = evidence
  BY DEF GateStep
<1>2. stage = "idle"
  BY <1>1 DEF TInv, RunOK
<1>3. P!HInv' /\ P!BooleansOK' /\ RunOK'
  BY <1>1, <1>2, GateMoves
<1>4. LineOK
  BY DEF TInv
<1>5. LineOK' /\ DiskOK' /\ FreshOK' /\ EvidenceOK'
  <2>1. CASE G!CheckTools
    <3>1. /\ line = "tools" /\ exit = -1
          /\ UNCHANGED <<script, use, path, step>>
      BY <2>1 DEF G!CheckTools, G!At, G!settings
    <3>2. CASE G!Exit(127, G!Mine)
      BY <1>1, <3>1, <3>2, ExitIs, StoppingKeeps
    <3>3. CASE /\ G!GoTo(IF script = "check" THEN "manifests" ELSE "trap")
               /\ disk' = disk
      <4>1. line' = "trap" /\ exit' = exit
        BY <1>4, <3>3 DEF G!GoTo, LineOK
      <4>2. "trap" \in GateLines \ {"none"}
        BY DEF GateLines
      <4>3. path' \in [G!Kinds -> PathNames]
        BY <1>4, <3>1 DEF LineOK
      <4> QED  BY <1>1, <3>1, <3>3, <4>1, <4>2, <4>3, GoingOnKeeps
    <3> QED  BY <2>1, <3>2, <3>3 DEF G!CheckTools
  <2>2. CASE G!CheckManifests
    BY <1>4, <2>2 DEF G!CheckManifests, G!At, LineOK, GateLines
  <2>3. CASE G!Trap
    <3>1. /\ line = "trap" /\ exit = -1 /\ disk' = disk
          /\ UNCHANGED <<script, use, path, step>>
          /\ line' = "home" /\ exit' = exit
      BY <2>3 DEF G!Trap, G!At, G!SetTrap, G!settings
    <3>2. "home" \in GateLines \ {"none"}
      BY DEF GateLines
    <3>3. path' \in [G!Kinds -> PathNames]
      BY <1>4, <3>1 DEF LineOK
    <3> QED  BY <1>1, <3>1, <3>2, <3>3, GoingOnKeeps
  <2>4. CASE \E kind \in G!Kinds : G!Select(kind) \/ G!SetFlag(kind)
    BY <1>1, <2>4, SelectKeeps
  <2>5. CASE G!RunStep
    BY <1>1, <2>5, RunStepKeeps
  <2>6. CASE G!Finish
    <3>1. /\ exit' = 0 /\ disk' \subseteq disk /\ line' = line
          /\ line = "steps" /\ step > Len(G!Steps[script])
          /\ UNCHANGED <<script, use, path, step>>
      BY <2>6, ExitIs DEF G!Finish, G!At, G!settings
    <3>2. step = 6
      BY <1>4, <3>1, StepsFacts DEF LineOK
    <3>3. LineOK'
      BY <1>4, <3>1, <3>2 DEF LineOK, G!Kinds
    <3>4. DiskOK' /\ FreshOK'
      BY <3>1, RemovingKeeps DEF TInv
    <3>5. EvidenceOK'
      BY <1>1, <3>1 DEF TInv, EvidenceOK, Expected, Invocations
    <3> QED  BY <3>3, <3>4, <3>5
  <2>7. CASE G!Interrupt
    BY <1>1, <2>7, InterruptKeeps
  <2> QED
    BY <1>1, <2>1, <2>2, <2>3, <2>4, <2>5, <2>6, <2>7 DEF G!Next
<1> QED  BY <1>3, <1>5 DEF TInv

(* The gate's own state rests.                                             *)
LEMMA GateRests ==
  ASSUME LineOK, DiskOK, FreshOK, EvidenceOK, UNCHANGED <<gate, evidence>>
  PROVE  LineOK' /\ DiskOK' /\ FreshOK' /\ EvidenceOK'
<1>1. /\ disk' = disk /\ line' = line /\ exit' = exit /\ script' = script
      /\ path' = path /\ step' = step /\ evidence' = evidence
  BY DEF gate
<1>2. LineOK'
  BY <1>1 DEF LineOK, G!Kinds
<1>3. DiskOK' /\ FreshOK'
  BY <1>1, TargetRests DEF DiskOK, FreshOK
<1>4. EvidenceOK'
  BY <1>1 DEF EvidenceOK, Expected, Invocations
<1> QED  BY <1>2, <1>3, <1>4

(* Whether the gate is at a run depends on its own state alone.            *)
LEMMA RunningRests ==
  ASSUME UNCHANGED gate
  PROVE  Running' <=> Running
<1>1. /\ disk' = disk /\ line' = line /\ exit' = exit
      /\ path' = path /\ step' = step
  BY DEF gate
<1>2. G!Binaries' = G!Binaries
  <2>1. \A p : G!Has(p)' <=> G!Has(p)
    BY <1>1 DEF G!Has, G!IsPrefix
  <2> QED
    BY <1>1, TargetRests DEF G!Binaries, G!Has, G!IsPrefix
<1> QED
  BY <1>1, <1>2 DEF Running, G!At, Invocations

(* A harness that is launched.                                             *)
LEMMA LaunchedKeeps ==
  ASSUME NEW build \in BOOLEAN, NEW valgrind \in BOOLEAN,
         NEW exitcode \in BOOLEAN, NEW c, NEW m, NEW set,
         H!Launch(build, valgrind, exitcode, c, m, set)
  PROVE  /\ P!HInv' /\ P!BooleansOK'
         /\ instrumented' = build /\ on_valgrind' = valgrind
         /\ error_exitcode' = exitcode /\ mode' = m /\ case' = c
<1>1. P!Launch(build, valgrind, exitcode, c, m, set)
  BY SameStart
<1>2. P!HInv'
  BY <1>1, P!LaunchKeeps
<1>3. /\ instrumented' = build /\ on_valgrind' = valgrind
      /\ error_exitcode' = exitcode /\ mode' = m /\ case' = c /\ matched' = FALSE /\ memcheck_error' = FALSE
  BY <1>1 DEF P!Launch, P!NewProcess
<1>4. P!BooleansOK'
  BY <1>3 DEF P!BooleansOK
<1> QED  BY <1>2, <1>3, <1>4

(* A run that the gate starts is of the harness it has built.              *)
LEMMA InvokeKeeps ==
  ASSUME TInv, Invoke
  PROVE  TInv'
<1>1. Running /\ UNCHANGED <<gate, evidence>>
  BY DEF Invoke
<1>2. PICK build \in BOOLEAN :
        /\ "stale" \notin G!Binaries => build
        /\ H!Launch(build, TRUE, TRUE, Invocations[step - 1][2],
                    Invocations[step - 1][1], H!Variables)
  BY DEF Invoke
<1>3. LineOK /\ DiskOK /\ FreshOK /\ EvidenceOK
  BY DEF TInv
<1>4. step > 1
  BY <1>1, InvocationsFacts DEF Running
<1>5. build
  BY <1>2, <1>3, <1>4, NoStaleBinary
<1>6. /\ P!HInv' /\ P!BooleansOK' /\ instrumented' = build
      /\ on_valgrind' = TRUE /\ error_exitcode' = TRUE
      /\ mode' = Invocations[step - 1][1]
      /\ case' = Invocations[step - 1][2]
  BY <1>2, LaunchedKeeps
<1>7. LineOK' /\ DiskOK' /\ FreshOK' /\ EvidenceOK'
  BY <1>1, <1>3, GateRests
<1>8. RunOK'
  <2>1. Running'
    BY <1>1, RunningRests
  <2>2. step' = step /\ Invocations' = Invocations
    BY <1>1 DEF gate, Invocations
  <2> QED  BY <1>5, <1>6, <2>1, <2>2 DEF RunOK
<1> QED  BY <1>6, <1>7, <1>8 DEF TInv

(* A run that someone starts is of any harness.                            *)
LEMMA InvokeByHandKeeps ==
  ASSUME TInv, InvokeByHand
  PROVE  TInv'
<1>1. line = "none" /\ UNCHANGED <<gate, evidence>>
  BY DEF InvokeByHand
<1>2. P!HInv' /\ P!BooleansOK'
  BY LaunchedKeeps DEF InvokeByHand
<1>3. LineOK' /\ DiskOK' /\ FreshOK' /\ EvidenceOK'
  BY <1>1, GateRests DEF TInv
<1>4. RunOK'
  BY <1>1 DEF RunOK, gate
<1> QED  BY <1>2, <1>3, <1>4 DEF TInv

(* A step of the harness keeps the invariant.                              *)
LEMMA HarnessStepKeeps ==
  ASSUME TInv, HarnessStep
  PROVE  TInv'
<1>1. P!Step /\ UNCHANGED <<gate, evidence>>
  BY SameStep DEF HarnessStep
<1>2. P!HInv' /\ P!BooleansOK'
  BY <1>1, P!StepKeeps, P!BooleansKept DEF TInv
<1>3. LineOK' /\ DiskOK' /\ FreshOK' /\ EvidenceOK'
  BY <1>1, GateRests DEF TInv
<1>4. RunOK'
  <2>1. UNCHANGED P!harness /\ stage # "idle" /\ instrumented' = instrumented
    BY <1>1, P!StepRuns DEF TInv
  <2>2. /\ on_valgrind' = on_valgrind /\ error_exitcode' = error_exitcode
        /\ mode' = mode /\ case' = case
    BY <2>1 DEF P!harness
  <2>3. Running' <=> Running
    BY <1>1, RunningRests
  <2>4. step' = step /\ line' = line /\ Invocations' = Invocations
    BY <1>1 DEF gate, Invocations
  <2> QED  BY <2>1, <2>2, <2>3, <2>4 DEF TInv, RunOK
<1> QED  BY <1>2, <1>3, <1>4 DEF TInv

(* A signal between two runs keeps it.                                     *)
LEMMA SignalBetweenRunsKeeps ==
  ASSUME TInv, SignalBetweenRuns
  PROVE  TInv'
<1>1. /\ Running /\ stage = "idle" /\ G!Interrupt
      /\ UNCHANGED process /\ evidence' = evidence
  BY DEF SignalBetweenRuns
<1>2. line # "none"
  BY <1>1 DEF Running, G!At
<1>3. LineOK' /\ DiskOK' /\ FreshOK' /\ EvidenceOK'
  BY <1>1, <1>2, InterruptKeeps
<1>4. P!HInv' /\ P!BooleansOK' /\ RunOK'
  BY <1>1, GateMoves
<1> QED  BY <1>3, <1>4 DEF TInv

(* The run that has ended with success is what the gate ought to see.      *)
LEMMA ObservedIsExpected ==
  ASSUME TInv, Running, stage = "done", h_exit = 0
  PROVE  Observed = Expected(step - 1)
<1>1. /\ mode = Invocations[step - 1][1] /\ case = Invocations[step - 1][2]
      /\ on_valgrind /\ error_exitcode /\ instrumented
  BY DEF TInv, RunOK, Running, G!At
<1>2. /\ on_valgrind \in BOOLEAN /\ instrumented \in BOOLEAN
      /\ matched \in BOOLEAN /\ memcheck_error \in BOOLEAN
  BY DEF TInv, P!BooleansOK
<1>3. matched /\ P!Output \notin tainted /\ ~memcheck_error
  BY <1>1, P!HInvShows DEF TInv, P!PassIsEvidence
<1>4. P!Output = H!Output
  BY DEF P!Output, H!Output
<1>5. /\ on_valgrind = TRUE /\ instrumented = TRUE /\ matched = TRUE
      /\ memcheck_error = FALSE /\ (H!Output \in tainted) = FALSE
  BY <1>1, <1>2, <1>3, <1>4
<1> QED  BY <1>1, <1>5, Zenon DEF Observed, Expected

(* The end of a run keeps it: a run that succeeds adds the evidence of its *)
(* own to what the gate has seen.                                          *)
LEMMA ReturnKeeps ==
  ASSUME TInv, Return
  PROVE  TInv'
<1>1. /\ Running /\ stage = "done" /\ G!RunStep
      /\ step' = step + 1 => h_exit = 0
      /\ evidence' = IF exit' = -1 THEN evidence \cup {Observed} ELSE evidence
      /\ stage' = "idle" /\ h_exit' = -1
      /\ UNCHANGED <<P!flow, P!harness, P!progress, verdict>>
  BY DEF Return, P!flow, P!harness, P!progress
<1>2. P!HInv'
  BY <1>1, P!RestKeeps DEF TInv
<1>3. P!BooleansOK'
  BY DEF TInv, P!BooleansOK, Return
<1>4. RunOK'
  BY <1>1 DEF RunOK
<1>5. /\ exit = -1 /\ line = "steps" /\ step \in 2 .. 5
      /\ script = "check_secret_taint" /\ path \in [G!Kinds -> PathNames]
      /\ UNCHANGED <<script, use, path>>
  BY <1>1, InvocationsFacts
     DEF TInv, LineOK, Running, G!RunStep, G!At, G!settings
<1>6. CASE G!Exit(1, G!Mine) /\ UNCHANGED <<passed, step>>
  <2>1. exit' = 1 /\ disk' \subseteq disk /\ line' = line
    BY <1>6, ExitIs
  <2>2. evidence' = evidence
    BY <1>1, <2>1
  <2>3. LineOK' /\ DiskOK' /\ FreshOK' /\ EvidenceOK'
    BY <1>5, <1>6, <2>1, <2>2, StoppingKeeps
  <2> QED  BY <1>2, <1>3, <1>4, <2>3 DEF TInv
<1>7. CASE /\ disk' = IF G!Steps[script][step] # "build" THEN disk
                      ELSE G!Written(G!Steps[script][step])
           /\ step' = step + 1 /\ G!GoTo("steps")
  <2>1. G!Steps[script][step] # "build"
    BY <1>5, StepsFacts
  <2>2. /\ disk' = disk /\ line' = "steps" /\ exit' = -1 /\ step' = step + 1
    BY <1>5, <1>7, <2>1 DEF G!GoTo
  <2>3. evidence' = evidence \cup {Expected(step - 1)}
    BY <1>1, <2>2, ObservedIsExpected
  <2>4. LineOK'
    BY <1>5, <2>2 DEF LineOK, GateLines, G!Kinds
  <2>5. DiskOK' /\ FreshOK'
    BY <1>5, <2>2, TargetRests DEF TInv, DiskOK, FreshOK
  <2>6. EvidenceOK'
    <3>1. evidence = {Expected(n) : n \in 1 .. step - 2}
      BY DEF TInv, EvidenceOK
    <3>2. step' - 2 = step - 1 /\ step - 1 \in 1 .. 4
      BY <1>5, <2>2
    <3>3. 1 .. step - 1 = (1 .. step - 2) \cup {step - 1}
      BY <1>5
    <3>4. evidence' = {Expected(n) : n \in 1 .. step - 1}
      BY <2>3, <3>1, <3>3
    <3>5. \A n : Expected(n)' = Expected(n)
      BY DEF Expected, Invocations
    <3> QED  BY <3>2, <3>4, <3>5 DEF EvidenceOK
  <2> QED  BY <1>2, <1>3, <1>4, <2>4, <2>5, <2>6 DEF TInv
<1> QED  BY <1>1, <1>5, <1>6, <1>7 DEF G!RunStep

-----------------------------------------------------------------------------
(* Theorems.                                                               *)

(* The invariant holds at the start.                                       *)
LEMMA InitTaint == Init => TInv
<1> SUFFICES ASSUME Init PROVE TInv
  OBVIOUS
<1>1. P!Init
  BY SameStart DEF Init
<1>2. P!HInv
  BY <1>1, P!InitHarness
<1>3. P!BooleansOK
  BY <1>1 DEF P!Init, P!FlowInit, P!BooleansOK
<1>4. /\ script = "check_secret_taint" /\ step = 1 /\ exit = -1
      /\ line \in {"tools", "none"} /\ evidence = {} /\ stage = "idle"
  BY <1>1 DEF Init, G!ScriptInit, G!ShellInit, P!Init
<1>5. path \in [G!Kinds -> PathNames]
  <2>1. path \in [G!Kinds -> {"", "caller"}]
    BY DEF Init, G!ScriptInit
  <2> QED  BY <2>1 DEF PathNames
<1>6. LineOK
  <2>1. line \in GateLines /\ line # "steps"
    BY <1>4 DEF GateLines
  <2>2. exit # 0 /\ step \in 1 .. 6
    BY <1>4
  <2> QED  BY <1>4, <1>5, <2>1, <2>2 DEF LineOK
<1>7. DiskOK
  <2>1. /\ "home" \in Names /\ "target" \in Names /\ "caller" \in Names
        /\ "stale" \in Names
    BY DEF Names, PathNames
  <2>2. /\ <<"home", "caller">> \in Seq(Names)
        /\ Len(<<"home", "caller">>) <= 3
        /\ <<"target", "caller">> \in Seq(Names)
        /\ Len(<<"target", "caller">>) <= 3
        /\ <<"target", "caller", "stale">> \in Seq(Names)
        /\ Len(<<"target", "caller", "stale">>) <= 3
    BY <2>1
  <2>3. disk \subseteq {<<"home", "caller">>, <<"target", "caller">>,
                        <<"target", "caller", "stale">>}
    BY DEF Init, CallersFiles
  <2> QED  BY <2>2, <2>3 DEF DiskOK
<1>8. FreshOK
  BY <1>4 DEF FreshOK
<1>9. EvidenceOK
  <2>1. 1 .. step - 2 = {}
    BY <1>4
  <2> QED  BY <1>4, <2>1 DEF EvidenceOK
<1>10. RunOK
  BY <1>4 DEF RunOK
<1> QED  BY <1>2, <1>3, <1>6, <1>7, <1>8, <1>9, <1>10 DEF TInv

(* Every step keeps it.                                                    *)
LEMMA NextKeeps == TInv /\ [Next]_vars => TInv'
<1> SUFFICES ASSUME TInv, [Next]_vars PROVE TInv'
  OBVIOUS
<1>1. CASE UNCHANGED vars
  <2>1. UNCHANGED <<gate, evidence>> /\ UNCHANGED process
    BY <1>1 DEF vars
  <2>2. LineOK' /\ DiskOK' /\ FreshOK' /\ EvidenceOK'
    BY <2>1, GateRests DEF TInv
  <2>3. /\ UNCHANGED <<P!flow, P!harness, P!progress, verdict>>
        /\ UNCHANGED <<stage, h_exit>>
    BY <2>1 DEF process, P!flow, P!harness, P!progress
  <2>4. P!HInv'
    BY <2>3, P!RestKeeps DEF TInv
  <2>5. P!BooleansOK'
    BY <2>1 DEF TInv, P!BooleansOK, process
  <2>6. RunOK'
    <3>1. Running' <=> Running
      BY <2>1, RunningRests
    <3>2. /\ step' = step /\ line' = line /\ Invocations' = Invocations
          /\ stage' = stage /\ mode' = mode /\ case' = case
          /\ on_valgrind' = on_valgrind /\ instrumented' = instrumented
          /\ error_exitcode' = error_exitcode
      BY <2>1 DEF gate, process, Invocations
    <3> QED  BY <3>1, <3>2 DEF TInv, RunOK
  <2> QED  BY <2>2, <2>4, <2>5, <2>6 DEF TInv
<1>2. CASE Next
  BY <1>2, GateStepKeeps, InvokeKeeps, InvokeByHandKeeps, HarnessStepKeeps,
     ReturnKeeps, SignalBetweenRunsKeeps DEF Next
<1> QED  BY <1>1, <1>2

(* The invariant, in every state of the gate and of the harness.           *)
THEOREM TaintInvariant == Spec => []TInv
  BY InitTaint, NextKeeps, PTL DEF Spec

(* In the instrumented build no branch, of a call of the crate on a seed   *)
(* undefined or not or of the harness, is on an undefined bit, on any path *)
(* to a return: declassify comes between the computation of a predicate    *)
(* and the branch on it.                                                   *)
THEOREM BranchesAreDefined == Spec => []NoTaintedBranch
<1>1. TInv => NoTaintedBranch
  BY P!HInvShows, SamePromises DEF TInv
<1> QED  BY <1>1, TaintInvariant, PTL

(* From an undefined seed, every secret the crate names is undefined for   *)
(* as long as it is in memory, in either build: no declassify hides one.   *)
THEOREM SecretsAreNotHidden == Spec => []SecretsStayTainted
<1>1. TInv => SecretsStayTainted
  BY P!HInvShows, SamePromises DEF TInv
<1> QED  BY <1>1, TaintInvariant, PTL

(* A run of the harness that exits with 0, however it was started, was     *)
(* under Valgrind, returned the known answer with every bit defined and    *)
(* without a branch on an undefined one, and, if the seed was to be        *)
(* undefined, was of the instrumented build.                               *)
THEOREM PassedRunsAreEvidence == Spec => []PassIsEvidence
<1>1. TInv => PassIsEvidence
  BY P!HInvShows, SamePromises DEF TInv
<1> QED  BY <1>1, TaintInvariant, PTL

(* check-secret-taint.sh exits with 0 only after all four runs, each of    *)
(* the harness it built itself, with the evidence that it is there for:    *)
(* whatever older harness there was, and however many signals came.        *)
THEOREM PassedGateIsEvidence == Spec => []GatePassIsEvidence
<1>1. ASSUME TInv PROVE GatePassIsEvidence
  <2> SUFFICES ASSUME exit = 0
               PROVE  evidence =
                        {[mode |-> m, case |-> c, on_valgrind |-> TRUE,
                          instrumented |-> TRUE, matched |-> TRUE,
                          branched |-> FALSE, undefined |-> FALSE] :
                           m \in H!Modes, c \in H!Cases}
    BY DEF GatePassIsEvidence
  <2>1. step = 6
    BY <1>1 DEF TInv, LineOK
  <2>2. evidence = {Expected(n) : n \in 1 .. 4}
    BY <1>1, <2>1 DEF TInv, EvidenceOK
  <2>3. 1 .. 4 = {1, 2, 3, 4}
    OBVIOUS
  <2>4. evidence = {Expected(1), Expected(2), Expected(3), Expected(4)}
    BY <2>2, <2>3
  <2> DEFINE Run(m, c) ==
        [mode |-> m, case |-> c, on_valgrind |-> TRUE, instrumented |-> TRUE,
         matched |-> TRUE, branched |-> FALSE, undefined |-> FALSE]
  <2>5. /\ Expected(1) = Run("defined", "public")
        /\ Expected(2) = Run("defined", "sign")
        /\ Expected(3) = Run("tainted", "public")
        /\ Expected(4) = Run("tainted", "sign")
    BY DEF Expected, Invocations
  <2> HIDE DEF Run
  <2>6. H!Modes = {"defined", "tainted"} /\ H!Cases = {"public", "sign"}
    BY DEF H!Modes, H!Cases
  <2>7. evidence = {Run(m, c) : m \in H!Modes, c \in H!Cases}
    BY <2>4, <2>5, <2>6
  <2> QED  BY <2>7 DEF Run
<1> QED  BY <1>1, TaintInvariant, PTL

=============================================================================
