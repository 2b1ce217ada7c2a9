----------------------------- MODULE GateProofs -----------------------------
(***************************************************************************)
(* Theorems about Gate, for any number of signals and any profiles: what   *)
(* the scripts remove and leave, and what their exit with 0 means; and     *)
(* about WrappedBuild, for any number of wrappers and options: what the    *)
(* marker files hold, and that the build is the one step Gate has for it.  *)
(***************************************************************************)
EXTENDS Gate, WrappedBuild, FiniteSetTheorems, SequenceTheorems, TLAPS

-----------------------------------------------------------------------------
(* The inductive invariant.                                                *)

(* The names on the paths.                                                 *)
Names ==
  {"home", "target", "downstream", "marker"}
  \cup {"", "caller", "temporary"}
  \cup {"stale", "fresh"}
  \cup {"crypto_bigint", "ed301_eddsa"} \cup {"on", "off", "absent"}

(* The files on the disk.  A harness of an earlier run is only in the      *)
(* target directory of the caller.                                         *)
DiskOK ==
  /\ disk \subseteq Seq(Names)
  /\ CallersFiles \subseteq disk
  /\ \A file \in disk :
       file[1] = "target" /\ Len(file) > 2 /\ file[3] = "stale" =>
         file = <<"target", "caller", "stale">>

In(file, root, name) == Len(file) >= 2 /\ file[1] = root /\ file[2] = name

Temporary(root) == \E file \in disk : In(file, root, "temporary")

BeforeTrap == {"none", "tools", "manifests", "trap"}
CallerLines ==
  BeforeTrap \cup {"home", "home flag", "target", "target flag", "steps"}

(* At each line of the calling script: a directory is the script's own     *)
(* from mktemp on, and flagged from the next command on.                   *)
CallerLineOK ==
  /\ line \in CallerLines
  /\ trapped <=> line \notin BeforeTrap
  /\ line \in BeforeTrap \cup {"home"} => path["home"] # "temporary"
  /\ line \in BeforeTrap \cup {"home", "home flag", "target"} =>
       path["target"] # "temporary"
  /\ line = "home flag" => path["home"] = "temporary"
  /\ line = "target flag" => path["target"] = "temporary"
  /\ path["home"] = "temporary" => line = "home flag" \/ cleanup["home"] = 1
  /\ path["target"] = "temporary" =>
       line = "target flag" \/ cleanup["target"] = 1
  /\ line \in {"home flag", "target flag"} => exit = -1
  /\ line # "steps" => step = 1 /\ passed = {} /\ exit # 0

(* A directory of the script's own is one its variable names, and gone     *)
(* when the script has ended.                                              *)
CallerOwnOK ==
  \A kind \in C!Kinds :
    Temporary(kind) => path[kind] = "temporary" /\ exit = -1

StepsOK ==
  /\ {pair[1] : pair \in passed} = {C!Steps[script][n] : n \in 1 .. step - 1}
  /\ exit = 0 => step > Len(C!Steps[script])
  /\ script = "check_secret_taint" =>
       /\ step > 1 => \A file \in disk :
            In(file, "target", path["target"]) /\ Len(file) > 2
              => file[3] # "stale"
       /\ \A pair \in passed : pair[1] # "build" => pair[2] = {"fresh"}

(* While the downstream script runs its caller waits, and the caller's     *)
(* last command has succeeded only if the script has.                      *)
CallOK ==
  /\ home \in {"", "caller", "temporary"}
  /\ line = "none" => home # "temporary" /\ exit = -1 /\ script = "check"
  /\ line # "none" /\ d_line # "none" =>
       /\ script = "check" /\ line = "steps" /\ home = path["home"]
       /\ (step = 8 /\ exit = -1) \/ d_exit # -1
  /\ d_line = "none" => line # "none" /\ d_exit = -1
                        /\ (script = "check" => step <= 8)
  /\ script = "check" /\ step = 9 => d_exit = 0

BeforeReset == {"none", "home", "reset"}
AfterBuild == {"crypto_bigint written", "ed301_eddsa written",
               "crypto_bigint lines", "ed301_eddsa lines", "cargo", "end"}
DownstreamLines ==
  BeforeReset \cup {"target", "marker", "build"} \cup AfterBuild

DownstreamLineOK ==
  /\ d_line \in DownstreamLines
  /\ d_trapped <=> d_line \notin BeforeReset
  /\ d_line \in BeforeReset => "temporary" \notin {target, marker}
  /\ d_line = "target" => target = "" /\ marker = ""
  /\ d_line = "marker" => target = "temporary" /\ marker = ""
  /\ d_line \in AfterBuild \cup {"build"} =>
       target = "temporary" /\ marker = "temporary"

DownstreamOwnOK ==
  /\ Temporary("downstream") => target = "temporary" /\ d_exit = -1
  /\ Temporary("marker") => marker = "temporary" /\ d_exit = -1

(* With no signal, a crate's marker file is what it was compiled with, and *)
(* the tests passed say what the file holds.                               *)
MarkerLines(crate) ==
  {file \in disk : In(file, "marker", "temporary")
                     /\ Len(file) > 2 /\ file[3] = crate}

MarkersOK ==
  d_signals = 0 =>
    /\ d_line \notin AfterBuild =>
         \A crate \in D!Crates : MarkerLines(crate) = {}
    /\ d_line \in AfterBuild /\ d_exit = -1 =>
         \A crate \in D!Crates :
           MarkerLines(crate) =
             {<<"marker", "temporary", crate, state>> :
                state \in compiled[crate]}
    /\ d_line \in AfterBuild \ {"crypto_bigint written"} =>
         compiled["crypto_bigint"] # {}
    /\ d_line \in AfterBuild
                    \ {"crypto_bigint written", "ed301_eddsa written"} =>
         compiled["ed301_eddsa"] # {}
    /\ d_line \in {"ed301_eddsa lines", "cargo", "end"} =>
         compiled["crypto_bigint"] \subseteq {"off", "absent"}
    /\ d_line \in {"cargo", "end"} => compiled["ed301_eddsa"] \subseteq {"on"}
    /\ d_exit = 0 => d_line = "end"

GInv ==
  /\ TypeOK
  /\ DiskOK
  /\ CallerLineOK /\ CallerOwnOK /\ StepsOK /\ CallOK
  /\ DownstreamLineOK /\ DownstreamOwnOK /\ MarkersOK

-----------------------------------------------------------------------------
(* Lemmas on functions and files.                                          *)

LEMMA ExceptOf ==
  ASSUME NEW S, NEW T, NEW f \in [S -> T], NEW s \in S, NEW t \in T,
         NEW g, g = [f EXCEPT ![s] = t]
  PROVE  /\ g \in [S -> T]
         /\ \A k \in S : g[k] = IF k = s THEN t ELSE f[k]
  OBVIOUS

LEMMA PairOf ==
  ASSUME NEW S, NEW a \in S, NEW b \in S
  PROVE  /\ <<a, b>> \in Seq(S) /\ Len(<<a, b>>) = 2
         /\ <<a, b>>[1] = a /\ <<a, b>>[2] = b
  OBVIOUS

LEMMA AppendOf ==
  ASSUME NEW S, NEW p \in Seq(S), NEW e \in S, NEW q \in Seq(S),
         Len(q) = Len(p) + 1, q[Len(q)] = e,
         \A n \in 1 .. Len(p) : q[n] = p[n]
  PROVE  Append(p, e) = q
<1> DEFINE r == Append(p, e)
<1>1. /\ r \in Seq(S) /\ Len(r) = Len(p) + 1 /\ r[Len(p) + 1] = e
      /\ \A n \in 1 .. Len(p) : r[n] = p[n]
  OBVIOUS
<1> HIDE DEF r
<1>2. Len(p) \in Nat
  OBVIOUS
<1>3. \A n \in 1 .. Len(r) : r[n] = q[n]
  BY <1>1, <1>2
<1>4. r = q
  BY <1>1, <1>3, SeqEqual
<1> QED
  BY <1>4 DEF r

LEMMA TripleOf ==
  ASSUME NEW S, NEW a \in S, NEW b \in S, NEW c \in S
  PROVE  /\ <<a, b, c>> \in Seq(S) /\ Len(<<a, b, c>>) = 3
         /\ <<a, b, c>>[1] = a /\ <<a, b, c>>[2] = b /\ <<a, b, c>>[3] = c
         /\ Append(<<a, b>>, c) = <<a, b, c>>
<1> DEFINE p == <<a, b>>
           q == <<a, b, c>>
<1>1. p \in Seq(S) /\ Len(p) = 2 /\ p[1] = a /\ p[2] = b
  OBVIOUS
<1>2. q \in Seq(S) /\ Len(q) = 3 /\ q[1] = a /\ q[2] = b /\ q[3] = c
  OBVIOUS
<1> HIDE DEF p, q
<1>3. \A n \in 1 .. Len(p) : q[n] = p[n]
  BY <1>1, <1>2
<1>4. Len(q) = Len(p) + 1 /\ q[Len(q)] = c
  BY <1>1, <1>2
<1>5. Append(p, c) = q
  BY <1>1, <1>2, <1>3, <1>4, AppendOf
<1> QED
  BY <1>2, <1>5 DEF p, q

LEMMA QuadrupleOf ==
  ASSUME NEW S, NEW a \in S, NEW b \in S, NEW c \in S, NEW d \in S
  PROVE  /\ <<a, b, c, d>> \in Seq(S) /\ Len(<<a, b, c, d>>) = 4
         /\ <<a, b, c, d>>[1] = a /\ <<a, b, c, d>>[2] = b
         /\ <<a, b, c, d>>[3] = c /\ <<a, b, c, d>>[4] = d
         /\ Append(<<a, b, c>>, d) = <<a, b, c, d>>
<1> DEFINE p == <<a, b, c>>
           q == <<a, b, c, d>>
<1>1. p \in Seq(S) /\ Len(p) = 3 /\ p[1] = a /\ p[2] = b /\ p[3] = c
  OBVIOUS
<1>2. q \in Seq(S) /\ Len(q) = 4
      /\ q[1] = a /\ q[2] = b /\ q[3] = c /\ q[4] = d
  OBVIOUS
<1> HIDE DEF p, q
<1>3. \A n \in 1 .. Len(p) : q[n] = p[n]
  BY <1>1, <1>2
<1>4. Len(q) = Len(p) + 1 /\ q[Len(q)] = d
  BY <1>1, <1>2
<1>5. Append(p, d) = q
  BY <1>1, <1>2, <1>3, <1>4, AppendOf
<1> QED
  BY <1>2, <1>5 DEF p, q

(* A path of two or three names is a prefix of the files with these names. *)
LEMMA PrefixPair ==
  ASSUME NEW S, NEW file \in Seq(S), NEW a \in S, NEW b \in S
  PROVE  /\ C!IsPrefix(<<a, b>>, file) <=> In(file, a, b)
         /\ D!IsPrefix(<<a, b>>, file) <=> In(file, a, b)
<1> DEFINE p == <<a, b>>
           g == SubSeq(file, 1, 2)
<1>1. p \in Seq(S) /\ Len(p) = 2 /\ p[1] = a /\ p[2] = b
  OBVIOUS
<1> HIDE DEF p
<1>2. SubSeq(p, 1, 2) = p
  BY <1>1, SubSeqFull
<1>3. ASSUME Len(file) >= 2
      PROVE  g = p <=> file[1] = a /\ file[2] = b
  <2>1. g \in Seq(S) /\ Len(g) = 2 /\ g[1] = file[1] /\ g[2] = file[2]
    BY <1>3
  <2> HIDE DEF g
  <2>2. ASSUME g[1] = p[1], g[2] = p[2]
        PROVE  g = p
    <3>1. \A n \in 1 .. Len(g) : g[n] = p[n]
      BY <1>1, <2>1, <2>2
    <3> QED
      BY <1>1, <2>1, <3>1, SeqEqual
  <2> QED
    BY <1>1, <2>1, <2>2
<1> HIDE DEF g
<1>4. Len(file) \in Nat
  OBVIOUS
<1> QED
  BY <1>1, <1>2, <1>3, <1>4 DEF C!IsPrefix, D!IsPrefix, In, p, g

LEMMA PrefixTriple ==
  ASSUME NEW S, NEW file \in Seq(S), NEW a \in S, NEW b \in S, NEW c \in S
  PROVE  /\ C!IsPrefix(<<a, b, c>>, file)
              <=> In(file, a, b) /\ Len(file) > 2 /\ file[3] = c
         /\ D!IsPrefix(<<a, b, c>>, file)
              <=> In(file, a, b) /\ Len(file) > 2 /\ file[3] = c
<1> DEFINE p == <<a, b, c>>
           g == SubSeq(file, 1, 3)
<1>1. p \in Seq(S) /\ Len(p) = 3 /\ p[1] = a /\ p[2] = b /\ p[3] = c
  OBVIOUS
<1> HIDE DEF p
<1>2. SubSeq(p, 1, 3) = p
  BY <1>1, SubSeqFull
<1>3. ASSUME Len(file) > 2
      PROVE  g = p <=> file[1] = a /\ file[2] = b /\ file[3] = c
  <2>1. /\ g \in Seq(S) /\ Len(g) = 3
        /\ g[1] = file[1] /\ g[2] = file[2] /\ g[3] = file[3]
    BY <1>3
  <2> HIDE DEF g
  <2>2. ASSUME g[1] = p[1], g[2] = p[2], g[3] = p[3]
        PROVE  g = p
    <3>1. \A n \in 1 .. Len(g) : g[n] = p[n]
      BY <1>1, <2>1, <2>2
    <3> QED
      BY <1>1, <2>1, <3>1, SeqEqual
  <2> QED
    BY <1>1, <2>1, <2>2
<1> HIDE DEF g
<1>4. Len(file) \in Nat
  OBVIOUS
<1> QED
  BY <1>1, <1>2, <1>3, <1>4 DEF C!IsPrefix, D!IsPrefix, In, p, g

-----------------------------------------------------------------------------
(* Lemmas on the operators of the scripts.                                 *)

LEMMA StepsFacts ==
  /\ DOMAIN C!Steps = {"check", "check_secret_taint"}
  /\ Len(C!Steps["check"]) = 8
  /\ Len(C!Steps["check_secret_taint"]) = 5
  /\ C!Steps["check"][8] = "check-downstream"
  /\ C!Steps["check_secret_taint"][1] = "build"
  /\ \A n \in 1 .. 8 :
       /\ C!Steps["check"][n] = "check-downstream" => n = 8
       /\ C!Steps["check"][n] # "build"
  /\ \A n \in 1 .. 5 :
       /\ C!Steps["check_secret_taint"][n] = "build" => n = 1
       /\ C!Steps["check_secret_taint"][n] # "check-downstream"
  BY DEF C!Steps

LEMMA StepsConstant ==
  /\ C!Steps' = C!Steps
  /\ \A name \in DOMAIN C!Steps : Len(C!Steps[name]) \in Nat
<1>1. C!Steps' = C!Steps
  BY DEF C!Steps
<1> QED
  BY <1>1, StepsFacts

LEMMA StepRange ==
  ASSUME TypeOK
  PROVE  /\ script \in {"check", "check_secret_taint"}
         /\ script = "check" => step \in 1 .. 9
         /\ script = "check_secret_taint" => step \in 1 .. 6
<1> DEFINE n == Len(C!Steps[script])
<1>1. script \in DOMAIN C!Steps /\ step \in 1 .. n + 1
  BY DEF TypeOK, C!TypeOK
<1>2. script \in {"check", "check_secret_taint"}
  BY <1>1, StepsFacts
<1>3. ASSUME script = "check" PROVE n = 8
  BY <1>3, StepsFacts
<1>4. ASSUME script = "check_secret_taint" PROVE n = 5
  BY <1>4, StepsFacts
<1> HIDE DEF n
<1> QED
  BY <1>1, <1>2, <1>3, <1>4

LEMMA CallingFacts ==
  ASSUME TypeOK
  PROVE  Calling <=>
           line = "steps" /\ exit = -1 /\ script = "check" /\ step = 8
<1>1. script \in {"check", "check_secret_taint"} /\ step \in 1 .. 9
  BY StepRange
<1>2. CASE script = "check"
  BY <1>1, <1>2, StepsFacts DEF Calling, C!At
<1>3. CASE script = "check_secret_taint"
  <2>1. ~Calling
    BY <1>1, <1>3, StepsFacts DEF Calling
  <2> QED
    BY <1>3, <2>1
<1> QED
  BY <1>1, <1>2, <1>3

LEMMA HasPair ==
  ASSUME DiskOK, NEW a \in Names, NEW b \in Names
  PROVE  /\ C!Has(<<a, b>>) <=> \E file \in disk : In(file, a, b)
         /\ D!Has(<<a, b>>) <=> \E file \in disk : In(file, a, b)
<1>1. \A file \in disk : file \in Seq(Names)
  BY DEF DiskOK
<1> QED
  BY <1>1, PrefixPair DEF C!Has, D!Has

(* What a cleanup of the calling script removes.                           *)
CallerCleanup ==
  {file \in disk :
     trapped => \A kind \in C!Kinds :
                  cleanup[kind] = 1 => ~In(file, kind, path[kind])}

LEMMA CallerRemoves ==
  ASSUME TypeOK, DiskOK
  PROVE  C!RemoveAll(IF trapped THEN C!Mine ELSE {})
           <=> disk' = CallerCleanup
<1>1. \A kind \in C!Kinds : kind \in Names /\ path[kind] \in Names
  BY DEF TypeOK, C!TypeOK, C!Kinds, Names
<1>2. \A file \in disk : file \in Seq(Names)
  BY DEF DiskOK
<1>3. ASSUME NEW file \in disk
      PROVE  (\A p \in (IF trapped THEN C!Mine ELSE {}) : ~C!IsPrefix(p, file))
               <=> (trapped => \A kind \in C!Kinds :
                      cleanup[kind] = 1 => ~In(file, kind, path[kind]))
  <2>1. \A kind \in C!Kinds :
          C!IsPrefix(<<kind, path[kind]>>, file) <=> In(file, kind, path[kind])
    BY <1>1, <1>2, PrefixPair
  <2>2. CASE trapped
    <3>1. \A p : p \in C!Mine <=>
            \E kind \in C!Kinds : cleanup[kind] = 1 /\ p = <<kind, path[kind]>>
      BY DEF C!Mine
    <3> QED
      BY <2>1, <2>2, <3>1
  <2>3. CASE ~trapped
    BY <2>3
  <2> QED
    BY <2>2, <2>3
<1> QED
  BY <1>3 DEF C!RemoveAll, CallerCleanup

(* What one of the downstream script removes.                              *)
DownstreamCleanup ==
  {file \in disk :
     d_trapped => /\ target # "" => ~In(file, "downstream", target)
                  /\ marker # "" => ~In(file, "marker", marker)}

LEMMA DownstreamRemoves ==
  ASSUME TypeOK, DiskOK
  PROVE  /\ D!RemoveAll(IF d_trapped THEN D!Mine ELSE {})
              <=> disk' = DownstreamCleanup
         /\ D!RemoveAll(IF d_trapped THEN {} ELSE {}) <=> disk' = disk
<1>1. {target, marker} \subseteq Names /\ {"downstream", "marker"} \subseteq Names
  BY DEF TypeOK, D!TypeOK, Names
<1>2. \A file \in disk : file \in Seq(Names)
  BY DEF DiskOK
<1>3. ASSUME NEW file \in disk
      PROVE  (\A p \in (IF d_trapped THEN D!Mine ELSE {}) : ~D!IsPrefix(p, file))
               <=> (d_trapped => /\ target # "" => ~In(file, "downstream", target)
                                 /\ marker # "" => ~In(file, "marker", marker))
  <2>1. /\ D!IsPrefix(<<"downstream", target>>, file)
             <=> In(file, "downstream", target)
        /\ D!IsPrefix(<<"marker", marker>>, file) <=> In(file, "marker", marker)
    BY <1>1, <1>2, PrefixPair
  <2>2. CASE d_trapped
    <3>1. \A p : p \in D!Mine <=>
            \/ target # "" /\ p = <<"downstream", target>>
            \/ marker # "" /\ p = <<"marker", marker>>
      <4>1. <<"downstream", target>>[2] = target
            /\ <<"marker", marker>>[2] = marker
        OBVIOUS
      <4> QED
        BY <4>1 DEF D!Mine
    <3>2. ASSUME \A p \in D!Mine : ~D!IsPrefix(p, file)
          PROVE  /\ target # "" => ~In(file, "downstream", target)
                 /\ marker # "" => ~In(file, "marker", marker)
      BY <2>1, <3>1, <3>2
    <3>3. ASSUME target # "" => ~In(file, "downstream", target),
                 marker # "" => ~In(file, "marker", marker),
                 NEW p \in D!Mine
          PROVE  ~D!IsPrefix(p, file)
      BY <2>1, <3>1, <3>3
    <3> QED
      BY <2>2, <3>2, <3>3
  <2>3. CASE ~d_trapped
    BY <2>3
  <2> QED
    BY <2>2, <2>3
<1> QED
  BY <1>3 DEF D!RemoveAll, DownstreamCleanup

-----------------------------------------------------------------------------
(* Steps of the calling script.                                            *)

(* It touches nothing but homes and targets.                               *)
CallerTouches ==
  \A file : file[1] \notin C!Kinds => (file \in disk' <=> file \in disk)

LEMMA DownstreamKept ==
  ASSUME GInv, UNCHANGED downstream, CallerTouches
  PROVE  /\ D!TypeOK' /\ DownstreamLineOK' /\ DownstreamOwnOK'
         /\ MarkersOK'
<1>1. "downstream" \notin C!Kinds /\ "marker" \notin C!Kinds
  BY DEF C!Kinds
<1>2. UNCHANGED <<d_line, d_trapped, d_signals, d_exit,
                  home, compiled, target, marker>>
  BY DEF downstream
<1>3. D!TypeOK' /\ DownstreamLineOK'
  BY <1>2 DEF GInv, TypeOK, D!TypeOK, DownstreamLineOK
<1>4. /\ Temporary("downstream")' <=> Temporary("downstream")
      /\ Temporary("marker")' <=> Temporary("marker")
  BY <1>1 DEF CallerTouches, Temporary, In
<1>5. DownstreamOwnOK'
  BY <1>2, <1>4 DEF GInv, DownstreamOwnOK
<1>6. ASSUME NEW crate
      PROVE  MarkerLines(crate)' = MarkerLines(crate)
  BY <1>1 DEF CallerTouches, MarkerLines, In
<1>7. MarkersOK'
  BY <1>2, <1>6 DEF GInv, MarkersOK
<1> QED
  BY <1>3, <1>5, <1>7

LEMMA CallerCleans ==
  ASSUME GInv, disk' = CallerCleanup
  PROVE  /\ DiskOK' /\ CallerTouches /\ disk' \subseteq disk
         /\ \A kind \in C!Kinds :
              /\ Temporary(kind)' => Temporary(kind)
              /\ trapped /\ cleanup[kind] = 1 => ~Temporary(kind)'
<1>1. \A kind \in C!Kinds : cleanup[kind] = 1 => path[kind] = "temporary"
  BY DEF GInv, TypeOK, C!TypeOK
<1>2. ASSUME NEW file \in CallersFiles
      PROVE  file \in disk'
  <2>1. file \in disk
    BY DEF GInv, DiskOK
  <2>2. \A root \in {"home", "target", "downstream", "marker"} :
          <<root, "caller">>[2] = "caller"
    OBVIOUS
  <2>3. file[2] = "caller"
    BY <2>2 DEF CallersFiles
  <2> QED
    BY <1>1, <2>1, <2>3 DEF CallerCleanup, In
<1>3. disk' \subseteq disk
  BY DEF CallerCleanup
<1>4. DiskOK'
  BY <1>2, <1>3 DEF GInv, DiskOK
<1>5. CallerTouches
  BY DEF CallerTouches, CallerCleanup, In
<1>6. \A kind \in C!Kinds : trapped /\ cleanup[kind] = 1 => ~Temporary(kind)'
  BY <1>1 DEF Temporary, CallerCleanup, In
<1>7. \A kind \in C!Kinds : Temporary(kind)' => Temporary(kind)
  BY <1>3 DEF Temporary, In
<1> QED
  BY <1>3, <1>4, <1>5, <1>6, <1>7

LEMMA NotCalled ==
  ASSUME GInv
  PROVE  d_line = "none" => d_exit = -1 /\ d_exit # 0
<1>1. d_line = "none" => d_exit = -1
  BY DEF GInv, CallOK
<1> QED
  BY <1>1

(* The caller waits for the downstream script.                             *)
Waits == Calling /\ d_line # "none" /\ d_exit = -1

(* The caller goes on when it does not wait, and past its call only when   *)
(* the script it called has succeeded: what ties the two together stays.   *)
LEMMA CallKept ==
  ASSUME GInv, UNCHANGED downstream, UNCHANGED script, ~Waits,
         line # "none", line' # "none",
         line = "steps" => line' = "steps" /\ path' = path,
         \/ step' = step
         \/ /\ step' = step + 1 /\ line = "steps" /\ exit = -1
            /\ Calling => d_exit = 0
  PROVE  CallOK'
<1>1. UNCHANGED <<d_line, d_exit, home, script>>
  BY DEF downstream
<1>2. /\ script \in {"check", "check_secret_taint"}
      /\ script = "check" => step \in 1 .. 9
  BY StepRange DEF GInv
<1>3. d_line # "none" => /\ script = "check" /\ line = "steps"
                         /\ home = path["home"] /\ d_exit # -1
  BY CallingFacts DEF GInv, CallOK, Waits
<1>4. script = "check" /\ step' = 9 => d_exit = 0
  <2>1. script = "check" /\ step = 9 => d_exit = 0
    BY DEF GInv, CallOK
  <2>2. CASE step' = step
    BY <2>1, <2>2
  <2>3. CASE step' # step
    <3>1. step' = step + 1 /\ line = "steps" /\ exit = -1
          /\ (Calling => d_exit = 0)
      BY <2>3
    <3> QED
      BY <1>2, <3>1, CallingFacts DEF GInv
  <2> QED
    BY <2>2, <2>3
<1>5. d_line = "none" /\ script = "check" => step' <= 8
  <2>1. d_line = "none" /\ script = "check" => step <= 8
    BY DEF GInv, CallOK
  <2>2. d_line = "none" => d_exit # 0
    BY NotCalled
  <2>3. CASE step' = step
    BY <2>1, <2>3
  <2>4. CASE step' # step
    <3>1. step' = step + 1 /\ line = "steps" /\ exit = -1
          /\ (Calling => d_exit = 0)
      BY <2>4
    <3> QED
      BY <1>2, <2>1, <2>2, <3>1, CallingFacts DEF GInv
  <2> QED
    BY <2>3, <2>4
<1>6. d_line = "none" => d_exit = -1
  BY NotCalled
<1>7. home \in {"", "caller", "temporary"}
  BY DEF GInv, CallOK
<1> QED
  BY <1>1, <1>3, <1>4, <1>5, <1>6, <1>7 DEF CallOK

(* What is known of the steps stays while only files go.                   *)
LEMMA StepsKept ==
  ASSUME StepsOK, TypeOK, disk' \subseteq disk,
         script' = script, step' = step, passed' = passed,
         step # 1 => path' = path,
         exit' = 0 => exit = 0 \/ step > Len(C!Steps[script])
  PROVE  StepsOK'
<1>1. /\ {pair[1] : pair \in passed'}
           = {C!Steps'[script'][n] : n \in 1 .. step' - 1}
      /\ exit' = 0 => step' > Len(C!Steps'[script'])
  BY StepsConstant DEF StepsOK
<1>2. ASSUME script = "check_secret_taint", step > 1, NEW file \in disk',
             In(file, "target", path'["target"]), Len(file) > 2
      PROVE  file[3] # "stale"
  <2>1. step # 1
    BY <1>2, StepRange
  <2> QED
    BY <1>2, <2>1 DEF StepsOK
<1> QED
  BY <1>1, <1>2 DEF StepsOK, In

(* The calling script ends, and may have emptied a path on the way.        *)
Ends(status) ==
  /\ exit = -1 /\ line \notin {"home flag", "target flag"}
  /\ C!Exit(status, C!Mine)
  /\ \/ path' = path
     \/ line \in C!Kinds /\ path' = [path EXCEPT ![line] = ""]
  /\ status = 0 => line = "steps" /\ step > Len(C!Steps[script])
  /\ UNCHANGED <<script, use, cleanup, step, passed>>

LEMMA CallerExits ==
  ASSUME GInv, NEW status \in {0, 1, 2, 127}, Ends(status),
         UNCHANGED downstream, line # "none", ~Waits
  PROVE  GInv'
<1>1. /\ exit' = status /\ disk' = CallerCleanup
      /\ line' = line /\ trapped' = trapped /\ signals' = signals
  BY CallerRemoves DEF C!Exit, GInv, Ends
<1>2. script' = script /\ use' = use /\ cleanup' = cleanup
      /\ step' = step /\ passed' = passed
  BY DEF Ends
<1>3. exit = -1 /\ line \notin {"home flag", "target flag"}
  BY DEF Ends
<1>4. /\ DiskOK' /\ CallerTouches /\ disk' \subseteq disk
      /\ \A kind \in C!Kinds :
           /\ Temporary(kind)' => Temporary(kind)
           /\ trapped /\ cleanup[kind] = 1 => ~Temporary(kind)'
  BY <1>1, CallerCleans
<1>5. \A kind \in C!Kinds :
        /\ line = kind => path[kind] # "temporary"
        /\ path[kind] = "temporary" => cleanup[kind] = 1 /\ trapped
  BY <1>3 DEF GInv, CallerLineOK, C!Kinds, BeforeTrap, CallerLines
<1>6. /\ path' \in [C!Kinds -> {"", "caller", "temporary"}]
      /\ \A kind \in C!Kinds :
           path'[kind] = path[kind] \/ (path'[kind] = "" /\ line = kind)
  <2>1. path \in [C!Kinds -> {"", "caller", "temporary"}]
    BY DEF GInv, TypeOK, C!TypeOK
  <2>2. CASE path' = path
    BY <2>1, <2>2
  <2>3. CASE line \in C!Kinds /\ path' = [path EXCEPT ![line] = ""]
    <3>1. "" \in {"", "caller", "temporary"}
      OBVIOUS
    <3>2. \A kind \in C!Kinds :
            path'[kind] = IF kind = line THEN "" ELSE path[kind]
      BY <2>1, <2>3, <3>1, ExceptOf, Zenon
    <3>3. path' \in [C!Kinds -> {"", "caller", "temporary"}]
      BY <2>1, <2>3, <3>1, ExceptOf, Zenon
    <3> QED
      BY <3>2, <3>3
  <2> QED
    BY <2>2, <2>3 DEF Ends
<1>7. C!TypeOK'
  <2>1. ASSUME NEW kind \in C!Kinds, cleanup[kind] = 1
        PROVE  path'[kind] = "temporary"
    <3>1. path[kind] = "temporary"
      BY <2>1 DEF GInv, TypeOK, C!TypeOK
    <3> QED
      BY <1>5, <1>6, <3>1
  <2> QED
    BY <1>1, <1>2, <1>6, <2>1, StepsConstant DEF GInv, TypeOK, C!TypeOK
<1>8. CallerLineOK'
  BY <1>1, <1>2, <1>3, <1>5, <1>6
     DEF GInv, CallerLineOK, C!Kinds, BeforeTrap, Ends
<1>9. CallerOwnOK'
  BY <1>1, <1>4, <1>5 DEF GInv, CallerOwnOK
<1>10. StepsOK'
  <2>1. step # 1 => path' = path
    <3>1. step # 1 => line = "steps"
      BY DEF GInv, CallerLineOK
    <3> QED
      BY <3>1 DEF C!Kinds, Ends
  <2>2. status = 0 => step > Len(C!Steps[script])
    BY DEF Ends
  <2> QED
    BY <1>1, <1>2, <1>4, <2>1, <2>2, StepsKept DEF GInv
<1>11. CallOK'
  <2>1. line = "steps" => path' = path
    BY <1>6 DEF C!Kinds, Ends
  <2> QED
    BY <1>1, <1>2, <2>1, CallKept
<1> QED
  BY <1>4, <1>7, <1>8, <1>9, <1>10, <1>11, DownstreamKept DEF GInv, TypeOK

(* A signal that the calling script handles.                               *)
LEMMA CallerSignalled ==
  ASSUME GInv, C!Interrupt, UNCHANGED downstream, line # "none", ~Waits
  PROVE  GInv'
<1>1. /\ disk' = CallerCleanup /\ exit = -1
      /\ exit' = IF trapped THEN exit ELSE 143
      /\ signals' = signals + 1 /\ signals < MaxSignals
      /\ line' = line /\ trapped' = trapped
  BY CallerRemoves DEF C!Interrupt, C!Signal, GInv
<1>2. script' = script /\ use' = use /\ path' = path /\ cleanup' = cleanup
      /\ step' = step /\ passed' = passed
  BY DEF C!Interrupt, C!settings
<1>3. /\ DiskOK' /\ CallerTouches /\ disk' \subseteq disk
      /\ \A kind \in C!Kinds : Temporary(kind)' => Temporary(kind)
  BY <1>1, CallerCleans
<1>4. ~trapped => line \in BeforeTrap
      /\ \A kind \in C!Kinds : path[kind] # "temporary"
  BY DEF GInv, CallerLineOK, BeforeTrap, C!Kinds
<1>5. C!TypeOK'
  <2>1. signals' \in 0 .. MaxSignals
    <3>1. signals \in 0 .. MaxSignals
      BY DEF GInv, TypeOK, C!TypeOK
    <3> QED
      BY <1>1, <3>1, GateAssumption
  <2>2. exit' \in {-1, 0, 1, 2, 127, 143}
    BY <1>1
  <2> QED
    BY <1>2, <2>1, <2>2, StepsConstant DEF GInv, TypeOK, C!TypeOK
<1>6. CallerLineOK'
  <2>1. /\ line \in {"home flag", "target flag"} => exit' = -1
        /\ exit' # 0
    <3>1. CASE trapped
      BY <1>1, <3>1
    <3>2. CASE ~trapped
      <4>1. exit' = 143
        BY <1>1, <3>2
      <4>2. line \notin {"home flag", "target flag"}
        BY <1>4, <3>2 DEF BeforeTrap
      <4>3. exit' # 0
        BY <4>1
      <4> QED
        BY <4>2, <4>3, Zenon
    <3> QED
      BY <3>1, <3>2
  <2> QED
    BY <1>1, <1>2, <2>1 DEF GInv, CallerLineOK
<1>7. CallerOwnOK'
  BY <1>1, <1>2, <1>3, <1>4 DEF GInv, CallerOwnOK
<1>8. StepsOK'
  BY <1>1, <1>2, <1>3, StepsKept DEF GInv
<1>9. CallOK'
  BY <1>1, <1>2, CallKept
<1> QED
  BY <1>3, <1>5, <1>6, <1>7, <1>8, <1>9, DownstreamKept DEF GInv, TypeOK

(* The calling script goes to another line, and changes nothing but flags. *)
Goes ==
  /\ line # "none" /\ line # "steps" /\ line' # "none"
  /\ disk' = disk /\ path' = path /\ exit' = exit /\ signals' = signals
  /\ script' = script /\ use' = use /\ step' = step /\ passed' = passed
  /\ cleanup' \in [C!Kinds -> {0, 1}]
  /\ \A kind \in C!Kinds : cleanup'[kind] = 1 => path[kind] = "temporary"

LEMMA CallerGoes ==
  ASSUME GInv, Goes, UNCHANGED downstream, CallerLineOK'
  PROVE  GInv'
<1>1. CallOK'
  <2>1. ~Waits
    BY DEF Goes, Waits, Calling, C!At
  <2> QED
    BY <2>1, CallKept DEF Goes
<1>2. C!TypeOK'
  BY StepsConstant DEF GInv, TypeOK, C!TypeOK, Goes
<1>3. DiskOK' /\ CallerTouches
  BY DEF GInv, DiskOK, CallerTouches, Goes
<1>4. CallerOwnOK'
  BY DEF GInv, CallerOwnOK, Temporary, Goes
<1>5. StepsOK'
  BY StepsKept DEF GInv, Goes
<1> QED
  BY <1>1, <1>2, <1>3, <1>4, <1>5, DownstreamKept DEF GInv, TypeOK

LEMMA CheckToolsKeeps ==
  ASSUME GInv, ~Calling, UNCHANGED downstream, C!CheckTools
  PROVE  GInv'
<1>1. exit = -1 /\ line = "tools"
  BY DEF C!CheckTools, C!At
<1>2. script' = script /\ use' = use /\ path' = path /\ cleanup' = cleanup
      /\ step' = step /\ passed' = passed
  BY DEF C!CheckTools, C!settings
<1>3. CASE C!Exit(127, C!Mine)
  <2>1. Ends(127)
    BY <1>1, <1>2, <1>3 DEF Ends
  <2> QED
    BY <1>1, <2>1, CallerExits DEF Waits
<1>4. CASE ~C!Exit(127, C!Mine)
  <2>1. /\ line' \in {"manifests", "trap"} /\ disk' = disk
        /\ trapped' = trapped /\ signals' = signals /\ exit' = exit
    BY <1>4 DEF C!CheckTools, C!GoTo
  <2>2. Goes
    BY <1>1, <1>2, <2>1 DEF Goes, GInv, TypeOK, C!TypeOK
  <2>3. CallerLineOK'
    BY <1>1, <1>2, <2>1
       DEF GInv, CallerLineOK, BeforeTrap, CallerLines
  <2> QED
    BY <2>2, <2>3, CallerGoes
<1> QED
  BY <1>3, <1>4

LEMMA CheckManifestsKeeps ==
  ASSUME GInv, ~Calling, UNCHANGED downstream, C!CheckManifests
  PROVE  GInv'
<1>1. exit = -1 /\ line = "manifests"
  BY DEF C!CheckManifests, C!At
<1>2. script' = script /\ use' = use /\ path' = path /\ cleanup' = cleanup
      /\ step' = step /\ passed' = passed
  BY DEF C!CheckManifests, C!settings
<1>3. CASE C!Exit(1, C!Mine)
  <2>1. Ends(1)
    BY <1>1, <1>2, <1>3 DEF Ends
  <2> QED
    BY <1>1, <2>1, CallerExits DEF Waits
<1>4. CASE ~C!Exit(1, C!Mine)
  <2>1. /\ line' = "trap" /\ disk' = disk
        /\ trapped' = trapped /\ signals' = signals /\ exit' = exit
    BY <1>4 DEF C!CheckManifests, C!GoTo
  <2>2. Goes
    BY <1>1, <1>2, <2>1 DEF Goes, GInv, TypeOK, C!TypeOK
  <2>3. CallerLineOK'
    BY <1>1, <1>2, <2>1
       DEF GInv, CallerLineOK, BeforeTrap, CallerLines
  <2> QED
    BY <2>2, <2>3, CallerGoes
<1> QED
  BY <1>3, <1>4

LEMMA TrapKeeps ==
  ASSUME GInv, ~Calling, UNCHANGED downstream, C!Trap
  PROVE  GInv'
<1>1. exit = -1 /\ line = "trap"
  BY DEF C!Trap, C!At
<1>2. script' = script /\ use' = use /\ path' = path /\ cleanup' = cleanup
      /\ step' = step /\ passed' = passed /\ disk' = disk
  BY DEF C!Trap, C!settings
<1>3. line' = "home" /\ trapped' = TRUE /\ signals' = signals /\ exit' = exit
  BY DEF C!Trap, C!SetTrap
<1>4. Goes
  BY <1>1, <1>2, <1>3 DEF Goes, GInv, TypeOK, C!TypeOK
<1>5. CallerLineOK'
  BY <1>1, <1>2, <1>3 DEF GInv, CallerLineOK, BeforeTrap, CallerLines
<1> QED
  BY <1>4, <1>5, CallerGoes

LEMMA AfterAndFlag ==
  /\ C!Kinds = {"home", "target"}
  /\ C!After["home"] = "target" /\ C!After["target"] = "steps"
  /\ C!Flag["home"] = "home flag" /\ C!Flag["target"] = "target flag"
  BY DEF C!Kinds, C!After, C!Flag

LEMMA SetFlagKeeps ==
  ASSUME GInv, NEW kind \in C!Kinds, UNCHANGED downstream, C!SetFlag(kind)
  PROVE  GInv'
<1>1. /\ exit = -1 /\ line = C!Flag[kind] /\ line' = C!After[kind]
      /\ disk' = disk /\ trapped' = trapped /\ signals' = signals
      /\ exit' = exit
  BY DEF C!SetFlag, C!At, C!GoTo
<1>2. script' = script /\ use' = use /\ path' = path
      /\ step' = step /\ passed' = passed
  BY DEF C!SetFlag, C!settings
<1>3. path[kind] = "temporary"
  BY <1>1, AfterAndFlag DEF GInv, CallerLineOK
<1>4. /\ cleanup' \in [C!Kinds -> {0, 1}]
      /\ \A k \in C!Kinds : cleanup'[k] = IF k = kind THEN 1 ELSE cleanup[k]
  <2>1. cleanup \in [C!Kinds -> {0, 1}] /\ 1 \in {0, 1}
    BY DEF GInv, TypeOK, C!TypeOK
  <2>2. cleanup' = [cleanup EXCEPT ![kind] = 1]
    BY DEF C!SetFlag
  <2>3. cleanup' \in [C!Kinds -> {0, 1}]
    BY <2>1, <2>2, ExceptOf, Zenon
  <2>4. \A k \in C!Kinds : cleanup'[k] = IF k = kind THEN 1 ELSE cleanup[k]
    BY <2>1, <2>2, ExceptOf, Zenon
  <2> QED
    BY <2>3, <2>4
<1>5. \A k \in C!Kinds : cleanup'[k] = 1 => path[k] = "temporary"
  BY <1>3, <1>4 DEF GInv, TypeOK, C!TypeOK
<1>6. Goes
  <2>1. line # "none" /\ line # "steps" /\ line' # "none"
    BY <1>1, AfterAndFlag
  <2> QED
    BY <1>1, <1>2, <1>4, <1>5, <2>1 DEF Goes
<1>7. CallerLineOK'
  <2>1. CASE kind = "home"
    BY <1>1, <1>2, <1>4, <2>1, AfterAndFlag
       DEF GInv, CallerLineOK, BeforeTrap, CallerLines
  <2>2. CASE kind = "target"
    BY <1>1, <1>2, <1>4, <2>2, AfterAndFlag
       DEF GInv, CallerLineOK, BeforeTrap, CallerLines
  <2> QED
    BY <2>1, <2>2, AfterAndFlag
<1> QED
  BY <1>6, <1>7, CallerGoes

(* Ahead of its first command, the script has no results to keep.          *)
LEMMA NoResults ==
  ASSUME GInv, line # "steps", script' = script, step' = step,
         passed' = passed, exit' # 0
  PROVE  StepsOK'
<1>1. step = 1 /\ passed = {}
  BY DEF GInv, CallerLineOK
<1> QED
  BY <1>1, StepsConstant DEF GInv, StepsOK

LEMMA SelectKeeps ==
  ASSUME GInv, NEW kind \in C!Kinds, ~Calling, UNCHANGED downstream,
         C!Select(kind)
  PROVE  GInv'
<1>1. exit = -1 /\ line = kind
  BY DEF C!Select, C!At
<1>2. script' = script /\ use' = use /\ cleanup' = cleanup
      /\ step' = step /\ passed' = passed
  BY DEF C!Select, C!settings
<1>3. /\ line \in {"home", "target"} /\ line # "none" /\ line # "steps"
      /\ line # "home flag" /\ line # "target flag"
  BY <1>1, AfterAndFlag
<1>4. path \in [C!Kinds -> {"", "caller", "temporary"}]
  BY DEF GInv, TypeOK, C!TypeOK
<1>5. CASE path' = [path EXCEPT ![kind] = "temporary"]
           /\ disk' = disk \cup {<<kind, "temporary">>}
           /\ C!GoTo(C!Flag[kind])
  <2>1. line' = C!Flag[kind] /\ trapped' = trapped /\ signals' = signals
        /\ exit' = exit
    BY <1>5 DEF C!GoTo
  <2>2. "temporary" \in {"", "caller", "temporary"}
    OBVIOUS
  <2>3. path' \in [C!Kinds -> {"", "caller", "temporary"}]
    BY <1>4, <1>5, <2>2, ExceptOf, Zenon
  <2>4. \A k \in C!Kinds :
          path'[k] = IF k = kind THEN "temporary" ELSE path[k]
    BY <1>4, <1>5, <2>2, ExceptOf, Zenon
  <2> DEFINE new == <<kind, "temporary">>
  <2>5. /\ disk' = disk \cup {new} /\ new \in Seq(Names)
        /\ Len(new) = 2 /\ new[1] = kind
    <3>1. kind \in Names /\ "temporary" \in Names
      BY AfterAndFlag DEF Names
    <3> QED
      BY <1>5, <3>1, PairOf
  <2> HIDE DEF new
  <2>6. DiskOK'
    BY <2>5 DEF GInv, DiskOK
  <2>7. CallerTouches
    BY <2>5 DEF CallerTouches
  <2>8. C!TypeOK'
    <3>1. \A k \in C!Kinds : cleanup[k] = 1 => path'[k] = "temporary"
      BY <2>4 DEF GInv, TypeOK, C!TypeOK
    <3> QED
      BY <1>2, <2>1, <2>3, <3>1, StepsConstant DEF GInv, TypeOK, C!TypeOK
  <2>9. CallerLineOK'
    <3>1. CASE kind = "home"
      BY <1>1, <1>2, <2>1, <2>4, <3>1, AfterAndFlag
         DEF GInv, CallerLineOK, BeforeTrap, CallerLines
    <3>2. CASE kind = "target"
      BY <1>1, <1>2, <2>1, <2>4, <3>2, AfterAndFlag
         DEF GInv, CallerLineOK, BeforeTrap, CallerLines
    <3> QED
      BY <3>1, <3>2, AfterAndFlag
  <2>10. CallerOwnOK'
    <3>1. SUFFICES ASSUME NEW k \in C!Kinds, Temporary(k)'
                   PROVE  path'[k] = "temporary" /\ exit' = -1
      BY DEF CallerOwnOK
    <3>2. k = kind \/ Temporary(k)
      BY <2>5, <3>1 DEF Temporary, In
    <3> QED
      BY <1>1, <2>1, <2>4, <3>2 DEF GInv, CallerOwnOK
  <2>11. StepsOK'
    <3>1. exit' # 0
      BY <1>1, <2>1
    <3> QED
      BY <1>2, <1>3, <3>1, NoResults
  <2>12. CallOK'
    <3>1. line' # "none"
      BY <2>1, AfterAndFlag
    <3> QED
      BY <1>2, <1>3, <3>1, CallKept DEF Waits
  <2> QED
    BY <2>6, <2>7, <2>8, <2>9, <2>10, <2>11, <2>12, DownstreamKept
       DEF GInv, TypeOK
<1>6. CASE path' = [path EXCEPT ![kind] = ""] /\ C!Exit(1, C!Mine)
  <2>1. line \notin {"home flag", "target flag"}
    BY <1>3, Zenon
  <2>2. 1 # 0
    OBVIOUS
  <2>3. Ends(1)
    BY <1>1, <1>2, <1>6, <2>1, <2>2, Zenon DEF Ends
  <2> QED
    BY <1>3, <2>3, CallerExits DEF Waits
<1>7. CASE path' = path /\ disk' = disk /\ C!GoTo(C!After[kind])
  <2>1. line' = C!After[kind] /\ trapped' = trapped /\ signals' = signals
        /\ exit' = exit
    BY <1>7 DEF C!GoTo
  <2>2. Goes
    <3>1. line' # "none"
      BY <2>1, AfterAndFlag
    <3> QED
      BY <1>2, <1>3, <1>7, <2>1, <3>1 DEF Goes, GInv, TypeOK, C!TypeOK
  <2>3. CallerLineOK'
    <3>1. CASE kind = "home"
      BY <1>1, <1>2, <1>7, <2>1, <3>1, AfterAndFlag
         DEF GInv, CallerLineOK, BeforeTrap, CallerLines
    <3>2. CASE kind = "target"
      BY <1>1, <1>2, <1>7, <2>1, <3>2, AfterAndFlag
         DEF GInv, CallerLineOK, BeforeTrap, CallerLines
    <3> QED
      BY <3>1, <3>2, AfterAndFlag
  <2> QED
    BY <2>2, <2>3, CallerGoes
<1>8. CASE path' = path /\ C!Exit(2, C!Mine)
  <2>1. line \notin {"home flag", "target flag"}
    BY <1>3, Zenon
  <2>2. 2 # 0
    OBVIOUS
  <2>3. Ends(2)
    BY <1>1, <1>2, <1>8, <2>1, <2>2, Zenon DEF Ends
  <2> QED
    BY <1>3, <2>3, CallerExits DEF Waits
<1> QED
  BY <1>5, <1>6, <1>7, <1>8 DEF C!Select

(* The harness of either age, which cargo builds in the target directory.  *)
LEMMA HarnessFacts ==
  ASSUME GInv, NEW age \in {"stale", "fresh"}
  PROVE  LET harness == Append(C!Target, age)
         IN  /\ harness \in Seq(Names) /\ Len(harness) = 3
             /\ In(harness, "target", path["target"]) /\ harness[3] = age
             /\ harness[1] = "target" /\ harness[2] = path["target"]
             /\ harness = <<"target", path["target"], age>>
             /\ C!Has(harness) <=>
                  \E file \in disk : In(file, "target", path["target"])
                                      /\ Len(file) > 2 /\ file[3] = age
<1> DEFINE harness == <<"target", path["target"], age>>
<1>1. "target" \in Names /\ path["target"] \in Names /\ age \in Names
  BY DEF GInv, TypeOK, C!TypeOK, C!Kinds, Names
<1>2. /\ harness \in Seq(Names) /\ Len(harness) = 3
      /\ harness[1] = "target" /\ harness[2] = path["target"]
      /\ harness[3] = age
      /\ Append(<<"target", path["target"]>>, age) = harness
  BY <1>1, TripleOf
<1>3. Append(C!Target, age) = harness
  BY <1>2 DEF C!Target
<1>4. C!Has(harness) <=>
        \E file \in disk : In(file, "target", path["target"])
                            /\ Len(file) > 2 /\ file[3] = age
  <2>1. \A file \in disk : file \in Seq(Names)
    BY DEF GInv, DiskOK
  <2> QED
    BY <1>1, <2>1, PrefixTriple DEF C!Has
<1> HIDE DEF harness
<1>5. In(harness, "target", path["target"])
  BY <1>2 DEF In
<1>6. harness = <<"target", path["target"], age>>
  BY DEF harness
<1> QED
  BY <1>2, <1>3, <1>4, <1>5, <1>6

(* What cargo makes again.                                                 *)
LEMMA MadeFacts ==
  ASSUME GInv, NEW kind \in C!Kinds
  PROVE  LET file == <<kind, path[kind]>>
         IN  /\ file \in Seq(Names) /\ Len(file) = 2 /\ file[1] = kind
             /\ file[2] = path[kind]
<1>1. kind \in Names /\ path[kind] \in Names
  BY DEF GInv, TypeOK, C!TypeOK, C!Kinds, Names
<1> QED
  BY <1>1, PairOf

(* A build leaves only the harness it makes in the target directory, and   *)
(* no command makes anything but homes, targets and that harness.          *)
LEMMA WrittenFacts ==
  ASSUME GInv, NEW command
  PROVE  /\ \A file \in C!Written(command) :
              \/ file \in disk
              \/ /\ file \in Seq(Names)
                 /\ \E kind \in C!Kinds :
                      file[1] = kind /\ file[2] = path[kind]
                 /\ Len(file) = 2 \/ (Len(file) = 3 /\ file[3] = "fresh")
         /\ \A file \in disk :
              file \in C!Written(command)
                \/ (command = "build"
                      /\ file = <<"target", path["target"], "stale">>)
         /\ command = "build" =>
              <<"target", path["target"], "stale">> \notin C!Written(command)
<1> DEFINE made == {<<kind, path[kind]>> : kind \in C!Kinds}
           fresh == Append(C!Target, "fresh")
           stale == Append(C!Target, "stale")
<1>1. stale = <<"target", path["target"], "stale">>
  BY HarnessFacts
<1>2. /\ fresh \in Seq(Names) /\ Len(fresh) = 3 /\ fresh[3] = "fresh"
      /\ fresh[1] = "target" /\ fresh[2] = path["target"]
  BY HarnessFacts
<1>3. \A file \in made :
        /\ file \in Seq(Names) /\ Len(file) = 2
        /\ \E kind \in C!Kinds : file[1] = kind /\ file[2] = path[kind]
  BY MadeFacts
<1>4. C!Written(command) =
        IF command = "build"
        THEN (disk \cup made \cup {fresh}) \ {stale} ELSE disk \cup made
  BY DEF C!Written
<1> HIDE DEF made, fresh, stale
<1>5. "target" \in C!Kinds
  BY AfterAndFlag
<1>6. CASE command = "build"
  BY <1>1, <1>2, <1>3, <1>4, <1>5, <1>6
<1>7. CASE command # "build"
  BY <1>3, <1>4, <1>7
<1> QED
  BY <1>6, <1>7

LEMMA WrittenKeeps ==
  ASSUME GInv, NEW command, disk' = C!Written(command)
  PROVE  /\ DiskOK' /\ CallerTouches
         /\ \A kind \in C!Kinds :
              Temporary(kind)' => Temporary(kind) \/ path[kind] = "temporary"
         /\ command = "build" =>
              \A file \in disk' :
                In(file, "target", path["target"]) /\ Len(file) > 2
                  => file[3] # "stale"
<1>1. /\ \A file \in disk' :
           \/ file \in disk
           \/ /\ file \in Seq(Names)
              /\ \E kind \in C!Kinds :
                   file[1] = kind /\ file[2] = path[kind]
              /\ Len(file) = 2 \/ (Len(file) = 3 /\ file[3] = "fresh")
      /\ \A file \in disk :
           file \in disk'
             \/ (command = "build"
                   /\ file = <<"target", path["target"], "stale">>)
      /\ command = "build" =>
           <<"target", path["target"], "stale">> \notin disk'
  BY WrittenFacts
<1> DEFINE stale == <<"target", path["target"], "stale">>
<1>2. stale[1] = "target" /\ Len(stale) = 3
  OBVIOUS
<1>3. \A file \in CallersFiles : Len(file) = 2
  <2>1. \A root \in Names : Len(<<root, "caller">>) = 2
    BY PairOf DEF Names
  <2> QED
    BY <2>1 DEF CallersFiles, Names
<1> HIDE DEF stale
<1>4. DiskOK'
  <2>1. disk' \subseteq Seq(Names)
    BY <1>1 DEF GInv, DiskOK
  <2>2. CallersFiles \subseteq disk'
    <3>1. SUFFICES ASSUME NEW file \in CallersFiles
                   PROVE  file \in disk'
      OBVIOUS
    <3>2. file \in disk /\ file # stale
      BY <1>2, <1>3 DEF GInv, DiskOK
    <3> QED
      BY <1>1, <3>2 DEF stale
  <2>3. ASSUME NEW file \in disk',
               file[1] = "target" /\ Len(file) > 2 /\ file[3] = "stale"
        PROVE  file = <<"target", "caller", "stale">>
    <3>1. file \in disk
      BY <1>1, <2>3
    <3> QED
      BY <2>3, <3>1 DEF GInv, DiskOK
  <2> QED
    BY <2>1, <2>2, <2>3 DEF DiskOK
<1>5. CallerTouches
  <2>1. SUFFICES ASSUME NEW file, file[1] \notin C!Kinds
                 PROVE  file \in disk' <=> file \in disk
    BY DEF CallerTouches
  <2>2. file # stale
    BY <1>2, <2>1, AfterAndFlag
  <2> QED
    BY <1>1, <2>1, <2>2 DEF stale
<1>6. ASSUME NEW kind \in C!Kinds, Temporary(kind)'
      PROVE  Temporary(kind) \/ path[kind] = "temporary"
  BY <1>1, <1>6 DEF Temporary, In
<1>7. ASSUME command = "build", NEW file \in disk',
             In(file, "target", path["target"]), Len(file) > 2,
             file[3] = "stale"
      PROVE  FALSE
  <2>1. file \in disk /\ file[1] = "target" /\ file[2] = path["target"]
    BY <1>1, <1>7 DEF In
  <2>2. file = <<"target", "caller", "stale">>
    BY <1>7, <2>1 DEF GInv, DiskOK
  <2>3. path["target"] = "caller"
    BY <2>1, <2>2
  <2> QED
    BY <1>1, <1>7, <2>2, <2>3
<1> QED
  BY <1>4, <1>5, <1>6, <1>7

LEMMA RunStepKeeps ==
  ASSUME GInv, ~Waits, UNCHANGED downstream, C!RunStep,
         Calling /\ step' = step + 1 => d_exit = 0
  PROVE  GInv'
<1> DEFINE command == C!Steps[script][step]
           runs_harness == script = "check_secret_taint" /\ command # "build"
<1>1. exit = -1 /\ line = "steps" /\ step <= Len(C!Steps[script])
  BY DEF C!RunStep, C!At
<1>2. script' = script /\ use' = use /\ path' = path /\ cleanup' = cleanup
  BY DEF C!RunStep, C!settings
<1>3. CASE C!Exit(1, C!Mine) /\ passed' = passed /\ step' = step
  <2>1. line \notin {"home flag", "target flag"} /\ line # "none"
    BY <1>1
  <2>2. 1 # 0
    OBVIOUS
  <2>3. Ends(1)
    BY <1>1, <1>2, <1>3, <2>1, <2>2, Zenon DEF Ends
  <2> QED
    BY <2>1, <2>3, CallerExits
<1>4. CASE /\ runs_harness => C!Binaries # {}
           /\ disk' = IF runs_harness THEN disk ELSE C!Written(command)
           /\ passed' = passed \cup {<<command, C!Binaries>>}
           /\ step' = step + 1
           /\ C!GoTo("steps")
  <2>1. /\ script \in {"check", "check_secret_taint"} /\ step \in 1 .. 9
        /\ script = "check" => step \in 1 .. 8
        /\ script = "check_secret_taint" => step \in 1 .. 5
    <3>1. script \in {"check", "check_secret_taint"}
      BY StepRange DEF GInv
    <3>2. CASE script = "check"
      <4>1. step \in 1 .. 9 /\ step <= 8
        BY <1>1, <3>2, StepRange, StepsFacts DEF GInv
      <4> QED
        BY <3>2, <4>1
    <3>3. CASE script = "check_secret_taint"
      <4>1. step \in 1 .. 6 /\ step <= 5
        BY <1>1, <3>3, StepRange, StepsFacts DEF GInv
      <4> QED
        BY <3>3, <4>1
    <3> QED
      BY <3>1, <3>2, <3>3
  <2>2. /\ script = "check" => command # "build"
        /\ script = "check_secret_taint" => (command = "build" <=> step = 1)
    BY <2>1, StepsFacts
  <2>3. line' = "steps" /\ trapped' = trapped /\ signals' = signals
        /\ exit' = exit
    BY <1>4 DEF C!GoTo
  <2>4. step' = step + 1 /\ passed' = passed \cup {<<command, C!Binaries>>}
    BY <1>4
  <2>5. /\ disk' = disk \/ disk' = C!Written(command)
        /\ ~runs_harness => disk' = C!Written(command)
        /\ runs_harness => disk' = disk /\ C!Binaries # {}
    BY <1>4
  <2>6. /\ DiskOK' /\ CallerTouches
        /\ \A kind \in C!Kinds :
             Temporary(kind)' => Temporary(kind) \/ path[kind] = "temporary"
    <3>1. CASE disk' = disk
      BY <3>1 DEF GInv, DiskOK, CallerTouches, Temporary
    <3>2. CASE disk' = C!Written(command)
      BY <3>2, WrittenKeeps
    <3> QED
      BY <2>5, <3>1, <3>2
  <2>7. C!TypeOK'
    <3>1. step' \in 1 .. Len(C!Steps'[script']) + 1
      <4> DEFINE n == Len(C!Steps[script])
      <4>1. n \in Nat
        BY StepsConstant DEF GInv, TypeOK, C!TypeOK
      <4>2. step <= n
        BY <1>1
      <4> HIDE DEF n
      <4>3. step + 1 \in 1 .. n + 1
        BY <2>1, <4>1, <4>2
      <4> QED
        BY <1>2, <2>4, <4>3, StepsConstant DEF n
    <3> QED
      BY <1>2, <2>3, <3>1, StepsConstant DEF GInv, TypeOK, C!TypeOK
  <2>8. CallerLineOK'
    BY <1>1, <1>2, <2>3 DEF GInv, CallerLineOK
  <2>9. CallerOwnOK'
    BY <1>1, <1>2, <2>3, <2>6 DEF GInv, CallerOwnOK
  <2>10. StepsOK'
    <3>1. {pair[1] : pair \in passed'}
            = {C!Steps'[script'][n] : n \in 1 .. step' - 1}
      <4>1. 1 .. step' - 1 = (1 .. step - 1) \cup {step}
        BY <2>1, <2>4
      <4>2. <<command, C!Binaries>>[1] = command
        OBVIOUS
      <4>3. {pair[1] : pair \in passed}
              = {C!Steps[script][n] : n \in 1 .. step - 1}
        BY DEF GInv, StepsOK
      <4> HIDE DEF command
      <4>4. {pair[1] : pair \in passed'}
              = {pair[1] : pair \in passed} \cup {command}
        BY <2>4, <4>2
      <4>5. {C!Steps[script][n] : n \in 1 .. step' - 1}
              = {C!Steps[script][n] : n \in 1 .. step - 1} \cup {command}
        BY <4>1 DEF command
      <4> QED
        BY <1>2, <4>3, <4>4, <4>5, StepsConstant
    <3>2. ASSUME script = "check_secret_taint", NEW file \in disk',
                 In(file, "target", path["target"]), Len(file) > 2
          PROVE  file[3] # "stale"
      <4>1. CASE command = "build"
        BY <2>5, <3>2, <4>1, WrittenKeeps
      <4>2. CASE command # "build"
        <5>1. step > 1 /\ disk' = disk
          BY <2>1, <2>2, <2>5, <3>2, <4>2
        <5> QED
          BY <3>2, <5>1 DEF GInv, StepsOK
      <4> QED
        BY <4>1, <4>2
    <3>3. ASSUME script = "check_secret_taint", command # "build"
          PROVE  C!Binaries = {"fresh"}
      <4>1. step > 1 /\ disk' = disk /\ C!Binaries # {}
        BY <2>1, <2>2, <2>5, <3>3
      <4>2. ~C!Has(Append(C!Target, "stale"))
        BY <3>2, <3>3, <4>1, HarnessFacts
      <4> QED
        BY <4>1, <4>2 DEF C!Binaries
    <3>4. ASSUME script = "check_secret_taint", NEW pair \in passed',
                 pair[1] # "build"
          PROVE  pair[2] = {"fresh"}
      <4>1. CASE pair \in passed
        BY <3>4, <4>1 DEF GInv, StepsOK
      <4>2. CASE pair = <<command, C!Binaries>>
        <5>1. pair[1] = command /\ pair[2] = C!Binaries
          BY <4>2
        <5> QED
          BY <3>3, <3>4, <5>1
      <4> QED
        BY <2>4, <4>1, <4>2
    <3>5. exit' # 0
      BY <1>1, <2>3
    <3> QED
      BY <1>2, <3>1, <3>2, <3>4, <3>5 DEF StepsOK, In
  <2>11. CallOK'
    <3>1. line # "none" /\ line' # "none"
      BY <1>1, <2>3
    <3> QED
      BY <1>1, <1>2, <2>3, <2>4, <3>1, CallKept
  <2> QED
    BY <2>6, <2>7, <2>8, <2>9, <2>10, <2>11, DownstreamKept DEF GInv, TypeOK
<1> QED
  BY <1>3, <1>4 DEF C!RunStep

LEMMA FinishKeeps ==
  ASSUME GInv, ~Waits, UNCHANGED downstream, C!Finish
  PROVE  GInv'
<1>1. exit = -1 /\ line = "steps" /\ step > Len(C!Steps[script])
  BY DEF C!Finish, C!At
<1>2. line \notin {"home flag", "target flag"} /\ line # "none"
  BY <1>1
<1>3. Ends(0)
  BY <1>1, <1>2, Zenon DEF Ends, C!Finish, C!settings
<1> QED
  BY <1>2, <1>3, CallerExits

LEMMA CallKeeps ==
  ASSUME GInv, Call
  PROVE  GInv'
<1>1. line = "steps" /\ exit = -1 /\ script = "check" /\ step = 8
  BY CallingFacts DEF GInv, Call
<1>2. d_line = "none" /\ d_line' = "home" /\ home' = path["home"]
  BY DEF Call
<1>3. disk' = disk /\ caller' = caller
  BY DEF Call
<1>4. d_trapped' = d_trapped /\ d_signals' = d_signals /\ d_exit' = d_exit
      /\ compiled' = compiled /\ target' = target /\ marker' = marker
  BY DEF Call
<1>5. /\ line' = line /\ trapped' = trapped /\ signals' = signals
      /\ exit' = exit /\ script' = script /\ use' = use /\ path' = path
      /\ cleanup' = cleanup /\ step' = step /\ passed' = passed
  BY <1>3 DEF caller
<1>6. TypeOK'
  BY <1>4, <1>5, StepsConstant DEF GInv, TypeOK, C!TypeOK, D!TypeOK
<1>7. DiskOK' /\ CallerLineOK' /\ CallerOwnOK'
  BY <1>3, <1>5 DEF GInv, DiskOK, CallerLineOK, CallerOwnOK, Temporary
<1>8. StepsOK'
  BY <1>3, <1>5, StepsConstant DEF GInv, StepsOK
<1>9. CallOK'
  <2>1. home' \in {"", "caller", "temporary"}
    <3>1. path["home"] \in {"", "caller", "temporary"}
      <4>1. path \in [C!Kinds -> {"", "caller", "temporary"}]
        BY DEF GInv, TypeOK, C!TypeOK
      <4> QED
        BY <4>1, AfterAndFlag
    <3> QED
      BY <1>2, <3>1
  <2>2. line' = "steps" /\ exit' = -1 /\ script' = "check" /\ step' = 8
        /\ d_line' = "home" /\ home' = path'["home"]
    BY <1>1, <1>2, <1>5
  <2>3. line' # "none" /\ d_line' # "none" /\ step' # 9
    BY <2>2
  <2>4. (step' = 8 /\ exit' = -1) \/ d_exit' # -1
    BY <2>2
  <2> QED
    BY <2>1, <2>2, <2>3, <2>4, Zenon DEF CallOK
<1>10. DownstreamLineOK'
  BY <1>2, <1>4 DEF GInv, DownstreamLineOK, BeforeReset, AfterBuild,
                    DownstreamLines
<1>11. DownstreamOwnOK'
  BY <1>3, <1>4 DEF GInv, DownstreamOwnOK, Temporary
<1>12. MarkersOK'
  BY <1>2, <1>3, <1>4 DEF GInv, MarkersOK, MarkerLines, AfterBuild
<1> QED
  BY <1>6, <1>7, <1>8, <1>9, <1>10, <1>11, <1>12 DEF GInv

LEMMA CallerStepKeeps ==
  ASSUME GInv, CallerStep
  PROVE  GInv'
<1>1. line # "none" /\ ~Calling /\ UNCHANGED downstream /\ ~Waits
  BY DEF CallerStep, Waits
<1>2. CASE C!CheckTools
  BY <1>1, <1>2, CheckToolsKeeps
<1>3. CASE C!CheckManifests
  BY <1>1, <1>3, CheckManifestsKeeps
<1>4. CASE C!Trap
  BY <1>1, <1>4, TrapKeeps
<1>5. ASSUME NEW kind \in C!Kinds, C!Select(kind)
      PROVE  GInv'
  BY <1>1, <1>5, SelectKeeps
<1>6. ASSUME NEW kind \in C!Kinds, C!SetFlag(kind)
      PROVE  GInv'
  BY <1>1, <1>6, SetFlagKeeps
<1>7. CASE C!RunStep
  BY <1>1, <1>7, RunStepKeeps
<1>8. CASE C!Finish
  BY <1>1, <1>8, FinishKeeps
<1>9. CASE C!Interrupt
  BY <1>1, <1>9, CallerSignalled
<1> QED
  BY <1>2, <1>3, <1>4, <1>5, <1>6, <1>7, <1>8, <1>9 DEF CallerStep, C!Next

LEMMA ReturnKeeps ==
  ASSUME GInv, Return
  PROVE  GInv'
<1>1. C!RunStep /\ UNCHANGED downstream /\ (step' = step + 1 => d_exit = 0)
  BY DEF Return
<1>2. ~Waits
  BY DEF Return, Waits
<1> QED
  BY <1>1, <1>2, RunStepKeeps

LEMMA LateSignalKeeps ==
  ASSUME GInv, LateSignal
  PROVE  GInv'
<1>1. ~Waits /\ C!Interrupt /\ UNCHANGED downstream
  BY DEF LateSignal, Waits
<1>2. line # "none"
  BY CallingFacts DEF GInv, LateSignal
<1> QED
  BY <1>1, <1>2, CallerSignalled

-----------------------------------------------------------------------------
(* Steps of the downstream script.                                         *)

(* It makes nothing but its own directories and the cargo home.            *)
DownstreamTouches ==
  \A file \in disk' :
    file \in disk \/ file[1] \in {"downstream", "marker"}
                 \/ file = <<"home", home>>

(* It is running, and goes on or ends.                                     *)
Running ==
  /\ d_line # "none" /\ d_exit = -1 /\ d_line' # "none" /\ home' = home
  /\ caller' = caller

(* It runs by itself or while check.sh waits for it.                       *)
LEMMA RunningFacts ==
  ASSUME GInv, Running
  PROVE  /\ script = "check"
         /\ step \in 1 .. 8
         /\ exit = -1 /\ d_exit # 0
         /\ line # "none" => line = "steps" /\ home = path["home"] /\ step = 8
         /\ line = "none" => home # "temporary"
<1>1. d_line # "none" /\ d_exit = -1
  BY DEF Running
<1>2. script = "check"
  BY <1>1 DEF GInv, CallOK
<1>3. d_exit # 0
  BY <1>1
<1>4. step \in 1 .. 9 /\ step # 9
  BY <1>2, <1>3, StepRange DEF GInv, CallOK
<1>5. line # "none" => /\ line = "steps" /\ home = path["home"]
                       /\ step = 8 /\ exit = -1
  BY <1>1 DEF GInv, CallOK
<1>6. line = "none" => home # "temporary" /\ exit = -1
  BY DEF GInv, CallOK
<1>7. step \in 1 .. 8
  BY <1>4
<1> QED
  BY <1>2, <1>3, <1>5, <1>6, <1>7

LEMMA CallerKept ==
  ASSUME GInv, Running, DownstreamTouches
  PROVE  /\ C!TypeOK' /\ CallerLineOK' /\ CallerOwnOK' /\ StepsOK'
         /\ CallOK'
<1>1. /\ line' = line /\ trapped' = trapped /\ signals' = signals
      /\ exit' = exit /\ script' = script /\ use' = use /\ path' = path
      /\ cleanup' = cleanup /\ step' = step /\ passed' = passed
  BY DEF caller, Running
<1>2. C!TypeOK'
  BY <1>1, StepsConstant DEF GInv, TypeOK, C!TypeOK
<1>3. CallerLineOK'
  BY <1>1 DEF GInv, CallerLineOK
<1>4. CallerOwnOK'
  <2>1. SUFFICES ASSUME NEW kind \in C!Kinds, Temporary(kind)'
                 PROVE  path[kind] = "temporary" /\ exit = -1
    BY <1>1 DEF CallerOwnOK
  <2>2. PICK file \in disk' : In(file, kind, "temporary")
    BY <2>1 DEF Temporary, In
  <2>3. file[1] = kind /\ file[2] = "temporary"
    BY <2>2 DEF In
  <2>4. file[1] \notin {"downstream", "marker"}
    BY <2>3, AfterAndFlag
  <2>5. CASE file \in disk
    BY <2>2, <2>5 DEF GInv, CallerOwnOK, Temporary
  <2>6. CASE file = <<"home", home>>
    <3>1. file[1] = "home" /\ file[2] = home
      BY <2>6
    <3>2. kind = "home" /\ home = "temporary"
      BY <2>3, <3>1
    <3> QED
      BY <3>2, RunningFacts
  <2> QED
    BY <2>4, <2>5, <2>6 DEF DownstreamTouches
<1>5. StepsOK'
  BY <1>1, RunningFacts, StepsConstant DEF GInv, StepsOK
<1>6. CallOK'
  <2>1. d_line' # "none" /\ home' = home
    BY DEF Running
  <2>2. home \in {"", "caller", "temporary"}
    BY DEF GInv, CallOK
  <2>3. step # 9
    BY RunningFacts
  <2> QED
    BY <1>1, <2>1, <2>2, <2>3, RunningFacts DEF CallOK
<1> QED
  BY <1>2, <1>3, <1>4, <1>5, <1>6

LEMMA DownstreamCleans ==
  ASSUME GInv, disk' = DownstreamCleanup
  PROVE  /\ DiskOK' /\ DownstreamTouches /\ disk' \subseteq disk
         /\ ~d_trapped => ~Temporary("downstream") /\ ~Temporary("marker")
         /\ Temporary("downstream")' =>
              Temporary("downstream") /\ ~d_trapped
         /\ Temporary("marker")' => Temporary("marker") /\ ~d_trapped
<1>1. d_trapped => target # "caller" /\ marker # "caller"
  BY DEF GInv, TypeOK, D!TypeOK
<1>2. ASSUME NEW file \in CallersFiles
      PROVE  file \in disk'
  <2>1. file \in disk
    BY DEF GInv, DiskOK
  <2>2. \A root \in {"home", "target", "downstream", "marker"} :
          <<root, "caller">>[2] = "caller"
    OBVIOUS
  <2>3. file[2] = "caller"
    BY <2>2 DEF CallersFiles
  <2> QED
    BY <1>1, <2>1, <2>3 DEF DownstreamCleanup, In
<1>3. disk' \subseteq disk
  BY DEF DownstreamCleanup
<1>4. DiskOK'
  BY <1>2, <1>3 DEF GInv, DiskOK
<1>5. DownstreamTouches
  BY <1>3 DEF DownstreamTouches
<1>6. Temporary("downstream") => target = "temporary"
  BY DEF GInv, DownstreamOwnOK
<1>7. Temporary("marker") => marker = "temporary"
  BY DEF GInv, DownstreamOwnOK
<1>8. ~d_trapped => target # "temporary" /\ marker # "temporary"
  BY DEF GInv, DownstreamLineOK
<1>9. "temporary" # ""
  OBVIOUS
<1>10. ASSUME Temporary("downstream")'
       PROVE  Temporary("downstream") /\ ~d_trapped
  <2>1. PICK file \in disk' : In(file, "downstream", "temporary")
    BY <1>10 DEF Temporary, In
  <2>2. Temporary("downstream")
    BY <1>3, <2>1 DEF Temporary
  <2> QED
    BY <1>6, <1>9, <2>1, <2>2 DEF DownstreamCleanup
<1>11. ASSUME Temporary("marker")'
       PROVE  Temporary("marker") /\ ~d_trapped
  <2>1. PICK file \in disk' : In(file, "marker", "temporary")
    BY <1>11 DEF Temporary, In
  <2>2. Temporary("marker")
    BY <1>3, <2>1 DEF Temporary
  <2> QED
    BY <1>7, <1>9, <2>1, <2>2 DEF DownstreamCleanup
<1> QED
  BY <1>3, <1>4, <1>5, <1>6, <1>7, <1>8, <1>10, <1>11

(* The downstream script ends.                                             *)
DownstreamEnds(status) ==
  /\ Running
  /\ D!Exit(status, D!Mine)
  /\ target' = target /\ marker' = marker /\ compiled' = compiled
  /\ status = 0 => d_line = "end"

LEMMA DownstreamExits ==
  ASSUME GInv, NEW status \in {0, 1, 2}, DownstreamEnds(status)
  PROVE  GInv'
<1>1. /\ d_exit' = status /\ disk' = DownstreamCleanup
      /\ d_line' = d_line /\ d_trapped' = d_trapped
      /\ d_signals' = d_signals
  BY DownstreamRemoves DEF D!Exit, GInv, DownstreamEnds
<1>2. target' = target /\ marker' = marker /\ compiled' = compiled
  BY DEF DownstreamEnds
<1>3. /\ DiskOK' /\ DownstreamTouches /\ disk' \subseteq disk
      /\ ~Temporary("downstream")' /\ ~Temporary("marker")'
  BY <1>1, DownstreamCleans
<1>4. D!TypeOK'
  <2>1. d_exit' \in {-1, 0, 1, 2, 143}
    BY <1>1
  <2> QED
    BY <1>1, <1>2, <2>1 DEF GInv, TypeOK, D!TypeOK
<1>5. DownstreamLineOK'
  BY <1>1, <1>2 DEF GInv, DownstreamLineOK
<1>6. DownstreamOwnOK'
  BY <1>3 DEF DownstreamOwnOK
<1>7. MarkersOK'
  <2>1. \A crate : MarkerLines(crate)' \subseteq MarkerLines(crate)
    BY <1>3 DEF MarkerLines, In
  <2>2. d_exit' # -1
    BY <1>1
  <2>3. d_exit' = 0 => d_line = "end"
    BY <1>1 DEF DownstreamEnds
  <2> QED
    BY <1>1, <1>2, <2>1, <2>2, <2>3 DEF GInv, MarkersOK
<1> QED
  BY <1>3, <1>4, <1>5, <1>6, <1>7, CallerKept
     DEF GInv, TypeOK, DownstreamEnds

LEMMA DownstreamSignalled ==
  ASSUME GInv, Running, D!Interrupt
  PROVE  GInv'
<1>1. /\ disk' = DownstreamCleanup /\ d_exit = -1
      /\ d_exit' = IF d_trapped THEN d_exit ELSE 143
      /\ d_signals' = d_signals + 1 /\ d_signals < MaxSignals
      /\ d_line' = d_line /\ d_trapped' = d_trapped
  BY DownstreamRemoves DEF D!Interrupt, D!Signal, GInv
<1>2. target' = target /\ marker' = marker /\ compiled' = compiled
  BY DEF D!Interrupt, D!made
<1>3. /\ DiskOK' /\ DownstreamTouches
      /\ ~Temporary("downstream")' /\ ~Temporary("marker")'
  BY <1>1, DownstreamCleans
<1>4. d_signals' \in 0 .. MaxSignals /\ d_signals' # 0
  <2>1. d_signals \in 0 .. MaxSignals
    BY DEF GInv, TypeOK, D!TypeOK
  <2> QED
    BY <1>1, <2>1, GateAssumption
<1>5. D!TypeOK'
  <2>1. d_exit' \in {-1, 0, 1, 2, 143}
    BY <1>1
  <2> QED
    BY <1>1, <1>2, <1>4, <2>1 DEF GInv, TypeOK, D!TypeOK
<1>6. DownstreamLineOK'
  BY <1>1, <1>2 DEF GInv, DownstreamLineOK
<1>7. DownstreamOwnOK'
  BY <1>3 DEF DownstreamOwnOK
<1>8. MarkersOK'
  BY <1>4 DEF MarkersOK
<1> QED
  BY <1>3, <1>5, <1>6, <1>7, <1>8, CallerKept DEF GInv, TypeOK

(* The downstream script goes to another line, and may make files.         *)
DownstreamGoes(files) ==
  /\ Running
  /\ disk' = disk \cup files /\ files \subseteq Seq(Names)
  /\ \A file \in files :
       \/ file = <<"home", home>>
       \/ file[1] = "downstream" /\ target' = "temporary"
       \/ file[1] = "marker" /\ marker' = "temporary"
  /\ target' = target \/ target # "temporary"
  /\ marker' = marker \/ marker # "temporary"
  /\ d_exit' = d_exit /\ d_signals' = d_signals

LEMMA DownstreamGoing ==
  ASSUME GInv, NEW files, DownstreamGoes(files),
         D!TypeOK', DownstreamLineOK', MarkersOK'
  PROVE  GInv'
<1>1. /\ disk' = disk \cup files /\ files \subseteq Seq(Names)
      /\ \A file \in files :
           \/ file = <<"home", home>>
           \/ file[1] = "downstream" /\ target' = "temporary"
           \/ file[1] = "marker" /\ marker' = "temporary"
  BY DEF DownstreamGoes
<1>2. <<"home", home>>[1] = "home"
  OBVIOUS
<1>3. \A file \in files : file[1] # "target"
  BY <1>1, <1>2
<1>4. DiskOK'
  BY <1>1, <1>3 DEF GInv, DiskOK
<1>5. DownstreamTouches
  BY <1>1 DEF DownstreamTouches
<1>6. d_exit' = -1
  BY DEF DownstreamGoes, Running
<1>7. ASSUME Temporary("downstream")'
      PROVE  target' = "temporary"
  <2>1. PICK file \in disk' : In(file, "downstream", "temporary")
    BY <1>7 DEF Temporary, In
  <2>2. CASE file \in disk
    <3>1. target = "temporary"
      BY <2>1, <2>2 DEF GInv, DownstreamOwnOK, Temporary
    <3> QED
      BY <3>1 DEF DownstreamGoes
  <2>3. CASE file \in files
    BY <1>1, <1>2, <2>1, <2>3 DEF In
  <2> QED
    BY <1>1, <2>2, <2>3
<1>8. ASSUME Temporary("marker")'
      PROVE  marker' = "temporary"
  <2>1. PICK file \in disk' : In(file, "marker", "temporary")
    BY <1>8 DEF Temporary, In
  <2>2. CASE file \in disk
    <3>1. marker = "temporary"
      BY <2>1, <2>2 DEF GInv, DownstreamOwnOK, Temporary
    <3> QED
      BY <3>1 DEF DownstreamGoes
  <2>3. CASE file \in files
    BY <1>1, <1>2, <2>1, <2>3 DEF In
  <2> QED
    BY <1>1, <2>2, <2>3
<1>9. DownstreamOwnOK'
  BY <1>6, <1>7, <1>8 DEF DownstreamOwnOK
<1>10. Running
  BY DEF DownstreamGoes
<1> QED
  BY <1>4, <1>5, <1>9, <1>10, CallerKept DEF GInv, TypeOK

LEMMA CheckHomeKeeps ==
  ASSUME GInv, Running, D!CheckHome
  PROVE  GInv'
<1>1. d_line = "home" /\ d_exit = -1
  BY DEF D!CheckHome, D!At
<1>2. target' = target /\ marker' = marker /\ compiled' = compiled
  BY DEF D!CheckHome, D!made
<1>3. ~d_trapped
  BY <1>1 DEF GInv, DownstreamLineOK, BeforeReset
<1>4. CASE home = ""
  <2>1. D!Exit(2, D!Mine)
    BY <1>3, <1>4 DEF D!CheckHome, D!Exit
  <2>2. 2 # 0
    OBVIOUS
  <2>3. DownstreamEnds(2)
    BY <1>2, <2>1, <2>2, Zenon DEF DownstreamEnds
  <2> QED
    BY <2>3, DownstreamExits
<1>5. CASE home # ""
  <2>1. /\ d_line' = "reset" /\ disk' = disk /\ d_trapped' = d_trapped
        /\ d_signals' = d_signals /\ d_exit' = d_exit
    BY <1>5 DEF D!CheckHome, D!GoTo
  <2>2. DownstreamGoes({})
    BY <1>2, <2>1 DEF DownstreamGoes
  <2>3. D!TypeOK'
    BY <1>2, <2>1 DEF GInv, TypeOK, D!TypeOK
  <2>4. DownstreamLineOK'
    BY <1>1, <1>2, <2>1
       DEF GInv, DownstreamLineOK, BeforeReset, AfterBuild, DownstreamLines
  <2>5. MarkersOK'
    BY <1>1, <1>2, <2>1 DEF GInv, MarkersOK, MarkerLines, AfterBuild
  <2> QED
    BY <2>2, <2>3, <2>4, <2>5, DownstreamGoing
<1> QED
  BY <1>4, <1>5

LEMMA ResetVariablesKeeps ==
  ASSUME GInv, Running, D!ResetVariables
  PROVE  GInv'
<1>1. /\ d_line = "reset" /\ d_exit = -1
      /\ target' = "" /\ marker' = "" /\ d_trapped' = TRUE
      /\ d_line' = "target" /\ d_signals' = d_signals /\ d_exit' = d_exit
      /\ disk' = disk /\ compiled' = compiled
  BY DEF D!ResetVariables, D!At, D!SetTrap
<1>2. target # "temporary" /\ marker # "temporary"
  BY <1>1 DEF GInv, DownstreamLineOK, BeforeReset
<1>3. DownstreamGoes({})
  BY <1>1, <1>2 DEF DownstreamGoes
<1>4. D!TypeOK'
  BY <1>1 DEF GInv, TypeOK, D!TypeOK
<1>5. DownstreamLineOK'
  BY <1>1 DEF DownstreamLineOK, BeforeReset, AfterBuild, DownstreamLines
<1>6. MarkersOK'
  BY <1>1 DEF GInv, MarkersOK, MarkerLines, AfterBuild
<1> QED
  BY <1>3, <1>4, <1>5, <1>6, DownstreamGoing

LEMMA MakeTargetKeeps ==
  ASSUME GInv, Running, D!MakeTarget
  PROVE  GInv'
<1>1. d_line = "target" /\ d_exit = -1
  BY DEF D!MakeTarget, D!At
<1>2. target = "" /\ marker = "" /\ d_trapped
  BY <1>1 DEF GInv, DownstreamLineOK, BeforeReset
<1>3. marker' = marker /\ compiled' = compiled
  BY DEF D!MakeTarget
<1>4. CASE target' = "" /\ D!Exit(1, D!Mine)
  <2>1. 1 # 0
    OBVIOUS
  <2>2. DownstreamEnds(1)
    BY <1>2, <1>3, <1>4, <2>1, Zenon DEF DownstreamEnds
  <2> QED
    BY <2>2, DownstreamExits
<1>5. CASE /\ target' = "temporary"
           /\ disk' = disk \cup {<<"downstream", "temporary">>}
           /\ D!GoTo("marker")
  <2> DEFINE new == <<"downstream", "temporary">>
  <2>1. new \in Seq(Names) /\ Len(new) = 2 /\ new[1] = "downstream"
    BY PairOf DEF Names
  <2>2. /\ d_line' = "marker" /\ d_trapped' = d_trapped
        /\ d_signals' = d_signals /\ d_exit' = d_exit
        /\ disk' = disk \cup {new} /\ target' = "temporary"
    BY <1>5 DEF D!GoTo
  <2> HIDE DEF new
  <2>3. DownstreamGoes({new})
    BY <1>2, <1>3, <2>1, <2>2 DEF DownstreamGoes
  <2>4. D!TypeOK'
    BY <1>2, <1>3, <2>2 DEF GInv, TypeOK, D!TypeOK
  <2>5. DownstreamLineOK'
    BY <1>2, <1>3, <2>2
       DEF DownstreamLineOK, BeforeReset, AfterBuild, DownstreamLines
  <2>6. MarkersOK'
    <3>1. ASSUME NEW crate
          PROVE  MarkerLines(crate)' = MarkerLines(crate)
      <4>1. disk' = disk \cup {new} /\ Len(new) = 2
        BY <2>1, <2>2
      <4> QED
        BY <4>1 DEF MarkerLines, In
    <3> QED
      BY <1>1, <1>3, <2>2, <3>1 DEF GInv, MarkersOK, AfterBuild
  <2> QED
    BY <2>3, <2>4, <2>5, <2>6, DownstreamGoing
<1> QED
  BY <1>4, <1>5 DEF D!MakeTarget

LEMMA MakeMarkersKeeps ==
  ASSUME GInv, Running, D!MakeMarkers
  PROVE  GInv'
<1>1. d_line = "marker" /\ d_exit = -1
  BY DEF D!MakeMarkers, D!At
<1>2. target = "temporary" /\ marker = "" /\ d_trapped
  BY <1>1 DEF GInv, DownstreamLineOK, BeforeReset
<1>3. target' = target /\ compiled' = compiled
  BY DEF D!MakeMarkers
<1>4. CASE marker' = "" /\ D!Exit(1, D!Mine)
  <2>1. 1 # 0
    OBVIOUS
  <2>2. DownstreamEnds(1)
    BY <1>2, <1>3, <1>4, <2>1, Zenon DEF DownstreamEnds
  <2> QED
    BY <2>2, DownstreamExits
<1>5. CASE /\ marker' = "temporary"
           /\ disk' = disk \cup {<<"marker", "temporary">>}
           /\ D!GoTo("build")
  <2> DEFINE new == <<"marker", "temporary">>
  <2>1. new \in Seq(Names) /\ Len(new) = 2 /\ new[1] = "marker"
    BY PairOf DEF Names
  <2>2. /\ d_line' = "build" /\ d_trapped' = d_trapped
        /\ d_signals' = d_signals /\ d_exit' = d_exit
        /\ disk' = disk \cup {new} /\ marker' = "temporary"
    BY <1>5 DEF D!GoTo
  <2> HIDE DEF new
  <2>3. DownstreamGoes({new})
    BY <1>2, <1>3, <2>1, <2>2 DEF DownstreamGoes
  <2>4. D!TypeOK'
    BY <1>2, <1>3, <2>2 DEF GInv, TypeOK, D!TypeOK
  <2>5. DownstreamLineOK'
    BY <1>2, <1>3, <2>2
       DEF DownstreamLineOK, BeforeReset, AfterBuild, DownstreamLines
  <2>6. MarkersOK'
    <3>1. ASSUME NEW crate
          PROVE  MarkerLines(crate)' = MarkerLines(crate)
      <4>1. disk' = disk \cup {new} /\ Len(new) = 2
        BY <2>1, <2>2
      <4> QED
        BY <4>1 DEF MarkerLines, In
    <3> QED
      BY <1>1, <1>3, <2>2, <3>1 DEF GInv, MarkersOK, AfterBuild
  <2> QED
    BY <2>3, <2>4, <2>5, <2>6, DownstreamGoing
<1> QED
  BY <1>4, <1>5 DEF D!MakeMarkers

(* The lines that a compilation writes, if the variables are the script's. *)
LEMMA MarkerFacts ==
  ASSUME GInv, NEW crate \in D!Crates, marker = "temporary"
  PROVE  /\ D!Has(D!MarkerFile(crate)) <=> MarkerLines(crate) # {}
         /\ \A states : D!OtherLines(crate, states) = {} <=>
              \A file \in MarkerLines(crate) : file[4] \in states
         /\ \A state \in {"on", "off", "absent"} :
              LET file == Append(D!MarkerFile(crate), state)
              IN  /\ file = <<"marker", "temporary", crate, state>>
                  /\ file \in Seq(Names) /\ Len(file) = 4
                  /\ In(file, "marker", "temporary") /\ file[1] = "marker"
                  /\ file[3] = crate /\ file[4] = state
<1>1. /\ "marker" \in Names /\ "temporary" \in Names /\ crate \in Names
      /\ \A state \in {"on", "off", "absent"} : state \in Names
  BY DEF Names, D!Crates
<1>2. D!MarkerFile(crate) = <<"marker", "temporary", crate>>
  BY DEF D!MarkerFile
<1>3. \A file \in disk : D!IsPrefix(D!MarkerFile(crate), file) <=>
        In(file, "marker", "temporary") /\ Len(file) > 2 /\ file[3] = crate
  <2>1. \A file \in disk : file \in Seq(Names)
    BY DEF GInv, DiskOK
  <2> QED
    BY <1>1, <1>2, <2>1, PrefixTriple
<1>4. D!Has(D!MarkerFile(crate)) <=> MarkerLines(crate) # {}
  BY <1>3 DEF D!Has, MarkerLines
<1>5. ASSUME NEW states
      PROVE  D!OtherLines(crate, states) = {} <=>
               \A file \in MarkerLines(crate) : file[4] \in states
  BY <1>3 DEF D!OtherLines, MarkerLines
<1>6. ASSUME NEW state \in {"on", "off", "absent"}
      PROVE  LET file == Append(D!MarkerFile(crate), state)
             IN  /\ file = <<"marker", "temporary", crate, state>>
                 /\ file \in Seq(Names) /\ Len(file) = 4
                 /\ In(file, "marker", "temporary") /\ file[1] = "marker"
                 /\ file[3] = crate /\ file[4] = state
  <2> DEFINE file == <<"marker", "temporary", crate, state>>
  <2>1. /\ file \in Seq(Names) /\ Len(file) = 4
        /\ file[1] = "marker" /\ file[2] = "temporary"
        /\ file[3] = crate /\ file[4] = state
        /\ Append(<<"marker", "temporary", crate>>, state) = file
    BY <1>1, QuadrupleOf
  <2>2. file = <<"marker", "temporary", crate, state>>
    OBVIOUS
  <2> HIDE DEF file
  <2>3. Append(D!MarkerFile(crate), state) = file
    BY <1>2, <2>1
  <2>4. In(file, "marker", "temporary")
    BY <2>1 DEF In
  <2> QED
    BY <2>1, <2>2, <2>3, <2>4
<1> QED
  BY <1>4, <1>5, <1>6

(* What any cargo makes again: the cargo home and the target directory.    *)
LEMMA CargoFacts ==
  ASSUME GInv, target = "temporary"
  PROVE  \A file \in D!CargoDirectories :
           /\ file \in Seq(Names) /\ Len(file) = 2 /\ file[1] # "marker"
           /\ file = <<"home", home>> \/ file[1] = "downstream"
<1>1. home \in Names /\ "home" \in Names /\ "downstream" \in Names
      /\ "temporary" \in Names
  <2>1. home \in {"", "caller", "temporary"}
    BY DEF GInv, CallOK
  <2> QED
    BY <2>1 DEF Names
<1> DEFINE f == <<"home", home>>
           g == <<"downstream", target>>
<1>2. f \in Seq(Names) /\ Len(f) = 2 /\ f[1] = "home"
  BY <1>1, PairOf
<1>3. g \in Seq(Names) /\ Len(g) = 2 /\ g[1] = "downstream"
  BY <1>1, PairOf
<1>4. f = <<"home", home>> /\ D!CargoDirectories = {f, g}
  BY DEF D!CargoDirectories
<1> HIDE DEF f, g
<1> QED
  BY <1>2, <1>3, <1>4

LEMMA BuildKeeps ==
  ASSUME GInv, Running, D!Build
  PROVE  GInv'
<1>1. d_line = "build" /\ d_exit = -1
  BY DEF D!Build, D!At
<1>2. target = "temporary" /\ marker = "temporary" /\ d_trapped
  BY <1>1 DEF GInv, DownstreamLineOK, BeforeReset
<1>3. target' = target /\ marker' = marker
  BY DEF D!Build, D!made
<1>4. CASE D!Exit(1, D!Mine) /\ compiled' = compiled
  <2>1. 1 # 0
    OBVIOUS
  <2>2. DownstreamEnds(1)
    BY <1>3, <1>4, <2>1, Zenon DEF DownstreamEnds
  <2> QED
    BY <2>2, DownstreamExits
<1> DEFINE lines == UNION { {Append(D!MarkerFile(crate), state) :
                               state \in compiled'[crate]} : crate \in D!Crates}
<1>5. CASE /\ compiled' \in [D!Crates -> Profiles]
           /\ disk' = disk \cup lines \cup D!CargoDirectories
           /\ D!GoTo("crypto_bigint written")
  <2>1. /\ d_line' = "crypto_bigint written" /\ d_trapped' = d_trapped
        /\ d_signals' = d_signals /\ d_exit' = d_exit
    BY <1>5 DEF D!GoTo
  <2>2. \A crate \in D!Crates :
          compiled'[crate] \subseteq {"on", "off", "absent"}
    BY <1>5, GateAssumption
  <2>3. \A file : file \in lines <=>
          \E crate \in D!Crates : \E state \in compiled'[crate] :
            file = Append(D!MarkerFile(crate), state)
    OBVIOUS
  <2> DEFINE files == lines \cup D!CargoDirectories
  <2>4. disk' = disk \cup files
    BY <1>5
  <2> HIDE DEF lines
  <2>5. \A file \in lines : file \in Seq(Names) /\ file[1] = "marker"
    BY <1>2, <2>2, <2>3, MarkerFacts
  <2>6. DownstreamGoes(files)
    <3>1. files \subseteq Seq(Names)
      BY <1>2, <2>5, CargoFacts
    <3>2. \A file \in files :
            \/ file = <<"home", home>>
            \/ file[1] = "downstream" /\ target' = "temporary"
            \/ file[1] = "marker" /\ marker' = "temporary"
      BY <1>2, <1>3, <2>5, CargoFacts
    <3> QED
      BY <1>3, <2>1, <2>4, <3>1, <3>2 DEF DownstreamGoes
  <2>7. D!TypeOK'
    BY <1>2, <1>3, <2>1 DEF GInv, TypeOK, D!TypeOK
  <2>8. DownstreamLineOK'
    BY <1>2, <1>3, <2>1
       DEF DownstreamLineOK, BeforeReset, AfterBuild, DownstreamLines
  <2>9. MarkersOK'
    <3>1. ASSUME d_signals = 0, NEW crate \in D!Crates
          PROVE  MarkerLines(crate)' =
                   {<<"marker", "temporary", crate, state>> :
                      state \in compiled'[crate]}
      <4>1. MarkerLines(crate) = {}
        BY <1>1, <3>1 DEF GInv, MarkersOK, AfterBuild
      <4>2. \A state \in compiled'[crate] :
              <<"marker", "temporary", crate, state>> \in MarkerLines(crate)'
        <5>1. SUFFICES ASSUME NEW state \in compiled'[crate]
                       PROVE  <<"marker", "temporary", crate, state>>
                                \in MarkerLines(crate)'
          OBVIOUS
        <5> DEFINE file == Append(D!MarkerFile(crate), state)
        <5>2. /\ file = <<"marker", "temporary", crate, state>>
              /\ Len(file) = 4 /\ In(file, "marker", "temporary")
              /\ file[3] = crate
          BY <1>2, <2>2, <5>1, MarkerFacts
        <5>3. file \in disk'
          BY <2>3, <2>4, <5>1
        <5> HIDE DEF file
        <5>4. file \in MarkerLines(crate)'
          BY <5>2, <5>3 DEF MarkerLines, In
        <5> QED
          BY <5>2, <5>4
      <4>3. ASSUME NEW file \in MarkerLines(crate)'
            PROVE  \E state \in compiled'[crate] :
                     file = <<"marker", "temporary", crate, state>>
        <5>1. /\ file \in disk' /\ In(file, "marker", "temporary")
              /\ Len(file) > 2 /\ file[3] = crate
          BY <4>3 DEF MarkerLines, In
        <5>2. file \notin disk
          BY <4>1, <5>1 DEF MarkerLines
        <5>3. file \notin D!CargoDirectories
          BY <1>2, <5>1, CargoFacts
        <5>4. PICK c \in D!Crates : \E state \in compiled'[c] :
                file = Append(D!MarkerFile(c), state)
          BY <2>3, <2>4, <5>1, <5>2, <5>3
        <5>5. PICK state \in compiled'[c] :
                file = Append(D!MarkerFile(c), state)
          BY <5>4
        <5>6. file = <<"marker", "temporary", c, state>> /\ file[3] = c
          BY <1>2, <2>2, <5>5, MarkerFacts
        <5> QED
          BY <5>1, <5>5, <5>6
      <4> QED
        BY <4>2, <4>3
    <3>2. d_exit' = -1
      BY <1>1, <2>1, Zenon
    <3>3. d_exit' # 0
      BY <3>2
    <3> QED
      BY <1>1, <2>1, <3>1, <3>3 DEF MarkersOK, AfterBuild
  <2> QED
    BY <2>6, <2>7, <2>8, <2>9, DownstreamGoing
<1> QED
  BY <1>4, <1>5 DEF D!Build

(* The script's commands after the build.                                  *)
LEMMA AfterBuildFacts ==
  ASSUME GInv, d_line \in AfterBuild
  PROVE  /\ target = "temporary" /\ marker = "temporary" /\ d_trapped
         /\ d_line \in DownstreamLines /\ d_line \notin BeforeReset
<1>1. d_line \notin BeforeReset
  BY DEF BeforeReset, AfterBuild
<1> QED
  BY <1>1 DEF GInv, DownstreamLineOK

(* Between two of them nothing changes but the line; what is known of the  *)
(* compilations is what the test passed adds.                              *)
LEMMA DownstreamPasses ==
  ASSUME GInv, Running, NEW next \in AfterBuild, NEW files,
         d_line \in AfterBuild, D!GoTo(next),
         disk' = disk \cup files,
         files = {} \/ files = D!CargoDirectories,
         target' = target, marker' = marker, compiled' = compiled,
         d_signals = 0 =>
           /\ next # "crypto_bigint written"
           /\ compiled["crypto_bigint"] # {}
           /\ next # "ed301_eddsa written" => compiled["ed301_eddsa"] # {}
           /\ next \in {"ed301_eddsa lines", "cargo", "end"} =>
                compiled["crypto_bigint"] \subseteq {"off", "absent"}
           /\ next \in {"cargo", "end"} =>
                compiled["ed301_eddsa"] \subseteq {"on"}
  PROVE  GInv'
<1>1. /\ d_line' = next /\ d_trapped' = d_trapped
      /\ d_signals' = d_signals /\ d_exit' = d_exit
  BY DEF D!GoTo
<1>2. target = "temporary" /\ marker = "temporary" /\ d_trapped
  BY AfterBuildFacts
<1>3. \A file \in files :
        /\ file \in Seq(Names) /\ Len(file) = 2 /\ file[1] # "marker"
        /\ file = <<"home", home>> \/ file[1] = "downstream"
  BY <1>2, CargoFacts
<1>4. DownstreamGoes(files)
  BY <1>1, <1>2, <1>3 DEF DownstreamGoes
<1>5. D!TypeOK'
  BY <1>1 DEF GInv, TypeOK, D!TypeOK
<1>6. DownstreamLineOK'
  BY <1>1, <1>2
     DEF DownstreamLineOK, BeforeReset, AfterBuild, DownstreamLines
<1>7. ASSUME NEW crate
      PROVE  MarkerLines(crate)' = MarkerLines(crate)
  BY <1>3 DEF MarkerLines, In
<1>8. d_exit = -1
  BY DEF Running
<1>9. d_exit # 0
  BY RunningFacts
<1>10. d_signals = 0 =>
         \A crate \in D!Crates :
           MarkerLines(crate) =
             {<<"marker", "temporary", crate, state>> :
                state \in compiled[crate]}
  BY <1>8 DEF GInv, MarkersOK
<1>11. MarkersOK'
  BY <1>1, <1>7, <1>9, <1>10 DEF MarkersOK
<1> QED
  BY <1>4, <1>5, <1>6, <1>11, DownstreamGoing

(* The known of a crate at a test of its marker file.                      *)
LEMMA LinesAreStates ==
  ASSUME GInv, Running, NEW crate \in D!Crates, d_line \in AfterBuild,
         d_signals = 0
  PROVE  /\ D!Has(D!MarkerFile(crate)) => compiled[crate] # {}
         /\ \A states : D!OtherLines(crate, states) = {}
                         => compiled[crate] \subseteq states
<1>1. marker = "temporary" /\ d_exit = -1
  BY AfterBuildFacts DEF Running
<1>2. MarkerLines(crate) =
        {<<"marker", "temporary", crate, state>> : state \in compiled[crate]}
  BY <1>1 DEF GInv, MarkersOK
<1>3. \A state : <<"marker", "temporary", crate, state>>[4] = state
  OBVIOUS
<1>4. ASSUME D!Has(D!MarkerFile(crate))
      PROVE  compiled[crate] # {}
  <2>1. MarkerLines(crate) # {}
    BY <1>1, <1>4, MarkerFacts
  <2> QED
    BY <1>2, <2>1
<1>5. ASSUME NEW states, D!OtherLines(crate, states) = {},
             NEW state \in compiled[crate]
      PROVE  state \in states
  <2>1. \A file \in MarkerLines(crate) : file[4] \in states
    BY <1>1, <1>5, MarkerFacts
  <2>2. <<"marker", "temporary", crate, state>> \in MarkerLines(crate)
    BY <1>2
  <2> QED
    BY <1>3, <2>1, <2>2
<1> QED
  BY <1>4, <1>5

LEMMA CryptoWrittenKeeps ==
  ASSUME GInv, Running, D!CryptoWritten
  PROVE  GInv'
<1>1. /\ d_line = "crypto_bigint written" /\ d_line \in AfterBuild
      /\ "ed301_eddsa written" \in AfterBuild
  BY DEF D!CryptoWritten, D!At, AfterBuild
<1>2. target' = target /\ marker' = marker /\ compiled' = compiled
  BY DEF D!CryptoWritten, D!CheckWritten, D!made
<1>3. CASE D!Exit(1, D!Mine)
  <2>1. 1 # 0
    OBVIOUS
  <2>2. DownstreamEnds(1)
    BY <1>2, <1>3, <2>1, Zenon DEF DownstreamEnds
  <2> QED
    BY <2>2, DownstreamExits
<1>4. CASE ~D!Exit(1, D!Mine)
  <2>1. /\ D!Has(D!MarkerFile("crypto_bigint"))
        /\ D!GoTo("ed301_eddsa written") /\ disk' = disk \cup {}
    BY <1>4 DEF D!CryptoWritten, D!CheckWritten
  <2>2. d_signals = 0 => compiled["crypto_bigint"] # {}
    BY <1>1, <2>1, LinesAreStates DEF D!Crates
  <2> QED
    BY <1>1, <1>2, <2>1, <2>2, DownstreamPasses
<1> QED
  BY <1>3, <1>4

LEMMA Ed301WrittenKeeps ==
  ASSUME GInv, Running, D!Ed301Written
  PROVE  GInv'
<1>1. /\ d_line = "ed301_eddsa written" /\ d_line \in AfterBuild
      /\ "crypto_bigint lines" \in AfterBuild
  BY DEF D!Ed301Written, D!At, AfterBuild
<1>2. target' = target /\ marker' = marker /\ compiled' = compiled
  BY DEF D!Ed301Written, D!CheckWritten, D!made
<1>3. CASE D!Exit(1, D!Mine)
  <2>1. 1 # 0
    OBVIOUS
  <2>2. DownstreamEnds(1)
    BY <1>2, <1>3, <2>1, Zenon DEF DownstreamEnds
  <2> QED
    BY <2>2, DownstreamExits
<1>4. CASE ~D!Exit(1, D!Mine)
  <2>1. /\ D!Has(D!MarkerFile("ed301_eddsa"))
        /\ D!GoTo("crypto_bigint lines") /\ disk' = disk \cup {}
    BY <1>4 DEF D!Ed301Written, D!CheckWritten
  <2>2. d_signals = 0 => compiled["ed301_eddsa"] # {}
    BY <1>1, <2>1, LinesAreStates DEF D!Crates
  <2>3. d_signals = 0 => compiled["crypto_bigint"] # {}
    BY <1>1 DEF GInv, MarkersOK
  <2> QED
    BY <1>1, <1>2, <2>1, <2>2, <2>3, DownstreamPasses
<1> QED
  BY <1>3, <1>4

LEMMA CryptoLinesKeeps ==
  ASSUME GInv, Running, D!CryptoLines
  PROVE  GInv'
<1>1. /\ d_line = "crypto_bigint lines" /\ d_line \in AfterBuild
      /\ "ed301_eddsa lines" \in AfterBuild
  BY DEF D!CryptoLines, D!At, AfterBuild
<1>2. target' = target /\ marker' = marker /\ compiled' = compiled
  BY DEF D!CryptoLines, D!CheckLines, D!made
<1>3. CASE D!Exit(1, D!Mine)
  <2>1. 1 # 0
    OBVIOUS
  <2>2. DownstreamEnds(1)
    BY <1>2, <1>3, <2>1, Zenon DEF DownstreamEnds
  <2> QED
    BY <2>2, DownstreamExits
<1>4. CASE ~D!Exit(1, D!Mine)
  <2>1. /\ D!OtherLines("crypto_bigint", {"off", "absent"}) = {}
        /\ D!GoTo("ed301_eddsa lines") /\ disk' = disk \cup {}
    BY <1>4 DEF D!CryptoLines, D!CheckLines
  <2>2. d_signals = 0 =>
          compiled["crypto_bigint"] \subseteq {"off", "absent"}
    BY <1>1, <2>1, LinesAreStates DEF D!Crates
  <2>3. d_signals = 0 => /\ compiled["crypto_bigint"] # {}
                         /\ compiled["ed301_eddsa"] # {}
    BY <1>1 DEF GInv, MarkersOK
  <2> QED
    BY <1>1, <1>2, <2>1, <2>2, <2>3, DownstreamPasses
<1> QED
  BY <1>3, <1>4

LEMMA Ed301LinesKeeps ==
  ASSUME GInv, Running, D!Ed301Lines
  PROVE  GInv'
<1>1. /\ d_line = "ed301_eddsa lines" /\ d_line \in AfterBuild
      /\ "cargo" \in AfterBuild
  BY DEF D!Ed301Lines, D!At, AfterBuild
<1>2. target' = target /\ marker' = marker /\ compiled' = compiled
  BY DEF D!Ed301Lines, D!CheckLines, D!made
<1>3. CASE D!Exit(1, D!Mine)
  <2>1. 1 # 0
    OBVIOUS
  <2>2. DownstreamEnds(1)
    BY <1>2, <1>3, <2>1, Zenon DEF DownstreamEnds
  <2> QED
    BY <2>2, DownstreamExits
<1>4. CASE ~D!Exit(1, D!Mine)
  <2>1. /\ D!OtherLines("ed301_eddsa", {"on"}) = {}
        /\ D!GoTo("cargo") /\ disk' = disk \cup {}
    BY <1>4 DEF D!Ed301Lines, D!CheckLines
  <2>2. d_signals = 0 => compiled["ed301_eddsa"] \subseteq {"on"}
    BY <1>1, <2>1, LinesAreStates DEF D!Crates
  <2>3. d_signals = 0 =>
          /\ compiled["crypto_bigint"] # {} /\ compiled["ed301_eddsa"] # {}
          /\ compiled["crypto_bigint"] \subseteq {"off", "absent"}
    BY <1>1 DEF GInv, MarkersOK
  <2> QED
    BY <1>1, <1>2, <2>1, <2>2, <2>3, DownstreamPasses
<1> QED
  BY <1>3, <1>4

LEMMA CargoKeeps ==
  ASSUME GInv, Running, D!Cargo
  PROVE  GInv'
<1>1. /\ d_line = "cargo" /\ d_line \in AfterBuild /\ "end" \in AfterBuild
  BY DEF D!Cargo, D!At, AfterBuild
<1>2. target' = target /\ marker' = marker /\ compiled' = compiled
  BY DEF D!Cargo, D!made
<1>3. CASE D!Exit(1, D!Mine)
  <2>1. 1 # 0
    OBVIOUS
  <2>2. DownstreamEnds(1)
    BY <1>2, <1>3, <2>1, Zenon DEF DownstreamEnds
  <2> QED
    BY <2>2, DownstreamExits
<1>4. CASE disk' = disk \cup D!CargoDirectories /\ D!GoTo("end")
  <2>1. d_signals = 0 =>
          /\ compiled["crypto_bigint"] # {} /\ compiled["ed301_eddsa"] # {}
          /\ compiled["crypto_bigint"] \subseteq {"off", "absent"}
          /\ compiled["ed301_eddsa"] \subseteq {"on"}
    BY <1>1 DEF GInv, MarkersOK
  <2> QED
    BY <1>1, <1>2, <1>4, <2>1, DownstreamPasses
<1> QED
  BY <1>3, <1>4 DEF D!Cargo

LEMMA DownstreamFinishKeeps ==
  ASSUME GInv, Running, D!Finish
  PROVE  GInv'
<1>1. d_line = "end" /\ D!Exit(0, D!Mine)
  BY DEF D!Finish, D!At
<1>2. target' = target /\ marker' = marker /\ compiled' = compiled
  BY DEF D!Finish, D!made
<1>3. DownstreamEnds(0)
  BY <1>1, <1>2 DEF DownstreamEnds
<1> QED
  BY <1>3, DownstreamExits

LEMMA DownstreamStepKeeps ==
  ASSUME GInv, DownstreamStep
  PROVE  GInv'
<1>1. /\ d_line # "none" /\ d_exit = -1 /\ home' = home /\ caller' = caller
      /\ D!Next
  BY DEF DownstreamStep, D!Next, D!CheckHome, D!ResetVariables,
         D!MakeTarget, D!MakeMarkers, D!Build, D!CryptoWritten,
         D!Ed301Written, D!CryptoLines, D!Ed301Lines, D!Cargo, D!Finish,
         D!Interrupt, D!Signal, D!CheckWritten, D!CheckLines, D!At
<1>2. d_line' # "none"
  BY <1>1
     DEF D!Next, D!CheckHome, D!ResetVariables,
         D!MakeTarget, D!MakeMarkers, D!Build, D!CryptoWritten,
         D!Ed301Written, D!CryptoLines, D!Ed301Lines, D!Cargo, D!Finish,
         D!Interrupt, D!Signal, D!CheckWritten, D!CheckLines, D!GoTo, D!Exit,
         D!SetTrap
<1>3. Running
  BY <1>1, <1>2 DEF Running
<1>4. CASE D!CheckHome
  BY <1>3, <1>4, CheckHomeKeeps
<1>5. CASE D!ResetVariables
  BY <1>3, <1>5, ResetVariablesKeeps
<1>6. CASE D!MakeTarget
  BY <1>3, <1>6, MakeTargetKeeps
<1>7. CASE D!MakeMarkers
  BY <1>3, <1>7, MakeMarkersKeeps
<1>8. CASE D!Build
  BY <1>3, <1>8, BuildKeeps
<1>9. CASE D!CryptoWritten
  BY <1>3, <1>9, CryptoWrittenKeeps
<1>10. CASE D!Ed301Written
  BY <1>3, <1>10, Ed301WrittenKeeps
<1>11. CASE D!CryptoLines
  BY <1>3, <1>11, CryptoLinesKeeps
<1>12. CASE D!Ed301Lines
  BY <1>3, <1>12, Ed301LinesKeeps
<1>13. CASE D!Cargo
  BY <1>3, <1>13, CargoKeeps
<1>14. CASE D!Finish
  BY <1>3, <1>14, DownstreamFinishKeeps
<1>15. CASE D!Interrupt
  BY <1>3, <1>15, DownstreamSignalled
<1> QED
  BY <1>1, <1>4, <1>5, <1>6, <1>7, <1>8, <1>9, <1>10, <1>11, <1>12, <1>13,
     <1>14, <1>15 DEF D!Next

-----------------------------------------------------------------------------
(* The theorems.                                                           *)

LEMMA NotYetEnded == \A status : status = -1 => status # 0
  OBVIOUS

LEMMA Initially == Init => GInv
<1> SUFFICES ASSUME Init PROVE GInv
  OBVIOUS
<1>1. /\ script \in DOMAIN C!Steps /\ use \in [C!Kinds -> {"0", "1", "other"}]
      /\ path \in [C!Kinds -> {"", "caller"}]
      /\ cleanup = [kind \in C!Kinds |-> 0]
      /\ step = 1 /\ passed = {}
      /\ trapped = FALSE /\ signals = 0 /\ exit = -1
  BY DEF Init, C!ScriptInit, C!ShellInit
<1>2. /\ compiled = [crate \in D!Crates |-> {}]
      /\ target \in {"", "caller"} /\ marker \in {"", "caller"}
      /\ d_trapped = FALSE /\ d_signals = 0 /\ d_exit = -1
  BY DEF Init, D!DownstreamInit, D!ShellInit
<1>3. \/ line = "tools" /\ d_line = "none" /\ home = ""
      \/ /\ line = "none" /\ d_line = "home" /\ home \in {"", "caller"}
         /\ script = "check"
  BY DEF Init
<1>4. ASSUME NEW file \in disk
      PROVE  /\ file \in Seq(Names) /\ file[2] = "caller"
             /\ file[1] = "target" /\ Len(file) > 2
                  => file = <<"target", "caller", "stale">>
             /\ file[1] = "marker" => Len(file) = 2
  <2>1. \A root \in Names :
          LET pair == <<root, "caller">>
          IN  pair \in Seq(Names) /\ Len(pair) = 2 /\ pair[2] = "caller"
    BY PairOf DEF Names
  <2>2. LET stale == <<"target", "caller", "stale">>
        IN  /\ stale \in Seq(Names) /\ Len(stale) = 3 /\ stale[2] = "caller"
            /\ stale[1] = "target"
    BY TripleOf DEF Names
  <2>3. \/ \E root \in Names : file = <<root, "caller">>
        \/ file = <<"target", "caller", "stale">>
    BY <1>4 DEF Init, CallersFiles, Names
  <2>4. CASE \E root \in Names : file = <<root, "caller">>
    <3>1. /\ file \in Seq(Names) /\ Len(file) = 2 /\ file[2] = "caller"
          /\ ~(Len(file) > 2)
      BY <2>1, <2>4
    <3> QED
      BY <3>1
  <2>5. CASE file = <<"target", "caller", "stale">>
    <3>1. file \in Seq(Names) /\ file[2] = "caller" /\ file[1] = "target"
      BY <2>2, <2>5
    <3>2. file[1] # "marker"
      BY <3>1
    <3> QED
      BY <2>5, <3>1, <3>2, Zenon
  <2> QED
    BY <2>3, <2>4, <2>5
<1>5. \A root : ~Temporary(root)
  BY <1>4 DEF Temporary, In
<1>6. TypeOK
  <2>1. C!TypeOK
    <3>1. step \in 1 .. Len(C!Steps[script]) + 1
      <4>1. script \in DOMAIN C!Steps /\ step = 1
        BY <1>1
      <4>2. Len(C!Steps[script]) \in Nat
        BY <4>1, StepsConstant
      <4> QED
        BY <4>1, <4>2
    <3>2. signals \in 0 .. MaxSignals
      <4>1. signals = 0
        BY <1>1
      <4> QED
        BY <4>1, GateAssumption
    <3>3. path \in [C!Kinds -> {"", "caller", "temporary"}]
      BY <1>1
    <3>4. exit \in {-1, 0, 1, 2, 127, 143}
      BY <1>1
    <3>5. /\ cleanup \in [C!Kinds -> {0, 1}]
          /\ \A kind \in C!Kinds : cleanup[kind] # 1
      <4>1. cleanup = [kind \in C!Kinds |-> 0]
        BY <1>1
      <4> QED
        BY <4>1
    <3> QED
      BY <1>1, <3>1, <3>2, <3>3, <3>4, <3>5 DEF C!TypeOK
  <2>2. D!TypeOK
    <3>1. d_signals = 0
      BY <1>2
    <3>2. d_signals \in 0 .. MaxSignals
      BY <3>1, GateAssumption
    <3>3. d_exit \in {-1, 0, 1, 2, 143}
      BY <1>2
    <3>4. {target, marker} \subseteq {"", "caller", "temporary"}
      BY <1>2
    <3> QED
      BY <1>2, <3>2, <3>3, <3>4 DEF D!TypeOK
  <2> QED
    BY <2>1, <2>2 DEF TypeOK
<1>7. DiskOK
  <2>1. CallersFiles \subseteq disk
    BY DEF Init
  <2> QED
    BY <1>4, <2>1 DEF DiskOK
<1>8. CallerLineOK
  <2>1. path["home"] # "temporary" /\ path["target"] # "temporary"
    BY <1>1 DEF C!Kinds
  <2>2. line \in {"none", "tools"} /\ exit # 0
    BY <1>1, <1>3, NotYetEnded, Zenon
  <2> QED
    BY <1>1, <2>1, <2>2 DEF CallerLineOK, CallerLines, BeforeTrap
<1>9. CallerOwnOK
  BY <1>5 DEF CallerOwnOK
<1>10. StepsOK
  <2>1. step = 1
    BY <1>1
  <2>2. 1 .. step - 1 = {} /\ ~(step > 1)
    BY <2>1
  <2>3. exit # 0
    BY <1>1, NotYetEnded, Zenon
  <2> QED
    BY <1>1, <2>2, <2>3 DEF StepsOK
<1>11. CallOK
  <2>1. step <= 8 /\ step # 9
    <3>1. step = 1
      BY <1>1
    <3> QED
      BY <3>1
  <2> QED
    BY <1>1, <1>2, <1>3, <2>1 DEF CallOK
<1>12. DownstreamLineOK
  <2>1. d_line \in {"none", "home"}
    BY <1>3
  <2> QED
    BY <1>2, <2>1 DEF DownstreamLineOK, DownstreamLines, BeforeReset, AfterBuild
<1>13. DownstreamOwnOK
  BY <1>5 DEF DownstreamOwnOK
<1>14. MarkersOK
  <2>1. d_line \notin AfterBuild
    BY <1>3 DEF AfterBuild
  <2>2. \A crate : MarkerLines(crate) = {}
    BY <1>4 DEF MarkerLines, In
  <2>3. d_exit # 0
    BY <1>2, NotYetEnded, Zenon
  <2>4. d_line \notin {"ed301_eddsa lines", "cargo", "end"}
        /\ d_line \notin {"cargo", "end"}
    BY <2>1 DEF AfterBuild
  <2> QED
    BY <2>1, <2>2, <2>3, <2>4 DEF MarkersOK
<1> QED
  BY <1>6, <1>7, <1>8, <1>9, <1>10, <1>11, <1>12, <1>13, <1>14 DEF GInv

LEMMA Stuttering ==
  ASSUME GInv, UNCHANGED vars
  PROVE  GInv'
<1>1. disk' = disk /\ caller' = caller /\ downstream' = downstream
  BY DEF vars
<1>2. /\ line' = line /\ trapped' = trapped /\ signals' = signals
      /\ exit' = exit /\ script' = script /\ use' = use /\ path' = path
      /\ cleanup' = cleanup /\ step' = step /\ passed' = passed
  BY <1>1 DEF caller
<1>3. /\ d_line' = d_line /\ d_trapped' = d_trapped
      /\ d_signals' = d_signals /\ d_exit' = d_exit /\ home' = home
      /\ compiled' = compiled /\ target' = target /\ marker' = marker
  BY <1>1 DEF downstream
<1>4. TypeOK'
  BY <1>2, <1>3, StepsConstant DEF GInv, TypeOK, C!TypeOK, D!TypeOK
<1>5. DiskOK' /\ CallerLineOK' /\ CallerOwnOK'
  BY <1>1, <1>2 DEF GInv, DiskOK, CallerLineOK, CallerOwnOK, Temporary
<1>6. StepsOK'
  BY <1>1, <1>2, StepsConstant DEF GInv, StepsOK
<1>7. CallOK'
  BY <1>2, <1>3 DEF GInv, CallOK
<1>8. DownstreamLineOK' /\ DownstreamOwnOK'
  BY <1>1, <1>3 DEF GInv, DownstreamLineOK, DownstreamOwnOK, Temporary
<1>9. MarkersOK'
  BY <1>1, <1>3 DEF GInv, MarkersOK, MarkerLines
<1> QED
  BY <1>4, <1>5, <1>6, <1>7, <1>8, <1>9 DEF GInv

(* The inductive invariant holds throughout.                               *)
THEOREM GateInvariant == Spec => []GInv
<1>1. Init => GInv
  BY Initially
<1>2. GInv /\ [Next]_vars => GInv'
  BY CallerStepKeeps, CallKeeps, DownstreamStepKeeps, ReturnKeeps,
     LateSignalKeeps, Stuttering DEF Next
<1> QED
  BY <1>1, <1>2, PTL DEF Spec

(* Every variable of both scripts has its type.                            *)
THEOREM TypesAreKept == Spec => []TypeOK
<1>1. GInv => TypeOK
  BY DEF GInv
<1> QED
  BY <1>1, GateInvariant, PTL

(* Whatever fails and whenever a signal comes, what the caller has on the  *)
(* disk stays, though both scripts remove the directories their variables  *)
(* name and those may come from the caller.                                *)
THEOREM CallersDirectoriesStay == Spec => []CallerDirectoriesKept
<1>1. GInv => CallerDirectoriesKept
  <2> SUFFICES ASSUME GInv PROVE CallerDirectoriesKept
    OBVIOUS
  <2>1. ASSUME NEW root \in {"home", "target", "downstream", "marker"}
        PROVE  \E file \in disk : In(file, root, "caller")
    <3>1. <<root, "caller">> \in disk
      BY DEF GInv, DiskOK, CallersFiles
    <3>2. /\ Len(<<root, "caller">>) = 2 /\ <<root, "caller">>[1] = root
          /\ <<root, "caller">>[2] = "caller"
      BY PairOf
    <3>3. In(<<root, "caller">>, root, "caller")
      BY <3>2 DEF In
    <3> QED
      BY <3>1, <3>3
  <2>2. \A root \in {"home", "target", "downstream", "marker"} :
          C!Has(<<root, "caller">>) /\ D!Has(<<root, "caller">>)
    BY <2>1, HasPair DEF GInv, Names
  <2> QED
    BY <2>2, AfterAndFlag
       DEF CallerDirectoriesKept, C!CallerDirectoriesKept,
           D!CallerDirectoriesKept
<1> QED
  BY <1>1, GateInvariant, PTL

(* A script that has ended, with whatever status, has left no directory of *)
(* its own, wherever the signals fell.                                     *)
THEOREM ScriptsCleanUp == Spec => []NothingLeftBehind
<1>1. GInv => NothingLeftBehind
  <2> SUFFICES ASSUME GInv PROVE NothingLeftBehind
    OBVIOUS
  <2>1. \A root \in {"home", "target", "downstream", "marker"} :
          /\ C!Has(<<root, "temporary">>) <=> Temporary(root)
          /\ D!Has(<<root, "temporary">>) <=> Temporary(root)
    BY HasPair DEF GInv, Names, Temporary
  <2>2. exit # -1 => \A kind \in C!Kinds : ~Temporary(kind)
    BY DEF GInv, CallerOwnOK
  <2>3. d_exit # -1 => ~Temporary("downstream") /\ ~Temporary("marker")
    BY DEF GInv, DownstreamOwnOK
  <2> QED
    BY <2>1, <2>2, <2>3, AfterAndFlag
       DEF NothingLeftBehind, C!NothingLeftBehind, D!NothingLeftBehind
<1> QED
  BY <1>1, GateInvariant, PTL

(* A gate that exits with 0 has run each of its commands with success, and *)
(* the taint harness that ran was the one just built.                      *)
THEOREM PassIsEveryStep == Spec => []PassMeansEveryStepSucceeded
<1>1. GInv => PassMeansEveryStepSucceeded
  <2> SUFFICES ASSUME GInv, exit = 0
               PROVE  /\ {pair[1] : pair \in passed} = C!Range(C!Steps[script])
                      /\ script = "check_secret_taint" =>
                           \A pair \in passed :
                             pair[1] # "build" => pair[2] = {"fresh"}
    BY DEF PassMeansEveryStepSucceeded, C!PassMeansEveryStepSucceeded
  <2> DEFINE n == Len(C!Steps[script])
  <2>1. step \in 1 .. n + 1 /\ n \in Nat /\ step > n
    BY StepsConstant DEF GInv, StepsOK, TypeOK, C!TypeOK
  <2>2. 1 .. step - 1 = 1 .. n
    BY <2>1
  <2>3. DOMAIN C!Steps[script] = 1 .. n
    <3>1. CASE script = "check"
      BY <3>1 DEF C!Steps
    <3>2. CASE script = "check_secret_taint"
      BY <3>2 DEF C!Steps
    <3> QED
      BY <3>1, <3>2, StepRange DEF GInv
  <2> HIDE DEF n
  <2>4. C!Range(C!Steps[script]) = {C!Steps[script][m] : m \in 1 .. n}
    BY <2>3 DEF C!Range
  <2> QED
    BY <2>2, <2>4 DEF GInv, StepsOK
<1> QED
  BY <1>1, GateInvariant, PTL

(* A gate that exits with 0 has built the downstream workspace with the    *)
(* overflow checks the profiles ask for, if the downstream script had no   *)
(* signal, whatever signals check.sh had.                                  *)
THEOREM PassIsProfile == Spec => []UninterruptedPassMeansProfile
<1>1. GInv => UninterruptedPassMeansProfile
  <2> SUFFICES ASSUME GInv, d_exit = 0 \/ (exit = 0 /\ script = "check"),
                      d_signals = 0
               PROVE  D!ProfileHeld
    BY DEF UninterruptedPassMeansProfile
  <2>1. d_exit = 0
    <3>1. CASE exit = 0 /\ script = "check"
      <4>1. step > 8 /\ step \in 1 .. 9
        BY <3>1, StepRange, StepsFacts DEF GInv, StepsOK
      <4>2. step = 9
        BY <4>1
      <4> QED
        BY <3>1, <4>2 DEF GInv, CallOK
    <3> QED
      BY <3>1
  <2>2. d_line = "end" /\ d_line \in AfterBuild
    BY <2>1 DEF GInv, MarkersOK, AfterBuild
  <2>3. /\ compiled["crypto_bigint"] # {} /\ compiled["ed301_eddsa"] # {}
        /\ compiled["crypto_bigint"] \subseteq {"off", "absent"}
        /\ compiled["ed301_eddsa"] \subseteq {"on"}
    BY <2>2 DEF GInv, MarkersOK
  <2> QED
    BY <2>3 DEF D!ProfileHeld
<1> QED
  BY <1>1, GateInvariant, PTL

-----------------------------------------------------------------------------
(* What a wrapper has read.                                                *)

CrateNames == Recorded \cup {"other"}
CheckValues == {"overflow-checks=on", "overflow-checks=off"}
States == {"on", "off", "absent"}

Arguments == Options \cup {Command}
IsName(option) == option.flag = "--crate-name"
IsCheck(option) == option.flag = "-C" /\ option.value \in CheckValues
Setting(value) == IF value = "overflow-checks=on" THEN "on" ELSE "off"

(* The command line, with one crate name at most.                          *)
OptionsOK(w) ==
  /\ options[w] \in Seq(Arguments)
  /\ \A i, j \in DOMAIN options[w] :
       IsName(options[w][i]) /\ IsName(options[w][j]) => i = j

(* The crate name and the overflow checks that the first n options give.   *)
NameRead(given, n, name) ==
  /\ \A i \in 1 .. n : IsName(given[i]) => name = given[i].value
  /\ (\A i \in 1 .. n : ~ IsName(given[i])) => name = ""

ChecksRead(given, n, state) ==
  \/ (\A i \in 1 .. n : ~ IsCheck(given[i])) /\ state = "absent"
  \/ \E i \in 1 .. n :
       /\ IsCheck(given[i])
       /\ \A j \in 1 .. n : j > i => ~ IsCheck(given[j])
       /\ state = Setting(given[i].value)

(* Between two options nothing is pending; in the middle of one, its flag. *)
PlaceOK(w) ==
  /\ place[w] \in (1 .. Len(options[w]) + 1) \X {1, 2}
  /\ place[w][2] = 1 => previous[w] = ""
  /\ place[w][2] = 2 =>
       /\ place[w][1] <= Len(options[w])
       /\ ~ options[w][place[w][1]].joined
       /\ previous[w] = IF IsName(options[w][place[w][1]]) THEN "crate-name" ELSE "codegen"

ReaderOK(w) ==
  /\ PlaceOK(w)
  /\ NameRead(options[w], place[w][1] - 1, crate_name[w])
  /\ ChecksRead(options[w], place[w][1] - 1, overflow_state[w])
  /\ stage[w] \in {"start", "loop", "record", "exec", "error"}
  /\ stage[w] \in {"loop", "record", "exec"} => directory # "unset"
  /\ stage[w] \in {"record", "exec"} => place[w][1] = Len(options[w]) + 1

(* The variables of the wrappers, each wrapper's own.                      *)
Functions ==
  /\ place \in [Wrappers -> Nat \X {1, 2}]
  /\ stage \in [Wrappers -> {"start", "loop", "record", "exec", "error"}]
  /\ crate_name \in [Wrappers -> CrateNames \cup {""}]
  /\ overflow_state \in [Wrappers -> States]
  /\ previous \in [Wrappers -> {"", "crate-name", "codegen"}]

LEMMA KindsOfOptions ==
  ASSUME NEW p \in Arguments
  PROVE  /\ p.joined \in BOOLEAN /\ p.value # ""
         /\ p.flag \in {"--crate-name", "-C", ""}
         /\ ~ p.joined => p.flag \in {"--crate-name", "-C"}
         /\ IsName(p) => p.value \in CrateNames
         /\ p.flag = "-C" => p.value \in CheckValues \cup {"opt-level=3"}
<1>1. CASE p \in [flag : {"--crate-name"}, value : Recorded \cup {"other"}, joined : BOOLEAN]
  BY <1>1 DEF IsName, CrateNames, Recorded
<1>2. CASE p \in [flag : {"-C"},
                  value : {"overflow-checks=on", "overflow-checks=off", "opt-level=3"},
                  joined : BOOLEAN]
  <2>1. /\ p.flag = "-C" /\ p.joined \in BOOLEAN
        /\ p.value \in {"overflow-checks=on", "overflow-checks=off", "opt-level=3"}
    BY <1>2
  <2> QED  BY <2>1 DEF IsName, CheckValues
<1>3. CASE p \in [flag : {""}, value : {"src/lib.rs"}, joined : {TRUE}]
  BY <1>3 DEF IsName
<1>4. CASE p = Command
  BY <1>4 DEF IsName, Command
<1> QED  BY <1>1, <1>2, <1>3, <1>4 DEF Arguments, Options

LEMMA NameReadNext ==
  ASSUME NEW given, NEW n \in Nat, NEW name, NameRead(given, n, name),
         \A i, j \in 1 .. n + 1 : IsName(given[i]) /\ IsName(given[j]) => i = j
  PROVE  NameRead(given, n + 1,
                  IF IsName(given[n + 1]) THEN given[n + 1].value ELSE name)
<1>1. CASE IsName(given[n + 1])
  <2>1. n + 1 \in 1 .. n + 1
    OBVIOUS
  <2>2. \A i \in 1 .. n + 1 : IsName(given[i]) => i = n + 1
    BY <1>1, <2>1
  <2> QED  BY <1>1, <2>1, <2>2 DEF NameRead
<1>2. CASE ~ IsName(given[n + 1])
  <2>1. \A i \in 1 .. n + 1 : IsName(given[i]) => i \in 1 .. n
    BY <1>2
  <2>2. 1 .. n \subseteq 1 .. n + 1
    OBVIOUS
  <2> QED  BY <1>2, <2>1, <2>2 DEF NameRead
<1> QED  BY <1>1, <1>2

LEMMA ChecksReadNext ==
  ASSUME NEW given, NEW n \in Nat, NEW state, ChecksRead(given, n, state)
  PROVE  ChecksRead(given, n + 1,
                    IF IsCheck(given[n + 1]) THEN Setting(given[n + 1].value)
                                             ELSE state)
<1>1. 1 .. n \subseteq 1 .. n + 1 /\ n + 1 \in 1 .. n + 1
  OBVIOUS
<1>2. CASE IsCheck(given[n + 1])
  <2>1. \A j \in 1 .. n + 1 : ~ j > n + 1
    OBVIOUS
  <2> QED  BY <1>1, <1>2, <2>1 DEF ChecksRead
<1>3. CASE ~ IsCheck(given[n + 1])
  <2>1. \A i \in 1 .. n + 1 : i \in 1 .. n \/ i = n + 1
    OBVIOUS
  <2>2. CASE \A i \in 1 .. n : ~ IsCheck(given[i])
    <3>1. state = "absent"
      BY <2>2 DEF ChecksRead
    <3> QED  BY <1>3, <2>1, <2>2, <3>1 DEF ChecksRead
  <2>3. CASE \E i \in 1 .. n : IsCheck(given[i])
    <3>1. PICK i \in 1 .. n : /\ IsCheck(given[i])
                             /\ \A j \in 1 .. n : j > i => ~ IsCheck(given[j])
                             /\ state = Setting(given[i].value)
      BY <2>3 DEF ChecksRead
    <3>2. \A j \in 1 .. n + 1 : j > i => ~ IsCheck(given[j])
      BY <1>3, <2>1, <3>1
    <3> QED  BY <1>1, <1>3, <3>1, <3>2 DEF ChecksRead
  <2> QED  BY <2>2, <2>3
<1> QED  BY <1>2, <1>3

(* What the loop reads off all options is what rustc takes from them.      *)
LEMMA NameIsCompiled ==
  ASSUME NEW w \in Wrappers, OptionsOK(w),
         NameRead(options[w], Len(options[w]), crate_name[w])
  PROVE  crate_name[w] = CompiledCrate(w)
<1> DEFINE o == options[w]
           names == Given(w, "--crate-name", Recorded \cup {"other"})
<1>1. o \in Seq(Arguments) /\ DOMAIN o = 1 .. Len(o) /\ Len(o) \in Nat
  BY DEF OptionsOK
<1>2. \A i \in 1 .. Len(o) : o[i] \in Arguments
  BY <1>1
<1>3. names = {i \in 1 .. Len(o) : IsName(o[i])}
  BY <1>1, <1>2, KindsOfOptions DEF Given, IsName, CrateNames
<1> HIDE DEF names
<1>4. CASE names = {}
  BY <1>3, <1>4 DEF NameRead, CompiledCrate, names
<1>5. CASE names # {}
  <2>1. PICK i \in names : TRUE
    BY <1>5
  <2>2. names = {i}
    BY <1>1, <1>3, <2>1 DEF OptionsOK
  <2>3. Min(names) = i
    BY <1>3, <2>1, <2>2 DEF Min
  <2>4. crate_name[w] = o[i].value
    BY <1>3, <2>1 DEF NameRead
  <2> QED  BY <1>5, <2>3, <2>4 DEF CompiledCrate, names
<1> QED  BY <1>4, <1>5

LEMMA ChecksAreCompiled ==
  ASSUME NEW w \in Wrappers, OptionsOK(w),
         ChecksRead(options[w], Len(options[w]), overflow_state[w])
  PROVE  overflow_state[w] = CompiledOverflow(w)
<1> DEFINE o == options[w]
           checks == Given(w, "-C", {"overflow-checks=on", "overflow-checks=off"})
<1>1. o \in Seq(Arguments) /\ DOMAIN o = 1 .. Len(o) /\ Len(o) \in Nat
  BY DEF OptionsOK
<1>2. checks = {i \in 1 .. Len(o) : IsCheck(o[i])}
  BY <1>1 DEF Given, IsCheck, CheckValues
<1> HIDE DEF checks
<1>3. CASE checks = {}
  BY <1>2, <1>3 DEF ChecksRead, CompiledOverflow, checks
<1>4. CASE checks # {}
  <2>1. PICK i \in 1 .. Len(o) : /\ IsCheck(o[i])
                                 /\ \A j \in 1 .. Len(o) : j > i => ~ IsCheck(o[j])
                                 /\ overflow_state[w] = Setting(o[i].value)
    BY <1>2, <1>4 DEF ChecksRead
  <2>2. i \in checks /\ \A j \in checks : i >= j
    BY <1>1, <1>2, <2>1
  <2>3. Max(checks) = i
    <3>1. \A x \in checks : (\A y \in checks : x >= y) => x = i
      BY <1>1, <1>2, <2>2
    <3> QED  BY <2>2, <3>1 DEF Max
  <2> QED  BY <1>4, <2>1, <2>3 DEF CompiledOverflow, Setting, checks
<1> QED  BY <1>3, <1>4

-----------------------------------------------------------------------------
(* A word read.                                                            *)

(* What a step of w leaves alone: the variables of the others.             *)
OthersKept(w) ==
  \A v \in Wrappers \ {w} :
    /\ place'[v] = place[v] /\ stage'[v] = stage[v]
    /\ crate_name'[v] = crate_name[v] /\ overflow_state'[v] = overflow_state[v]
    /\ previous'[v] = previous[v]

LEMMA Updated ==
  ASSUME NEW S, NEW f \in [Wrappers -> S], NEW w \in Wrappers, NEW x \in S,
         NEW g, g = [f EXCEPT ![w] = x]
  PROVE  g \in [Wrappers -> S] /\ g[w] = x /\ \A v \in Wrappers \ {w} : g[v] = f[v]
OBVIOUS

LEMMA Pair ==
  ASSUME NEW a, NEW b, NEW x, x = <<a, b>>
  PROVE  x[1] = a /\ x[2] = b /\ Len(x) = 2
OBVIOUS

(* The words of an option: both in one, or the flag and then the value.    *)
LEMMA WordOfOption ==
  ASSUME NEW w, NEW p, NEW h \in {1, 2},
         Option(w) = p, place[w][2] = h, p.joined \in BOOLEAN, h = 2 => ~ p.joined
  PROVE  /\ p.joined => Word(w) = <<p.flag, p.value>> /\ Len(Spelled(p)) = 1
         /\ ~ p.joined /\ h = 1 => Word(w) = <<p.flag, "">> /\ Len(Spelled(p)) = 2
         /\ ~ p.joined /\ h = 2 => Word(w) = <<"", p.value>> /\ Len(Spelled(p)) = 2
<1>1. Word(w) = Spelled(p)[h]
  BY DEF Word
<1>2. CASE p.joined
  <2>1. Spelled(p) = <<<<p.flag, p.value>>>> /\ h = 1
    BY <1>2 DEF Spelled
  <2> QED  BY <1>1, <1>2, <2>1
<1>3. CASE ~ p.joined
  <2>1. Spelled(p) = <<<<p.flag, "">>, <<"", p.value>>>>
    BY <1>3 DEF Spelled
  <2>2. /\ Spelled(p)[1] = <<p.flag, "">> /\ Spelled(p)[2] = <<"", p.value>>
        /\ Len(Spelled(p)) = 2
    <3> DEFINE x == Spelled(p)
               a == <<p.flag, "">>
               b == <<"", p.value>>
    <3>1. x = <<a, b>>
      BY <2>1
    <3> HIDE DEF x, a, b
    <3>2. x[1] = a /\ x[2] = b /\ Len(x) = 2
      BY <3>1, Pair
    <3> QED  BY <3>2 DEF x, a, b
  <2>3. /\ h = 1 => Word(w) = <<p.flag, "">>
        /\ h = 2 => Word(w) = <<"", p.value>>
    BY <1>1, <2>2
  <2> QED  BY <1>3, <2>2, <2>3
<1> QED  BY <1>2, <1>3

LEMMA OverflowSet ==
  ASSUME Functions, NEW w \in Wrappers, NEW value, SetOverflow(w, value)
  PROVE  LET state == IF value \in CheckValues THEN Setting(value)
                                               ELSE overflow_state[w]
         IN  overflow_state' = [overflow_state EXCEPT ![w] = state] /\ state \in States
<1>1. overflow_state[w] \in States
  BY DEF Functions
<1>2. CASE value = "overflow-checks=on"
  BY <1>2 DEF SetOverflow, CheckValues, Setting, States
<1>3. CASE value = "overflow-checks=off"
  BY <1>3 DEF SetOverflow, CheckValues, Setting, States
<1>4. CASE value \notin CheckValues
  <2>1. overflow_state' = [overflow_state EXCEPT ![w] = overflow_state[w]]
    BY <1>4 DEF SetOverflow, CheckValues
  <2> QED  BY <1>1, <1>4, <2>1
<1> QED  BY <1>2, <1>3, <1>4 DEF CheckValues

(* The loop takes from an option what NameRead and ChecksRead say, with    *)
(* its last word, and nothing before that.                                 *)
LEMMA WordRead ==
  ASSUME Functions, NEW w \in Wrappers, OptionsOK(w), PlaceOK(w), ReadWord(w)
  PROVE  LET k == place[w][1]
             p == options[w][k]
             ends == p.joined \/ place[w][2] = 2
         IN  /\ k \in 1 .. Len(options[w])
             /\ Functions' /\ OthersKept(w)
             /\ stage'[w] = "loop" /\ options' = options /\ directory' = directory
             /\ place'[w] = IF ends THEN <<k + 1, 1>> ELSE <<k, 2>>
             /\ previous'[w] = IF ends THEN "" ELSE
                               IF IsName(p) THEN "crate-name" ELSE "codegen"
             /\ crate_name'[w] = IF ends /\ IsName(p) THEN p.value ELSE crate_name[w]
             /\ overflow_state'[w] = IF ends /\ IsCheck(p) THEN Setting(p.value)
                                                         ELSE overflow_state[w]
<1> DEFINE k == place[w][1]
           h == place[w][2]
           p == options[w][k]
           ends == p.joined \/ h = 2
           name == IF ends /\ IsName(p) THEN p.value ELSE crate_name[w]
           state == IF ends /\ IsCheck(p) THEN Setting(p.value) ELSE overflow_state[w]
           pending == IF ends THEN "" ELSE
                      IF IsName(p) THEN "crate-name" ELSE "codegen"
           next == IF ends THEN <<k + 1, 1>> ELSE <<k, 2>>
<1>1. /\ stage[w] = "loop" /\ k <= Len(options[w]) /\ Advance(w)
      /\ ReadValue(w) \/ ReadFlag(w)
      /\ options' = options /\ directory' = directory
      /\ stage' = stage /\ marked' = marked
  BY DEF ReadWord, inputs
<1>2. /\ k \in 1 .. Len(options[w]) /\ k \in Nat /\ h \in {1, 2} /\ place[w] = <<k, h>>
      /\ options[w] \in Seq(Arguments)
  <2>1. options[w] \in Seq(Arguments)
    BY DEF OptionsOK
  <2>2. Len(options[w]) \in Nat
    BY <2>1
  <2>3. place[w] \in (1 .. Len(options[w]) + 1) \X {1, 2}
    BY DEF PlaceOK
  <2> QED  BY <1>1, <2>1, <2>2, <2>3
<1>3. p \in Arguments
  BY <1>2
<1>4. /\ p.joined \in BOOLEAN /\ p.value # "" /\ p.flag \in {"--crate-name", "-C", ""}
      /\ ~ p.joined => p.flag \in {"--crate-name", "-C"}
      /\ IsName(p) => p.value \in CrateNames
      /\ p.flag = "-C" => p.value \in CheckValues \cup {"opt-level=3"}
  BY <1>3, KindsOfOptions
<1>5. /\ h = 1 => previous[w] = ""
      /\ h = 2 => ~ p.joined /\ previous[w] = IF IsName(p) THEN "crate-name" ELSE "codegen"
  BY DEF PlaceOK
<1>6. /\ p.joined => Word(w) = <<p.flag, p.value>> /\ Len(Spelled(p)) = 1
      /\ ~ p.joined /\ h = 1 => Word(w) = <<p.flag, "">> /\ Len(Spelled(p)) = 2
      /\ ~ p.joined /\ h = 2 => Word(w) = <<"", p.value>> /\ Len(Spelled(p)) = 2
  <2>1. Option(w) = p
    BY DEF Option
  <2> QED  BY <1>2, <1>4, <1>5, <2>1, WordOfOption
<1>7. place' = [place EXCEPT ![w] = next] /\ next \in Nat \X {1, 2}
  <2>1. place' = [place EXCEPT ![w] = IF h < Len(Spelled(p)) THEN <<k, 2>>
                                                           ELSE <<k + 1, 1>>]
    BY <1>1 DEF Advance, Option
  <2> HIDE DEF p, h
  <2>2. h < Len(Spelled(p)) <=> ~ ends
    <3>1. CASE p.joined
      <4>1. Len(Spelled(p)) = 1 /\ ends
        BY <1>6, <3>1
      <4> QED  BY <1>2, <4>1
    <3>2. CASE ~ p.joined
      <4>1. Len(Spelled(p)) = 2
        BY <1>2, <1>6, <3>2
      <4>2. ends <=> h = 2
        BY <3>2
      <4> QED  BY <1>2, <4>1, <4>2
    <3> QED  BY <3>1, <3>2
  <2> HIDE DEF k
  <2>3. place' = [place EXCEPT ![w] = IF ends THEN <<k + 1, 1>> ELSE <<k, 2>>]
    <3>1. CASE ends
      <4>1. ~ h < Len(Spelled(p))
        BY <2>2, <3>1
      <4> HIDE DEF ends
      <4> QED  BY <2>1, <3>1, <4>1
    <3>2. CASE ~ ends
      <4>1. h < Len(Spelled(p))
        BY <2>2, <3>2
      <4> HIDE DEF ends
      <4> QED  BY <2>1, <3>2, <4>1
    <3> QED  BY <3>1, <3>2
  <2> HIDE DEF ends
  <2>4. next \in Nat \X {1, 2}
    BY <1>2
  <2> QED  BY <2>3, <2>4
<1>8. /\ crate_name' = [crate_name EXCEPT ![w] = name]
      /\ overflow_state' = [overflow_state EXCEPT ![w] = state]
      /\ previous' = [previous EXCEPT ![w] = pending]
  <2>1. /\ crate_name = [crate_name EXCEPT ![w] = crate_name[w]]
        /\ overflow_state = [overflow_state EXCEPT ![w] = overflow_state[w]]
        /\ previous = [previous EXCEPT ![w] = previous[w]]
    BY DEF Functions
  <2> HIDE DEF p, h
  <2>2. CASE p.joined
    <3>1. h = 1 /\ ends /\ previous[w] = "" /\ pending = ""
      BY <1>2, <1>5, <2>2
    <3>2. ReadFlag(w) /\ Word(w)[1] = p.flag /\ Word(w)[2] = p.value
      <4>1. ReadFlag(w)
        BY <1>1, <3>1 DEF ReadValue
      <4>2. Word(w) = <<p.flag, p.value>>
        BY <1>6, <2>2
      <4> QED  BY <4>1, <4>2
    <3>3. CASE p.flag = "--crate-name"
      <4>1. /\ SetPrevious(w, "") /\ SetCrateName(w, p.value)
            /\ overflow_state' = overflow_state
        BY <1>4, <3>2, <3>3 DEF ReadFlag
      <4>2. name = p.value /\ state = overflow_state[w]
        BY <3>1, <3>3 DEF IsName, IsCheck
      <4> QED  BY <2>1, <3>1, <4>1, <4>2 DEF SetPrevious, SetCrateName
    <3>4. CASE p.flag = "-C"
      <4>1. /\ SetPrevious(w, "") /\ SetOverflow(w, p.value)
            /\ crate_name' = crate_name
        BY <1>4, <3>2, <3>4 DEF ReadFlag
      <4>2. name = crate_name[w]
            /\ state = IF p.value \in CheckValues THEN Setting(p.value)
                                                  ELSE overflow_state[w]
        BY <3>1, <3>4 DEF IsName, IsCheck
      <4>3. overflow_state' = [overflow_state EXCEPT ![w] = state]
        BY <4>1, <4>2, OverflowSet
      <4> QED  BY <2>1, <3>1, <4>1, <4>2, <4>3 DEF SetPrevious
    <3>5. CASE p.flag = ""
      <4>1. /\ previous' = previous /\ crate_name' = crate_name
            /\ overflow_state' = overflow_state
        BY <3>2, <3>5 DEF ReadFlag, locals
      <4>2. name = crate_name[w] /\ state = overflow_state[w]
        BY <3>5 DEF IsName, IsCheck
      <4> QED  BY <2>1, <3>1, <4>1, <4>2
    <3> QED  BY <1>4, <3>3, <3>4, <3>5
  <2>3. CASE ~ p.joined /\ h = 1
    <3>1. ~ ends /\ previous[w] = "" /\ name = crate_name[w]
          /\ state = overflow_state[w]
          /\ pending = IF IsName(p) THEN "crate-name" ELSE "codegen"
      BY <1>5, <2>3
    <3>2. ReadFlag(w) /\ Word(w)[1] = p.flag /\ Word(w)[2] = ""
      <4>1. ReadFlag(w)
        BY <1>1, <3>1 DEF ReadValue
      <4>2. Word(w) = <<p.flag, "">>
        BY <1>6, <2>3
      <4>3. Word(w)[1] = p.flag /\ Word(w)[2] = ""
        <5> DEFINE x == Word(w)
                   f == p.flag
        <5>1. x = <<f, "">>
          BY <4>2
        <5> HIDE DEF x, f
        <5>2. x[1] = f /\ x[2] = ""
          BY <5>1, Pair
        <5> QED  BY <5>2 DEF x, f
      <4> QED  BY <4>1, <4>3
    <3>3. CASE p.flag = "--crate-name"
      <4>1. /\ SetPrevious(w, "crate-name") /\ SetCrateName(w, crate_name[w])
            /\ overflow_state' = overflow_state
        BY <3>2, <3>3 DEF ReadFlag
      <4> QED  BY <2>1, <3>1, <3>3, <4>1 DEF SetPrevious, SetCrateName, IsName
    <3>4. CASE p.flag = "-C"
      <4>1. /\ SetPrevious(w, "codegen") /\ SetOverflow(w, "")
            /\ crate_name' = crate_name
        BY <3>2, <3>4 DEF ReadFlag
      <4>2. "" \notin CheckValues
        BY DEF CheckValues
      <4>3. overflow_state' = [overflow_state EXCEPT ![w] = overflow_state[w]]
        BY <4>1, <4>2, OverflowSet
      <4> QED  BY <2>1, <3>1, <3>4, <4>1, <4>3 DEF SetPrevious, IsName
    <3> QED  BY <1>4, <2>3, <3>3, <3>4
  <2>4. CASE ~ p.joined /\ h = 2
    <3>1. ends /\ previous[w] = IF IsName(p) THEN "crate-name" ELSE "codegen"
      BY <1>5, <2>4
    <3>2. ReadValue(w) /\ Word(w)[2] = p.value
      <4>1. ReadValue(w)
        BY <1>1, <3>1 DEF ReadFlag
      <4>2. Word(w) = <<"", p.value>>
        BY <1>6, <2>4
      <4>3. Word(w)[2] = p.value
        <5> DEFINE x == Word(w)
                   f == p.value
        <5>1. x = <<"", f>>
          BY <4>2
        <5> HIDE DEF x, f
        <5>2. x[2] = f
          BY <5>1, Pair
        <5> QED  BY <5>2 DEF x, f
      <4> QED  BY <4>1, <4>3
    <3>3. SetPrevious(w, "") /\ pending = ""
      BY <3>1, <3>2 DEF ReadValue
    <3>4. CASE IsName(p)
      <4>1. SetCrateName(w, p.value) /\ overflow_state' = overflow_state
        BY <3>1, <3>2, <3>4 DEF ReadValue
      <4>2. name = p.value /\ state = overflow_state[w]
        BY <3>1, <3>4 DEF IsName, IsCheck
      <4> QED  BY <2>1, <3>3, <4>1, <4>2 DEF SetPrevious, SetCrateName
    <3>5. CASE ~ IsName(p)
      <4>1. SetOverflow(w, p.value) /\ crate_name' = crate_name
        BY <3>1, <3>2, <3>5 DEF ReadValue
      <4>2. name = crate_name[w]
            /\ state = IF p.value \in CheckValues THEN Setting(p.value)
                                                  ELSE overflow_state[w]
        BY <1>4, <2>4, <3>1, <3>5 DEF IsName, IsCheck
      <4>3. overflow_state' = [overflow_state EXCEPT ![w] = state]
        BY <4>1, <4>2, OverflowSet
      <4> QED  BY <2>1, <3>3, <4>1, <4>2, <4>3 DEF SetPrevious
    <3> QED  BY <3>4, <3>5
  <2> QED  BY <1>2, <1>4, <2>2, <2>3, <2>4
<1>9. /\ name \in CrateNames \cup {""} /\ state \in States
      /\ pending \in {"", "crate-name", "codegen"}
  BY <1>4 DEF Functions, States, Setting
<1>10. Functions' /\ OthersKept(w)
  BY <1>1, <1>7, <1>8, <1>9, Updated DEF Functions, OthersKept
<1>11. /\ place'[w] = next /\ crate_name'[w] = name
       /\ overflow_state'[w] = state /\ previous'[w] = pending
  BY <1>7, <1>8 DEF Functions
<1> QED  BY <1>1, <1>2, <1>10, <1>11

-----------------------------------------------------------------------------
(* A step of a wrapper, for all wrappers.                                  *)

LEMMA ReaderKept ==
  ASSUME NEW v \in Wrappers, ReaderOK(v), options' = options, directory' = directory,
         place'[v] = place[v], stage'[v] = stage[v], previous'[v] = previous[v],
         crate_name'[v] = crate_name[v], overflow_state'[v] = overflow_state[v]
  PROVE  ReaderOK(v)'
<1>1. PlaceOK(v)'
  BY DEF ReaderOK, PlaceOK, IsName
<1>2. NameRead(options[v], place[v][1] - 1, crate_name[v])'
  BY DEF ReaderOK, NameRead, IsName
<1>3. ChecksRead(options[v], place[v][1] - 1, overflow_state[v])'
  BY DEF ReaderOK, ChecksRead, IsCheck, Setting
<1>4. /\ stage'[v] \in {"start", "loop", "record", "exec", "error"}
      /\ stage'[v] \in {"loop", "record", "exec"} => directory' # "unset"
      /\ stage'[v] \in {"record", "exec"} => place'[v][1] = Len(options'[v]) + 1
  BY DEF ReaderOK
<1> QED  BY <1>1, <1>2, <1>3, <1>4 DEF ReaderOK

LEMMA StageSet ==
  ASSUME Functions, NEW w \in Wrappers,
         NEW s \in {"start", "loop", "record", "exec", "error"},
         stage' = [stage EXCEPT ![w] = s],
         place' = place, crate_name' = crate_name,
         overflow_state' = overflow_state, previous' = previous
  PROVE  Functions' /\ OthersKept(w) /\ stage'[w] = s
BY Updated DEF Functions, OthersKept

(* A step to another stage keeps what is known of its wrapper, if what the *)
(* new stage asks for holds.                                               *)
LEMMA StageReader ==
  ASSUME Functions, NEW w \in Wrappers, ReaderOK(w),
         NEW s \in {"start", "loop", "record", "exec", "error"},
         stage' = [stage EXCEPT ![w] = s], options' = options, directory' = directory,
         place' = place, crate_name' = crate_name,
         overflow_state' = overflow_state, previous' = previous,
         s \in {"loop", "record", "exec"} => directory # "unset",
         s \in {"record", "exec"} => place[w][1] = Len(options[w]) + 1
  PROVE  ReaderOK(w)'
<1>1. stage'[w] = s
  BY StageSet
<1>2. PlaceOK(w)'
  BY DEF ReaderOK, PlaceOK, IsName
<1>3. NameRead(options[w], place[w][1] - 1, crate_name[w])'
  BY DEF ReaderOK, NameRead, IsName
<1>4. ChecksRead(options[w], place[w][1] - 1, overflow_state[w])'
  BY DEF ReaderOK, ChecksRead, IsCheck, Setting
<1> QED  BY <1>1, <1>2, <1>3, <1>4 DEF ReaderOK

(* The names and checks read after one option more.                        *)
LEMMA WordReader ==
  ASSUME Functions, NEW w \in Wrappers, OptionsOK(w), ReaderOK(w), ReadWord(w)
  PROVE  ReaderOK(w)'
<1> DEFINE k == place[w][1]
           o == options[w]
           p == o[k]
           ends == p.joined \/ place[w][2] = 2
<1>1. PlaceOK(w) /\ NameRead(o, k - 1, crate_name[w])
      /\ ChecksRead(o, k - 1, overflow_state[w])
  BY DEF ReaderOK
<1>2. /\ k \in 1 .. Len(o)
      /\ stage'[w] = "loop" /\ options' = options /\ directory' = directory
      /\ place'[w] = IF ends THEN <<k + 1, 1>> ELSE <<k, 2>>
      /\ previous'[w] = IF ends THEN "" ELSE
                        IF IsName(p) THEN "crate-name" ELSE "codegen"
      /\ crate_name'[w] = IF ends /\ IsName(p) THEN p.value ELSE crate_name[w]
      /\ overflow_state'[w] = IF ends /\ IsCheck(p) THEN Setting(p.value)
                                                  ELSE overflow_state[w]
  BY <1>1, WordRead
<1>3. directory # "unset"
  BY DEF ReaderOK, ReadWord
<1>4. o \in Seq(Arguments) /\ Len(o) \in Nat /\ DOMAIN o = 1 .. Len(o)
      /\ \A i, j \in DOMAIN o : IsName(o[i]) /\ IsName(o[j]) => i = j
  BY DEF OptionsOK
<1>5. k \in Nat /\ k - 1 \in Nat /\ (k - 1) + 1 = k /\ (k + 1) - 1 = k
      /\ 1 .. k \subseteq 1 .. Len(o)
      /\ k \in 1 .. Len(o) + 1 /\ k + 1 \in 1 .. Len(o) + 1 /\ k <= Len(o)
  <2>1. k \in 1 .. Len(o) /\ Len(o) \in Nat
    BY <1>2, <1>4
  <2> HIDE DEF k, o
  <2> QED  BY <2>1
<1>6. CASE ends
  <2>1. /\ place'[w] = <<k + 1, 1>> /\ previous'[w] = ""
        /\ crate_name'[w] = IF IsName(p) THEN p.value ELSE crate_name[w]
        /\ overflow_state'[w] = IF IsCheck(p) THEN Setting(p.value)
                                              ELSE overflow_state[w]
    BY <1>2, <1>6
  <2> HIDE DEF ends
  <2>2. place'[w][1] = k + 1 /\ place'[w][2] = 1
    <3> DEFINE x == place'[w]
               m == k + 1
    <3>1. x = <<m, 1>>
      BY <2>1
    <3> HIDE DEF x, m
    <3>2. x[1] = m /\ x[2] = 1
      BY <3>1, Pair
    <3> QED  BY <3>2 DEF x, m
  <2>3. PlaceOK(w)'
    <3>1. place'[w] \in (1 .. Len(options'[w]) + 1) \X {1, 2}
      <4> DEFINE m == k + 1
                 N == 1 .. Len(o) + 1
      <4>1. m \in N /\ place'[w] = <<m, 1>> /\ N = 1 .. Len(options'[w]) + 1
        BY <1>2, <1>5, <2>1
      <4> HIDE DEF m, N
      <4>2. place'[w] \in N \X {1, 2}
        BY <4>1
      <4> QED  BY <4>1, <4>2
    <3>2. place'[w][2] # 2
      BY <2>2
    <3>3. previous'[w] = ""
      BY <2>1
    <3> QED  BY <3>1, <3>2, <3>3 DEF PlaceOK
  <2>4. NameRead(o, k, crate_name'[w])
    <3>1. \A i, j \in 1 .. (k - 1) + 1 : IsName(o[i]) /\ IsName(o[j]) => i = j
      BY <1>4, <1>5
    <3>2. NameRead(o, (k - 1) + 1, IF IsName(o[(k - 1) + 1]) THEN o[(k - 1) + 1].value
                                                          ELSE crate_name[w])
      BY <1>1, <1>5, <3>1, NameReadNext
    <3> QED  BY <1>5, <2>1, <3>2
  <2>5. ChecksRead(o, k, overflow_state'[w])
    <3>1. ChecksRead(o, (k - 1) + 1,
                     IF IsCheck(o[(k - 1) + 1]) THEN Setting(o[(k - 1) + 1].value)
                                               ELSE overflow_state[w])
      BY <1>1, <1>5, ChecksReadNext
    <3> QED  BY <1>5, <2>1, <3>1
  <2>6. NameRead(options'[w], place'[w][1] - 1, crate_name'[w])
        /\ ChecksRead(options'[w], place'[w][1] - 1, overflow_state'[w])
    BY <1>2, <1>5, <2>2, <2>4, <2>5
  <2> QED  BY <1>2, <1>3, <2>3, <2>6 DEF ReaderOK, NameRead, ChecksRead, IsName, IsCheck, Setting
<1>7. CASE ~ ends
  <2>1. /\ place'[w] = <<k, 2>> /\ crate_name'[w] = crate_name[w]
        /\ previous'[w] = IF IsName(p) THEN "crate-name" ELSE "codegen"
        /\ overflow_state'[w] = overflow_state[w] /\ ~ p.joined
    BY <1>2, <1>7
  <2> HIDE DEF ends
  <2>2. place'[w][1] = k /\ place'[w][2] = 2
    BY <2>1
  <2>3. PlaceOK(w)'
    <3>1. place'[w] \in (1 .. Len(options'[w]) + 1) \X {1, 2}
      <4> DEFINE N == 1 .. Len(o) + 1
      <4>1. k \in N /\ place'[w] = <<k, 2>> /\ N = 1 .. Len(options'[w]) + 1
        BY <1>2, <1>5, <2>1
      <4> HIDE DEF k, N
      <4>2. place'[w] \in N \X {1, 2}
        BY <4>1
      <4> QED  BY <4>1, <4>2
    <3>2. place'[w][2] # 1
      BY <2>2
    <3>3. place'[w][1] <= Len(options'[w])
      BY <1>2, <1>5, <2>2
    <3>4. /\ ~ options'[w][place'[w][1]].joined
          /\ previous'[w] = IF IsName(options'[w][place'[w][1]]) THEN "crate-name"
                                                              ELSE "codegen"
      BY <1>2, <2>1, <2>2
    <3> QED  BY <3>1, <3>2, <3>3, <3>4 DEF PlaceOK, IsName
  <2>4. NameRead(options'[w], place'[w][1] - 1, crate_name'[w])
        /\ ChecksRead(options'[w], place'[w][1] - 1, overflow_state'[w])
    BY <1>1, <1>2, <2>1, <2>2
  <2> QED  BY <1>2, <1>3, <2>3, <2>4 DEF ReaderOK, NameRead, ChecksRead, IsName, IsCheck, Setting
<1> QED  BY <1>6, <1>7

LEMMA WrapKeepsReaders ==
  ASSUME Functions, \A v \in Wrappers : OptionsOK(v) /\ ReaderOK(v),
         NEW w \in Wrappers, Wrap(w)
  PROVE  /\ Functions' /\ OthersKept(w) /\ options' = options /\ directory' = directory
         /\ \A v \in Wrappers : OptionsOK(v)' /\ ReaderOK(v)'
<1>0. OptionsOK(w) /\ ReaderOK(w) /\ PlaceOK(w)
  BY DEF ReaderOK
<1>1. /\ Functions' /\ OthersKept(w) /\ options' = options /\ directory' = directory
      /\ ReaderOK(w)'
  <2>1. CASE Start(w)
    <3> DEFINE s == IF options[w] = <<>> \/ directory = "unset" THEN "error" ELSE "loop"
    <3>1. stage' = [stage EXCEPT ![w] = s]
          /\ options' = options /\ directory' = directory
          /\ place' = place /\ crate_name' = crate_name
          /\ overflow_state' = overflow_state /\ previous' = previous
      BY <2>1 DEF Start, GoTo, inputs, locals
    <3>2. s \in {"loop", "error"} /\ (s = "loop" => directory # "unset")
      OBVIOUS
    <3> HIDE DEF s
    <3>3. s \in {"start", "loop", "record", "exec", "error"} /\ s \notin {"record", "exec"}
      BY <3>2
    <3>4. Functions' /\ OthersKept(w)
      BY <3>1, <3>3, StageSet
    <3>5. ReaderOK(w)'
      BY <1>0, <3>1, <3>2, <3>3, StageReader
    <3> QED  BY <3>1, <3>4, <3>5
  <2>2. CASE ReadWord(w)
    <3>1. Functions' /\ OthersKept(w) /\ options' = options /\ directory' = directory
      BY <1>0, <2>2, WordRead
    <3> QED  BY <1>0, <2>2, <3>1, WordReader
  <2>3. CASE EndLoop(w)
    <3>1. stage' = [stage EXCEPT ![w] = "record"]
          /\ options' = options /\ directory' = directory
          /\ place' = place /\ crate_name' = crate_name
          /\ overflow_state' = overflow_state /\ previous' = previous
      BY <2>3 DEF EndLoop, GoTo, inputs, locals
    <3>2. directory # "unset"
      BY <1>0, <2>3 DEF EndLoop, ReaderOK
    <3>3. place[w][1] = Len(options[w]) + 1
      <4>1. place[w] \in (1 .. Len(options[w]) + 1) \X {1, 2} /\ place[w][1] > Len(options[w])
        BY <1>0, <2>3 DEF EndLoop, PlaceOK
      <4>2. Len(options[w]) \in Nat
        BY <1>0 DEF OptionsOK
      <4> QED  BY <4>1, <4>2
    <3>4. Functions' /\ OthersKept(w)
      BY <3>1, StageSet
    <3>5. ReaderOK(w)'
      BY <1>0, <3>1, <3>2, <3>3, StageReader
    <3> QED  BY <3>1, <3>4, <3>5
  <2>4. CASE Record(w)
    <3> DEFINE s == IF crate_name[w] \in Recorded /\ directory = "gone"
                    THEN "error" ELSE "exec"
    <3>1. stage' = [stage EXCEPT ![w] = s]
          /\ options' = options /\ directory' = directory
          /\ place' = place /\ crate_name' = crate_name
          /\ overflow_state' = overflow_state /\ previous' = previous
      BY <2>4 DEF Record, GoTo, inputs, locals
    <3>2. directory # "unset" /\ place[w][1] = Len(options[w]) + 1
      BY <1>0, <2>4 DEF Record, ReaderOK
    <3>3. s \in {"start", "loop", "record", "exec", "error"}
      OBVIOUS
    <3> HIDE DEF s
    <3>4. Functions' /\ OthersKept(w)
      BY <3>1, <3>3, StageSet
    <3>5. ReaderOK(w)'
      BY <1>0, <3>1, <3>2, <3>3, StageReader
    <3> QED  BY <3>1, <3>4, <3>5
  <2> QED  BY <2>1, <2>2, <2>3, <2>4 DEF Wrap
<1>2. ASSUME NEW v \in Wrappers PROVE OptionsOK(v)' /\ ReaderOK(v)'
  <2>1. OptionsOK(v)'
    BY <1>1 DEF OptionsOK, IsName
  <2>2. CASE v = w
    BY <1>1, <2>1, <2>2
  <2>3. CASE v # w
    <3>1. /\ place'[v] = place[v] /\ stage'[v] = stage[v] /\ previous'[v] = previous[v]
          /\ crate_name'[v] = crate_name[v] /\ overflow_state'[v] = overflow_state[v]
      BY <1>1, <2>3 DEF OthersKept
    <3>2. ReaderOK(v)'
      BY <1>1, <3>1, ReaderKept
    <3> QED  BY <2>1, <3>2
  <2> QED  BY <2>2, <2>3
<1> QED  BY <1>1, <1>2

-----------------------------------------------------------------------------
(* The marker files.                                                       *)

LinesOf(file, state) == {i \in DOMAIN file : file[i] = state}
CompilingWith(crate, state) == {w \in Compiling(crate) : CompiledOverflow(w) = state}

(* The files are those of the compilations under way.                      *)
MarksOK ==
  /\ marked \in [Recorded -> Seq(States)]
  /\ \A crate \in Recorded :
       /\ Len(marked[crate]) = Cardinality(Compiling(crate))
       /\ marked[crate] # <<>> => directory = "there"
  /\ \A crate \in Recorded, state \in States :
       Cardinality(LinesOf(marked[crate], state)) = Cardinality(CompilingWith(crate, state))

(* The inductive invariant of the wrappers.                                *)
WInv ==
  /\ Functions
  /\ directory \in {"unset", "gone", "there"}
  /\ \A w \in Wrappers : OptionsOK(w) /\ ReaderOK(w)
  /\ MarksOK

LEMMA LineAppended ==
  ASSUME NEW file \in Seq(States), NEW added \in States, NEW state \in States
  PROVE  /\ Append(file, added) \in Seq(States)
         /\ Len(Append(file, added)) = Len(file) + 1
         /\ IsFiniteSet(LinesOf(file, state))
         /\ Cardinality(LinesOf(Append(file, added), state)) =
              Cardinality(LinesOf(file, state)) + (IF added = state THEN 1 ELSE 0)
<1> DEFINE n == Len(file)
           longer == Append(file, added)
<1>1. /\ longer \in Seq(States) /\ Len(longer) = n + 1 /\ n \in Nat
      /\ DOMAIN file = 1 .. n /\ DOMAIN longer = 1 .. n + 1
      /\ \A i \in 1 .. n : longer[i] = file[i]
      /\ longer[n + 1] = added
  OBVIOUS
<1> HIDE DEF n, longer
<1>2. IsFiniteSet(LinesOf(file, state)) /\ n + 1 \notin LinesOf(file, state)
  <2>1. LinesOf(file, state) \subseteq 1 .. n /\ IsFiniteSet(1 .. n)
    BY <1>1, FS_Interval DEF LinesOf
  <2> QED  BY <1>1, <2>1, FS_Subset
<1>3. 1 .. n + 1 = (1 .. n) \cup {n + 1}
  BY <1>1
<1>4. CASE added = state
  <2>1. LinesOf(longer, state) = LinesOf(file, state) \cup {n + 1}
    BY <1>1, <1>3, <1>4 DEF LinesOf
  <2> QED  BY <1>1, <1>2, <1>4, <2>1, FS_AddElement, FS_CardinalityType DEF n, longer
<1>5. CASE added # state
  <2>1. LinesOf(longer, state) = LinesOf(file, state)
    BY <1>1, <1>3, <1>5 DEF LinesOf
  <2> QED  BY <1>1, <1>2, <1>5, <2>1, FS_CardinalityType DEF n, longer
<1> QED  BY <1>4, <1>5

LEMMA CompilingFinite ==
  ASSUME NEW crate, NEW state
  PROVE  /\ IsFiniteSet(Wrappers)
         /\ IsFiniteSet(Compiling(crate)) /\ IsFiniteSet(CompilingWith(crate, state))
         /\ Cardinality(Compiling(crate)) <= Cardinality(Wrappers)
         /\ Cardinality(Wrappers) \in Nat
<1>1. IsFiniteSet(Wrappers) /\ Cardinality(Wrappers) \in Nat
  BY OptionsAssumption, FS_CardinalityType
<1>2. Compiling(crate) \subseteq Wrappers /\ CompilingWith(crate, state) \subseteq Wrappers
  BY DEF Compiling, CompilingWith
<1> QED  BY <1>1, <1>2, FS_Subset

(* What rustc takes from a command line stays what it is.                  *)
LEMMA SameCommandLines ==
  ASSUME options' = options
  PROVE  \A w : CompiledCrate(w)' = CompiledCrate(w)
                /\ CompiledOverflow(w)' = CompiledOverflow(w)
BY DEF CompiledCrate, CompiledOverflow, Given

(* The compilations before and after a step of a wrapper that had not      *)
(* become rustc.                                                           *)
LEMMA CompilingNext ==
  ASSUME NEW w \in Wrappers, OthersKept(w), options' = options, stage[w] # "exec",
         NEW crate, NEW state
  PROVE  /\ w \notin Compiling(crate)
         /\ stage'[w] = "exec" /\ CompiledCrate(w) = crate =>
              /\ Compiling(crate)' = Compiling(crate) \cup {w}
              /\ CompiledOverflow(w) = state =>
                   CompilingWith(crate, state)' = CompilingWith(crate, state) \cup {w}
              /\ CompiledOverflow(w) # state =>
                   CompilingWith(crate, state)' = CompilingWith(crate, state)
         /\ stage'[w] # "exec" \/ CompiledCrate(w) # crate =>
              /\ Compiling(crate)' = Compiling(crate)
              /\ CompilingWith(crate, state)' = CompilingWith(crate, state)
<1>1. \A v \in Wrappers \ {w} : stage'[v] = stage[v]
  BY DEF OthersKept
<1>2. w \notin Compiling(crate) /\ Compiling(crate) \subseteq Wrappers
  BY DEF Compiling
<1>3. Compiling(crate)' = {v \in Wrappers : stage'[v] = "exec" /\ CompiledCrate(v) = crate}
  BY SameCommandLines DEF Compiling
<1>4. CompilingWith(crate, state)' = {v \in Compiling(crate)' : CompiledOverflow(v) = state}
  BY SameCommandLines DEF CompilingWith
<1>5. ASSUME stage'[w] = "exec", CompiledCrate(w) = crate
      PROVE  /\ Compiling(crate)' = Compiling(crate) \cup {w}
             /\ CompiledOverflow(w) = state =>
                  CompilingWith(crate, state)' = CompilingWith(crate, state) \cup {w}
             /\ CompiledOverflow(w) # state =>
                  CompilingWith(crate, state)' = CompilingWith(crate, state)
  <2>1. Compiling(crate)' = Compiling(crate) \cup {w}
    BY <1>1, <1>3, <1>5 DEF Compiling
  <2>2. CompiledOverflow(w) = state =>
          CompilingWith(crate, state)' = CompilingWith(crate, state) \cup {w}
    BY <1>4, <2>1 DEF CompilingWith
  <2>3. CompiledOverflow(w) # state =>
          CompilingWith(crate, state)' = CompilingWith(crate, state)
    BY <1>4, <2>1 DEF CompilingWith
  <2> QED  BY <2>1, <2>2, <2>3
<1>6. ASSUME stage'[w] # "exec" \/ CompiledCrate(w) # crate
      PROVE  /\ Compiling(crate)' = Compiling(crate)
             /\ CompilingWith(crate, state)' = CompilingWith(crate, state)
  <2>1. Compiling(crate)' = Compiling(crate)
    BY <1>1, <1>3, <1>6 DEF Compiling
  <2>2. CompilingWith(crate, state)' = CompilingWith(crate, state)
    BY <1>4, <2>1 DEF CompilingWith
  <2> QED  BY <2>1, <2>2
<1> QED  BY <1>2, <1>5, <1>6

(* A step that adds no line and no compilation.                            *)
LEMMA MarksUntouched ==
  ASSUME MarksOK, NEW w \in Wrappers, OthersKept(w), options' = options,
         directory' = directory, marked' = marked, stage[w] # "exec",
         stage'[w] # "exec" \/ CompiledCrate(w) \notin Recorded
  PROVE  MarksOK'
<1>1. ASSUME NEW crate \in Recorded, NEW state \in States
      PROVE  /\ Compiling(crate)' = Compiling(crate)
             /\ CompilingWith(crate, state)' = CompilingWith(crate, state)
  <2>1. stage'[w] # "exec" \/ CompiledCrate(w) # crate
    OBVIOUS
  <2> QED  BY <2>1, CompilingNext
<1>2. "on" \in States
  BY DEF States
<1> QED  BY <1>1, <1>2 DEF MarksOK, LinesOf

LEMMA RecordKeepsMarks ==
  ASSUME WInv, NEW w \in Wrappers, Record(w), OthersKept(w), options' = options,
         directory' = directory
  PROVE  MarksOK'
<1>1. /\ stage[w] = "record" /\ directory \in {"gone", "there"}
      /\ crate_name[w] = CompiledCrate(w) /\ overflow_state[w] = CompiledOverflow(w)
      /\ overflow_state[w] \in States
  <2>1. stage[w] = "record" /\ OptionsOK(w) /\ ReaderOK(w)
    BY DEF WInv, Record
  <2>2. place[w][1] = Len(options[w]) + 1 /\ directory # "unset"
    BY <2>1 DEF ReaderOK
  <2>3. Len(options[w]) \in Nat
    BY <2>1 DEF OptionsOK
  <2>4. place[w][1] - 1 = Len(options[w])
    BY <2>2, <2>3
  <2>5. crate_name[w] = CompiledCrate(w)
    BY <2>1, <2>4, NameIsCompiled DEF ReaderOK
  <2>6. overflow_state[w] = CompiledOverflow(w)
    BY <2>1, <2>4, ChecksAreCompiled DEF ReaderOK
  <2> QED  BY <2>1, <2>2, <2>5, <2>6 DEF WInv, Functions
<1>2. MarksOK /\ stage \in [Wrappers -> {"start", "loop", "record", "exec", "error"}]
  BY DEF WInv, Functions
<1> DEFINE c == crate_name[w]
           s == overflow_state[w]
<1>3. CASE c \in Recorded /\ directory = "there"
  <2>1. marked' = [marked EXCEPT ![c] = Append(@, s)] /\ stage' = [stage EXCEPT ![w] = "exec"]
    BY <1>3 DEF Record, GoTo
  <2>2. stage'[w] = "exec"
    BY <1>2, <2>1
  <2>3. marked \in [Recorded -> Seq(States)]
    BY <1>2 DEF MarksOK
  <2> HIDE DEF c, s
  <2>4. /\ marked' \in [Recorded -> Seq(States)]
        /\ marked'[c] = Append(marked[c], s)
        /\ \A crate \in Recorded \ {c} : marked'[crate] = marked[crate]
    <3>1. Append(marked[c], s) \in Seq(States)
      BY <1>1, <1>3, <2>3, LineAppended DEF s
    <3> QED  BY <1>3, <2>1, <2>3, <3>1
  <2>5. ASSUME NEW crate \in Recorded, NEW state \in States
        PROVE  /\ Len(marked'[crate]) = Cardinality(Compiling(crate)')
               /\ marked'[crate] # <<>> => directory' = "there"
               /\ Cardinality(LinesOf(marked'[crate], state))
                    = Cardinality(CompilingWith(crate, state)')
    <3>1. /\ Len(marked[crate]) = Cardinality(Compiling(crate))
          /\ Cardinality(LinesOf(marked[crate], state))
               = Cardinality(CompilingWith(crate, state))
          /\ marked[crate] \in Seq(States)
      BY <1>2, <2>3 DEF MarksOK
    <3>2. CASE crate = c
      <4>1. /\ Compiling(crate)' = Compiling(crate) \cup {w}
            /\ s = state => CompilingWith(crate, state)' = CompilingWith(crate, state) \cup {w}
            /\ s # state => CompilingWith(crate, state)' = CompilingWith(crate, state)
            /\ w \notin Compiling(crate)
        BY <1>1, <2>2, <3>2, CompilingNext DEF c, s
      <4>2. w \notin CompilingWith(crate, state)
        BY <4>1 DEF CompilingWith
      <4>3. IsFiniteSet(Compiling(crate)) /\ IsFiniteSet(CompilingWith(crate, state))
        BY CompilingFinite
      <4>4. /\ Cardinality(Compiling(crate)') = Cardinality(Compiling(crate)) + 1
            /\ Cardinality(CompilingWith(crate, state)')
                 = Cardinality(CompilingWith(crate, state)) + (IF s = state THEN 1 ELSE 0)
        <5>1. Cardinality(Compiling(crate) \cup {w}) = Cardinality(Compiling(crate)) + 1
          BY <4>1, <4>3, FS_AddElement
        <5>2. Cardinality(CompilingWith(crate, state) \cup {w})
                = Cardinality(CompilingWith(crate, state)) + 1
          BY <4>2, <4>3, FS_AddElement
        <5>3. Cardinality(CompilingWith(crate, state)) \in Nat
          BY <4>3, FS_CardinalityType
        <5> QED  BY <4>1, <5>1, <5>2, <5>3
      <4>5. /\ marked'[crate] = Append(marked[crate], s) /\ s \in States
        BY <1>1, <2>4, <3>2 DEF s
      <4>6. /\ Len(marked'[crate]) = Len(marked[crate]) + 1
            /\ Cardinality(LinesOf(marked'[crate], state))
                 = Cardinality(LinesOf(marked[crate], state)) + (IF s = state THEN 1 ELSE 0)
        BY <3>1, <4>5, LineAppended
      <4> QED  BY <1>3, <3>1, <4>4, <4>6
    <3>3. CASE crate # c
      <4>1. /\ Compiling(crate)' = Compiling(crate)
            /\ CompilingWith(crate, state)' = CompilingWith(crate, state)
        BY <1>1, <3>3, CompilingNext DEF c
      <4> QED  BY <1>3, <2>4, <3>1, <3>3, <4>1
    <3> QED  BY <3>2, <3>3
  <2>6. "on" \in States
    BY DEF States
  <2> QED  BY <2>4, <2>5, <2>6 DEF MarksOK, LinesOf
<1>4. CASE ~ (c \in Recorded /\ directory = "there")
  <2>1. marked' = marked
    BY <1>4 DEF Record
  <2>2. stage' = [stage EXCEPT ![w] = IF c \in Recorded /\ directory = "gone"
                                      THEN "error" ELSE "exec"]
    BY DEF Record, GoTo
  <2>3. stage'[w] # "exec" \/ CompiledCrate(w) \notin Recorded
    BY <1>1, <1>2, <1>4, <2>2
  <2> QED  BY <1>1, <1>2, <2>1, <2>3, MarksUntouched
<1> QED  BY <1>3, <1>4

LEMMA WrapKeepsInvariant ==
  ASSUME WInv, NEW w \in Wrappers, Wrap(w)
  PROVE  WInv'
<1>1. /\ Functions' /\ OthersKept(w) /\ options' = options /\ directory' = directory
      /\ \A v \in Wrappers : OptionsOK(v)' /\ ReaderOK(v)'
  BY WrapKeepsReaders DEF WInv
<1>2. MarksOK'
  <2>1. CASE Record(w)
    BY <1>1, <2>1, RecordKeepsMarks
  <2>2. CASE ~ Record(w)
    <3>1. stage \in [Wrappers -> {"start", "loop", "record", "exec", "error"}]
      BY DEF WInv, Functions
    <3>2. marked' = marked /\ stage[w] # "exec"
      BY <2>2 DEF Wrap, Start, ReadWord, EndLoop
    <3>3. stage'[w] # "exec"
      <4>1. CASE Start(w)
        BY <3>1, <4>1 DEF Start, GoTo
      <4>2. CASE ReadWord(w)
        BY <4>2 DEF ReadWord
      <4>3. CASE EndLoop(w)
        BY <3>1, <4>3 DEF EndLoop, GoTo
      <4> QED  BY <2>2, <4>1, <4>2, <4>3 DEF Wrap
    <3> QED  BY <1>1, <3>2, <3>3, MarksUntouched DEF WInv
  <2> QED  BY <2>1, <2>2
<1> QED  BY <1>1, <1>2 DEF WInv

LEMMA OneOnly ==
  ASSUME NEW S, IsFiniteSet(S), Cardinality(S) <= 1, NEW i \in S, NEW j \in S
  PROVE  i = j
<1> SUFFICES ASSUME i # j PROVE FALSE
  OBVIOUS
<1>1. IsFiniteSet({i}) /\ Cardinality({i}) = 1
  BY FS_Singleton
<1>2. Cardinality({i} \cup {j}) = 2
  BY <1>1, FS_AddElement
<1>3. {i} \cup {j} \in SUBSET S
  OBVIOUS
<1>4. Cardinality({i} \cup {j}) <= Cardinality(S)
  BY <1>3, FS_Subset
<1> QED  BY <1>2, <1>4, FS_CardinalityType

(* The command lines that there are.                                       *)
LEMMA InitialOptions ==
  ASSUME GuardInit, NEW w \in Wrappers
  PROVE  OptionsOK(w)
<1>1. CASE options = [v \in Wrappers |-> <<>>]
  <2>1. options[w] = <<>>
    BY <1>1
  <2> QED  BY <2>1 DEF OptionsOK
<1>2. CASE options # [v \in Wrappers |-> <<>>]
  <2>1. PICK calls \in [Wrappers -> CommandLines] :
          options = [v \in Wrappers |-> <<Command>> \o calls[v]]
    BY <1>2 DEF GuardInit
  <2> DEFINE given == calls[w]
             o == <<Command>> \o given
             n == Len(given)
  <2>2. given \in BoundedSeq(Options, MaxOptions)
        /\ Cardinality({i \in DOMAIN given : IsName(given[i])}) <= 1
    BY <2>1 DEF CommandLines, IsName
  <2>3. given \in Seq(Options)
    <3>1. given \in UNION {[1 .. m -> Options] : m \in 0 .. MaxOptions}
      BY <2>2 DEF BoundedSeq, SeqOf
    <3>2. PICK m \in 0 .. MaxOptions : given \in [1 .. m -> Options]
      BY <3>1
    <3>3. m \in Nat
      BY <3>2, OptionsAssumption
    <3> HIDE DEF given
    <3> QED  BY <3>2, <3>3
  <2>4. options[w] = o
    BY <2>1
  <2> HIDE DEF given
  <2>5. /\ n \in Nat /\ DOMAIN given = 1 .. n
        /\ \A i \in 1 .. n : given[i] \in Options
    BY <2>3
  <2>6. o \in Seq(Arguments)
    <3>1. <<Command>> \in Seq(Arguments) /\ given \in Seq(Arguments)
      BY <2>3 DEF Arguments
    <3> QED  BY <3>1
  <2>7. /\ DOMAIN o = 1 .. n + 1 /\ o[1] = Command
        /\ \A i \in 2 .. n + 1 : o[i] = given[i - 1]
    BY <2>3, <2>5
  <2> HIDE DEF o
  <2>8. ~ IsName(Command)
    BY DEF IsName, Command
  <2>9. ASSUME NEW i \in DOMAIN o, NEW j \in DOMAIN o, IsName(o[i]), IsName(o[j])
        PROVE  i = j
    <3> DEFINE S == {x \in DOMAIN given : IsName(given[x])}
    <3>1. i \in 2 .. n + 1 /\ j \in 2 .. n + 1
      BY <2>5, <2>7, <2>8, <2>9
    <3>2. i - 1 \in S /\ j - 1 \in S
      BY <2>5, <2>7, <2>9, <3>1
    <3>3. IsFiniteSet(S)
      <4>1. S \subseteq 1 .. n /\ IsFiniteSet(1 .. n)
        BY <2>5, FS_Interval
      <4> QED  BY <4>1, FS_Subset
    <3>4. Cardinality(S) <= 1
      BY <2>2
    <3> HIDE DEF S
    <3>5. i - 1 = j - 1
      BY <3>2, <3>3, <3>4, OneOnly
    <3> QED  BY <2>5, <3>1, <3>5
  <2> QED  BY <2>4, <2>6, <2>9 DEF OptionsOK
<1> QED  BY <1>1, <1>2

LEMMA InitialInvariant == GuardInit => WInv
<1> SUFFICES ASSUME GuardInit PROVE WInv
  OBVIOUS
<1>1. /\ place = [w \in Wrappers |-> <<1, 1>>] /\ stage = [w \in Wrappers |-> "start"]
      /\ crate_name = [w \in Wrappers |-> ""] /\ previous = [w \in Wrappers |-> ""]
      /\ overflow_state = [w \in Wrappers |-> "absent"]
      /\ marked = [crate \in Recorded |-> <<>>]
      /\ directory \in {"unset", "gone", "there"}
  BY DEF GuardInit
<1>2. Functions
  BY <1>1 DEF Functions, States, CrateNames
<1>3. ASSUME NEW w \in Wrappers PROVE OptionsOK(w) /\ ReaderOK(w)
  <2>1. OptionsOK(w)
    BY InitialOptions
  <2>2. Len(options[w]) \in Nat
    BY <2>1 DEF OptionsOK
  <2>3. /\ place[w] = <<1, 1>> /\ place[w][1] = 1 /\ place[w][2] = 1
        /\ stage[w] = "start" /\ crate_name[w] = "" /\ previous[w] = ""
        /\ overflow_state[w] = "absent"
    BY <1>1
  <2>4. PlaceOK(w)
    <3>1. 1 \in 1 .. Len(options[w]) + 1
      BY <2>2
    <3> HIDE DEF PlaceOK
    <3>2. place[w] \in (1 .. Len(options[w]) + 1) \X {1, 2}
      BY <2>3, <3>1
    <3>3. place[w][2] = 1
      BY <2>3
    <3>4. place[w][2] # 2
      BY <3>3
    <3>5. previous[w] = ""
      BY <2>3
    <3> QED  BY <3>2, <3>4, <3>5 DEF PlaceOK
  <2>5. place[w][1] - 1 = 0 /\ \A i : i \notin 1 .. 0
    <3>1. place[w][1] = 1
      BY <2>3
    <3> QED  BY <3>1
  <2> QED  BY <2>1, <2>3, <2>4, <2>5 DEF ReaderOK, NameRead, ChecksRead
<1>4. MarksOK
  <2>1. ASSUME NEW crate \in Recorded, NEW state \in States
        PROVE  /\ marked[crate] = <<>> /\ Compiling(crate) = {}
               /\ CompilingWith(crate, state) = {} /\ LinesOf(marked[crate], state) = {}
    <3>1. marked[crate] = <<>>
      BY <1>1
    <3>2. Compiling(crate) = {}
      BY <1>1 DEF Compiling
    <3>3. CompilingWith(crate, state) = {}
      BY <3>2 DEF CompilingWith
    <3> QED  BY <3>1, <3>2, <3>3 DEF LinesOf
  <2>2. "on" \in States
    BY DEF States
  <2>3. marked \in [Recorded -> Seq(States)]
    <3>1. <<>> \in Seq(States)
      OBVIOUS
    <3> QED  BY <1>1, <3>1
  <2>4. Cardinality({}) = 0 /\ Len(<<>>) = 0
    BY FS_EmptySet
  <2>5. \A crate \in Recorded : /\ Len(marked[crate]) = Cardinality(Compiling(crate))
                                /\ marked[crate] = <<>>
    BY <2>1, <2>2, <2>4
  <2>6. \A crate \in Recorded, state \in States :
          Cardinality(LinesOf(marked[crate], state)) = Cardinality(CompilingWith(crate, state))
    BY <2>1
  <2> QED  BY <2>3, <2>5, <2>6 DEF MarksOK
<1> QED  BY <1>1, <1>2, <1>3, <1>4 DEF WInv

LEMMA SameInvariant == WInv /\ UNCHANGED guard_vars => WInv'
<1> SUFFICES ASSUME WInv, UNCHANGED guard_vars PROVE WInv'
  OBVIOUS
<1>1. /\ options' = options /\ directory' = directory /\ place' = place /\ stage' = stage
      /\ crate_name' = crate_name /\ overflow_state' = overflow_state
      /\ previous' = previous /\ marked' = marked
  BY DEF guard_vars, inputs, locals
<1>2. Functions'
  BY <1>1 DEF WInv, Functions
<1>3. \A w \in Wrappers : OptionsOK(w)' /\ ReaderOK(w)'
  <2> SUFFICES ASSUME NEW w \in Wrappers PROVE OptionsOK(w)' /\ ReaderOK(w)'
    OBVIOUS
  <2>1. OptionsOK(w) /\ ReaderOK(w)
    BY DEF WInv
  <2>2. OptionsOK(w)'
    BY <1>1, <2>1 DEF OptionsOK, IsName
  <2> QED  BY <1>1, <2>1, <2>2, ReaderKept
<1>4. MarksOK'
  <2>1. \A crate, state : Compiling(crate)' = Compiling(crate)
                          /\ CompilingWith(crate, state)' = CompilingWith(crate, state)
    BY <1>1, SameCommandLines DEF Compiling, CompilingWith
  <2> QED  BY <1>1, <2>1 DEF WInv, MarksOK, LinesOf
<1> QED  BY <1>1, <1>2, <1>3, <1>4 DEF WInv

LEMMA BuildInvariant == BuildSpec => []WInv
<1>1. BuildInit => WInv
  BY InitialInvariant DEF BuildInit
<1>2. WInv /\ [BuildNext]_<<guard_vars, outcome>> => WInv'
  <2> SUFFICES ASSUME WInv, [BuildNext]_<<guard_vars, outcome>> PROVE WInv'
    OBVIOUS
  <2>1. CASE \E w \in Wrappers : Wrap(w)
    BY <2>1, WrapKeepsInvariant
  <2>2. CASE ~ \E w \in Wrappers : Wrap(w)
    <3>1. UNCHANGED guard_vars
      BY <2>2 DEF BuildNext, Finish
    <3> QED  BY <3>1, SameInvariant
  <2> QED  BY <2>1, <2>2
<1> QED  BY <1>1, <1>2, PTL DEF BuildSpec

(* The readers' variables stay in their ranges, and no marker file has     *)
(* more lines than there are compilations.                                 *)
THEOREM WrapperTypes == BuildSpec => []GuardTypeOK
<1>1. WInv => GuardTypeOK
  <2> SUFFICES ASSUME WInv PROVE GuardTypeOK
    OBVIOUS
  <2>1. ASSUME NEW crate \in Recorded
        PROVE  /\ Range(marked[crate]) \subseteq {"on", "off", "absent"}
               /\ Len(marked[crate]) <= Cardinality(Wrappers)
    <3>1. marked[crate] \in Seq(States) /\ Len(marked[crate]) = Cardinality(Compiling(crate))
      BY DEF WInv, MarksOK
    <3>2. Range(marked[crate]) \subseteq States
      BY <3>1 DEF Range
    <3>3. Cardinality(Compiling(crate)) <= Cardinality(Wrappers)
      BY CompilingFinite
    <3> QED  BY <3>1, <3>2, <3>3 DEF States
  <2> QED  BY <2>1 DEF WInv, Functions, GuardTypeOK, States, CrateNames
<1> QED  BY <1>1, BuildInvariant, PTL

(* However the wrappers of any number of compilations interleave, and      *)
(* however their command lines are spelled, each marker file has for each  *)
(* state as many lines as there are compilations of its crate that rustc   *)
(* does with that state.                                                   *)
THEOREM EveryCompilationIsMarked == BuildSpec => []MarkedAsCompiled
<1>1. WInv => MarkedAsCompiled
  BY DEF WInv, MarksOK, MarkedAsCompiled, LinesOf, CompilingWith, States
<1> QED  BY <1>1, BuildInvariant, PTL

-----------------------------------------------------------------------------
(* The build as one step of check-downstream.sh.                           *)

(* The names on the paths of its files.                                    *)
BuildNames == {"home", "caller", "downstream", "marker", "temporary"}
                \cup Recorded \cup States

(* What rustc has compiled each crate with, once cargo has ended.          *)
AllCompiled == [crate \in Recorded |-> {CompiledOverflow(w) : w \in Compiling(crate)}]

(* The variables of Downstream that the build changes.                     *)
CompiledSeen ==
  [crate \in Recorded |->
     IF outcome = "succeeded"
     THEN {CompiledOverflow(w) : w \in Compiling(crate)} ELSE {}]

DiskSeen ==
  CASE outcome = "running" -> Made
    [] outcome = "succeeded" -> Made \cup Lines
    [] OTHER -> {<<"home", "caller">>}

LEMMA PrefixOfPair ==
  ASSUME NEW S, NEW a \in S, NEW b \in S, NEW c \in S, NEW d \in S
  PROVE  Gate!IsPrefix(<<a, b>>, <<c, d>>) <=> a = c /\ b = d
<1> DEFINE p == <<a, b>>
           q == <<c, d>>
<1>1. /\ p \in Seq(S) /\ Len(p) = 2 /\ p[1] = a /\ p[2] = b
      /\ q \in Seq(S) /\ Len(q) = 2 /\ q[1] = c /\ q[2] = d
  BY PairOf
<1>2. p = q => a = c /\ b = d
  BY <1>1
<1>3. a = c /\ b = d => p = q
  OBVIOUS
<1> HIDE DEF p, q
<1>4. SubSeq(p, 1, 2) = p /\ SubSeq(q, 1, 2) = q
  BY <1>1, SubSeqFull
<1>5. Gate!IsPrefix(p, q) <=> p = q
  BY <1>1, <1>4 DEF Gate!IsPrefix
<1> QED  BY <1>2, <1>3, <1>5 DEF p, q

(* What cleanup leaves of the directories.                                 *)
LEMMA MadeRemoved ==
  {file \in Made : \A p \in Gate!Mine : ~ Gate!IsPrefix(p, file)}
    = {<<"home", "caller">>}
<1> DEFINE h == <<"home", "caller">>
           d == <<"downstream", "temporary">>
           m == <<"marker", "temporary">>
<1>1. /\ "home" \in BuildNames /\ "caller" \in BuildNames /\ "downstream" \in BuildNames
      /\ "marker" \in BuildNames /\ "temporary" \in BuildNames
  BY DEF BuildNames
<1>2. /\ ~ Gate!IsPrefix(d, h) /\ ~ Gate!IsPrefix(m, h)
      /\ Gate!IsPrefix(d, d) /\ Gate!IsPrefix(m, m)
  BY <1>1, PrefixOfPair
<1>3. d[2] = "temporary" /\ m[2] = "temporary"
  BY <1>1, PairOf
<1>4. Made \subseteq {h, d, m} /\ h \in Made
  BY DEF Made
<1>5. Gate!Mine = {p \in {d, m} : p[2] # ""}
  BY DEF Gate!Mine
<1> HIDE DEF h, d, m
<1>6. Gate!Mine = {d, m}
  BY <1>3, <1>5
<1>7. {file \in Made : \A p \in Gate!Mine : ~ Gate!IsPrefix(p, file)} = {h}
  BY <1>2, <1>4, <1>6
<1> QED  BY <1>7 DEF h

LEMMA HasMarkers == directory = "there" /\ outcome = "running" => Gate!Has(<<"marker", "temporary">>)
<1> SUFFICES ASSUME directory = "there", outcome = "running"
             PROVE  Gate!Has(<<"marker", "temporary">>)
  OBVIOUS
<1>1. <<"marker", "temporary">> \in Made
  BY DEF Made
<1>2. "marker" \in BuildNames /\ "temporary" \in BuildNames
  BY DEF BuildNames
<1>3. Gate!IsPrefix(<<"marker", "temporary">>, <<"marker", "temporary">>)
  BY <1>2, PrefixOfPair
<1> QED  BY <1>1, <1>3 DEF Gate!Has

LEMMA OverflowIsState == \A w : CompiledOverflow(w) \in States
BY DEF CompiledOverflow, States

(* The lines in a crate's file are what it has been compiled with.         *)
LEMMA LinesAreCompiled ==
  ASSUME WInv, NEW crate \in Recorded
  PROVE  Range(marked[crate]) = {CompiledOverflow(w) : w \in Compiling(crate)}
<1>1. marked[crate] \in Seq(States)
  BY DEF WInv, MarksOK
<1>2. ASSUME NEW state \in States
      PROVE  state \in Range(marked[crate]) <=> \E w \in Compiling(crate) : CompiledOverflow(w) = state
  <2>1. Cardinality(LinesOf(marked[crate], state)) = Cardinality(CompilingWith(crate, state))
    BY DEF WInv, MarksOK
  <2>2. IsFiniteSet(LinesOf(marked[crate], state))
    BY <1>1, LineAppended
  <2>3. IsFiniteSet(CompilingWith(crate, state))
    BY CompilingFinite
  <2>4. LinesOf(marked[crate], state) = {} <=> CompilingWith(crate, state) = {}
    BY <2>1, <2>2, <2>3, FS_EmptySet
  <2> QED  BY <2>4 DEF LinesOf, CompilingWith, Range
<1>3. Range(marked[crate]) \subseteq States
  BY <1>1 DEF Range
<1> QED  BY <1>2, <1>3, OverflowIsState

(* Cargo's directories and lines are those of the step.                    *)
LEMMA LinesAppended ==
  ASSUME WInv
  PROVE  /\ Lines = UNION { {Append(Gate!MarkerFile(crate), state) :
                               state \in AllCompiled[crate]} : crate \in Gate!Crates }
         /\ Lines # {} => directory = "there"
<1>1. Gate!Crates = Recorded
  BY DEF Gate!Crates, Recorded
<1>2. ASSUME NEW crate \in Recorded, NEW state \in States
      PROVE  Append(Gate!MarkerFile(crate), state) = <<"marker", "temporary", crate, state>>
  <2>1. "marker" \in BuildNames /\ "temporary" \in BuildNames
        /\ crate \in BuildNames /\ state \in BuildNames
    BY DEF BuildNames
  <2> QED  BY <2>1, QuadrupleOf DEF Gate!MarkerFile
<1>3. ASSUME NEW crate \in Recorded
      PROVE  AllCompiled[crate] = Range(marked[crate]) /\ AllCompiled[crate] \subseteq States
  BY LinesAreCompiled, OverflowIsState DEF AllCompiled
<1>4. ASSUME NEW crate \in Recorded
      PROVE  {<<"marker", "temporary", crate, state>> : state \in Range(marked[crate])}
             = {Append(Gate!MarkerFile(crate), state) : state \in AllCompiled[crate]}
  BY <1>2, <1>3
<1>5. Lines = UNION { {Append(Gate!MarkerFile(crate), state) :
                         state \in AllCompiled[crate]} : crate \in Gate!Crates }
  BY <1>1, <1>4 DEF Lines
<1>6. ASSUME Lines # {} PROVE directory = "there"
  <2>1. PICK crate \in Recorded : Range(marked[crate]) # {}
    BY <1>6 DEF Lines
  <2>2. marked[crate] # <<>>
    BY <2>1 DEF Range
  <2> QED  BY <2>1, <2>2 DEF WInv, MarksOK
<1> QED  BY <1>5, <1>6

(* Nothing that the gate sees changes while cargo runs.                    *)
LEMMA WrapIsUnseen ==
  ASSUME directory' = directory, outcome = "running", outcome' = "running"
  PROVE  UNCHANGED Gate!vars
<1>1. Made' = Made
  BY DEF Made
<1> QED  BY <1>1 DEF Gate!vars, Gate!shell, Gate!made

LEMMA FinishIsBuild ==
  ASSUME WInv, Finish
  PROVE  Gate!Build
<1>1. /\ outcome = "running" /\ outcome' \in {"succeeded", "failed"}
      /\ options' = options /\ directory' = directory /\ stage' = stage /\ marked' = marked
  BY DEF Finish, guard_vars, inputs, locals
<1>2. Gate!At("build")
  BY <1>1 DEF Gate!At
<1>3. Made' = Made /\ Lines' = Lines /\ AllCompiled' = AllCompiled
  <2>1. \A crate : Compiling(crate)' = Compiling(crate)
    BY <1>1, SameCommandLines DEF Compiling
  <2> QED  BY <1>1, <2>1, SameCommandLines DEF Made, Lines, AllCompiled
<1>4. CASE outcome' = "failed"
  <2>1. Gate!Exit(1, Gate!Mine)
    BY <1>1, <1>4, MadeRemoved DEF Gate!Exit, Gate!RemoveAll
  <2> QED  BY <1>1, <1>2, <1>4, <2>1 DEF Gate!Build, Gate!made
<1>5. CASE outcome' = "succeeded"
  <2>1. /\ AllCompiled \in [Gate!Crates -> SUBSET {"on", "off", "absent"}]
    <3>1. Gate!Crates = Recorded
      BY DEF Gate!Crates, Recorded
    <3>2. \A crate \in Recorded :
            {CompiledOverflow(w) : w \in Compiling(crate)} \in SUBSET States
      BY OverflowIsState
    <3> QED  BY <3>1, <3>2 DEF AllCompiled, States
  <2>2. Gate!GoTo("crypto_bigint written")
    BY <1>1, <1>5 DEF Gate!GoTo
  <2>3. Gate!CargoDirectories \subseteq Made
    BY DEF Gate!CargoDirectories, Made
  <2>4. Made' \cup Lines' = (Made \cup Lines) \cup Gate!CargoDirectories
    BY <1>3, <2>3
  <2>5. Lines = {} \/ Gate!Has(<<"marker", "temporary">>)
    BY <1>1, LinesAppended, HasMarkers
  <2>6. CompiledSeen' = AllCompiled
    <3>1. AllCompiled' = CompiledSeen'
      BY <1>5 DEF AllCompiled, CompiledSeen
    <3> QED  BY <1>3, <3>1
  <2>7. DiskSeen' = Made \cup Lines /\ DiskSeen = Made
    BY <1>1, <1>3, <1>5 DEF DiskSeen
  <2> DEFINE lines == UNION { {Append(Gate!MarkerFile(crate), state) :
                                 state \in CompiledSeen'[crate]} : crate \in Gate!Crates }
  <2>8. lines = Lines
    BY <2>6, LinesAppended
  <2>9. /\ CompiledSeen' \in [Gate!Crates -> SUBSET {"on", "off", "absent"}]
        /\ lines = {} \/ Gate!Has(<<"marker", "temporary">>)
        /\ DiskSeen' = DiskSeen \cup lines \cup Gate!CargoDirectories
    <3>1. DiskSeen' = (DiskSeen \cup lines) \cup Gate!CargoDirectories
      BY <1>3, <2>4, <2>7, <2>8
    <3> HIDE DEF lines
    <3> QED  BY <2>1, <2>5, <2>6, <2>8, <3>1
  <2> QED  BY <1>2, <2>2, <2>9 DEF Gate!Build, Gate!made, CompiledSeen, DiskSeen
<1> QED  BY <1>1, <1>4, <1>5

(* The build that Downstream takes for one step is one: however the        *)
(* wrappers interleave, none of their steps is seen from the script, and   *)
(* when cargo ends it has failed, or has left for each crate the lines of  *)
(* exactly the compilations there were, in a directory that is there.      *)
THEOREM BuildIsOneStep == BuildSpec => ImplementsBuild
<1>1. WInv /\ [BuildNext]_<<guard_vars, outcome>> => [Gate!Build]_(Gate!vars)
  <2> SUFFICES ASSUME WInv, [BuildNext]_<<guard_vars, outcome>>
               PROVE  [Gate!Build]_(Gate!vars)
    OBVIOUS
  <2>1. CASE outcome = "running" /\ (\E w \in Wrappers : Wrap(w)) /\ outcome' = outcome
    <3>1. directory' = directory
      BY <2>1, WrapKeepsReaders DEF WInv
    <3> QED  BY <2>1, <3>1, WrapIsUnseen
  <2>2. CASE Finish
    BY <2>2, FinishIsBuild
  <2>3. CASE UNCHANGED <<guard_vars, outcome>>
    <3>1. /\ options' = options /\ directory' = directory /\ stage' = stage
          /\ marked' = marked /\ outcome' = outcome
      BY <2>3 DEF guard_vars, inputs, locals
    <3>2. \A crate : Compiling(crate)' = Compiling(crate)
      BY <3>1, SameCommandLines DEF Compiling
    <3>3. Made' = Made /\ Lines' = Lines
      BY <3>1 DEF Made, Lines
    <3>4. UNCHANGED Gate!vars
      BY <3>1, <3>2, <3>3, SameCommandLines DEF Gate!vars, Gate!shell, Gate!made
    <3> QED  BY <3>4
  <2> QED  BY <2>1, <2>2, <2>3 DEF BuildNext
<1> QED  BY <1>1, BuildInvariant, PTL DEF BuildSpec, ImplementsBuild

=============================================================================
