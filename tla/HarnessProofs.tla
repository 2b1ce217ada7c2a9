---------------------------- MODULE HarnessProofs ---------------------------
(***************************************************************************)
(* Lemmas about TaintHarness: what is defined and what is undefined at     *)
(* each statement of a call, and an inductive invariant of its steps.      *)
(***************************************************************************)
EXTENDS TaintHarness, FlowProofs

-----------------------------------------------------------------------------
(* Two annotations of the bodies.                                          *)

(* In the instrumented build n has no undefined bit when control is at     *)
(* statement i of f.                                                       *)
IsCleared(n, f, i) ==
  \/ n = "signature" \/ n = "verified"
  \/ n = "public_key" /\ (f # "derive" \/ i = 18)
  \/ n = "public_is_valid" /\ f = "derive" /\ i = 9
  \/ n = "point_is_valid"
       /\ ((f = "derive" /\ i = 12) \/ (f = "sign" /\ i = 10))
  \/ n = "inverse_is_present"
       /\ ((f = "derive" /\ i = 15) \/ (f = "sign" /\ i = 13))
  \/ n = "commitment_is_subgroup" /\ f = "sign" /\ i = 7
  \/ n = "encoded" /\ f = "sign" /\ (i = 26 \/ i = 27)
  \/ n = "serialized_commitment_is_subgroup" /\ f = "sign" /\ i = 30

(* When the seed is undefined, so is n there, in either build.             *)
IsUndefined(n, f, i) ==
  \/ n = "seed"
  \/ n = "expanded_hash" /\ f = "derive" /\ i > 1
  \/ n = "pruned_scalar" /\ f = "derive" /\ i > 2
  \/ n = "prefix" /\ (f # "derive" \/ i > 3)
  \/ n = "reduced_scalar" /\ (f # "derive" \/ i > 4)
  \/ n = "nonce_digest" /\ f = "sign" /\ i = 2
  \/ n = "nonce" /\ f = "sign" /\ i > 2
  \/ n = "secret_response_term" /\ f = "sign" /\ i > 19
  \/ n = "response" /\ f = "sign" /\ (i = 21 \/ i = 22)

(* Statement s at i of f makes the first annotation of i + 1 true if that  *)
(* of i is, and if it is a branch it branches on a defined value.          *)
Clears(s, f, i) ==
  /\ s.kind = "let" =>
       \A n : IsCleared(n, f, i + 1) =>
         /\ IsCleared(n, f, i)
         /\ n = s.name => \A m \in s.from : IsCleared(m, f, i)
  /\ s.kind = "declassify" =>
       \A n : IsCleared(n, f, i + 1) => IsCleared(n, f, i) \/ n = s.name
  /\ s.kind \in {"drop", "failpoint", "branch"} =>
       \A n : IsCleared(n, f, i + 1) => IsCleared(n, f, i)
  /\ s.kind = "branch" => IsCleared(s.name, f, i)

(* It makes the second annotation of i + 1 true if that of i is, and a     *)
(* named owner that it makes is undefined, as it is made from a value that *)
(* is, and it declassifies no named owner.                                 *)
Taints(s, f, i) ==
  /\ s.kind = "let" =>
       /\ \A n : IsUndefined(n, f, i + 1) => IsUndefined(n, f, i) \/ n = s.name
       /\ s.name \in NamedOwners \/ IsUndefined(s.name, f, i + 1) =>
            \E m \in s.from : IsUndefined(m, f, i)
  /\ s.kind \in {"declassify", "drop"} =>
       /\ \A n : IsUndefined(n, f, i + 1) => IsUndefined(n, f, i)
       /\ s.name \notin NamedOwners /\ ~IsUndefined(s.name, f, i + 1)
  /\ s.kind \in {"branch", "failpoint"} =>
       \A n : IsUndefined(n, f, i + 1) => IsUndefined(n, f, i)

-----------------------------------------------------------------------------
(* The annotations hold of the bodies.                                     *)

(* After statement i no more is cleared than before it.                    *)
NoneCleared(f, i) == \A n : IsCleared(n, f, i + 1) => IsCleared(n, f, i)

(* No more is, but for one value.                                          *)
NoMore(f, i, name) ==
  \A n : IsCleared(n, f, i + 1) => IsCleared(n, f, i) \/ n = name

(* What is cleared after it is made is made of cleared values.             *)
FromCleared(f, i, name, from) ==
  IsCleared(name, f, i + 1) => \A m \in from : IsCleared(m, f, i)

(* What makes the first annotation hold of a statement of each kind.       *)
LEMMA ClearingStatements ==
  ASSUME NEW f, NEW i, NoneCleared(f, i)
  PROVE  /\ \A name, from : FromCleared(f, i, name, from) =>
              Clears(Guarded(name, from), f, i)
                  /\ Clears(Plain(name, from), f, i)
         /\ \A name : Clears(Consumed(name), f, i)
         /\ \A point : Clears(Failpoint(point), f, i)
         /\ \A name : IsCleared(name, f, i) => Clears(Branch(name), f, i)
<1>1. \A name, from : FromCleared(f, i, name, from) =>
        Clears(Guarded(name, from), f, i) /\ Clears(Plain(name, from), f, i)
  BY DEF Clears, Guarded, Plain, FromCleared, NoneCleared
<1>2. \A name : Clears(Consumed(name), f, i)
  BY DEF Clears, Consumed, NoneCleared
<1>3. \A point : Clears(Failpoint(point), f, i)
  BY DEF Clears, Failpoint, NoneCleared
<1>4. \A name : IsCleared(name, f, i) => Clears(Branch(name), f, i)
  BY DEF Clears, Branch, NoneCleared
<1> QED  BY <1>1, <1>2, <1>3, <1>4

(* Only declassify clears more.                                            *)
LEMMA DeclassifyClears ==
  ASSUME NEW f, NEW i, NEW name, NoMore(f, i, name)
  PROVE  Clears(Declassified(name), f, i)
  BY DEF Clears, Declassified, NoMore

(* After statement i the second annotation says no more than before.       *)
NoneAdded(f, i) == \A n : IsUndefined(n, f, i + 1) => IsUndefined(n, f, i)

(* It says no more, but for one value.                                     *)
Adds(f, i, name) ==
  \A n : IsUndefined(n, f, i + 1) => IsUndefined(n, f, i) \/ n = name

(* What it says of a value that is made, it says of one the value is made  *)
(* of, and so for a value that is a named owner.                           *)
FromUndefined(f, i, name, from) ==
  name \in NamedOwners \/ IsUndefined(name, f, i + 1) =>
    \E m \in from : IsUndefined(m, f, i)

(* It says nothing of the value, which is no named owner.                  *)
Released(f, i, name) == name \notin NamedOwners /\ ~IsUndefined(name, f, i + 1)

(* What makes the second annotation hold of a value that is made.          *)
LEMMA LetTaints ==
  ASSUME NEW f, NEW i, NEW name, NEW from,
         Adds(f, i, name), FromUndefined(f, i, name, from)
  PROVE  Taints(Guarded(name, from), f, i) /\ Taints(Plain(name, from), f, i)
  BY DEF Taints, Guarded, Plain, Adds, FromUndefined

(* What makes it hold of a statement of each other kind.                   *)
LEMMA TaintingStatements ==
  ASSUME NEW f, NEW i, NoneAdded(f, i)
  PROVE  /\ \A name : Released(f, i, name) =>
              Taints(Consumed(name), f, i) /\ Taints(Declassified(name), f, i)
         /\ \A point : Taints(Failpoint(point), f, i)
         /\ \A name : Taints(Branch(name), f, i)
<1>1. \A name : Released(f, i, name) =>
        Taints(Consumed(name), f, i) /\ Taints(Declassified(name), f, i)
  BY DEF Taints, Consumed, Declassified, Released, NoneAdded
<1>2. \A point : Taints(Failpoint(point), f, i)
  BY DEF Taints, Failpoint, NoneAdded
<1>3. \A name : Taints(Branch(name), f, i)
  BY DEF Taints, Branch, NoneAdded
<1> QED  BY <1>1, <1>2, <1>3

(* The first annotation holds of derive.                                   *)
LEMMA DeriveClears ==
  \A i \in 1 .. 17 : Clears(DeriveBody[i], "derive", i)
<1>1. \A i \in {1, 2, 3, 4, 5, 6, 7, 9, 10, 12, 13, 15, 16} :
          NoneCleared("derive", i)
  BY DEF NoneCleared, IsCleared
<1>2. /\ NoMore("derive", 8, "public_is_valid")
      /\ NoMore("derive", 11, "point_is_valid")
      /\ NoMore("derive", 14, "inverse_is_present")
      /\ NoMore("derive", 17, "public_key")
  BY DEF NoMore, IsCleared
<1>3. /\ FromCleared("derive", 1, "expanded_hash", {"seed"})
      /\ FromCleared("derive", 2, "pruned_scalar", {"expanded_hash"})
      /\ FromCleared("derive", 3, "prefix", {"expanded_hash"})
      /\ FromCleared("derive", 4, "reduced_scalar", {"pruned_scalar"})
      /\ FromCleared("derive", 6, "public_point", {"pruned_scalar"})
      /\ FromCleared("derive", 7, "public_is_valid", {"public_point"})
      /\ FromCleared("derive", 10, "point_is_valid", {"public_point"})
      /\ FromCleared("derive", 13, "inverse_is_present", {"public_point"})
      /\ FromCleared("derive", 16, "public_key", {"public_point"})
  BY DEF FromCleared, IsCleared
<1>4. /\ IsCleared("public_is_valid", "derive", 9)
      /\ IsCleared("point_is_valid", "derive", 12)
      /\ IsCleared("inverse_is_present", "derive", 15)
  BY DEF IsCleared
<1>5. Clears(Guarded("expanded_hash", {"seed"}), "derive", 1)
  BY <1>1, <1>3, ClearingStatements
<1>6. Clears(Guarded("pruned_scalar", {"expanded_hash"}), "derive", 2)
  BY <1>1, <1>3, ClearingStatements
<1>7. Clears(Guarded("prefix", {"expanded_hash"}), "derive", 3)
  BY <1>1, <1>3, ClearingStatements
<1>8. Clears(Guarded("reduced_scalar", {"pruned_scalar"}), "derive", 4)
  BY <1>1, <1>3, ClearingStatements
<1>9. Clears(Failpoint("ExpandedSecret"), "derive", 5)
  BY <1>1, ClearingStatements
<1>10. Clears(Plain("public_point", {"pruned_scalar"}), "derive", 6)
  BY <1>1, <1>3, ClearingStatements
<1>11. Clears(Plain("public_is_valid", {"public_point"}), "derive", 7)
  BY <1>1, <1>3, ClearingStatements
<1>12. Clears(Declassified("public_is_valid"), "derive", 8)
  BY <1>2, DeclassifyClears
<1>13. Clears(Branch("public_is_valid"), "derive", 9)
  BY <1>1, <1>4, ClearingStatements
<1>14. Clears(Plain("point_is_valid", {"public_point"}), "derive", 10)
  BY <1>1, <1>3, ClearingStatements
<1>15. Clears(Declassified("point_is_valid"), "derive", 11)
  BY <1>2, DeclassifyClears
<1>16. Clears(Branch("point_is_valid"), "derive", 12)
  BY <1>1, <1>4, ClearingStatements
<1>17. Clears(Plain("inverse_is_present", {"public_point"}), "derive", 13)
  BY <1>1, <1>3, ClearingStatements
<1>18. Clears(Declassified("inverse_is_present"), "derive", 14)
  BY <1>2, DeclassifyClears
<1>19. Clears(Branch("inverse_is_present"), "derive", 15)
  BY <1>1, <1>4, ClearingStatements
<1>20. Clears(Plain("public_key", {"public_point"}), "derive", 16)
  BY <1>1, <1>3, ClearingStatements
<1>21. Clears(Declassified("public_key"), "derive", 17)
  BY <1>2, DeclassifyClears
<1> QED
  BY <1>5, <1>6, <1>7, <1>8, <1>9, <1>10, <1>11, <1>12, <1>13, <1>14, <1>15,
     <1>16, <1>17, <1>18, <1>19, <1>20, <1>21, DeriveTable

(* The first annotation holds of sign_expanded.                            *)
LEMMA SignClears ==
  \A i \in 1 .. 33 : Clears(SignExpandedBody[i], "sign", i)
<1>1. \A i \in {1, 2, 3, 4, 5, 7, 8, 10, 11, 13, 14, 16, 17, 18, 19, 20, 21,
          22, 23, 24, 26, 27, 28, 30, 31, 32, 33} : NoneCleared("sign", i)
  BY DEF NoneCleared, IsCleared
<1>2. /\ NoMore("sign", 6, "commitment_is_subgroup")
      /\ NoMore("sign", 9, "point_is_valid")
      /\ NoMore("sign", 12, "inverse_is_present")
      /\ NoMore("sign", 15, "commitment") /\ NoMore("sign", 25, "encoded")
      /\ NoMore("sign", 29, "serialized_commitment_is_subgroup")
  BY DEF NoMore, IsCleared
<1>3. /\ FromCleared("sign", 1, "nonce_digest", {"prefix"})
      /\ FromCleared("sign", 2, "nonce", {"nonce_digest"})
      /\ FromCleared("sign", 4, "commitment_point", {"nonce"})
      /\ FromCleared("sign", 5, "commitment_is_subgroup", {"commitment_point"})
      /\ FromCleared("sign", 8, "point_is_valid", {"commitment_point"})
      /\ FromCleared("sign", 11, "inverse_is_present", {"commitment_point"})
      /\ FromCleared("sign", 14, "commitment", {"commitment_point"})
      /\ FromCleared("sign", 16, "challenge_digest",
             {"commitment", "public_key"})
      /\ FromCleared("sign", 17, "challenge", {"challenge_digest"})
      /\ FromCleared("sign", 19, "secret_response_term",
             {"challenge", "reduced_scalar"})
      /\ FromCleared("sign", 20, "response", {"nonce", "secret_response_term"})
      /\ FromCleared("sign", 21, "encoded", {"commitment"})
      /\ FromCleared("sign", 22, "response_bytes", {"response"})
      /\ FromCleared("sign", 23, "encoded", {"response_bytes"})
      /\ FromCleared("sign", 27, "signature", {"encoded"})
      /\ FromCleared("sign", 28, "serialized_commitment_is_subgroup",
             {"signature"})
      /\ FromCleared("sign", 32, "verified", {"public_key", "signature"})
  BY DEF FromCleared, IsCleared
<1>4. /\ IsCleared("commitment_is_subgroup", "sign", 7)
      /\ IsCleared("point_is_valid", "sign", 10)
      /\ IsCleared("inverse_is_present", "sign", 13)
      /\ IsCleared("encoded", "sign", 26)
      /\ IsCleared("serialized_commitment_is_subgroup", "sign", 30)
      /\ IsCleared("public_key", "sign", 31)
      /\ IsCleared("verified", "sign", 33)
  BY DEF IsCleared
<1>5. Clears(Guarded("nonce_digest", {"prefix"}), "sign", 1)
  BY <1>1, <1>3, ClearingStatements
<1>6. Clears(Guarded("nonce", {"nonce_digest"}), "sign", 2)
  BY <1>1, <1>3, ClearingStatements
<1>7. Clears(Consumed("nonce_digest"), "sign", 3)
  BY <1>1, ClearingStatements
<1>8. Clears(Plain("commitment_point", {"nonce"}), "sign", 4)
  BY <1>1, <1>3, ClearingStatements
<1>9. Clears(Plain("commitment_is_subgroup", {"commitment_point"}), "sign", 5)
  BY <1>1, <1>3, ClearingStatements
<1>10. Clears(Declassified("commitment_is_subgroup"), "sign", 6)
  BY <1>2, DeclassifyClears
<1>11. Clears(Branch("commitment_is_subgroup"), "sign", 7)
  BY <1>1, <1>4, ClearingStatements
<1>12. Clears(Plain("point_is_valid", {"commitment_point"}), "sign", 8)
  BY <1>1, <1>3, ClearingStatements
<1>13. Clears(Declassified("point_is_valid"), "sign", 9)
  BY <1>2, DeclassifyClears
<1>14. Clears(Branch("point_is_valid"), "sign", 10)
  BY <1>1, <1>4, ClearingStatements
<1>15. Clears(Plain("inverse_is_present", {"commitment_point"}), "sign", 11)
  BY <1>1, <1>3, ClearingStatements
<1>16. Clears(Declassified("inverse_is_present"), "sign", 12)
  BY <1>2, DeclassifyClears
<1>17. Clears(Branch("inverse_is_present"), "sign", 13)
  BY <1>1, <1>4, ClearingStatements
<1>18. Clears(Plain("commitment", {"commitment_point"}), "sign", 14)
  BY <1>1, <1>3, ClearingStatements
<1>19. Clears(Declassified("commitment"), "sign", 15)
  BY <1>2, DeclassifyClears
<1>20. Clears(Guarded("challenge_digest", {"commitment", "public_key"}),
           "sign", 16)
  BY <1>1, <1>3, ClearingStatements
<1>21. Clears(Guarded("challenge", {"challenge_digest"}), "sign", 17)
  BY <1>1, <1>3, ClearingStatements
<1>22. Clears(Consumed("challenge_digest"), "sign", 18)
  BY <1>1, ClearingStatements
<1>23. Clears(Guarded("secret_response_term",
           {"challenge", "reduced_scalar"}), "sign", 19)
  BY <1>1, <1>3, ClearingStatements
<1>24. Clears(Guarded("response", {"nonce", "secret_response_term"}), "sign",
           20)
  BY <1>1, <1>3, ClearingStatements
<1>25. Clears(Guarded("encoded", {"commitment"}), "sign", 21)
  BY <1>1, <1>3, ClearingStatements
<1>26. Clears(Guarded("response_bytes", {"response"}), "sign", 22)
  BY <1>1, <1>3, ClearingStatements
<1>27. Clears(Plain("encoded", {"response_bytes"}), "sign", 23)
  BY <1>1, <1>3, ClearingStatements
<1>28. Clears(Failpoint("SignIntermediates"), "sign", 24)
  BY <1>1, ClearingStatements
<1>29. Clears(Declassified("encoded"), "sign", 25)
  BY <1>2, DeclassifyClears
<1>30. Clears(Branch("encoded"), "sign", 26)
  BY <1>1, <1>4, ClearingStatements
<1>31. Clears(Plain("signature", {"encoded"}), "sign", 27)
  BY <1>1, <1>3, ClearingStatements
<1>32. Clears(Plain("serialized_commitment_is_subgroup", {"signature"}),
           "sign", 28)
  BY <1>1, <1>3, ClearingStatements
<1>33. Clears(Declassified("serialized_commitment_is_subgroup"), "sign", 29)
  BY <1>2, DeclassifyClears
<1>34. Clears(Branch("serialized_commitment_is_subgroup"), "sign", 30)
  BY <1>1, <1>4, ClearingStatements
<1>35. Clears(Branch("public_key"), "sign", 31)
  BY <1>1, <1>4, ClearingStatements
<1>36. Clears(Plain("verified", {"public_key", "signature"}), "sign", 32)
  BY <1>1, <1>3, ClearingStatements
<1>37. Clears(Branch("verified"), "sign", 33)
  BY <1>1, <1>4, ClearingStatements
<1> QED
  BY <1>5, <1>6, <1>7, <1>8, <1>9, <1>10, <1>11, <1>12, <1>13, <1>14, <1>15,
     <1>16, <1>17, <1>18, <1>19, <1>20, <1>21, <1>22, <1>23, <1>24, <1>25,
     <1>26, <1>27, <1>28, <1>29, <1>30, <1>31, <1>32, <1>33, <1>34, <1>35,
     <1>36, <1>37, SignTable

(* The second annotation holds of derive.                                  *)
LEMMA DeriveTaints ==
  \A i \in 1 .. 17 : Taints(DeriveBody[i], "derive", i)
<1>1. \A i \in {5, 8, 9, 11, 12, 14, 15, 17} : NoneAdded("derive", i)
  BY DEF NoneAdded, IsUndefined
<1>2. /\ Adds("derive", 1, "expanded_hash")
      /\ Adds("derive", 2, "pruned_scalar") /\ Adds("derive", 3, "prefix")
      /\ Adds("derive", 4, "reduced_scalar")
      /\ Adds("derive", 6, "public_point")
      /\ Adds("derive", 7, "public_is_valid")
      /\ Adds("derive", 10, "point_is_valid")
      /\ Adds("derive", 13, "inverse_is_present")
      /\ Adds("derive", 16, "public_key")
  BY DEF Adds, IsUndefined
<1>3. /\ FromUndefined("derive", 1, "expanded_hash", {"seed"})
      /\ FromUndefined("derive", 2, "pruned_scalar", {"expanded_hash"})
      /\ FromUndefined("derive", 3, "prefix", {"expanded_hash"})
      /\ FromUndefined("derive", 4, "reduced_scalar", {"pruned_scalar"})
      /\ FromUndefined("derive", 6, "public_point", {"pruned_scalar"})
      /\ FromUndefined("derive", 7, "public_is_valid", {"public_point"})
      /\ FromUndefined("derive", 10, "point_is_valid", {"public_point"})
      /\ FromUndefined("derive", 13, "inverse_is_present", {"public_point"})
      /\ FromUndefined("derive", 16, "public_key", {"public_point"})
  BY DEF FromUndefined, IsUndefined, NamedOwners
<1>4. /\ Released("derive", 8, "public_is_valid")
      /\ Released("derive", 11, "point_is_valid")
      /\ Released("derive", 14, "inverse_is_present")
      /\ Released("derive", 17, "public_key")
  BY DEF Released, IsUndefined, NamedOwners
<1>5. Taints(Guarded("expanded_hash", {"seed"}), "derive", 1)
  BY <1>2, <1>3, LetTaints
<1>6. Taints(Guarded("pruned_scalar", {"expanded_hash"}), "derive", 2)
  BY <1>2, <1>3, LetTaints
<1>7. Taints(Guarded("prefix", {"expanded_hash"}), "derive", 3)
  BY <1>2, <1>3, LetTaints
<1>8. Taints(Guarded("reduced_scalar", {"pruned_scalar"}), "derive", 4)
  BY <1>2, <1>3, LetTaints
<1>9. Taints(Failpoint("ExpandedSecret"), "derive", 5)
  BY <1>1, TaintingStatements
<1>10. Taints(Plain("public_point", {"pruned_scalar"}), "derive", 6)
  BY <1>2, <1>3, LetTaints
<1>11. Taints(Plain("public_is_valid", {"public_point"}), "derive", 7)
  BY <1>2, <1>3, LetTaints
<1>12. Taints(Declassified("public_is_valid"), "derive", 8)
  BY <1>1, <1>4, TaintingStatements
<1>13. Taints(Branch("public_is_valid"), "derive", 9)
  BY <1>1, TaintingStatements
<1>14. Taints(Plain("point_is_valid", {"public_point"}), "derive", 10)
  BY <1>2, <1>3, LetTaints
<1>15. Taints(Declassified("point_is_valid"), "derive", 11)
  BY <1>1, <1>4, TaintingStatements
<1>16. Taints(Branch("point_is_valid"), "derive", 12)
  BY <1>1, TaintingStatements
<1>17. Taints(Plain("inverse_is_present", {"public_point"}), "derive", 13)
  BY <1>2, <1>3, LetTaints
<1>18. Taints(Declassified("inverse_is_present"), "derive", 14)
  BY <1>1, <1>4, TaintingStatements
<1>19. Taints(Branch("inverse_is_present"), "derive", 15)
  BY <1>1, TaintingStatements
<1>20. Taints(Plain("public_key", {"public_point"}), "derive", 16)
  BY <1>2, <1>3, LetTaints
<1>21. Taints(Declassified("public_key"), "derive", 17)
  BY <1>1, <1>4, TaintingStatements
<1> QED
  BY <1>5, <1>6, <1>7, <1>8, <1>9, <1>10, <1>11, <1>12, <1>13, <1>14, <1>15,
     <1>16, <1>17, <1>18, <1>19, <1>20, <1>21, DeriveTable

(* The second annotation holds of sign_expanded.                           *)
LEMMA SignTaints ==
  \A i \in 1 .. 33 : Taints(SignExpandedBody[i], "sign", i)
<1>1. \A i \in {3, 6, 7, 9, 10, 12, 13, 15, 18, 24, 25, 26, 29, 30, 31, 33} :
          NoneAdded("sign", i)
  BY DEF NoneAdded, IsUndefined
<1>2. /\ Adds("sign", 1, "nonce_digest") /\ Adds("sign", 2, "nonce")
      /\ Adds("sign", 4, "commitment_point")
      /\ Adds("sign", 5, "commitment_is_subgroup")
      /\ Adds("sign", 8, "point_is_valid")
      /\ Adds("sign", 11, "inverse_is_present")
      /\ Adds("sign", 14, "commitment")
      /\ Adds("sign", 16, "challenge_digest")
      /\ Adds("sign", 17, "challenge")
      /\ Adds("sign", 19, "secret_response_term")
      /\ Adds("sign", 20, "response") /\ Adds("sign", 21, "encoded")
      /\ Adds("sign", 22, "response_bytes") /\ Adds("sign", 23, "encoded")
      /\ Adds("sign", 27, "signature")
      /\ Adds("sign", 28, "serialized_commitment_is_subgroup")
      /\ Adds("sign", 32, "verified")
  BY DEF Adds, IsUndefined
<1>3. /\ FromUndefined("sign", 1, "nonce_digest", {"prefix"})
      /\ FromUndefined("sign", 2, "nonce", {"nonce_digest"})
      /\ FromUndefined("sign", 4, "commitment_point", {"nonce"})
      /\ FromUndefined("sign", 5, "commitment_is_subgroup",
             {"commitment_point"})
      /\ FromUndefined("sign", 8, "point_is_valid", {"commitment_point"})
      /\ FromUndefined("sign", 11, "inverse_is_present", {"commitment_point"})
      /\ FromUndefined("sign", 14, "commitment", {"commitment_point"})
      /\ FromUndefined("sign", 16, "challenge_digest",
             {"commitment", "public_key"})
      /\ FromUndefined("sign", 17, "challenge", {"challenge_digest"})
      /\ FromUndefined("sign", 19, "secret_response_term",
             {"challenge", "reduced_scalar"})
      /\ FromUndefined("sign", 20, "response",
             {"nonce", "secret_response_term"})
      /\ FromUndefined("sign", 21, "encoded", {"commitment"})
      /\ FromUndefined("sign", 22, "response_bytes", {"response"})
      /\ FromUndefined("sign", 23, "encoded", {"response_bytes"})
      /\ FromUndefined("sign", 27, "signature", {"encoded"})
      /\ FromUndefined("sign", 28, "serialized_commitment_is_subgroup",
             {"signature"})
      /\ FromUndefined("sign", 32, "verified", {"public_key", "signature"})
  BY DEF FromUndefined, IsUndefined, NamedOwners
<1>4. /\ Released("sign", 3, "nonce_digest")
      /\ Released("sign", 6, "commitment_is_subgroup")
      /\ Released("sign", 9, "point_is_valid")
      /\ Released("sign", 12, "inverse_is_present")
      /\ Released("sign", 15, "commitment")
      /\ Released("sign", 18, "challenge_digest")
      /\ Released("sign", 25, "encoded")
      /\ Released("sign", 29, "serialized_commitment_is_subgroup")
  BY DEF Released, IsUndefined, NamedOwners
<1>5. Taints(Guarded("nonce_digest", {"prefix"}), "sign", 1)
  BY <1>2, <1>3, LetTaints
<1>6. Taints(Guarded("nonce", {"nonce_digest"}), "sign", 2)
  BY <1>2, <1>3, LetTaints
<1>7. Taints(Consumed("nonce_digest"), "sign", 3)
  BY <1>1, <1>4, TaintingStatements
<1>8. Taints(Plain("commitment_point", {"nonce"}), "sign", 4)
  BY <1>2, <1>3, LetTaints
<1>9. Taints(Plain("commitment_is_subgroup", {"commitment_point"}), "sign", 5)
  BY <1>2, <1>3, LetTaints
<1>10. Taints(Declassified("commitment_is_subgroup"), "sign", 6)
  BY <1>1, <1>4, TaintingStatements
<1>11. Taints(Branch("commitment_is_subgroup"), "sign", 7)
  BY <1>1, TaintingStatements
<1>12. Taints(Plain("point_is_valid", {"commitment_point"}), "sign", 8)
  BY <1>2, <1>3, LetTaints
<1>13. Taints(Declassified("point_is_valid"), "sign", 9)
  BY <1>1, <1>4, TaintingStatements
<1>14. Taints(Branch("point_is_valid"), "sign", 10)
  BY <1>1, TaintingStatements
<1>15. Taints(Plain("inverse_is_present", {"commitment_point"}), "sign", 11)
  BY <1>2, <1>3, LetTaints
<1>16. Taints(Declassified("inverse_is_present"), "sign", 12)
  BY <1>1, <1>4, TaintingStatements
<1>17. Taints(Branch("inverse_is_present"), "sign", 13)
  BY <1>1, TaintingStatements
<1>18. Taints(Plain("commitment", {"commitment_point"}), "sign", 14)
  BY <1>2, <1>3, LetTaints
<1>19. Taints(Declassified("commitment"), "sign", 15)
  BY <1>1, <1>4, TaintingStatements
<1>20. Taints(Guarded("challenge_digest", {"commitment", "public_key"}),
           "sign", 16)
  BY <1>2, <1>3, LetTaints
<1>21. Taints(Guarded("challenge", {"challenge_digest"}), "sign", 17)
  BY <1>2, <1>3, LetTaints
<1>22. Taints(Consumed("challenge_digest"), "sign", 18)
  BY <1>1, <1>4, TaintingStatements
<1>23. Taints(Guarded("secret_response_term",
           {"challenge", "reduced_scalar"}), "sign", 19)
  BY <1>2, <1>3, LetTaints
<1>24. Taints(Guarded("response", {"nonce", "secret_response_term"}), "sign",
           20)
  BY <1>2, <1>3, LetTaints
<1>25. Taints(Guarded("encoded", {"commitment"}), "sign", 21)
  BY <1>2, <1>3, LetTaints
<1>26. Taints(Guarded("response_bytes", {"response"}), "sign", 22)
  BY <1>2, <1>3, LetTaints
<1>27. Taints(Plain("encoded", {"response_bytes"}), "sign", 23)
  BY <1>2, <1>3, LetTaints
<1>28. Taints(Failpoint("SignIntermediates"), "sign", 24)
  BY <1>1, TaintingStatements
<1>29. Taints(Declassified("encoded"), "sign", 25)
  BY <1>1, <1>4, TaintingStatements
<1>30. Taints(Branch("encoded"), "sign", 26)
  BY <1>1, TaintingStatements
<1>31. Taints(Plain("signature", {"encoded"}), "sign", 27)
  BY <1>2, <1>3, LetTaints
<1>32. Taints(Plain("serialized_commitment_is_subgroup", {"signature"}),
           "sign", 28)
  BY <1>2, <1>3, LetTaints
<1>33. Taints(Declassified("serialized_commitment_is_subgroup"), "sign", 29)
  BY <1>1, <1>4, TaintingStatements
<1>34. Taints(Branch("serialized_commitment_is_subgroup"), "sign", 30)
  BY <1>1, TaintingStatements
<1>35. Taints(Branch("public_key"), "sign", 31)
  BY <1>1, TaintingStatements
<1>36. Taints(Plain("verified", {"public_key", "signature"}), "sign", 32)
  BY <1>2, <1>3, LetTaints
<1>37. Taints(Branch("verified"), "sign", 33)
  BY <1>1, TaintingStatements
<1> QED
  BY <1>5, <1>6, <1>7, <1>8, <1>9, <1>10, <1>11, <1>12, <1>13, <1>14, <1>15,
     <1>16, <1>17, <1>18, <1>19, <1>20, <1>21, <1>22, <1>23, <1>24, <1>25,
     <1>26, <1>27, <1>28, <1>29, <1>30, <1>31, <1>32, <1>33, <1>34, <1>35,
     <1>36, <1>37, SignTable

(* Both hold of every statement of every body.                             *)
LEMMA BodiesAnnotated ==
  \A f \in Functions : \A i \in 1 .. Len(Body[f]) :
    Clears(Body[f][i], f, i) /\ Taints(Body[f][i], f, i)
<1>1. Clears(ExportBody[1], "verifying_key", 1)
  <2>1. NoneCleared("verifying_key", 1)
    BY DEF NoneCleared, IsCleared
  <2>2. IsCleared("public_key", "verifying_key", 1)
    BY DEF IsCleared
  <2> QED  BY <2>1, <2>2, ExportTable, ClearingStatements
<1>2. Taints(ExportBody[1], "verifying_key", 1)
  <2>1. NoneAdded("verifying_key", 1)
    BY DEF NoneAdded, IsUndefined
  <2> QED  BY <2>1, ExportTable, TaintingStatements
<1>3. /\ Body["derive"] = DeriveBody /\ Body["sign"] = SignExpandedBody
      /\ Body["verifying_key"] = ExportBody
  BY DEF Body
<1>4. /\ Len(DeriveBody) = 17 /\ Len(SignExpandedBody) = 33
      /\ Len(ExportBody) = 1
  BY DeriveTable, SignTable, ExportTable DEF Lists
<1>5. \A i \in 1 .. 1 : /\ Clears(ExportBody[i], "verifying_key", i)
                        /\ Taints(ExportBody[i], "verifying_key", i)
  BY <1>1, <1>2
<1> QED
  BY <1>3, <1>4, <1>5, DeriveClears, SignClears, DeriveTaints, SignTaints
     DEF Functions

-----------------------------------------------------------------------------
(* The inductive invariant.                                                *)

(* The instrumented build: a value the annotation clears is defined.       *)
ClearedOK ==
  function # "idle" => \A n \in tainted : ~IsCleared(n, function, at)

(* A seed that is undefined: so are the named owners, and the values the   *)
(* annotation says.                                                        *)
UndefinedOK ==
  /\ memory \cap NamedOwners \subseteq tainted
  /\ function # "idle" =>
       \A n : IsUndefined(n, function, at) => n \in tainted

(* Without the instrumentation the first check of derive is on an          *)
(* undefined value, and nothing that follows is without an error.          *)
MissedOK ==
  /\ function = "derive" /\ at = 7 => "public_point" \in tainted
  /\ function = "derive" /\ at \in {8, 9} => "public_is_valid" \in tainted
  /\ function = "derive" /\ at > 9 => memcheck_error
  /\ function \in {"sign", "verifying_key"} => memcheck_error

(* What Memcheck knows, for each build and each mode.                      *)
TaintOK ==
  /\ instrumented => ~memcheck_error /\ ClearedOK
  /\ mode = "tainted" => UndefinedOK
  /\ mode = "tainted" /\ ~instrumented => MissedOK

(* The stages of run after which it can only return, and those in which it *)
(* holds the output of the call.                                           *)
Ended == {"returning", "done", "idle"}
(* The stages in which run holds the output of the call.                   *)
Holding == {"require vbits", "make defined", "compare"}
(* All stages.                                                             *)
Stages ==
  {"start", "apply mode", "import", "enter", "call"} \cup Holding \cup Ended

(* What is known at each stage.                                            *)
StageOK ==
  /\ stage \in Stages
  /\ stage \notin Ended \cup {"start"} =>
       on_valgrind /\ mode \in Modes /\ case \in Cases
  /\ stage \notin Ended => verdict = "none"
  /\ stage # "done" => exit = -1
  /\ function # "idle" <=> stage = "call"
  /\ stage = "call" =>
       /\ operation = IF case = "sign" THEN "sign" ELSE "verifying_key"
       /\ function \in {"derive", operation}
  /\ stage \in {"start", "apply mode", "import", "enter"} => ~memcheck_error
  /\ stage \in {"start", "apply mode", "import"} => memory = {} /\ tainted = {}
  /\ stage = "enter" => tainted \subseteq {"seed"}
  /\ stage = "import" /\ mode = "tainted" => seed_undefined

(* The output that run holds.                                              *)
HoldingOK ==
  stage \in Holding =>
    /\ result = "ok"
    /\ instrumented => Output \notin tainted
    /\ mode = "tainted" /\ ~instrumented => memcheck_error

(* What a verdict of success, and an exit with 0, rest on.                 *)
VerdictOK ==
  /\ verdict = "ok" =>
       /\ on_valgrind /\ mode \in Modes /\ case \in Cases
       /\ result = "ok" /\ matched
       /\ memcheck_error \/ Output \notin tainted
       /\ mode = "tainted" /\ ~instrumented => memcheck_error
  /\ exit = 0 => verdict = "ok" /\ (error_exitcode => ~memcheck_error)

(* The inductive invariant of the program.                                 *)
HInv ==
  FlowInv /\ TaintOK /\ StageOK /\ HoldingOK /\ VerdictOK

-----------------------------------------------------------------------------
(* Steps of the call.                                                      *)

(* Where control is, and the statement there with its annotations.         *)
LEMMA AtStatement ==
  ASSUME FlowInv, NEW kind, Runs(kind)
  PROVE  /\ function \in Functions /\ at \in 1 .. Len(Body[function])
         /\ Statement = Body[function][at] /\ Statement.kind = kind
         /\ Clears(Statement, function, at) /\ Taints(Statement, function, at)
<1>1. function \in Functions
  BY DEF FlowInv, FlowTypeOK, Runs, Functions
<1>2. Len(Body[function]) \in Nat
  BY <1>1, BodyLengths
<1>3. at \in 1 .. Len(Body[function]) + 1 /\ at <= Len(Body[function])
  BY <1>1 DEF FlowInv, FlowTypeOK, Runs, Functions
<1>4. at \in 1 .. Len(Body[function])
  BY <1>2, <1>3
<1>5. Statement = Body[function][at] /\ Statement.kind = kind
  BY DEF Runs, Statement
<1> QED  BY <1>1, <1>4, <1>5, BodiesAnnotated

(* derive returns past its last statement, to the call that is under way.  *)
LEMMA DeriveReturnsAt ==
  ASSUME FlowInv, ReturnDerived
  PROVE  function = "derive" /\ at = 18
             /\ operation \in {"sign", "verifying_key"}
<1>1. function = "derive" /\ at > Len(DeriveBody)
  BY DEF ReturnDerived
<1>2. Len(DeriveBody) = 17 /\ Body["derive"] = DeriveBody
  BY DeriveTable DEF Lists, Body
<1>3. at \in 1 .. Len(Body[function]) + 1 /\ operation # "none"
  BY <1>1 DEF FlowInv, FlowTypeOK
<1>4. operation \in {"sign", "verifying_key"}
  BY <1>3 DEF FlowInv, OperationOK
<1>5. Len(Body[function]) = 17
  BY <1>1, <1>2
<1>6. at > 17
  BY <1>1, <1>2
<1>7. at \in 1 .. 18
  BY <1>3, <1>5
<1> QED  BY <1>1, <1>4, <1>6, <1>7

(* The first annotation holds after each step if it does before, and no    *)
(* branch is on an undefined value.                                        *)
LEMMA ClearedStep ==
  ASSUME FlowInv, instrumented, ~memcheck_error, ClearedOK, CallStep
  PROVE  instrumented' /\ ~memcheck_error' /\ ClearedOK'
<1>0. function # "idle"
  BY DEF CallStep, Let, Consume, Declassify, Check, HitFailpoint, Runs,
         ReturnDerived, ReturnFromCall
<1>1. CASE Let
  <2>1. Runs("let") /\ Advance /\ memcheck_error' = memcheck_error
    BY <1>1 DEF Let
  <2>2. Clears(Statement, function, at) /\ Statement.kind = "let"
    BY <2>1, AtStatement
  <2>3. \A n : IsCleared(n, function, at + 1) =>
          /\ IsCleared(n, function, at)
          /\ n = Statement.name
                 => \A m \in Statement.from : IsCleared(m, function, at)
    BY <2>2 DEF Clears
  <2>4. /\ instrumented' = instrumented /\ function' = function
        /\ at' = at + 1
    BY <2>1 DEF Advance
  <2>5. \A n \in tainted : ~IsCleared(n, function, at)
    BY <1>0 DEF ClearedOK
  <2>6. \A n \in tainted' : ~IsCleared(n, function, at + 1)
    <3>1. CASE Statement.from \cap tainted # {}
      <4>1. PICK m : m \in Statement.from /\ m \in tainted
        BY <3>1
      <4>2. tainted' = tainted \cup {Statement.name}
        BY <1>1, <3>1 DEF Let
      <4> QED  BY <2>3, <2>5, <4>1, <4>2
    <3>2. CASE Statement.from \cap tainted = {}
      <4>1. tainted' = tainted
        BY <1>1, <3>2 DEF Let
      <4> QED  BY <2>3, <2>5, <4>1
    <3> QED  BY <3>1, <3>2
  <2> QED  BY <2>1, <2>4, <2>6 DEF ClearedOK
<1>2. CASE Consume
  <2>1. /\ Runs("drop") /\ Advance /\ memcheck_error' = memcheck_error
        /\ tainted' = tainted \ {Statement.name}
    BY <1>2 DEF Consume, Wipe
  <2>2. Clears(Statement, function, at) /\ Statement.kind = "drop"
    BY <2>1, AtStatement
  <2>3. \A n : IsCleared(n, function, at + 1) => IsCleared(n, function, at)
    BY <2>2 DEF Clears
  <2>4. /\ instrumented' = instrumented /\ function' = function
        /\ at' = at + 1
    BY <2>1 DEF Advance
  <2>5. \A n \in tainted : ~IsCleared(n, function, at)
    BY <1>0 DEF ClearedOK
  <2>6. \A n \in tainted' : ~IsCleared(n, function, at + 1)
    BY <2>1, <2>3, <2>5
  <2> QED  BY <2>1, <2>4, <2>6 DEF ClearedOK
<1>3. CASE Declassify
  <2>1. /\ Runs("declassify") /\ Advance /\ memcheck_error' = memcheck_error
        /\ tainted' = tainted \ {Statement.name}
    BY <1>3 DEF Declassify
  <2>2. Clears(Statement, function, at) /\ Statement.kind = "declassify"
    BY <2>1, AtStatement
  <2>3. \A n : IsCleared(n, function, at + 1) =>
          IsCleared(n, function, at) \/ n = Statement.name
    BY <2>2 DEF Clears
  <2>4. /\ instrumented' = instrumented /\ function' = function
        /\ at' = at + 1
    BY <2>1 DEF Advance
  <2>5. \A n \in tainted : ~IsCleared(n, function, at)
    BY <1>0 DEF ClearedOK
  <2>6. \A n \in tainted' : ~IsCleared(n, function, at + 1)
    BY <2>1, <2>3, <2>5
  <2> QED  BY <2>1, <2>4, <2>6 DEF ClearedOK
<1>4. CASE Check
  <2>1. /\ Runs("branch")
        /\ memcheck_error' = (memcheck_error \/ Statement.name \in tainted)
    BY <1>4 DEF Check
  <2>2. Clears(Statement, function, at) /\ Statement.kind = "branch"
    BY <2>1, AtStatement
  <2>3. /\ \A n : IsCleared(n, function, at + 1) => IsCleared(n, function, at)
        /\ IsCleared(Statement.name, function, at)
    BY <2>2 DEF Clears
  <2>4. \A n \in tainted : ~IsCleared(n, function, at)
    BY <1>0 DEF ClearedOK
  <2>5. ~memcheck_error'
    BY <2>1, <2>3, <2>4
  <2>6. CASE Advance /\ tainted' = tainted
    <3>1. /\ instrumented' = instrumented /\ function' = function
          /\ at' = at + 1
      BY <2>6 DEF Advance
    <3>2. \A n \in tainted' : ~IsCleared(n, function, at + 1)
      BY <2>3, <2>4, <2>6
    <3> QED  BY <2>5, <3>1, <3>2 DEF ClearedOK
  <2>7. CASE EndCall("InternalFailure") /\ instrumented' = instrumented
    BY <2>5, <2>7 DEF EndCall, ClearedOK
  <2> QED  BY <1>4, <2>6, <2>7 DEF Check
<1>5. CASE HitFailpoint
  <2>1. Runs("failpoint") /\ memcheck_error' = memcheck_error
    BY <1>5 DEF HitFailpoint
  <2>2. Clears(Statement, function, at) /\ Statement.kind = "failpoint"
    BY <2>1, AtStatement
  <2>3. \A n : IsCleared(n, function, at + 1) => IsCleared(n, function, at)
    BY <2>2 DEF Clears
  <2>4. \A n \in tainted : ~IsCleared(n, function, at)
    BY <1>0 DEF ClearedOK
  <2>6. CASE Advance /\ tainted' = tainted
    <3>1. /\ instrumented' = instrumented /\ function' = function
          /\ at' = at + 1
      BY <2>6 DEF Advance
    <3>2. \A n \in tainted' : ~IsCleared(n, function, at + 1)
      BY <2>3, <2>4, <2>6
    <3> QED  BY <2>1, <3>1, <3>2 DEF ClearedOK
  <2>7. CASE EndCall("panicked") /\ instrumented' = instrumented
    BY <2>1, <2>7 DEF EndCall, ClearedOK
  <2> QED  BY <1>5, <2>6, <2>7 DEF HitFailpoint
<1>6. CASE ReturnDerived
  <2>1. function = "derive" /\ at = 18
            /\ operation \in {"sign", "verifying_key"}
    BY <1>6, DeriveReturnsAt
  <2>2. /\ function' = operation /\ at' = 1 /\ instrumented' = instrumented
        /\ memcheck_error' = memcheck_error /\ tainted' \subseteq tainted
    BY <1>6 DEF ReturnDerived, Wipe
  <2>4. \A n \in tainted : ~IsCleared(n, "derive", 18)
    BY <1>0, <2>1 DEF ClearedOK
  <2>5. \A n : IsCleared(n, operation, 1) => IsCleared(n, "derive", 18)
    BY <2>1 DEF IsCleared
  <2>6. \A n \in tainted' : ~IsCleared(n, operation, 1)
    BY <2>2, <2>4, <2>5
  <2> QED  BY <2>2, <2>6 DEF ClearedOK
<1>7. CASE ReturnFromCall
  BY <1>7 DEF ReturnFromCall, EndCall, ClearedOK
<1> QED
  BY <1>1, <1>2, <1>3, <1>4, <1>5, <1>6, <1>7 DEF CallStep

(* A call that returns a value has gone through its body.                  *)
LEMMA OkIsReturn ==
  ASSUME FlowInv, CallStep, result' = "ok"
  PROVE  ReturnFromCall
<1>1. function # "idle" => result = "none"
  BY DEF FlowInv, ResultOK
<1>2. ASSUME Advance PROVE result' = result
  BY <1>2 DEF Advance
<1>3. \A outcome : EndCall(outcome) => result' = outcome
  BY DEF EndCall
<1>4. ~(Let \/ Consume \/ Declassify)
  BY <1>1, <1>2 DEF Let, Consume, Declassify, Runs
<1>5. ~Check
  BY <1>1, <1>2, <1>3 DEF Check, Runs
<1>6. ~HitFailpoint
  BY <1>1, <1>2, <1>3 DEF HitFailpoint, Runs
<1>7. ~ReturnDerived
  BY <1>1 DEF ReturnDerived
<1> QED  BY <1>4, <1>5, <1>6, <1>7 DEF CallStep

(* What the caller is given when the call returns a value.                 *)
LEMMA OutputsCleared ==
  ASSUME FlowInv, ClearedOK, CallStep, result' = "ok"
  PROVE  "signature" \notin tainted' /\ "public_key" \notin tainted'
<1>1. /\ function \in {"sign", "verifying_key"}
      /\ tainted' \subseteq tainted
  BY OkIsReturn DEF ReturnFromCall, EndCall, Wipe
<1>2. /\ IsCleared("signature", function, at)
      /\ IsCleared("public_key", function, at)
  BY <1>1 DEF IsCleared
<1>3. "signature" \notin tainted /\ "public_key" \notin tainted
  BY <1>1, <1>2 DEF ClearedOK
<1> QED  BY <1>1, <1>3

(* Ending a call forgets what it wipes, in memory and shadow alike.        *)
LEMMA EndCallUndefined ==
  ASSUME UndefinedOK, NEW outcome, EndCall(outcome)
  PROVE  UndefinedOK'
<1>1. \E names : memory' = memory \ names /\ tainted' = tainted \ names
  BY DEF EndCall, Wipe
<1>2. function' = "idle"
  BY DEF EndCall
<1> QED  BY <1>1, <1>2 DEF UndefinedOK

(* Control goes on to the next statement, past one that releases no value  *)
(* the annotation names there.                                             *)
LEMMA AdvanceUndefined ==
  ASSUME UndefinedOK, function # "idle", Advance,
         \A n : IsUndefined(n, function, at + 1) =>
           IsUndefined(n, function, at) \/ n \in tainted',
         \A n : n \in tainted' \/ n \notin tainted
           \/ (n \notin NamedOwners /\ ~IsUndefined(n, function, at + 1)),
         memory' \cap NamedOwners \subseteq memory \cup tainted'
  PROVE  UndefinedOK'
<1>1. function' = function /\ at' = at + 1
  BY DEF Advance
<1>2. \A n : IsUndefined(n, function, at) => n \in tainted
  BY DEF UndefinedOK
<1>3. \A n : IsUndefined(n, function, at + 1) => n \in tainted'
  BY <1>2
<1>4. memory' \cap NamedOwners \subseteq tainted'
  BY DEF UndefinedOK
<1> QED  BY <1>1, <1>3, <1>4 DEF UndefinedOK

(* A value that is made is undefined if the annotation or its name says    *)
(* that it must be.                                                        *)
LEMMA LetUndefined ==
  ASSUME FlowInv, UndefinedOK, Let
  PROVE  UndefinedOK'
<1>1. Runs("let") /\ Advance /\ function # "idle"
  BY DEF Let, Runs
<1>2. Taints(Statement, function, at) /\ Statement.kind = "let"
  BY <1>1, AtStatement
<1> DEFINE s == Statement
<1>3. /\ \A n : IsUndefined(n, function, at + 1) =>
           IsUndefined(n, function, at) \/ n = s.name
      /\ s.name \in NamedOwners \/ IsUndefined(s.name, function, at + 1) =>
           \E m \in s.from : IsUndefined(m, function, at)
  BY <1>2 DEF Taints
<1>4. /\ memory' = memory \cup {s.name}
      /\ tainted' = IF s.from \cap tainted # {}
                    THEN tainted \cup {s.name} ELSE tainted
  BY DEF Let
<1> HIDE DEF s
<1>5. \A n : IsUndefined(n, function, at) => n \in tainted
  BY <1>1 DEF UndefinedOK
<1>6. tainted \subseteq tainted'
  BY <1>4
<1>7. s.name \in NamedOwners \/ IsUndefined(s.name, function, at + 1) =>
        s.name \in tainted'
  <2> SUFFICES ASSUME s.name \in NamedOwners
                          \/ IsUndefined(s.name, function, at + 1)
               PROVE  s.name \in tainted'
    OBVIOUS
  <2>1. PICK m : m \in s.from /\ IsUndefined(m, function, at)
    BY <1>3
  <2>2. s.from \cap tainted # {}
    BY <2>1, <1>5
  <2> QED  BY <2>2, <1>4
<1>8. \A n : IsUndefined(n, function, at + 1) =>
        IsUndefined(n, function, at) \/ n \in tainted'
  BY <1>3, <1>7
<1>9. memory' \cap NamedOwners \subseteq memory \cup tainted'
  BY <1>4, <1>7
<1> QED  BY <1>1, <1>6, <1>8, <1>9, AdvanceUndefined

(* The second annotation holds after each step if it does before.          *)
LEMMA UndefinedStep ==
  ASSUME FlowInv, UndefinedOK, CallStep
  PROVE  UndefinedOK'
<1>1. CASE Let
  BY <1>1, LetUndefined
<1>2. CASE Consume \/ Declassify
  <2>1. Advance /\ function # "idle"
    BY <1>2 DEF Consume, Declassify, Runs
  <2>2. PICK kind \in {"drop", "declassify"} : Runs(kind)
    BY <1>2 DEF Consume, Declassify
  <2>3. Taints(Statement, function, at) /\ Statement.kind = kind
    BY <2>2, AtStatement
  <2>4. /\ \A n : IsUndefined(n, function, at + 1)
               => IsUndefined(n, function, at)
        /\ Statement.name \notin NamedOwners
        /\ ~IsUndefined(Statement.name, function, at + 1)
    BY <2>3 DEF Taints
  <2>5. /\ \A n : n \in tainted' \/ n \notin tainted \/ n = Statement.name
        /\ memory' \subseteq memory
    BY <1>2 DEF Consume, Declassify, Wipe
  <2>6. \A n : n \in tainted' \/ n \notin tainted
          \/ (n \notin NamedOwners /\ ~IsUndefined(n, function, at + 1))
    BY <2>4, <2>5
  <2> QED  BY <2>1, <2>4, <2>5, <2>6, AdvanceUndefined
<1>3. CASE (Check \/ HitFailpoint) /\ Advance /\ memory' = memory
               /\ tainted' = tainted
  <2>1. PICK kind \in {"branch", "failpoint"} : Runs(kind)
    BY <1>3 DEF Check, HitFailpoint
  <2>2. Taints(Statement, function, at) /\ Statement.kind = kind
    BY <2>1, AtStatement
  <2>3. \A n : IsUndefined(n, function, at + 1) => IsUndefined(n, function, at)
    BY <2>2 DEF Taints
  <2>4. function # "idle"
    BY <2>1 DEF Runs
  <2> QED  BY <1>3, <2>3, <2>4, AdvanceUndefined
<1>4. CASE EndCall("InternalFailure") \/ EndCall("panicked")
  BY <1>4, EndCallUndefined
<1>5. CASE ReturnDerived
  <2>1. function = "derive" /\ at = 18
            /\ operation \in {"sign", "verifying_key"}
    BY <1>5, DeriveReturnsAt
  <2>2. /\ function' = operation /\ at' = 1
        /\ memory' = memory \ (owned["function"] \ {"reduced_scalar",
               "prefix"})
        /\ tainted' = tainted \ (owned["function"] \ {"reduced_scalar",
               "prefix"})
    BY <1>5 DEF ReturnDerived, Wipe
  <2>3. "seed" \notin owned["function"]
    BY DEF FlowInv, FramesOK
  <2>4. \A n : IsUndefined(n, "derive", 18) => n \in tainted
    BY <2>1 DEF UndefinedOK
  <2>5. \A n : IsUndefined(n, operation, 1) =>
          IsUndefined(n, "derive", 18)
              /\ n \in {"seed", "reduced_scalar", "prefix"}
    BY <2>1 DEF IsUndefined
  <2>6. \A n : IsUndefined(n, operation, 1) => n \in tainted'
    BY <2>2, <2>3, <2>4, <2>5
  <2>7. memory' \cap NamedOwners \subseteq tainted'
    BY <2>2 DEF UndefinedOK
  <2> QED  BY <2>2, <2>6, <2>7 DEF UndefinedOK
<1>6. CASE ReturnFromCall
  BY <1>6, EndCallUndefined DEF ReturnFromCall
<1> QED
  BY <1>1, <1>2, <1>3, <1>4, <1>5, <1>6 DEF CallStep, Check, HitFailpoint

(* Where a step of a call leads.                                           *)
LEMMA CallMoves ==
  ASSUME FlowInv, CallStep
  PROVE  /\ instrumented' = instrumented /\ (memcheck_error => memcheck_error')
         /\ function # "idle"
         /\ \/ Advance
            \/ function' = "idle"
            \/ /\ function = "derive" /\ at = 18 /\ function' = operation
               /\ operation \in {"sign", "verifying_key"}
                      /\ operation' = operation
               /\ result' = result
<1>1. CASE Let \/ Consume \/ Declassify
  BY <1>1 DEF Let, Consume, Declassify, Advance, Runs
<1>2. CASE Check
  BY <1>2 DEF Check, Advance, EndCall, Runs
<1>3. CASE HitFailpoint
  BY <1>3 DEF HitFailpoint, Advance, EndCall, Runs
<1>4. CASE ReturnDerived
  BY <1>4, DeriveReturnsAt DEF ReturnDerived
<1>5. CASE ReturnFromCall
  BY <1>5 DEF ReturnFromCall, EndCall
<1> QED  BY <1>1, <1>2, <1>3, <1>4, <1>5 DEF CallStep

(* What can happen at a statement of derive, by its kind.                  *)
LEMMA DeriveStep ==
  ASSUME CallStep, function = "derive", at \in 1 .. 17
  PROVE  LET s == DeriveBody[at]
         IN  /\ s.kind = "let" => Let /\ Statement = s
             /\ s.kind = "declassify" => Declassify /\ Statement = s
             /\ s.kind = "branch" => Check /\ Statement = s
<1>1. Statement = DeriveBody[at]
  BY DEF Statement, Body
<1>2. \A kind : Runs(kind) => Statement.kind = kind
  BY DEF Runs
<1>3. ~ReturnDerived
  <2>1. Len(DeriveBody) = 17
    BY DeriveTable DEF Lists
  <2> QED  BY <2>1 DEF ReturnDerived
<1>4. ~ReturnFromCall
  BY DEF ReturnFromCall
<1>5. CASE Let
  <2>1. Statement.kind = "let"
    BY <1>2, <1>5 DEF Let
  <2> QED  BY <1>1, <1>5, <2>1
<1>6. CASE Consume
  <2>1. Statement.kind = "drop"
    BY <1>2, <1>6 DEF Consume
  <2> QED  BY <1>1, <2>1
<1>7. CASE Declassify
  <2>1. Statement.kind = "declassify"
    BY <1>2, <1>7 DEF Declassify
  <2> QED  BY <1>1, <1>7, <2>1
<1>8. CASE Check
  <2>1. Statement.kind = "branch"
    BY <1>2, <1>8 DEF Check
  <2> QED  BY <1>1, <1>8, <2>1
<1>9. CASE HitFailpoint
  <2>1. Statement.kind = "failpoint"
    BY <1>2, <1>9 DEF HitFailpoint
  <2> QED  BY <1>1, <2>1
<1> QED  BY <1>3, <1>4, <1>5, <1>6, <1>7, <1>8, <1>9 DEF CallStep

(* Without the instrumentation, from an undefined seed, no call gets past  *)
(* the first check of derive without an error.                             *)
LEMMA MissedStep ==
  ASSUME FlowInv, UndefinedOK, MissedOK, ~instrumented, CallStep
  PROVE  MissedOK' /\ (result' = "ok" => memcheck_error')
<1>1. /\ instrumented' = instrumented /\ (memcheck_error => memcheck_error')
      /\ function # "idle"
      /\ \/ Advance
         \/ function' = "idle"
         \/ /\ function = "derive" /\ at = 18 /\ function' = operation
            /\ operation \in {"sign", "verifying_key"}
  BY CallMoves
<1>2. result' = "ok" => memcheck_error'
  <2>1. result' = "ok" => function \in {"sign", "verifying_key"}
    BY OkIsReturn DEF ReturnFromCall
  <2> QED  BY <1>1, <2>1 DEF MissedOK
<1>3. MissedOK'
  <2>1. CASE function' = "idle"
    BY <2>1 DEF MissedOK
  <2>2. CASE function = "derive" /\ at = 18 /\ function' = operation
               /\ operation \in {"sign", "verifying_key"}
    BY <1>1, <2>2 DEF MissedOK
  <2>3. CASE Advance
    <3>1. function' = function /\ at' = at + 1
      BY <2>3 DEF Advance
    <3>2. CASE function # "derive"
      BY <1>1, <3>1, <3>2 DEF MissedOK, FlowInv, FlowTypeOK
    <3>3. CASE function = "derive"
      <4>1. at \in Int /\ at \in 1 .. 18
        <5>1. Len(Body[function]) = 17
          BY <3>3, DeriveTable DEF Lists, Body
        <5>2. at \in 1 .. Len(Body[function]) + 1
          BY <1>1 DEF FlowInv, FlowTypeOK
        <5>3. at \in 1 .. 18
          BY <5>1, <5>2
        <5> QED  BY <5>3
      <4>2. CASE at < 6
        BY <3>1, <3>3, <4>1, <4>2 DEF MissedOK
      <4>3. CASE at = 6
        <5>1. DeriveBody[6].kind = "let"
                  /\ DeriveBody[6].from = {"pruned_scalar"}
              /\ DeriveBody[6].name = "public_point"
          BY DeriveTable DEF Plain
        <5>2. Let /\ Statement = DeriveBody[6]
          BY <3>3, <4>3, <5>1, DeriveStep
        <5>3. "pruned_scalar" \in tainted
          BY <3>3, <4>3 DEF UndefinedOK, IsUndefined
        <5>4. {"pruned_scalar"} \cap tainted # {}
          BY <5>3
        <5>5. "public_point" \in tainted'
          BY <5>1, <5>2, <5>4 DEF Let
        <5> QED  BY <3>1, <3>3, <4>3, <5>5 DEF MissedOK
      <4>4. CASE at = 7
        <5>1. DeriveBody[7].kind = "let"
                  /\ DeriveBody[7].from = {"public_point"}
              /\ DeriveBody[7].name = "public_is_valid"
          BY DeriveTable DEF Plain
        <5>2. Let /\ Statement = DeriveBody[7]
          BY <3>3, <4>4, <5>1, DeriveStep
        <5>3. "public_point" \in tainted
          BY <3>3, <4>4 DEF MissedOK
        <5>4. {"public_point"} \cap tainted # {}
          BY <5>3
        <5>5. "public_is_valid" \in tainted'
          BY <5>1, <5>2, <5>4 DEF Let
        <5> QED  BY <3>1, <3>3, <4>4, <5>5 DEF MissedOK
      <4>5. CASE at = 8
        <5>1. DeriveBody[8].kind = "declassify"
          BY DeriveTable DEF Declassified
        <5>2. Declassify
          BY <3>3, <4>5, <5>1, DeriveStep
        <5>3. "public_is_valid" \in tainted'
          BY <3>3, <4>5, <5>2 DEF MissedOK, Declassify
        <5> QED  BY <3>1, <3>3, <4>5, <5>3 DEF MissedOK
      <4>6. CASE at = 9
        <5>1. DeriveBody[9].kind = "branch"
                  /\ DeriveBody[9].name = "public_is_valid"
          BY DeriveTable DEF Branch
        <5>2. Check /\ Statement = DeriveBody[9]
          BY <3>3, <4>6, <5>1, DeriveStep
        <5>3. "public_is_valid" \in tainted
          BY <3>3, <4>6 DEF MissedOK
        <5>4. memcheck_error'
          BY <5>1, <5>2, <5>3 DEF Check
        <5> QED  BY <3>1, <3>3, <4>6, <5>4 DEF MissedOK
      <4>7. CASE at > 9
        BY <1>1, <3>1, <3>3, <4>1, <4>7 DEF MissedOK
      <4> QED  BY <4>1, <4>2, <4>3, <4>4, <4>5, <4>6, <4>7
    <3> QED  BY <3>2, <3>3
  <2> QED  BY <1>1, <2>1, <2>2, <2>3
<1> QED  BY <1>2, <1>3

-----------------------------------------------------------------------------
(* Steps of run.                                                           *)

(* The process of the crate does nothing.                                  *)
LEMMA FlowRests ==
  ASSUME FlowInv, TaintOK, UNCHANGED <<flow, mode>>
  PROVE  FlowInv' /\ TaintOK'
<1>1. /\ instrumented' = instrumented /\ failpoint' = failpoint
      /\ operation' = operation /\ function' = function /\ at' = at
      /\ memory' = memory /\ owned' = owned /\ tainted' = tainted
      /\ memcheck_error' = memcheck_error /\ result' = result /\ mode' = mode
  BY DEF flow
<1>2. FlowInv'
  BY <1>1 DEF FlowInv, FlowTypeOK, OperationOK, OwnersAreFramed, FramesOK,
              DeriveOK, ResultOK
<1>3. TaintOK'
  BY <1>1 DEF TaintOK, ClearedOK, UndefinedOK, MissedOK
<1> QED  BY <1>2, <1>3

(* A process begins with nothing in memory.                                *)
LEMMA ProcessBegins ==
  ASSUME NEW build, NewProcess(build)
  PROVE  FlowInv' /\ TaintOK'
<1>1. /\ owned' = [frame \in Frames |-> {}] /\ memory' = {} /\ tainted' = {}
      /\ function' = "idle" /\ operation' = "none" /\ result' = "none"
      /\ memcheck_error' = FALSE
  BY DEF NewProcess
<1>2. DOMAIN owned' = Frames /\ \A frame \in Frames : owned'[frame] = {}
  BY <1>1
<1>3. "key" \in Frames /\ "call" \in Frames /\ "function" \in Frames
  BY DEF Frames
<1>4. FlowInv'
  BY <1>1, <1>2, <1>3
     DEF FlowInv, FlowTypeOK, OperationOK, OwnersAreFramed, FramesOK, DeriveOK,
         ResultOK
<1>5. TaintOK'
  BY <1>1 DEF TaintOK, ClearedOK, UndefinedOK, MissedOK
<1> QED  BY <1>4, <1>5

(* Nothing has been concluded yet.                                         *)
LEMMA NoVerdict ==
  ASSUME verdict' # "ok", exit' = -1
  PROVE  VerdictOK'
<1>1. exit' # 0
  BY SMT
<1> QED  BY <1>1, Zenon DEF VerdictOK

(* It holds before the program is started.                                 *)
LEMMA InitHarness == Init => HInv
<1> SUFFICES ASSUME Init PROVE HInv
  OBVIOUS
<1>1. /\ FlowInit /\ stage = "idle" /\ verdict = "none" /\ exit = -1
  BY DEF Init
<1>2. /\ memory = {} /\ tainted = {} /\ function = "idle"
      /\ memcheck_error = FALSE
  BY <1>1 DEF FlowInit
<1>3. FlowInv
  BY <1>1, InitFlow
<1>4. TaintOK
  BY <1>2 DEF TaintOK, ClearedOK, UndefinedOK, MissedOK
<1>5. StageOK /\ HoldingOK /\ VerdictOK
  BY <1>1, <1>2 DEF StageOK, Stages, Ended, Holding, HoldingOK, VerdictOK
<1> QED  BY <1>3, <1>4, <1>5 DEF HInv

(* It holds when the program starts, with any build and any arguments.     *)
LEMMA LaunchKeeps ==
  ASSUME NEW build, NEW valgrind, NEW exitcode, NEW c, NEW m, NEW set,
         Launch(build, valgrind, exitcode, c, m, set)
  PROVE  HInv'
<1>1. /\ NewProcess(build) /\ stage' = "start" /\ verdict' = "none"
      /\ exit' = -1
  BY DEF Launch
<1>2. /\ memory' = {} /\ tainted' = {} /\ function' = "idle"
      /\ memcheck_error' = FALSE
  BY <1>1 DEF NewProcess
<1>3. FlowInv' /\ TaintOK'
  BY <1>1, ProcessBegins
<1>4. StageOK' /\ HoldingOK' /\ VerdictOK'
  BY <1>1, <1>2 DEF StageOK, Stages, Ended, Holding, HoldingOK, VerdictOK
<1> QED  BY <1>3, <1>4 DEF HInv

(* It is kept by each stage of run, in their order.                        *)
LEMMA CheckInputsKeeps ==
  ASSUME HInv, CheckInputs
  PROVE  HInv'
<1>1. FlowInv' /\ TaintOK'
  BY FlowRests DEF HInv, CheckInputs, harness
<1>2. /\ stage = "start" /\ UNCHANGED <<flow, harness, progress>>
      /\ exit' = exit
      /\ \/ /\ stage' = "apply mode" /\ verdict' = verdict
            /\ on_valgrind /\ mode \in Modes /\ case \in Cases
         \/ stage' = "returning" /\ verdict' = "error"
  BY DEF CheckInputs, GoOn, Returns
<1>3. /\ function' = function /\ operation' = operation /\ memory' = memory
      /\ tainted' = tainted /\ memcheck_error' = memcheck_error
      /\ on_valgrind' = on_valgrind /\ mode' = mode /\ case' = case
  BY <1>2 DEF flow, harness
<1>4. StageOK
  BY DEF HInv
<1>5. StageOK' /\ HoldingOK'
  BY <1>2, <1>3, <1>4 DEF StageOK, Stages, Ended, Holding, HoldingOK
<1>6. VerdictOK'
  <2>1. verdict' # "ok" /\ exit' = -1
    BY <1>2, <1>4 DEF StageOK, Ended
  <2> QED  BY <2>1, NoVerdict
<1> QED  BY <1>1, <1>5, <1>6 DEF HInv

LEMMA ApplyModeKeeps ==
  ASSUME HInv, ApplyMode
  PROVE  HInv'
<1>1. FlowInv' /\ TaintOK'
  BY FlowRests DEF HInv, ApplyMode, harness
<1>2. /\ stage = "apply mode" /\ UNCHANGED <<flow, harness>>
      /\ stage' = "import" /\ verdict' = verdict /\ exit' = exit
      /\ mode = "tainted" => seed_undefined'
  BY DEF ApplyMode, GoOn, MarkUndefined
<1>3. /\ function' = function /\ operation' = operation /\ memory' = memory
      /\ tainted' = tainted /\ memcheck_error' = memcheck_error
      /\ on_valgrind' = on_valgrind /\ mode' = mode /\ case' = case
  BY <1>2 DEF flow, harness
<1>4. StageOK
  BY DEF HInv
<1>5. StageOK' /\ HoldingOK'
  BY <1>2, <1>3, <1>4 DEF StageOK, Stages, Ended, Holding, HoldingOK
<1>6. VerdictOK'
  <2>1. verdict' # "ok" /\ exit' = -1
    BY <1>2, <1>4 DEF StageOK, Ended
  <2> QED  BY <2>1, NoVerdict
<1> QED  BY <1>1, <1>5, <1>6 DEF HInv

LEMMA ImportKeeps ==
  ASSUME HInv, Import
  PROVE  HInv'
<1>1. /\ stage = "import" /\ ImportKey(seed_undefined) /\ UNCHANGED harness
      /\ stage' = "enter" /\ verdict' = verdict /\ exit' = exit
  BY DEF Import, GoOn
<1>2. FlowInv'
  BY <1>1, KeyStepsKeep DEF HInv
<1>3. /\ function = "idle" /\ memory' = memory \cup {"seed"}
      /\ tainted' = IF seed_undefined THEN tainted \cup {"seed"} ELSE tainted
      /\ instrumented' = instrumented /\ memcheck_error' = memcheck_error
      /\ function' = function
  BY <1>1 DEF ImportKey
<1>4. /\ memory = {} /\ tainted = {} /\ ~memcheck_error
      /\ mode = "tainted" => seed_undefined
      /\ verdict = "none" /\ exit = -1
      /\ on_valgrind /\ mode \in Modes /\ case \in Cases
  BY <1>1 DEF HInv, StageOK, Ended
<1>5. on_valgrind' = on_valgrind /\ mode' = mode /\ case' = case
  BY <1>1 DEF harness
<1>6. TaintOK'
  BY <1>3, <1>4, <1>5 DEF TaintOK, ClearedOK, UndefinedOK, MissedOK
<1>7. StageOK' /\ HoldingOK' /\ VerdictOK'
  BY <1>1, <1>3, <1>4, <1>5
     DEF StageOK, Stages, Ended, Holding, HoldingOK, VerdictOK
<1> QED  BY <1>2, <1>6, <1>7 DEF HInv

LEMMA EnterKeeps ==
  ASSUME HInv, Enter
  PROVE  HInv'
<1> DEFINE op == IF case = "sign" THEN "sign" ELSE "verifying_key"
<1>1. /\ stage = "enter" /\ EnterCall(op) /\ UNCHANGED harness
      /\ stage' = "call" /\ verdict' = verdict /\ exit' = exit
  BY DEF Enter, GoOn
<1>2. op \in {"sign", "verifying_key"}
  OBVIOUS
<1>3. FlowInv'
  BY <1>1, <1>2, EnterCallKeeps DEF HInv
<1>4. /\ "seed" \in memory /\ function' = "derive" /\ at' = 1
      /\ operation' = op /\ memory' = memory /\ tainted' = tainted
      /\ instrumented' = instrumented /\ memcheck_error' = memcheck_error
  BY <1>1 DEF EnterCall
<1>5. /\ tainted \subseteq {"seed"} /\ ~memcheck_error
      /\ verdict = "none" /\ exit = -1
      /\ on_valgrind /\ mode \in Modes /\ case \in Cases
  BY <1>1 DEF HInv, StageOK, Ended
<1>6. on_valgrind' = on_valgrind /\ mode' = mode /\ case' = case
  BY <1>1 DEF harness
<1>7. TaintOK'
  <2>1. ClearedOK'
    <3>1. ~IsCleared("seed", "derive", 1)
      BY DEF IsCleared
    <3> QED  BY <3>1, <1>4, <1>5 DEF ClearedOK
  <2>2. mode = "tainted" => UndefinedOK'
    <3> SUFFICES ASSUME mode = "tainted" PROVE UndefinedOK'
      OBVIOUS
    <3>1. memory \cap NamedOwners \subseteq tainted
      BY DEF HInv, TaintOK, UndefinedOK
    <3>2. "seed" \in tainted
      BY <3>1, <1>4 DEF NamedOwners
    <3>3. \A n : IsUndefined(n, "derive", 1) => n = "seed"
      BY DEF IsUndefined
    <3> QED  BY <3>1, <3>2, <3>3, <1>4 DEF UndefinedOK
  <2>3. MissedOK'
    BY <1>4 DEF MissedOK
  <2> QED  BY <2>1, <2>2, <2>3, <1>4, <1>5, <1>6 DEF TaintOK
<1>8. StageOK' /\ HoldingOK' /\ VerdictOK'
  BY <1>1, <1>4, <1>5, <1>6
     DEF StageOK, Stages, Ended, Holding, HoldingOK, VerdictOK
<1> QED  BY <1>3, <1>7, <1>8 DEF HInv

(* It is kept by a step of the call, and the output of a call that ends    *)
(* well is what HoldingOK says.                                            *)
LEMMA CallKeeps ==
  ASSUME HInv, Call
  PROVE  HInv'
<1>1. /\ stage = "call" /\ CallStep /\ UNCHANGED harness /\ exit' = exit
      /\ \/ function' # "idle" /\ stage' = "call" /\ verdict' = verdict
         \/ /\ function' = "idle" /\ result' = "ok"
            /\ stage' = "require vbits" /\ verdict' = verdict
         \/ function' = "idle" /\ stage' = "returning" /\ verdict' = "error"
  BY DEF Call, GoOn, Returns
<1>2. FlowInv /\ TaintOK /\ StageOK
  BY DEF HInv
<1>3. FlowInv'
  BY <1>1, <1>2, CallStepKeeps
<1>4. on_valgrind' = on_valgrind /\ mode' = mode /\ case' = case
  BY <1>1 DEF harness
<1>5. /\ verdict = "none" /\ exit = -1
      /\ on_valgrind /\ mode \in Modes /\ case \in Cases
      /\ operation = IF case = "sign" THEN "sign" ELSE "verifying_key"
      /\ function \in {"derive", operation}
  BY <1>1, <1>2 DEF StageOK, Ended
<1>6. instrumented' = instrumented
  BY <1>1, <1>2, CallMoves
<1>7. instrumented => /\ ~memcheck_error' /\ ClearedOK'
                      /\ result' = "ok" => Output' \notin tainted'
  <2> SUFFICES ASSUME instrumented
               PROVE  /\ ~memcheck_error' /\ ClearedOK'
                      /\ result' = "ok" => Output' \notin tainted'
    OBVIOUS
  <2>1. ~memcheck_error /\ ClearedOK
    BY <1>2 DEF TaintOK
  <2>2. ~memcheck_error' /\ ClearedOK'
    BY <1>1, <1>2, <2>1, ClearedStep
  <2>3. result' = "ok" => Output' \notin tainted'
    BY <1>1, <1>2, <2>1, OutputsCleared DEF Output
  <2> QED  BY <2>2, <2>3
<1>8. mode = "tainted" => UndefinedOK'
  BY <1>1, <1>2, UndefinedStep DEF TaintOK
<1>9. mode = "tainted" /\ ~instrumented =>
        MissedOK' /\ (result' = "ok" => memcheck_error')
  BY <1>1, <1>2, MissedStep DEF TaintOK
<1>10. TaintOK'
  BY <1>4, <1>6, <1>7, <1>8, <1>9 DEF TaintOK
<1>11. function' # "idle" =>
         operation' = operation /\ function' \in {"derive", operation}
  BY <1>1, <1>2, <1>5, CallMoves DEF Advance
<1>12. StageOK'
  BY <1>1, <1>4, <1>5, <1>11 DEF StageOK, Stages, Ended, Holding
<1>13. HoldingOK'
  BY <1>1, <1>4, <1>6, <1>7, <1>9 DEF HoldingOK, Holding
<1>14. VerdictOK'
  <2>1. verdict' # "ok" /\ exit' = -1
    BY <1>1, <1>5
  <2> QED  BY <2>1, NoVerdict
<1> QED  BY <1>3, <1>10, <1>12, <1>13, <1>14 DEF HInv

LEMMA RequirePublicVbitsKeeps ==
  ASSUME HInv, RequirePublicVbits
  PROVE  HInv'
<1>1. FlowInv' /\ TaintOK'
  BY FlowRests DEF HInv, RequirePublicVbits, harness
<1>2. /\ stage = "require vbits" /\ UNCHANGED <<flow, harness>>
      /\ exit' = exit
      /\ \/ stage' = "make defined" /\ verdict' = verdict
         \/ stage' = "returning" /\ verdict' = "error"
  BY DEF RequirePublicVbits, GoOn, Returns
<1>3. /\ function' = function /\ memory' = memory /\ result' = result
      /\ tainted' = tainted /\ memcheck_error' = memcheck_error
      /\ on_valgrind' = on_valgrind /\ mode' = mode /\ case' = case
      /\ instrumented' = instrumented
  BY <1>2 DEF flow, harness
<1>4. StageOK /\ HoldingOK
  BY DEF HInv
<1>5. StageOK'
  BY <1>2, <1>3, <1>4 DEF StageOK, Stages, Ended, Holding
<1>6. HoldingOK'
  BY <1>2, <1>3, <1>4 DEF HoldingOK, Holding, Output
<1>7. VerdictOK'
  <2>1. verdict' # "ok" /\ exit' = -1
    BY <1>2, <1>4 DEF StageOK, Ended, Holding
  <2> QED  BY <2>1, NoVerdict
<1> QED  BY <1>1, <1>5, <1>6, <1>7 DEF HInv

LEMMA MakeDefinedKeeps ==
  ASSUME HInv, MakeDefined
  PROVE  HInv'
<1>1. FlowInv' /\ TaintOK'
  BY FlowRests DEF HInv, MakeDefined, harness
<1>2. /\ stage = "make defined" /\ UNCHANGED <<flow, harness>>
      /\ stage' = "compare" /\ verdict' = verdict /\ exit' = exit
  BY DEF MakeDefined, GoOn
<1>3. /\ function' = function /\ memory' = memory /\ result' = result
      /\ tainted' = tainted /\ memcheck_error' = memcheck_error
      /\ on_valgrind' = on_valgrind /\ mode' = mode /\ case' = case
      /\ instrumented' = instrumented
  BY <1>2 DEF flow, harness
<1>4. StageOK /\ HoldingOK
  BY DEF HInv
<1>5. StageOK'
  BY <1>2, <1>3, <1>4 DEF StageOK, Stages, Ended, Holding
<1>6. HoldingOK'
  BY <1>2, <1>3, <1>4 DEF HoldingOK, Holding, Output
<1>7. VerdictOK'
  <2>1. verdict' # "ok" /\ exit' = -1
    BY <1>2, <1>4 DEF StageOK, Ended, Holding
  <2> QED  BY <2>1, NoVerdict
<1> QED  BY <1>1, <1>5, <1>6, <1>7 DEF HInv

(* It is kept by the comparison, which is a branch on the output.          *)
LEMMA CompareKeeps ==
  ASSUME HInv, Compare
  PROVE  HInv'
<1>1. /\ stage = "compare" /\ stage' = "returning" /\ exit' = exit
      /\ memcheck_error' = (memcheck_error \/ Output \in tainted)
      /\ verdict' = IF matched' THEN "ok" ELSE "error"
      /\ instrumented' = instrumented /\ operation' = operation
      /\ function' = function /\ at' = at /\ memory' = memory
      /\ owned' = owned /\ tainted' = tainted /\ result' = result
      /\ UNCHANGED harness
  BY DEF Compare, Returns
<1>2. on_valgrind' = on_valgrind /\ mode' = mode /\ case' = case
  BY <1>1 DEF harness
<1>3. FlowInv /\ TaintOK /\ StageOK /\ HoldingOK
  BY DEF HInv
<1>4. FlowInv'
  BY <1>1, <1>3
     DEF FlowInv, FlowTypeOK, OperationOK, OwnersAreFramed, FramesOK, DeriveOK,
         ResultOK
<1>5. /\ function = "idle" /\ exit = -1
      /\ on_valgrind /\ mode \in Modes /\ case \in Cases
  BY <1>1, <1>3 DEF StageOK, Ended
<1>6. /\ result = "ok" /\ (instrumented => Output \notin tainted)
      /\ (mode = "tainted" /\ ~instrumented => memcheck_error)
  BY <1>1, <1>3 DEF HoldingOK, Holding
<1>7. TaintOK'
  <2>1. instrumented => ~memcheck_error'
    BY <1>1, <1>3, <1>6 DEF TaintOK
  <2>2. ClearedOK' /\ MissedOK'
    BY <1>1, <1>5 DEF ClearedOK, MissedOK
  <2>3. mode = "tainted" => UndefinedOK'
    BY <1>1, <1>3, <1>5 DEF TaintOK, UndefinedOK
  <2> QED  BY <2>1, <2>2, <2>3, <1>1, <1>2 DEF TaintOK
<1>8. StageOK' /\ HoldingOK'
  BY <1>1, <1>5 DEF StageOK, Stages, Ended, Holding, HoldingOK
<1>9. VerdictOK'
  <2>1. Output' = Output
    BY <1>2 DEF Output
  <2>2. verdict' = "ok" => matched'
    BY <1>1
  <2>3. memcheck_error' \/ Output' \notin tainted'
    BY <1>1, <2>1
  <2>4. mode' = "tainted" /\ ~instrumented' => memcheck_error'
    BY <1>1, <1>2, <1>6
  <2>5. exit' # 0
    BY <1>1, <1>5, SMT
  <2>6. on_valgrind' /\ mode' \in Modes /\ case' \in Cases /\ result' = "ok"
    BY <1>1, <1>2, <1>5, <1>6
  <2> QED  BY <2>2, <2>3, <2>4, <2>5, <2>6, Zenon DEF VerdictOK
<1> QED  BY <1>4, <1>7, <1>8, <1>9 DEF HInv

(* It is kept by main's return, which drops the key.                       *)
LEMMA ReturnKeeps ==
  ASSUME HInv, Return
  PROVE  HInv'
<1>1. /\ stage = "returning" /\ stage' = "done"
      /\ exit' = ExitStatus(verdict)
      /\ DropKey \/ UNCHANGED flow
      /\ verdict' = verdict /\ UNCHANGED <<harness, progress>>
  BY DEF Return
<1>2. /\ on_valgrind' = on_valgrind /\ mode' = mode /\ case' = case
      /\ matched' = matched /\ error_exitcode' = error_exitcode
  BY <1>1 DEF harness, progress
<1>3. FlowInv /\ TaintOK /\ StageOK /\ VerdictOK
  BY DEF HInv
<1>4. FlowInv'
  BY <1>1, <1>3, <1>2, KeyStepsKeep, FlowRests
<1>5. /\ function = "idle" /\ function' = "idle"
      /\ instrumented' = instrumented /\ result' = result
      /\ memcheck_error' = memcheck_error
      /\ \E names : memory' = memory \ names /\ tainted' = tainted \ names
  <2>1. function = "idle"
    BY <1>1, <1>3 DEF StageOK
  <2>2. CASE DropKey
    BY <2>1, <2>2 DEF DropKey, Wipe
  <2>3. CASE UNCHANGED flow
    <3>1. memory' = memory \ {} /\ tainted' = tainted \ {}
      BY <2>3 DEF flow
    <3> QED  BY <2>1, <2>3, <3>1 DEF flow
  <2> QED  BY <1>1, <2>2, <2>3
<1>6. TaintOK'
  <2>1. ClearedOK' /\ MissedOK'
    BY <1>5 DEF ClearedOK, MissedOK
  <2>2. mode = "tainted" => UndefinedOK'
    BY <1>3, <1>5 DEF TaintOK, UndefinedOK
  <2>3. instrumented => ~memcheck_error
    BY <1>3 DEF TaintOK
  <2> QED  BY <2>1, <2>2, <2>3, <1>2, <1>5 DEF TaintOK
<1>7. StageOK' /\ HoldingOK'
  BY <1>1, <1>5 DEF StageOK, Stages, Ended, Holding, HoldingOK
<1>8. VerdictOK'
  <2>1. Output' = Output /\ tainted' \subseteq tainted
    BY <1>2, <1>5 DEF Output
  <2>2. exit' = 0 =>
          verdict = "ok" /\ ~(on_valgrind /\ error_exitcode /\ memcheck_error)
    BY <1>1 DEF ExitStatus
  <2> QED  BY <1>1, <1>2, <1>3, <1>5, <2>1, <2>2 DEF VerdictOK
<1> QED  BY <1>4, <1>6, <1>7, <1>8 DEF HInv

(* Every step of the program keeps the invariant.                          *)
LEMMA StepKeeps ==
  ASSUME HInv, Step
  PROVE  HInv'
  BY CheckInputsKeeps, ApplyModeKeeps, ImportKeeps, EnterKeeps, CallKeeps,
     RequirePublicVbitsKeeps, MakeDefinedKeeps, CompareKeeps, ReturnKeeps
     DEF Step

(* So does a step of whatever started it, which at most reads its status.  *)
LEMMA RestKeeps ==
  ASSUME HInv, UNCHANGED <<flow, harness, progress, verdict>>,
         \/ UNCHANGED <<stage, exit>>
         \/ stage = "done" /\ stage' = "idle" /\ exit' = -1
  PROVE  HInv'
<1>1. FlowInv' /\ TaintOK'
  BY FlowRests DEF HInv, harness
<1>2. /\ function' = function /\ operation' = operation /\ memory' = memory
      /\ tainted' = tainted /\ memcheck_error' = memcheck_error
      /\ on_valgrind' = on_valgrind /\ error_exitcode' = error_exitcode
      /\ mode' = mode /\ case' = case
      /\ instrumented' = instrumented /\ result' = result
      /\ matched' = matched /\ seed_undefined' = seed_undefined
      /\ verdict' = verdict
  BY DEF flow, harness, progress
<1>3. StageOK /\ HoldingOK /\ VerdictOK
  BY DEF HInv
<1>4. StageOK'
  BY <1>2, <1>3 DEF StageOK, Stages, Ended, Holding
<1>5. HoldingOK'
  BY <1>2, <1>3 DEF HoldingOK, Holding, Output
<1>6. VerdictOK'
  BY <1>2, <1>3 DEF VerdictOK, Output
<1> QED  BY <1>1, <1>4, <1>5, <1>6 DEF HInv

(* What the invariant says of a run of the program.                        *)
LEMMA HInvShows ==
  HInv => NoTaintedBranch /\ SecretsStayTainted /\ PassIsEvidence
<1> SUFFICES ASSUME HInv
             PROVE  NoTaintedBranch /\ SecretsStayTainted /\ PassIsEvidence
  OBVIOUS
<1>1. NoTaintedBranch
  BY DEF HInv, TaintOK, NoTaintedBranch
<1>2. SecretsStayTainted
  BY DEF HInv, TaintOK, UndefinedOK, SecretsStayTainted
<1>3. PassIsEvidence
  BY DEF HInv, TaintOK, VerdictOK, PassIsEvidence
<1> QED  BY <1>1, <1>2, <1>3

-----------------------------------------------------------------------------
(* What is recorded of a run is TRUE or FALSE.                             *)

(* The flags of a run.                                                     *)
BooleansOK ==
  /\ instrumented \in BOOLEAN /\ memcheck_error \in BOOLEAN
  /\ on_valgrind \in BOOLEAN /\ matched \in BOOLEAN

(* They stay flags.                                                        *)
LEMMA BooleansKept ==
  ASSUME BooleansOK, Step
  PROVE  BooleansOK'
<1>1. CASE CheckInputs \/ ApplyMode \/ RequirePublicVbits \/ MakeDefined
  BY <1>1 DEF CheckInputs, ApplyMode, RequirePublicVbits, MakeDefined,
              flow, harness, progress, BooleansOK
<1>2. CASE Import \/ Enter
  BY <1>2 DEF Import, Enter, ImportKey, EnterCall, harness, progress,
              BooleansOK
<1>3. CASE Call
  <2>1. CallStep /\ on_valgrind' = on_valgrind /\ matched' = matched
    BY <1>3 DEF Call, harness, progress
  <2>2. instrumented' = instrumented
    BY <2>1 DEF CallStep, Let, Consume, Declassify, Check, HitFailpoint,
                ReturnDerived, ReturnFromCall, Advance
  <2>3. \/ memcheck_error' = memcheck_error
        \/ memcheck_error' = (memcheck_error \/ Statement.name \in tainted)
    BY <2>1 DEF CallStep, Let, Consume, Declassify, Check, HitFailpoint,
                ReturnDerived, ReturnFromCall
  <2> QED  BY <2>1, <2>2, <2>3 DEF BooleansOK
<1>4. CASE Compare
  BY <1>4 DEF Compare, harness, BooleansOK
<1>5. CASE Return
  BY <1>5 DEF Return, DropKey, flow, harness, progress, BooleansOK
<1> QED  BY <1>1, <1>2, <1>3, <1>4, <1>5 DEF Step

(* A step of the program is one of a program that runs, and leaves what it *)
(* was started with.                                                       *)
LEMMA StepRuns ==
  ASSUME HInv, Step
  PROVE  stage # "idle" /\ instrumented' = instrumented /\ UNCHANGED harness
<1>1. FlowInv
  BY DEF HInv
<1>2. CASE CheckInputs \/ ApplyMode \/ RequirePublicVbits \/ MakeDefined
  BY <1>2 DEF CheckInputs, ApplyMode, RequirePublicVbits, MakeDefined, flow
<1>3. CASE Import \/ Enter
  BY <1>3 DEF Import, Enter, ImportKey, EnterCall
<1>4. CASE Call
  BY <1>1, <1>4, CallMoves DEF Call
<1>5. CASE Compare
  BY <1>5 DEF Compare
<1>6. CASE Return
  BY <1>6 DEF Return, DropKey, flow
<1> QED  BY <1>2, <1>3, <1>4, <1>5, <1>6 DEF Step

=============================================================================
