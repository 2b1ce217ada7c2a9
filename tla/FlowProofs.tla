----------------------------- MODULE FlowProofs -----------------------------
(***************************************************************************)
(* Lemmas about SecretFlow, for every driver of it: the bodies as tables   *)
(* of their statements, and an inductive invariant of the steps of a call. *)
(***************************************************************************)
EXTENDS SecretFlow, Integers, TLAPS

(* The named values of the three bodies.                                   *)
Values ==
  {"seed", "expanded_hash", "pruned_scalar", "prefix", "reduced_scalar",
   "public_point", "public_is_valid", "point_is_valid", "inverse_is_present",
   "public_key"}
  \cup {"nonce_digest", "nonce", "commitment_point", "commitment_is_subgroup",
        "commitment", "challenge_digest", "challenge"}
  \cup {"secret_response_term", "response", "encoded", "response_bytes",
        "signature", "serialized_commitment_is_subgroup", "verified"}

(* The statements that can be made of them.                                *)
Statements ==
  {Guarded(name, from) : name \in Values, from \in SUBSET Values}
  \cup {Plain(name, from) : name \in Values, from \in SUBSET Values}
  \cup {Consumed(name) : name \in Values}
  \cup {Declassified(name) : name \in Values}
  \cup {Branch(name) : name \in Values}
  \cup {Failpoint(point) : point \in {"ExpandedSecret", "SignIntermediates"}}

(* A list of n statements.                                                 *)
Lists(s, n) == s \in Seq(Statements) /\ Len(s) = n

(* c is a, of m statements, followed by b, of n.                           *)
Glued(a, b, c, m, n) ==
  /\ \A i \in 1 .. m : c[i] = a[i]
  /\ \A i \in 1 .. n : c[m + i] = b[i]

(* Two lists of statements one after the other.                            *)
LEMMA Joined ==
  ASSUME NEW a, NEW b, NEW c, NEW m \in Nat, NEW n \in Nat,
         Lists(a, m), Lists(b, n), c = a \o b
  PROVE  Lists(c, m + n) /\ Glued(a, b, c, m, n)
<1>1. \A s, t \in Seq(Statements) :
        /\ s \o t \in Seq(Statements) /\ Len(s \o t) = Len(s) + Len(t)
        /\ \A i \in 1 .. Len(s) : (s \o t)[i] = s[i]
        /\ \A i \in 1 .. Len(t) : (s \o t)[Len(s) + i] = t[i]
  OBVIOUS
<1>2. a \in Seq(Statements) /\ b \in Seq(Statements)
  BY DEF Lists
<1>3. /\ c \in Seq(Statements) /\ Len(c) = Len(a) + Len(b)
      /\ \A i \in 1 .. Len(a) : c[i] = a[i]
      /\ \A i \in 1 .. Len(b) : c[Len(a) + i] = b[i]
  BY <1>1, <1>2
<1>4. Len(a) = m /\ Len(b) = n
  BY DEF Lists
<1> QED
  BY <1>3, <1>4 DEF Lists, Glued

(* Each kind of statement, on named values, is one of Statements.          *)
LEMMA InStatements ==
  /\ \A name \in Values : \A from \in SUBSET Values :
       Guarded(name, from) \in Statements /\ Plain(name, from) \in Statements
  /\ \A name \in Values :
       /\ Consumed(name) \in Statements /\ Declassified(name) \in Statements
       /\ Branch(name) \in Statements
  /\ \A point \in {"ExpandedSecret", "SignIntermediates"} :
       Failpoint(point) \in Statements
  BY DEF Statements

(* A list written out, here and below, for each length that occurs.        *)
LEMMA OneOf ==
  ASSUME NEW a \in Statements
  PROVE  LET s == <<a>>
         IN  Lists(s, 1) /\ s[1] = a
  BY DEF Lists

(* The same for three statements.                                          *)
LEMMA ThreeOf ==
  ASSUME NEW a \in Statements, NEW b \in Statements, NEW c \in Statements
  PROVE  LET s == <<a, b, c>>
         IN  Lists(s, 3) /\ s[1] = a /\ s[2] = b /\ s[3] = c
  BY DEF Lists

(* For four.                                                               *)
LEMMA FourOf ==
  ASSUME NEW a \in Statements, NEW b \in Statements, NEW c \in Statements,
         NEW d \in Statements
  PROVE  LET s == <<a, b, c, d>>
         IN  Lists(s, 4) /\ s[1] = a /\ s[2] = b /\ s[3] = c /\ s[4] = d
  BY DEF Lists

(* For six.                                                                *)
LEMMA SixOf ==
  ASSUME NEW a \in Statements, NEW b \in Statements, NEW c \in Statements,
         NEW d \in Statements, NEW e \in Statements, NEW f \in Statements
  PROVE  LET s == <<a, b, c, d, e, f>>
         IN  Lists(s, 6) /\ s[1] = a /\ s[2] = b /\ s[3] = c /\ s[4] = d
                 /\ s[5] = e /\ s[6] = f
  BY DEF Lists

(* The three statements of a fault predicate.                              *)
LEMMA FaultPredicateIs ==
  ASSUME NEW name \in Values, NEW from \in Values
  PROVE  LET s == FaultPredicate(name, from)
         IN  /\ Lists(s, 3)
             /\ s[1] = Plain(name, {from})
             /\ s[2] = Declassified(name)
             /\ s[3] = Branch(name)
<1>1. /\ Plain(name, {from}) \in Statements
      /\ Declassified(name) \in Statements /\ Branch(name) \in Statements
  BY InStatements
<1> QED
  BY <1>1, ThreeOf DEF FaultPredicate

(* The seven statements of encode_public_artifact.                         *)
LEMMA EncodePublicArtifactIs ==
  ASSUME NEW point \in Values, NEW encoding \in Values
  PROVE  LET s == EncodePublicArtifact(point, encoding)
         IN  /\ Lists(s, 7)
             /\ s[1] = Plain("point_is_valid", {point})
             /\ s[2] = Declassified("point_is_valid")
             /\ s[3] = Branch("point_is_valid")
             /\ s[4] = Plain("inverse_is_present", {point})
             /\ s[5] = Declassified("inverse_is_present")
             /\ s[6] = Branch("inverse_is_present")
             /\ s[7] = Plain(encoding, {point})
<1> DEFINE a == FaultPredicate("point_is_valid", point)
           b == FaultPredicate("inverse_is_present", point)
           c == <<Plain(encoding, {point})>>
<1>1. /\ Lists(a, 3)
      /\ a[1] = Plain("point_is_valid", {point})
      /\ a[2] = Declassified("point_is_valid")
      /\ a[3] = Branch("point_is_valid")
  <2>1. "point_is_valid" \in Values
    BY DEF Values
  <2> QED  BY <2>1, FaultPredicateIs
<1>2. /\ Lists(b, 3)
      /\ b[1] = Plain("inverse_is_present", {point})
      /\ b[2] = Declassified("inverse_is_present")
      /\ b[3] = Branch("inverse_is_present")
  <2>1. "inverse_is_present" \in Values
    BY DEF Values
  <2> QED  BY <2>1, FaultPredicateIs
<1>3. /\ Lists(c, 1)
      /\ c[1] = Plain(encoding, {point})
  <2>1. Plain(encoding, {point}) \in Statements
    BY InStatements
  <2> QED  BY <2>1, OneOf
<1>4. EncodePublicArtifact(point, encoding) = (a \o b) \o c
  BY DEF EncodePublicArtifact
<1> HIDE DEF a, b, c
<1> DEFINE ab == a \o b
<1> HIDE DEF ab
<1>5. /\ Lists(ab, 6)
      /\ \A i \in 1 .. 3 : ab[i] = a[i]
      /\ \A i \in 1 .. 3 : ab[3 + i] = b[i]
  <2>1. Lists(a, 3) /\ Lists(b, 3)
    BY <1>1, <1>2
  <2>2. ab = a \o b
    BY DEF ab
  <2>3. Lists(ab, 3 + 3)
    BY <2>1, <2>2, Joined
  <2>4. Glued(a, b, ab, 3, 3)
    BY <2>1, <2>2, Joined
  <2>5. Lists(ab, 6)
    BY <2>3
  <2> QED  BY <2>4, <2>5 DEF Glued
<1> DEFINE abc == ab \o c
<1> HIDE DEF abc
<1>6. /\ Lists(abc, 7)
      /\ \A i \in 1 .. 6 : abc[i] = ab[i]
      /\ \A i \in 1 .. 1 : abc[6 + i] = c[i]
  <2>1. Lists(ab, 6) /\ Lists(c, 1)
    BY <1>5, <1>3
  <2>2. abc = ab \o c
    BY DEF abc
  <2>3. Lists(abc, 6 + 1)
    BY <2>1, <2>2, Joined
  <2>4. Glued(ab, c, abc, 6, 1)
    BY <2>1, <2>2, Joined
  <2>5. Lists(abc, 7)
    BY <2>3
  <2> QED  BY <2>4, <2>5 DEF Glued
<1>7. EncodePublicArtifact(point, encoding) = abc
  BY <1>4 DEF ab, abc
<1>8. /\ abc[1] = a[1] /\ abc[2] = a[2] /\ abc[3] = a[3]
  BY <1>5, <1>6
<1>9. /\ abc[4] = b[1] /\ abc[5] = b[2] /\ abc[6] = b[3]
  <2>1. /\ ab[3 + 1] = b[1] /\ ab[3 + 2] = b[2] /\ ab[3 + 3] = b[3]
    BY <1>5
  <2> QED
    BY <2>1, <1>6
<1>10. /\ abc[7] = c[1]
  <2>1. /\ abc[6 + 1] = c[1]
    BY <1>6
  <2> QED
    BY <2>1
<1> QED
  BY <1>1, <1>2, <1>3, <1>6, <1>7, <1>8, <1>9, <1>10

(* The statements of derive, one by one.                                   *)
LEMMA DeriveTable ==
  /\ Lists(DeriveBody, 17)
  /\ DeriveBody[1] = Guarded("expanded_hash", {"seed"})
  /\ DeriveBody[2] = Guarded("pruned_scalar", {"expanded_hash"})
  /\ DeriveBody[3] = Guarded("prefix", {"expanded_hash"})
  /\ DeriveBody[4] = Guarded("reduced_scalar", {"pruned_scalar"})
  /\ DeriveBody[5] = Failpoint("ExpandedSecret")
  /\ DeriveBody[6] = Plain("public_point", {"pruned_scalar"})
  /\ DeriveBody[7] = Plain("public_is_valid", {"public_point"})
  /\ DeriveBody[8] = Declassified("public_is_valid")
  /\ DeriveBody[9] = Branch("public_is_valid")
  /\ DeriveBody[10] = Plain("point_is_valid", {"public_point"})
  /\ DeriveBody[11] = Declassified("point_is_valid")
  /\ DeriveBody[12] = Branch("point_is_valid")
  /\ DeriveBody[13] = Plain("inverse_is_present", {"public_point"})
  /\ DeriveBody[14] = Declassified("inverse_is_present")
  /\ DeriveBody[15] = Branch("inverse_is_present")
  /\ DeriveBody[16] = Plain("public_key", {"public_point"})
  /\ DeriveBody[17] = Declassified("public_key")
<1> DEFINE a == << Guarded("expanded_hash", {"seed"}),
                   Guarded("pruned_scalar", {"expanded_hash"}),
                   Guarded("prefix", {"expanded_hash"}),
                   Guarded("reduced_scalar", {"pruned_scalar"}),
                   Failpoint("ExpandedSecret"),
                   Plain("public_point", {"pruned_scalar"}) >>
           b == FaultPredicate("public_is_valid", "public_point")
           c == EncodePublicArtifact("public_point", "public_key")
           d == << Declassified("public_key") >>
<1>1. /\ Lists(a, 6)
      /\ a[1] = Guarded("expanded_hash", {"seed"})
      /\ a[2] = Guarded("pruned_scalar", {"expanded_hash"})
      /\ a[3] = Guarded("prefix", {"expanded_hash"})
      /\ a[4] = Guarded("reduced_scalar", {"pruned_scalar"})
      /\ a[5] = Failpoint("ExpandedSecret")
      /\ a[6] = Plain("public_point", {"pruned_scalar"})
  <2>1. /\ {"expanded_hash"} \in SUBSET Values
        /\ {"pruned_scalar"} \in SUBSET Values /\ {"seed"} \in SUBSET Values
    BY DEF Values
  <2>2. /\ "expanded_hash" \in Values /\ "prefix" \in Values
        /\ "pruned_scalar" \in Values /\ "public_point" \in Values
        /\ "reduced_scalar" \in Values
    BY DEF Values
  <2>3. /\ Guarded("expanded_hash", {"seed"}) \in Statements
        /\ Guarded("pruned_scalar", {"expanded_hash"}) \in Statements
        /\ Guarded("prefix", {"expanded_hash"}) \in Statements
        /\ Guarded("reduced_scalar", {"pruned_scalar"}) \in Statements
        /\ Failpoint("ExpandedSecret") \in Statements
        /\ Plain("public_point", {"pruned_scalar"}) \in Statements
    BY <2>1, <2>2, InStatements
  <2> QED  BY <2>3, SixOf
<1>2. /\ Lists(b, 3)
      /\ b[1] = Plain("public_is_valid", {"public_point"})
      /\ b[2] = Declassified("public_is_valid")
      /\ b[3] = Branch("public_is_valid")
  <2>1. "public_is_valid" \in Values /\ "public_point" \in Values
    BY DEF Values
  <2> QED  BY <2>1, FaultPredicateIs
<1>3. /\ Lists(c, 7)
      /\ c[1] = Plain("point_is_valid", {"public_point"})
      /\ c[2] = Declassified("point_is_valid")
      /\ c[3] = Branch("point_is_valid")
      /\ c[4] = Plain("inverse_is_present", {"public_point"})
      /\ c[5] = Declassified("inverse_is_present")
      /\ c[6] = Branch("inverse_is_present")
      /\ c[7] = Plain("public_key", {"public_point"})
  <2>1. "public_point" \in Values /\ "public_key" \in Values
    BY DEF Values
  <2> QED  BY <2>1, EncodePublicArtifactIs
<1>4. /\ Lists(d, 1)
      /\ d[1] = Declassified("public_key")
  <2>2. /\ "public_key" \in Values
    BY DEF Values
  <2>3. /\ Declassified("public_key") \in Statements
    BY <2>2, InStatements
  <2> QED  BY <2>3, OneOf
<1>5. DeriveBody = ((a \o b) \o c) \o d
  BY DEF DeriveBody
<1> HIDE DEF a, b, c, d
<1> DEFINE ab == a \o b
<1> HIDE DEF ab
<1>6. /\ Lists(ab, 9)
      /\ \A i \in 1 .. 6 : ab[i] = a[i]
      /\ \A i \in 1 .. 3 : ab[6 + i] = b[i]
  <2>1. Lists(a, 6) /\ Lists(b, 3)
    BY <1>1, <1>2
  <2>2. ab = a \o b
    BY DEF ab
  <2>3. Lists(ab, 6 + 3)
    BY <2>1, <2>2, Joined
  <2>4. Glued(a, b, ab, 6, 3)
    BY <2>1, <2>2, Joined
  <2>5. Lists(ab, 9)
    BY <2>3
  <2> QED  BY <2>4, <2>5 DEF Glued
<1> DEFINE abc == ab \o c
<1> HIDE DEF abc
<1>7. /\ Lists(abc, 16)
      /\ \A i \in 1 .. 9 : abc[i] = ab[i]
      /\ \A i \in 1 .. 7 : abc[9 + i] = c[i]
  <2>1. Lists(ab, 9) /\ Lists(c, 7)
    BY <1>6, <1>3
  <2>2. abc = ab \o c
    BY DEF abc
  <2>3. Lists(abc, 9 + 7)
    BY <2>1, <2>2, Joined
  <2>4. Glued(ab, c, abc, 9, 7)
    BY <2>1, <2>2, Joined
  <2>5. Lists(abc, 16)
    BY <2>3
  <2> QED  BY <2>4, <2>5 DEF Glued
<1> DEFINE abcd == abc \o d
<1> HIDE DEF abcd
<1>8. /\ Lists(abcd, 17)
      /\ \A i \in 1 .. 16 : abcd[i] = abc[i]
      /\ \A i \in 1 .. 1 : abcd[16 + i] = d[i]
  <2>1. Lists(abc, 16) /\ Lists(d, 1)
    BY <1>7, <1>4
  <2>2. abcd = abc \o d
    BY DEF abcd
  <2>3. Lists(abcd, 16 + 1)
    BY <2>1, <2>2, Joined
  <2>4. Glued(abc, d, abcd, 16, 1)
    BY <2>1, <2>2, Joined
  <2>5. Lists(abcd, 17)
    BY <2>3
  <2> QED  BY <2>4, <2>5 DEF Glued
<1>9. DeriveBody = abcd
  BY <1>5 DEF ab, abc, abcd
<1>10. /\ abcd[1] = a[1] /\ abcd[2] = a[2] /\ abcd[3] = a[3]
       /\ abcd[4] = a[4] /\ abcd[5] = a[5] /\ abcd[6] = a[6]
  BY <1>6, <1>7, <1>8
<1>11. /\ abcd[7] = b[1] /\ abcd[8] = b[2] /\ abcd[9] = b[3]
  <2>1. /\ ab[6 + 1] = b[1] /\ ab[6 + 2] = b[2] /\ ab[6 + 3] = b[3]
    BY <1>6
  <2> QED
    BY <2>1, <1>7, <1>8
<1>12. /\ abcd[10] = c[1] /\ abcd[11] = c[2] /\ abcd[12] = c[3]
       /\ abcd[13] = c[4] /\ abcd[14] = c[5] /\ abcd[15] = c[6]
       /\ abcd[16] = c[7]
  <2>1. /\ abc[9 + 1] = c[1] /\ abc[9 + 2] = c[2] /\ abc[9 + 3] = c[3]
        /\ abc[9 + 4] = c[4] /\ abc[9 + 5] = c[5] /\ abc[9 + 6] = c[6]
        /\ abc[9 + 7] = c[7]
    BY <1>7
  <2> QED
    BY <2>1, <1>8
<1>13. /\ abcd[17] = d[1]
  <2>1. /\ abcd[16 + 1] = d[1]
    BY <1>8
  <2> QED
    BY <2>1
<1> QED
  BY <1>1, <1>2, <1>3, <1>4, <1>8, <1>9, <1>10, <1>11, <1>12, <1>13

(* The statements of sign_expanded, one by one.                            *)
LEMMA SignTable ==
  /\ Lists(SignExpandedBody, 33)
  /\ SignExpandedBody[1] = Guarded("nonce_digest", {"prefix"})
  /\ SignExpandedBody[2] = Guarded("nonce", {"nonce_digest"})
  /\ SignExpandedBody[3] = Consumed("nonce_digest")
  /\ SignExpandedBody[4] = Plain("commitment_point", {"nonce"})
  /\ SignExpandedBody[5] =
         Plain("commitment_is_subgroup", {"commitment_point"})
  /\ SignExpandedBody[6] = Declassified("commitment_is_subgroup")
  /\ SignExpandedBody[7] = Branch("commitment_is_subgroup")
  /\ SignExpandedBody[8] = Plain("point_is_valid", {"commitment_point"})
  /\ SignExpandedBody[9] = Declassified("point_is_valid")
  /\ SignExpandedBody[10] = Branch("point_is_valid")
  /\ SignExpandedBody[11] = Plain("inverse_is_present", {"commitment_point"})
  /\ SignExpandedBody[12] = Declassified("inverse_is_present")
  /\ SignExpandedBody[13] = Branch("inverse_is_present")
  /\ SignExpandedBody[14] = Plain("commitment", {"commitment_point"})
  /\ SignExpandedBody[15] = Declassified("commitment")
  /\ SignExpandedBody[16] =
         Guarded("challenge_digest", {"commitment", "public_key"})
  /\ SignExpandedBody[17] = Guarded("challenge", {"challenge_digest"})
  /\ SignExpandedBody[18] = Consumed("challenge_digest")
  /\ SignExpandedBody[19] =
         Guarded("secret_response_term", {"challenge", "reduced_scalar"})
  /\ SignExpandedBody[20] =
         Guarded("response", {"nonce", "secret_response_term"})
  /\ SignExpandedBody[21] = Guarded("encoded", {"commitment"})
  /\ SignExpandedBody[22] = Guarded("response_bytes", {"response"})
  /\ SignExpandedBody[23] = Plain("encoded", {"response_bytes"})
  /\ SignExpandedBody[24] = Failpoint("SignIntermediates")
  /\ SignExpandedBody[25] = Declassified("encoded")
  /\ SignExpandedBody[26] = Branch("encoded")
  /\ SignExpandedBody[27] = Plain("signature", {"encoded"})
  /\ SignExpandedBody[28] =
         Plain("serialized_commitment_is_subgroup", {"signature"})
  /\ SignExpandedBody[29] = Declassified("serialized_commitment_is_subgroup")
  /\ SignExpandedBody[30] = Branch("serialized_commitment_is_subgroup")
  /\ SignExpandedBody[31] = Branch("public_key")
  /\ SignExpandedBody[32] = Plain("verified", {"public_key", "signature"})
  /\ SignExpandedBody[33] = Branch("verified")
<1> DEFINE a == << Guarded("nonce_digest", {"prefix"}),
                   Guarded("nonce", {"nonce_digest"}),
                   Consumed("nonce_digest"),
                   Plain("commitment_point", {"nonce"}) >>
           b == FaultPredicate("commitment_is_subgroup", "commitment_point")
           c == EncodePublicArtifact("commitment_point", "commitment")
           d == << Declassified("commitment"),
                   Guarded("challenge_digest", {"commitment", "public_key"}),
                   Guarded("challenge", {"challenge_digest"}),
                   Consumed("challenge_digest"),
                   Guarded("secret_response_term",
                       {"challenge", "reduced_scalar"}),
                   Guarded("response", {"nonce", "secret_response_term"}) >>
           e == ResponseBytes
           f == << Failpoint("SignIntermediates"),
                   Declassified("encoded"),
                   Branch("encoded"),
                   Plain("signature", {"encoded"}) >>
           g == FaultPredicate("serialized_commitment_is_subgroup",
               "signature")
           h == << Branch("public_key"),
                   Plain("verified", {"public_key", "signature"}),
                   Branch("verified") >>
<1>1. /\ Lists(a, 4)
      /\ a[1] = Guarded("nonce_digest", {"prefix"})
      /\ a[2] = Guarded("nonce", {"nonce_digest"})
      /\ a[3] = Consumed("nonce_digest")
      /\ a[4] = Plain("commitment_point", {"nonce"})
  <2>1. /\ {"nonce"} \in SUBSET Values /\ {"nonce_digest"} \in SUBSET Values
        /\ {"prefix"} \in SUBSET Values
    BY DEF Values
  <2>2. /\ "commitment_point" \in Values /\ "nonce" \in Values
        /\ "nonce_digest" \in Values
    BY DEF Values
  <2>3. /\ Guarded("nonce_digest", {"prefix"}) \in Statements
        /\ Guarded("nonce", {"nonce_digest"}) \in Statements
        /\ Consumed("nonce_digest") \in Statements
        /\ Plain("commitment_point", {"nonce"}) \in Statements
    BY <2>1, <2>2, InStatements
  <2> QED  BY <2>3, FourOf
<1>2. /\ Lists(b, 3)
      /\ b[1] = Plain("commitment_is_subgroup", {"commitment_point"})
      /\ b[2] = Declassified("commitment_is_subgroup")
      /\ b[3] = Branch("commitment_is_subgroup")
  <2>1. "commitment_is_subgroup" \in Values /\ "commitment_point" \in Values
    BY DEF Values
  <2> QED  BY <2>1, FaultPredicateIs
<1>3. /\ Lists(c, 7)
      /\ c[1] = Plain("point_is_valid", {"commitment_point"})
      /\ c[2] = Declassified("point_is_valid")
      /\ c[3] = Branch("point_is_valid")
      /\ c[4] = Plain("inverse_is_present", {"commitment_point"})
      /\ c[5] = Declassified("inverse_is_present")
      /\ c[6] = Branch("inverse_is_present")
      /\ c[7] = Plain("commitment", {"commitment_point"})
  <2>1. "commitment_point" \in Values /\ "commitment" \in Values
    BY DEF Values
  <2> QED  BY <2>1, EncodePublicArtifactIs
<1>4. /\ Lists(d, 6)
      /\ d[1] = Declassified("commitment")
      /\ d[2] = Guarded("challenge_digest", {"commitment", "public_key"})
      /\ d[3] = Guarded("challenge", {"challenge_digest"})
      /\ d[4] = Consumed("challenge_digest")
      /\ d[5] = Guarded("secret_response_term",
             {"challenge", "reduced_scalar"})
      /\ d[6] = Guarded("response", {"nonce", "secret_response_term"})
  <2>1. /\ {"challenge", "reduced_scalar"} \in SUBSET Values
        /\ {"challenge_digest"} \in SUBSET Values
        /\ {"commitment", "public_key"} \in SUBSET Values
        /\ {"nonce", "secret_response_term"} \in SUBSET Values
    BY DEF Values
  <2>2. /\ "challenge" \in Values /\ "challenge_digest" \in Values
        /\ "commitment" \in Values /\ "response" \in Values
        /\ "secret_response_term" \in Values
    BY DEF Values
  <2>3. /\ Declassified("commitment") \in Statements
        /\ Guarded("challenge_digest",
               {"commitment", "public_key"}) \in Statements
        /\ Guarded("challenge", {"challenge_digest"}) \in Statements
        /\ Consumed("challenge_digest") \in Statements
        /\ Guarded("secret_response_term",
               {"challenge", "reduced_scalar"}) \in Statements
        /\ Guarded("response",
               {"nonce", "secret_response_term"}) \in Statements
    BY <2>1, <2>2, InStatements
  <2> QED  BY <2>3, SixOf
<1>5. /\ Lists(e, 3)
      /\ e[1] = Guarded("encoded", {"commitment"})
      /\ e[2] = Guarded("response_bytes", {"response"})
      /\ e[3] = Plain("encoded", {"response_bytes"})
  <2>1. /\ {"commitment"} \in SUBSET Values /\ {"response"} \in SUBSET Values
        /\ {"response_bytes"} \in SUBSET Values
    BY DEF Values
  <2>2. /\ "encoded" \in Values /\ "response_bytes" \in Values
    BY DEF Values
  <2>3. /\ Guarded("encoded", {"commitment"}) \in Statements
        /\ Guarded("response_bytes", {"response"}) \in Statements
        /\ Plain("encoded", {"response_bytes"}) \in Statements
    BY <2>1, <2>2, InStatements
  <2> QED  BY <2>3, ThreeOf DEF ResponseBytes
<1>6. /\ Lists(f, 4)
      /\ f[1] = Failpoint("SignIntermediates")
      /\ f[2] = Declassified("encoded")
      /\ f[3] = Branch("encoded")
      /\ f[4] = Plain("signature", {"encoded"})
  <2>1. /\ {"encoded"} \in SUBSET Values
    BY DEF Values
  <2>2. /\ "encoded" \in Values /\ "signature" \in Values
    BY DEF Values
  <2>3. /\ Failpoint("SignIntermediates") \in Statements
        /\ Declassified("encoded") \in Statements
        /\ Branch("encoded") \in Statements
        /\ Plain("signature", {"encoded"}) \in Statements
    BY <2>1, <2>2, InStatements
  <2> QED  BY <2>3, FourOf
<1>7. /\ Lists(g, 3)
      /\ g[1] = Plain("serialized_commitment_is_subgroup", {"signature"})
      /\ g[2] = Declassified("serialized_commitment_is_subgroup")
      /\ g[3] = Branch("serialized_commitment_is_subgroup")
  <2>1. "serialized_commitment_is_subgroup" \in Values
            /\ "signature" \in Values
    BY DEF Values
  <2> QED  BY <2>1, FaultPredicateIs
<1>8. /\ Lists(h, 3)
      /\ h[1] = Branch("public_key")
      /\ h[2] = Plain("verified", {"public_key", "signature"})
      /\ h[3] = Branch("verified")
  <2>1. /\ {"public_key", "signature"} \in SUBSET Values
    BY DEF Values
  <2>2. /\ "public_key" \in Values /\ "verified" \in Values
    BY DEF Values
  <2>3. /\ Branch("public_key") \in Statements
        /\ Plain("verified", {"public_key", "signature"}) \in Statements
        /\ Branch("verified") \in Statements
    BY <2>1, <2>2, InStatements
  <2> QED  BY <2>3, ThreeOf
<1>9. SignExpandedBody = ((((((a \o b) \o c) \o d) \o e) \o f) \o g) \o h
  BY DEF SignExpandedBody
<1> HIDE DEF a, b, c, d, e, f, g, h
<1> DEFINE ab == a \o b
<1> HIDE DEF ab
<1>10. /\ Lists(ab, 7)
       /\ \A i \in 1 .. 4 : ab[i] = a[i]
       /\ \A i \in 1 .. 3 : ab[4 + i] = b[i]
  <2>1. Lists(a, 4) /\ Lists(b, 3)
    BY <1>1, <1>2
  <2>2. ab = a \o b
    BY DEF ab
  <2>3. Lists(ab, 4 + 3)
    BY <2>1, <2>2, Joined
  <2>4. Glued(a, b, ab, 4, 3)
    BY <2>1, <2>2, Joined
  <2>5. Lists(ab, 7)
    BY <2>3
  <2> QED  BY <2>4, <2>5 DEF Glued
<1> DEFINE abc == ab \o c
<1> HIDE DEF abc
<1>11. /\ Lists(abc, 14)
       /\ \A i \in 1 .. 7 : abc[i] = ab[i]
       /\ \A i \in 1 .. 7 : abc[7 + i] = c[i]
  <2>1. Lists(ab, 7) /\ Lists(c, 7)
    BY <1>10, <1>3
  <2>2. abc = ab \o c
    BY DEF abc
  <2>3. Lists(abc, 7 + 7)
    BY <2>1, <2>2, Joined
  <2>4. Glued(ab, c, abc, 7, 7)
    BY <2>1, <2>2, Joined
  <2>5. Lists(abc, 14)
    BY <2>3
  <2> QED  BY <2>4, <2>5 DEF Glued
<1> DEFINE abcd == abc \o d
<1> HIDE DEF abcd
<1>12. /\ Lists(abcd, 20)
       /\ \A i \in 1 .. 14 : abcd[i] = abc[i]
       /\ \A i \in 1 .. 6 : abcd[14 + i] = d[i]
  <2>1. Lists(abc, 14) /\ Lists(d, 6)
    BY <1>11, <1>4
  <2>2. abcd = abc \o d
    BY DEF abcd
  <2>3. Lists(abcd, 14 + 6)
    BY <2>1, <2>2, Joined
  <2>4. Glued(abc, d, abcd, 14, 6)
    BY <2>1, <2>2, Joined
  <2>5. Lists(abcd, 20)
    BY <2>3
  <2> QED  BY <2>4, <2>5 DEF Glued
<1> DEFINE abcde == abcd \o e
<1> HIDE DEF abcde
<1>13. /\ Lists(abcde, 23)
       /\ \A i \in 1 .. 20 : abcde[i] = abcd[i]
       /\ \A i \in 1 .. 3 : abcde[20 + i] = e[i]
  <2>1. Lists(abcd, 20) /\ Lists(e, 3)
    BY <1>12, <1>5
  <2>2. abcde = abcd \o e
    BY DEF abcde
  <2>3. Lists(abcde, 20 + 3)
    BY <2>1, <2>2, Joined
  <2>4. Glued(abcd, e, abcde, 20, 3)
    BY <2>1, <2>2, Joined
  <2>5. Lists(abcde, 23)
    BY <2>3
  <2> QED  BY <2>4, <2>5 DEF Glued
<1> DEFINE abcdef == abcde \o f
<1> HIDE DEF abcdef
<1>14. /\ Lists(abcdef, 27)
       /\ \A i \in 1 .. 23 : abcdef[i] = abcde[i]
       /\ \A i \in 1 .. 4 : abcdef[23 + i] = f[i]
  <2>1. Lists(abcde, 23) /\ Lists(f, 4)
    BY <1>13, <1>6
  <2>2. abcdef = abcde \o f
    BY DEF abcdef
  <2>3. Lists(abcdef, 23 + 4)
    BY <2>1, <2>2, Joined
  <2>4. Glued(abcde, f, abcdef, 23, 4)
    BY <2>1, <2>2, Joined
  <2>5. Lists(abcdef, 27)
    BY <2>3
  <2> QED  BY <2>4, <2>5 DEF Glued
<1> DEFINE abcdefg == abcdef \o g
<1> HIDE DEF abcdefg
<1>15. /\ Lists(abcdefg, 30)
       /\ \A i \in 1 .. 27 : abcdefg[i] = abcdef[i]
       /\ \A i \in 1 .. 3 : abcdefg[27 + i] = g[i]
  <2>1. Lists(abcdef, 27) /\ Lists(g, 3)
    BY <1>14, <1>7
  <2>2. abcdefg = abcdef \o g
    BY DEF abcdefg
  <2>3. Lists(abcdefg, 27 + 3)
    BY <2>1, <2>2, Joined
  <2>4. Glued(abcdef, g, abcdefg, 27, 3)
    BY <2>1, <2>2, Joined
  <2>5. Lists(abcdefg, 30)
    BY <2>3
  <2> QED  BY <2>4, <2>5 DEF Glued
<1> DEFINE abcdefgh == abcdefg \o h
<1> HIDE DEF abcdefgh
<1>16. /\ Lists(abcdefgh, 33)
       /\ \A i \in 1 .. 30 : abcdefgh[i] = abcdefg[i]
       /\ \A i \in 1 .. 3 : abcdefgh[30 + i] = h[i]
  <2>1. Lists(abcdefg, 30) /\ Lists(h, 3)
    BY <1>15, <1>8
  <2>2. abcdefgh = abcdefg \o h
    BY DEF abcdefgh
  <2>3. Lists(abcdefgh, 30 + 3)
    BY <2>1, <2>2, Joined
  <2>4. Glued(abcdefg, h, abcdefgh, 30, 3)
    BY <2>1, <2>2, Joined
  <2>5. Lists(abcdefgh, 33)
    BY <2>3
  <2> QED  BY <2>4, <2>5 DEF Glued
<1>17. SignExpandedBody = abcdefgh
  BY <1>9 DEF ab, abc, abcd, abcde, abcdef, abcdefg, abcdefgh
<1>18. /\ abcdefgh[1] = a[1] /\ abcdefgh[2] = a[2] /\ abcdefgh[3] = a[3]
       /\ abcdefgh[4] = a[4]
  BY <1>10, <1>11, <1>12, <1>13, <1>14, <1>15, <1>16
<1>19. /\ abcdefgh[5] = b[1] /\ abcdefgh[6] = b[2] /\ abcdefgh[7] = b[3]
  <2>1. /\ ab[4 + 1] = b[1] /\ ab[4 + 2] = b[2] /\ ab[4 + 3] = b[3]
    BY <1>10
  <2> QED
    BY <2>1, <1>11, <1>12, <1>13, <1>14, <1>15, <1>16
<1>20. /\ abcdefgh[8] = c[1] /\ abcdefgh[9] = c[2] /\ abcdefgh[10] = c[3]
       /\ abcdefgh[11] = c[4] /\ abcdefgh[12] = c[5] /\ abcdefgh[13] = c[6]
       /\ abcdefgh[14] = c[7]
  <2>1. /\ abc[7 + 1] = c[1] /\ abc[7 + 2] = c[2] /\ abc[7 + 3] = c[3]
        /\ abc[7 + 4] = c[4] /\ abc[7 + 5] = c[5] /\ abc[7 + 6] = c[6]
        /\ abc[7 + 7] = c[7]
    BY <1>11
  <2> QED
    BY <2>1, <1>12, <1>13, <1>14, <1>15, <1>16
<1>21. /\ abcdefgh[15] = d[1] /\ abcdefgh[16] = d[2] /\ abcdefgh[17] = d[3]
       /\ abcdefgh[18] = d[4] /\ abcdefgh[19] = d[5] /\ abcdefgh[20] = d[6]
  <2>1. /\ abcd[14 + 1] = d[1] /\ abcd[14 + 2] = d[2] /\ abcd[14 + 3] = d[3]
        /\ abcd[14 + 4] = d[4] /\ abcd[14 + 5] = d[5] /\ abcd[14 + 6] = d[6]
    BY <1>12
  <2> QED
    BY <2>1, <1>13, <1>14, <1>15, <1>16
<1>22. /\ abcdefgh[21] = e[1] /\ abcdefgh[22] = e[2] /\ abcdefgh[23] = e[3]
  <2>1. /\ abcde[20 + 1] = e[1] /\ abcde[20 + 2] = e[2]
        /\ abcde[20 + 3] = e[3]
    BY <1>13
  <2> QED
    BY <2>1, <1>14, <1>15, <1>16
<1>23. /\ abcdefgh[24] = f[1] /\ abcdefgh[25] = f[2] /\ abcdefgh[26] = f[3]
       /\ abcdefgh[27] = f[4]
  <2>1. /\ abcdef[23 + 1] = f[1] /\ abcdef[23 + 2] = f[2]
        /\ abcdef[23 + 3] = f[3] /\ abcdef[23 + 4] = f[4]
    BY <1>14
  <2> QED
    BY <2>1, <1>15, <1>16
<1>24. /\ abcdefgh[28] = g[1] /\ abcdefgh[29] = g[2] /\ abcdefgh[30] = g[3]
  <2>1. /\ abcdefg[27 + 1] = g[1] /\ abcdefg[27 + 2] = g[2]
        /\ abcdefg[27 + 3] = g[3]
    BY <1>15
  <2> QED
    BY <2>1, <1>16
<1>25. /\ abcdefgh[31] = h[1] /\ abcdefgh[32] = h[2] /\ abcdefgh[33] = h[3]
  <2>1. /\ abcdefgh[30 + 1] = h[1] /\ abcdefgh[30 + 2] = h[2]
        /\ abcdefgh[30 + 3] = h[3]
    BY <1>16
  <2> QED
    BY <2>1
<1> QED
  BY <1>1, <1>2, <1>3, <1>4, <1>5, <1>6, <1>7, <1>8, <1>16, <1>17, <1>18,
     <1>19, <1>20, <1>21, <1>22, <1>23, <1>24, <1>25

(* The one statement of verifying_key after derive.                        *)
LEMMA ExportTable ==
  Lists(ExportBody, 1) /\ ExportBody[1] = Branch("public_key")
<1>1. Branch("public_key") \in Statements
  <2>1. "public_key" \in Values
    BY DEF Values
  <2> QED  BY <2>1, InStatements
<1> QED
  BY <1>1, OneOf DEF ExportBody

(* The functions that have a body.                                         *)
Functions == {"derive", "sign", "verifying_key"}

(* A statement that makes a named owner guards it, none makes the seed     *)
(* again, what a statement consumes is not a named owner, and every        *)
(* failpoint has a name.                                                   *)
Careful(s) ==
  /\ s.kind = "let" => s.name # "seed" /\ (s.name \in NamedOwners => s.guarded)
  /\ s.kind = "drop" => s.name \in {"nonce_digest", "challenge_digest"}
  /\ s.kind = "failpoint" => s.point # "none"

(* What makes a statement of each kind careful.                            *)
LEMMA CarefulStatements ==
  /\ \A name, from : name # "seed" => Careful(Guarded(name, from))
  /\ \A name, from : name \notin NamedOwners => Careful(Plain(name, from))
  /\ \A name : Careful(Declassified(name)) /\ Careful(Branch(name))
  /\ \A point : point # "none" => Careful(Failpoint(point))
  /\ Careful(Consumed("nonce_digest")) /\ Careful(Consumed("challenge_digest"))
<1>1. \A name, from : name # "seed" => Careful(Guarded(name, from))
  BY Zenon DEF Careful, Guarded
<1>2. \A name, from : name \notin NamedOwners => Careful(Plain(name, from))
  <2> SUFFICES ASSUME NEW name, NEW from, name \notin NamedOwners
               PROVE  Careful(Plain(name, from))
    OBVIOUS
  <2>1. name # "seed"
    BY DEF NamedOwners
  <2>2. Plain(name, from).name = name /\ Plain(name, from).kind = "let"
    BY DEF Plain
  <2>3. "let" # "drop" /\ "let" # "failpoint"
    OBVIOUS
  <2> QED  BY <2>1, <2>2, <2>3, Zenon DEF Careful
<1>3. \A name : Careful(Declassified(name)) /\ Careful(Branch(name))
  BY DEF Careful, Declassified, Branch
<1>4. \A point : point # "none" => Careful(Failpoint(point))
  BY DEF Careful, Failpoint
<1>5. Careful(Consumed("nonce_digest"))
          /\ Careful(Consumed("challenge_digest"))
  BY DEF Careful, Consumed
<1> QED  BY <1>1, <1>2, <1>3, <1>4, <1>5

(* Every statement of the three bodies is careful.                         *)
LEMMA CarefulBodies ==
  \A f \in Functions : \A i \in 1 .. Len(Body[f]) : Careful(Body[f][i])
<1>1. \A i \in 1 .. 17 : Careful(DeriveBody[i])
  BY DeriveTable, CarefulStatements DEF NamedOwners
<1>2. \A i \in 1 .. 33 : Careful(SignExpandedBody[i])
  BY SignTable, CarefulStatements DEF NamedOwners
<1>3. \A i \in 1 .. 1 : Careful(ExportBody[i])
  BY ExportTable, CarefulStatements
<1>4. /\ Body["derive"] = DeriveBody /\ Body["sign"] = SignExpandedBody
      /\ Body["verifying_key"] = ExportBody
  BY DEF Body
<1>5. /\ Len(DeriveBody) = 17 /\ Len(SignExpandedBody) = 33
      /\ Len(ExportBody) = 1
  BY DeriveTable, SignTable, ExportTable DEF Lists
<1> QED
  BY <1>1, <1>2, <1>3, <1>4, <1>5 DEF Functions

(* g is f with other frames.                                               *)
Framed(g, key, call, inner) ==
  /\ DOMAIN g = Frames
  /\ g["key"] = key /\ g["call"] = call /\ g["function"] = inner

(* The frame of the function is set, and the others are kept.              *)
LEMMA FunctionFrameSet ==
  ASSUME NEW f, NEW v, NEW g, DOMAIN f = Frames,
         g = [f EXCEPT !["function"] = v]
  PROVE  Framed(g, f["key"], f["call"], v)
  BY DEF Frames, Framed

(* The frame of the key is set, and the others are kept.                   *)
LEMMA KeyFrameSet ==
  ASSUME NEW f, NEW v, NEW g, DOMAIN f = Frames,
         g = [f EXCEPT !["key"] = v]
  PROVE  Framed(g, v, f["call"], f["function"])
  BY DEF Frames, Framed

(* Both frames of a call are set, and that of the key is kept.             *)
LEMMA TwoFramesSet ==
  ASSUME NEW f, NEW v, NEW w, NEW g, DOMAIN f = Frames,
         g = [f EXCEPT !["function"] = v, !["call"] = w]
  PROVE  Framed(g, f["key"], w, v)
  BY DEF Frames, Framed

-----------------------------------------------------------------------------
(* The inductive invariant of a call.                                      *)

(* The operations there are.                                               *)
OperationOK == operation \in {"none", "sign", "verifying_key"}

(* Every named owner in memory is in a frame.                              *)
OwnersAreFramed ==
  memory \cap NamedOwners
    \subseteq owned["key"] \cup owned["call"] \cup owned["function"]

(* Which frame may hold what, and when.                                    *)
FramesOK ==
  /\ owned["key"] \subseteq {"seed"}
  /\ "seed" \notin owned["call"] \cup owned["function"]
  /\ owned["call"] \subseteq {"reduced_scalar", "prefix"}
  /\ function \in {"idle", "derive"} => owned["call"] = {}
  /\ function = "idle" => owned["function"] = {}

(* What derive is going to return is guarded from the start.               *)
DeriveOK ==
  function = "derive" =>
    /\ at > 3 => "prefix" \in owned["function"]
    /\ at > 4 => "reduced_scalar" \in owned["function"]

(* The outcome is cleared on entry and set when the call ends.             *)
ResultOK == function # "idle" => result = "none"

(* The inductive invariant of a call.                                      *)
FlowInv ==
  FlowTypeOK /\ OperationOK /\ OwnersAreFramed /\ FramesOK /\ DeriveOK
    /\ ResultOK

(* The bodies have lengths.                                                *)
LEMMA BodyLengths ==
  \A f \in Functions : Len(Body[f]) \in Nat
<1>1. /\ Body["derive"] = DeriveBody /\ Body["sign"] = SignExpandedBody
      /\ Body["verifying_key"] = ExportBody
  BY DEF Body
<1>2. /\ Len(DeriveBody) = 17 /\ Len(SignExpandedBody) = 33
      /\ Len(ExportBody) = 1
  BY DeriveTable, SignTable, ExportTable DEF Lists
<1> QED
  BY <1>1, <1>2 DEF Functions

(* It holds in the state a process begins in.                              *)
LEMMA InitFlow == FlowInit => FlowInv
<1> SUFFICES ASSUME FlowInit PROVE FlowInv
  OBVIOUS
<1>1. owned = [frame \in Frames |-> {}] /\ memory = {}
  BY DEF FlowInit
<1>2. DOMAIN owned = Frames /\ \A frame \in Frames : owned[frame] = {}
  BY <1>1
<1>3. "key" \in Frames /\ "call" \in Frames /\ "function" \in Frames
  BY DEF Frames
<1>4. function = "idle" /\ operation = "none" /\ result = "none"
  BY DEF FlowInit
<1> QED
  BY <1>1, <1>2, <1>3, <1>4
     DEF FlowInv, FlowTypeOK, OperationOK, OwnersAreFramed, FramesOK, DeriveOK,
         ResultOK

(* It is kept when a call ends, in whatever way: both frames are wiped.    *)
LEMMA EndCallKeeps ==
  ASSUME FlowInv, function # "idle",
         NEW outcome \in {"ok", "InternalFailure", "panicked"},
         EndCall(outcome)
  PROVE  FlowInv'
<1>1. DOMAIN owned = Frames
          /\ \A frame \in Frames : owned[frame] \subseteq memory
  BY DEF FlowInv, FlowTypeOK
<1>2. owned' = [owned EXCEPT !["function"] = {}, !["call"] = {}]
  BY DEF EndCall
<1>3. /\ DOMAIN owned' = Frames /\ owned'["function"] = {}
      /\ owned'["call"] = {} /\ owned'["key"] = owned["key"]
  <2>1. DOMAIN owned = Frames
    BY <1>1
  <2>2. Framed(owned', owned["key"], {}, {})
    BY <2>1, <1>2, TwoFramesSet
  <2> QED  BY <2>2 DEF Framed
<1>4. memory' = memory \ (owned["function"] \cup owned["call"])
  BY DEF EndCall, Wipe
<1>5. function' = "idle" /\ operation' = "none" /\ result' = outcome
  BY DEF EndCall
<1>6. /\ owned["key"] \subseteq {"seed"}
      /\ "seed" \notin owned["call"] \cup owned["function"]
  BY DEF FlowInv, FramesOK
<1>7. FlowTypeOK'
  <2>1. owned["key"] \subseteq memory'
    BY <1>1, <1>4, <1>6 DEF Frames
  <2>2. \A frame \in Frames : owned'[frame] \subseteq memory'
    BY <1>3, <2>1 DEF Frames
  <2> QED  BY <1>3, <1>5, <2>2 DEF FlowTypeOK
<1>8. OwnersAreFramed'
  BY <1>3, <1>4 DEF OwnersAreFramed, FlowInv
<1>9. OperationOK' /\ FramesOK' /\ DeriveOK' /\ ResultOK'
  BY <1>3, <1>5, <1>6 DEF OperationOK, FramesOK, DeriveOK, ResultOK
<1> QED  BY <1>7, <1>8, <1>9 DEF FlowInv

(* Control goes on in the same function, and the frames lose nothing that  *)
(* derive returns.                                                         *)
LEMMA AdvanceKeeps ==
  ASSUME FlowInv, NEW kind, Runs(kind), Advance
  PROVE  /\ function' \in Functions /\ operation' \in {"sign", "verifying_key"}
         /\ at' \in 1 .. Len(Body[function']) + 1 /\ at' = at + 1
         /\ at \in 1 .. Len(Body[function])
         /\ operation' = operation /\ function' = function
         /\ result' = "none" /\ function \in Functions
         /\ (function = "derive" /\ at \in {3, 4}) => kind = "let"
<1>1. /\ function \in Functions /\ at \in 1 .. Len(Body[function]) + 1
      /\ operation # "none" /\ result = "none"
             /\ operation \in {"sign", "verifying_key"}
  BY DEF FlowInv, FlowTypeOK, OperationOK, ResultOK, Runs, Functions
<1>2. at <= Len(Body[function]) /\ Body[function][at].kind = kind
  BY DEF Runs, Statement
<1>3. /\ at' = at + 1 /\ operation' = operation /\ function' = function
      /\ result' = result
  BY DEF Advance
<1>4. Len(Body[function]) \in Nat
  BY <1>1, BodyLengths
<1>5. (function = "derive" /\ at \in {3, 4}) => kind = "let"
  <2> SUFFICES ASSUME function = "derive", at \in {3, 4} PROVE kind = "let"
    OBVIOUS
  <2>1. Body[function] = DeriveBody
    BY DEF Body
  <2>2. DeriveBody[3].kind = "let" /\ DeriveBody[4].kind = "let"
    BY DeriveTable DEF Guarded
  <2> QED  BY <1>2, <2>1, <2>2
<1> QED  BY <1>1, <1>2, <1>3, <1>4, <1>5

(* It is kept when a value is made: a named owner goes into a frame.       *)
LEMMA LetKeeps ==
  ASSUME FlowInv, Let
  PROVE  FlowInv'
<1> DEFINE s == Statement
<1>1. Runs("let") /\ Advance /\ memory' = memory \cup {s.name}
  BY DEF Let
<1>2. owned' = IF s.guarded THEN [owned EXCEPT !["function"] = @ \cup {s.name}]
               ELSE owned
  BY DEF Let
<1>3. s.kind = "let" /\ s = Body[function][at]
  BY <1>1 DEF Runs, Statement
<1>4. /\ function' \in Functions /\ operation' \in {"sign", "verifying_key"}
      /\ at' \in 1 .. Len(Body[function']) + 1 /\ at' = at + 1
      /\ at \in 1 .. Len(Body[function])
      /\ operation' = operation /\ function' = function
      /\ result' = "none" /\ function \in Functions
  BY <1>1, AdvanceKeeps
<1>5. s.name # "seed" /\ (s.name \in NamedOwners => s.guarded)
  BY <1>3, <1>4, CarefulBodies DEF Careful
<1> HIDE DEF s
<1>6. DOMAIN owned = Frames
          /\ \A frame \in Frames : owned[frame] \subseteq memory
  BY DEF FlowInv, FlowTypeOK
<1>7. /\ DOMAIN owned' = Frames
      /\ owned'["call"] = owned["call"] /\ owned'["key"] = owned["key"]
      /\ owned["function"] \subseteq owned'["function"]
      /\ owned'["function"] \subseteq owned["function"] \cup {s.name}
      /\ s.guarded => s.name \in owned'["function"]
  <2>1. CASE s.guarded
    <3>1. owned' =
            [owned EXCEPT !["function"] = owned["function"] \cup {s.name}]
      BY <1>2, <2>1
    <3>2. /\ DOMAIN owned' = Frames
          /\ owned'["function"] = owned["function"] \cup {s.name}
          /\ owned'["call"] = owned["call"] /\ owned'["key"] = owned["key"]
      <4>1. DOMAIN owned = Frames
        BY <1>6
      <4>2. Framed(owned', owned["key"], owned["call"],
                   owned["function"] \cup {s.name})
        BY <4>1, <3>1, FunctionFrameSet
      <4> QED  BY <4>2 DEF Framed
    <3> QED  BY <3>2
  <2>2. CASE ~s.guarded
    <3>1. owned' = owned
      BY <1>2, <2>2, Zenon
    <3> QED  BY <3>1, <2>2, <1>6
  <2> QED  BY <2>1, <2>2, Zenon
<1>8. FlowTypeOK'
  <2>1. \A frame \in Frames : owned'[frame] \subseteq memory'
    <3>1. /\ owned["key"] \subseteq memory /\ owned["call"] \subseteq memory
          /\ owned["function"] \subseteq memory
      BY <1>6 DEF Frames
    <3>2. /\ owned'["key"] \subseteq memory'
                 /\ owned'["call"] \subseteq memory'
          /\ owned'["function"] \subseteq memory'
      BY <1>1, <1>7, <3>1
    <3> QED  BY <3>2 DEF Frames
  <2> QED  BY <1>4, <1>7, <2>1 DEF FlowTypeOK, Functions
<1>9. OwnersAreFramed'
  <2>1. OwnersAreFramed
    BY DEF FlowInv
  <2>2. CASE s.name \in NamedOwners
    <3>1. s.name \in owned'["function"]
      BY <2>2, <1>5, <1>7, Zenon
    <3> QED  BY <3>1, <2>1, <1>1, <1>7 DEF OwnersAreFramed
  <2>3. CASE s.name \notin NamedOwners
    BY <2>3, <2>1, <1>1, <1>7 DEF OwnersAreFramed
  <2> QED  BY <2>2, <2>3
<1>10. FramesOK'
  BY <1>4, <1>5, <1>7 DEF FlowInv, FramesOK, Functions
<1>11. DeriveOK'
  <2> SUFFICES ASSUME function = "derive"
               PROVE  /\ at' > 3 => "prefix" \in owned'["function"]
                      /\ at' > 4 => "reduced_scalar" \in owned'["function"]
    BY <1>4 DEF DeriveOK
  <2>1. /\ at > 3 => "prefix" \in owned["function"]
        /\ at > 4 => "reduced_scalar" \in owned["function"]
    BY DEF FlowInv, DeriveOK
  <2>2. s = DeriveBody[at]
    BY <1>3 DEF Body
  <2>3. at = 3 => "prefix" \in owned'["function"]
    <3>1. DeriveBody[3].name = "prefix" /\ DeriveBody[3].guarded
      BY DeriveTable DEF Guarded
    <3> QED  BY <3>1, <2>2, <1>7
  <2>4. at = 4 => "reduced_scalar" \in owned'["function"]
    <3>1. DeriveBody[4].name = "reduced_scalar" /\ DeriveBody[4].guarded
      BY DeriveTable DEF Guarded
    <3> QED  BY <3>1, <2>2, <1>7
  <2>5. at \in Int /\ at' = at + 1
    BY <1>4
  <2> QED  BY <2>1, <2>3, <2>4, <2>5, <1>7
<1>12. OperationOK' /\ ResultOK'
  BY <1>4 DEF OperationOK, ResultOK
<1> QED  BY <1>8, <1>9, <1>10, <1>11, <1>12 DEF FlowInv

(* A statement that makes nothing: fewer values at most, none of them in a *)
(* frame or a named owner.                                                 *)
LEMMA QuietKeeps ==
  ASSUME FlowInv, NEW kind, kind # "let", Runs(kind), Advance,
         DOMAIN owned' = Frames,
         owned'["key"] = owned["key"], owned'["call"] = owned["call"],
         NEW gone, gone \cap NamedOwners = {}, gone \cap {"seed"} = {},
         owned'["function"] = owned["function"] \ gone,
         memory' = memory \ gone
  PROVE  FlowInv'
<1>1. /\ function' \in Functions /\ operation' \in {"sign", "verifying_key"}
      /\ at' \in 1 .. Len(Body[function']) + 1 /\ at' = at + 1
      /\ at \in 1 .. Len(Body[function])
      /\ operation' = operation /\ function' = function
      /\ result' = "none" /\ function \in Functions
      /\ (function = "derive" /\ at \in {3, 4}) => kind = "let"
  BY AdvanceKeeps
<1>2. /\ owned["key"] \subseteq {"seed"}
      /\ "seed" \notin owned["call"] \cup owned["function"]
      /\ owned["call"] \subseteq {"reduced_scalar", "prefix"}
      /\ function \in {"idle", "derive"} => owned["call"] = {}
  BY DEF FlowInv, FramesOK
<1>3. /\ owned["key"] \subseteq memory /\ owned["call"] \subseteq memory
      /\ owned["function"] \subseteq memory
  BY DEF FlowInv, FlowTypeOK, Frames
<1>4. /\ "reduced_scalar" \notin gone /\ "prefix" \notin gone
      /\ "seed" \notin gone
  BY DEF NamedOwners
<1>5. FlowTypeOK'
  <2>1. /\ owned'["key"] \subseteq memory' /\ owned'["call"] \subseteq memory'
        /\ owned'["function"] \subseteq memory'
    BY <1>2, <1>3, <1>4
  <2>2. \A frame \in Frames : owned'[frame] \subseteq memory'
    BY <2>1 DEF Frames
  <2> QED  BY <1>1, <2>2 DEF FlowTypeOK, Functions
<1>6. OwnersAreFramed'
  <2>1. OwnersAreFramed
    BY DEF FlowInv
  <2> QED  BY <2>1 DEF OwnersAreFramed
<1>7. FramesOK'
  BY <1>1, <1>2 DEF FramesOK, Functions
<1>8. DeriveOK'
  <2> SUFFICES ASSUME function = "derive"
               PROVE  /\ at' > 3 => "prefix" \in owned'["function"]
                      /\ at' > 4 => "reduced_scalar" \in owned'["function"]
    BY <1>1 DEF DeriveOK
  <2>1. /\ at > 3 => "prefix" \in owned["function"]
        /\ at > 4 => "reduced_scalar" \in owned["function"]
    BY DEF FlowInv, DeriveOK
  <2>2. at # 3 /\ at # 4 /\ at \in Int /\ at' = at + 1
    BY <1>1
  <2> QED  BY <2>1, <2>2, <1>4
<1>9. OperationOK' /\ ResultOK'
  BY <1>1 DEF OperationOK, ResultOK
<1> QED  BY <1>5, <1>6, <1>7, <1>8, <1>9 DEF FlowInv

(* It is kept by a statement that only lets control go on.                 *)
LEMMA SilentKeeps ==
  ASSUME FlowInv, NEW kind, kind # "let", Runs(kind), Advance,
         owned' = owned, memory' = memory
  PROVE  FlowInv'
<1>1. DOMAIN owned' = Frames
  BY DEF FlowInv, FlowTypeOK
<1>2. owned'["key"] = owned["key"] /\ owned'["call"] = owned["call"]
  OBVIOUS
<1>3. /\ owned'["function"] = owned["function"] \ {}
      /\ memory' = memory \ {}
  OBVIOUS
<1>4. {} \cap NamedOwners = {} /\ {} \cap {"seed"} = {}
  OBVIOUS
<1> QED  BY <1>1, <1>2, <1>3, <1>4, QuietKeeps

(* It is kept when a digest that is no named owner is consumed.            *)
LEMMA ConsumeKeeps ==
  ASSUME FlowInv, Consume
  PROVE  FlowInv'
<1> DEFINE s == Statement
<1>1. /\ Runs("drop") /\ Advance /\ memory' = memory \ {s.name}
      /\ owned' = [owned EXCEPT !["function"] = @ \ {s.name}]
  BY DEF Consume, Wipe
<1>2. s.kind = "drop" /\ s = Body[function][at]
  BY <1>1 DEF Runs, Statement
<1>3. at \in 1 .. Len(Body[function]) /\ function \in Functions
  BY <1>1, AdvanceKeeps
<1>4. s.name \in {"nonce_digest", "challenge_digest"}
  BY <1>2, <1>3, CarefulBodies DEF Careful
<1> HIDE DEF s
<1>5. /\ DOMAIN owned' = Frames
      /\ owned'["key"] = owned["key"] /\ owned'["call"] = owned["call"]
      /\ owned'["function"] = owned["function"] \ {s.name}
  <2>1. DOMAIN owned = Frames
    BY DEF FlowInv, FlowTypeOK
  <2>2. owned' = [owned EXCEPT !["function"] = owned["function"] \ {s.name}]
    BY <1>1
  <2>3. Framed(owned', owned["key"], owned["call"],
            owned["function"] \ {s.name})
    BY <2>1, <2>2, FunctionFrameSet
  <2> QED  BY <2>3 DEF Framed
<1>6. {s.name} \cap NamedOwners = {} /\ {s.name} \cap {"seed"} = {}
  BY <1>4 DEF NamedOwners
<1>7. "drop" # "let"
  OBVIOUS
<1> QED  BY <1>1, <1>5, <1>6, <1>7, QuietKeeps

(* It is kept when derive returns: what moves to the call is guarded, and  *)
(* all else that the function owns is wiped.                               *)
LEMMA ReturnDerivedKeeps ==
  ASSUME FlowInv, ReturnDerived
  PROVE  FlowInv'
<1> DEFINE moved == {"reduced_scalar", "prefix"}
<1>1. /\ function = "derive" /\ at > Len(DeriveBody)
      /\ memory' = memory \ (owned["function"] \ moved)
      /\ owned' = [owned EXCEPT !["function"] = {}, !["call"] = moved]
      /\ function' = operation /\ at' = 1
  BY DEF ReturnDerived, Wipe
<1>2. operation' = operation /\ result' = result
  BY DEF ReturnDerived
<1>3. Len(DeriveBody) = 17 /\ Body["derive"] = DeriveBody
  BY DeriveTable DEF Lists, Body
<1>4. at \in Int
  BY <1>1, <1>3 DEF FlowInv, FlowTypeOK
<1>5. "prefix" \in owned["function"] /\ "reduced_scalar" \in owned["function"]
  BY <1>1, <1>3, <1>4 DEF FlowInv, DeriveOK
<1>6. operation \in {"sign", "verifying_key"}
  BY <1>1 DEF FlowInv, OperationOK, FlowTypeOK
<1>7. /\ DOMAIN owned' = Frames /\ owned'["key"] = owned["key"]
      /\ owned'["call"] = moved /\ owned'["function"] = {}
  <2>1. DOMAIN owned = Frames
    BY DEF FlowInv, FlowTypeOK
  <2>2. Framed(owned', owned["key"], moved, {})
    BY <2>1, <1>1, TwoFramesSet
  <2> QED  BY <2>2 DEF Framed
<1>8. /\ owned["key"] \subseteq {"seed"}
      /\ "seed" \notin owned["call"] \cup owned["function"]
      /\ owned["call"] = {}
  BY <1>1 DEF FlowInv, FramesOK
<1>9. /\ owned["key"] \subseteq memory /\ owned["function"] \subseteq memory
  BY DEF FlowInv, FlowTypeOK, Frames
<1>10. FlowTypeOK'
  <2>1. /\ owned'["key"] \subseteq memory' /\ owned'["call"] \subseteq memory'
        /\ owned'["function"] \subseteq memory'
    BY <1>1, <1>5, <1>7, <1>8, <1>9
  <2>2. \A frame \in Frames : owned'[frame] \subseteq memory'
    BY <2>1 DEF Frames
  <2>3. Len(Body[function']) \in Nat
    BY <1>1, <1>6, BodyLengths DEF Functions
  <2>4. at' \in 1 .. Len(Body[function']) + 1
    BY <1>1, <2>3
  <2>5. result' \in {"none", "ok", "InternalFailure", "panicked"}
    BY <1>2 DEF FlowInv, FlowTypeOK
  <2> QED  BY <1>1, <1>2, <1>6, <1>7, <2>2, <2>4, <2>5 DEF FlowTypeOK
<1>11. OwnersAreFramed'
  BY <1>1, <1>7, <1>8 DEF FlowInv, OwnersAreFramed
<1>12. FramesOK'
  BY <1>1, <1>6, <1>7, <1>8 DEF FramesOK
<1>13. OperationOK' /\ ResultOK' /\ DeriveOK'
  <2>1. result = "none"
    BY <1>1 DEF FlowInv, ResultOK
  <2> QED  BY <1>1, <1>2, <1>6, <2>1 DEF OperationOK, ResultOK, DeriveOK
<1> QED  BY <1>10, <1>11, <1>12, <1>13 DEF FlowInv

(* It is kept by every step of a call.                                     *)
LEMMA CallStepKeeps ==
  ASSUME FlowInv, CallStep
  PROVE  FlowInv'
<1>1. CASE Let
  BY <1>1, LetKeeps
<1>2. CASE Consume
  BY <1>2, ConsumeKeeps
<1>3. CASE Declassify
  <2>1. Runs("declassify") /\ Advance /\ owned' = owned /\ memory' = memory
    BY <1>3 DEF Declassify
  <2>2. "declassify" # "let"
    OBVIOUS
  <2> QED  BY <2>1, <2>2, SilentKeeps
<1>4. CASE Check
  <2>1. CASE Advance /\ owned' = owned /\ memory' = memory
    <3>1. Runs("branch") /\ "branch" # "let"
      BY <1>4 DEF Check
    <3> QED  BY <2>1, <3>1, SilentKeeps
  <2>2. CASE EndCall("InternalFailure")
    <3>1. function # "idle"
      BY <1>4 DEF Check, Runs
    <3> QED  BY <2>2, <3>1, EndCallKeeps
  <2> QED  BY <1>4, <2>1, <2>2 DEF Check
<1>5. CASE HitFailpoint
  <2>1. CASE Advance /\ owned' = owned /\ memory' = memory
    <3>1. Runs("failpoint") /\ "failpoint" # "let"
      BY <1>5 DEF HitFailpoint
    <3> QED  BY <2>1, <3>1, SilentKeeps
  <2>2. CASE EndCall("panicked")
    <3>1. function # "idle"
      BY <1>5 DEF HitFailpoint, Runs
    <3> QED  BY <2>2, <3>1, EndCallKeeps
  <2> QED  BY <1>5, <2>1, <2>2 DEF HitFailpoint
<1>6. CASE ReturnDerived
  BY <1>6, ReturnDerivedKeeps
<1>7. CASE ReturnFromCall
  <2>1. function # "idle" /\ EndCall("ok")
    BY <1>7 DEF ReturnFromCall
  <2> QED  BY <2>1, EndCallKeeps
<1> QED
  BY <1>1, <1>2, <1>3, <1>4, <1>5, <1>6, <1>7 DEF CallStep

(* It is kept when a key is imported or dropped.                           *)
LEMMA KeyStepsKeep ==
  ASSUME FlowInv
  PROVE  /\ \A undefined : ImportKey(undefined) => FlowInv'
         /\ DropKey => FlowInv'
<1>1. /\ DOMAIN owned = Frames
      /\ owned["key"] \subseteq memory /\ owned["call"] \subseteq memory
      /\ owned["function"] \subseteq memory
  BY DEF FlowInv, FlowTypeOK, Frames
<1>2. ASSUME NEW undefined, ImportKey(undefined) PROVE FlowInv'
  <2>1. /\ function = "idle" /\ memory' = memory \cup {"seed"}
        /\ owned' = [owned EXCEPT !["key"] = {"seed"}]
        /\ operation' = operation /\ function' = function /\ at' = at
        /\ result' = result
    BY <1>2 DEF ImportKey
  <2>2. Framed(owned', {"seed"}, owned["call"], owned["function"])
    BY <2>1, <1>1, KeyFrameSet
  <2> QED
    BY <1>1, <2>1, <2>2
       DEF Framed, Frames, FlowInv, FlowTypeOK, OperationOK, OwnersAreFramed,
           FramesOK, DeriveOK, ResultOK
<1>3. ASSUME DropKey PROVE FlowInv'
  <2>1. /\ function = "idle" /\ memory' = memory \ owned["key"]
        /\ owned' = [owned EXCEPT !["key"] = {}]
        /\ operation' = operation /\ function' = function /\ at' = at
        /\ result' = result
    BY <1>3 DEF DropKey, Wipe
  <2>2. Framed(owned', {}, owned["call"], owned["function"])
    BY <2>1, <1>1, KeyFrameSet
  <2> QED
    BY <1>1, <2>1, <2>2
       DEF Framed, Frames, FlowInv, FlowTypeOK, OperationOK, OwnersAreFramed,
           FramesOK, DeriveOK, ResultOK
<1> QED  BY <1>2, <1>3

(* It is kept when a call is entered.                                      *)
LEMMA EnterCallKeeps ==
  ASSUME FlowInv, NEW op \in {"sign", "verifying_key"}, EnterCall(op)
  PROVE  FlowInv'
<1>1. /\ function = "idle" /\ memory' = memory /\ owned' = owned
      /\ operation' = op /\ function' = "derive" /\ at' = 1
      /\ result' = "none"
  BY DEF EnterCall
<1>2. Len(Body["derive"]) \in Nat
  BY BodyLengths DEF Functions
<1> QED
  BY <1>1, <1>2
     DEF FlowInv, FlowTypeOK, OperationOK, OwnersAreFramed, FramesOK, DeriveOK,
         ResultOK

(* A step of a call panics only at the failpoint that is armed, and        *)
(* disarms it.                                                             *)
LEMMA PanicDisarms ==
  ASSUME FlowInv, CallStep
  PROVE  IF result' = "panicked"
         THEN failpoint # "none" /\ failpoint' = "none"
         ELSE failpoint' = failpoint
<1>1. function # "idle" => result = "none"
  BY DEF FlowInv, ResultOK
<1>2. CASE Let \/ Consume \/ Declassify
  <2>1. failpoint' = failpoint /\ Advance /\ function # "idle"
    BY <1>2 DEF Let, Consume, Declassify, Runs
  <2>2. result' = "none"
    BY <1>1, <2>1 DEF Advance
  <2> QED  BY <2>1, <2>2
<1>3. CASE Check
  <2>1. failpoint' = failpoint /\ function # "idle"
    BY <1>3 DEF Check, Runs
  <2>2. result' \in {"none", "InternalFailure"}
    BY <1>1, <1>3, <2>1 DEF Check, Advance, EndCall
  <2> QED  BY <2>1, <2>2
<1>4. CASE HitFailpoint
  <2>1. Runs("failpoint") /\ function # "idle"
    BY <1>4 DEF HitFailpoint, Runs
  <2>2. CASE failpoint = Statement.point
    <3>1. failpoint' = "none" /\ EndCall("panicked")
      BY <1>4, <2>2 DEF HitFailpoint
    <3>2. result' = "panicked"
      BY <3>1 DEF EndCall
    <3>3. Statement.point # "none"
      <4>1. Statement.kind = "failpoint" /\ Statement = Body[function][at]
        BY <2>1 DEF Runs, Statement
      <4>2. function \in Functions /\ at \in 1 .. Len(Body[function])
        <5>1. function \in Functions
          BY <2>1 DEF FlowInv, FlowTypeOK, Functions
        <5>2. Len(Body[function]) \in Nat
          BY <5>1, BodyLengths
        <5>3. at \in 1 .. Len(Body[function]) + 1 /\ at <= Len(Body[function])
          BY <2>1 DEF FlowInv, FlowTypeOK, Runs
        <5> QED  BY <5>1, <5>2, <5>3
      <4> QED  BY <4>1, <4>2, CarefulBodies DEF Careful
    <3> QED  BY <2>2, <3>1, <3>2, <3>3
  <2>3. CASE failpoint # Statement.point
    <3>1. failpoint' = failpoint /\ Advance
      BY <1>4, <2>3 DEF HitFailpoint
    <3>2. result' = "none"
      BY <1>1, <2>1, <3>1 DEF Advance
    <3> QED  BY <3>1, <3>2
  <2> QED  BY <2>2, <2>3
<1>5. CASE ReturnDerived
  <2>1. failpoint' = failpoint /\ result' = result /\ function = "derive"
    BY <1>5 DEF ReturnDerived
  <2> QED  BY <1>1, <2>1
<1>6. CASE ReturnFromCall
  BY <1>6 DEF ReturnFromCall, EndCall
<1> QED
  BY <1>2, <1>3, <1>4, <1>5, <1>6 DEF CallStep

=============================================================================
