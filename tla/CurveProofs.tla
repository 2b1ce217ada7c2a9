----------------------------- MODULE CurveProofs ----------------------------
(***************************************************************************)
(* Theorems about ScalarMul and PointCodec, for every prime, curve, group  *)
(* order and number of rounds of their assumptions: the 301-bit curve of   *)
(* the code, and not only the curve of 68 points of the runs.              *)
(*                                                                         *)
(* The layers, from the bottom up: congruence modulo P; inverses in the    *)
(* field and Fermat's little theorem, for the square root; the addition    *)
(* law, which is complete because A is a square and D is not; the formulas *)
(* of edwards.rs on representatives (X : Y : Z : T) of affine points; the  *)
(* logarithms that number the points; the loop; the codec.                 *)
(***************************************************************************)
EXTENDS ScalarMul, PointCodec, CurveScheme, WellFoundedInduction, TLAPS

-----------------------------------------------------------------------------
(* Induction, recursion, division and powers, as in ScalarProofs.          *)

(* Induction over the natural numbers, for a set.                          *)
LEMMA SetInduction ==
  ASSUME NEW S, 0 \in S, \A n \in Nat : n \in S => n + 1 \in S
  PROVE  \A n \in Nat : n \in S
<1> DEFINE Less == {pair \in Nat \X Nat : pair[1] < pair[2]}
           T == Nat \ S
<1>1. IsWellFoundedOn(Less, Nat)
  <2>1. OpToRel(<, Nat) = Less
    BY DEF OpToRel
  <2> HIDE DEF Less
  <2> QED
    BY NatLessThanWellFounded, <2>1
<1>2. SUFFICES ASSUME T # {} PROVE FALSE
  OBVIOUS
<1>3. T \subseteq Nat
  OBVIOUS
<1>4. PICK m \in T : \A n \in T : ~ (<<n, m>> \in Less)
  <2> HIDE DEF T, Less
  <2> QED
    BY <1>1, <1>2, <1>3, WFMin
<1>5. m \in Nat /\ m # 0 /\ m \notin S
  OBVIOUS
<1>6. m - 1 \in Nat /\ m = (m - 1) + 1
  BY <1>5
<1>7. m - 1 \in T
  BY <1>5, <1>6
<1>8. <<m - 1, m>> \in Less
  BY <1>5, <1>6
<1> QED
  BY <1>4, <1>7, <1>8

(* What it takes to define a function on Nat by primitive recursion, and   *)
(* the function: f[0] is first, f[n + 1] is made of n and f[n] by step.    *)
IsRecursion(V, first, step) == first \in V /\ step \in [Nat \X V -> V]

Follows(f, V, first, step) ==
  /\ f \in [Nat -> V] /\ f[0] = first
  /\ \A n \in Nat : f[n + 1] = step[<<n, f[n]>>]

LEMMA Recursion ==
  \A V, first, step :
    IsRecursion(V, first, step) => \E f : Follows(f, V, first, step)
<1> SUFFICES ASSUME NEW V, NEW first, NEW step, IsRecursion(V, first, step)
             PROVE  \E f : Follows(f, V, first, step)
  OBVIOUS
<1>0. first \in V /\ step \in [Nat \X V -> V]
  BY DEF IsRecursion
<1> DEFINE Upto(n, g) ==
             /\ g \in [0 .. n -> V] /\ g[0] = first
             /\ \A i \in 0 .. n - 1 : g[i + 1] = step[<<i, g[i]>>]
           Reached == {n \in Nat : \E g : Upto(n, g)}
<1>1. \A n \in Nat : n \in Reached
  <2>1. 0 \in Reached
    <3>1. Upto(0, [i \in 0 .. 0 |-> first])
      BY <1>0
    <3> QED  BY <3>1
  <2>2. ASSUME NEW n \in Nat, n \in Reached PROVE n + 1 \in Reached
    <3>1. PICK g : Upto(n, g)
      BY <2>2
    <3> DEFINE h == [i \in 0 .. n + 1 |->
                       IF i = n + 1 THEN step[<<n, g[n]>>] ELSE g[i]]
    <3>2. g[n] \in V
      BY <3>1
    <3>3. step[<<n, g[n]>>] \in V
      BY <1>0, <3>2
    <3>4. h \in [0 .. n + 1 -> V]
      BY <3>1, <3>3
    <3>5. h[0] = first
      BY <3>1
    <3>6. ASSUME NEW i \in 0 .. n PROVE h[i + 1] = step[<<i, h[i]>>]
      <4>1. h[i] = g[i] /\ i \in 0 .. n + 1 /\ i + 1 \in 0 .. n + 1
        OBVIOUS
      <4>2. CASE i = n
        BY <4>1, <4>2
      <4>3. CASE i # n
        <5>1. i \in 0 .. n - 1 /\ i + 1 # n + 1
          BY <4>3
        <5>2. g[i + 1] = step[<<i, g[i]>>]
          BY <5>1, <3>1
        <5> QED  BY <4>1, <5>1, <5>2
      <4> QED  BY <4>2, <4>3
    <3>7. Upto(n + 1, h)
      <4>1. \A i \in 0 .. (n + 1) - 1 : h[i + 1] = step[<<i, h[i]>>]
        <5> HIDE DEF h
        <5> QED  BY <3>6
      <4> HIDE DEF h
      <4> QED  BY <3>4, <3>5, <4>1
    <3>8. \E u : Upto(n + 1, u)
      <4> HIDE DEF h, Upto
      <4> QED  BY <3>7
    <3> HIDE DEF Upto
    <3> QED  BY <3>8
  <2> HIDE DEF Reached
  <2> QED  BY <2>1, <2>2, SetInduction
<1> DEFINE pick == [n \in Nat |-> CHOOSE g : Upto(n, g)]
           f == [n \in Nat |-> pick[n][n]]
<1>2. \A n \in Nat : Upto(n, pick[n])
  <2> SUFFICES ASSUME NEW n \in Nat PROVE Upto(n, pick[n])
    OBVIOUS
  <2>1. \E g : Upto(n, g)
    BY <1>1
  <2>2. pick[n] = CHOOSE g : Upto(n, g)
    OBVIOUS
  <2> HIDE DEF Upto, pick
  <2> QED  BY <2>1, <2>2
<1> HIDE DEF pick
<1>3. ASSUME NEW n \in Nat
      PROVE  pick[n + 1][n] = pick[n][n]
  <2> DEFINE Agree == {i \in Nat : i <= n => pick[n + 1][i] = pick[n][i]}
  <2>1. 0 \in Agree
    BY <1>2
  <2>2. ASSUME NEW i \in Nat, i \in Agree PROVE i + 1 \in Agree
    <3> SUFFICES ASSUME i + 1 <= n PROVE pick[n + 1][i + 1] = pick[n][i + 1]
      OBVIOUS
    <3>1. pick[n + 1][i] = pick[n][i]
      BY <2>2
    <3>2. Upto(n, pick[n]) /\ Upto(n + 1, pick[n + 1])
      BY <1>2
    <3>3. i \in 0 .. n - 1 /\ i \in 0 .. (n + 1) - 1
      OBVIOUS
    <3>4. pick[n][i + 1] = step[<<i, pick[n][i]>>]
      BY <3>2, <3>3
    <3>5. pick[n + 1][i + 1] = step[<<i, pick[n + 1][i]>>]
      BY <3>2, <3>3
    <3> QED  BY <3>1, <3>4, <3>5
  <2>3. \A i \in Nat : i \in Agree
    <3> HIDE DEF Agree
    <3> QED  BY <2>1, <2>2, SetInduction
  <2> QED  BY <2>3
<1>4. f \in [Nat -> V]
  BY <1>2
<1>5. f[0] = first
  BY <1>2
<1>6. ASSUME NEW n \in Nat PROVE f[n + 1] = step[<<n, f[n]>>]
  <2>1. Upto(n + 1, pick[n + 1])
    BY <1>2
  <2>2. pick[n + 1][n + 1] = step[<<n, pick[n + 1][n]>>]
    BY <2>1
  <2> QED  BY <2>2, <1>3
<1> HIDE DEF f
<1>7. Follows(f, V, first, step)
  BY <1>4, <1>5, <1>6 DEF Follows
<1> QED  BY <1>7

LEMMA DivisionOf ==
  ASSUME NEW a \in Int, NEW m \in Nat \ {0}
  PROVE  /\ a \div m \in Int /\ a % m \in 0 .. m - 1
         /\ a = m * (a \div m) + (a % m)
         /\ a \in Nat => a \div m \in Nat
OBVIOUS

LEMMA DivisionIs ==
  ASSUME NEW a \in Int, NEW m \in Nat \ {0}, NEW q \in Int, NEW r \in 0 .. m - 1,
         a = m * q + r
  PROVE  a \div m = q /\ a % m = r
OBVIOUS

(* The recursion of Power.                                                 *)
LEMMA PowerRecursion ==
  ASSUME NEW b \in Nat
  PROVE  /\ Power(b, 0) = 1
         /\ \A n \in Nat : /\ Power(b, n) \in Nat
                           /\ Power(b, n + 1) = b * Power(b, n)
<1> DEFINE Solves(f) == f = [i \in Nat |-> IF i = 0 THEN 1 ELSE b * f[i - 1]]
           power == CHOOSE f : Solves(f)
<1>1. \A n : Power(b, n) = power[n]
  BY DEF Power
<1>2. \E f : Solves(f)
  <2> DEFINE step == [p \in Nat \X Nat |-> b * p[2]]
  <2>1. IsRecursion(Nat, 1, step)
    BY DEF IsRecursion
  <2>2. PICK f : Follows(f, Nat, 1, step)
    BY <2>1, Recursion
  <2>3. \A n \in Nat : f[n + 1] = b * f[n]
    BY <2>2 DEF Follows
  <2>4. ASSUME NEW i \in Nat PROVE f[i] = IF i = 0 THEN 1 ELSE b * f[i - 1]
    <3>1. CASE i = 0
      BY <3>1, <2>2 DEF Follows
    <3>2. CASE i # 0
      <4>1. i - 1 \in Nat /\ i = (i - 1) + 1
        BY <3>2
      <4> QED  BY <3>2, <4>1, <2>3
    <3> QED  BY <3>1, <3>2
  <2>5. Solves(f)
    BY <2>2, <2>4 DEF Follows
  <2> QED  BY <2>5
<1>3. Solves(power)
  BY <1>2
<1> HIDE DEF power
<1>4. power[0] = 1 /\ \A n \in Nat : power[n + 1] = b * power[n]
  <2>1. ASSUME NEW n \in Nat PROVE power[n + 1] = b * power[n]
    <3>1. n + 1 \in Nat /\ n + 1 # 0 /\ (n + 1) - 1 = n
      OBVIOUS
    <3> QED  BY <3>1, <1>3
  <2>2. power[0] = 1
    BY <1>3
  <2> QED  BY <2>1, <2>2
<1> DEFINE S == {i \in Nat : power[i] \in Nat}
<1>5. \A n \in Nat : n \in S
  <2>1. 0 \in S
    BY <1>4
  <2>2. \A n \in Nat : n \in S => n + 1 \in S
    BY <1>4
  <2> HIDE DEF S
  <2> QED  BY <2>1, <2>2, SetInduction
<1> QED
  BY <1>1, <1>4, <1>5

LEMMA PowerIsPositive ==
  ASSUME NEW b \in Nat \ {0}, NEW n \in Nat
  PROVE  Power(b, n) \in Nat \ {0}
<1> DEFINE S == {i \in Nat : Power(b, i) \in Nat \ {0}}
<1>1. 0 \in S
  BY PowerRecursion
<1>2. ASSUME NEW i \in Nat, i \in S PROVE i + 1 \in S
  <2>1. Power(b, i + 1) = b * Power(b, i)
    BY PowerRecursion
  <2>2. \A x \in Nat \ {0} : b * x \in Nat \ {0}
    OBVIOUS
  <2> QED  BY <1>2, <2>1, <2>2
<1> HIDE DEF S
<1>3. n \in S
  BY <1>1, <1>2, SetInduction
<1> QED
  BY <1>3 DEF S

LEMMA PowerOfSum ==
  ASSUME NEW b \in Nat, NEW m \in Nat, NEW n \in Nat
  PROVE  Power(b, m + n) = Power(b, m) * Power(b, n)
<1> DEFINE S == {i \in Nat : Power(b, m + i) = Power(b, m) * Power(b, i)}
<1>1. Power(b, m) \in Nat
  BY PowerRecursion
<1>2. 0 \in S
  BY <1>1, PowerRecursion
<1>3. ASSUME NEW i \in Nat, i \in S PROVE i + 1 \in S
  <2>1. Power(b, i + 1) = b * Power(b, i) /\ Power(b, i) \in Nat
    BY PowerRecursion
  <2>2. m + i \in Nat /\ m + (i + 1) = (m + i) + 1
    OBVIOUS
  <2>3. Power(b, m + (i + 1)) = b * Power(b, m + i)
    BY <2>2, PowerRecursion
  <2>4. \A x, y \in Nat : b * (x * y) = x * (b * y)
    OBVIOUS
  <2> QED  BY <1>1, <1>3, <2>1, <2>3, <2>4
<1> HIDE DEF S
<1>4. n \in S
  BY <1>2, <1>3, SetInduction
<1> QED
  BY <1>4 DEF S

-----------------------------------------------------------------------------
(* Integers modulo the prime P.                                            *)

Same(a, b) == a % P = b % P

LEMMA Closed ==
  \A a, b \in Int : a + b \in Int /\ a - b \in Int /\ a * b \in Int
OBVIOUS

LEMMA PIsPositive == P \in Nat \ {0, 1, 2} /\ P \in Int
  BY FieldAssumption

LEMMA SameEquivalence ==
  /\ \A a : Same(a, a)
  /\ \A a, b : Same(a, b) => Same(b, a)
  /\ \A a, b, c : Same(a, b) /\ Same(b, c) => Same(a, c)
  BY DEF Same

LEMMA SameBy ==
  ASSUME NEW a \in Int, NEW b \in Int
  PROVE  Same(a, b) <=> \E k \in Int : a = b + P * k
<1>1. P \in Nat \ {0}
  BY PIsPositive
<1>2. ASSUME Same(a, b) PROVE \E k \in Int : a = b + P * k
  <2> DEFINE k == (a \div P) - (b \div P)
  <2>1. /\ a = P * (a \div P) + (a % P) /\ b = P * (b \div P) + (b % P)
        /\ a \div P \in Int /\ b \div P \in Int /\ b % P \in Int
    BY <1>1, DivisionOf
  <2>2. a % P = b % P
    BY <1>2 DEF Same
  <2>3. \A q, p, r \in Int : P * q + r = (P * p + r) + P * (q - p)
    BY <1>1
  <2> QED  BY <2>1, <2>2, <2>3
<1>3. ASSUME NEW k \in Int, a = b + P * k PROVE Same(a, b)
  <2> DEFINE q == b \div P
             r == b % P
             p == q + k
  <2>1. b = P * q + r /\ q \in Int /\ r \in 0 .. P - 1
    BY <1>1, DivisionOf
  <2>2. r % P = r /\ p \in Int
    BY <1>1, <2>1
  <2> HIDE DEF q, r
  <2>3. a = P * p + r
    BY <1>1, <1>3, <2>1
  <2> HIDE DEF p
  <2>4. a % P = r
    BY <1>1, <2>1, <2>2, <2>3, DivisionIs
  <2> QED  BY <2>4 DEF Same, r
<1> QED  BY <1>2, <1>3

(* Sums, differences and products of congruent integers.                   *)
LEMMA SameArithmetic ==
  ASSUME NEW a \in Int, NEW b \in Int, NEW c \in Int, NEW d \in Int,
         Same(a, b), Same(c, d)
  PROVE  Same(a + c, b + d) /\ Same(a - c, b - d) /\ Same(a * c, b * d)
<1>1. P \in Int
  BY PIsPositive
<1>2. PICK k \in Int : a = b + P * k
  BY SameBy
<1>3. PICK l \in Int : c = d + P * l
  BY SameBy
<1>4. a + c = (b + d) + P * (k + l) /\ a - c = (b - d) + P * (k - l)
  BY <1>1, <1>2, <1>3
<1> DEFINE m == b * l + k * d + P * (k * l)
<1>5. m \in Int /\ a * c = b * d + P * m
  <2>1. (b + P * k) * (d + P * l) = b * d + P * m
    BY <1>1
  <2> QED  BY <1>1, <1>2, <1>3, <2>1
<1> HIDE DEF m
<1>6. Same(a + c, b + d)
  BY <1>4, SameBy
<1>7. Same(a - c, b - d)
  BY <1>4, SameBy
<1>8. Same(a * c, b * d)
  BY <1>5, SameBy
<1> QED  BY <1>6, <1>7, <1>8

LEMMA SameSum ==
  \A a, b, c, d \in Int : Same(a, b) /\ Same(c, d) => Same(a + c, b + d)
  BY SameArithmetic

LEMMA SameDifference ==
  \A a, b, c, d \in Int : Same(a, b) /\ Same(c, d) => Same(a - c, b - d)
  BY SameArithmetic

LEMMA SameProduct ==
  \A a, b, c, d \in Int : Same(a, b) /\ Same(c, d) => Same(a * c, b * d)
  BY SameArithmetic

LEMMA SameTimes ==
  \A a, b, c \in Int : Same(b, c) => Same(a * b, a * c) /\ Same(b * a, c * a)
<1> SUFFICES ASSUME NEW a \in Int, NEW b \in Int, NEW c \in Int, Same(b, c)
             PROVE  Same(a * b, a * c) /\ Same(b * a, c * a)
  OBVIOUS
<1>1. Same(a, a)
  BY SameEquivalence
<1>2. Same(a * b, a * c)
  BY <1>1, SameProduct
<1>3. Same(b * a, c * a)
  BY <1>1, SameProduct
<1> QED  BY <1>2, <1>3

LEMMA SameRemainder ==
  ASSUME NEW a \in Int
  PROVE  /\ a % P \in Residues /\ a % P \in Nat /\ Same(a % P, a)
         /\ a % P = 0 <=> Same(a, 0)
<1>1. P \in Nat \ {0}
  BY PIsPositive
<1> DEFINE r == a % P
<1>2. r \in 0 .. P - 1
  BY <1>1, DivisionOf
<1> HIDE DEF r
<1>3. r % P = r /\ 0 % P = 0
  BY <1>1, <1>2
<1> QED  BY <1>1, <1>2, <1>3 DEF r, Same, Residues

LEMMA ResiduesAreInt == Residues \subseteq Nat /\ Residues \subseteq Int
  BY PIsPositive DEF Residues

LEMMA SameResidues ==
  ASSUME NEW a \in Residues
  PROVE  /\ a % P = a
         /\ \A b \in Residues : Same(a, b) => a = b
         /\ \A b \in Int : Same(a, b) => a = b % P
         /\ a # 0 => ~ Same(a, 0)
<1>1. P \in Nat \ {0}
  BY PIsPositive
<1>2. \A b \in Residues : b % P = b
  BY <1>1 DEF Residues
<1>3. 0 \in Residues
  BY <1>1 DEF Residues
<1> QED  BY <1>2, <1>3 DEF Same

LEMMA Distinct == ~ Same(1, 0) /\ ~ Same(2, 0)
<1>1. P \in Nat \ {0, 1, 2}
  BY PIsPositive
<1>2. 1 \in Residues /\ 2 \in Residues
  BY <1>1 DEF Residues
<1> QED  BY <1>2, SameResidues

(* A multiple of x is the least positive residue among them: it divides P. *)
LEMMA Least ==
  ASSUME NEW T, T \subseteq Nat, T # {}
  PROVE  \E m \in T : \A n \in T : m <= n
<1> DEFINE Less == {pair \in Nat \X Nat : pair[1] < pair[2]}
<1>1. IsWellFoundedOn(Less, Nat)
  <2>1. OpToRel(<, Nat) = Less
    BY DEF OpToRel
  <2> HIDE DEF Less
  <2> QED
    BY NatLessThanWellFounded, <2>1
<1>2. PICK m \in T : \A n \in T : ~ (<<n, m>> \in Less)
  <2> HIDE DEF Less
  <2> QED
    BY <1>1, WFMin
<1>3. ASSUME NEW n \in T PROVE m <= n
  <2>1. n \in Nat /\ m \in Nat /\ ~ (<<n, m>> \in Less)
    BY <1>2
  <2> QED  BY <2>1
<1> QED  BY <1>2, <1>3

LEMMA HasInverse ==
  ASSUME NEW x \in Int, ~ Same(x, 0)
  PROVE  \E y \in Residues : Same(x * y, 1)
<1> DEFINE T == {n \in Nat \ {0} : \E y \in Int : Same(x * y, n)}
<1>1. x % P \in T
  <2>1. x % P \in Nat /\ x % P # 0 /\ Same(x, x % P)
    BY SameRemainder, SameEquivalence
  <2>2. x * 1 = x
    OBVIOUS
  <2> QED  BY <2>1, <2>2
<1>2. PICK m \in T : \A n \in T : m <= n
  <2>1. T \subseteq Nat /\ T # {}
    BY <1>1
  <2> HIDE DEF T
  <2> QED  BY <2>1, Least
<1>3. PICK y \in Int : Same(x * y, m)
  BY <1>2
<1>4. m \in Nat \ {0} /\ m < P
  <2>1. x % P \in 0 .. P - 1 /\ P \in Nat
    BY SameRemainder, PIsPositive DEF Residues
  <2>2. x % P < P /\ x % P \in Nat
    BY <2>1
  <2>3. m <= x % P /\ m \in Nat \ {0}
    BY <1>1, <1>2
  <2> QED  BY <2>1, <2>2, <2>3
<1> DEFINE q == P \div m
           r == P % m
           u == y * q
           z == 0 - u
<1>5. P = m * q + r /\ q \in Int /\ r \in 0 .. m - 1
  BY <1>4, PIsPositive, DivisionOf
<1> HIDE DEF q, r
<1>6. u \in Int /\ z \in Int
  BY <1>5
<1>7. Same(x * z, r)
  <2>1. Same((x * y) * q, m * q)
    <3> DEFINE a == x * y
    <3>1. a \in Int /\ m \in Int /\ q \in Int /\ Same(a, m) /\ Same(q, q)
      BY <1>3, <1>4, <1>5, SameEquivalence
    <3> HIDE DEF a
    <3>2. Same(a * q, m * q)
      BY <3>1, SameProduct
    <3> QED  BY <3>2 DEF a
  <2>2. Same(0 - (x * y) * q, 0 - m * q)
    <3> DEFINE a == (x * y) * q
               b == m * q
    <3>1. a \in Int /\ b \in Int /\ 0 \in Int /\ Same(a, b) /\ Same(0, 0)
      BY <1>4, <1>5, <2>1, SameEquivalence
    <3> HIDE DEF a, b
    <3>2. Same(0 - a, 0 - b)
      BY <3>1, SameDifference
    <3> QED  BY <3>2 DEF a, b
  <2>3. 0 - (x * y) * q = x * z
    BY <1>5
  <2>4. Same(r, 0 - m * q)
    <3>1. r = (0 - m * q) + P * 1 /\ r \in Int /\ 0 - m * q \in Int
      BY <1>4, <1>5, PIsPositive
    <3> QED  BY <3>1, SameBy
  <2> QED  BY <2>2, <2>3, <2>4, SameEquivalence
<1>8. r = 0
  <2> SUFFICES ASSUME r # 0 PROVE FALSE
    OBVIOUS
  <2>1. r \in T
    <3> HIDE DEF z
    <3>1. r \in Nat \ {0}
      BY <1>4, <1>5
    <3> QED  BY <1>6, <1>7, <3>1
  <2> HIDE DEF T
  <2>2. m <= r /\ m \in Int /\ r \in Int /\ r < m
    BY <1>2, <1>4, <1>5, <2>1
  <2> QED  BY <2>2
<1>9. m = 1
  <2> SUFFICES ASSUME m # 1 PROVE FALSE
    OBVIOUS
  <2>1. m \in 2 .. P - 1
    BY <1>4, PIsPositive
  <2> QED  BY <1>8, <2>1, FieldAssumption DEF r
<1> DEFINE w == y % P
<1>10. w \in Residues /\ w \in Int /\ Same(w, y)
  BY SameRemainder, ResiduesAreInt
<1> HIDE DEF w
<1>11. Same(x * w, x * y)
  BY <1>10, SameProduct, SameEquivalence
<1> QED  BY <1>3, <1>9, <1>10, <1>11, SameEquivalence

LEMMA NoZeroDivisors ==
  ASSUME NEW a \in Int, NEW b \in Int, Same(a * b, 0)
  PROVE  Same(a, 0) \/ Same(b, 0)
<1> SUFFICES ASSUME ~ Same(a, 0) PROVE Same(b, 0)
  OBVIOUS
<1>1. PICK y \in Residues : Same(a * y, 1)
  BY HasInverse
<1>2. y \in Int
  BY ResiduesAreInt
<1> DEFINE c == a * b
           d == a * y
<1>3. c \in Int /\ d \in Int /\ Same(c, 0) /\ Same(d, 1) /\ Same(y, y) /\ Same(b, b)
  BY <1>1, <1>2, SameEquivalence
<1>4. y * c = d * b /\ y * 0 = 0 /\ 1 * b = b
  BY <1>2
<1> HIDE DEF c, d
<1>5. Same(y * c, y * 0)
  BY <1>2, <1>3, SameProduct
<1>6. Same(d * b, 1 * b)
  BY <1>2, <1>3, SameProduct
<1> QED  BY <1>4, <1>5, <1>6, SameEquivalence

LEMMA NonzeroProduct ==
  ASSUME NEW a \in Int, NEW b \in Int
  PROVE  Same(a * b, 0) <=> Same(a, 0) \/ Same(b, 0)
<1>1. a * 0 = 0 /\ 0 * b = 0 /\ Same(a, a) /\ Same(b, b)
  BY SameEquivalence
<1>2. Same(a, 0) => Same(a * b, 0 * b)
  BY <1>1, SameProduct
<1>3. Same(b, 0) => Same(a * b, a * 0)
  BY <1>1, SameProduct
<1> QED  BY <1>1, <1>2, <1>3, NoZeroDivisors

LEMMA SameBySubtraction ==
  ASSUME NEW a \in Int, NEW b \in Int
  PROVE  Same(a, b) <=> Same(a - b, 0)
<1>1. ASSUME Same(a, b) PROVE Same(a - b, 0)
  <2>1. Same(a - b, b - b)
    BY <1>1, SameDifference, SameEquivalence
  <2>2. b - b = 0
    OBVIOUS
  <2> QED  BY <2>1, <2>2
<1>2. ASSUME Same(a - b, 0) PROVE Same(a, b)
  <2> DEFINE c == a - b
  <2>1. c \in Int /\ Same(c, 0) /\ Same(b, b) /\ c + b = a /\ 0 + b = b
    BY <1>2, SameEquivalence
  <2> HIDE DEF c
  <2>2. Same(c + b, 0 + b)
    BY <2>1, SameSum
  <2> QED  BY <2>1, <2>2
<1> QED  BY <1>1, <1>2

LEMMA Cancel ==
  ASSUME NEW a \in Int, NEW b \in Int, NEW c \in Int,
         ~ Same(a, 0), Same(a * b, a * c)
  PROVE  Same(b, c)
<1>1. a * b \in Int /\ a * c \in Int /\ b - c \in Int
      /\ a * b - a * c = a * (b - c)
  OBVIOUS
<1>2. Same(a * b - a * c, 0)
  BY <1>1, SameBySubtraction
<1>3. Same(b - c, 0)
  <2> DEFINE d == b - c
  <2>1. Same(a * d, 0) /\ d \in Int
    BY <1>1, <1>2
  <2> HIDE DEF d
  <2> QED  BY <2>1, NonzeroProduct DEF d
<1> QED  BY <1>3, SameBySubtraction

LEMMA Reciprocal ==
  ASSUME NEW x \in Int, ~ Same(x, 0)
  PROVE  LET r == Reciprocals[x % P]
         IN  r \in Residues /\ r \in Int /\ Same(x * r, 1) /\ ~ Same(r, 0)
<1> DEFINE w == x % P
           r == Reciprocals[w]
<1>1. w \in Residues /\ w # 0 /\ w \in Int /\ Same(w, x) /\ ~ Same(w, 0)
  BY SameRemainder, ResiduesAreInt, SameEquivalence
<1> HIDE DEF w
<1>2. PICK y \in Residues : Same(w * y, 1)
  BY <1>1, HasInverse
<1>3. 1 % P = 1
  BY PIsPositive
<1>4. Times(w, y) = 1
  BY <1>2, <1>3 DEF Times, Same
<1>5. r = CHOOSE v \in Residues : Times(w, v) = 1
  BY <1>1 DEF Reciprocals
<1>6. r \in Residues /\ Times(w, r) = 1
  BY <1>4, <1>5
<1> HIDE DEF r
<1>7. r \in Int /\ Same(w * r, 1)
  BY <1>3, <1>6, ResiduesAreInt DEF Times, Same
<1>8. Same(x * r, 1)
  <2>1. Same(w * r, x * r)
    BY <1>1, <1>7, SameProduct, SameEquivalence
  <2> QED  BY <1>7, <2>1, SameEquivalence
<1>9. ~ Same(r, 0)
  <2> SUFFICES ASSUME Same(r, 0) PROVE FALSE
    OBVIOUS
  <2>1. Same(w * r, 0)
    BY <1>1, <1>7, NonzeroProduct
  <2> QED  BY <1>7, <2>1, Distinct, SameEquivalence
<1> QED  BY <1>6, <1>7, <1>8, <1>9 DEF r, w

-----------------------------------------------------------------------------
(* Field elements, by the residues they stand for.                         *)

V(x) == FeToCanonical(x)

LEMMA RadixInverse ==
  /\ FieldRadix \in Int /\ FieldRadixInverse \in Int
  /\ Same(FieldRadixInverse * FieldRadix, 1)
<1>1. FieldRadix \in Nat /\ FieldRadix \in Int /\ FieldRadix % P # 0
  BY FieldAssumption
<1>2. ~ Same(FieldRadix, 0)
  BY <1>1, SameRemainder
<1>3. PICK y \in Residues : Same(FieldRadix * y, 1)
  BY <1>1, <1>2, HasInverse
<1>4. y \in FieldElement /\ y \in Int
  BY ResiduesAreInt DEF FieldElement, Residues
<1>5. 1 % P = 1
  BY PIsPositive
<1>6. (y * FieldRadix) % P = 1
  <2>1. y * FieldRadix = FieldRadix * y
    BY <1>1, <1>4
  <2> QED  BY <1>3, <1>5, <2>1 DEF Same
<1>7. /\ FieldRadixInverse \in FieldElement
      /\ (FieldRadixInverse * FieldRadix) % P = 1
  BY <1>4, <1>6 DEF FieldRadixInverse
<1> QED
  BY <1>1, <1>5, <1>7, ResiduesAreInt DEF Same, FieldElement, Residues

LEMMA ElementsAreResidues == FieldElement = Residues
  BY DEF FieldElement, Residues

LEMMA ValueOf ==
  ASSUME NEW x \in Int
  PROVE  /\ V(x) \in Residues /\ V(x) \in Int
         /\ Same(V(x), x * FieldRadixInverse)
<1>1. x * FieldRadixInverse \in Int
  BY RadixInverse
<1>2. V(x) = (x * FieldRadixInverse) % P
  BY DEF V, FeToCanonical, Form!Retrieve
<1> DEFINE a == x * FieldRadixInverse
<1> HIDE DEF a
<1>3. a % P \in Residues /\ Same(a % P, a)
  BY <1>1, SameRemainder DEF a
<1> QED  BY <1>2, <1>3, ResiduesAreInt DEF a

LEMMA ValueOfInteger ==
  ASSUME NEW n \in Int
  PROVE  /\ FeFromInteger(n) \in FieldElement
         /\ Same(V(FeFromInteger(n)), n)
<1> DEFINE R == FieldRadix
           I == FieldRadixInverse
           a == n * R
           f == a % P
<1>1. R \in Int /\ I \in Int /\ a \in Int /\ Same(I * R, 1)
  BY RadixInverse
<1>2. FeFromInteger(n) = f
  BY DEF FeFromInteger, Form!New
<1>3. n * (I * R) = a * I /\ n * 1 = n
  BY <1>1
<1> HIDE DEF R, I, a
<1>4. f \in Residues /\ f \in Int /\ Same(f, a)
  BY <1>1, SameRemainder, ResiduesAreInt
<1> HIDE DEF f
<1>5. Same(V(f), f * I) /\ V(f) \in Int
  BY <1>4, ValueOf DEF I
<1>6. Same(f * I, a * I)
  <2>1. f \in Int /\ a \in Int /\ I \in Int /\ Same(f, a) /\ Same(I, I)
    BY <1>1, <1>4, SameEquivalence
  <2> QED  BY <2>1, SameProduct
<1>7. Same(n * (I * R), n * 1)
  <2> DEFINE b == I * R
  <2>1. b \in Int /\ Same(b, 1) /\ Same(n, n)
    BY <1>1, SameEquivalence
  <2> HIDE DEF b
  <2>2. Same(n * b, n * 1)
    BY <2>1, SameProduct
  <2> QED  BY <2>2 DEF b
<1> QED
  BY <1>2, <1>3, <1>4, <1>5, <1>6, <1>7, SameEquivalence, ElementsAreResidues

(* Addition, subtraction, negation and multiplication of field elements    *)
(* are those of the residues.                                              *)
LEMMA FieldOperations ==
  ASSUME NEW x \in Int, NEW y \in Int
  PROVE  /\ FeAdd(x, y) \in FieldElement /\ Same(V(FeAdd(x, y)), V(x) + V(y))
         /\ FeSub(x, y) \in FieldElement /\ Same(V(FeSub(x, y)), V(x) - V(y))
         /\ FeMul(x, y) \in FieldElement /\ Same(V(FeMul(x, y)), V(x) * V(y))
         /\ FeNeg(x) \in FieldElement /\ Same(V(FeNeg(x)), 0 - V(x))
<1> DEFINE I == FieldRadixInverse
           a == x * I
           b == y * I
<1>1. I \in Int /\ a \in Int /\ b \in Int
  BY RadixInverse
<1>2. /\ V(x) \in Int /\ V(y) \in Int /\ Same(a, V(x)) /\ Same(b, V(y))
  BY ValueOf, SameEquivalence
<1>3. ASSUME NEW z \in Int
      PROVE  LET f == z % P
             IN  f \in FieldElement /\ f \in Int /\ Same(f, z) /\ Same(V(f), z * I)
  <2> DEFINE f == z % P
  <2>1. f \in Residues /\ f \in Int /\ Same(f, z)
    BY SameRemainder, ResiduesAreInt
  <2> HIDE DEF f
  <2>2. Same(V(f), f * I) /\ Same(f * I, z * I)
    BY <1>1, <2>1, ValueOf, SameProduct, SameEquivalence
  <2> QED  BY <2>1, <2>2, SameEquivalence, ElementsAreResidues DEF f
<1>4. FeAdd(x, y) \in FieldElement /\ Same(V(FeAdd(x, y)), V(x) + V(y))
  <2>1. FeAdd(x, y) = (x + y) % P /\ x + y \in Int
    BY DEF FeAdd, Form!Plus
  <2>2. FeAdd(x, y) \in FieldElement /\ Same(V(FeAdd(x, y)), (x + y) * I)
    BY <1>3, <2>1
  <2>3. (x + y) * I = a + b
    BY <1>1
  <2> HIDE DEF a, b
  <2>4. Same(a + b, V(x) + V(y))
    BY <1>1, <1>2, SameSum
  <2> QED  BY <2>2, <2>3, <2>4, SameEquivalence
<1>5. FeSub(x, y) \in FieldElement /\ Same(V(FeSub(x, y)), V(x) - V(y))
  <2>1. FeSub(x, y) = (x - y) % P /\ x - y \in Int
    BY DEF FeSub
  <2>2. FeSub(x, y) \in FieldElement /\ Same(V(FeSub(x, y)), (x - y) * I)
    BY <1>3, <2>1
  <2>3. (x - y) * I = a - b
    BY <1>1
  <2> HIDE DEF a, b
  <2>4. Same(a - b, V(x) - V(y))
    BY <1>1, <1>2, SameDifference
  <2> QED  BY <2>2, <2>3, <2>4, SameEquivalence
<1>6. FeNeg(x) \in FieldElement /\ Same(V(FeNeg(x)), 0 - V(x))
  <2>1. FeNeg(x) = (-x) % P /\ -x \in Int
    BY DEF FeNeg
  <2>2. FeNeg(x) \in FieldElement /\ Same(V(FeNeg(x)), (-x) * I)
    BY <1>3, <2>1
  <2>3. (-x) * I = 0 - a
    BY <1>1
  <2> HIDE DEF a, b
  <2>4. Same(0 - a, 0 - V(x))
    BY <1>1, <1>2, SameDifference, SameEquivalence
  <2> QED  BY <2>2, <2>3, <2>4, SameEquivalence
<1>7. FeMul(x, y) \in FieldElement /\ Same(V(FeMul(x, y)), V(x) * V(y))
  <2> DEFINE f == (x * y) % P
             c == x * y
             d == f * I
  <2>1. f \in Int /\ Same(f, c) /\ c \in Int
    BY SameRemainder, ResiduesAreInt
  <2>2. FeMul(x, y) = (f * I) % P
    BY DEF FeMul, Form!Mul
  <2> HIDE DEF f
  <2>3. d \in Int /\ FeMul(x, y) \in FieldElement /\ Same(V(FeMul(x, y)), d * I)
    BY <1>1, <1>3, <2>1, <2>2
  <2>4. (c * I) * I = a * b
    BY <1>1
  <2> DEFINE e == c * I
  <2>5. e \in Int /\ Same(d, e)
    <3> HIDE DEF c, I
    <3>1. f \in Int /\ c \in Int /\ I \in Int /\ Same(f, c) /\ Same(I, I)
      BY <1>1, <2>1, SameEquivalence
    <3> QED  BY <3>1, SameProduct
  <2> HIDE DEF c, d, e
  <2>6. Same(d * I, e * I)
    BY <1>1, <2>3, <2>5, SameProduct, SameEquivalence
  <2>7. e * I = a * b
    BY <2>4 DEF e
  <2> HIDE DEF a, b
  <2>8. Same(a * b, V(x) * V(y))
    BY <1>1, <1>2, SameProduct
  <2> QED  BY <2>3, <2>6, <2>7, <2>8, SameEquivalence
<1> QED  BY <1>4, <1>5, <1>6, <1>7

(* A field element is known by its residue.                                *)
LEMMA ValueIsInjective ==
  ASSUME NEW x \in FieldElement, NEW y \in FieldElement
  PROVE  x = y <=> Same(V(x), V(y))
<1> DEFINE R == FieldRadix
           I == FieldRadixInverse
<1>1. R \in Int /\ I \in Int /\ Same(I * R, 1) /\ x \in Int /\ y \in Int
  BY RadixInverse, ElementsAreResidues, ResiduesAreInt
<1>2. ASSUME NEW z \in Int PROVE Same(V(z) * R, z)
  <2> DEFINE a == z * I
             b == I * R
  <2>1. V(z) \in Int /\ Same(V(z), a) /\ a \in Int /\ b \in Int /\ Same(b, 1)
    BY <1>1, ValueOf
  <2>2. a * R = z * b /\ z * 1 = z
    BY <1>1
  <2> HIDE DEF a, b, R
  <2>3. Same(V(z) * R, a * R)
    <3>1. a \in Int /\ R \in Int /\ V(z) \in Int /\ Same(V(z), a) /\ Same(R, R)
      BY <1>1, <2>1, SameEquivalence
    <3> QED  BY <3>1, SameProduct
  <2>4. Same(z * b, z * 1)
    <3>1. b \in Int /\ 1 \in Int /\ z \in Int /\ Same(z, z) /\ Same(b, 1)
      BY <1>1, <2>1, SameEquivalence
    <3> QED  BY <3>1, SameProduct
  <2> QED  BY <2>2, <2>3, <2>4, SameEquivalence
<1> HIDE DEF R, I
<1>3. ASSUME Same(V(x), V(y)) PROVE x = y
  <2>1. V(x) \in Int /\ V(y) \in Int
    BY <1>1, ValueOf
  <2>2. Same(V(x) * R, V(y) * R)
    BY <1>1, <1>3, <2>1, SameProduct, SameEquivalence
  <2>3. Same(x, y)
    BY <1>1, <1>2, <2>2, SameEquivalence
  <2> QED  BY <2>3, SameResidues, ElementsAreResidues
<1> QED  BY <1>3, SameEquivalence

LEMMA ValuesOfConstants ==
  /\ FeZero \in FieldElement /\ V(FeZero) = 0
  /\ FeOne \in FieldElement /\ V(FeOne) = 1
  /\ TWO \in FieldElement /\ Same(V(TWO), 2)
  /\ EDWARDS_A \in FieldElement /\ Same(V(EDWARDS_A), A)
  /\ EDWARDS_D \in FieldElement /\ Same(V(EDWARDS_D), D)
<1>1. A \in Int /\ D \in Int
  BY CurveAssumption, PIsPositive
<1>2. FeZero \in FieldElement /\ V(FeZero) = 0
  <2>1. 0 * FieldRadixInverse = 0 /\ 0 % P = 0 /\ 0 \in FieldElement
    BY RadixInverse, PIsPositive DEF FieldElement
  <2> QED  BY <2>1 DEF V, FeToCanonical, Form!Retrieve, FeZero
<1>3. FeOne \in FieldElement /\ Same(V(FeOne), 1)
  BY ValueOfInteger DEF FeOne
<1>4. V(FeOne) = 1
  <2>1. 1 \in Residues /\ V(FeOne) \in Residues
    BY <1>3, ValueOf, ElementsAreResidues, ResiduesAreInt, PIsPositive DEF Residues
  <2> QED  BY <1>3, <2>1, SameResidues
<1> QED
  BY <1>1, <1>2, <1>3, <1>4, ValueOfInteger DEF TWO, EDWARDS_A, EDWARDS_D

-----------------------------------------------------------------------------
(* Fermat's little theorem, by the permutation that a multiplication is of *)
(* the nonzero residues: the square root of field.rs rests on it.          *)

ProductOf(f, n) ==
  LET product[i \in Nat] == IF i = 0 THEN 1 ELSE product[i - 1] * f[i]
  IN  product[n]

LEMMA ProductRecursion ==
  ASSUME NEW f \in [Nat -> Int]
  PROVE  /\ ProductOf(f, 0) = 1
         /\ \A n \in Nat : /\ ProductOf(f, n) \in Int
                           /\ ProductOf(f, n + 1) = ProductOf(f, n) * f[n + 1]
<1> DEFINE Solves(g) == g = [i \in Nat |-> IF i = 0 THEN 1 ELSE g[i - 1] * f[i]]
           product == CHOOSE g : Solves(g)
<1>1. \A n : ProductOf(f, n) = product[n]
  BY DEF ProductOf
<1>2. \E g : Solves(g)
  <2> DEFINE step == [p \in Nat \X Int |-> p[2] * f[p[1] + 1]]
  <2>1. IsRecursion(Int, 1, step)
    BY DEF IsRecursion
  <2>2. PICK g : Follows(g, Int, 1, step)
    BY <2>1, Recursion
  <2>3. \A n \in Nat : g[n + 1] = g[n] * f[n + 1]
    BY <2>2 DEF Follows
  <2>4. ASSUME NEW i \in Nat PROVE g[i] = IF i = 0 THEN 1 ELSE g[i - 1] * f[i]
    <3>1. CASE i = 0
      BY <3>1, <2>2 DEF Follows
    <3>2. CASE i # 0
      <4>1. i - 1 \in Nat /\ i = (i - 1) + 1
        BY <3>2
      <4> QED  BY <3>2, <4>1, <2>3
    <3> QED  BY <3>1, <3>2
  <2>5. Solves(g)
    BY <2>2, <2>4 DEF Follows
  <2> QED  BY <2>5
<1>3. Solves(product)
  BY <1>2
<1> HIDE DEF product
<1>4. product[0] = 1 /\ \A n \in Nat : product[n + 1] = product[n] * f[n + 1]
  <2>1. ASSUME NEW n \in Nat PROVE product[n + 1] = product[n] * f[n + 1]
    <3>1. n + 1 \in Nat /\ n + 1 # 0 /\ (n + 1) - 1 = n
      OBVIOUS
    <3> QED  BY <3>1, <1>3
  <2>2. product[0] = 1
    BY <1>3
  <2> QED  BY <2>1, <2>2
<1> DEFINE S == {i \in Nat : product[i] \in Int}
<1>5. \A n \in Nat : n \in S
  <2>1. 0 \in S
    BY <1>4
  <2>2. \A n \in Nat : n \in S => n + 1 \in S
    BY <1>4
  <2> HIDE DEF S
  <2> QED  BY <2>1, <2>2, SetInduction
<1> QED
  BY <1>1, <1>4, <1>5

LEMMA ProductDepends ==
  ASSUME NEW f \in [Nat -> Int], NEW g \in [Nat -> Int], NEW m \in Nat,
         \A i \in 1 .. m : Same(f[i], g[i])
  PROVE  Same(ProductOf(f, m), ProductOf(g, m))
<1> DEFINE S == {n \in Nat : n <= m => Same(ProductOf(f, n), ProductOf(g, n))}
<1>1. 0 \in S
  BY ProductRecursion, SameEquivalence
<1>2. ASSUME NEW n \in Nat, n \in S PROVE n + 1 \in S
  <2> SUFFICES ASSUME n + 1 <= m
               PROVE  Same(ProductOf(f, n + 1), ProductOf(g, n + 1))
    OBVIOUS
  <2>1. Same(ProductOf(f, n), ProductOf(g, n)) /\ n + 1 \in 1 .. m
    BY <1>2
  <2>2. /\ ProductOf(f, n) \in Int /\ ProductOf(g, n) \in Int
        /\ f[n + 1] \in Int /\ g[n + 1] \in Int
        /\ ProductOf(f, n + 1) = ProductOf(f, n) * f[n + 1]
        /\ ProductOf(g, n + 1) = ProductOf(g, n) * g[n + 1]
    BY ProductRecursion
  <2> QED  BY <2>1, <2>2, SameProduct
<1> HIDE DEF S
<1>3. m \in S
  BY <1>1, <1>2, SetInduction
<1> QED  BY <1>3 DEF S

LEMMA ProductNonzero ==
  ASSUME NEW f \in [Nat -> Int], NEW m \in Nat,
         \A i \in 1 .. m : ~ Same(f[i], 0)
  PROVE  ~ Same(ProductOf(f, m), 0)
<1> DEFINE S == {n \in Nat : n <= m => ~ Same(ProductOf(f, n), 0)}
<1>1. 0 \in S
  BY ProductRecursion, Distinct
<1>2. ASSUME NEW n \in Nat, n \in S PROVE n + 1 \in S
  <2> SUFFICES ASSUME n + 1 <= m PROVE ~ Same(ProductOf(f, n + 1), 0)
    OBVIOUS
  <2>1. ~ Same(ProductOf(f, n), 0) /\ ~ Same(f[n + 1], 0)
    BY <1>2
  <2>2. /\ ProductOf(f, n) \in Int /\ f[n + 1] \in Int
        /\ ProductOf(f, n + 1) = ProductOf(f, n) * f[n + 1]
    BY ProductRecursion
  <2> QED  BY <2>1, <2>2, NonzeroProduct
<1> HIDE DEF S
<1>3. m \in S
  BY <1>1, <1>2, SetInduction
<1> QED  BY <1>3 DEF S

LEMMA ProductReplaced ==
  ASSUME NEW f \in [Nat -> Int], NEW j \in Nat, NEW v \in Int, NEW m \in Nat,
         j \in 1 .. m
  PROVE  Same(ProductOf([f EXCEPT ![j] = v], m) * f[j], ProductOf(f, m) * v)
<1> DEFINE g == [f EXCEPT ![j] = v]
           S == {n \in Nat : j <= n => Same(ProductOf(g, n) * f[j], ProductOf(f, n) * v)}
<1>1. g \in [Nat -> Int] /\ g[j] = v /\ \A i \in Nat : i # j => g[i] = f[i]
  OBVIOUS
<1> HIDE DEF g
<1>2. 0 \in S
  OBVIOUS
<1>3. ASSUME NEW n \in Nat, n \in S PROVE n + 1 \in S
  <2> SUFFICES ASSUME j <= n + 1
               PROVE  Same(ProductOf(g, n + 1) * f[j], ProductOf(f, n + 1) * v)
    OBVIOUS
  <2> DEFINE a == ProductOf(f, n)
             b == ProductOf(g, n)
             c == f[n + 1]
             d == f[j]
  <2>1. /\ a \in Int /\ b \in Int /\ c \in Int /\ d \in Int
        /\ ProductOf(f, n + 1) = a * c
        /\ ProductOf(g, n + 1) = b * g[n + 1]
    BY <1>1, ProductRecursion
  <2>2. CASE j = n + 1
    <3>1. \A i \in 1 .. n : Same(g[i], f[i])
      BY <1>1, <2>2, SameEquivalence
    <3>2. Same(b, a)
      BY <1>1, <3>1, ProductDepends
    <3>3. g[n + 1] = v /\ c = d
      BY <1>1, <2>2
    <3> HIDE DEF a, b, c, d
    <3> DEFINE e == v * d
    <3>4. (b * v) * d = b * e /\ (a * d) * v = a * e /\ e \in Int
      BY <2>1
    <3> HIDE DEF e
    <3>5. Same(b * e, a * e)
      BY <2>1, <3>2, <3>4, SameTimes
    <3> QED  BY <2>1, <3>3, <3>4, <3>5 DEF d
  <2>3. CASE j # n + 1
    <3>1. j <= n /\ g[n + 1] = c
      BY <1>1, <2>3
    <3>2. Same(b * d, a * v)
      BY <1>3, <3>1
    <3> HIDE DEF a, b, c, d
    <3> DEFINE e == b * d
               h == a * v
    <3>3. e \in Int /\ h \in Int /\ Same(e, h)
      BY <2>1, <3>2
    <3>4. (b * c) * d = c * e /\ (a * c) * v = c * h
      BY <2>1
    <3> HIDE DEF e, h
    <3>5. Same(c * e, c * h)
      BY <2>1, <3>3, SameTimes
    <3> QED  BY <2>1, <3>1, <3>4, <3>5 DEF d
  <2> QED  BY <2>2, <2>3
<1> HIDE DEF S
<1>4. m \in S
  BY <1>2, <1>3, SetInduction
<1> QED  BY <1>4 DEF S, g

OneToOneUpTo(f, n) == \A i, j \in 1 .. n : f[i] = f[j] => i = j

ValuesUpTo(f, n) == {f[i] : i \in 1 .. n}

LEMMA ProductPermuted ==
  \A n \in Nat : \A f, g \in [Nat -> Int] :
    OneToOneUpTo(f, n) /\ OneToOneUpTo(g, n) /\ ValuesUpTo(f, n) = ValuesUpTo(g, n)
      => Same(ProductOf(f, n), ProductOf(g, n))
<1> DEFINE Alike(f, g, n) ==
             /\ OneToOneUpTo(f, n) /\ OneToOneUpTo(g, n)
             /\ ValuesUpTo(f, n) = ValuesUpTo(g, n)
           S == {n \in Nat : \A f, g \in [Nat -> Int] :
                   Alike(f, g, n) => Same(ProductOf(f, n), ProductOf(g, n))}
<1>1. 0 \in S
  BY ProductRecursion, SameEquivalence
<1>2. ASSUME NEW n \in Nat, n \in S PROVE n + 1 \in S
  <2> SUFFICES ASSUME NEW f \in [Nat -> Int], NEW g \in [Nat -> Int],
                      Alike(f, g, n + 1)
               PROVE  Same(ProductOf(f, n + 1), ProductOf(g, n + 1))
    OBVIOUS
  <2>1. PICK j \in 1 .. n + 1 : g[j] = f[n + 1]
    <3>1. f[n + 1] \in ValuesUpTo(f, n + 1)
      BY DEF ValuesUpTo
    <3> QED  BY <3>1 DEF ValuesUpTo
  <2> DEFINE v == g[n + 1]
             h == [g EXCEPT ![j] = v]
             a == ProductOf(f, n)
             b == ProductOf(g, n)
             c == ProductOf(h, n)
             d == g[j]
  <2>2. /\ h \in [Nat -> Int] /\ h[j] = v /\ v \in Int /\ j \in Nat
        /\ \A i \in Nat : i # j => h[i] = g[i]
    OBVIOUS
  <2>3. OneToOneUpTo(f, n)
    BY DEF OneToOneUpTo
  <2>4. OneToOneUpTo(h, n)
    <3> SUFFICES ASSUME NEW i \in 1 .. n, NEW k \in 1 .. n, h[i] = h[k]
                 PROVE  i = k
      BY DEF OneToOneUpTo
    <3>1. i \in 1 .. n + 1 /\ k \in 1 .. n + 1 /\ n + 1 \in 1 .. n + 1
      OBVIOUS
    <3>2. \A s, t \in 1 .. n + 1 : g[s] = g[t] => s = t
      BY DEF OneToOneUpTo
    <3> HIDE DEF h
    <3>3. i # n + 1 /\ k # n + 1
      OBVIOUS
    <3> QED  BY <2>2, <3>1, <3>2, <3>3
  <2>5. ValuesUpTo(f, n) = ValuesUpTo(h, n)
    <3>1. \A s, t \in 1 .. n + 1 : g[s] = g[t] => s = t
      BY DEF OneToOneUpTo
    <3>2. \A s, t \in 1 .. n + 1 : f[s] = f[t] => s = t
      BY DEF OneToOneUpTo
    <3>3. n + 1 \in 1 .. n + 1 /\ \A i \in 1 .. n : i \in 1 .. n + 1 /\ i # n + 1
      OBVIOUS
    <3> HIDE DEF h
    <3>4. ASSUME NEW i \in 1 .. n PROVE f[i] \in ValuesUpTo(h, n)
      <4>1. f[i] \in ValuesUpTo(g, n + 1)
        BY <3>3 DEF ValuesUpTo
      <4>2. PICK k \in 1 .. n + 1 : f[i] = g[k]
        BY <4>1 DEF ValuesUpTo
      <4>3. k # j
        BY <2>1, <3>2, <3>3, <4>2
      <4>4. CASE k = n + 1
        <5>1. j \in 1 .. n /\ h[j] = f[i]
          BY <2>1, <2>2, <4>2, <4>3, <4>4
        <5> QED  BY <5>1 DEF ValuesUpTo
      <4>5. CASE k # n + 1
        <5>1. k \in 1 .. n /\ h[k] = f[i]
          BY <2>2, <4>2, <4>3, <4>5
        <5> QED  BY <5>1 DEF ValuesUpTo
      <4> QED  BY <4>4, <4>5
    <3>5. ASSUME NEW i \in 1 .. n PROVE h[i] \in ValuesUpTo(f, n)
      <4>1. PICK k \in 1 .. n + 1 : h[i] = g[k] /\ k # j
        <5>1. CASE i = j
          BY <2>2, <3>3, <5>1
        <5>2. CASE i # j
          BY <2>2, <3>3, <5>2
        <5> QED  BY <5>1, <5>2
      <4>2. g[k] \in ValuesUpTo(f, n + 1)
        BY DEF ValuesUpTo
      <4>3. PICK s \in 1 .. n + 1 : g[k] = f[s]
        BY <4>2 DEF ValuesUpTo
      <4>4. s # n + 1
        BY <2>1, <3>1, <4>1, <4>3
      <4>5. s \in 1 .. n
        BY <4>4
      <4> QED  BY <4>1, <4>3, <4>5 DEF ValuesUpTo
    <3> QED  BY <3>4, <3>5 DEF ValuesUpTo
  <2>6. Same(a, c)
    <3> HIDE DEF h
    <3> QED  BY <1>2, <2>2, <2>3, <2>4, <2>5
  <2>7. /\ a \in Int /\ b \in Int /\ c \in Int /\ d \in Int
        /\ ProductOf(f, n + 1) = a * d /\ ProductOf(g, n + 1) = b * v
    <3> HIDE DEF h
    <3> QED  BY <2>1, <2>2, ProductRecursion
  <2>8. Same(c * d, b * v)
    <3>1. CASE j = n + 1
      <4>1. h = g
        BY <3>1
      <4>2. b = c /\ d = v
        BY <3>1, <4>1
      <4> QED  BY <4>2, SameEquivalence
    <3>2. CASE j # n + 1
      <4>1. j \in 1 .. n
        BY <3>2
      <4> QED  BY <2>2, <4>1, ProductReplaced
    <3> QED  BY <3>1, <3>2
  <2>9. Same(a * d, c * d)
    <3> HIDE DEF a, b, c, d, h
    <3> QED  BY <2>6, <2>7, SameTimes
  <2> QED  BY <2>7, <2>8, <2>9, SameEquivalence
<1> HIDE DEF S
<1>3. \A n \in Nat : n \in S
  BY <1>1, <1>2, SetInduction
<1> QED  BY <1>3 DEF S

LEMMA ProductOfMultiples ==
  ASSUME NEW x \in Nat, NEW f \in [Nat -> Int], NEW g \in [Nat -> Int],
         \A i \in Nat : f[i] = x * g[i],
         NEW m \in Nat
  PROVE  ProductOf(f, m) = Power(x, m) * ProductOf(g, m)
<1> DEFINE S == {n \in Nat : ProductOf(f, n) = Power(x, n) * ProductOf(g, n)}
<1>1. 0 \in S
  <2>1. ProductOf(f, 0) = 1 /\ ProductOf(g, 0) = 1 /\ Power(x, 0) = 1
    BY ProductRecursion, PowerRecursion
  <2> QED  BY <2>1
<1>2. ASSUME NEW n \in Nat, n \in S PROVE n + 1 \in S
  <2> DEFINE a == ProductOf(f, n)
             b == ProductOf(g, n)
             c == Power(x, n)
             d == g[n + 1]
  <2>1. /\ a \in Int /\ b \in Int /\ d \in Int
        /\ ProductOf(f, n + 1) = a * f[n + 1] /\ ProductOf(g, n + 1) = b * d
    BY ProductRecursion
  <2>2. c \in Nat /\ Power(x, n + 1) = x * c
    BY PowerRecursion
  <2>3. a = c * b /\ f[n + 1] = x * d
    BY <1>2
  <2> HIDE DEF a, b, c, d
  <2>4. (c * b) * (x * d) = (x * c) * (b * d)
    BY <2>1, <2>2
  <2> QED  BY <2>1, <2>2, <2>3, <2>4
<1> HIDE DEF S
<1>3. m \in S
  BY <1>1, <1>2, SetInduction
<1> QED  BY <1>3 DEF S

LEMMA Fermat ==
  ASSUME NEW x \in Nat, ~ Same(x, 0)
  PROVE  Same(Power(x, P - 1), 1)
<1> DEFINE n == P - 1
           g == [i \in Nat |-> i]
           h == [i \in Nat |-> x * i]
           f == [i \in Nat |-> (x * i) % P]
<1>1. n \in Nat /\ P \in Nat \ {0} /\ P \in Int
  BY PIsPositive
<1>2. ASSUME NEW i \in 1 .. n
      PROVE  i \in Residues /\ i # 0 /\ i \in Nat /\ ~ Same(i, 0)
  <2>1. i \in Residues /\ i # 0 /\ i \in Nat
    BY <1>1 DEF Residues
  <2> QED  BY <2>1, SameResidues
<1>3. \A i \in Residues : i # 0 => i \in 1 .. n
  BY <1>1 DEF Residues
<1>4. g \in [Nat -> Int] /\ h \in [Nat -> Int]
  OBVIOUS
<1>5. ASSUME NEW i \in Nat
      PROVE  f[i] \in Residues /\ f[i] \in Int /\ Same(f[i], x * i)
  <2>1. x * i \in Int
    OBVIOUS
  <2> DEFINE a == x * i
  <2>2. f[i] = a % P /\ a \in Int
    OBVIOUS
  <2> HIDE DEF a, f
  <2> QED  BY <2>2, SameRemainder, ResiduesAreInt DEF a
<1>6. f \in [Nat -> Int]
  <2>1. f = [i \in Nat |-> f[i]]
    OBVIOUS
  <2> HIDE DEF f
  <2> QED  BY <1>5, <2>1
<1>7. \A i \in Nat : g[i] = i /\ h[i] = x * g[i]
  OBVIOUS
<1>8. \A i \in Nat : Same(f[i], h[i])
  BY <1>5, <1>7
<1> HIDE DEF f, g, h
<1>9. OneToOneUpTo(g, n) /\ ValuesUpTo(g, n) = 1 .. n
  BY <1>1, <1>7 DEF OneToOneUpTo, ValuesUpTo
<1>10. OneToOneUpTo(f, n)
  <2> SUFFICES ASSUME NEW i \in 1 .. n, NEW j \in 1 .. n, f[i] = f[j] PROVE i = j
    BY DEF OneToOneUpTo
  <2>1. i \in Nat /\ j \in Nat /\ i \in Residues /\ j \in Residues
    BY <1>2
  <2>2. Same(x * i, x * j)
    BY <1>5, <2>1, SameEquivalence
  <2>3. Same(i, j)
    BY <2>1, <2>2, Cancel
  <2> QED  BY <2>1, <2>3, SameResidues
<1>11. ValuesUpTo(f, n) = 1 .. n
  <2>1. ASSUME NEW i \in 1 .. n PROVE f[i] \in 1 .. n
    <3>1. i \in Nat /\ ~ Same(i, 0)
      BY <1>2
    <3>2. ~ Same(x * i, 0)
      BY <3>1, NonzeroProduct
    <3>3. f[i] \in Residues /\ Same(f[i], x * i)
      BY <1>5, <3>1
    <3>4. f[i] # 0
      BY <3>2, <3>3, SameEquivalence
    <3> QED  BY <1>3, <3>3, <3>4
  <2>2. ASSUME NEW r \in 1 .. n PROVE r \in ValuesUpTo(f, n)
    <3>1. PICK y \in Residues : Same(x * y, 1)
      BY HasInverse
    <3> DEFINE yr == y * r
               i == yr % P
               xy == x * y
               xi == x * i
    <3>2. y \in Int /\ r \in Nat /\ r \in Residues /\ ~ Same(r, 0)
      BY <1>2, ResiduesAreInt
    <3>3. yr \in Int /\ xy \in Int /\ Same(xy, 1)
      BY <3>1, <3>2
    <3>4. i \in Residues /\ i \in Int /\ i \in Nat /\ Same(i, yr)
      <4> HIDE DEF yr
      <4> QED  BY <3>3, SameRemainder, ResiduesAreInt
    <3> HIDE DEF i
    <3>5. Same(xi, x * yr)
      <4> HIDE DEF yr
      <4>1. x \in Int
        OBVIOUS
      <4> QED  BY <3>3, <3>4, <4>1, SameTimes
    <3>6. x * yr = xy * r /\ 1 * r = r
      BY <3>2
    <3> HIDE DEF yr, xy
    <3>7. Same(xy * r, 1 * r)
      <4>1. Same(r, r) /\ 1 \in Int
        BY SameEquivalence
      <4> QED  BY <3>2, <3>3, <4>1, SameProduct
    <3>8. Same(xi, r)
      BY <3>5, <3>6, <3>7, SameEquivalence
    <3>9. Same(f[i], r)
      BY <1>5, <3>4, <3>8, SameEquivalence
    <3>10. f[i] = r
      BY <1>5, <3>2, <3>4, <3>9, SameResidues
    <3>11. i # 0
      <4> SUFFICES ASSUME i = 0 PROVE FALSE
        OBVIOUS
      <4>1. xi = 0
        OBVIOUS
      <4> QED  BY <3>2, <3>8, <4>1, SameEquivalence
    <3>12. i \in 1 .. n
      BY <1>3, <3>4, <3>11
    <3> QED  BY <3>10, <3>12 DEF ValuesUpTo
  <2> QED  BY <2>1, <2>2 DEF ValuesUpTo
<1> DEFINE p == Power(x, n)
           q == ProductOf(g, n)
<1>12. p \in Nat /\ q \in Int
  BY <1>1, <1>4, PowerRecursion, ProductRecursion
<1>13. Same(ProductOf(f, n), q)
  BY <1>1, <1>4, <1>6, <1>9, <1>10, <1>11, ProductPermuted
<1>14. Same(ProductOf(f, n), ProductOf(h, n))
  <2>1. \A i \in 1 .. n : Same(f[i], h[i])
    BY <1>8
  <2> HIDE DEF n
  <2> QED  BY <1>1, <1>4, <1>6, <2>1, ProductDepends
<1>15. ProductOf(h, n) = p * q
  <2> HIDE DEF n
  <2> QED  BY <1>1, <1>4, <1>7, ProductOfMultiples
<1>16. ~ Same(q, 0)
  <2>1. \A i \in 1 .. n : ~ Same(g[i], 0)
    BY <1>2, <1>7
  <2> HIDE DEF n
  <2> QED  BY <1>1, <1>4, <2>1, ProductNonzero
<1> HIDE DEF p, q, n
<1>17. Same(q * p, q * 1)
  <2>1. p * q = q * p /\ q * 1 = q
    BY <1>12
  <2> QED  BY <1>13, <1>14, <1>15, <2>1, SameEquivalence
<1>18. 1 \in Int /\ p \in Int
  BY <1>12
<1> QED  BY <1>12, <1>16, <1>17, <1>18, Cancel DEF p, n

-----------------------------------------------------------------------------
(* The curve.                                                              *)

LEMMA CurveConstants ==
  /\ A \in Int /\ D \in Int /\ ~ Same(A, 0) /\ ~ Same(D, 0)
  /\ \E s \in Int : Same(s * s, A)
  /\ \A s \in Int : ~ Same(s * s, D)
<1>1. A \in Residues /\ A # 0 /\ D \in Residues /\ D # 0
  BY CurveAssumption, PIsPositive DEF Residues
<1>2. A \in Int /\ D \in Int /\ ~ Same(A, 0) /\ ~ Same(D, 0)
      /\ A % P = A /\ D % P = D
  BY <1>1, SameResidues, ResiduesAreInt
<1>3. PICK s \in 1 .. P - 1 : (s * s) % P = A
  BY CurveAssumption
<1>4. s \in Int /\ Same(s * s, A)
  BY <1>2, <1>3 DEF Same
<1>5. ASSUME NEW t \in Int, Same(t * t, D) PROVE FALSE
  <2> DEFINE r == t % P
  <2>1. r \in Residues /\ r \in Int /\ Same(r, t)
    BY SameRemainder, ResiduesAreInt
  <2> HIDE DEF r
  <2>2. Same(r * r, t * t)
    BY <2>1, SameProduct
  <2>3. (r * r) % P = D
    BY <1>2, <1>5, <2>2 DEF Same
  <2>4. r # 0
    <3> SUFFICES ASSUME r = 0 PROVE FALSE
      OBVIOUS
    <3>1. (0 * 0) % P = 0
      BY PIsPositive
    <3> QED  BY <1>1, <2>3, <3>1
  <2>5. r \in 1 .. P - 1
    BY <2>1, <2>4, PIsPositive DEF Residues
  <2> QED  BY <2>3, <2>5, CurveAssumption
<1> QED  BY <1>2, <1>4, <1>5

Squares(x, y) == A * (x * x) + y * y
Quartic(x, y) == D * ((x * y) * (x * y))

LEMMA SquaresAreInt ==
  ASSUME NEW x \in Int, NEW y \in Int
  PROVE  Squares(x, y) \in Int /\ Quartic(x, y) \in Int
  BY CurveConstants DEF Squares, Quartic

LEMMA TimesIs ==
  ASSUME NEW x \in Int, NEW y \in Int
  PROVE  Times(x, y) \in Residues /\ Times(x, y) \in Int /\ Same(Times(x, y), x * y)
<1> DEFINE a == x * y
<1>1. a \in Int /\ Times(x, y) = a % P
  BY DEF Times
<1> HIDE DEF a
<1> QED  BY <1>1, SameRemainder, ResiduesAreInt DEF a

LEMMA CurveEquation ==
  ASSUME NEW x \in Residues, NEW y \in Residues
  PROVE  <<x, y>> \in CurvePoints <=> Same(Squares(x, y), 1 + Quartic(x, y))
<1> DEFINE xx == Times(x, x)
           yy == Times(y, y)
           q == Times(xx, yy)
           l == A * xx + yy
           r == 1 + D * q
           m == (x * x) * (y * y)
           n == 1 + D * m
<1>1. x \in Int /\ y \in Int /\ A \in Int /\ D \in Int
  BY ResiduesAreInt, CurveConstants
<1>2. <<x, y>> \in CurvePoints <=> Same(l, r)
  BY DEF CurvePoints, Same
<1>3. /\ xx \in Int /\ yy \in Int /\ Same(xx, x * x) /\ Same(yy, y * y)
      /\ x * x \in Int /\ y * y \in Int
  BY <1>1, TimesIs
<1> HIDE DEF xx, yy
<1>4. q \in Int /\ Same(q, xx * yy)
  BY <1>3, TimesIs
<1> HIDE DEF q
<1>5. Same(xx * yy, m)
  <2> DEFINE a == x * x
             b == y * y
  <2>1. a \in Int /\ b \in Int /\ Same(xx, a) /\ Same(yy, b)
    BY <1>3
  <2> HIDE DEF a, b
  <2>2. Same(xx * yy, a * b)
    BY <1>3, <2>1, SameProduct
  <2> QED  BY <2>2 DEF a, b
<1>6. m \in Int /\ n \in Int /\ n = 1 + Quartic(x, y)
  <2>1. m = (x * y) * (x * y) /\ m \in Int
    BY <1>1
  <2> QED  BY <1>1, <2>1 DEF Quartic
<1> HIDE DEF m
<1>7. Same(r, n)
  <2>1. Same(q, m) /\ Same(D, D) /\ Same(1, 1)
    BY <1>4, <1>5, SameEquivalence
  <2>2. Same(D * q, D * m) /\ D * q \in Int /\ D * m \in Int
    BY <1>1, <1>4, <1>6, <2>1, SameProduct
  <2> DEFINE a == D * q
             b == D * m
  <2>3. a \in Int /\ b \in Int /\ Same(a, b)
    BY <2>2
  <2> HIDE DEF a, b
  <2>4. Same(1 + a, 1 + b)
    BY <2>1, <2>3, SameSum
  <2> QED  BY <2>4 DEF a, b
<1>8. Same(l, Squares(x, y))
  <2> DEFINE a == x * x
             b == y * y
             c == A * xx
             d == A * a
  <2>1. a \in Int /\ b \in Int /\ Same(xx, a) /\ Same(yy, b) /\ Same(A, A)
    BY <1>3, SameEquivalence
  <2> HIDE DEF a, b
  <2>2. Same(c, d) /\ c \in Int /\ d \in Int
    BY <1>1, <1>3, <2>1, SameProduct
  <2> HIDE DEF c, d
  <2>3. Same(c + yy, d + b)
    BY <1>3, <2>1, <2>2, SameSum
  <2> QED  BY <2>3 DEF a, b, c, d, Squares
<1> HIDE DEF l, r, n
<1> QED  BY <1>2, <1>6, <1>7, <1>8, SameEquivalence

LEMMA PointsOfTheCurve ==
  ASSUME NEW a \in CurvePoints
  PROVE  /\ a = <<a[1], a[2]>>
         /\ a[1] \in Residues /\ a[2] \in Residues /\ a[1] \in Int /\ a[2] \in Int
         /\ Same(Squares(a[1], a[2]), 1 + Quartic(a[1], a[2]))
<1>1. a \in Residues \X Residues
  BY DEF CurvePoints
<1>2. a = <<a[1], a[2]>> /\ a[1] \in Residues /\ a[2] \in Residues
  BY <1>1
<1> QED  BY <1>2, CurveEquation, ResiduesAreInt

-----------------------------------------------------------------------------
(* The addition law is complete: its denominators vanish nowhere, as A is  *)
(* a square and D is not.                                                  *)

Kappa(a, b) == D * ((a[1] * a[2]) * (b[1] * b[2]))

(* The case that is excluded: Kappa is e = 1 or e = -1.                    *)
LEMMA RootMeets ==
  ASSUME NEW a \in CurvePoints, NEW b \in CurvePoints,
         NEW e \in Int, e * e = 1, Same(Kappa(a, b), e),
         NEW s \in Int, Same(s * s, A)
  PROVE  Same(s * b[1] + b[2], 0)
<1> DEFINE x == a[1]
           y == a[2]
           u == b[1]
           w == b[2]
           k == Kappa(a, b)
           v == Quartic(x, y)
           z == Quartic(u, w)
           m == s * x + e * y
           g == s * u + w
           n == (x * y) * g
<1>1. /\ x \in Int /\ y \in Int /\ u \in Int /\ w \in Int /\ A \in Int /\ D \in Int
      /\ Same(Squares(x, y), 1 + v) /\ Same(Squares(u, w), 1 + z)
  BY PointsOfTheCurve, CurveConstants
<1>2. k = D * ((x * y) * (u * w)) /\ k \in Int /\ Same(k, e)
  BY <1>1 DEF Kappa
<1>3. v = D * ((x * y) * (x * y)) /\ z = D * ((u * w) * (u * w))
      /\ v \in Int /\ z \in Int
  BY <1>1 DEF Quartic
<1>4. Squares(x, y) = A * (x * x) + y * y /\ Squares(u, w) = A * (u * u) + w * w
  BY DEF Squares
<1> HIDE DEF x, y, u, w, k, v, z
<1> DEFINE h == 2 * (s * (x * y))
           p == (s * s) * (x * x) + y * y
           q == (s * s) * (u * u) + w * w
<1>5. h \in Int /\ p \in Int /\ q \in Int /\ m \in Int /\ n \in Int /\ g \in Int
  BY <1>1
<1>6. m * m = p + h * e
  <2>1. m * m = (s * s) * (x * x) + (e * e) * (y * y) + (2 * (s * (x * y))) * e
    BY <1>1
  <2>2. (e * e) * (y * y) = y * y
    BY <1>1
  <2> HIDE DEF m
  <2> QED  BY <1>1, <2>1, <2>2
<1>7. D * (n * n) = v * q + h * k
  <2>1. D * (n * n) = (D * ((x * y) * (x * y))) * ((s * s) * (u * u) + w * w)
                      + (2 * (s * (x * y))) * (D * ((x * y) * (u * w)))
    BY <1>1
  <2> QED  BY <1>2, <1>3, <2>1
<1>8. Same(p, 1 + v) /\ Same(q, 1 + z)
  <2>1. ASSUME NEW i \in Int, NEW j \in Int
        PROVE  Same((s * s) * (i * i) + j * j, A * (i * i) + j * j)
    <3> DEFINE c == s * s
               d == i * i
               f == j * j
               l == c * d
               o == A * d
    <3>1. c \in Int /\ d \in Int /\ f \in Int /\ Same(c, A) /\ Same(d, d) /\ Same(f, f)
      BY SameEquivalence
    <3> HIDE DEF c, d, f
    <3>2. l \in Int /\ o \in Int /\ Same(l, o)
      BY <1>1, <3>1, SameProduct
    <3> HIDE DEF l, o
    <3>3. Same(l + f, o + f)
      BY <3>1, <3>2, SameSum
    <3> QED  BY <3>3 DEF l, o, c, d, f
  <2>2. Same(p, Squares(x, y)) /\ Same(q, Squares(u, w))
    BY <1>1, <1>4, <2>1
  <2> HIDE DEF p, q
  <2> QED  BY <1>1, <2>2, SameEquivalence
<1> HIDE DEF h, p, q
<1>9. Same(k * k, 1)
  <2>1. Same(k * k, e * e)
    BY <1>2, SameProduct
  <2> QED  BY <2>1
<1>10. v * (1 + z) = v + k * k
  <2>1. v * z = k * k
    <3> DEFINE i == x * y
               j == u * w
    <3>1. i \in Int /\ j \in Int /\ v = D * (i * i) /\ z = D * (j * j)
          /\ k = D * (i * j)
      BY <1>1, <1>2, <1>3
    <3> HIDE DEF i, j
    <3>2. (D * (i * i)) * (D * (j * j)) = (D * (i * j)) * (D * (i * j))
      BY <1>1, <3>1
    <3> QED  BY <3>1, <3>2
  <2> QED  BY <1>2, <1>3, <2>1
<1>11. Same(v * q, v + 1)
  <2> DEFINE c == 1 + z
             d == k * k
  <2>1. c \in Int /\ d \in Int /\ Same(q, c) /\ Same(v, v) /\ Same(d, 1) /\ v * c = v + d
    BY <1>2, <1>3, <1>8, <1>9, <1>10, SameEquivalence
  <2> HIDE DEF c, d
  <2>2. v \in Int /\ q \in Int /\ d \in Int
    BY <1>2, <1>3, <1>5 DEF d
  <2>3. Same(v * q, v * c)
    BY <2>1, <2>2, SameProduct
  <2>4. Same(v + d, v + 1)
    BY <2>1, <2>2, SameSum
  <2> QED  BY <2>1, <2>3, <2>4, SameEquivalence
<1>12. Same(m * m, D * (n * n))
  <2> DEFINE c == v * q
             d == h * e
             f == h * k
  <2>1. c \in Int /\ d \in Int /\ f \in Int
    BY <1>2, <1>3, <1>5
  <2>2. Same(d, f)
    <3>1. Same(e, k) /\ Same(h, h)
      BY <1>2, SameEquivalence
    <3> QED  BY <1>2, <1>5, <3>1, SameProduct
  <2>3. Same(p, c)
    <3>1. 1 + v = v + 1
      BY <1>3
    <3> QED  BY <1>8, <1>11, <3>1, SameEquivalence
  <2>4. m * m = p + d /\ D * (n * n) = c + f
    BY <1>6, <1>7
  <2> HIDE DEF c, d, f, m, n
  <2>5. Same(p + d, c + f)
    BY <1>5, <2>1, <2>2, <2>3, SameSum
  <2> QED  BY <2>4, <2>5
<1>13. Same(n, 0)
  <2> SUFFICES ASSUME ~ Same(n, 0) PROVE FALSE
    OBVIOUS
  <2> HIDE DEF m, n
  <2>1. PICK r \in Residues : Same(n * r, 1)
    BY <1>5, HasInverse
  <2> DEFINE i == n * r
             j == m * m
             o == D * (n * n)
             f == r * r
             t == m * r
  <2>2. r \in Int
    BY ResiduesAreInt
  <2>3. i \in Int /\ j \in Int /\ o \in Int /\ f \in Int /\ t \in Int
        /\ Same(i, 1) /\ Same(j, o)
    BY <1>1, <1>5, <1>12, <2>1, <2>2
  <2>4. t * t = j * f /\ o * f = D * (i * i)
    BY <1>1, <1>5, <2>2
  <2> HIDE DEF i, j, o, f, t
  <2>5. Same(j * f, o * f)
    <3>1. Same(f, f)
      BY SameEquivalence
    <3> QED  BY <2>3, <3>1, SameProduct
  <2>6. Same(i * i, 1 * 1)
    BY <2>3, SameProduct
  <2>7. Same(D * (i * i), D * (1 * 1))
    <3> DEFINE c == i * i
    <3>1. c \in Int /\ Same(c, 1) /\ Same(D, D) /\ D \in Int
      BY <1>1, <2>3, <2>6, SameEquivalence
    <3> HIDE DEF c
    <3>2. Same(D * c, D * 1)
      BY <3>1, SameProduct
    <3> QED  BY <3>2 DEF c
  <2>8. D * (1 * 1) = D
    BY <1>1
  <2>9. Same(t * t, D)
    BY <2>4, <2>5, <2>7, <2>8, SameEquivalence
  <2> QED  BY <2>3, <2>9, CurveConstants
<1>14. ~ Same(x * y, 0)
  <2> SUFFICES ASSUME Same(x * y, 0) PROVE FALSE
    OBVIOUS
  <2> DEFINE i == x * y
             j == u * w
             f == i * j
  <2>1. i \in Int /\ j \in Int /\ f \in Int /\ Same(i, 0)
    BY <1>1
  <2>2. k = D * f
    BY <1>2
  <2> HIDE DEF i, j
  <2>3. Same(f, 0)
    BY <2>1, NonzeroProduct
  <2> HIDE DEF f
  <2>4. Same(k, 0)
    BY <1>1, <2>1, <2>2, <2>3, NonzeroProduct
  <2>5. Same(k * k, 0)
    BY <1>2, <2>4, NonzeroProduct
  <2> QED  BY <1>9, <2>5, Distinct, SameEquivalence
<1>15. Same(g, 0)
  <2> DEFINE i == x * y
  <2>1. i \in Int /\ ~ Same(i, 0) /\ Same(i * g, 0)
    BY <1>1, <1>13, <1>14
  <2> HIDE DEF i, g
  <2> QED  BY <1>5, <2>1, NonzeroProduct
<1> QED  BY <1>15 DEF u, w

LEMMA Complete ==
  ASSUME NEW a \in CurvePoints, NEW b \in CurvePoints
  PROVE  /\ Kappa(a, b) \in Int
         /\ ~ Same(1 + Kappa(a, b), 0) /\ ~ Same(1 - Kappa(a, b), 0)
<1> DEFINE k == Kappa(a, b)
           u == b[1]
           w == b[2]
<1>1. k \in Int /\ u \in Int /\ w \in Int
  BY PointsOfTheCurve, CurveConstants DEF Kappa
<1>2. PICK s \in Int : Same(s * s, A)
  BY CurveConstants
<1> DEFINE t == 0 - s
<1>3. t \in Int /\ t * t = s * s
  OBVIOUS
<1>4. ASSUME NEW e \in Int, e * e = 1, Same(k, e) PROVE FALSE
  <2> HIDE DEF t
  <2>1. Same(s * u + w, 0)
    BY <1>2, <1>4, RootMeets
  <2>2. Same(t * u + w, 0)
    BY <1>2, <1>3, <1>4, RootMeets
  <2> HIDE DEF u, w, k
  <2> DEFINE c == s * u + w
             d == t * u + w
             f == s * u
  <2>3. c \in Int /\ d \in Int /\ f \in Int /\ 0 - 0 = 0
    BY <1>1, <1>3
  <2>4. c - d = 2 * f
    BY <1>1 DEF t
  <2>5. Same(c, 0) /\ Same(d, 0)
    BY <2>1, <2>2
  <2> HIDE DEF c, d
  <2>6. Same(c - d, 0 - 0)
    BY <2>3, <2>5, SameDifference
  <2>7. Same(2 * f, 0)
    BY <2>3, <2>4, <2>6
  <2>8. Same(f, 0)
    <3> HIDE DEF f
    <3> QED  BY <2>3, <2>7, NonzeroProduct, Distinct
  <2>9. ~ Same(s, 0)
    <3> SUFFICES ASSUME Same(s, 0) PROVE FALSE
      OBVIOUS
    <3>1. Same(s * s, 0)
      BY NonzeroProduct
    <3> QED  BY <1>2, <3>1, CurveConstants, SameEquivalence
  <2>10. Same(u, 0)
    BY <1>1, <2>8, <2>9, NonzeroProduct
  <2>11. Same(k, 0)
    <3> DEFINE i == a[1] * a[2]
               j == u * w
               l == i * j
    <3>1. i \in Int /\ j \in Int /\ l \in Int /\ Same(j, 0) /\ D \in Int
      BY <1>1, <2>10, PointsOfTheCurve, CurveConstants, NonzeroProduct
    <3>2. k = D * l
      BY DEF k, u, w, Kappa
    <3> HIDE DEF i, j
    <3>3. Same(l, 0)
      BY <3>1, NonzeroProduct
    <3> HIDE DEF l
    <3> QED  BY <3>1, <3>2, <3>3, NonzeroProduct
  <2>12. Same(e * e, 0)
    <3>1. Same(e, 0)
      BY <1>4, <2>11, SameEquivalence
    <3> QED  BY <3>1, NonzeroProduct
  <2> QED  BY <1>4, <2>12, Distinct
<1> HIDE DEF k
<1>5. ASSUME Same(1 + k, 0) PROVE FALSE
  <2> DEFINE c == 1 + k
  <2>1. c \in Int /\ Same(c, 0) /\ Same(1, 1) /\ c - 1 = k /\ 0 - 1 = -1
        /\ (-1) * (-1) = 1 /\ -1 \in Int
    BY <1>1, <1>5, SameEquivalence
  <2> HIDE DEF c
  <2>2. Same(c - 1, 0 - 1)
    BY <2>1, SameDifference
  <2> QED  BY <1>4, <2>1, <2>2
<1>6. ASSUME Same(1 - k, 0) PROVE FALSE
  <2>1. Same(1, k)
    BY <1>1, <1>6, SameBySubtraction
  <2>2. Same(k, 1) /\ 1 * 1 = 1
    BY <2>1, SameEquivalence
  <2> QED  BY <1>4, <2>2
<1> QED  BY <1>1, <1>5, <1>6 DEF k

-----------------------------------------------------------------------------
(* Field elements, by integers congruent to their residues.                *)

Stands(f, n) == f \in FieldElement /\ n \in Int /\ Same(V(f), n)

LEMMA StandsFor ==
  ASSUME NEW f, NEW g, NEW m, NEW n, Stands(f, m), Stands(g, n)
  PROVE  /\ Stands(FeAdd(f, g), m + n) /\ Stands(FeSub(f, g), m - n)
         /\ Stands(FeMul(f, g), m * n) /\ Stands(FeSquare(f), m * m)
         /\ Stands(FeNeg(f), 0 - m)
         /\ f = g <=> Same(m, n)
<1>1. /\ f \in FieldElement /\ g \in FieldElement /\ f \in Int /\ g \in Int
      /\ m \in Int /\ n \in Int /\ Same(V(f), m) /\ Same(V(g), n)
  BY ElementsAreResidues, ResiduesAreInt DEF Stands
<1>2. V(f) \in Int /\ V(g) \in Int
  BY <1>1, ValueOf
<1>3. Stands(FeAdd(f, g), m + n)
  <2>1. Same(V(f) + V(g), m + n)
    BY <1>1, <1>2, SameSum
  <2> QED  BY <1>1, <2>1, FieldOperations, SameEquivalence DEF Stands
<1>4. Stands(FeSub(f, g), m - n)
  <2>1. Same(V(f) - V(g), m - n)
    BY <1>1, <1>2, SameDifference
  <2> QED  BY <1>1, <2>1, FieldOperations, SameEquivalence DEF Stands
<1>5. Stands(FeMul(f, g), m * n)
  <2>1. Same(V(f) * V(g), m * n) /\ m * n \in Int
    BY <1>1, <1>2, SameProduct
  <2> QED  BY <1>1, <2>1, FieldOperations, SameEquivalence DEF Stands
<1>6. Stands(FeSquare(f), m * m)
  <2>1. Same(V(f) * V(f), m * m) /\ m * m \in Int
    BY <1>1, <1>2, SameProduct
  <2> QED  BY <1>1, <2>1, FieldOperations, SameEquivalence DEF Stands, FeSquare
<1>7. Stands(FeNeg(f), 0 - m)
  <2>1. Same(0 - V(f), 0 - m) /\ 0 - m \in Int
    <3>1. Same(0, 0)
      BY SameEquivalence
    <3> QED  BY <1>1, <1>2, <3>1, SameDifference
  <2> QED  BY <1>1, <2>1, FieldOperations, SameEquivalence DEF Stands
<1>8. f = g <=> Same(m, n)
  BY <1>1, ValueIsInjective, SameEquivalence
<1> QED  BY <1>3, <1>4, <1>5, <1>6, <1>7, <1>8

LEMMA StandsAndSame ==
  ASSUME NEW f, NEW m, NEW n \in Int, Stands(f, m), Same(m, n)
  PROVE  Stands(f, n)
  BY SameEquivalence DEF Stands

LEMMA StandsEqual ==
  ASSUME NEW f, NEW g, NEW m, NEW n, Stands(f, m), Stands(g, n), Same(m, n)
  PROVE  f = g
  BY StandsFor

LEMMA ConstantsStand ==
  /\ Stands(FeZero, 0) /\ Stands(FeOne, 1) /\ Stands(TWO, 2)
  /\ Stands(EDWARDS_A, A) /\ Stands(EDWARDS_D, D)
<1>1. Same(0, 0) /\ Same(1, 1)
  BY SameEquivalence
<1> QED  BY <1>1, ValuesOfConstants, CurveConstants DEF Stands

-----------------------------------------------------------------------------
(* Inverses, powers and square roots of field elements.                    *)

LEMMA FeInvertIs ==
  ASSUME NEW f, NEW n, Stands(f, n)
  PROVE  /\ FeInvert(f).some <=> ~ Same(n, 0)
         /\ ~ Same(n, 0) => \E i \in Int : /\ FeInvert(f) = Some(Inverses[f])
                                           /\ Stands(Inverses[f], i)
                                           /\ Same(n * i, 1)
<1>1. f = FeZero <=> Same(n, 0)
  BY ConstantsStand, StandsFor
<1>2. Some(Inverses[f]).some /\ ~ None.some
  BY DEF Some, None
<1>3. FeInvert(f).some <=> ~ Same(n, 0)
  BY <1>1, <1>2 DEF FeInvert, FeIsZero
<1>4. ASSUME ~ Same(n, 0)
      PROVE  \E i \in Int : /\ FeInvert(f) = Some(Inverses[f])
                            /\ Stands(Inverses[f], i)
                            /\ Same(n * i, 1)
  <2>1. n \in Int /\ f \in FieldElement /\ f # 0
    BY <1>1, <1>4 DEF Stands, FeZero
  <2>2. PICK y \in Residues : Same(n * y, 1)
    BY <1>4, <2>1, HasInverse
  <2>3. Stands(FeFromInteger(y), y)
    BY ValueOfInteger, ResiduesAreInt DEF Stands
  <2>4. FeMul(f, FeFromInteger(y)) = FeOne
    <3>1. Stands(FeMul(f, FeFromInteger(y)), n * y)
      BY <2>3, StandsFor
    <3> DEFINE a == n * y
    <3>2. Stands(FeMul(f, FeFromInteger(y)), a) /\ Same(a, 1)
      BY <2>2, <3>1
    <3> HIDE DEF a
    <3> QED  BY <3>2, ConstantsStand, StandsEqual
  <2>5. Inverses[f] = CHOOSE g \in FieldElement : FeMul(f, g) = FeOne
    BY <2>1 DEF Inverses
  <2>6. Inverses[f] \in FieldElement /\ FeMul(f, Inverses[f]) = FeOne
    BY <2>3, <2>4, <2>5 DEF Stands
  <2> DEFINE g == Inverses[f]
             i == V(g)
  <2>7. i \in Int /\ Stands(g, i)
    <3>1. g \in Int
      BY <2>6, ElementsAreResidues, ResiduesAreInt
    <3> QED  BY <2>6, <3>1, ValueOf, SameEquivalence DEF Stands
  <2> HIDE DEF i
  <2>8. Stands(FeOne, n * i)
    BY <2>6, <2>7, StandsFor
  <2>9. Same(n * i, 1)
    BY <2>8, ConstantsStand, SameEquivalence DEF Stands
  <2>10. FeInvert(f) = Some(g)
    BY <1>1, <1>4 DEF FeInvert, FeIsZero
  <2> QED  BY <2>7, <2>9, <2>10
<1> QED  BY <1>3, <1>4

LEMMA FePowIs ==
  ASSUME NEW f, NEW n \in Nat, Stands(f, n), NEW e \in Nat
  PROVE  Stands(FePow(f, e), Power(n, e))
<1> DEFINE Solves(g) ==
             g = [i \in 0 .. e |-> IF i = 0 THEN FeOne ELSE FeMul(g[i - 1], f)]
           pow == CHOOSE g : Solves(g)
<1>1. FePow(f, e) = pow[e]
  BY DEF FePow
<1>2. \E g : Solves(g)
  <2> DEFINE step == [p \in Nat \X FieldElement |-> FeMul(p[2], f)]
  <2>1. IsRecursion(FieldElement, FeOne, step)
    <3>1. FeOne \in FieldElement
      BY ConstantsStand DEF Stands
    <3>2. ASSUME NEW x \in FieldElement PROVE FeMul(x, f) \in FieldElement
      <4>1. x \in Int /\ f \in Int
        BY ElementsAreResidues, ResiduesAreInt DEF Stands
      <4> QED  BY <4>1, FieldOperations
    <3> QED  BY <3>1, <3>2 DEF IsRecursion
  <2>2. PICK g : Follows(g, FieldElement, FeOne, step)
    BY <2>1, Recursion
  <2>3. \A i \in Nat : g[i + 1] = FeMul(g[i], f)
    BY <2>2 DEF Follows
  <2> DEFINE h == [i \in 0 .. e |-> g[i]]
  <2>4. ASSUME NEW i \in 0 .. e
        PROVE  h[i] = IF i = 0 THEN FeOne ELSE FeMul(h[i - 1], f)
    <3>1. CASE i = 0
      BY <3>1, <2>2 DEF Follows
    <3>2. CASE i # 0
      <4>1. i - 1 \in Nat /\ i - 1 \in 0 .. e /\ i = (i - 1) + 1
        BY <3>2
      <4> QED  BY <3>2, <4>1, <2>3
    <3> QED  BY <3>1, <3>2
  <2>5. Solves(h)
    <3>1. h = [i \in 0 .. e |-> h[i]]
      OBVIOUS
    <3> HIDE DEF h
    <3> QED  BY <2>4, <3>1
  <2> HIDE DEF h, Solves
  <2> QED  BY <2>5
<1>3. Solves(pow)
  <2> HIDE DEF Solves
  <2> QED  BY <1>2
<1> HIDE DEF pow
<1>4. /\ pow[0] = FeOne
      /\ \A i \in Nat : i + 1 <= e => pow[i + 1] = FeMul(pow[i], f)
  <2>1. ASSUME NEW i \in Nat, i + 1 <= e PROVE pow[i + 1] = FeMul(pow[i], f)
    <3>1. i + 1 \in 0 .. e /\ i + 1 # 0 /\ (i + 1) - 1 = i
      BY <2>1
    <3> QED  BY <3>1, <1>3
  <2>2. pow[0] = FeOne
    BY <1>3
  <2> QED  BY <2>1, <2>2
<1> HIDE DEF Solves
<1> DEFINE S == {i \in Nat : i <= e => Stands(pow[i], Power(n, i))}
<1>5. 0 \in S
  BY <1>4, ConstantsStand, PowerRecursion
<1>6. ASSUME NEW i \in Nat, i \in S PROVE i + 1 \in S
  <2> SUFFICES ASSUME i + 1 <= e PROVE Stands(pow[i + 1], Power(n, i + 1))
    OBVIOUS
  <2>1. Stands(pow[i], Power(n, i))
    BY <1>6
  <2>2. Stands(FeMul(pow[i], f), Power(n, i) * n)
    BY <2>1, StandsFor
  <2>3. Power(n, i + 1) = Power(n, i) * n
    <3>1. Power(n, i + 1) = n * Power(n, i) /\ Power(n, i) \in Nat
      BY PowerRecursion
    <3> QED  BY <3>1
  <2> QED  BY <1>4, <2>2, <2>3
<1> HIDE DEF S
<1>7. e \in S
  BY <1>5, <1>6, SetInduction
<1> QED  BY <1>1, <1>7 DEF S

LEMMA SamePowers ==
  ASSUME NEW a \in Nat, NEW b \in Nat, Same(a, b), NEW m \in Nat
  PROVE  Same(Power(a, m), Power(b, m))
<1> DEFINE S == {n \in Nat : Same(Power(a, n), Power(b, n))}
<1>1. 0 \in S
  BY PowerRecursion, SameEquivalence
<1>2. ASSUME NEW n \in Nat, n \in S PROVE n + 1 \in S
  <2>1. /\ Power(a, n) \in Int /\ Power(b, n) \in Int /\ a \in Int /\ b \in Int
        /\ Power(a, n + 1) = a * Power(a, n) /\ Power(b, n + 1) = b * Power(b, n)
    <3>1. Power(a, n) \in Nat /\ Power(a, n + 1) = a * Power(a, n)
      BY PowerRecursion
    <3>2. Power(b, n) \in Nat /\ Power(b, n + 1) = b * Power(b, n)
      BY PowerRecursion
    <3> QED  BY <3>1, <3>2
  <2> QED  BY <1>2, <2>1, SameProduct
<1> HIDE DEF S
<1>3. m \in S
  BY <1>1, <1>2, SetInduction
<1> QED  BY <1>3 DEF S

LEMMA PowerOfSquare ==
  ASSUME NEW a \in Nat, NEW m \in Nat
  PROVE  Power(a * a, m) = Power(a, m) * Power(a, m)
<1> DEFINE S == {n \in Nat : Power(a * a, n) = Power(a, n) * Power(a, n)}
<1>0. a * a \in Nat
  OBVIOUS
<1>1. 0 \in S
  <2>1. Power(a * a, 0) = 1 /\ Power(a, 0) = 1
    BY <1>0, PowerRecursion
  <2> QED  BY <2>1
<1>2. ASSUME NEW n \in Nat, n \in S PROVE n + 1 \in S
  <2> DEFINE b == Power(a, n)
  <2>1. b \in Nat /\ Power(a, n + 1) = a * b /\ Power(a * a, n + 1) = (a * a) * Power(a * a, n)
    BY <1>0, PowerRecursion
  <2>2. Power(a * a, n) = b * b
    BY <1>2
  <2> HIDE DEF b
  <2>3. (a * a) * (b * b) = (a * b) * (a * b)
    BY <2>1
  <2> QED  BY <2>1, <2>2, <2>3
<1> HIDE DEF S
<1>3. m \in S
  BY <1>1, <1>2, SetInduction
<1> QED  BY <1>3 DEF S

(* As P % 4 = 3, the power (P + 1) / 4 of a square is a root of it.        *)
LEMMA RootOfSquare ==
  ASSUME NEW s \in Nat
  PROVE  LET k == (P + 1) \div 4
         IN  k \in Nat /\ Same(Power(s * s, k) * Power(s * s, k), s * s)
<1> DEFINE k == (P + 1) \div 4
           n == s * s
           r == Power(s, k)
           t == Power(s, P - 1)
<1>1. k \in Nat /\ k \in Nat \ {0} /\ P \in Nat /\ P - 1 \in Nat /\ P + 1 = k + k + k + k
  BY FieldAssumption
<1> HIDE DEF k
<1>2. n \in Nat /\ r \in Nat /\ t \in Nat
  <2>1. r \in Nat /\ t \in Nat
    BY <1>1, PowerRecursion
  <2> QED  BY <2>1
<1>3. Power(n, k) = r * r
  BY <1>1, PowerOfSquare
<1>4. (r * r) * (r * r) = t * n
  <2>1. Power(s, k + k) = r * r
    BY <1>1, PowerOfSum
  <2>2. Power(s, (k + k) + (k + k)) = Power(s, k + k) * Power(s, k + k)
    <3> DEFINE j == k + k
    <3>1. j \in Nat
      BY <1>1
    <3> HIDE DEF j
    <3>2. Power(s, j + j) = Power(s, j) * Power(s, j)
      BY <3>1, PowerOfSum
    <3> QED  BY <3>2 DEF j
  <2>3. Power(s, P) = s * t /\ Power(s, P + 1) = s * Power(s, P)
    <3>1. P = (P - 1) + 1
      BY <1>1
    <3>2. Power(s, (P - 1) + 1) = s * t /\ Power(s, P + 1) = s * Power(s, P)
      BY <1>1, PowerRecursion
    <3> QED  BY <3>1, <3>2
  <2>4. (k + k) + (k + k) = P + 1
    BY <1>1
  <2> HIDE DEF r, t
  <2>5. s * (s * t) = t * (s * s)
    BY <1>2
  <2> QED  BY <2>1, <2>2, <2>3, <2>4, <2>5
<1> HIDE DEF r, t, n
<1>5. Same(t * n, n)
  <2>1. CASE Same(s, 0)
    <3>1. Same(n, 0)
      BY <2>1, NonzeroProduct DEF n
    <3>2. Same(t * n, 0)
      <4>1. t \in Int /\ n \in Int
        BY <1>2
      <4> QED  BY <3>1, <4>1, NonzeroProduct
    <3> QED  BY <3>1, <3>2, SameEquivalence
  <2>2. CASE ~ Same(s, 0)
    <3>1. Same(t, 1)
      BY <2>2, Fermat DEF t
    <3>2. Same(t * n, 1 * n)
      <4>1. 1 \in Int /\ t \in Int /\ n \in Int /\ Same(n, n)
        BY <1>2, SameEquivalence
      <4> QED  BY <3>1, <4>1, SameProduct
    <3>3. 1 * n = n
      BY <1>2
    <3> QED  BY <3>2, <3>3
  <2> QED  BY <2>1, <2>2
<1> QED  BY <1>1, <1>3, <1>4, <1>5 DEF k, n

LEMMA FeSqrtIs ==
  ASSUME NEW f, NEW n, Stands(f, n)
  PROVE  /\ FeSqrt(f).some <=> \E s \in Int : Same(s * s, n)
         /\ FeSqrt(f).some =>
              \E r \in Int : Stands(FeSqrt(f).value, r) /\ Same(r * r, n)
<1> DEFINE m == V(f)
           k == SqrtExponent
           candidate == FePow(f, k)
           c == Power(m, k)
<1>1. m \in Nat /\ m \in Int /\ n \in Int /\ Same(m, n) /\ Stands(f, m)
  <2>1. f \in Int /\ f \in FieldElement
    BY ElementsAreResidues, ResiduesAreInt DEF Stands
  <2>2. m \in Residues /\ m \in Nat /\ m \in Int
    BY <2>1, ValueOf, ResiduesAreInt
  <2> QED  BY <2>1, <2>2, SameEquivalence DEF Stands
<1> HIDE DEF m
<1>2. k \in Nat
  BY FieldAssumption DEF SqrtExponent
<1>3. Stands(candidate, c) /\ c \in Nat /\ c \in Int
  <2> HIDE DEF k
  <2>1. Stands(candidate, c)
    BY <1>1, <1>2, FePowIs
  <2>2. c \in Nat
    BY <1>1, <1>2, PowerRecursion
  <2> QED  BY <2>1, <2>2
<1>4. FeSqrt(f) = Checked(FeSquare(candidate) = f, candidate)
  BY DEF FeSqrt
<1>5. Stands(FeSquare(candidate), c * c)
  BY <1>3, StandsFor
<1>6. FeSquare(candidate) = f <=> Same(c * c, n)
  <2> DEFINE d == c * c
  <2>1. Stands(FeSquare(candidate), d)
    BY <1>5
  <2> DEFINE g == FeSquare(candidate)
  <2>2. Stands(g, d)
    BY <2>1
  <2> HIDE DEF d, g
  <2>3. g = f <=> Same(d, n)
    BY <2>2, StandsFor
  <2> QED  BY <2>3 DEF d, g
<1>7. FeSqrt(f).some <=> FeSquare(candidate) = f
  BY <1>4 DEF Checked, Some, None
<1>8. FeSqrt(f).some => FeSqrt(f).value = candidate
  BY <1>4, <1>7 DEF Checked, Some
<1>9. ASSUME NEW s \in Int, Same(s * s, n) PROVE Same(c * c, n)
  <2> DEFINE r == s % P
             q == r * r
  <2>1. r \in Nat /\ r \in Int /\ Same(r, s)
    BY SameRemainder, ResiduesAreInt
  <2> HIDE DEF r
  <2>2. Same(q, n) /\ q \in Nat
    <3>1. Same(r * r, s * s)
      BY <2>1, SameProduct
    <3>2. q \in Nat
      BY <2>1
    <3> QED  BY <1>9, <3>1, <3>2, SameEquivalence
  <2> DEFINE d == Power(q, k)
  <2>3. Same(d * d, q)
    BY <2>1, RootOfSquare DEF SqrtExponent
  <2> HIDE DEF q
  <2>4. Same(m, q)
    BY <1>1, <2>2, SameEquivalence
  <2>5. Same(c, d) /\ d \in Int
    <3> HIDE DEF k
    <3>1. Same(c, d)
      BY <1>1, <1>2, <2>2, <2>4, SamePowers
    <3>2. d \in Nat
      BY <1>2, <2>2, PowerRecursion
    <3> QED  BY <3>1, <3>2
  <2> HIDE DEF c, d
  <2>6. Same(c * c, d * d)
    BY <1>3, <2>5, SameProduct
  <2> QED  BY <2>2, <2>3, <2>6, SameEquivalence
<1> HIDE DEF c, candidate
<1> QED  BY <1>3, <1>6, <1>7, <1>8, <1>9

-----------------------------------------------------------------------------
(* The sum of two points of the curve is a point of the curve.             *)

SumX(a, b) == a[1] * b[2] + a[2] * b[1]
SumY(a, b) == a[2] * b[2] - A * (a[1] * b[1])

(* The numerators satisfy the equation of the curve over the denominators. *)
LEMMA SumNumerators ==
  ASSUME NEW a \in CurvePoints, NEW b \in CurvePoints
  PROVE  LET n == SumX(a, b)
             m == SumY(a, b)
             f == 1 + Kappa(a, b)
             g == 1 - Kappa(a, b)
         IN  /\ n \in Int /\ m \in Int /\ f \in Int /\ g \in Int
             /\ Same(A * ((n * n) * (g * g)) + (m * m) * (f * f),
                     (f * f) * (g * g) + D * ((n * m) * (n * m)))
<1> DEFINE x == a[1]
           y == a[2]
           u == b[1]
           w == b[2]
           k == Kappa(a, b)
           n == SumX(a, b)
           m == SumY(a, b)
           f == 1 + k
           g == 1 - k
           s == Squares(x, y)
           t == Squares(u, w)
           v == Quartic(x, y)
           z == Quartic(u, w)
           p == x * y
           q == u * w
           i == y * y - A * (x * x)
           j == w * w - A * (u * u)
<1>1. /\ x \in Int /\ y \in Int /\ u \in Int /\ w \in Int /\ A \in Int /\ D \in Int
      /\ Same(s, 1 + v) /\ Same(t, 1 + z) /\ k \in Int
  BY PointsOfTheCurve, CurveConstants, Complete
<1>2. k = D * (p * q)
  BY DEF Kappa
<1>3. n = x * w + y * u /\ m = y * w - A * (x * u)
  BY DEF SumX, SumY
<1>4. s = A * (x * x) + y * y /\ t = A * (u * u) + w * w
  BY DEF Squares
<1>5. v = D * (p * p) /\ z = D * (q * q)
  BY DEF Quartic
<1> HIDE DEF x, y, u, w, k, n, m, s, t, v, z
<1>6. /\ n \in Int /\ m \in Int /\ f \in Int /\ g \in Int /\ p \in Int /\ q \in Int
      /\ s \in Int /\ t \in Int /\ v \in Int /\ z \in Int /\ i \in Int /\ j \in Int
  BY <1>1, <1>3, <1>4, <1>5
<1>7. A * (n * n) + m * m = s * t
  BY <1>1, <1>3, <1>4
<1>8. m * m - A * (n * n) = i * j - 4 * (A * (p * q))
  BY <1>1, <1>3
<1>9. n * m = p * j + q * i
  BY <1>1, <1>3
<1>10. i * i = s * s - 4 * (A * (p * p)) /\ j * j = t * t - 4 * (A * (q * q))
  BY <1>1, <1>4
<1> HIDE DEF p, q, i, j
<1>11. D * ((n * m) * (n * m)) = v * (t * t) + z * (s * s) + 2 * (k * (i * j))
                                 - 8 * (A * (D * ((p * q) * (p * q))))
  <2>1. D * ((p * j + q * i) * (p * j + q * i))
          = (D * (p * p)) * (j * j) + (D * (q * q)) * (i * i)
            + 2 * ((D * (p * q)) * (i * j))
    BY <1>1, <1>6
  <2> DEFINE o == t * t
             r == s * s
  <2>2. o \in Int /\ r \in Int /\ j * j = o - 4 * (A * (q * q))
        /\ i * i = r - 4 * (A * (p * p))
    BY <1>6, <1>10
  <2> HIDE DEF o, r
  <2>3. (D * (p * p)) * (o - 4 * (A * (q * q))) + (D * (q * q)) * (r - 4 * (A * (p * p)))
          = (D * (p * p)) * o + (D * (q * q)) * r - 8 * (A * (D * ((p * q) * (p * q))))
    BY <1>1, <1>6, <2>2
  <2> DEFINE c == D * (p * p)
             d == D * (q * q)
             e == 2 * (k * (i * j))
             h == 8 * (A * (D * ((p * q) * (p * q))))
  <2>4. c = v /\ d = z /\ c \in Int /\ d \in Int /\ e \in Int /\ h \in Int
    BY <1>1, <1>5, <1>6
  <2>5. D * ((n * m) * (n * m)) = c * (j * j) + d * (i * i) + e
    BY <1>2, <1>9, <2>1
  <2>6. c * (j * j) + d * (i * i) = c * o + d * r - h
    BY <2>2, <2>3
  <2> HIDE DEF c, d, e, h
  <2>7. D * ((n * m) * (n * m)) = (c * o + d * r - h) + e
    BY <2>5, <2>6
  <2>8. c * o \in Int /\ d * r \in Int
    BY <2>2, <2>4
  <2>9. (c * o + d * r - h) + e = c * o + d * r + e - h
    BY <2>4, <2>8
  <2> QED  BY <2>4, <2>7, <2>9 DEF o, r, e, h
<1>12. A * ((n * n) * (g * g)) + (m * m) * (f * f)
         = (s * t) * (1 + k * k) + 2 * (k * (i * j))
           - 8 * (A * (D * ((p * q) * (p * q))))
  <2> DEFINE c == A * (n * n)
             d == m * m
             e == i * j
             h == A * (p * q)
  <2>1. c \in Int /\ d \in Int /\ e \in Int /\ h \in Int /\ c + d = s * t
        /\ d - c = e - 4 * h
    BY <1>1, <1>6, <1>7, <1>8
  <2>2. A * ((n * n) * (g * g)) = c * (g * g)
    BY <1>1, <1>6
  <2>3. k * h = A * (D * ((p * q) * (p * q)))
    BY <1>1, <1>2, <1>6
  <2> HIDE DEF c, d, e, h
  <2>4. c * ((1 - k) * (1 - k)) + d * ((1 + k) * (1 + k))
          = (c + d) * (1 + k * k) + 2 * (k * (d - c))
    BY <1>1, <2>1
  <2>5. k * (e - 4 * h) = k * e - 4 * (k * h) /\ k * e \in Int /\ k * h \in Int
    BY <1>1, <2>1
  <2> DEFINE o == (s * t) * (1 + k * k)
  <2>6. o \in Int
    BY <1>1, <1>6
  <2>7. c * (g * g) + d * (f * f) = o + 2 * (k * e - 4 * (k * h))
    BY <2>1, <2>4, <2>5
  <2> HIDE DEF o
  <2>8. o + 2 * (k * e - 4 * (k * h)) = o + 2 * (k * e) - 8 * (k * h)
    BY <2>5, <2>6
  <2>9. A * ((n * n) * (g * g)) + (m * m) * (f * f) = c * (g * g) + d * (f * f)
    BY <2>2 DEF d
  <2> QED  BY <2>3, <2>7, <2>8, <2>9 DEF o, e
<1>13. k * k = v * z
  <2>1. (D * (p * q)) * (D * (p * q)) = (D * (p * p)) * (D * (q * q))
    BY <1>1, <1>6
  <2> QED  BY <1>2, <1>5, <2>1
<1>14. Same((s * t) * (1 + k * k), (f * f) * (g * g) + (v * (t * t) + z * (s * s)))
  <2> DEFINE c == 1 + v
             d == 1 + z
             e == 1 + k * k
             h == k * k
             st == s * t
             cd == c * d
             tt == t * t
             ss == s * s
             cc == c * c
             dd == d * d
             ff == (f * f) * (g * g)
  <2>1. c \in Int /\ d \in Int /\ e \in Int /\ h \in Int /\ Same(s, c) /\ Same(t, d)
    BY <1>1, <1>6
  <2>2. (c * d) * e = ff + (v * (d * d) + z * (c * c))
    <3>1. ff = (1 - h) * (1 - h)
      BY <1>1
    <3>2. (c * d) * (1 + v * z)
            = (1 - v * z) * (1 - v * z) + (v * (d * d) + z * (c * c))
      BY <1>6
    <3>3. h = v * z /\ e = 1 + v * z
      BY <1>13
    <3> QED  BY <3>1, <3>2, <3>3
  <2>3. ff \in Int
    BY <1>6
  <2> HIDE DEF c, d, e, ff
  <2>4. Same(st, cd) /\ Same(tt, dd) /\ Same(ss, cc)
    BY <1>6, <2>1, SameProduct
  <2>5. /\ st \in Int /\ cd \in Int /\ tt \in Int /\ ss \in Int /\ cc \in Int /\ dd \in Int
    BY <1>6, <2>1
  <2> HIDE DEF st, cd, tt, ss, cc, dd
  <2>6. Same(st * e, cd * e)
    BY <2>1, <2>4, <2>5, SameTimes
  <2>7. Same(v * tt, v * dd)
    BY <1>6, <2>4, <2>5, SameTimes
  <2>8. Same(z * ss, z * cc)
    BY <1>6, <2>4, <2>5, SameTimes
  <2> DEFINE c1 == v * tt
             c2 == v * dd
             c3 == z * ss
             c4 == z * cc
             c5 == c1 + c3
             c6 == c2 + c4
  <2>9. c1 \in Int /\ c2 \in Int /\ c3 \in Int /\ c4 \in Int /\ c5 \in Int /\ c6 \in Int
    BY <1>6, <2>5
  <2>10. Same(c1, c2) /\ Same(c3, c4)
    BY <2>7, <2>8
  <2> HIDE DEF c1, c2, c3, c4
  <2>11. Same(c5, c6)
    BY <2>9, <2>10, SameSum
  <2> HIDE DEF c5, c6
  <2>12. Same(ff + c5, ff + c6)
    <3>1. Same(ff, ff)
      BY SameEquivalence
    <3> QED  BY <2>3, <2>9, <2>11, <3>1, SameSum
  <2>13. cd * e = ff + c6
    BY <2>2 DEF c6, c2, c4, cd, dd, cc
  <2>14. Same(st * e, ff + c5)
    BY <2>6, <2>12, <2>13, SameEquivalence
  <2> QED  BY <2>14 DEF st, e, ff, c5, c1, c3, tt, ss
<1> DEFINE c == (s * t) * (1 + k * k)
           d == (f * f) * (g * g)
           e == v * (t * t) + z * (s * s)
           o == 2 * (k * (i * j))
           h == 8 * (A * (D * ((p * q) * (p * q))))
           r == d + e
<1>15. c \in Int /\ d \in Int /\ e \in Int /\ o \in Int /\ h \in Int /\ r \in Int
       /\ Same(c, r)
  BY <1>1, <1>6, <1>14
<1>16. A * ((n * n) * (g * g)) + (m * m) * (f * f) = c + o - h
  BY <1>12
<1>17. D * ((n * m) * (n * m)) = e + o - h
  BY <1>11
<1> HIDE DEF c, d, e, o, h
<1>18. Same(c + (o - h), r + (o - h))
  <2> DEFINE l == o - h
  <2>1. l \in Int /\ Same(l, l)
    BY <1>15, SameEquivalence
  <2> HIDE DEF l, r
  <2>2. Same(c + l, r + l)
    BY <1>15, <2>1, SameSum
  <2> QED  BY <2>2 DEF l
<1>19. c + (o - h) = c + o - h /\ r + (o - h) = d + (e + o - h)
  BY <1>15
<1> QED  BY <1>6, <1>16, <1>17, <1>18, <1>19 DEF d, n, m, k

(* Times and Reciprocals divide.                                           *)
LEMMA Quotient ==
  ASSUME NEW n \in Int, NEW m \in Int, NEW d \in Int, NEW e \in Int,
         Same(m, n), Same(e, d), ~ Same(d, 0)
  PROVE  LET q == Times(m, Reciprocals[e % P])
         IN  q \in Residues /\ q \in Int /\ Same(d * q, n)
<1> DEFINE r == Reciprocals[e % P]
           q == Times(m, r)
           i == m * r
           j == d * r
<1>1. ~ Same(e, 0)
  BY SameEquivalence
<1>2. r \in Int /\ Same(e * r, 1)
  BY <1>1, Reciprocal
<1> HIDE DEF r
<1>3. q \in Residues /\ q \in Int /\ Same(q, i)
  BY <1>2, TimesIs
<1>8. i \in Int /\ j \in Int
  BY <1>2
<1> HIDE DEF q
<1>4. Same(j, 1)
  <2>1. Same(e * r, d * r)
    BY <1>2, SameTimes
  <2> QED  BY <1>2, <2>1, SameEquivalence
<1>5. d * i = m * j /\ m * 1 = m
  BY <1>2
<1> HIDE DEF i, j
<1>6. Same(d * q, d * i)
  BY <1>3, <1>8, SameTimes
<1>7. Same(m * j, m * 1)
  <2>1. 1 \in Int /\ Same(m, m)
    BY SameEquivalence
  <2> QED  BY <1>4, <1>8, <2>1, SameProduct
<1> QED  BY <1>3, <1>5, <1>6, <1>7, SameEquivalence DEF q, r

LEMMA SumIs ==
  ASSUME NEW a \in CurvePoints, NEW b \in CurvePoints
  PROVE  LET c == AffineAdd(a, b)
             k == Kappa(a, b)
         IN  /\ c = <<c[1], c[2]>> /\ c[1] \in Residues /\ c[2] \in Residues
             /\ c[1] \in Int /\ c[2] \in Int
             /\ Same((1 + k) * c[1], SumX(a, b))
             /\ Same((1 - k) * c[2], SumY(a, b))
<1> DEFINE x == a[1]
           y == a[2]
           u == b[1]
           w == b[2]
           k == Kappa(a, b)
           h == D * Times(Times(x, u), Times(y, w))
           n == x * w + y * u
           m == y * w - A * x * u
           r == m % P
           c1 == Times(n, Reciprocals[(1 + h) % P])
           c2 == Times(r, Reciprocals[(1 - h) % P])
<1>1. AffineAdd(a, b) = <<c1, c2>>
  BY DEF AffineAdd
<1>2. /\ x \in Int /\ y \in Int /\ u \in Int /\ w \in Int /\ A \in Int /\ D \in Int
      /\ k \in Int /\ ~ Same(1 + k, 0) /\ ~ Same(1 - k, 0)
  BY PointsOfTheCurve, CurveConstants, Complete
<1>3. k = D * ((x * y) * (u * w))
  BY DEF Kappa
<1>4. n = SumX(a, b) /\ m = SumY(a, b)
  <2>1. A * x * u = A * (x * u)
    BY <1>2
  <2> QED  BY <2>1 DEF SumX, SumY
<1> HIDE DEF x, y, u, w, k
<1>5. h \in Int /\ Same(h, k)
  <2> DEFINE i == Times(x, u)
             j == Times(y, w)
             l == Times(i, j)
             xu == x * u
             yw == y * w
             ij == i * j
             p == xu * yw
  <2>1. i \in Int /\ j \in Int /\ Same(i, xu) /\ Same(j, yw)
    <3>1. i \in Int /\ Same(i, xu)
      BY <1>2, TimesIs
    <3>2. j \in Int /\ Same(j, yw)
      BY <1>2, TimesIs
    <3> QED  BY <3>1, <3>2
  <2>7. xu \in Int /\ yw \in Int
    BY <1>2
  <2>2. k = D * p
    BY <1>2, <1>3
  <2> HIDE DEF i, j, xu, yw
  <2>3. l \in Int /\ Same(l, ij)
    BY <2>1, TimesIs
  <2>4. Same(ij, p)
    BY <2>1, <2>7, SameProduct
  <2>8. ij \in Int /\ p \in Int
    BY <2>1, <2>7
  <2> HIDE DEF l, ij, p
  <2>5. Same(l, p)
    BY <2>3, <2>4, SameEquivalence
  <2>6. Same(D * l, D * p)
    BY <1>2, <2>3, <2>5, <2>8, SameTimes
  <2>9. D * l \in Int
    BY <1>2, <2>3
  <2> QED  BY <2>2, <2>6, <2>9 DEF l, i, j
<1> HIDE DEF h
<1>6. /\ 1 + h \in Int /\ 1 - h \in Int /\ 1 + k \in Int /\ 1 - k \in Int
      /\ n \in Int /\ m \in Int
  BY <1>2, <1>5
<1>7. Same(1, 1) /\ Same(n, n)
  BY SameEquivalence
<1>8. Same(1 + h, 1 + k)
  BY <1>2, <1>5, <1>7, SameSum
<1>9. Same(1 - h, 1 - k)
  BY <1>2, <1>5, <1>7, SameDifference
<1> HIDE DEF n, m
<1>10. r \in Int /\ Same(r, m)
  BY <1>6, SameRemainder, ResiduesAreInt
<1> HIDE DEF r
<1>11. c1 \in Residues /\ c1 \in Int /\ Same((1 + k) * c1, n)
  BY <1>2, <1>6, <1>7, <1>8, Quotient
<1>12. c2 \in Residues /\ c2 \in Int /\ Same((1 - k) * c2, m)
  BY <1>2, <1>6, <1>9, <1>10, Quotient
<1> HIDE DEF c1, c2
<1>13. <<c1, c2>>[1] = c1 /\ <<c1, c2>>[2] = c2
  OBVIOUS
<1> QED  BY <1>1, <1>4, <1>11, <1>12, <1>13 DEF k

LEMMA SumOnTheCurve ==
  ASSUME NEW a \in CurvePoints, NEW b \in CurvePoints
  PROVE  AffineAdd(a, b) \in CurvePoints
<1> DEFINE c == AffineAdd(a, b)
           x == c[1]
           y == c[2]
           n == SumX(a, b)
           m == SumY(a, b)
           f == 1 + Kappa(a, b)
           g == 1 - Kappa(a, b)
<1>1. /\ c = <<x, y>> /\ x \in Residues /\ y \in Residues /\ x \in Int /\ y \in Int
      /\ Same(f * x, n) /\ Same(g * y, m)
  BY SumIs
<1>2. /\ n \in Int /\ m \in Int /\ f \in Int /\ g \in Int
      /\ Same(A * ((n * n) * (g * g)) + (m * m) * (f * f),
              (f * f) * (g * g) + D * ((n * m) * (n * m)))
  BY SumNumerators
<1>3. ~ Same(f, 0) /\ ~ Same(g, 0) /\ A \in Int /\ D \in Int
  BY Complete, CurveConstants
<1> HIDE DEF c, x, y, n, m, f, g
<1> DEFINE fx == f * x
           gy == g * y
           ff == f * f
           gg == g * g
           h == ff * gg
<1>4. fx \in Int /\ gy \in Int /\ ff \in Int /\ gg \in Int /\ h \in Int
  BY <1>1, <1>2
<1>5. ~ Same(h, 0)
  <2>1. ~ Same(ff, 0) /\ ~ Same(gg, 0)
    BY <1>2, <1>3, NonzeroProduct
  <2> HIDE DEF ff, gg
  <2> QED  BY <1>4, <2>1, NonzeroProduct
<1>6. h * Squares(x, y) = A * ((fx * fx) * gg) + (gy * gy) * ff
  <2>1. ((f * f) * (g * g)) * (A * (x * x) + y * y)
        = A * (((f * x) * (f * x)) * (g * g)) + ((g * y) * (g * y)) * (f * f)
    BY <1>1, <1>2, <1>3
  <2> QED  BY <2>1 DEF Squares
<1>7. h * (1 + Quartic(x, y)) = h + D * ((fx * gy) * (fx * gy))
  <2>1. ((f * f) * (g * g)) * (1 + D * ((x * y) * (x * y)))
        = (f * f) * (g * g) + D * (((f * x) * (g * y)) * ((f * x) * (g * y)))
    BY <1>1, <1>2, <1>3
  <2> QED  BY <2>1 DEF Quartic
<1> HIDE DEF fx, gy, ff, gg
<1> DEFINE e1 == A * ((fx * fx) * gg)
           e2 == (gy * gy) * ff
           e3 == A * ((n * n) * gg)
           e4 == (m * m) * ff
           e5 == D * ((fx * gy) * (fx * gy))
           e6 == D * ((n * m) * (n * m))
<1>8. Same(fx, n) /\ Same(gy, m)
  BY <1>1 DEF fx, gy
<1>9. e1 \in Int /\ e3 \in Int /\ Same(e1, e3)
  <2> DEFINE i == fx * fx
             j == n * n
             k == i * gg
             l == j * gg
  <2>1. i \in Int /\ j \in Int /\ Same(i, j)
    BY <1>2, <1>4, <1>8, SameProduct
  <2> HIDE DEF i, j
  <2>2. k \in Int /\ l \in Int
    BY <1>4, <2>1
  <2>3. Same(k, l)
    BY <1>4, <2>1, SameTimes
  <2> HIDE DEF k, l
  <2>4. Same(A * k, A * l)
    BY <1>3, <2>2, <2>3, SameTimes
  <2>5. A * k \in Int /\ A * l \in Int
    BY <1>3, <2>2
  <2> QED  BY <2>4, <2>5 DEF i, j, k, l
<1>10. e2 \in Int /\ e4 \in Int /\ Same(e2, e4)
  <2> DEFINE i == gy * gy
             j == m * m
  <2>1. i \in Int /\ j \in Int /\ Same(i, j)
    BY <1>2, <1>4, <1>8, SameProduct
  <2> HIDE DEF i, j
  <2>2. i * ff \in Int /\ j * ff \in Int
    BY <1>4, <2>1
  <2>3. Same(i * ff, j * ff)
    BY <1>4, <2>1, SameTimes
  <2> QED  BY <2>2, <2>3 DEF i, j
<1>11. e5 \in Int /\ e6 \in Int /\ Same(e5, e6)
  <2> DEFINE i == fx * gy
             j == n * m
             k == i * i
             l == j * j
  <2>1. i \in Int /\ j \in Int /\ Same(i, j)
    BY <1>2, <1>4, <1>8, SameProduct
  <2> HIDE DEF i, j
  <2>2. k \in Int /\ l \in Int /\ Same(k, l)
    BY <2>1, SameProduct
  <2> HIDE DEF k, l
  <2>3. Same(D * k, D * l)
    BY <1>3, <2>2, SameTimes
  <2>4. D * k \in Int /\ D * l \in Int
    BY <1>3, <2>2
  <2> QED  BY <2>3, <2>4 DEF i, j, k, l
<1>12. Same(e3 + e4, h + e6)
  BY <1>2 DEF h, ff, gg
<1> HIDE DEF e1, e2, e3, e4, e5, e6, h
<1>13. Same(e1 + e2, e3 + e4)
  BY <1>9, <1>10, SameSum
<1>14. Same(h + e6, h + e5)
  <2>1. Same(h, h) /\ Same(e6, e5)
    BY <1>11, SameEquivalence
  <2> QED  BY <1>4, <1>11, <2>1, SameSum
<1>15. Same(h * Squares(x, y), h * (1 + Quartic(x, y)))
  BY <1>6, <1>7, <1>12, <1>13, <1>14, SameEquivalence DEF e1, e2, e5
<1>16. Squares(x, y) \in Int /\ 1 + Quartic(x, y) \in Int
  BY <1>1, SquaresAreInt
<1>17. Same(Squares(x, y), 1 + Quartic(x, y))
  BY <1>4, <1>5, <1>15, <1>16, Cancel
<1> QED  BY <1>1, <1>17, CurveEquation DEF c

-----------------------------------------------------------------------------
(* Extended points, by the affine points they represent.                   *)

Coordinates == [x : FieldElement, y : FieldElement, z : FieldElement, t : FieldElement]

(* p is the affine point a, with the Z coordinate z.                       *)
RepresentsWith(p, a, z) ==
  /\ p \in Coordinates
  /\ a \in CurvePoints
  /\ ~ Same(z, 0)
  /\ Stands(p.x, a[1] * z) /\ Stands(p.y, a[2] * z)
  /\ Stands(p.z, z) /\ Stands(p.t, (a[1] * a[2]) * z)

Represents(p, a) == \E z \in Int : RepresentsWith(p, a, z)

LEMMA RepresentativesAreValid ==
  ASSUME NEW p, NEW a, Represents(p, a)
  PROVE  IsValid(p)
<1>1. PICK z \in Int : RepresentsWith(p, a, z)
  BY DEF Represents
<1> DEFINE x == a[1]
           y == a[2]
           s == Squares(x, y)
           r == 1 + Quartic(x, y)
           X == x * z
           Y == y * z
           T == (x * y) * z
           xx == X * X
           yy == Y * Y
           zz == z * z
<1>2. /\ x \in Int /\ y \in Int /\ s \in Int /\ r \in Int /\ Same(s, r)
      /\ A \in Int /\ D \in Int /\ ~ Same(z, 0)
  BY <1>1, PointsOfTheCurve, SquaresAreInt, CurveConstants DEF RepresentsWith
<1>3. Stands(p.x, X) /\ Stands(p.y, Y) /\ Stands(p.z, z) /\ Stands(p.t, T)
  BY <1>1 DEF RepresentsWith
<1>4. s = A * (x * x) + y * y /\ r = 1 + D * ((x * y) * (x * y))
  BY DEF Squares, Quartic
<1> HIDE DEF s, r, x, y
<1>5. X \in Int /\ Y \in Int /\ T \in Int /\ zz \in Int
  BY <1>2
<1>6. ~ FeIsZero(p.z)
  BY <1>2, <1>3, ConstantsStand, StandsFor DEF FeIsZero
<1>7. FeMul(p.x, p.y) = FeMul(p.z, p.t)
  <2>1. Stands(FeMul(p.x, p.y), X * Y) /\ Stands(FeMul(p.z, p.t), z * T)
    BY <1>3, StandsFor
  <2>2. X * Y = z * T
    BY <1>2
  <2>3. Same(X * Y, z * T)
    BY <2>2, SameEquivalence
  <2> HIDE DEF X, Y, T
  <2> QED  BY <2>1, <2>3, StandsEqual
<1> DEFINE l == (A * xx) * zz + yy * zz
           q == zz * zz + (D * xx) * yy
<1>8. Stands(FeAdd(FeMul(FeMul(EDWARDS_A, FeSquare(p.x)), FeSquare(p.z)),
                   FeMul(FeSquare(p.y), FeSquare(p.z))), l)
  <2>1. /\ Stands(FeSquare(p.x), xx) /\ Stands(FeSquare(p.y), yy)
        /\ Stands(FeSquare(p.z), zz)
    BY <1>3, StandsFor
  <2> HIDE DEF xx, yy, zz
  <2>2. Stands(FeMul(EDWARDS_A, FeSquare(p.x)), A * xx)
    BY <2>1, ConstantsStand, StandsFor
  <2>3. Stands(FeMul(FeMul(EDWARDS_A, FeSquare(p.x)), FeSquare(p.z)), (A * xx) * zz)
    BY <2>1, <2>2, StandsFor
  <2>4. Stands(FeMul(FeSquare(p.y), FeSquare(p.z)), yy * zz)
    BY <2>1, StandsFor
  <2> QED  BY <2>3, <2>4, StandsFor
<1>9. Stands(FeAdd(FeSquare(FeSquare(p.z)),
                   FeMul(FeMul(EDWARDS_D, FeSquare(p.x)), FeSquare(p.y))), q)
  <2>1. /\ Stands(FeSquare(p.x), xx) /\ Stands(FeSquare(p.y), yy)
        /\ Stands(FeSquare(p.z), zz)
    BY <1>3, StandsFor
  <2> HIDE DEF xx, yy, zz
  <2>2. Stands(FeMul(EDWARDS_D, FeSquare(p.x)), D * xx)
    BY <2>1, ConstantsStand, StandsFor
  <2>3. Stands(FeMul(FeMul(EDWARDS_D, FeSquare(p.x)), FeSquare(p.y)), (D * xx) * yy)
    BY <2>1, <2>2, StandsFor
  <2>4. Stands(FeSquare(FeSquare(p.z)), zz * zz)
    BY <2>1, StandsFor
  <2> QED  BY <2>3, <2>4, StandsFor
<1>10. Same(l, q)
  <2> DEFINE m == zz * zz
  <2>1. l = m * s
    <3>1. (A * ((x * z) * (x * z))) * (z * z) + ((y * z) * (y * z)) * (z * z)
            = ((z * z) * (z * z)) * (A * (x * x) + y * y)
      BY <1>2
    <3> QED  BY <1>4, <3>1
  <2>2. q = m * r
    <3>1. (z * z) * (z * z) + (D * ((x * z) * (x * z))) * ((y * z) * (y * z))
            = ((z * z) * (z * z)) * (1 + D * ((x * y) * (x * y)))
      BY <1>2
    <3> QED  BY <1>4, <3>1
  <2>3. m \in Int
    BY <1>5
  <2> HIDE DEF m, l, q
  <2>4. Same(m * s, m * r)
    BY <1>2, <2>3, SameTimes
  <2> QED  BY <2>1, <2>2, <2>4
<1> HIDE DEF l, q
<1>11. FeAdd(FeMul(FeMul(EDWARDS_A, FeSquare(p.x)), FeSquare(p.z)),
             FeMul(FeSquare(p.y), FeSquare(p.z)))
         = FeAdd(FeSquare(FeSquare(p.z)),
                 FeMul(FeMul(EDWARDS_D, FeSquare(p.x)), FeSquare(p.y)))
  BY <1>8, <1>9, <1>10, StandsEqual
<1> QED  BY <1>6, <1>7, <1>11 DEF IsValid

LEMMA AffineOfRepresentative ==
  ASSUME NEW p, NEW a, Represents(p, a)
  PROVE  Affine(p) = a
<1>1. PICK z \in Int : RepresentsWith(p, a, z)
  BY DEF Represents
<1> DEFINE v == V(p.z)
           u == Reciprocals[v]
<1>2. /\ Stands(p.x, a[1] * z) /\ Stands(p.y, a[2] * z) /\ Stands(p.z, z)
      /\ ~ Same(z, 0) /\ a \in CurvePoints
  BY <1>1 DEF RepresentsWith
<1>3. /\ a = <<a[1], a[2]>> /\ a[1] \in Residues /\ a[2] \in Residues
      /\ a[1] \in Int /\ a[2] \in Int
  BY <1>2, PointsOfTheCurve
<1>4. v \in Int /\ Same(v, z) /\ v % P = v
  <2>1. p.z \in Int
    BY <1>2, ElementsAreResidues, ResiduesAreInt DEF Stands
  <2>2. v \in Int /\ v \in Residues
    BY <2>1, ValueOf
  <2> QED  BY <1>2, <2>2, SameResidues DEF Stands
<1>5. ASSUME NEW f, NEW n \in Residues, n \in Int, Stands(f, n * z)
      PROVE  Times(V(f), u) = n
  <2> DEFINE m == n * z
             q == Times(V(f), Reciprocals[v % P])
  <2>1. f \in Int
    BY <1>5, ElementsAreResidues, ResiduesAreInt DEF Stands
  <2>2. V(f) \in Int /\ m \in Int /\ Same(V(f), m)
    BY <1>5, <2>1, ValueOf DEF Stands
  <2>5. m = z * n
    BY <1>5
  <2> HIDE DEF m, v
  <2>3. q \in Residues /\ q \in Int /\ Same(z * q, m)
    BY <1>2, <1>4, <2>2, Quotient
  <2> HIDE DEF q
  <2>4. Same(q, n)
    BY <1>2, <1>5, <2>3, <2>5, Cancel
  <2>6. q = n
    BY <1>5, <2>3, <2>4, SameResidues
  <2> QED  BY <1>4, <2>6 DEF q
<1>6. Affine(p) = <<Times(V(p.x), u), Times(V(p.y), u)>>
  BY DEF Affine, V
<1> HIDE DEF u
<1> QED  BY <1>2, <1>3, <1>5, <1>6

(* Both formulas end in the same four products.                            *)
LEMMA Assembled ==
  ASSUME NEW p \in Coordinates, NEW c \in CurvePoints,
         NEW e \in Int, NEW f \in Int, NEW g \in Int, NEW h \in Int,
         ~ Same(f, 0), ~ Same(g, 0),
         Same(e, c[1] * g), Same(h, c[2] * f),
         Stands(p.x, e * f), Stands(p.y, g * h),
         Stands(p.z, f * g), Stands(p.t, e * h)
  PROVE  Represents(p, c)
<1> DEFINE x == c[1]
           y == c[2]
           z == f * g
           xg == x * g
           yf == y * f
           ef == e * f
           gh == g * h
           eh == e * h
<1>1. x \in Int /\ y \in Int /\ z \in Int /\ xg \in Int /\ yf \in Int
      /\ ef \in Int /\ gh \in Int /\ eh \in Int
  BY PointsOfTheCurve
<1>2. Same(e, xg) /\ Same(h, yf)
  OBVIOUS
<1>3. xg * f = x * z /\ g * yf = y * z /\ xg * yf = (x * y) * z
      /\ x * z \in Int /\ y * z \in Int /\ (x * y) * z \in Int
  BY <1>1
<1>4. ~ Same(z, 0)
  BY NonzeroProduct
<1> HIDE DEF xg, yf
<1>5. Same(ef, x * z)
  <2>1. Same(e * f, xg * f)
    BY <1>1, <1>2, SameTimes
  <2> QED  BY <1>3, <2>1
<1>6. Same(gh, y * z)
  <2>1. Same(g * h, g * yf)
    BY <1>1, <1>2, SameTimes
  <2> QED  BY <1>3, <2>1
<1>7. Same(eh, (x * y) * z)
  <2>1. Same(e * h, xg * yf)
    BY <1>1, <1>2, SameProduct
  <2> QED  BY <1>3, <2>1
<1>8. Stands(p.x, ef) /\ Stands(p.y, gh) /\ Stands(p.t, eh) /\ Stands(p.z, z)
  OBVIOUS
<1> HIDE DEF x, y, z, ef, gh, eh
<1>9. Stands(p.x, x * z) /\ Stands(p.y, y * z) /\ Stands(p.t, (x * y) * z)
  BY <1>3, <1>5, <1>6, <1>7, <1>8, StandsAndSame
<1>10. RepresentsWith(p, c, z)
  BY <1>4, <1>8, <1>9 DEF RepresentsWith, x, y
<1> QED  BY <1>1, <1>10 DEF Represents

(* The sum and the double of extended points, Z coordinates and all, are   *)
(* those of the affine points.                                             *)
LEMMA PointAddRepresents ==
  ASSUME NEW p, NEW q, NEW a, NEW b, Represents(p, a), Represents(q, b)
  PROVE  Represents(PointAdd(p, q), AffineAdd(a, b))
<1>1. PICK z \in Int : RepresentsWith(p, a, z)
  BY DEF Represents
<1>2. PICK w \in Int : RepresentsWith(q, b, w)
  BY DEF Represents
<1>3. a \in CurvePoints /\ b \in CurvePoints /\ ~ Same(z, 0) /\ ~ Same(w, 0)
  BY <1>1, <1>2 DEF RepresentsWith
<1> DEFINE x1 == a[1]
           y1 == a[2]
           x2 == b[1]
           y2 == b[2]
           k == Kappa(a, b)
           c == AffineAdd(a, b)
           n == SumX(a, b)
           m == SumY(a, b)
           zw == z * w
           X1 == x1 * z
           Y1 == y1 * z
           T1 == (x1 * y1) * z
           X2 == x2 * w
           Y2 == y2 * w
           T2 == (x2 * y2) * w
           e == ((X1 + Y1) * (X2 + Y2) - X1 * X2) - Y1 * Y2
           d == (D * T1) * T2
           f == zw - d
           g == zw + d
           h == Y1 * Y2 - A * (X1 * X2)
           xx == FeMul(p.x, q.x)
           yy == FeMul(p.y, q.y)
           dt == FeMul(FeMul(EDWARDS_D, p.t), q.t)
           zz == FeMul(p.z, q.z)
           cross == FeSub(FeSub(FeMul(FeAdd(p.x, p.y), FeAdd(q.x, q.y)), xx), yy)
           difference == FeSub(zz, dt)
           sum == FeAdd(zz, dt)
           twisted == FeSub(yy, FeMul(EDWARDS_A, xx))
           r == [x |-> FeMul(cross, difference), y |-> FeMul(sum, twisted),
                 z |-> FeMul(difference, sum), t |-> FeMul(cross, twisted)]
<1>4. PointAdd(p, q) = r
  BY DEF PointAdd
<1>5. /\ x1 \in Int /\ y1 \in Int /\ x2 \in Int /\ y2 \in Int
      /\ A \in Int /\ D \in Int /\ k \in Int
      /\ ~ Same(1 + k, 0) /\ ~ Same(1 - k, 0)
  BY <1>3, PointsOfTheCurve, CurveConstants, Complete
<1>6. /\ Same((1 + k) * c[1], n) /\ Same((1 - k) * c[2], m)
      /\ c[1] \in Int /\ c[2] \in Int /\ c \in CurvePoints
  BY <1>3, SumIs, SumOnTheCurve
<1>7. /\ Stands(p.x, X1) /\ Stands(p.y, Y1) /\ Stands(p.z, z) /\ Stands(p.t, T1)
      /\ Stands(q.x, X2) /\ Stands(q.y, Y2) /\ Stands(q.z, w) /\ Stands(q.t, T2)
  BY <1>1, <1>2 DEF RepresentsWith
<1>8. /\ k = D * ((x1 * y1) * (x2 * y2)) /\ n = x1 * y2 + y1 * x2
      /\ m = y1 * y2 - A * (x1 * x2)
  BY DEF Kappa, SumX, SumY
<1> HIDE DEF x1, y1, x2, y2, k, c, n, m
<1>9. /\ zw \in Int /\ n \in Int /\ m \in Int /\ 1 + k \in Int /\ 1 - k \in Int
      /\ X1 \in Int /\ Y1 \in Int /\ T1 \in Int
      /\ X2 \in Int /\ Y2 \in Int /\ T2 \in Int
  BY <1>5, <1>8
<1>10. e = zw * n
  <2>1. ((x1 * z + y1 * z) * (x2 * w + y2 * w) - (x1 * z) * (x2 * w))
          - (y1 * z) * (y2 * w) = (z * w) * (x1 * y2 + y1 * x2)
    BY <1>5
  <2> QED  BY <1>8, <2>1
<1>11. h = zw * m
  <2>1. (y1 * z) * (y2 * w) - A * ((x1 * z) * (x2 * w))
          = (z * w) * (y1 * y2 - A * (x1 * x2))
    BY <1>5
  <2> QED  BY <1>8, <2>1
<1>12. d = zw * k
  <2>1. (D * ((x1 * y1) * z)) * ((x2 * y2) * w)
          = (z * w) * (D * ((x1 * y1) * (x2 * y2)))
    BY <1>5
  <2> QED  BY <1>8, <2>1
<1>13. f = zw * (1 - k) /\ g = zw * (1 + k)
  BY <1>5, <1>9, <1>12
<1>14. ~ Same(zw, 0)
  BY <1>3, NonzeroProduct
<1> HIDE DEF zw
<1>15. e \in Int /\ f \in Int /\ g \in Int /\ h \in Int /\ d \in Int
  <2>1. zw * n \in Int /\ zw * m \in Int /\ zw * k \in Int
    BY <1>5, <1>9
  <2>2. zw - zw * k \in Int /\ zw + zw * k \in Int
    BY <1>9, <2>1
  <2> QED  BY <1>10, <1>11, <1>12, <2>1, <2>2
<1>16. Stands(zz, zw)
  BY <1>7, StandsFor DEF zw
<1> HIDE DEF X1, Y1, T1, X2, Y2, T2
<1>17. Stands(xx, X1 * X2) /\ Stands(yy, Y1 * Y2)
  BY <1>7, StandsFor
<1>18. Stands(dt, d)
  <2>1. Stands(FeMul(EDWARDS_D, p.t), D * T1)
    BY <1>7, ConstantsStand, StandsFor
  <2> QED  BY <1>7, <2>1, StandsFor
<1>19. Stands(cross, e)
  <2> HIDE DEF xx, yy
  <2>1. Stands(FeAdd(p.x, p.y), X1 + Y1) /\ Stands(FeAdd(q.x, q.y), X2 + Y2)
    BY <1>7, StandsFor
  <2>2. Stands(FeMul(FeAdd(p.x, p.y), FeAdd(q.x, q.y)), (X1 + Y1) * (X2 + Y2))
    BY <2>1, StandsFor
  <2>3. Stands(FeSub(FeMul(FeAdd(p.x, p.y), FeAdd(q.x, q.y)), xx),
               (X1 + Y1) * (X2 + Y2) - X1 * X2)
    BY <1>17, <2>2, StandsFor
  <2> QED  BY <1>17, <2>3, StandsFor
<1>20. Stands(twisted, h)
  <2> HIDE DEF xx, yy
  <2>1. Stands(FeMul(EDWARDS_A, xx), A * (X1 * X2))
    BY <1>17, ConstantsStand, StandsFor
  <2> QED  BY <1>17, <2>1, StandsFor
<1>21. Stands(difference, f) /\ Stands(sum, g)
  <2> HIDE DEF zz, dt, d
  <2> QED  BY <1>16, <1>18, StandsFor
<1> HIDE DEF e, f, g, h, d, cross, difference, sum, twisted
<1>22. /\ Stands(r.x, e * f) /\ Stands(r.y, g * h)
       /\ Stands(r.z, f * g) /\ Stands(r.t, e * h)
  BY <1>19, <1>20, <1>21, StandsFor
<1>23. r \in Coordinates
  BY <1>22 DEF Stands, Coordinates
<1>24. ~ Same(f, 0) /\ ~ Same(g, 0)
  BY <1>5, <1>9, <1>13, <1>14, NonzeroProduct
<1>25. Same(e, c[1] * g)
  <2> DEFINE i == (1 + k) * c[1]
  <2>1. i \in Int /\ Same(n, i)
    BY <1>6, <1>9, SameEquivalence
  <2>2. zw * i = c[1] * (zw * (1 + k))
    BY <1>5, <1>6, <1>9
  <2> HIDE DEF i
  <2>3. Same(zw * n, zw * i)
    BY <1>9, <2>1, SameTimes
  <2> QED  BY <1>10, <1>13, <2>2, <2>3
<1>26. Same(h, c[2] * f)
  <2> DEFINE i == (1 - k) * c[2]
  <2>1. i \in Int /\ Same(m, i)
    BY <1>6, <1>9, SameEquivalence
  <2>2. zw * i = c[2] * (zw * (1 - k))
    BY <1>5, <1>6, <1>9
  <2> HIDE DEF i
  <2>3. Same(zw * m, zw * i)
    BY <1>9, <2>1, SameTimes
  <2> QED  BY <1>11, <1>13, <2>2, <2>3
<1> HIDE DEF r
<1>27. Represents(r, c)
  BY <1>6, <1>15, <1>22, <1>23, <1>24, <1>25, <1>26, Assembled
<1> QED  BY <1>4, <1>27 DEF c

LEMMA PointDoubleRepresents ==
  ASSUME NEW p, NEW a, Represents(p, a)
  PROVE  Represents(PointDouble(p), AffineAdd(a, a))
<1>1. PICK z \in Int : RepresentsWith(p, a, z)
  BY DEF Represents
<1>2. a \in CurvePoints /\ ~ Same(z, 0)
  BY <1>1 DEF RepresentsWith
<1> DEFINE x == a[1]
           y == a[2]
           k == Kappa(a, a)
           c == AffineAdd(a, a)
           n == SumX(a, a)
           m == SumY(a, a)
           u == Squares(x, y)
           v == Quartic(x, y)
           o == z * z
           X == x * z
           Y == y * z
           e == ((X + Y) * (X + Y) - X * X) - Y * Y
           g == A * (X * X) + Y * Y
           f == g - 2 * o
           h == A * (X * X) - Y * Y
           xx == FeSquare(p.x)
           yy == FeSquare(p.y)
           two_zz == FeMul(TWO, FeSquare(p.z))
           twisted_xx == FeMul(EDWARDS_A, xx)
           cross == FeSub(FeSub(FeSquare(FeAdd(p.x, p.y)), xx), yy)
           sum == FeAdd(twisted_xx, yy)
           difference == FeSub(sum, two_zz)
           twisted == FeSub(twisted_xx, yy)
           r == [x |-> FeMul(cross, difference), y |-> FeMul(sum, twisted),
                 z |-> FeMul(difference, sum), t |-> FeMul(cross, twisted)]
<1>4. PointDouble(p) = r
  BY DEF PointDouble
<1>5. /\ x \in Int /\ y \in Int /\ A \in Int /\ D \in Int /\ k \in Int
      /\ u \in Int /\ v \in Int /\ Same(u, 1 + v)
      /\ ~ Same(1 + k, 0) /\ ~ Same(1 - k, 0)
  BY <1>2, PointsOfTheCurve, CurveConstants, Complete, SquaresAreInt
<1>6. /\ Same((1 + k) * c[1], n) /\ Same((1 - k) * c[2], m)
      /\ c[1] \in Int /\ c[2] \in Int /\ c \in CurvePoints
  BY <1>2, SumIs, SumOnTheCurve
<1>7. /\ Stands(p.x, X) /\ Stands(p.y, Y) /\ Stands(p.z, z)
  BY <1>1 DEF RepresentsWith
<1>8. /\ v = k /\ n = x * y + y * x /\ m = y * y - A * (x * x)
      /\ u = A * (x * x) + y * y
  BY DEF Kappa, SumX, SumY, Squares, Quartic
<1> HIDE DEF x, y, k, c, n, m, u, v
<1>9. /\ o \in Int /\ n \in Int /\ m \in Int /\ 1 + k \in Int /\ 1 - k \in Int
      /\ X \in Int /\ Y \in Int
  BY <1>5, <1>8
<1>10. e = o * n
  <2>1. ((x * z + y * z) * (x * z + y * z) - (x * z) * (x * z))
          - (y * z) * (y * z) = (z * z) * (x * y + y * x)
    BY <1>5
  <2> QED  BY <1>8, <2>1
<1>11. h = o * (0 - m)
  <2>1. A * ((x * z) * (x * z)) - (y * z) * (y * z)
          = (z * z) * (0 - (y * y - A * (x * x)))
    BY <1>5
  <2> QED  BY <1>8, <2>1
<1>12. g = o * u
  <2>1. A * ((x * z) * (x * z)) + (y * z) * (y * z)
          = (z * z) * (A * (x * x) + y * y)
    BY <1>5
  <2> QED  BY <1>8, <2>1
<1>13. ~ Same(o, 0)
  BY <1>2, NonzeroProduct
<1>14. Stands(FeSquare(p.z), o)
  BY <1>7, StandsFor
<1> HIDE DEF o
<1> DEFINE s == u - 2
<1>15. f = o * s
  BY <1>5, <1>9, <1>12
<1>16. s \in Int /\ Same(s, 0 - (1 - k)) /\ Same(u, 1 + k)
  <2>1. 1 + k - 2 = 0 - (1 - k) /\ s \in Int /\ 1 + k \in Int /\ Same(2, 2)
    BY <1>5, SameEquivalence
  <2>2. Same(u, 1 + k)
    BY <1>5, <1>8
  <2>3. Same(u - 2, (1 + k) - 2)
    <3> DEFINE i == 1 + k
    <3>1. i \in Int /\ Same(u, i)
      BY <2>1, <2>2
    <3> HIDE DEF i
    <3>2. Same(u - 2, i - 2)
      BY <1>5, <2>1, <3>1, SameDifference
    <3> QED  BY <3>2 DEF i
  <2> DEFINE i == (1 + k) - 2
             j == 0 - (1 - k)
  <2>4. i = j /\ Same(s, i)
    <3>1. i = j
      BY <1>5
    <3>2. Same(s, i)
      BY <2>3 DEF s
    <3> QED  BY <3>1, <3>2
  <2> HIDE DEF i, j
  <2>5. Same(s, j)
    BY <2>4
  <2> QED  BY <2>1, <2>2, <2>5 DEF j
<1> HIDE DEF s
<1>17. ~ Same(s, 0) /\ ~ Same(u, 0)
  <2>1. ~ Same(u, 0)
    BY <1>5, <1>16, SameEquivalence
  <2>2. ASSUME Same(s, 0) PROVE FALSE
    <3> DEFINE i == 1 - k
               j == 0 - i
    <3>1. i \in Int /\ j \in Int /\ Same(j, 0) /\ 0 - j = i /\ 0 - 0 = 0 /\ Same(0, 0)
      BY <1>5, <1>16, <2>2, SameEquivalence
    <3> HIDE DEF j
    <3>2. Same(0 - j, 0 - 0)
      BY <3>1, SameDifference
    <3> QED  BY <1>5, <3>1, <3>2
  <2> QED  BY <2>1, <2>2
<1>18. e \in Int /\ f \in Int /\ g \in Int /\ h \in Int
  <2>1. o * n \in Int /\ o * s \in Int /\ o * u \in Int /\ o * (0 - m) \in Int
    BY <1>5, <1>9, <1>16
  <2> QED  BY <1>10, <1>11, <1>12, <1>15, <2>1
<1>19. ~ Same(f, 0) /\ ~ Same(g, 0)
  <2>1. ~ Same(o * s, 0)
    BY <1>9, <1>13, <1>16, <1>17, NonzeroProduct
  <2>2. ~ Same(o * u, 0)
    BY <1>5, <1>9, <1>13, <1>17, NonzeroProduct
  <2> HIDE DEF f, g
  <2> QED  BY <1>12, <1>15, <2>1, <2>2 DEF f, g
<1> HIDE DEF X, Y
<1>20. Stands(xx, X * X) /\ Stands(yy, Y * Y) /\ Stands(two_zz, 2 * o)
  BY <1>7, <1>14, ConstantsStand, StandsFor
<1>21. Stands(twisted_xx, A * (X * X))
  <2> HIDE DEF xx
  <2> QED  BY <1>20, ConstantsStand, StandsFor
<1>22. Stands(cross, e)
  <2> HIDE DEF xx, yy
  <2>1. Stands(FeAdd(p.x, p.y), X + Y)
    BY <1>7, StandsFor
  <2>2. Stands(FeSquare(FeAdd(p.x, p.y)), (X + Y) * (X + Y))
    BY <2>1, StandsFor
  <2>3. Stands(FeSub(FeSquare(FeAdd(p.x, p.y)), xx), (X + Y) * (X + Y) - X * X)
    BY <1>20, <2>2, StandsFor
  <2> QED  BY <1>20, <2>3, StandsFor
<1>23. Stands(sum, g) /\ Stands(twisted, h)
  <2> HIDE DEF twisted_xx, yy
  <2> QED  BY <1>20, <1>21, StandsFor
<1>24. Stands(difference, f)
  <2> HIDE DEF sum, two_zz, g
  <2> QED  BY <1>20, <1>23, StandsFor
<1> HIDE DEF e, f, g, h, cross, difference, sum, twisted
<1>25. /\ Stands(r.x, e * f) /\ Stands(r.y, g * h)
       /\ Stands(r.z, f * g) /\ Stands(r.t, e * h)
  BY <1>22, <1>23, <1>24, StandsFor
<1>26. r \in Coordinates
  BY <1>25 DEF Stands, Coordinates
<1>27. Same(e, c[1] * g)
  <2> DEFINE i == (1 + k) * c[1]
             j == u * c[1]
  <2>1. i \in Int /\ Same(n, i) /\ j \in Int
    BY <1>5, <1>6, <1>9, SameEquivalence
  <2>2. Same(j, i)
    BY <1>5, <1>6, <1>9, <1>16, SameTimes
  <2>3. o * j = c[1] * (o * u)
    BY <1>5, <1>6, <1>9
  <2> HIDE DEF i, j
  <2>4. Same(n, j)
    BY <2>1, <2>2, SameEquivalence
  <2>5. Same(o * n, o * j)
    BY <1>9, <2>1, <2>4, SameTimes
  <2> QED  BY <1>10, <1>12, <2>3, <2>5
<1>28. Same(h, c[2] * f)
  <2> DEFINE i == (1 - k) * c[2]
             j == s * c[2]
             l == (0 - (1 - k)) * c[2]
             t == 0 - m
  <2>1. i \in Int /\ Same(m, i) /\ j \in Int /\ l \in Int /\ t \in Int
    BY <1>5, <1>6, <1>9, <1>16, SameEquivalence
  <2>2. Same(j, l)
    <3>1. 0 - (1 - k) \in Int
      BY <1>5
    <3> QED  BY <1>6, <1>16, <3>1, SameTimes
  <2>3. o * j = c[2] * (o * s) /\ l = 0 - i
    <3>1. o * j = c[2] * (o * s)
      BY <1>6, <1>9, <1>16
    <3>2. l = 0 - i
      BY <1>5, <1>6
    <3> QED  BY <3>1, <3>2
  <2> HIDE DEF i, j, l
  <2>4. Same(t, 0 - i)
    <3>1. Same(0, 0)
      BY SameEquivalence
    <3> QED  BY <1>9, <2>1, <3>1, SameDifference
  <2> HIDE DEF t
  <2>5. Same(t, j)
    BY <2>2, <2>3, <2>4, SameEquivalence
  <2>6. Same(o * t, o * j)
    BY <1>9, <2>1, <2>5, SameTimes
  <2> QED  BY <1>11, <1>15, <2>3, <2>6 DEF t
<1> HIDE DEF r
<1>29. Represents(r, c)
  BY <1>6, <1>18, <1>19, <1>25, <1>26, <1>27, <1>28, Assembled
<1> QED  BY <1>4, <1>29 DEF c

(* A point that passes the code's own test represents an affine point.     *)
LEMMA ValidPointsRepresent ==
  ASSUME NEW p \in Coordinates, IsValid(p)
  PROVE  Represents(p, Affine(p))
<1> DEFINE z == V(p.z)
           X == V(p.x)
           Y == V(p.y)
           T == V(p.t)
           u == Reciprocals[z]
           x == Times(X, u)
           y == Times(Y, u)
<1>1. /\ p.x \in FieldElement /\ p.y \in FieldElement
      /\ p.z \in FieldElement /\ p.t \in FieldElement
  BY DEF Coordinates
<1>2. /\ z \in Int /\ X \in Int /\ Y \in Int /\ T \in Int /\ z % P = z
  BY <1>1, ValueOf, ElementsAreResidues, ResiduesAreInt, SameResidues
<1>3. Stands(p.x, X) /\ Stands(p.y, Y) /\ Stands(p.z, z) /\ Stands(p.t, T)
  BY <1>1, <1>2, SameEquivalence DEF Stands
<1>4. ~ Same(z, 0)
  BY <1>3, ConstantsStand, StandsEqual DEF IsValid, FeIsZero
<1>5. Affine(p) = <<x, y>>
  BY DEF Affine, V
<1> HIDE DEF z, X, Y, T
<1>6. x \in Residues /\ x \in Int /\ Same(z * x, X)
  <2> DEFINE q == Times(X, Reciprocals[z % P])
  <2>1. Same(X, X) /\ Same(z, z)
    BY SameEquivalence
  <2>2. q \in Residues /\ q \in Int /\ Same(z * q, X)
    BY <1>2, <1>4, <2>1, Quotient
  <2> QED  BY <1>2, <2>2
<1>7. y \in Residues /\ y \in Int /\ Same(z * y, Y)
  <2> DEFINE q == Times(Y, Reciprocals[z % P])
  <2>1. Same(Y, Y) /\ Same(z, z)
    BY SameEquivalence
  <2>2. q \in Residues /\ q \in Int /\ Same(z * q, Y)
    BY <1>2, <1>4, <2>1, Quotient
  <2> QED  BY <1>2, <2>2
<1> HIDE DEF x, y
<1> DEFINE xz == z * x
           yz == z * y
           t == (x * y) * z
           zz == z * z
           XX == X * X
           YY == Y * Y
           l == (A * XX) * zz + YY * zz
           r == zz * zz + (D * XX) * YY
<1>8. xz \in Int /\ yz \in Int /\ zz \in Int /\ XX \in Int /\ YY \in Int /\ t \in Int
      /\ A \in Int /\ D \in Int
  BY <1>2, <1>6, <1>7, CurveConstants
<1>9. Stands(p.x, xz) /\ Stands(p.y, yz)
  BY <1>3, <1>6, <1>7, <1>8, StandsAndSame, SameEquivalence
<1>10. Stands(p.t, t)
  <2>1. FeMul(p.x, p.y) = FeMul(p.z, p.t)
    BY DEF IsValid
  <2> HIDE DEF xz, yz
  <2>2. Stands(FeMul(p.x, p.y), xz * yz) /\ Stands(FeMul(p.z, p.t), z * T)
    BY <1>3, <1>9, StandsFor
  <2>3. Same(xz * yz, z * T)
    BY <2>1, <2>2, SameEquivalence DEF Stands
  <2>4. xz * yz = z * t
    BY <1>2, <1>6, <1>7 DEF xz, yz
  <2> HIDE DEF t
  <2>5. Same(t, T)
    BY <1>2, <1>4, <1>8, <2>3, <2>4, Cancel
  <2> QED  BY <1>3, <1>8, <2>5, StandsAndSame, SameEquivalence
<1>11. Same(l, r)
  <2>1. /\ Stands(FeSquare(p.x), XX) /\ Stands(FeSquare(p.y), YY)
        /\ Stands(FeSquare(p.z), zz)
    BY <1>3, StandsFor
  <2> HIDE DEF XX, YY, zz
  <2>2. Stands(FeMul(FeMul(EDWARDS_A, FeSquare(p.x)), FeSquare(p.z)), (A * XX) * zz)
    <3>1. Stands(FeMul(EDWARDS_A, FeSquare(p.x)), A * XX)
      BY <2>1, ConstantsStand, StandsFor
    <3> QED  BY <2>1, <3>1, StandsFor
  <2>3. Stands(FeMul(FeSquare(p.y), FeSquare(p.z)), YY * zz)
    BY <2>1, StandsFor
  <2>4. Stands(FeMul(FeMul(EDWARDS_D, FeSquare(p.x)), FeSquare(p.y)), (D * XX) * YY)
    <3>1. Stands(FeMul(EDWARDS_D, FeSquare(p.x)), D * XX)
      BY <2>1, ConstantsStand, StandsFor
    <3> QED  BY <2>1, <3>1, StandsFor
  <2>5. Stands(FeSquare(FeSquare(p.z)), zz * zz)
    BY <2>1, StandsFor
  <2>6. Stands(FeAdd(FeMul(FeMul(EDWARDS_A, FeSquare(p.x)), FeSquare(p.z)),
                     FeMul(FeSquare(p.y), FeSquare(p.z))), l)
    BY <2>2, <2>3, StandsFor
  <2>7. Stands(FeAdd(FeSquare(FeSquare(p.z)),
                     FeMul(FeMul(EDWARDS_D, FeSquare(p.x)), FeSquare(p.y))), r)
    BY <2>4, <2>5, StandsFor
  <2>8. FeAdd(FeMul(FeMul(EDWARDS_A, FeSquare(p.x)), FeSquare(p.z)),
              FeMul(FeSquare(p.y), FeSquare(p.z)))
        = FeAdd(FeSquare(FeSquare(p.z)),
                FeMul(FeMul(EDWARDS_D, FeSquare(p.x)), FeSquare(p.y)))
    BY DEF IsValid
  <2> HIDE DEF l, r
  <2> QED  BY <2>6, <2>7, <2>8, SameEquivalence DEF Stands
<1> DEFINE o == zz * zz
           s == Squares(x, y)
           q == 1 + Quartic(x, y)
           xx == xz * xz
           yy == yz * yz
           k == (A * xx) * zz + yy * zz
           j == zz * zz + (D * xx) * yy
<1>12. Same(xx, XX) /\ Same(yy, YY) /\ xx \in Int /\ yy \in Int
  <2>1. Same(xz, X) /\ Same(yz, Y)
    BY <1>6, <1>7
  <2> HIDE DEF xz, yz
  <2>2. Same(xx, XX)
    BY <1>2, <1>8, <2>1, SameProduct
  <2>3. Same(yy, YY)
    BY <1>2, <1>8, <2>1, SameProduct
  <2> QED  BY <1>8, <2>2, <2>3
<1>13. k = o * s /\ j = o * q /\ o \in Int /\ s \in Int /\ q \in Int
  <2>1. (A * ((z * x) * (z * x))) * (z * z) + ((z * y) * (z * y)) * (z * z)
          = ((z * z) * (z * z)) * (A * (x * x) + y * y)
    BY <1>2, <1>6, <1>7, <1>8
  <2>2. (z * z) * (z * z) + (D * ((z * x) * (z * x))) * ((z * y) * (z * y))
          = ((z * z) * (z * z)) * (1 + D * ((x * y) * (x * y)))
    BY <1>2, <1>6, <1>7, <1>8
  <2>3. o \in Int /\ s \in Int /\ q \in Int
    <3>1. s \in Int /\ Quartic(x, y) \in Int
      BY <1>6, <1>7, SquaresAreInt
    <3>2. o \in Int
      <4> HIDE DEF zz
      <4> QED  BY <1>8
    <3> HIDE DEF s, o
    <3> QED  BY <3>1, <3>2
  <2>4. k = o * s
    BY <2>1 DEF Squares
  <2>5. j = o * q
    BY <2>2 DEF Quartic
  <2> HIDE DEF k, j, o, s, q
  <2> QED  BY <2>3, <2>4, <2>5
<1> HIDE DEF xx, yy, XX, YY
<1>14. Same(k, l)
  <2> HIDE DEF zz
  <2>1. Same(A * xx, A * XX) /\ Same(yy * zz, YY * zz)
    BY <1>8, <1>12, SameTimes
  <2> DEFINE a == A * xx
             b == A * XX
             c == yy * zz
             d == YY * zz
             e == a * zz
             f == b * zz
  <2>2. a \in Int /\ b \in Int /\ c \in Int /\ d \in Int /\ Same(a, b) /\ Same(c, d)
    BY <1>8, <1>12, <2>1
  <2> HIDE DEF a, b, c, d
  <2>3. Same(e, f)
    BY <1>8, <2>2, SameTimes
  <2>4. e \in Int /\ f \in Int
    BY <1>8, <2>2
  <2> HIDE DEF e, f
  <2>5. Same(e + c, f + d)
    BY <2>2, <2>3, <2>4, SameSum
  <2> QED  BY <2>5 DEF a, b, c, d, e, f
<1>15. Same(j, r)
  <2> DEFINE a == D * xx
             b == D * XX
             c == a * yy
             d == b * YY
  <2>1. Same(a, b)
    BY <1>8, <1>12, SameTimes
  <2>2. a \in Int /\ b \in Int /\ o \in Int
    BY <1>8, <1>12, <1>13
  <2> HIDE DEF a, b
  <2>3. Same(c, d)
    BY <1>8, <1>12, <2>1, <2>2, SameProduct
  <2>4. c \in Int /\ d \in Int
    BY <1>8, <1>12, <2>2
  <2> HIDE DEF c, d, o
  <2>5. Same(o + c, o + d)
    <3>1. Same(o, o)
      BY SameEquivalence
    <3> QED  BY <2>2, <2>3, <2>4, <3>1, SameSum
  <2> QED  BY <2>5 DEF a, b, c, d, o
<1> HIDE DEF k, j, l, r, o, s, q
<1>16. ~ Same(o, 0)
  <2>1. ~ Same(zz, 0)
    BY <1>2, <1>4, NonzeroProduct
  <2> HIDE DEF zz
  <2> QED  BY <1>8, <2>1, NonzeroProduct DEF o
<1>17. Same(s, q)
  <2>1. Same(o * s, o * q)
    BY <1>11, <1>13, <1>14, <1>15, SameEquivalence
  <2> QED  BY <1>13, <1>16, <2>1, Cancel
<1>18. <<x, y>> \in CurvePoints
  BY <1>6, <1>7, <1>17, CurveEquation DEF s, q
<1>19. xz = x * z /\ yz = y * z
  BY <1>2, <1>6, <1>7
<1> HIDE DEF xz, yz, t
<1>20. RepresentsWith(p, <<x, y>>, z)
  <2>1. <<x, y>>[1] = x /\ <<x, y>>[2] = y
    OBVIOUS
  <2> QED  BY <1>3, <1>4, <1>9, <1>10, <1>18, <1>19, <2>1 DEF RepresentsWith, t
<1> QED  BY <1>2, <1>5, <1>20 DEF Represents

LEMMA IdentityRepresents ==
  Represents(IDENTITY, <<0, 1>>) /\ <<0, 1>> \in CurvePoints
<1>1. 0 \in Residues /\ 1 \in Residues
  BY PIsPositive DEF Residues
<1>2. <<0, 1>> \in CurvePoints
  <2>1. Squares(0, 1) = 1 /\ Quartic(0, 1) = 0
    BY CurveConstants DEF Squares, Quartic
  <2>2. Same(Squares(0, 1), 1 + Quartic(0, 1))
    BY <2>1, SameEquivalence
  <2> QED  BY <1>1, <2>2, CurveEquation
<1>3. RepresentsWith(IDENTITY, <<0, 1>>, 1)
  <2>1. IDENTITY \in Coordinates
    BY ConstantsStand DEF Stands, Coordinates, IDENTITY
  <2>2. 0 * 1 = 0 /\ 1 * 1 = 1 /\ (0 * 1) * 1 = 0
    OBVIOUS
  <2>3. /\ Stands(IDENTITY.x, 0 * 1) /\ Stands(IDENTITY.y, 1 * 1)
        /\ Stands(IDENTITY.z, 1) /\ Stands(IDENTITY.t, (0 * 1) * 1)
    BY <2>2, ConstantsStand DEF IDENTITY
  <2>4. <<0, 1>>[1] = 0 /\ <<0, 1>>[2] = 1
    OBVIOUS
  <2> QED  BY <1>2, <2>1, <2>3, <2>4, Distinct DEF RepresentsWith
<1> QED  BY <1>2, <1>3 DEF Represents

LEMMA ExtendedRepresents ==
  ASSUME NEW a \in CurvePoints, NEW z \in Residues \ {0}
  PROVE  Represents(Extended(a, z), a) /\ Affine(Extended(a, z)) = a
<1> DEFINE form(n) == FeFromInteger((n * z) % P)
           x == a[1]
           y == a[2]
           q == Times(x, y)
           p == Extended(a, z)
<1>1. z \in Int /\ ~ Same(z, 0) /\ x \in Int /\ y \in Int
  BY PointsOfTheCurve, ResiduesAreInt, SameResidues
<1>2. ASSUME NEW n \in Int PROVE Stands(form(n), n * z)
  <2> DEFINE m == n * z
             r == m % P
  <2>1. m \in Int
    BY <1>1
  <2> HIDE DEF m
  <2>2. r \in Int /\ Same(r, m)
    BY <2>1, SameRemainder, ResiduesAreInt
  <2> HIDE DEF r
  <2>3. FeFromInteger(r) \in FieldElement /\ Same(V(FeFromInteger(r)), r)
    BY <2>2, ValueOfInteger
  <2>4. Stands(FeFromInteger(r), m)
    BY <2>1, <2>2, <2>3, SameEquivalence DEF Stands
  <2> QED  BY <2>4 DEF m, r
<1>3. q \in Int /\ Same(q, x * y)
  BY <1>1, TimesIs
<1>4. p = [x |-> form(x), y |-> form(y), z |-> form(1), t |-> form(q)]
  BY DEF Extended
<1>5. 1 * z = z
  BY <1>1
<1> HIDE DEF form, q
<1>6. Stands(form(x), x * z) /\ Stands(form(y), y * z) /\ Stands(form(1), z)
  BY <1>1, <1>2, <1>5
<1>7. Stands(form(q), (x * y) * z)
  <2> DEFINE i == x * y
  <2>1. i \in Int /\ Same(q, i)
    BY <1>1, <1>3
  <2> HIDE DEF i
  <2>2. Stands(form(q), q * z) /\ Same(q * z, i * z)
    BY <1>1, <1>2, <1>3, <2>1, SameTimes
  <2>3. i * z \in Int
    BY <1>1, <2>1
  <2> DEFINE j == q * z
             k == i * z
  <2>4. Stands(form(q), j) /\ Same(j, k) /\ k \in Int
    BY <2>2, <2>3
  <2> HIDE DEF j, k
  <2>5. Stands(form(q), k)
    BY <2>4, StandsAndSame
  <2> QED  BY <2>5 DEF i, k
<1>8. p \in Coordinates
  BY <1>4, <1>6, <1>7 DEF Stands, Coordinates
<1>9. RepresentsWith(p, a, z)
  BY <1>1, <1>4, <1>6, <1>7, <1>8 DEF RepresentsWith
<1> HIDE DEF p
<1>10. Represents(p, a)
  BY <1>1, <1>9 DEF Represents
<1> QED  BY <1>10, AffineOfRepresentative DEF p

-----------------------------------------------------------------------------
(* The rounds of a multiplication, in the logarithms of the points.        *)

LEMMA GroupOrderIsPositive == GroupOrder \in Nat \ {0} /\ L \in Nat \ {0}
  BY CurveAssumption DEF GroupOrder

LEMMA LogOf ==
  ASSUME NEW p, NEW a, Represents(p, a)
  PROVE  PointLog(p) = Log[a] /\ PointLog(p) \in 0 .. GroupOrder - 1
<1>1. a \in CurvePoints
  BY DEF Represents, RepresentsWith
<1>2. Affine(p) = a
  BY AffineOfRepresentative
<1> QED  BY <1>1, <1>2, GroupAssumption DEF PointLog

LEMMA LogOfIdentity ==
  ASSUME NEW p, NEW a, Represents(p, a)
  PROVE  PointLog(p) = 0 <=> a = <<0, 1>>
<1>1. a \in CurvePoints
  BY DEF Represents, RepresentsWith
<1>2. Log[a] = 0 <=> a = <<0, 1>>
  BY <1>1, IdentityRepresents, GroupAssumption
<1> QED  BY <1>2, LogOf

LEMMA SumModulo ==
  ASSUME NEW a \in Int, NEW b \in Int, NEW m \in Nat \ {0}
  PROVE  ((a % m) + (b % m)) % m = (a + b) % m
<1> DEFINE p == a \div m
           q == b \div m
           r == a % m
           s == b % m
           t == r + s
           u == t \div m
           v == t % m
           w == p + q + u
<1>1. a = m * p + r /\ p \in Int /\ r \in 0 .. m - 1
  BY DivisionOf
<1>2. b = m * q + s /\ q \in Int /\ s \in 0 .. m - 1
  BY DivisionOf
<1> HIDE DEF p, q, r, s
<1>3. t = m * u + v /\ u \in Int /\ v \in 0 .. m - 1
  <2>1. t \in Int
    BY <1>1, <1>2
  <2> HIDE DEF t
  <2> QED  BY <2>1, DivisionOf
<1> HIDE DEF u, v
<1>4. w \in Int /\ a + b \in Int /\ a + b = m * w + v
  BY <1>1, <1>2, <1>3
<1> HIDE DEF w
<1>5. (a + b) % m = v
  BY <1>3, <1>4, DivisionIs
<1> QED  BY <1>5 DEF v, t, r, s

LEMMA DoubleLog ==
  ASSUME NEW p, NEW a, Represents(p, a)
  PROVE  /\ Represents(PointDouble(p), AffineAdd(a, a))
         /\ PointLog(PointDouble(p)) = (PointLog(p) + PointLog(p)) % GroupOrder
<1>1. a \in CurvePoints
  BY DEF Represents, RepresentsWith
<1>2. Represents(PointDouble(p), AffineAdd(a, a))
  BY PointDoubleRepresents
<1>3. Log[AffineAdd(a, a)] = (Log[a] + Log[a]) % GroupOrder
  BY <1>1, GroupAssumption
<1> QED  BY <1>2, <1>3, LogOf

LEMMA AddLog ==
  ASSUME NEW p, NEW q, NEW a, NEW b, Represents(p, a), Represents(q, b)
  PROVE  /\ Represents(PointAdd(p, q), AffineAdd(a, b))
         /\ PointLog(PointAdd(p, q)) = (PointLog(p) + PointLog(q)) % GroupOrder
<1>1. a \in CurvePoints /\ b \in CurvePoints
  BY DEF Represents, RepresentsWith
<1>2. Represents(PointAdd(p, q), AffineAdd(a, b))
  BY PointAddRepresents
<1>3. Log[AffineAdd(a, b)] = (Log[a] + Log[b]) % GroupOrder
  BY <1>1, GroupAssumption
<1> QED  BY <1>2, <1>3, LogOf

LEMMA Selected ==
  ASSUME NEW p \in Coordinates, NEW q \in Coordinates, NEW choice
  PROVE  ConditionalSelect(p, q, choice) = IF choice = 1 THEN q ELSE p
<1> DEFINE C == {"x", "y", "z", "t"}
<1>1. p = [c \in C |-> p[c]] /\ q = [c \in C |-> q[c]]
  BY DEF Coordinates
<1>2. CASE choice = 1
  <2>1. ConditionalSelect(p, q, choice) = [c \in C |-> q[c]]
    BY <1>2 DEF ConditionalSelect, FeConditionalSelect
  <2> QED  BY <1>1, <1>2, <2>1
<1>3. CASE choice # 1
  <2>1. ConditionalSelect(p, q, choice) = [c \in C |-> p[c]]
    BY <1>3 DEF ConditionalSelect, FeConditionalSelect
  <2> QED  BY <1>1, <1>3, <2>1
<1> QED  BY <1>2, <1>3

(* A round turns the n-th multiple of p into the one at 2 n + bit.         *)
LEMMA RoundLog ==
  ASSUME NEW p, NEW a, Represents(p, a), NEW s, NEW b, Represents(s, b),
         NEW n \in Nat, NEW bit \in {0, 1},
         PointLog(s) = (PointLog(p) * n) % GroupOrder
  PROVE  /\ \E c \in CurvePoints : Represents(Round(p, s, bit), c)
         /\ PointLog(Round(p, s, bit)) = (PointLog(p) * (2 * n + bit)) % GroupOrder
<1> DEFINE d == PointDouble(s)
           e == PointAdd(d, p)
           l == PointLog(p)
           m == l * n
           dd == AffineAdd(b, b)
           ee == AffineAdd(dd, a)
<1>1. GroupOrder \in Nat \ {0}
  BY GroupOrderIsPositive
<1>2. Represents(d, dd) /\ PointLog(d) = (PointLog(s) + PointLog(s)) % GroupOrder
  BY DoubleLog
<1> HIDE DEF d, dd
<1>3. Represents(e, ee) /\ PointLog(e) = (PointLog(d) + PointLog(p)) % GroupOrder
  BY <1>2, AddLog
<1> HIDE DEF e, ee
<1>4. l \in Nat /\ l % GroupOrder = l
  <2> DEFINE g == GroupOrder
  <2>1. l \in 0 .. g - 1 /\ g \in Nat \ {0}
    BY <1>1, LogOf DEF l
  <2> HIDE DEF g, l
  <2>2. l \in Nat /\ l % g = l
    BY <2>1
  <2> QED  BY <2>2 DEF g
<1> HIDE DEF l
<1>5. m \in Int
  BY <1>4
<1>6. PointLog(d) = (m + m) % GroupOrder
  <2>1. PointLog(s) = m % GroupOrder
    BY DEF l
  <2> HIDE DEF m
  <2> QED  BY <1>1, <1>2, <1>5, <2>1, SumModulo
<1>7. PointLog(e) = ((m + m) + l) % GroupOrder
  <2> DEFINE i == m + m
  <2>1. i \in Int /\ PointLog(d) = i % GroupOrder
    BY <1>5, <1>6
  <2> HIDE DEF i
  <2>2. PointLog(e) = ((i % GroupOrder) + (l % GroupOrder)) % GroupOrder
    BY <1>3, <1>4, <2>1 DEF l
  <2>4. l \in Int
    BY <1>4
  <2>5. ((i % GroupOrder) + (l % GroupOrder)) % GroupOrder = (i + l) % GroupOrder
    BY <1>1, <2>1, <2>4, SumModulo
  <2>3. PointLog(e) = (i + l) % GroupOrder
    BY <2>2, <2>5
  <2> QED  BY <2>3 DEF i
<1>8. m + m = l * (2 * n + 0) /\ (m + m) + l = l * (2 * n + 1)
  BY <1>4
<1>9. Round(p, s, bit) = IF bit = 1 THEN e ELSE d
  <2>1. d \in Coordinates /\ e \in Coordinates
    BY <1>2, <1>3 DEF Represents, RepresentsWith
  <2> QED  BY <2>1, Selected DEF Round, d, e
<1>10. dd \in CurvePoints /\ ee \in CurvePoints
  BY <1>2, <1>3 DEF Represents, RepresentsWith
<1>11. CASE bit = 1
  BY <1>3, <1>7, <1>8, <1>9, <1>10, <1>11 DEF l
<1>12. CASE bit = 0
  BY <1>2, <1>6, <1>8, <1>9, <1>10, <1>12 DEF l
<1> QED  BY <1>11, <1>12

(* The bits of a scalar, one by one from the top.                          *)
LEMMA ScalarBits ==
  ASSUME NEW s \in Nat, NEW i \in 0 .. FieldBits - 1
  PROVE  /\ Bit(s, i) \in {0, 1}
         /\ (s % YSpace) \div Power(2, i) \in Nat
         /\ (s % YSpace) \div Power(2, i)
              = 2 * ((s % YSpace) \div Power(2, i + 1)) + Bit(s, i)
<1> DEFINE j == FieldBits - i - 1
           m == Power(2, i)
           h == Power(2, j)
           k == Power(2, i + 1)
           r == s % YSpace
           q == s \div YSpace
           u == r \div m
           v == r % m
           w == u \div 2
           b == u % 2
<1>1. FieldBits \in Nat /\ i \in Nat /\ j \in Nat /\ FieldBits = (i + 1) + j
  BY CurveAssumption
<1>2. m \in Nat \ {0} /\ h \in Nat \ {0} /\ k = 2 * m
      /\ YSpace = k * h /\ YSpace \in Nat \ {0}
  <2>1. 2 \in Nat \ {0} /\ i + 1 \in Nat
    BY <1>1
  <2>2. m \in Nat \ {0} /\ h \in Nat \ {0} /\ k \in Nat \ {0}
    BY <1>1, <2>1, PowerIsPositive
  <2>3. k = 2 * m
    BY <1>1, PowerRecursion
  <2>4. YSpace = k * h
    <3>1. Power(2, (i + 1) + j) = Power(2, i + 1) * Power(2, j)
      <4> DEFINE i1 == i + 1
      <4> HIDE DEF i1, j
      <4>1. i1 \in Nat /\ j \in Nat
        BY <1>1, <2>1 DEF i1
      <4>2. Power(2, i1 + j) = Power(2, i1) * Power(2, j)
        BY <4>1, PowerOfSum
      <4> QED  BY <4>2 DEF i1
    <3> HIDE DEF j
    <3>2. YSpace = Power(2, (i + 1) + j)
      BY <1>1 DEF YSpace
    <3> QED  BY <3>1, <3>2
  <2> HIDE DEF m, h, k
  <2>5. k * h \in Nat \ {0}
    BY <2>2
  <2> QED  BY <2>2, <2>3, <2>4, <2>5
<1> HIDE DEF m, h, k, j
<1>3. s = YSpace * q + r /\ q \in Nat /\ r \in Nat
  <2>1. s \in Int /\ YSpace \in Nat \ {0}
    BY <1>2
  <2>2. s = YSpace * q + r /\ q \in Nat /\ r \in 0 .. YSpace - 1
    BY <2>1, DivisionOf
  <2> QED  BY <1>2, <2>2
<1> HIDE DEF q, r
<1>4. r = m * u + v /\ u \in Nat /\ v \in 0 .. m - 1
  <2>1. r \in Int /\ r \in Nat /\ m \in Nat \ {0}
    BY <1>2, <1>3
  <2> QED  BY <2>1, DivisionOf
<1> HIDE DEF u, v
<1>5. u = 2 * w + b /\ w \in Nat /\ b \in 0 .. 1
  BY <1>4, DivisionOf
<1> HIDE DEF w, b
<1>6. r \div k = w
  <2> DEFINE c == m * b + v
  <2>1. k \in Nat \ {0} /\ m * b \in Nat /\ m * b <= m
    <3>1. b = 0 \/ b = 1
      BY <1>5
    <3> QED  BY <1>2, <3>1
  <2>2. c \in 0 .. k - 1
    BY <1>2, <1>4, <2>1
  <2>3. r = k * w + c
    <3>1. m * (2 * w + b) + v = (2 * m) * w + (m * b + v)
      BY <1>2, <1>4, <1>5
    <3> QED  BY <1>2, <1>4, <1>5, <3>1
  <2> HIDE DEF c
  <2>4. r \in Int /\ w \in Int
    BY <1>3, <1>5
  <2> QED  BY <2>1, <2>2, <2>3, <2>4, DivisionIs
<1>7. Bit(s, i) = b
  <2> DEFINE c == 2 * (h * q) + u
             d == h * q + w
  <2>1. h * q \in Nat
    BY <1>2, <1>3
  <2>2. c \in Int /\ s = m * c + v
    <3>1. ((2 * m) * h) * q + (m * u + v) = m * (2 * (h * q) + u) + v
      BY <1>2, <1>3, <1>4
    <3>2. s = ((2 * m) * h) * q + (m * u + v)
      BY <1>2, <1>3, <1>4
    <3> QED  BY <1>4, <2>1, <3>1, <3>2
  <2>3. d \in Int /\ c = 2 * d + b
    BY <1>5, <2>1
  <2> HIDE DEF c, d
  <2>4. s \div m = c
    BY <1>2, <1>4, <2>2, DivisionIs
  <2>5. c % 2 = b
    BY <1>5, <2>2, <2>3, DivisionIs
  <2> QED  BY <2>4, <2>5 DEF Bit, m
<1> QED  BY <1>4, <1>5, <1>6, <1>7 DEF r, u, k, m

-----------------------------------------------------------------------------
(* The loop.                                                               *)

(* The invariants TLC checks are inductive together: the accumulator is a  *)
(* point, and the one that the bits read so far ask for.                   *)
LoopInvariant == TypeOK /\ AccumulatorIsValid /\ AccumulatorIsPartialProduct

LEMMA BasesRepresent ==
  ASSUME NEW p \in ExtendedPoints
  PROVE  \E a \in CurvePoints : Represents(p, a)
<1>1. PICK a \in CurvePoints, z \in ZValues : p = Extended(a, z)
  BY DEF ExtendedPoints
<1>2. z \in Residues \ {0}
  BY ScalarMulAssumption
<1> QED  BY <1>1, <1>2, ExtendedRepresents

LEMMA ScalarsRead ==
  ASSUME scalar \in Scalars
  PROVE  /\ scalar \in Nat /\ ReadScalar \in Nat
         /\ ReadScalar \div Power(2, FieldBits) = 0
         /\ ReadScalar \div Power(2, 0) = ReadScalar
<1>1. scalar \in Nat
  BY ScalarMulAssumption DEF Encoding
<1>2. YSpace \in Nat \ {0} /\ YSpace = Power(2, FieldBits)
  BY CurveAssumption, PowerIsPositive DEF YSpace
<1> DEFINE r == ReadScalar
<1>3. r \in 0 .. YSpace - 1
  <2>1. scalar \in Int
    BY <1>1
  <2> QED  BY <1>2, <2>1, DivisionOf DEF ReadScalar
<1> HIDE DEF r
<1>4. r \in Nat /\ r = YSpace * 0 + r /\ r = 1 * r + 0 /\ 0 \in 0 .. 1 - 1
  BY <1>2, <1>3
<1>5. r \div YSpace = 0
  BY <1>2, <1>3, <1>4, DivisionIs
<1>6. r \div 1 = r
  BY <1>4
<1>7. Power(2, 0) = 1
  BY PowerRecursion
<1> QED  BY <1>1, <1>2, <1>4, <1>5, <1>6, <1>7 DEF r

LEMMA LoopStarts == Init => LoopInvariant
<1> SUFFICES ASSUME Init PROVE LoopInvariant
  OBVIOUS
<1>1. Represents(accumulator, <<0, 1>>)
  BY IdentityRepresents DEF Init
<1>2. TypeOK
  BY <1>1, CurveAssumption DEF TypeOK, Init, Represents, RepresentsWith, Coordinates
<1>3. AccumulatorIsValid
  BY <1>1, RepresentativesAreValid DEF AccumulatorIsValid
<1>4. AccumulatorIsPartialProduct
  <2>1. PointLog(accumulator) = 0
    BY <1>1, LogOfIdentity
  <2>2. PICK a \in CurvePoints : Represents(base, a)
    BY BasesRepresent DEF Init
  <2>3. PointLog(base) \in 0 .. GroupOrder - 1
    BY <2>2, LogOf
  <2>4. ReadScalar \div Power(2, bit_index) = 0
    BY ScalarsRead DEF Init
  <2> DEFINE l == PointLog(base)
             g == GroupOrder
  <2>5. l \in Int /\ g \in Nat \ {0}
    BY <2>3, GroupOrderIsPositive
  <2> HIDE DEF l, g
  <2>6. (l * 0) % g = 0
    BY <2>5
  <2> QED  BY <2>1, <2>4, <2>6 DEF AccumulatorIsPartialProduct, l, g
<1> QED  BY <1>2, <1>3, <1>4 DEF LoopInvariant

LEMMA LoopRounds ==
  ASSUME LoopInvariant, MulRound
  PROVE  LoopInvariant'
<1> DEFINE i == bit_index'
           bit == Bit(scalar, i)
           n == ReadScalar \div Power(2, bit_index)
           after == Round(base, accumulator, bit)
<1>1. /\ base \in ExtendedPoints /\ scalar \in Scalars
      /\ accumulator \in Coordinates /\ bit_index \in 0 .. FieldBits
  BY DEF LoopInvariant, TypeOK, Coordinates
<1>2. /\ bit_index # 0 /\ i = bit_index - 1 /\ accumulator' = after
      /\ base' = base /\ scalar' = scalar
  BY DEF MulRound
<1>3. i \in 0 .. FieldBits - 1 /\ bit_index = i + 1
  BY <1>1, <1>2, CurveAssumption
<1>4. Represents(accumulator, Affine(accumulator))
  BY <1>1, ValidPointsRepresent DEF LoopInvariant, AccumulatorIsValid
<1>5. PICK a \in CurvePoints : Represents(base, a)
  BY <1>1, BasesRepresent
<1>6. scalar \in Nat
  BY <1>1, ScalarsRead
<1>7. bit \in {0, 1} /\ ReadScalar \div Power(2, i) = 2 * n + bit
  BY <1>3, <1>6, ScalarBits DEF ReadScalar
<1>8. n \in Nat
  <2>1. ReadScalar \in Nat /\ ReadScalar \in Int /\ Power(2, bit_index) \in Nat \ {0}
    BY <1>1, CurveAssumption, ScalarsRead, PowerIsPositive
  <2> QED  BY <2>1, DivisionOf
<1>9. PointLog(accumulator) = (PointLog(base) * n) % GroupOrder
  BY DEF LoopInvariant, AccumulatorIsPartialProduct
<1> HIDE DEF n, bit, after
<1>10. /\ \E c \in CurvePoints : Represents(after, c)
       /\ PointLog(after) = (PointLog(base) * (2 * n + bit)) % GroupOrder
  BY <1>4, <1>5, <1>7, <1>8, <1>9, RoundLog DEF after
<1>11. TypeOK'
  <2>1. after \in Coordinates
    BY <1>10 DEF Represents, RepresentsWith
  <2> QED  BY <1>1, <1>2, <1>3, <2>1, CurveAssumption DEF TypeOK, Coordinates, ExtendedPoints
<1>12. AccumulatorIsValid'
  BY <1>2, <1>10, RepresentativesAreValid DEF AccumulatorIsValid
<1>13. AccumulatorIsPartialProduct'
  BY <1>2, <1>7, <1>10 DEF AccumulatorIsPartialProduct, ReadScalar
<1> QED  BY <1>11, <1>12, <1>13 DEF LoopInvariant

LEMMA LoopIsInductive == LoopInvariant /\ [Next]_vars => LoopInvariant'
<1> SUFFICES ASSUME LoopInvariant, [Next]_vars PROVE LoopInvariant'
  OBVIOUS
<1>1. CASE Next
  BY <1>1, LoopRounds DEF Next
<1>2. CASE UNCHANGED vars
  BY <1>2 DEF vars, LoopInvariant, TypeOK, ExtendedPoints, AccumulatorIsValid,
              AccumulatorIsPartialProduct, ReadScalar
<1> QED  BY <1>1, <1>2

LEMMA LoopAlways == Spec => []LoopInvariant
  BY LoopStarts, LoopIsInductive, PTL DEF Spec

(* Every coordinate the loop computes is a field element, on any curve the *)
(* assumptions describe and for any points and scalars.                    *)
THEOREM MultiplierTypes == Spec => []TypeOK
<1>1. LoopInvariant => TypeOK
  BY DEF LoopInvariant
<1> QED  BY <1>1, LoopAlways, PTL

(* No sequence of doublings and additions of points of the curve meets an  *)
(* exceptional case of the formulas of edwards.rs: Z stays invertible,     *)
(* X Y = Z T and the curve equation holds in every round.                  *)
THEOREM RoundsStayOnTheCurve == Spec => []AccumulatorIsValid
<1>1. LoopInvariant => AccumulatorIsValid
  BY DEF LoopInvariant
<1> QED  BY <1>1, LoopAlways, PTL

(* After every round the accumulator is the base times the bits of the     *)
(* scalar that have been read.                                             *)
THEOREM RoundsMultiply == Spec => []AccumulatorIsPartialProduct
<1>1. LoopInvariant => AccumulatorIsPartialProduct
  BY DEF LoopInvariant
<1> QED  BY <1>1, LoopAlways, PTL

(* scalar_mul_with implements the one-step multiplication of the group:    *)
(* no result before the last round, then the product, never changed.       *)
THEOREM LoopMultipliesInTheGroup ==
  Spec => Abstract!Init /\ [][Abstract!Multiply]_(Abstract!vars)
<1>1. Init => Abstract!Init
  <2> SUFFICES ASSUME Init PROVE Abstract!Init
    OBVIOUS
  <2>1. PICK a \in CurvePoints : Represents(base, a)
    BY BasesRepresent DEF Init
  <2>2. PointLog(base) \in 0 .. GroupOrder - 1
    BY <2>1, LogOf
  <2>3. ReadScalar \in Nat
    BY ScalarsRead DEF Init
  <2>4. bit_index # 0
    BY CurveAssumption DEF Init
  <2> QED  BY <2>2, <2>3, <2>4 DEF Abstract!Init
<1>2. LoopInvariant /\ LoopInvariant' /\ [Next]_vars
        => [Abstract!Multiply]_(Abstract!vars)
  <2> SUFFICES ASSUME LoopInvariant, LoopInvariant', [Next]_vars
               PROVE  [Abstract!Multiply]_(Abstract!vars)
    OBVIOUS
  <2>1. CASE UNCHANGED vars
    BY <2>1 DEF vars, Abstract!vars, ReadScalar
  <2>2. CASE MulRound
    <3>1. /\ bit_index # 0 /\ bit_index' = bit_index - 1
          /\ base' = base /\ scalar' = scalar
      BY <2>2 DEF MulRound
    <3>2. PointLog(base)' = PointLog(base) /\ ReadScalar' = ReadScalar
      BY <3>1 DEF ReadScalar
    <3>3. CASE bit_index' # 0
      BY <3>1, <3>2, <3>3 DEF Abstract!vars
    <3>4. CASE bit_index' = 0
      <4>1. PointLog(accumulator)'
              = (PointLog(base) * (ReadScalar \div Power(2, 0))) % GroupOrder
        BY <3>2, <3>4 DEF LoopInvariant, AccumulatorIsPartialProduct
      <4>2. ReadScalar \div Power(2, 0) = ReadScalar
        BY ScalarsRead DEF LoopInvariant, TypeOK
      <4>3. PointLog(accumulator)' = (PointLog(base) * ReadScalar) % GroupOrder
        BY <4>1, <4>2
      <4> QED  BY <3>1, <3>2, <3>4, <4>3 DEF Abstract!Multiply, Abstract!vars
    <3> QED  BY <3>3, <3>4
  <2> QED  BY <2>1, <2>2 DEF Next
<1> QED  BY <1>1, <1>2, LoopAlways, PTL DEF Spec

-----------------------------------------------------------------------------
(* The multiplication as a function, and the subgroup test.                *)

LEMMA FormulasAreTyped ==
  ASSUME NEW p \in Coordinates, NEW q \in Coordinates
  PROVE  PointAdd(p, q) \in Coordinates /\ PointDouble(p) \in Coordinates
<1>1. /\ p.x \in Int /\ p.y \in Int /\ p.z \in Int /\ p.t \in Int
      /\ q.x \in Int /\ q.y \in Int /\ q.z \in Int /\ q.t \in Int
      /\ \A f \in FieldElement : f \in Int
  BY ElementsAreResidues, ResiduesAreInt DEF Coordinates
<1>2. \A x, y \in Int : /\ FeAdd(x, y) \in Int /\ FeSub(x, y) \in Int
                        /\ FeMul(x, y) \in Int /\ FeMul(x, y) \in FieldElement
                        /\ FeSquare(x) \in Int
  BY <1>1, FieldOperations DEF FeSquare
<1>3. EDWARDS_A \in Int /\ EDWARDS_D \in Int /\ TWO \in Int
  BY <1>1, ValuesOfConstants
<1>4. PointAdd(p, q) \in Coordinates
  <2> DEFINE xx == FeMul(p.x, q.x)
             yy == FeMul(p.y, q.y)
             dt == FeMul(FeMul(EDWARDS_D, p.t), q.t)
             zz == FeMul(p.z, q.z)
             cross == FeSub(FeSub(FeMul(FeAdd(p.x, p.y), FeAdd(q.x, q.y)), xx), yy)
             difference == FeSub(zz, dt)
             sum == FeAdd(zz, dt)
             twisted == FeSub(yy, FeMul(EDWARDS_A, xx))
  <2>1. PointAdd(p, q)
          = [x |-> FeMul(cross, difference), y |-> FeMul(sum, twisted),
             z |-> FeMul(difference, sum), t |-> FeMul(cross, twisted)]
    BY DEF PointAdd
  <2>2. xx \in Int /\ yy \in Int /\ dt \in Int /\ zz \in Int
    BY <1>1, <1>2, <1>3
  <2> HIDE DEF xx, yy, dt, zz
  <2>3. cross \in Int /\ difference \in Int /\ sum \in Int /\ twisted \in Int
    BY <1>1, <1>2, <1>3, <2>2
  <2> HIDE DEF cross, difference, sum, twisted
  <2> QED  BY <1>2, <2>1, <2>3 DEF Coordinates
<1>5. PointDouble(p) \in Coordinates
  <2> DEFINE xx == FeSquare(p.x)
             yy == FeSquare(p.y)
             two_zz == FeMul(TWO, FeSquare(p.z))
             twisted_xx == FeMul(EDWARDS_A, xx)
             cross == FeSub(FeSub(FeSquare(FeAdd(p.x, p.y)), xx), yy)
             sum == FeAdd(twisted_xx, yy)
             difference == FeSub(sum, two_zz)
             twisted == FeSub(twisted_xx, yy)
  <2>1. PointDouble(p)
          = [x |-> FeMul(cross, difference), y |-> FeMul(sum, twisted),
             z |-> FeMul(difference, sum), t |-> FeMul(cross, twisted)]
    BY DEF PointDouble
  <2>2. xx \in Int /\ yy \in Int /\ two_zz \in Int
    BY <1>1, <1>2, <1>3
  <2> HIDE DEF xx, yy, two_zz
  <2>3. twisted_xx \in Int /\ cross \in Int
    BY <1>1, <1>2, <1>3, <2>2
  <2> HIDE DEF twisted_xx
  <2>4. sum \in Int /\ twisted \in Int
    BY <1>2, <2>2, <2>3
  <2> HIDE DEF cross, sum, twisted
  <2>5. difference \in Int
    BY <1>2, <2>2, <2>4
  <2> HIDE DEF difference
  <2> QED  BY <1>2, <2>1, <2>3, <2>4, <2>5 DEF Coordinates
<1> QED  BY <1>4, <1>5

LEMMA RoundIsTyped ==
  ASSUME NEW p \in Coordinates, NEW q \in Coordinates, NEW bit
  PROVE  Round(p, q, bit) \in Coordinates
<1> DEFINE d == PointDouble(q)
           e == PointAdd(d, p)
<1>1. d \in Coordinates
  BY FormulasAreTyped
<1> HIDE DEF d
<1>2. e \in Coordinates
  BY <1>1, FormulasAreTyped
<1> HIDE DEF e
<1>3. Round(p, q, bit) = ConditionalSelect(d, e, bit)
  BY DEF Round, d, e
<1> QED  BY <1>1, <1>2, <1>3, Selected

LEMMA ScalarMulWithIs ==
  ASSUME NEW p, NEW a, Represents(p, a), NEW s \in Nat
  PROVE  /\ \E c \in CurvePoints : Represents(ScalarMulWith(p, s), c)
         /\ PointLog(ScalarMulWith(p, s))
              = (PointLog(p) * (s % YSpace)) % GroupOrder
<1> DEFINE F == FieldBits
           r == s % YSpace
           Solves(g) ==
             g = [i \in 0 .. F |->
                    IF i = F THEN IDENTITY ELSE Round(p, g[i + 1], Bit(s, i))]
           after == CHOOSE g : Solves(g)
<1>1. ScalarMulWith(p, s) = after[0]
  BY DEF ScalarMulWith
<1>2. F \in Nat \ {0} /\ p \in Coordinates /\ IDENTITY \in Coordinates
  BY CurveAssumption, IdentityRepresents DEF Represents, RepresentsWith
<1>3. \E g : Solves(g)
  <2> DEFINE step == [q \in Nat \X Coordinates |->
                        Round(p, q[2], Bit(s, F - 1 - q[1]))]
  <2>1. IsRecursion(Coordinates, IDENTITY, step)
    BY <1>2, RoundIsTyped DEF IsRecursion
  <2>2. PICK g : Follows(g, Coordinates, IDENTITY, step)
    BY <2>1, Recursion
  <2>3. ASSUME NEW n \in Nat PROVE g[n + 1] = Round(p, g[n], Bit(s, F - 1 - n))
    <3>1. g[n] \in Coordinates /\ g[n + 1] = step[<<n, g[n]>>]
      BY <2>2 DEF Follows
    <3>2. <<n, g[n]>> \in Nat \X Coordinates
      BY <3>1
    <3> QED  BY <3>1, <3>2
  <2> DEFINE h == [i \in 0 .. F |-> g[F - i]]
  <2>4. ASSUME NEW i \in 0 .. F
        PROVE  h[i] = IF i = F THEN IDENTITY ELSE Round(p, h[i + 1], Bit(s, i))
    <3>1. CASE i = F
      <4>1. F - i = 0
        BY <1>2, <3>1
      <4> QED  BY <2>2, <3>1, <4>1 DEF Follows
    <3>2. CASE i # F
      <4> DEFINE n == F - (i + 1)
      <4>1. n \in Nat /\ F - i = n + 1 /\ F - 1 - n = i /\ i + 1 \in 0 .. F
        BY <1>2, <3>2
      <4>2. h[i + 1] = g[n]
        BY <4>1
      <4>3. h[i] = g[n + 1]
        BY <4>1
      <4> HIDE DEF h, n
      <4> QED  BY <2>3, <3>2, <4>1, <4>2, <4>3
    <3> QED  BY <3>1, <3>2
  <2>5. Solves(h)
    <3>1. h = [i \in 0 .. F |-> h[i]]
      OBVIOUS
    <3> HIDE DEF h
    <3> QED  BY <2>4, <3>1
  <2> HIDE DEF h, Solves
  <2> QED  BY <2>5
<1>4. Solves(after)
  <2> HIDE DEF Solves
  <2> QED  BY <1>3
<1> HIDE DEF after
<1>5. /\ after[F] = IDENTITY
      /\ \A i \in 0 .. F - 1 : after[i] = Round(p, after[i + 1], Bit(s, i))
  <2>1. after[F] = IDENTITY
    BY <1>2, <1>4
  <2>2. ASSUME NEW i \in 0 .. F - 1
        PROVE  after[i] = Round(p, after[i + 1], Bit(s, i))
    <3>1. i \in 0 .. F /\ i # F
      BY <1>2
    <3> QED  BY <1>4, <3>1
  <2> QED  BY <2>1, <2>2
<1> HIDE DEF Solves
<1> DEFINE Multiple(i) ==
             /\ \E c \in CurvePoints : Represents(after[i], c)
             /\ PointLog(after[i])
                  = (PointLog(p) * (r \div Power(2, i))) % GroupOrder
           S == {n \in Nat : n <= F => Multiple(F - n)}
<1>6. r \in Nat /\ r \div Power(2, F) = 0 /\ r \div Power(2, 0) = r
  <2>1. YSpace \in Nat \ {0} /\ YSpace = Power(2, F)
    BY CurveAssumption, PowerIsPositive DEF YSpace
  <2>2. r \in 0 .. YSpace - 1
    <3>1. s \in Int
      OBVIOUS
    <3> QED  BY <2>1, <3>1, DivisionOf
  <2> HIDE DEF r
  <2>3. r \in Nat /\ r = YSpace * 0 + r
    BY <2>1, <2>2
  <2>4. r \div YSpace = 0
    BY <2>1, <2>2, <2>3, DivisionIs
  <2>5. r \div 1 = r
    BY <2>3
  <2> QED  BY <2>1, <2>3, <2>4, <2>5, PowerRecursion
<1>7. 0 \in S
  <2>1. Represents(after[F], <<0, 1>>) /\ <<0, 1>> \in CurvePoints
    BY <1>5, IdentityRepresents
  <2>2. PointLog(after[F]) = 0
    BY <2>1, LogOfIdentity
  <2> DEFINE l == PointLog(p)
             g == GroupOrder
  <2>3. l \in Int /\ g \in Nat \ {0}
    BY LogOf, GroupOrderIsPositive
  <2> HIDE DEF l, g
  <2>4. (l * 0) % g = 0
    BY <2>3
  <2>5. F - 0 = F
    BY <1>2
  <2> HIDE DEF r
  <2>6. Multiple(F)
    BY <1>6, <2>1, <2>2, <2>4 DEF l, g
  <2> QED  BY <2>5, <2>6
<1>8. ASSUME NEW n \in Nat, n \in S PROVE n + 1 \in S
  <2> SUFFICES ASSUME n + 1 <= F PROVE Multiple(F - (n + 1))
    OBVIOUS
  <2> DEFINE i == F - (n + 1)
             m == r \div Power(2, i + 1)
             bit == Bit(s, i)
  <2>1. i \in 0 .. F - 1 /\ F - n = i + 1 /\ i \in Nat
    BY <1>2
  <2>2. Multiple(i + 1)
    <3> HIDE DEF Multiple, i
    <3>1. n <= F
      BY <1>2
    <3>2. Multiple(F - n)
      BY <1>8, <3>1
    <3> QED  BY <2>1, <3>2
  <2> HIDE DEF i
  <2>3. after[i] = Round(p, after[i + 1], bit)
    BY <1>5, <2>1
  <2>4. bit \in {0, 1} /\ r \div Power(2, i) = 2 * m + bit
    BY <2>1, ScalarBits
  <2>5. m \in Nat
    <3>1. Power(2, i + 1) \in Nat \ {0} /\ r \in Int
      BY <1>6, <2>1, PowerIsPositive
    <3> HIDE DEF r
    <3> QED  BY <1>6, <3>1, DivisionOf
  <2> HIDE DEF m, bit
  <2>6. PICK c \in CurvePoints : Represents(after[i + 1], c)
    BY <2>2
  <2>7. PointLog(after[i + 1]) = (PointLog(p) * m) % GroupOrder
    BY <2>2 DEF m
  <2>8. /\ \E d \in CurvePoints : Represents(after[i], d)
        /\ PointLog(after[i]) = (PointLog(p) * (2 * m + bit)) % GroupOrder
    <3> DEFINE q == after[i + 1]
    <3>1. Represents(q, c) /\ PointLog(q) = (PointLog(p) * m) % GroupOrder
          /\ after[i] = Round(p, q, bit)
      BY <2>3, <2>6, <2>7
    <3> HIDE DEF q
    <3>2. \E d \in CurvePoints : Represents(Round(p, q, bit), d)
      BY <2>4, <2>5, <3>1, RoundLog
    <3>3. PointLog(Round(p, q, bit)) = (PointLog(p) * (2 * m + bit)) % GroupOrder
      BY <2>4, <2>5, <3>1, RoundLog
    <3> QED  BY <3>1, <3>2, <3>3
  <2> HIDE DEF r
  <2>9. Multiple(i)
    BY <2>4, <2>8
  <2> QED  BY <2>9 DEF i
<1>9. Multiple(0)
  <2>1. F \in S
    <3> HIDE DEF S
    <3> QED  BY <1>2, <1>7, <1>8, SetInduction
  <2>2. F - F = 0 /\ F <= F /\ F \in Nat
    BY <1>2
  <2> HIDE DEF Multiple
  <2> QED  BY <2>1, <2>2
<1> HIDE DEF r
<1> QED  BY <1>1, <1>6, <1>9 DEF r

LEMMA IsIdentityIs ==
  ASSUME NEW p, NEW a, Represents(p, a)
  PROVE  IsIdentity(p) <=> PointLog(p) = 0
<1>1. PICK z \in Int : RepresentsWith(p, a, z)
  BY DEF Represents
<1> DEFINE x == a[1]
           y == a[2]
<1>2. /\ Stands(p.x, x * z) /\ Stands(p.y, y * z) /\ Stands(p.z, z)
      /\ ~ Same(z, 0) /\ a \in CurvePoints
  BY <1>1 DEF RepresentsWith
<1>3. a = <<x, y>> /\ x \in Residues /\ y \in Residues /\ x \in Int /\ y \in Int
  BY <1>2, PointsOfTheCurve
<1> HIDE DEF x, y
<1>4. FeIsZero(p.x) <=> x = 0
  <2> DEFINE n == x * z
  <2>1. n \in Int /\ Stands(p.x, n) /\ (Same(n, 0) <=> Same(x, 0))
    <3>1. Same(n, 0) <=> Same(x, 0)
      BY <1>2, <1>3, NonzeroProduct
    <3>2. n \in Int
      BY <1>3
    <3> QED  BY <1>2, <3>1, <3>2
  <2> HIDE DEF n
  <2>2. p.x = FeZero <=> Same(n, 0)
    BY <2>1, ConstantsStand, StandsFor
  <2>3. Same(x, 0) <=> x = 0
    BY <1>3, SameResidues, SameEquivalence
  <2> QED  BY <2>1, <2>2, <2>3 DEF FeIsZero
<1>5. p.y = p.z <=> y = 1
  <2> DEFINE n == y * z
  <2>1. n \in Int /\ Stands(p.y, n)
    BY <1>2, <1>3
  <2>2. y = 1 => n = z
    BY <1>3
  <2>3. Same(n, z) => Same(y, 1)
    <3> SUFFICES ASSUME Same(n, z) PROVE Same(y, 1)
      OBVIOUS
    <3>1. n = z * y /\ z = z * 1 /\ 1 \in Int
      BY <1>3
    <3>2. Same(z * y, z * 1)
      BY <3>1
    <3> QED  BY <1>2, <1>3, <3>1, <3>2, Cancel
  <2> HIDE DEF n
  <2>4. p.y = p.z <=> Same(n, z)
    BY <1>2, <2>1, StandsFor
  <2>5. 1 \in Residues
    BY PIsPositive DEF Residues
  <2>6. Same(y, 1) => y = 1
    BY <1>3, <2>5, SameResidues
  <2> QED  BY <2>2, <2>3, <2>4, <2>6, SameEquivalence
<1>6. IsIdentity(p) <=> a = <<0, 1>>
  <2>1. <<x, y>> = <<0, 1>> <=> x = 0 /\ y = 1
    OBVIOUS
  <2> QED  BY <1>3, <1>4, <1>5, <2>1 DEF IsIdentity
<1> QED  BY <1>6, LogOfIdentity

(* The points the subgroup policy keeps.                                   *)
LEMMA PrimeSubgroupIs ==
  ASSUME NEW p, NEW a, Represents(p, a)
  PROVE  IsPrimeSubgroupNonidentity(p) <=> PointLog(p) # 0 /\ PointLog(p) % 4 = 0
<1> DEFINE l == PointLog(p)
           q == l \div 4
           r == l % 4
<1>1. L \in Nat \ {0} /\ GroupOrder = 4 * L
  BY GroupOrderIsPositive DEF GroupOrder
<1>2. l \in Nat
  <2>1. l \in 0 .. GroupOrder - 1
    BY LogOf
  <2> HIDE DEF l
  <2> QED  BY <1>1, <2>1
<1> HIDE DEF l
<1>3. L \in Nat /\ L % YSpace = L
  <2>1. YSpace \in Nat \ {0}
    BY CurveAssumption, PowerIsPositive DEF YSpace
  <2>2. L \in 0 .. YSpace - 1
    BY <1>1, <2>1, CurveAssumption
  <2> QED  BY <2>1, <2>2
<1>4. PICK c \in CurvePoints : Represents(ScalarMulWith(p, L), c)
  BY <1>3, ScalarMulWithIs
<1>5. PointLog(ScalarMulWith(p, L)) = (l * L) % (4 * L)
  BY <1>1, <1>3, ScalarMulWithIs DEF l
<1>6. l = 4 * q + r /\ q \in Int /\ r \in 0 .. 3
  BY <1>2, DivisionOf
<1> HIDE DEF q, r
<1>7. (l * L) % (4 * L) = r * L /\ (r * L = 0 <=> r = 0)
  <2> DEFINE m == 4 * L
             n == l * L
             s == r * L
  <2>1. m \in Nat \ {0} /\ n \in Int /\ s \in Int
    BY <1>1, <1>2, <1>6
  <2>2. n = m * q + s
    <3>1. (4 * q + r) * L = (4 * L) * q + r * L
      BY <1>1, <1>6
    <3> QED  BY <1>6, <3>1
  <2>3. s \in 0 .. m - 1 /\ (s = 0 <=> r = 0)
    <3>1. r = 0 \/ r = 1 \/ r = 2 \/ r = 3
      BY <1>6
    <3> QED  BY <1>1, <3>1
  <2> HIDE DEF m, n, s
  <2>4. n % m = s
    BY <1>6, <2>1, <2>2, <2>3, DivisionIs
  <2> QED  BY <2>3, <2>4 DEF m, n, s
<1>8. IsPrimeSubgroup(p) <=> r = 0
  BY <1>4, <1>5, <1>7, IsIdentityIs DEF IsPrimeSubgroup
<1>9. IsIdentity(p) <=> l = 0
  BY IsIdentityIs DEF l
<1> QED  BY <1>8, <1>9 DEF IsPrimeSubgroupNonidentity, l, r

-----------------------------------------------------------------------------
(* The codec.                                                              *)

(* P is odd: of a nonzero residue and its negative, one is odd.            *)
LEMMA FeOddIs ==
  ASSUME NEW f, NEW x \in Residues, Stands(f, x)
  PROVE  FeToCanonical(f) = x /\ (FeIsOdd(f) <=> x % 2 = 1)
<1>1. f \in Int
  BY ElementsAreResidues, ResiduesAreInt DEF Stands
<1>2. V(f) \in Residues /\ Same(V(f), x)
  BY <1>1, ValueOf DEF Stands
<1>3. V(f) = x
  BY <1>2, SameResidues
<1> QED  BY <1>3 DEF V, FeIsOdd

LEMMA NegativeIs ==
  ASSUME NEW f, NEW x \in Residues \ {0}, Stands(f, x)
  PROVE  /\ P - x \in Residues /\ P - x \in Int /\ Stands(FeNeg(f), P - x)
         /\ (P - x) % 2 = 1 <=> x % 2 = 0
<1>1. P \in Nat /\ P % 2 = 1 /\ x \in 1 .. P - 1
  <2>1. P \in Nat /\ P % 4 = 3
    BY FieldAssumption
  <2>2. P % 2 = 1
    BY <2>1
  <2> QED  BY <2>1, <2>2 DEF Residues
<1>2. P - x \in Residues /\ P - x \in Int /\ x \in Int
  BY <1>1 DEF Residues
<1>3. (P - x) % 2 = 1 <=> x % 2 = 0
  BY <1>1
<1>4. Stands(FeNeg(f), 0 - x)
  BY StandsFor
<1>5. Same(0 - x, P - x)
  <2>1. P - x = (0 - x) + P * 1 /\ 0 - x \in Int
    BY <1>1
  <2>2. Same(P - x, 0 - x)
    BY <1>2, <2>1, SameBy
  <2> QED  BY <2>2, SameEquivalence
<1>6. Stands(FeNeg(f), P - x)
  <2> DEFINE n == 0 - x
             m == P - x
  <2>1. Stands(FeNeg(f), n) /\ Same(n, m) /\ m \in Int
    BY <1>2, <1>4, <1>5
  <2> HIDE DEF n, m
  <2>2. Stands(FeNeg(f), m)
    BY <2>1, StandsAndSame
  <2> QED  BY <2>2 DEF m
<1> QED  BY <1>2, <1>3, <1>6

(* The root handed out has the parity the sign bit asks for.               *)
LEMMA RootWithSignIs ==
  ASSUME NEW f, NEW r, Stands(f, r), NEW sign \in {0, 1}, ~ NegativeZero(f, sign)
  PROVE  \E x \in Residues : /\ Stands(RootWithSign(f, sign), x)
                             /\ Same(x * x, r * r)
                             /\ x % 2 = sign
<1> DEFINE v == V(f)
<1>1. v \in Residues /\ v \in Int /\ v \in Nat /\ Same(v, r) /\ Stands(f, v) /\ r \in Int
  <2>1. f \in Int /\ f \in FieldElement /\ Same(v, r) /\ r \in Int
    BY ElementsAreResidues, ResiduesAreInt DEF Stands
  <2>2. v \in Residues /\ v \in Int
    BY <2>1, ValueOf
  <2> QED  BY <2>1, <2>2, ResiduesAreInt, SameEquivalence DEF Stands
<1> HIDE DEF v
<1>2. FeIsOdd(f) <=> v % 2 = 1
  BY <1>1, FeOddIs
<1>3. v % 2 \in {0, 1}
  BY <1>1
<1>4. CASE FeIsOdd(f) <=> sign = 1
  <2>1. v % 2 = sign
    BY <1>2, <1>3, <1>4
  <2>2. (FeIsOdd(f) = (sign = 1))
    BY <1>4 DEF FeIsOdd
  <2>3. RootWithSign(f, sign) = f
    BY <2>2 DEF RootWithSign, FeConditionalSelect
  <2>4. Same(v * v, r * r)
    BY <1>1, SameProduct
  <2> QED  BY <1>1, <2>1, <2>3, <2>4
<1>5. CASE ~ (FeIsOdd(f) <=> sign = 1)
  <2>1. v % 2 # sign
    BY <1>2, <1>3, <1>5
  <2>2. ~ (FeIsOdd(f) = (sign = 1))
    BY <1>5
  <2>3. RootWithSign(f, sign) = FeNeg(f)
    BY <2>2 DEF RootWithSign, FeConditionalSelect
  <2>4. v # 0
    <3> SUFFICES ASSUME v = 0 PROVE FALSE
      OBVIOUS
    <3>1. sign = 1
      BY <1>3, <2>1
    <3>2. Same(v, 0)
      BY SameEquivalence
    <3>3. f = FeZero
      BY <1>1, <3>2, ConstantsStand, StandsEqual
    <3> QED  BY <3>1, <3>3 DEF NegativeZero, FeIsZero
  <2> DEFINE w == P - v
  <2>5. /\ w \in Residues /\ w \in Int /\ Stands(FeNeg(f), w)
        /\ w % 2 = 1 <=> v % 2 = 0
    BY <1>1, <2>4, NegativeIs
  <2>6. Same(w, 0 - v)
    <3>1. w = (0 - v) + P * 1 /\ 0 - v \in Int
      BY <1>1, PIsPositive
    <3> HIDE DEF w
    <3> QED  BY <2>5, <3>1, SameBy
  <2> HIDE DEF w
  <2>7. w % 2 = sign
    <3>1. w % 2 \in {0, 1}
      BY <2>5
    <3> QED  BY <1>3, <2>1, <2>5, <3>1
  <2>8. Same(w * w, r * r)
    <3> DEFINE u == 0 - v
    <3>1. u \in Int /\ u * u = v * v /\ Same(w, u)
      BY <1>1, <2>6
    <3> HIDE DEF u
    <3>2. Same(w * w, u * u)
      BY <2>5, <3>1, SameProduct
    <3>3. Same(v * v, r * r)
      BY <1>1, SameProduct
    <3> QED  BY <3>1, <3>2, <3>3, SameEquivalence
  <2> QED  BY <2>3, <2>5, <2>7, <2>8
<1> QED  BY <1>4, <1>5

(* The fields of an encoding.                                              *)
LEMMA YSpaceIs ==
  YSpace \in Nat \ {0} /\ EncodingSpace = 8 * YSpace /\ P < YSpace
<1>1. FieldBits \in Nat /\ P < YSpace
  BY CurveAssumption
<1>2. YSpace \in Nat \ {0}
  BY <1>1, PowerIsPositive DEF YSpace
<1>3. Power(2, 3) = 8
  <2>1. Power(2, 0) = 1 /\ Power(2, 0 + 1) = 2 * Power(2, 0)
    BY PowerRecursion
  <2>2. Power(2, 1 + 1) = 2 * Power(2, 1)
    BY PowerRecursion
  <2>3. Power(2, 2 + 1) = 2 * Power(2, 2)
    BY PowerRecursion
  <2>4. Power(2, 1) = 2
    BY <2>1
  <2>5. Power(2, 2) = 4
    BY <2>2, <2>4
  <2> QED  BY <2>3, <2>5
<1>4. Power(2, FieldBits + 3) = Power(2, FieldBits) * Power(2, 3)
  BY <1>1, PowerOfSum
<1>5. EncodingSpace = YSpace * 8
  BY <1>3, <1>4 DEF EncodingSpace, YSpace
<1> QED  BY <1>1, <1>2, <1>5

LEMMA FieldsOfEncoding ==
  ASSUME NEW e \in Encoding
  PROVE  /\ SignBit(e) \in {0, 1} /\ ReservedBits(e) \in 0 .. 3
         /\ YBits(e) \in 0 .. YSpace - 1
         /\ e = YBits(e) + ReservedBits(e) * YSpace + SignBit(e) * 4 * YSpace
<1> DEFINE Y == YSpace
           y == e % Y
           q == e \div Y
           r == q % 4
           s == q \div 4
<1>1. Y \in Nat \ {0} /\ e \in 0 .. 8 * Y - 1 /\ e \in Nat
  BY YSpaceIs DEF Encoding
<1> HIDE DEF Y
<1>2. e = Y * q + y /\ q \in Nat /\ y \in 0 .. Y - 1
  <2>1. e \in Int /\ Y \in Nat \ {0}
    BY <1>1
  <2>2. q \in Int /\ y \in 0 .. Y - 1 /\ e = Y * q + y /\ (e \in Nat => q \in Nat)
    BY <2>1, DivisionOf
  <2> QED  BY <1>1, <2>2
<1> HIDE DEF q, y
<1>3. q = 4 * s + r /\ s \in Nat /\ r \in 0 .. 3
  BY <1>2, DivisionOf
<1> HIDE DEF s, r
<1>4. q < 8
  <2> SUFFICES ASSUME q >= 8 PROVE FALSE
    BY <1>2
  <2>1. Y * q >= Y * 8
    BY <1>1, <1>2
  <2>2. Y * q \in Nat
    BY <1>1, <1>2
  <2> QED  BY <1>1, <1>2, <2>1, <2>2
<1>5. s \in {0, 1}
  BY <1>3, <1>4
<1>6. e \div (4 * Y) = s
  <2> DEFINE m == 4 * Y
             t == r * Y + y
  <2>1. m \in Nat \ {0}
    BY <1>1
  <2>2. t \in 0 .. m - 1
    <3>1. r = 0 \/ r = 1 \/ r = 2 \/ r = 3
      BY <1>3
    <3> QED  BY <1>1, <1>2, <3>1
  <2>3. e = m * s + t
    <3>1. Y * (4 * s + r) + y = (4 * Y) * s + (r * Y + y)
      BY <1>1, <1>2, <1>3
    <3> QED  BY <1>2, <1>3, <3>1
  <2>4. e \in Int /\ s \in Int
    BY <1>1, <1>3
  <2> HIDE DEF m, t
  <2>5. e \div m = s
    BY <2>1, <2>2, <2>3, <2>4, DivisionIs
  <2> QED  BY <2>5 DEF m
<1>7. e = y + r * Y + s * 4 * Y
  <2>1. Y * (4 * s + r) + y = y + r * Y + s * 4 * Y
    BY <1>1, <1>2, <1>3
  <2> QED  BY <1>2, <1>3, <2>1
<1> QED
  BY <1>2, <1>3, <1>5, <1>6, <1>7 DEF SignBit, ReservedBits, YBits, Y, y, q, r

LEMMA FieldsWritten ==
  ASSUME NEW y \in Residues, NEW s \in {0, 1}
  PROVE  LET e == y + s * 4 * YSpace
         IN  /\ e \in Encoding /\ SignBit(e) = s /\ ReservedBits(e) = 0
             /\ YBits(e) = y
<1> DEFINE Y == YSpace
           e == y + s * 4 * Y
           q == s * 4
           m == 4 * Y
<1>1. Y \in Nat \ {0} /\ y \in 0 .. Y - 1 /\ EncodingSpace = 8 * Y
      /\ m \in Nat \ {0} /\ y \in 0 .. m - 1
  <2>1. P \in Nat /\ P < Y /\ Y \in Nat \ {0} /\ EncodingSpace = 8 * Y
    BY YSpaceIs, PIsPositive
  <2> HIDE DEF Y
  <2> QED  BY <2>1 DEF Residues
<1> HIDE DEF Y
<1>2. e \in 0 .. 8 * Y - 1 /\ e \in Int /\ q \in Int /\ s \in Int
  <2>1. s = 0 \/ s = 1
    OBVIOUS
  <2> QED  BY <1>1, <2>1
<1>3. e = Y * q + y /\ e = m * s + y
  <2>1. s = 0 \/ s = 1
    OBVIOUS
  <2> QED  BY <1>1, <2>1
<1> HIDE DEF e, m
<1>4. e \div Y = q /\ e % Y = y
  <2> HIDE DEF q
  <2> QED  BY <1>1, <1>2, <1>3, DivisionIs
<1>5. e \div m = s
  BY <1>1, <1>2, <1>3, DivisionIs
<1>6. q % 4 = 0
  <2>1. s = 0 \/ s = 1
    OBVIOUS
  <2> QED  BY <2>1
<1> QED
  BY <1>1, <1>2, <1>4, <1>5, <1>6
     DEF SignBit, ReservedBits, YBits, Encoding, Y, e, m

LEMMA WireImageIs ==
  ASSUME NEW a \in CurvePoints
  PROVE  /\ WireImage(a) \in Encoding /\ a[1] % 2 \in {0, 1}
         /\ SignBit(WireImage(a)) = a[1] % 2 /\ ReservedBits(WireImage(a)) = 0
         /\ YBits(WireImage(a)) = a[2]
<1>1. a[2] \in Residues /\ a[1] \in Int
  BY PointsOfTheCurve
<1>2. a[1] % 2 \in {0, 1}
  BY <1>1
<1> DEFINE s == a[1] % 2
           y == a[2]
<1> HIDE DEF s, y
<1>3. WireImage(a) = y + s * 4 * YSpace
  BY DEF WireImage, s, y
<1>4. s \in {0, 1} /\ y \in Residues
  BY <1>1, <1>2 DEF s, y
<1> QED  BY <1>2, <1>3, <1>4, FieldsWritten DEF s, y

(* A point is its y and the square of its x: A - D y^2 is never zero, as   *)
(* A is a square and D is not.                                             *)
LEMMA DenominatorIsNonzero ==
  ASSUME NEW y \in Int
  PROVE  A - D * (y * y) \in Int /\ ~ Same(A - D * (y * y), 0)
<1> DEFINE yy == y * y
           dd == D * yy
<1>1. A \in Int /\ D \in Int /\ yy \in Int
  BY CurveConstants
<1>2. dd \in Int /\ A - dd \in Int
  <2> HIDE DEF yy
  <2> QED  BY <1>1
<1>3. ASSUME Same(A - dd, 0) PROVE FALSE
  <2>1. Same(A, dd)
    <3> HIDE DEF dd
    <3> QED  BY <1>1, <1>2, <1>3, SameBySubtraction
  <2>2. PICK s \in Int : Same(s * s, A)
    BY CurveConstants
  <2>3. ~ Same(y, 0)
    <3> SUFFICES ASSUME Same(y, 0) PROVE FALSE
      OBVIOUS
    <3>1. Same(yy, 0)
      BY NonzeroProduct
    <3>2. Same(dd, 0)
      <4> HIDE DEF yy
      <4> QED  BY <1>1, <3>1, NonzeroProduct
    <3> QED  BY <2>1, <3>2, CurveConstants, SameEquivalence
  <2>4. PICK i \in Residues : Same(y * i, 1)
    BY <2>3, HasInverse
  <2> DEFINE j == y * i
             t == s * i
             ss == s * s
             ii == i * i
             jj == j * j
  <2>5. i \in Int
    BY ResiduesAreInt
  <2>6. j \in Int /\ t \in Int /\ ss \in Int /\ ii \in Int /\ Same(j, 1)
    BY <2>4, <2>5
  <2>7. t * t = ss * ii /\ dd * ii = D * jj
    BY <1>1, <2>5
  <2>8. Same(ss, dd)
    BY <2>1, <2>2, SameEquivalence
  <2> HIDE DEF t, ss, ii, j, dd, yy
  <2>9. Same(ss * ii, dd * ii)
    BY <1>2, <2>6, <2>8, SameTimes
  <2>10. Same(jj, 1) /\ jj \in Int
    <3>1. Same(j * j, 1 * 1) /\ j * j \in Int
      BY <2>6, SameProduct
    <3> QED  BY <3>1
  <2> HIDE DEF jj
  <2>11. Same(D * jj, D)
    <3>1. Same(D, D) /\ D * 1 = D /\ 1 \in Int
      BY <1>1, SameEquivalence
    <3>2. Same(D * jj, D * 1)
      BY <1>1, <2>10, <3>1, SameProduct
    <3> QED  BY <3>1, <3>2
  <2>12. Same(t * t, D)
    BY <2>7, <2>9, <2>11, SameEquivalence
  <2> QED  BY <2>6, <2>12, CurveConstants
<1> QED  BY <1>2, <1>3

LEMMA SquareOfX ==
  ASSUME NEW x \in Residues, NEW y \in Residues, NEW i \in Int,
         Same((A - D * (y * y)) * i, 1)
  PROVE  <<x, y>> \in CurvePoints <=> Same(x * x, (1 - y * y) * i)
<1> DEFINE yy == y * y
           xx == x * x
           d == A - D * yy
           n == 1 - yy
           ni == n * i
           l == Squares(x, y)
           r == 1 + Quartic(x, y)
           di == d * i
<1>1. x \in Int /\ y \in Int /\ A \in Int /\ D \in Int
  BY ResiduesAreInt, CurveConstants
<1>2. xx \in Int /\ yy \in Int /\ l \in Int /\ r \in Int
  BY <1>1, SquaresAreInt
<1>3. l - r = d * xx - n
  <2>1. (A * (x * x) + y * y) - (1 + D * ((x * y) * (x * y)))
          = (A - D * (y * y)) * (x * x) - (1 - y * y)
    BY <1>1
  <2> QED  BY <2>1 DEF Squares, Quartic
<1>4. d \in Int /\ ~ Same(d, 0)
  BY <1>1, DenominatorIsNonzero
<1>5. <<x, y>> \in CurvePoints <=> Same(l, r)
  BY CurveEquation
<1> HIDE DEF l, r, xx, d
<1>6. Same(l, r) <=> Same(l - r, 0)
  BY <1>2, SameBySubtraction
<1>7. n \in Int /\ d * xx \in Int
  BY <1>2, <1>4
<1> HIDE DEF n, yy
<1>8. ni \in Int /\ di \in Int /\ Same(di, 1)
  BY <1>4, <1>7 DEF d, yy
<1>9. Same(d * ni, n)
  <2>1. d * ni = n * di /\ n * 1 = n
    BY <1>4, <1>7
  <2> HIDE DEF ni, di
  <2>2. Same(n * di, n * 1)
    <3>1. Same(n, n) /\ 1 \in Int
      BY SameEquivalence
    <3> QED  BY <1>7, <1>8, <3>1, SameProduct
  <2> QED  BY <2>1, <2>2
<1> HIDE DEF ni, di
<1> DEFINE dx == d * xx
<1>10. Same(l - r, 0) <=> Same(dx, n)
  <2>1. dx \in Int /\ l - r = dx - n
    BY <1>3, <1>7
  <2> HIDE DEF dx
  <2> QED  BY <1>7, <2>1, SameBySubtraction
<1>11. Same(dx, n) <=> Same(d * xx, d * ni)
  BY <1>9, SameEquivalence
<1>12. Same(d * xx, d * ni) => Same(xx, ni)
  BY <1>2, <1>4, <1>8, Cancel
<1>13. Same(xx, ni) => Same(d * xx, d * ni)
  BY <1>2, <1>4, <1>8, SameTimes
<1> QED  BY <1>5, <1>6, <1>10, <1>11, <1>12, <1>13 DEF xx, ni, n, yy

LEMMA FromAffineRepresents ==
  ASSUME NEW f, NEW g, NEW x, NEW y, Stands(f, x), Stands(g, y),
         <<x, y>> \in CurvePoints
  PROVE  Represents(FromAffine(f, g), <<x, y>>)
<1> DEFINE a == <<x, y>>
           p == FromAffine(f, g)
<1>1. x \in Int /\ y \in Int /\ a[1] = x /\ a[2] = y
  BY DEF Stands
<1>2. x * 1 = x /\ y * 1 = y /\ (x * y) * 1 = x * y
  BY <1>1
<1>3. p = [x |-> f, y |-> g, z |-> FeOne, t |-> FeMul(f, g)]
  BY DEF FromAffine
<1>4. Stands(FeOne, 1) /\ Stands(FeMul(f, g), x * y)
  BY ConstantsStand, StandsFor
<1>5. p \in Coordinates
  BY <1>3, <1>4 DEF Stands, Coordinates
<1>6. RepresentsWith(p, a, 1)
  BY <1>1, <1>2, <1>3, <1>4, <1>5, Distinct DEF RepresentsWith
<1> QED  BY <1>6 DEF Represents

(* The values the decoder computes from the fields of an encoding.         *)
LEMMA DecoderValues ==
  ASSUME NEW e \in Encoding, YBits(e) < P
  PROVE  LET y == YBits(e)
             f == FeFromCanonical(y).value
             yy == FeSquare(f)
             inverse == FeInvert(FeSub(EDWARDS_A, FeMul(EDWARDS_D, yy)))
             radicand == FeMul(FeSub(FeOne, yy), inverse.value)
         IN  /\ y \in Residues /\ FeFromCanonical(y).some /\ Stands(f, y)
             /\ inverse.some
             /\ \E i \in Int : /\ Same((A - D * (y * y)) * i, 1)
                               /\ Stands(radicand, (1 - y * y) * i)
<1> DEFINE y == YBits(e)
           f == FeFromCanonical(y).value
           yy == FeSquare(f)
           denominator == FeSub(EDWARDS_A, FeMul(EDWARDS_D, yy))
           inverse == FeInvert(denominator)
           d == A - D * (y * y)
           n == 1 - y * y
<1>1. y \in Residues /\ y \in Int
  <2>1. y \in 0 .. YSpace - 1 /\ YSpace \in Nat
    BY FieldsOfEncoding, YSpaceIs
  <2> HIDE DEF y
  <2>2. y < P
    BY DEF y
  <2> QED  BY <2>1, <2>2, PIsPositive DEF Residues
<1>2. FeFromCanonical(y).some /\ f = FeFromInteger(y)
  BY DEF FeFromCanonical, Checked, Some, FeFromInteger
<1>3. Stands(f, y)
  BY <1>1, <1>2, ValueOfInteger DEF Stands
<1> HIDE DEF y, f
<1>4. Stands(yy, y * y)
  BY <1>3, StandsFor
<1> HIDE DEF yy
<1>5. Stands(FeMul(EDWARDS_D, yy), D * (y * y))
  BY <1>4, ConstantsStand, StandsFor
<1>6. Stands(denominator, d)
  BY <1>5, ConstantsStand, StandsFor
<1>7. d \in Int /\ ~ Same(d, 0)
  BY <1>1, DenominatorIsNonzero
<1> HIDE DEF d, denominator
<1>8. PICK i \in Int : /\ inverse = Some(Inverses[denominator])
                       /\ Stands(Inverses[denominator], i)
                       /\ Same(d * i, 1)
  BY <1>6, <1>7, FeInvertIs
<1>9. inverse.some /\ Stands(inverse.value, i)
  BY <1>8 DEF Some
<1>10. Stands(FeSub(FeOne, yy), n)
  BY <1>4, ConstantsStand, StandsFor
<1> HIDE DEF n, inverse
<1>11. Stands(FeMul(FeSub(FeOne, yy), inverse.value), n * i)
  BY <1>9, <1>10, StandsFor
<1> QED
  BY <1>1, <1>2, <1>3, <1>8, <1>9, <1>11
     DEF y, f, yy, d, n, denominator, inverse

LEMMA WireImagesHaveRoots ==
  ASSUME NEW e \in Encoding, e \in WireImages
  PROVE  \E x \in Residues : /\ <<x, YBits(e)>> \in CurvePoints
                             /\ x % 2 = SignBit(e) /\ ReservedBits(e) = 0
                             /\ YBits(e) < P
<1>1. PICK a \in CurvePoints : e = WireImage(a)
  BY DEF WireImages
<1>2. /\ SignBit(e) = a[1] % 2 /\ ReservedBits(e) = 0 /\ YBits(e) = a[2]
  BY <1>1, WireImageIs
<1>3. a = <<a[1], a[2]>> /\ a[1] \in Residues /\ a[2] \in Residues
  BY PointsOfTheCurve
<1>4. a[2] < P
  BY <1>3, PIsPositive DEF Residues
<1> QED  BY <1>2, <1>3, <1>4

LEMMA RootsHaveWireImages ==
  ASSUME NEW e \in Encoding, NEW x \in Residues,
         <<x, YBits(e)>> \in CurvePoints, x % 2 = SignBit(e), ReservedBits(e) = 0
  PROVE  WireImage(<<x, YBits(e)>>) = e /\ e \in WireImages
<1> DEFINE y == YBits(e)
           Y == YSpace
           s == SignBit(e)
           r == ReservedBits(e)
<1>1. e = y + r * Y + s * 4 * Y /\ y \in Int /\ Y \in Nat /\ s \in Int
  <2>1. e = y + r * Y + s * 4 * Y /\ y \in 0 .. Y - 1 /\ s \in {0, 1} /\ Y \in Nat
    BY FieldsOfEncoding, YSpaceIs
  <2> HIDE DEF y, Y, s, r
  <2> QED  BY <2>1
<1>2. WireImage(<<x, y>>) = y + s * 4 * Y
  BY DEF WireImage
<1>3. r = 0 /\ <<x, y>> \in CurvePoints
  OBVIOUS
<1> HIDE DEF y, Y, s, r
<1>4. WireImage(<<x, y>>) = e
  BY <1>1, <1>2, <1>3
<1>5. e \in WireImages
  BY <1>3, <1>4 DEF WireImages
<1> QED  BY <1>4, <1>5 DEF y

(* What is decoded is the point whose encoding was read, and every point   *)
(* of the curve is decoded.                                                *)
LEMMA DecodeIs ==
  ASSUME NEW e \in Encoding
  PROVE  /\ Decode(e).some <=> e \in WireImages
         /\ Decode(e).some =>
              \E a \in CurvePoints : /\ Represents(Decode(e).value, a)
                                     /\ WireImage(a) = e
<1> DEFINE sign == SignBit(e)
           n == YBits(e)
           y == FeFromCanonical(n)
           yy == FeSquare(y.value)
           inverse == FeInvert(FeSub(EDWARDS_A, FeMul(EDWARDS_D, yy)))
           radicand == FeMul(FeSub(FeOne, yy), inverse.value)
           root == FeSqrt(radicand)
           chosen == RootWithSign(root.value, sign)
           decoded == FromAffine(chosen, y.value)
           Accepts == /\ ReservedBits(e) = 0 /\ y.some /\ inverse.some /\ root.some
                      /\ ~ NegativeZero(root.value, sign) /\ IsValid(decoded)
<1>1. Decode(e) = IF Accepts THEN Some(decoded) ELSE None
  BY DEF Decode
<1>2. sign \in {0, 1} /\ n \in Int
  <2>1. n \in 0 .. YSpace - 1 /\ sign \in {0, 1} /\ YSpace \in Nat
    BY FieldsOfEncoding, YSpaceIs
  <2> HIDE DEF n, sign
  <2> QED  BY <2>1
<1>3. y.some <=> n < P
  <2> HIDE DEF n
  <2> QED  BY DEF FeFromCanonical, Checked, Some, None
<1>4. CASE ~ n < P
  <2>1. ~ Accepts
    BY <1>3, <1>4
  <2>2. ~ Decode(e).some
    <3> HIDE DEF Accepts
    <3> QED  BY <1>1, <2>1 DEF None
  <2>3. e \notin WireImages
    BY <1>4, WireImagesHaveRoots
  <2> QED  BY <2>2, <2>3
<1>5. CASE n < P
  <2>1. /\ n \in Residues /\ y.some /\ Stands(y.value, n) /\ inverse.some
        /\ \E i \in Int : /\ Same((A - D * (n * n)) * i, 1)
                          /\ Stands(radicand, (1 - n * n) * i)
    BY <1>5, DecoderValues
  <2>2. PICK i \in Int : /\ Same((A - D * (n * n)) * i, 1)
                         /\ Stands(radicand, (1 - n * n) * i)
    BY <2>1
  <2> DEFINE m == (1 - n * n) * i
  <2>3. ASSUME NEW x \in Residues
        PROVE  <<x, n>> \in CurvePoints <=> Same(x * x, m)
    <3> HIDE DEF n
    <3> QED  BY <2>1, <2>2, SquareOfX
  <2>4. Stands(radicand, m)
    BY <2>2
  <2> HIDE DEF m, radicand, y, inverse
  <2>5. root.some <=> \E s \in Int : Same(s * s, m)
    BY <2>4, FeSqrtIs
  <2>6. root.some => \E r \in Int : Stands(root.value, r) /\ Same(r * r, m)
    BY <2>4, FeSqrtIs
  <2> HIDE DEF root, n, sign, decoded, chosen
  <2>7. ASSUME Decode(e).some
        PROVE  /\ e \in WireImages
               /\ \E a \in CurvePoints : Represents(Decode(e).value, a) /\ WireImage(a) = e
    <3>1. Accepts
      BY <1>1, <2>7 DEF None
    <3>2. PICK r \in Int : Stands(root.value, r) /\ Same(r * r, m)
      BY <2>6, <3>1
    <3>3. PICK x \in Residues : Stands(chosen, x) /\ Same(x * x, r * r) /\ x % 2 = sign
      BY <1>2, <3>1, <3>2, RootWithSignIs DEF chosen
    <3>4. <<x, n>> \in CurvePoints
      BY <2>3, <3>2, <3>3, SameEquivalence
    <3>5. Represents(decoded, <<x, n>>)
      BY <2>1, <3>3, <3>4, FromAffineRepresents DEF decoded
    <3>6. WireImage(<<x, n>>) = e /\ e \in WireImages
      BY <3>1, <3>3, <3>4, RootsHaveWireImages DEF n, sign
    <3>7. Decode(e).value = decoded
      <4> HIDE DEF Accepts
      <4> QED  BY <1>1, <3>1 DEF Some
    <3> QED  BY <3>4, <3>5, <3>6, <3>7
  <2>8. ASSUME e \in WireImages PROVE Decode(e).some
    <3>1. PICK x \in Residues : /\ <<x, n>> \in CurvePoints /\ x % 2 = sign
                                /\ ReservedBits(e) = 0
      BY <2>8, WireImagesHaveRoots DEF n, sign
    <3>2. x \in Int /\ Same(x * x, m)
      BY <2>3, <3>1, ResiduesAreInt
    <3>3. root.some
      BY <2>5, <3>2
    <3>4. PICK r \in Int : Stands(root.value, r) /\ Same(r * r, m)
      BY <2>6, <3>3
    <3>5. ~ NegativeZero(root.value, sign)
      <4> SUFFICES ASSUME NegativeZero(root.value, sign) PROVE FALSE
        OBVIOUS
      <4>1. root.value = FeZero /\ sign = 1
        BY DEF NegativeZero, FeIsZero
      <4>2. Same(r, 0)
        BY <3>4, <4>1, ConstantsStand, SameEquivalence DEF Stands
      <4>3. Same(r * r, 0)
        BY <4>2, NonzeroProduct
      <4>4. Same(x * x, 0)
        BY <3>2, <3>4, <4>3, SameEquivalence
      <4>5. Same(x, 0)
        BY <3>2, <4>4, NonzeroProduct
      <4>6. x = 0
        BY <4>5, SameResidues
      <4> QED  BY <3>1, <4>1, <4>6
    <3>6. PICK w \in Residues : Stands(chosen, w) /\ Same(w * w, r * r) /\ w % 2 = sign
      BY <1>2, <3>4, <3>5, RootWithSignIs DEF chosen
    <3>7. <<w, n>> \in CurvePoints
      BY <2>3, <3>4, <3>6, SameEquivalence
    <3>8. Represents(decoded, <<w, n>>)
      BY <2>1, <3>6, <3>7, FromAffineRepresents DEF decoded
    <3>9. Accepts
      BY <2>1, <3>1, <3>3, <3>5, <3>8, RepresentativesAreValid
    <3> HIDE DEF Accepts
    <3> QED  BY <1>1, <3>9 DEF Some
  <2> QED  BY <2>7, <2>8
<1> QED  BY <1>4, <1>5

(* The bytes written for a point are those of its affine coordinates.      *)
LEMMA EncodeIs ==
  ASSUME NEW p, NEW a, Represents(p, a)
  PROVE  Encode(p) = Some(WireImage(a))
<1>1. PICK z \in Int : RepresentsWith(p, a, z)
  BY DEF Represents
<1> DEFINE x == a[1]
           y == a[2]
           inverse == FeInvert(p.z)
           affine_x == FeMul(p.x, inverse.value)
           affine_y == FeMul(p.y, inverse.value)
           odd == IF FeIsOdd(affine_x) THEN 1 ELSE 0
<1>2. /\ Stands(p.x, x * z) /\ Stands(p.y, y * z) /\ Stands(p.z, z)
      /\ ~ Same(z, 0) /\ a \in CurvePoints
  BY <1>1 DEF RepresentsWith
<1>3. x \in Residues /\ y \in Residues /\ x \in Int /\ y \in Int
  BY <1>2, PointsOfTheCurve
<1>4. PICK i \in Int : /\ inverse = Some(Inverses[p.z])
                       /\ Stands(Inverses[p.z], i) /\ Same(z * i, 1)
  BY <1>2, FeInvertIs
<1>5. inverse.some /\ Stands(inverse.value, i)
  BY <1>4 DEF Some
<1> HIDE DEF inverse, x, y
<1>6. ASSUME NEW n \in Int, NEW f, Stands(f, n * z)
      PROVE  Stands(FeMul(f, inverse.value), n)
  <2> DEFINE k == z * i
             m == (n * z) * i
  <2>1. Stands(FeMul(f, inverse.value), m)
    BY <1>5, <1>6, StandsFor
  <2>2. m = n * k /\ k \in Int /\ Same(k, 1)
    BY <1>4
  <2> HIDE DEF k, m
  <2>3. Same(n * k, n * 1) /\ n * 1 = n
    <3>1. Same(n, n) /\ 1 \in Int /\ n * 1 = n
      BY SameEquivalence
    <3>2. Same(n * k, n * 1)
      BY <2>2, <3>1, SameProduct
    <3> QED  BY <3>1, <3>2
  <2>4. Same(m, n)
    BY <2>2, <2>3
  <2> QED  BY <2>1, <2>4, StandsAndSame
<1>7. Stands(affine_x, x) /\ Stands(affine_y, y)
  BY <1>2, <1>3, <1>6
<1>8. FeToCanonical(affine_y) = y
  BY <1>3, <1>7, FeOddIs
<1>9. odd = x % 2
  <2>1. FeIsOdd(affine_x) <=> x % 2 = 1
    BY <1>3, <1>7, FeOddIs
  <2>2. x % 2 \in {0, 1}
    BY <1>3
  <2> QED  BY <2>1, <2>2
<1>10. IsValid(p)
  BY RepresentativesAreValid
<1>11. Encode(p) = IF IsValid(p) /\ inverse.some
                   THEN Some(FeToCanonical(affine_y) + odd * 4 * YSpace) ELSE None
  BY DEF Encode, inverse
<1> HIDE DEF odd, affine_y
<1>12. Encode(p) = Some(y + (x % 2) * 4 * YSpace)
  BY <1>5, <1>8, <1>9, <1>10, <1>11
<1> QED  BY <1>12 DEF WireImage, x, y

LEMMA RootsOfOneSquare ==
  ASSUME NEW x \in Residues, NEW w \in Residues, Same(x * x, w * w),
         x % 2 = w % 2
  PROVE  x = w
<1> DEFINE s == x + w
           d == x - w
<1>1. x \in Int /\ w \in Int /\ x \in 0 .. P - 1 /\ w \in 0 .. P - 1 /\ P \in Nat
  BY ResiduesAreInt, PIsPositive DEF Residues
<1>2. Same(d * s, 0)
  <2> DEFINE xx == x * x
             ww == w * w
  <2>1. d * s = xx - ww /\ xx \in Int /\ ww \in Int
    BY <1>1
  <2> HIDE DEF d, s, xx, ww
  <2>2. Same(xx - ww, 0)
    BY <2>1, SameBySubtraction DEF xx, ww
  <2> QED  BY <2>1, <2>2
<1>3. d \in Int /\ s \in Int
  BY <1>1
<1>4. CASE Same(d, 0)
  BY <1>1, <1>4, SameBySubtraction, SameResidues
<1>5. CASE Same(s, 0)
  <2>1. PICK k \in Int : s = 0 + P * k
    <3> HIDE DEF s
    <3> QED  BY <1>3, <1>5, SameBy
  <2>2. k = 0 \/ k = 1
    <3>1. s \in 0 .. 2 * P - 2
      BY <1>1
    <3>2. s = P * k
      BY <1>1, <2>1
    <3> HIDE DEF s
    <3>3. ~ k < 0
      <4> SUFFICES ASSUME k < 0 PROVE FALSE
        OBVIOUS
      <4>1. P * k <= P * (0 - 1)
        BY <1>1
      <4> QED  BY <1>1, <3>1, <3>2, <4>1, PIsPositive
    <3>4. ~ k > 1
      <4> SUFFICES ASSUME k > 1 PROVE FALSE
        OBVIOUS
      <4>1. P * k >= P * 2
        BY <1>1
      <4> QED  BY <1>1, <3>1, <3>2, <4>1
    <3> QED  BY <3>3, <3>4
  <2>3. s % 2 = 0
    BY <1>1
  <2>4. P % 2 = 1
    <3>1. P % 4 = 3
      BY FieldAssumption
    <3> QED  BY <1>1, <3>1
  <2>5. k # 1
    <3> SUFFICES ASSUME k = 1 PROVE FALSE
      OBVIOUS
    <3>1. s = P
      BY <1>1, <2>1
    <3> QED  BY <2>3, <2>4, <3>1
  <2>6. s = 0
    BY <1>1, <2>1, <2>2, <2>5
  <2> QED  BY <1>1, <2>6
<1> HIDE DEF s, d
<1> QED  BY <1>2, <1>3, <1>4, <1>5, NoZeroDivisors

(* One encoding, one point.                                                *)
LEMMA WireImageIsInjective ==
  ASSUME NEW a \in CurvePoints, NEW b \in CurvePoints, WireImage(a) = WireImage(b)
  PROVE  a = b
<1> DEFINE x == a[1]
           w == b[1]
           y == a[2]
<1>1. /\ a = <<x, y>> /\ b = <<w, b[2]>> /\ x \in Residues /\ w \in Residues
      /\ y \in Residues /\ y \in Int /\ x \in Int /\ w \in Int
  BY PointsOfTheCurve
<1>2. x % 2 = w % 2 /\ b[2] = y
  BY WireImageIs
<1>3. <<x, y>> \in CurvePoints /\ <<w, y>> \in CurvePoints
  BY <1>1, <1>2
<1> HIDE DEF x, w, y
<1>4. A - D * (y * y) \in Int /\ ~ Same(A - D * (y * y), 0)
  BY <1>1, DenominatorIsNonzero
<1>5. PICK i \in Residues : Same((A - D * (y * y)) * i, 1)
  BY <1>4, HasInverse
<1>6. i \in Int
  BY ResiduesAreInt
<1>7. Same(x * x, (1 - y * y) * i) /\ Same(w * w, (1 - y * y) * i)
  BY <1>1, <1>3, <1>5, <1>6, SquareOfX
<1>8. x = w
  BY <1>1, <1>2, <1>7, SameEquivalence, RootsOfOneSquare
<1> QED  BY <1>1, <1>2, <1>8

(* Two representatives of one point are equal to the crate.                *)
LEMMA CtEqIs ==
  ASSUME NEW p, NEW q, NEW a, Represents(p, a), Represents(q, a)
  PROVE  CtEq(p, q)
<1>1. PICK z \in Int : RepresentsWith(p, a, z)
  BY DEF Represents
<1>2. PICK v \in Int : RepresentsWith(q, a, v)
  BY DEF Represents
<1>3. a[1] \in Int /\ a[2] \in Int
  BY <1>1, PointsOfTheCurve DEF RepresentsWith
<1>4. ASSUME NEW n \in Int, NEW f, NEW g, Stands(f, n * z), Stands(g, n * v)
      PROVE  FeMul(f, q.z) = FeMul(g, p.z)
  <2> DEFINE l == (n * z) * v
             r == (n * v) * z
  <2>1. Stands(p.z, z) /\ Stands(q.z, v)
    BY <1>1, <1>2 DEF RepresentsWith
  <2>2. Stands(FeMul(f, q.z), l) /\ Stands(FeMul(g, p.z), r)
    BY <1>4, <2>1, StandsFor
  <2>3. l = r
    OBVIOUS
  <2> HIDE DEF l, r
  <2> QED  BY <2>2, <2>3, StandsEqual, SameEquivalence
<1>5. FeMul(p.x, q.z) = FeMul(q.x, p.z)
  BY <1>1, <1>2, <1>3, <1>4 DEF RepresentsWith
<1>6. FeMul(p.y, q.z) = FeMul(q.y, p.z)
  BY <1>1, <1>2, <1>3, <1>4 DEF RepresentsWith
<1> QED  BY <1>5, <1>6 DEF CtEq

LEMMA StrictIs ==
  ASSUME NEW e \in Encoding
  PROVE  DecodeStrictSubgroup(e).some <=>
           /\ Decode(e).some
           /\ PointLog(Decode(e).value) # 0
           /\ PointLog(Decode(e).value) % 4 = 0
<1> DEFINE d == Decode(e)
           s == IsPrimeSubgroupNonidentity(d.value)
           l == PointLog(d.value)
<1>1. DecodeStrictSubgroup(e) = IF d.some /\ s THEN d ELSE None
  BY DEF DecodeStrictSubgroup
<1>2. d.some => (s <=> l # 0 /\ l % 4 = 0)
  BY DecodeIs, PrimeSubgroupIs
<1> HIDE DEF d, s, l
<1>3. DecodeStrictSubgroup(e).some <=> d.some /\ s
  BY <1>1 DEF None
<1> QED  BY <1>2, <1>3 DEF d, l

-----------------------------------------------------------------------------
(* The journeys of a compressed point.                                     *)

(* What the codec holds at each stage: the bytes received or the point to  *)
(* write, and what the calls made so far return for them.                  *)
Journey ==
  \/ /\ stage = "receive"
     /\ \E e \in Encoding : wire = Some(e)
  \/ /\ stage \in {"reencode", "received"}
     /\ \E e \in Encoding :
          /\ wire = Some(e)
          /\ point = Decode(e)
          /\ strict = DecodeStrictSubgroup(e)
     /\ stage = "reencode" => point.some
     /\ stage = "received" /\ point.some => back = Encode(point.value)
  \/ /\ stage \in {"write", "readback", "written"}
     /\ \E a \in CurvePoints : \E z \in Residues \ {0} : point = Some(Extended(a, z))
     /\ stage # "write" => wire = Encode(point.value)
     /\ stage = "readback" => wire.some
     /\ stage = "written" /\ wire.some => back = Decode(wire.value)

LEMMA JourneyHolds == CodecSpec => []Journey
<1>1. CodecInit => Journey
  <2> SUFFICES ASSUME CodecInit PROVE Journey
    OBVIOUS
  <2>1. CASE stage = "receive"
    <3>1. wire \in {Some(encoding) : encoding \in Encoding}
      BY <2>1 DEF CodecInit
    <3> QED  BY <2>1, <3>1 DEF Journey
  <2>2. CASE stage = "write"
    <3>1. PICK a \in CurvePoints, z \in WrittenZValues : point = Some(Extended(a, z))
      BY <2>2 DEF CodecInit
    <3>2. z \in Residues \ {0}
      BY <3>1, CodecAssumption
    <3> QED  BY <2>2, <3>1, <3>2 DEF Journey
  <2> QED  BY <2>1, <2>2 DEF CodecInit
<1>2. Journey /\ [CodecNext]_codec_vars => Journey'
  <2> SUFFICES ASSUME Journey, [CodecNext]_codec_vars PROVE Journey'
    OBVIOUS
  <2>1. CASE Receive
    <3>1. PICK e \in Encoding : wire = Some(e)
      BY <2>1 DEF Receive, Journey
    <3>2. wire.value = e /\ wire' = wire
      BY <2>1, <3>1 DEF Receive, Some
    <3>3. point' = Decode(e) /\ strict' = DecodeStrictSubgroup(e)
      BY <2>1, <3>2 DEF Receive
    <3>4. stage' = IF point'.some THEN "reencode" ELSE "received"
      BY <2>1 DEF Receive
    <3> QED  BY <3>1, <3>2, <3>3, <3>4 DEF Journey
  <2>2. CASE Reencode
    BY <2>2 DEF Reencode, Journey
  <2>3. CASE Write
    <3>1. /\ point' = point /\ wire' = Encode(point.value)
          /\ stage' = IF wire'.some THEN "readback" ELSE "written"
      BY <2>3 DEF Write
    <3>2. \E a \in CurvePoints : \E z \in Residues \ {0} : point = Some(Extended(a, z))
      BY <2>3 DEF Write, Journey
    <3> QED  BY <3>1, <3>2 DEF Journey
  <2>4. CASE ReadBack
    BY <2>4 DEF ReadBack, Journey
  <2>5. CASE UNCHANGED codec_vars
    BY <2>5 DEF codec_vars, Journey
  <2> QED  BY <2>1, <2>2, <2>3, <2>4, <2>5 DEF CodecNext
<1> QED  BY <1>1, <1>2, PTL DEF CodecSpec

(* Every encoding of a point of the curve decodes, and no other bytes do,  *)
(* on every curve whose A is a square and whose D is not.                  *)
THEOREM DecoderIsExact == CodecSpec => []DecodesExactlyTheCurve
<1>1. Journey => DecodesExactlyTheCurve
  <2> SUFFICES ASSUME Journey, stage \in {"reencode", "received"}
               PROVE  point.some <=> wire.value \in WireImages
    BY DEF DecodesExactlyTheCurve
  <2>1. PICK e \in Encoding : wire = Some(e) /\ point = Decode(e)
    BY DEF Journey
  <2>2. wire.value = e
    BY <2>1 DEF Some
  <2> QED  BY <2>1, <2>2, DecodeIs
<1> QED  BY <1>1, JourneyHolds, PTL

(* Bytes that decode are the encoding of what they decode to.              *)
THEOREM EncodingIsCanonical == CodecSpec => []ReencodingReproducesTheInput
<1>1. Journey => ReencodingReproducesTheInput
  <2> SUFFICES ASSUME Journey, stage = "received", point.some PROVE back = wire
    BY DEF ReencodingReproducesTheInput
  <2>1. PICK e \in Encoding : wire = Some(e) /\ point = Decode(e)
    BY DEF Journey
  <2>2. PICK a \in CurvePoints : Represents(Decode(e).value, a) /\ WireImage(a) = e
    BY <2>1, DecodeIs
  <2>3. back = Encode(point.value)
    BY DEF Journey
  <2> QED  BY <2>1, <2>2, <2>3, EncodeIs
<1> QED  BY <1>1, JourneyHolds, PTL

(* The subgroup policy keeps exactly the points of order L: the loop that  *)
(* it runs on the group order computes what the group says it should.      *)
THEOREM SubgroupPolicyIsExact == CodecSpec => []StrictIsExactOrderL
<1>1. Journey => StrictIsExactOrderL
  <2> SUFFICES ASSUME Journey, stage \in {"reencode", "received"}
               PROVE  strict.some <=> /\ point.some
                                      /\ PointLog(point.value) # 0
                                      /\ PointLog(point.value) % 4 = 0
    BY DEF StrictIsExactOrderL
  <2>1. PICK e \in Encoding : point = Decode(e) /\ strict = DecodeStrictSubgroup(e)
    BY DEF Journey
  <2> QED  BY <2>1, StrictIs
<1> QED  BY <1>1, JourneyHolds, PTL

(* A computed point, whatever its Z, is written as its affine coordinates  *)
(* and read back as a point the crate calls equal.                         *)
THEOREM WritingLosesNothing == CodecSpec => []WrittenPointReadsBackEqual
<1>1. Journey => WrittenPointReadsBackEqual
  <2> SUFFICES ASSUME Journey, stage = "written"
               PROVE  /\ wire = Some(WireImage(Affine(point.value)))
                      /\ back.some
                      /\ CtEq(back.value, point.value)
    BY DEF WrittenPointReadsBackEqual
  <2>1. PICK a \in CurvePoints, z \in Residues \ {0} : point = Some(Extended(a, z))
    BY DEF Journey
  <2> DEFINE p == Extended(a, z)
             e == WireImage(a)
  <2>2. Represents(p, a) /\ Affine(p) = a
    BY ExtendedRepresents
  <2>3. point.value = p /\ wire = Encode(point.value)
    BY <2>1 DEF Journey, Some
  <2> HIDE DEF p
  <2>4. wire = Some(e)
    BY <2>2, <2>3, EncodeIs
  <2>5. wire.some /\ wire.value = e
    BY <2>4 DEF Some
  <2>6. back = Decode(e)
    BY <2>5 DEF Journey
  <2>7. e \in Encoding /\ e \in WireImages
    BY WireImageIs DEF WireImages
  <2> HIDE DEF e
  <2>8. back.some
    BY <2>6, <2>7, DecodeIs
  <2>9. PICK b \in CurvePoints : Represents(back.value, b) /\ WireImage(b) = e
    BY <2>6, <2>7, <2>8, DecodeIs
  <2>10. b = a
    BY <2>9, WireImageIsInjective DEF e
  <2>11. CtEq(back.value, p)
    BY <2>2, <2>9, <2>10, CtEqIs
  <2> QED  BY <2>2, <2>3, <2>4, <2>8, <2>11 DEF e
<1> QED  BY <1>1, JourneyHolds, PTL

-----------------------------------------------------------------------------
(* The laws that Signing and SigningDraft assume of the point code.        *)

LEMMA UnitRepresents ==
  ASSUME NEW a \in CurvePoints
  PROVE  Represents(Extended(a, 1), a)
<1>1. 1 \in Residues \ {0}
  BY PIsPositive DEF Residues
<1> QED  BY <1>1, ExtendedRepresents

LEMMA LogOfPoint ==
  /\ Log \in [CurvePoints -> 0 .. GroupOrder - 1]
  /\ \A a, b \in CurvePoints : Log[a] = Log[b] => a = b
  /\ \A a, b \in CurvePoints :
       /\ AffineAdd(a, b) \in CurvePoints
       /\ Log[AffineAdd(a, b)] = (Log[a] + Log[b]) % GroupOrder
  /\ <<0, 1>> \in CurvePoints /\ Log[<<0, 1>>] = 0
<1>1. \A a, b \in CurvePoints : AffineAdd(a, b) \in CurvePoints
  BY SumOnTheCurve
<1>2. \A a, b \in CurvePoints :
         Log[AffineAdd(a, b)] = (Log[a] + Log[b]) % GroupOrder
  BY GroupAssumption
<1>3. \A a, b \in CurvePoints : Log[a] = Log[b] => a = b
  BY GroupAssumption
<1> QED  BY <1>1, <1>2, <1>3, IdentityRepresents, GroupAssumption

(* What the code computes on affine points.                                *)
LEMMA CodeAddIs ==
  ASSUME NEW a \in CurvePoints, NEW b \in CurvePoints
  PROVE  CodeAdd(a, b) = AffineAdd(a, b) /\ CodeAdd(a, b) \in CurvePoints
<1>1. Represents(PointAdd(Extended(a, 1), Extended(b, 1)), AffineAdd(a, b))
  BY UnitRepresents, PointAddRepresents
<1> QED  BY <1>1, AffineOfRepresentative, SumOnTheCurve DEF CodeAdd

LEMMA CodeDoubleIs ==
  ASSUME NEW a \in CurvePoints
  PROVE  CodeDouble(a) = AffineAdd(a, a) /\ CodeDouble(a) \in CurvePoints
<1>1. Represents(PointDouble(Extended(a, 1)), AffineAdd(a, a))
  BY UnitRepresents, PointDoubleRepresents
<1> QED  BY <1>1, AffineOfRepresentative, SumOnTheCurve DEF CodeDouble

LEMMA CodeMulIs ==
  ASSUME NEW a \in CurvePoints, NEW n \in 0 .. YSpace - 1
  PROVE  /\ CodeMul(a, n) \in CurvePoints
         /\ Log[CodeMul(a, n)] = (Log[a] * n) % GroupOrder
<1>1. Represents(Extended(a, 1), a)
  BY UnitRepresents
<1>2. n \in Nat /\ n % YSpace = n
  BY YSpaceIs
<1> DEFINE p == ScalarMulWith(Extended(a, 1), n)
<1>3. PICK c \in CurvePoints : Represents(p, c)
  BY <1>1, <1>2, ScalarMulWithIs
<1>4. PointLog(Extended(a, 1)) = Log[a]
  BY <1>1, LogOf
<1>5. PointLog(p) = (Log[a] * n) % GroupOrder
  BY <1>1, <1>2, <1>4, ScalarMulWithIs
<1>6. CodeMul(a, n) = c
  BY <1>3, AffineOfRepresentative DEF CodeMul
<1>7. PointLog(p) = Log[c]
  BY <1>3, LogOf
<1> QED  BY <1>3, <1>5, <1>6, <1>7

LEMMA CodeCodecIs ==
  /\ \A a \in CurvePoints :
       /\ CodeEncode(a) = Some(WireImage(a)) /\ WireImage(a) \in Encoding
       /\ CodeDecode(WireImage(a)) = Some(a)
  /\ \A e \in Encoding :
       CodeDecode(e) = None \/ \E a \in CurvePoints : /\ CodeDecode(e) = Some(a)
                                                      /\ WireImage(a) = e
<1>1. ASSUME NEW e \in Encoding
      PROVE  \/ CodeDecode(e) = None /\ e \notin WireImages
             \/ \E a \in CurvePoints : /\ CodeDecode(e) = Some(a)
                                       /\ WireImage(a) = e
  <2> DEFINE d == Decode(e)
  <2>1. CodeDecode(e) = IF d.some THEN Some(Affine(d.value)) ELSE None
    BY DEF CodeDecode
  <2>2. CASE d.some
    <3>1. PICK a \in CurvePoints : Represents(d.value, a) /\ WireImage(a) = e
      BY <2>2, DecodeIs
    <3>2. Affine(d.value) = a
      BY <3>1, AffineOfRepresentative
    <3> HIDE DEF d
    <3> QED  BY <2>1, <2>2, <3>1, <3>2
  <2>3. CASE ~ d.some
    <3>1. e \notin WireImages
      BY <2>3, DecodeIs
    <3> HIDE DEF d
    <3> QED  BY <2>1, <2>3, <3>1
  <2> QED  BY <2>2, <2>3
<1>2. ASSUME NEW a \in CurvePoints
      PROVE  /\ CodeEncode(a) = Some(WireImage(a)) /\ WireImage(a) \in Encoding
             /\ CodeDecode(WireImage(a)) = Some(a)
  <2>1. CodeEncode(a) = Some(WireImage(a))
    BY UnitRepresents, EncodeIs DEF CodeEncode
  <2>2. WireImage(a) \in Encoding
    BY WireImageIs
  <2>3. WireImage(a) \in WireImages
    BY DEF WireImages
  <2>4. PICK b \in CurvePoints : /\ CodeDecode(WireImage(a)) = Some(b)
                                 /\ WireImage(b) = WireImage(a)
    BY <1>1, <2>2, <2>3
  <2>5. b = a
    BY <2>4, WireImageIsInjective
  <2> QED  BY <2>1, <2>2, <2>4, <2>5
<1> QED  BY <1>1, <1>2

(* The identity and the base point of the code.                            *)
Base == <<BaseX, BaseY>>

LEMMA ConstantPoints ==
  /\ Affine(IDENTITY) = <<0, 1>>
  /\ Affine(BASEPOINT) = Base /\ Base \in CurvePoints
<1>1. Affine(IDENTITY) = <<0, 1>>
  BY IdentityRepresents, AffineOfRepresentative
<1>2. Base \in CurvePoints /\ BaseT = Times(BaseX, BaseY)
  BY GroupAssumption DEF Base
<1>3. /\ Base[1] = BaseX /\ Base[2] = BaseY /\ BaseX \in Int /\ BaseY \in Int
      /\ BaseT \in Int
  BY CurveAssumption DEF Base
<1>4. Same(BaseT, BaseX * BaseY)
  BY <1>2, <1>3, TimesIs
<1>5. /\ Stands(FeFromInteger(BaseX), BaseX)
      /\ Stands(FeFromInteger(BaseY), BaseY)
      /\ Stands(FeFromInteger(BaseT), BaseX * BaseY)
  BY <1>3, <1>4, ValueOfInteger, SameEquivalence DEF Stands
<1>6. RepresentsWith(BASEPOINT, Base, 1)
  <2>1. /\ BaseX * 1 = BaseX /\ BaseY * 1 = BaseY
        /\ (BaseX * BaseY) * 1 = BaseX * BaseY
    BY <1>3
  <2>2. Stands(FeOne, 1)
    BY ConstantsStand
  <2>3. BASEPOINT \in Coordinates
    BY <1>5, <2>2 DEF BASEPOINT, Coordinates, Stands
  <2> QED
    BY <1>2, <1>3, <1>5, <2>1, <2>2, <2>3, Distinct DEF RepresentsWith, BASEPOINT
<1> QED  BY <1>1, <1>2, <1>6, AffineOfRepresentative DEF Represents

(* Products modulo m.                                                      *)
LEMMA ProductModulo ==
  ASSUME NEW a \in Int, NEW n \in Int, NEW m \in Nat \ {0}
  PROVE  ((a % m) * n) % m = (a * n) % m
<1> DEFINE q == a \div m
           r == a % m
           t == r * n
           u == t \div m
           v == t % m
           w == q * n + u
<1>1. a = m * q + r /\ q \in Int /\ r \in Int
  BY DivisionOf
<1> HIDE DEF q, r
<1>2. t = m * u + v /\ u \in Int /\ v \in 0 .. m - 1
  <2>1. t \in Int
    BY <1>1
  <2> HIDE DEF t
  <2> QED  BY <2>1, DivisionOf
<1> HIDE DEF u, v
<1>3. a * n = m * w + v /\ w \in Int /\ a * n \in Int
  <2>1. (m * q + r) * n = m * (q * n) + t
    BY <1>1
  <2>2. m * (q * n) + (m * u + v) = m * (q * n + u) + v
    BY <1>1, <1>2
  <2> QED  BY <1>1, <1>2, <2>1, <2>2
<1> HIDE DEF w
<1>4. (a * n) % m = v
  BY <1>2, <1>3, DivisionIs
<1> QED  BY <1>4 DEF v, t, r

(* A multiple of the base point depends on the multiplier's residue.       *)
LEMMA BaseOrder ==
  ASSUME NEW n \in Nat
  PROVE  /\ Log[Base] \in Nat
         /\ (Log[Base] * (n % L)) % GroupOrder = (Log[Base] * n) % GroupOrder
         /\ n < L => ((Log[Base] * n) % GroupOrder = 0 <=> n = 0)
<1> DEFINE b == Log[Base]
           g == GroupOrder
           q == n \div L
           r == n % L
<1>1. L \in Nat \ {0} /\ g \in Nat \ {0} /\ g = 4 * L
  BY GroupOrderIsPositive DEF GroupOrder
<1>2. b \in Nat
  <2>1. b \in 0 .. g - 1
    BY ConstantPoints, LogOfPoint
  <2> HIDE DEF b, g
  <2> QED  BY <1>1, <2>1
<1>3. \A i \in 0 .. g - 1 : (i * b) % g = 0 <=> i % L = 0
  BY GroupAssumption DEF Base
<1> HIDE DEF b, g
<1>4. n = L * q + r /\ q \in Nat /\ r \in 0 .. L - 1
  <2>1. n \in Int /\ L \in Nat \ {0}
    BY <1>1
  <2>2. n = L * q + r /\ r \in 0 .. L - 1
    BY <2>1, DivisionOf
  <2>3. q \in Nat
    BY <2>1, DivisionOf
  <2> QED  BY <2>2, <2>3
<1> HIDE DEF q, r
<1>5. (L * b) % g = 0
  <2>1. L \in 0 .. g - 1 /\ L % L = 0
    BY <1>1
  <2> QED  BY <1>3, <2>1
<1>6. ((L * b) * q) % g = 0
  <2> DEFINE a == L * b
  <2>1. a \in Int /\ a % g = 0
    BY <1>1, <1>2, <1>5
  <2> HIDE DEF a
  <2>2. (0 * q) % g = (a * q) % g
    BY <1>1, <1>4, <2>1, ProductModulo
  <2>3. 0 * q = 0 /\ 0 % g = 0
    BY <1>1, <1>4
  <2> QED  BY <2>2, <2>3 DEF a
<1>7. (b * n) % g = (b * r) % g
  <2> DEFINE a == (L * b) * q
             c == b * r
  <2>1. b * n = a + c
    <3>1. b * (L * q + r) = (L * b) * q + b * r
      BY <1>1, <1>2, <1>4
    <3> QED  BY <1>4, <3>1
  <2>2. a \in Int /\ c \in Int /\ a % g = 0
    BY <1>1, <1>2, <1>4, <1>6
  <2> HIDE DEF a, c
  <2>3. (0 + (c % g)) % g = (a + c) % g
    <3>1. ((a % g) + (c % g)) % g = (a + c) % g
      BY <1>1, <2>2, SumModulo
    <3> QED  BY <2>2, <3>1
  <2>4. (0 + (c % g)) % g = c % g
    BY <1>1, <2>2
  <2> QED  BY <2>1, <2>3, <2>4 DEF c
<1>8. n < L => ((b * n) % g = 0 <=> n = 0)
  <2> SUFFICES ASSUME n < L PROVE (b * n) % g = 0 <=> n = 0
    OBVIOUS
  <2>1. n \in 0 .. g - 1 /\ n % L = n
    BY <1>1
  <2>2. n * b = b * n
    BY <1>2
  <2> QED  BY <1>3, <2>1, <2>2
<1> QED  BY <1>2, <1>7, <1>8 DEF b, g, r

(* The scalars of the scheme, and the multiples of the base point.         *)
LEMMA SchemeRanges ==
  /\ 2 * (YSpace \div 2) = YSpace /\ YSpace \in Nat \ {0}
  /\ L \in 0 .. YSpace - 1 /\ L \in Nat \ {0}
  /\ Scheme!Encoding = Encoding /\ Scheme!Scalars = 0 .. L - 1
<1>1. FieldBits - 1 \in Nat /\ FieldBits = (FieldBits - 1) + 1
  BY CurveAssumption
<1> DEFINE h == Power(2, FieldBits - 1)
<1>2. h \in Nat /\ YSpace = 2 * h
  BY <1>1, PowerRecursion DEF YSpace
<1> HIDE DEF h
<1>3. YSpace \div 2 = h /\ YSpace \in Nat \ {0} /\ EncodingSpace = 8 * YSpace
  BY <1>2, YSpaceIs
<1>4. L \in Nat \ {0} /\ L < YSpace \div 2
  BY CurveAssumption
<1>5. Scheme!Encoding = Encoding
  <2>1. Scheme!EncodingSpace = 16 * h
    BY <1>3 DEF Scheme!EncodingSpace
  <2>2. Scheme!EncodingSpace = EncodingSpace
    BY <1>2, <1>3, <2>1
  <2> QED  BY <2>2 DEF Scheme!Encoding, Encoding
<1> QED  BY <1>2, <1>3, <1>4, <1>5 DEF Scheme!Scalars

LEMMA BaseMultiples ==
  ASSUME NEW n \in 0 .. YSpace - 1
  PROVE  /\ CodeMul(Base, n) \in CurvePoints
         /\ Log[CodeMul(Base, n)] = (Log[Base] * n) % GroupOrder
  BY ConstantPoints, CodeMulIs

LEMMA ResidueIsScalar ==
  ASSUME NEW n \in Nat
  PROVE  n % L \in 0 .. L - 1 /\ n % L \in 0 .. YSpace - 1
<1>1. n % L \in 0 .. L - 1
  BY SchemeRanges
<1> QED  BY <1>1, SchemeRanges

LEMMA ReducedMultiple ==
  ASSUME NEW n \in Nat
  PROVE  /\ CodeMul(Base, n % L) \in CurvePoints
         /\ Log[CodeMul(Base, n % L)] = (Log[Base] * n) % GroupOrder
<1>1. n % L \in 0 .. YSpace - 1
  BY ResidueIsScalar
<1> QED  BY <1>1, BaseMultiples, BaseOrder

LEMMA GroupLawsHold ==
  /\ \A n \in 0 .. YSpace - 1 : CodeMul(Base, n) = CodeMul(Base, n % L)
  /\ \A n \in 0 .. L - 1 :
       /\ CodeMul(CodeMul(Base, n), L) = <<0, 1>>
       /\ CodeMul(Base, n) = <<0, 1>> <=> n = 0
       /\ CodeDouble(CodeMul(Base, n)) = CodeMul(Base, (2 * n) % L)
  /\ \A m, n \in 0 .. L - 1 :
       /\ CodeMul(Base, (m + n) % L) = CodeAdd(CodeMul(Base, m), CodeMul(Base, n))
       /\ CodeMul(Base, (m * n) % L) = CodeMul(CodeMul(Base, n), m)
<1> DEFINE b == Log[Base]
           g == GroupOrder
<1>1. b \in Nat /\ g \in Nat \ {0} /\ L \in Nat \ {0} /\ <<0, 1>> \in CurvePoints
      /\ Log[<<0, 1>>] = 0
  BY BaseOrder, GroupOrderIsPositive, LogOfPoint
<1>2. \A a, c \in CurvePoints : Log[a] = Log[c] => a = c
  BY LogOfPoint
<1>3. ASSUME NEW n \in 0 .. YSpace - 1
      PROVE  CodeMul(Base, n) \in CurvePoints /\ Log[CodeMul(Base, n)] = (b * n) % g
  BY BaseMultiples
<1>4. ASSUME NEW n \in Nat
      PROVE  /\ CodeMul(Base, n % L) \in CurvePoints
             /\ Log[CodeMul(Base, n % L)] = (b * n) % g
  BY ReducedMultiple
<1>5. ASSUME NEW n \in 0 .. L - 1
      PROVE  n \in Nat /\ n \in 0 .. YSpace - 1
  BY SchemeRanges
<1>6. \A n \in 0 .. YSpace - 1 : CodeMul(Base, n) = CodeMul(Base, n % L)
  <2>1. ASSUME NEW n \in 0 .. YSpace - 1 PROVE n \in Nat
    OBVIOUS
  <2> QED  BY <1>2, <1>3, <1>4, <2>1
<1>7. ASSUME NEW a \in CurvePoints, NEW k \in Nat, Log[a] = (b * k) % g,
             NEW n \in 0 .. YSpace - 1
      PROVE  /\ CodeMul(a, n) \in CurvePoints
             /\ Log[CodeMul(a, n)] = (b * (n * k)) % g
  <2>1. CodeMul(a, n) \in CurvePoints /\ Log[CodeMul(a, n)] = (((b * k) % g) * n) % g
    BY <1>7, CodeMulIs
  <2> DEFINE c == b * k
  <2>2. n \in Int /\ c \in Int
    BY <1>1
  <2>3. c * n = b * (n * k)
    BY <1>1, <2>2
  <2> HIDE DEF c
  <2>4. ((c % g) * n) % g = (c * n) % g
    BY <1>1, <2>2, ProductModulo
  <2> QED  BY <2>1, <2>3, <2>4 DEF c
<1>8. ASSUME NEW a \in CurvePoints, NEW c \in CurvePoints,
             NEW m \in Nat, NEW n \in Nat,
             Log[a] = (b * m) % g, Log[c] = (b * n) % g
      PROVE  AffineAdd(a, c) = CodeMul(Base, (m + n) % L)
  <2>1. /\ AffineAdd(a, c) \in CurvePoints
        /\ Log[AffineAdd(a, c)] = (((b * m) % g) + ((b * n) % g)) % g
    BY <1>8, LogOfPoint
  <2> DEFINE p == b * m
             q == b * n
  <2>2. p \in Int /\ q \in Int /\ p + q = b * (m + n) /\ m + n \in Nat
    BY <1>1
  <2> HIDE DEF p, q
  <2>3. ((p % g) + (q % g)) % g = (p + q) % g
    BY <1>1, <2>2, SumModulo
  <2>4. Log[AffineAdd(a, c)] = (b * (m + n)) % g
    BY <2>1, <2>2, <2>3 DEF p, q
  <2> QED  BY <1>2, <1>4, <2>1, <2>2, <2>4
<1> HIDE DEF b, g
<1>9. ASSUME NEW n \in 0 .. L - 1
      PROVE  /\ CodeMul(CodeMul(Base, n), L) = <<0, 1>>
             /\ CodeMul(Base, n) = <<0, 1>> <=> n = 0
             /\ CodeDouble(CodeMul(Base, n)) = CodeMul(Base, (2 * n) % L)
  <2>1. CodeMul(Base, n) \in CurvePoints /\ Log[CodeMul(Base, n)] = (b * n) % g
        /\ n \in Nat
    BY <1>3, <1>5
  <2>2. CodeMul(CodeMul(Base, n), L) = <<0, 1>>
    <3> DEFINE l == L * n
               c == CodeMul(CodeMul(Base, n), L)
    <3>1. c \in CurvePoints /\ Log[c] = (b * l) % g
      BY <1>7, <2>1, SchemeRanges
    <3>2. l \in Nat /\ l % L = 0
      <4>1. l = L * n + 0 /\ 0 \in 0 .. L - 1 /\ l \in Int /\ l \in Nat /\ n \in Int
        BY <1>1, <2>1
      <4> HIDE DEF l
      <4> QED  BY <1>1, <4>1, DivisionIs
    <3> HIDE DEF l, c
    <3>3. (b * l) % g = (b * (l % L)) % g
      BY <3>2, BaseOrder DEF b, g
    <3>4. (b * 0) % g = 0
      BY <1>1
    <3>5. Log[c] = 0
      BY <3>1, <3>2, <3>3, <3>4
    <3> QED  BY <1>1, <1>2, <3>1, <3>5 DEF c
  <2>3. CodeMul(Base, n) = <<0, 1>> <=> n = 0
    <3>1. n < L
      BY <1>1
    <3>2. (b * n) % g = 0 <=> n = 0
      BY <2>1, <3>1, BaseOrder DEF b, g
    <3> QED  BY <1>1, <1>2, <2>1, <3>2
  <2>4. CodeDouble(CodeMul(Base, n)) = CodeMul(Base, (2 * n) % L)
    <3>1. CodeDouble(CodeMul(Base, n)) = CodeMul(Base, (n + n) % L)
      BY <1>8, <2>1, CodeDoubleIs
    <3>2. n + n = 2 * n
      BY <2>1
    <3> QED  BY <3>1, <3>2
  <2> QED  BY <2>2, <2>3, <2>4
<1>10. ASSUME NEW m \in 0 .. L - 1, NEW n \in 0 .. L - 1
       PROVE  /\ CodeMul(Base, (m + n) % L)
                   = CodeAdd(CodeMul(Base, m), CodeMul(Base, n))
              /\ CodeMul(Base, (m * n) % L) = CodeMul(CodeMul(Base, n), m)
  <2>1. CodeMul(Base, n) \in CurvePoints /\ Log[CodeMul(Base, n)] = (b * n) % g
        /\ n \in Nat
    BY <1>3, <1>5
  <2>2. CodeMul(Base, m) \in CurvePoints /\ Log[CodeMul(Base, m)] = (b * m) % g
        /\ m \in Nat /\ m \in 0 .. YSpace - 1
    BY <1>3, <1>5
  <2>3. CodeAdd(CodeMul(Base, m), CodeMul(Base, n)) = CodeMul(Base, (m + n) % L)
    BY <1>8, <2>1, <2>2, CodeAddIs
  <2>4. CodeMul(Base, (m * n) % L) = CodeMul(CodeMul(Base, n), m)
    <3> DEFINE l == m * n
               c == CodeMul(CodeMul(Base, n), m)
    <3>1. c \in CurvePoints /\ Log[c] = (b * l) % g
      BY <1>7, <2>1, <2>2
    <3>2. l \in Nat
      BY <2>1, <2>2
    <3> HIDE DEF l, c
    <3>3. CodeMul(Base, l % L) = c
      BY <1>2, <1>4, <3>1, <3>2
    <3> QED  BY <3>3 DEF l, c
  <2> QED  BY <2>3, <2>4
<1> QED  BY <1>6, <1>9, <1>10

(* The point code of edwards.rs is what Signing assumes of it, on every    *)
(* curve of the assumptions: the multiples of the base point are a group   *)
(* of order L in which the code adds, doubles and multiplies, for scalars  *)
(* reduced and pruned alike, and what it encodes it decodes.               *)
THEOREM CurveObeysTheGroupLaws == Scheme!GroupLaws(CurvePoints)
<1> DEFINE I == Affine(IDENTITY)
           B == Affine(BASEPOINT)
           N == 0 .. 2 * (YSpace \div 2) - 1
           S == Scheme!Scalars
<1>1. /\ I = <<0, 1>> /\ B = Base /\ Base \in CurvePoints
      /\ <<0, 1>> \in CurvePoints
  BY ConstantPoints, LogOfPoint
<1>2. N = 0 .. YSpace - 1 /\ S = 0 .. L - 1 /\ Scheme!Encoding = Encoding
  BY SchemeRanges
<1>3. I \in CurvePoints /\ B \in CurvePoints
  BY <1>1
<1>4. /\ \A p \in CurvePoints, q \in CurvePoints : CodeAdd(p, q) \in CurvePoints
      /\ \A p \in CurvePoints : CodeDouble(p) \in CurvePoints
  BY CodeAddIs, CodeDoubleIs
<1>5. \A p \in CurvePoints, n \in N : CodeMul(p, n) \in CurvePoints
  <2> HIDE DEF N
  <2> QED  BY <1>2, CodeMulIs
<1>6. \A n \in N : CodeMul(B, n) = CodeMul(B, n % L)
  <2> HIDE DEF N, B
  <2> QED  BY <1>1, <1>2, GroupLawsHold
<1>7. /\ \A n \in S : CodeMul(CodeMul(B, n), L) = I
      /\ \A n \in S : CodeMul(B, n) = I <=> n = 0
      /\ \A n \in S : CodeDouble(CodeMul(B, n)) = CodeMul(B, (2 * n) % L)
  <2> HIDE DEF S, I, B
  <2> QED  BY <1>1, <1>2, GroupLawsHold
<1>8. /\ \A m \in S, n \in S :
           CodeMul(B, (m + n) % L) = CodeAdd(CodeMul(B, m), CodeMul(B, n))
      /\ \A m \in S, n \in S :
           CodeMul(B, (m * n) % L) = CodeMul(CodeMul(B, n), m)
  <2> HIDE DEF S, B
  <2> QED  BY <1>1, <1>2, GroupLawsHold
<1>9. /\ \A p \in CurvePoints : \E e \in Scheme!Encoding :
           CodeEncode(p) = Some(e) /\ CodeDecode(e) = Some(p)
      /\ \A e \in Scheme!Encoding :
           CodeDecode(e) = None \/ \E p \in CurvePoints : CodeDecode(e) = Some(p)
  BY <1>2, CodeCodecIs
<1> HIDE DEF I, B, N, S
<1>10. /\ \A p \in CurvePoints : \E e \in Scheme!Encoding :
            CodeEncode(p) = Scheme!Some(e) /\ CodeDecode(e) = Scheme!Some(p)
       /\ \A e \in Scheme!Encoding :
            \/ CodeDecode(e) = Scheme!None
            \/ \E p \in CurvePoints : CodeDecode(e) = Scheme!Some(p)
  BY <1>9 DEF Scheme!Some, Scheme!None, Some, None
<1> QED
  BY <1>3, <1>4, <1>5, <1>6, <1>7, <1>8, <1>10 DEF Scheme!GroupLaws, I, B, N, S

(* The multiples of a point: f[n + 1] is f[n] plus the point.              *)
LEMMA MultipleRecursion ==
  ASSUME NEW a \in CurvePoints
  PROVE  /\ AffineMultiple(0, a) = <<0, 1>>
         /\ \A n \in Nat :
              /\ AffineMultiple(n, a) \in CurvePoints
              /\ AffineMultiple(n + 1, a) = AffineAdd(AffineMultiple(n, a), a)
<1> DEFINE C == CurvePoints
           o == <<0, 1>>
           Solves(f) ==
             f = [i \in Nat |-> IF i = 0 THEN o ELSE AffineAdd(f[i - 1], a)]
           multiple == CHOOSE f : Solves(f)
<1>1. \A n : AffineMultiple(n, a) = multiple[n]
  BY DEF AffineMultiple
<1>2. o \in C /\ \A p \in C : AffineAdd(p, a) \in C
  BY LogOfPoint
<1> HIDE DEF C, o
<1>3. \E f : Solves(f) /\ f \in [Nat -> C]
  <2> DEFINE step == [p \in Nat \X C |-> AffineAdd(p[2], a)]
  <2>1. IsRecursion(C, o, step)
    <3>1. ASSUME NEW p \in Nat \X C PROVE AffineAdd(p[2], a) \in C
      BY <1>2
    <3> QED  BY <1>2, <3>1 DEF IsRecursion
  <2>2. PICK f : Follows(f, C, o, step)
    <3> HIDE DEF step
    <3> QED  BY <2>1, Recursion
  <2>3. ASSUME NEW n \in Nat PROVE f[n + 1] = AffineAdd(f[n], a)
    <3>1. f[n] \in C /\ f[n + 1] = step[<<n, f[n]>>]
      <4> HIDE DEF step
      <4> QED  BY <2>2 DEF Follows
    <3>2. <<n, f[n]>> \in Nat \X C /\ <<n, f[n]>>[2] = f[n]
      BY <3>1
    <3> QED  BY <3>1, <3>2
  <2> HIDE DEF step
  <2>4. ASSUME NEW i \in Nat
        PROVE  f[i] = IF i = 0 THEN o ELSE AffineAdd(f[i - 1], a)
    <3>1. CASE i = 0
      BY <3>1, <2>2 DEF Follows
    <3>2. CASE i # 0
      <4>1. i - 1 \in Nat /\ i = (i - 1) + 1
        BY <3>2
      <4> QED  BY <3>2, <4>1, <2>3
    <3> QED  BY <3>1, <3>2
  <2>5. f \in [Nat -> C]
    BY <2>2 DEF Follows
  <2>6. Solves(f)
    BY <2>4, <2>5
  <2> QED  BY <2>5, <2>6
<1>4. Solves(multiple)
  BY <1>3
<1> HIDE DEF multiple
<1>5. multiple[0] = o
  BY <1>4
<1>6. \A n \in Nat : multiple[n + 1] = AffineAdd(multiple[n], a)
  <2> SUFFICES ASSUME NEW n \in Nat
               PROVE  multiple[n + 1] = AffineAdd(multiple[n], a)
    OBVIOUS
  <2>1. n + 1 \in Nat /\ n + 1 # 0 /\ (n + 1) - 1 = n
    OBVIOUS
  <2> QED  BY <2>1, <1>4
<1> DEFINE S == {i \in Nat : multiple[i] \in C}
<1>7. \A n \in Nat : n \in S
  <2>1. 0 \in S
    BY <1>2, <1>5
  <2>2. \A n \in Nat : n \in S => n + 1 \in S
    BY <1>2, <1>6
  <2> HIDE DEF S
  <2> QED  BY <2>1, <2>2, SetInduction
<1> QED  BY <1>1, <1>5, <1>6, <1>7 DEF C, o

LEMMA LogOfMultiple ==
  ASSUME NEW a \in CurvePoints, NEW n \in Nat
  PROVE  /\ AffineMultiple(n, a) \in CurvePoints
         /\ Log[AffineMultiple(n, a)] = (Log[a] * n) % GroupOrder
<1> DEFINE l == Log[a]
           g == GroupOrder
           M(k) == AffineMultiple(k, a)
           S == {k \in Nat : Log[M(k)] = (l * k) % g}
<1>1. g \in Nat \ {0}
  BY GroupOrderIsPositive
<1>2. l \in Int /\ l % g = l
  <2>1. l \in 0 .. g - 1
    BY LogOfPoint
  <2> HIDE DEF l, g
  <2> QED  BY <1>1, <2>1
<1>3. /\ M(0) = <<0, 1>>
      /\ \A k \in Nat : M(k) \in CurvePoints /\ M(k + 1) = AffineAdd(M(k), a)
  BY MultipleRecursion
<1>4. ASSUME NEW k \in Nat
      PROVE  Log[M(k + 1)] = (Log[M(k)] + l) % g
  BY <1>3, LogOfPoint
<1> HIDE DEF l, g, M
<1>5. 0 \in S
  <2>1. (l * 0) % g = 0
    BY <1>1, <1>2
  <2> QED  BY <1>3, <2>1, LogOfPoint
<1>6. ASSUME NEW k \in Nat, k \in S PROVE k + 1 \in S
  <2> DEFINE c == l * k
  <2>1. c \in Int /\ l * (k + 1) = c + l
    BY <1>2
  <2> HIDE DEF c
  <2>2. ((c % g) + (l % g)) % g = (c + l) % g
    BY <1>1, <1>2, <2>1, SumModulo
  <2>3. Log[M(k)] = c % g
    BY <1>6 DEF c
  <2>4. Log[M(k + 1)] = (c + l) % g
    BY <1>2, <1>4, <2>2, <2>3
  <2> QED  BY <2>1, <2>4
<1>7. \A k \in Nat : k \in S
  <2> HIDE DEF S
  <2> QED  BY <1>5, <1>6, SetInduction
<1>8. Log[M(n)] = (l * n) % g
  BY <1>7
<1> QED  BY <1>3, <1>8 DEF l, g, M

(* Sums and multiples exchange.                                            *)
LEMMA MultiplesExchange ==
  ASSUME NEW a \in CurvePoints, NEW b \in CurvePoints, NEW m \in Nat, NEW n \in Nat
  PROVE  /\ AffineMultiple(m, AffineAdd(a, b))
              = AffineAdd(AffineMultiple(m, a), AffineMultiple(m, b))
         /\ AffineMultiple(m, AffineMultiple(n, a)) = AffineMultiple(m * n, a)
         /\ AffineAdd(AffineMultiple(m, a), AffineMultiple(n, a))
              = AffineMultiple(m + n, a)
<1> DEFINE k == Log[a]
           l == Log[b]
           g == GroupOrder
<1>1. g \in Nat \ {0}
  BY GroupOrderIsPositive
<1>2. k \in Int /\ l \in Int
  <2>1. k \in 0 .. g - 1 /\ l \in 0 .. g - 1
    BY LogOfPoint
  <2> HIDE DEF k, l, g
  <2> QED  BY <1>1, <2>1
<1>3. \A p, q \in CurvePoints : Log[p] = Log[q] => p = q
  BY LogOfPoint
<1>4. ASSUME NEW p \in CurvePoints, NEW q \in CurvePoints
      PROVE  /\ AffineAdd(p, q) \in CurvePoints
             /\ Log[AffineAdd(p, q)] = (Log[p] + Log[q]) % g
  BY LogOfPoint
<1>5. ASSUME NEW p \in CurvePoints, NEW i \in Nat
      PROVE  /\ AffineMultiple(i, p) \in CurvePoints
             /\ Log[AffineMultiple(i, p)] = (Log[p] * i) % g
  BY LogOfMultiple
<1>6. m + n \in Nat /\ m * n \in Nat /\ m \in Int /\ n \in Int
  OBVIOUS
<1> HIDE DEF k, l, g
<1>7. AffineMultiple(m, AffineAdd(a, b))
        = AffineAdd(AffineMultiple(m, a), AffineMultiple(m, b))
  <2> DEFINE p == AffineMultiple(m, AffineAdd(a, b))
             q == AffineAdd(AffineMultiple(m, a), AffineMultiple(m, b))
             c == k * m
             d == l * m
  <2>1. p \in CurvePoints /\ Log[p] = (((k + l) % g) * m) % g
    BY <1>4, <1>5 DEF k, l
  <2>2. q \in CurvePoints /\ Log[q] = ((c % g) + (d % g)) % g
    BY <1>4, <1>5 DEF k, l
  <2>3. c \in Int /\ d \in Int /\ (k + l) * m = c + d /\ k + l \in Int
    BY <1>2
  <2>4. (((k + l) % g) * m) % g = ((k + l) * m) % g
    BY <1>1, <1>6, <2>3, ProductModulo
  <2> HIDE DEF c, d, p, q
  <2>5. ((c % g) + (d % g)) % g = (c + d) % g
    BY <1>1, <2>3, SumModulo
  <2>6. Log[p] = Log[q]
    BY <2>1, <2>2, <2>3, <2>4, <2>5
  <2>7. p = q
    BY <1>3, <2>1, <2>2, <2>6
  <2> QED  BY <2>7 DEF p, q
<1>8. AffineMultiple(m, AffineMultiple(n, a)) = AffineMultiple(m * n, a)
  <2> DEFINE p == AffineMultiple(m, AffineMultiple(n, a))
             q == AffineMultiple(m * n, a)
             c == k * n
  <2>1. p \in CurvePoints /\ Log[p] = ((c % g) * m) % g
    BY <1>5 DEF k
  <2>2. q \in CurvePoints /\ Log[q] = (k * (m * n)) % g
    BY <1>5, <1>6 DEF k
  <2>3. c \in Int /\ c * m = k * (m * n)
    BY <1>2
  <2> HIDE DEF c, p, q
  <2>4. ((c % g) * m) % g = (c * m) % g
    BY <1>1, <1>6, <2>3, ProductModulo
  <2>5. p = q
    BY <1>3, <2>1, <2>2, <2>3, <2>4
  <2> QED  BY <2>5 DEF p, q
<1>9. AffineAdd(AffineMultiple(m, a), AffineMultiple(n, a)) = AffineMultiple(m + n, a)
  <2> DEFINE p == AffineAdd(AffineMultiple(m, a), AffineMultiple(n, a))
             q == AffineMultiple(m + n, a)
             c == k * m
             d == k * n
  <2>1. p \in CurvePoints /\ Log[p] = ((c % g) + (d % g)) % g
    BY <1>4, <1>5 DEF k
  <2>2. q \in CurvePoints /\ Log[q] = (k * (m + n)) % g
    BY <1>5, <1>6 DEF k
  <2>3. c \in Int /\ d \in Int /\ k * (m + n) = c + d
    BY <1>2
  <2> HIDE DEF c, d, p, q
  <2>4. ((c % g) + (d % g)) % g = (c + d) % g
    BY <1>1, <2>3, SumModulo
  <2>5. p = q
    BY <1>3, <2>1, <2>2, <2>3, <2>4
  <2> QED  BY <2>5 DEF p, q
<1> QED  BY <1>7, <1>8, <1>9

(* The point code computes the mathematics that the draft is stated in:    *)
(* the affine sum, the n-fold sum for every scalar of the code, ENC of     *)
(* section 3.1, and two doublings for the cofactor.                        *)
THEOREM CurveComputesTheMathematics == Scheme!MathematicsLaws(CurvePoints)
<1> DEFINE C == CurvePoints
           N == 0 .. 2 * (YSpace \div 2) - 1
<1>1. N = 0 .. YSpace - 1 /\ Scheme!Scalars = 0 .. L - 1 /\ Scheme!Encoding = Encoding
      /\ L \in Nat
  BY SchemeRanges
<1>2. \A p \in C, q \in C : CodeAdd(p, q) = AffineAdd(p, q)
  BY CodeAddIs
<1>3. \A p \in C, n \in N : CodeMul(p, n) = AffineMultiple(n, p)
  <2> SUFFICES ASSUME NEW p \in C, NEW n \in N
               PROVE  CodeMul(p, n) = AffineMultiple(n, p)
    OBVIOUS
  <2>1. n \in 0 .. YSpace - 1
    BY <1>1
  <2>2. n \in Nat
    BY <2>1
  <2> HIDE DEF N
  <2>3. CodeMul(p, n) \in C /\ Log[CodeMul(p, n)] = (Log[p] * n) % GroupOrder
    BY <2>1, CodeMulIs
  <2>4. /\ AffineMultiple(n, p) \in C
        /\ Log[AffineMultiple(n, p)] = (Log[p] * n) % GroupOrder
    BY <2>2, LogOfMultiple
  <2> QED  BY <2>3, <2>4, LogOfPoint
<1>4. /\ \A p \in C : CodeEncode(p) = Scheme!Some(WireImage(p))
                      /\ CodeDecode(WireImage(p)) = Scheme!Some(p)
      /\ \A e \in Scheme!Encoding :
           CodeDecode(e) = Scheme!None \/ \E p \in C : WireImage(p) = e
  BY <1>1, CodeCodecIs DEF Scheme!Some, Scheme!None, Some, None
<1>5. \A p \in C : CodeDouble(CodeDouble(p)) = AffineMultiple(4, p)
  <2> SUFFICES ASSUME NEW p \in C
               PROVE  CodeDouble(CodeDouble(p)) = AffineMultiple(4, p)
    OBVIOUS
  <2> DEFINE M(n) == AffineMultiple(n, p)
  <2>1. M(1) = p
    <3>1. M(0) = <<0, 1>> /\ M(0 + 1) = AffineAdd(M(0), p) /\ M(1) \in C
      BY MultipleRecursion
    <3>2. Log[M(1)] = (Log[p] * 1) % GroupOrder
      BY LogOfMultiple
    <3>3. Log[p] \in 0 .. GroupOrder - 1 /\ GroupOrder \in Nat \ {0}
      BY LogOfPoint, GroupOrderIsPositive
    <3> DEFINE l == Log[p]
               g == GroupOrder
    <3>4. l \in 0 .. g - 1 /\ g \in Nat \ {0}
      BY <3>3
    <3> HIDE DEF l, g, M
    <3>5. (l * 1) % g = l
      BY <3>4
    <3> QED  BY <3>1, <3>2, <3>5, LogOfPoint DEF l, g
  <2>2. \A m \in Nat, n \in Nat : AffineAdd(M(m), M(n)) = M(m + n)
    BY MultiplesExchange
  <2>3. \A n \in Nat : M(n) \in C
    BY MultipleRecursion
  <2> HIDE DEF M
  <2>4. CodeDouble(p) = M(1 + 1)
    BY <2>1, <2>2, CodeDoubleIs
  <2>5. CodeDouble(M(2)) = M(2 + 2)
    BY <2>2, <2>3, CodeDoubleIs
  <2> QED  BY <2>4, <2>5 DEF M
<1>6. /\ \A p \in C, q \in C :
           AffineMultiple(4, AffineAdd(p, q))
             = AffineAdd(AffineMultiple(4, p), AffineMultiple(4, q))
      /\ \A p \in C, n \in Scheme!Scalars :
           AffineMultiple(4, AffineMultiple(n, p)) = AffineMultiple(4 * n, p)
  <2>1. \A n \in Scheme!Scalars : n \in Nat
    BY <1>1
  <2>2. 4 \in Nat
    OBVIOUS
  <2> QED  BY <2>1, <2>2, MultiplesExchange
<1> HIDE DEF N
<1> QED
  BY <1>2, <1>3, <1>4, <1>5, <1>6 DEF Scheme!MathematicsLaws, N

(* Points that the crate calls equal are one affine point.                 *)
LEMMA EqualPointsAreOne ==
  ASSUME NEW p, NEW q, NEW a, NEW b, Represents(p, a), Represents(q, b), CtEq(p, q)
  PROVE  a = b
<1>1. PICK z \in Int : RepresentsWith(p, a, z)
  BY DEF Represents
<1>2. PICK v \in Int : RepresentsWith(q, b, v)
  BY DEF Represents
<1>3. ~ Same(z, 0) /\ ~ Same(v, 0) /\ a \in CurvePoints /\ b \in CurvePoints
  BY <1>1, <1>2 DEF RepresentsWith
<1>4. /\ a = <<a[1], a[2]>> /\ a[1] \in Residues /\ a[2] \in Residues
      /\ b = <<b[1], b[2]>> /\ b[1] \in Residues /\ b[2] \in Residues
      /\ a[1] \in Int /\ a[2] \in Int /\ b[1] \in Int /\ b[2] \in Int
  BY <1>3, PointsOfTheCurve
<1>5. /\ Stands(p.x, a[1] * z) /\ Stands(p.y, a[2] * z) /\ Stands(p.z, z)
      /\ Stands(q.x, b[1] * v) /\ Stands(q.y, b[2] * v) /\ Stands(q.z, v)
  BY <1>1, <1>2 DEF RepresentsWith
<1>6. ~ Same(z * v, 0) /\ z * v \in Int
  BY <1>3, NonzeroProduct
<1>7. ASSUME NEW m \in Residues, NEW n \in Residues, NEW f, NEW g,
             Stands(f, m * z), Stands(g, n * v), FeMul(f, q.z) = FeMul(g, p.z)
      PROVE  m = n
  <2> DEFINE l == (m * z) * v
             r == (n * v) * z
  <2>1. m \in Int /\ n \in Int
    BY ResiduesAreInt
  <2>2. Stands(FeMul(f, q.z), l) /\ Stands(FeMul(g, p.z), r)
    BY <1>5, <1>7, StandsFor
  <2>3. l = (z * v) * m /\ r = (z * v) * n
    BY <2>1
  <2> HIDE DEF l, r
  <2>4. Same(l, r)
    BY <1>7, <2>2, StandsFor
  <2>5. Same(m, n)
    BY <1>6, <2>1, <2>3, <2>4, Cancel
  <2> QED  BY <2>1, <2>5, SameResidues
<1>8. FeMul(p.x, q.z) = FeMul(q.x, p.z) /\ FeMul(p.y, q.z) = FeMul(q.y, p.z)
  BY DEF CtEq
<1>9. a[1] = b[1]
  BY <1>4, <1>5, <1>7, <1>8
<1>10. a[2] = b[2]
  BY <1>4, <1>5, <1>7, <1>8
<1> QED  BY <1>4, <1>9, <1>10

(* The points the code computes with: extended coordinates that pass its   *)
(* own test is_valid, with any Z.                                          *)
ValidPoints == {p \in Coordinates : IsValid(p)}

(* The coordinates do not matter: on any extended coordinates of a point   *)
(* the code stays among the valid ones and computes what CurveScheme has   *)
(* it compute with Z = 1, and ct_eq is equality of the points.             *)
THEOREM CoordinatesDoNotMatter ==
  /\ \A p \in ValidPoints, q \in ValidPoints :
       /\ PointAdd(p, q) \in ValidPoints
       /\ Affine(PointAdd(p, q)) = CodeAdd(Affine(p), Affine(q))
       /\ CtEq(p, q) <=> Affine(p) = Affine(q)
  /\ \A p \in ValidPoints :
       /\ PointDouble(p) \in ValidPoints
       /\ Affine(PointDouble(p)) = CodeDouble(Affine(p))
       /\ Encode(p) = CodeEncode(Affine(p))
  /\ \A p \in ValidPoints, n \in 0 .. YSpace - 1 :
       /\ ScalarMulWith(p, n) \in ValidPoints
       /\ Affine(ScalarMulWith(p, n)) = CodeMul(Affine(p), n)
  /\ \A e \in Encoding : Decode(e).some => Decode(e).value \in ValidPoints
<1>1. ASSUME NEW p \in ValidPoints
      PROVE  Represents(p, Affine(p)) /\ Affine(p) \in CurvePoints
  <2>1. Represents(p, Affine(p))
    BY ValidPointsRepresent DEF ValidPoints
  <2> QED  BY <2>1 DEF Represents, RepresentsWith
<1>2. ASSUME NEW p, NEW a, Represents(p, a)
      PROVE  p \in ValidPoints /\ Affine(p) = a /\ a \in CurvePoints
  <2>1. p \in Coordinates /\ a \in CurvePoints
    BY <1>2 DEF Represents, RepresentsWith
  <2> QED  BY <1>2, <2>1, RepresentativesAreValid, AffineOfRepresentative DEF ValidPoints
<1>3. ASSUME NEW p \in ValidPoints, NEW q \in ValidPoints
      PROVE  /\ PointAdd(p, q) \in ValidPoints
             /\ Affine(PointAdd(p, q)) = CodeAdd(Affine(p), Affine(q))
             /\ CtEq(p, q) <=> Affine(p) = Affine(q)
  <2>1. Represents(PointAdd(p, q), AffineAdd(Affine(p), Affine(q)))
    BY <1>1, PointAddRepresents
  <2>2. CodeAdd(Affine(p), Affine(q)) = AffineAdd(Affine(p), Affine(q))
    BY <1>1, CodeAddIs
  <2>3. Affine(p) = Affine(q) => CtEq(p, q)
    BY <1>1, CtEqIs
  <2>4. CtEq(p, q) => Affine(p) = Affine(q)
    BY <1>1, EqualPointsAreOne
  <2> QED  BY <1>2, <2>1, <2>2, <2>3, <2>4
<1>4. ASSUME NEW p \in ValidPoints
      PROVE  /\ PointDouble(p) \in ValidPoints
             /\ Affine(PointDouble(p)) = CodeDouble(Affine(p))
             /\ Encode(p) = CodeEncode(Affine(p))
  <2>1. Represents(PointDouble(p), AffineAdd(Affine(p), Affine(p)))
    BY <1>1, PointDoubleRepresents
  <2>2. CodeDouble(Affine(p)) = AffineAdd(Affine(p), Affine(p))
    BY <1>1, CodeDoubleIs
  <2>3. Encode(p) = Some(WireImage(Affine(p)))
    BY <1>1, EncodeIs
  <2>4. CodeEncode(Affine(p)) = Some(WireImage(Affine(p)))
    BY <1>1, CodeCodecIs
  <2> QED  BY <1>2, <2>1, <2>2, <2>3, <2>4
<1>5. ASSUME NEW p \in ValidPoints, NEW n \in 0 .. YSpace - 1
      PROVE  /\ ScalarMulWith(p, n) \in ValidPoints
             /\ Affine(ScalarMulWith(p, n)) = CodeMul(Affine(p), n)
  <2>1. n \in Nat /\ n % YSpace = n
    BY YSpaceIs
  <2> DEFINE m == ScalarMulWith(p, n)
  <2>2. PICK c \in CurvePoints : Represents(m, c)
    BY <1>1, <2>1, ScalarMulWithIs
  <2>3. PointLog(m) = (PointLog(p) * n) % GroupOrder
    BY <1>1, <2>1, ScalarMulWithIs
  <2>4. PointLog(p) = Log[Affine(p)] /\ PointLog(m) = Log[c]
    BY <1>1, <2>2, LogOf
  <2> HIDE DEF m
  <2>5. /\ CodeMul(Affine(p), n) \in CurvePoints
        /\ Log[CodeMul(Affine(p), n)] = (Log[Affine(p)] * n) % GroupOrder
    BY <1>1, CodeMulIs
  <2>6. c = CodeMul(Affine(p), n)
    BY <2>3, <2>4, <2>5, LogOfPoint
  <2>7. m \in ValidPoints /\ Affine(m) = c
    BY <1>2, <2>2
  <2> QED  BY <2>6, <2>7 DEF m
<1>6. ASSUME NEW e \in Encoding, Decode(e).some
      PROVE  Decode(e).value \in ValidPoints
  <2>1. PICK a \in CurvePoints : Represents(Decode(e).value, a)
    BY <1>6, DecodeIs
  <2> QED  BY <1>2, <2>1
<1> QED  BY <1>3, <1>4, <1>5, <1>6

=============================================================================
