---------------------------- MODULE ScalarProofs ----------------------------
(***************************************************************************)
(* Theorems about ScalarReduce and ScalarBytes, for every radix, word,     *)
(* order, length and schedule of their assumptions: 64-bit words and the   *)
(* L of the code, and not only the small ones of the runs.                 *)
(*                                                                         *)
(* What the proofs need of a recursive function (powers, the integer that  *)
(* bytes spell) follows from the well-foundedness of < on Nat: a set of    *)
(* naturals that contains 0 and, with n, n + 1 is all of them.             *)
(***************************************************************************)
EXTENDS ScalarReduce, ScalarBytes, WellFoundedInduction, SequenceTheorems, TLAPS

-----------------------------------------------------------------------------
(* Induction, recursion, division and powers.                              *)

(* Induction over the natural numbers, for a set.                          *)
LEMMA SetInduction ==
  ASSUME NEW S, 0 \in S, \A n \in Nat : n \in S => n + 1 \in S
  PROVE  \A n \in Nat : n \in S
<1> DEFINE Less == {pair \in Nat \X Nat : pair[1] < pair[2]}
           T == Nat \ S
<1>1. IsWellFoundedOn(Less, Nat)
  <2>1. OpToRel(<, Nat) = Less
    BY DEF OpToRel
  <2> HIDE DEF Less
  <2> QED
    BY NatLessThanWellFounded, <2>1
<1>2. SUFFICES ASSUME T # {} PROVE FALSE
  OBVIOUS
<1>3. T \subseteq Nat
  OBVIOUS
<1>4. PICK m \in T : \A n \in T : ~ (<<n, m>> \in Less)
  <2> HIDE DEF T, Less
  <2> QED
    BY <1>1, <1>2, <1>3, WFMin
<1>5. m \in Nat /\ m # 0 /\ m \notin S
  OBVIOUS
<1>6. m - 1 \in Nat /\ m = (m - 1) + 1
  BY <1>5
<1>7. m - 1 \in T
  BY <1>5, <1>6
<1>8. <<m - 1, m>> \in Less
  BY <1>5, <1>6
<1> QED
  BY <1>4, <1>7, <1>8

(* What it takes to define a function on Nat by primitive recursion, and   *)
(* the function: f[0] is first, f[n + 1] is made of n and f[n] by step.    *)
IsRecursion(V, first, step) == first \in V /\ step \in [Nat \X V -> V]

Follows(f, V, first, step) ==
  /\ f \in [Nat -> V] /\ f[0] = first
  /\ \A n \in Nat : f[n + 1] = step[<<n, f[n]>>]

LEMMA Recursion ==
  \A V, first, step :
    IsRecursion(V, first, step) => \E f : Follows(f, V, first, step)
<1> SUFFICES ASSUME NEW V, NEW first, NEW step, IsRecursion(V, first, step)
             PROVE  \E f : Follows(f, V, first, step)
  OBVIOUS
<1>0. first \in V /\ step \in [Nat \X V -> V]
  BY DEF IsRecursion
<1> DEFINE Upto(n, g) ==
             /\ g \in [0 .. n -> V] /\ g[0] = first
             /\ \A i \in 0 .. n - 1 : g[i + 1] = step[<<i, g[i]>>]
           Reached == {n \in Nat : \E g : Upto(n, g)}
<1>1. \A n \in Nat : n \in Reached
  <2>1. 0 \in Reached
    <3>1. Upto(0, [i \in 0 .. 0 |-> first])
      BY <1>0
    <3> QED  BY <3>1
  <2>2. ASSUME NEW n \in Nat, n \in Reached PROVE n + 1 \in Reached
    <3>1. PICK g : Upto(n, g)
      BY <2>2
    <3> DEFINE h == [i \in 0 .. n + 1 |->
                       IF i = n + 1 THEN step[<<n, g[n]>>] ELSE g[i]]
    <3>2. g[n] \in V
      BY <3>1
    <3>3. step[<<n, g[n]>>] \in V
      BY <1>0, <3>2
    <3>4. h \in [0 .. n + 1 -> V]
      BY <3>1, <3>3
    <3>5. h[0] = first
      BY <3>1
    <3>6. ASSUME NEW i \in 0 .. n PROVE h[i + 1] = step[<<i, h[i]>>]
      <4>1. h[i] = g[i] /\ i \in 0 .. n + 1 /\ i + 1 \in 0 .. n + 1
        OBVIOUS
      <4>2. CASE i = n
        BY <4>1, <4>2
      <4>3. CASE i # n
        <5>1. i \in 0 .. n - 1 /\ i + 1 # n + 1
          BY <4>3
        <5>2. g[i + 1] = step[<<i, g[i]>>]
          BY <5>1, <3>1
        <5> QED  BY <4>1, <5>1, <5>2
      <4> QED  BY <4>2, <4>3
    <3>7. Upto(n + 1, h)
      <4>1. \A i \in 0 .. (n + 1) - 1 : h[i + 1] = step[<<i, h[i]>>]
        <5> HIDE DEF h
        <5> QED  BY <3>6
      <4> HIDE DEF h
      <4> QED  BY <3>4, <3>5, <4>1
    <3>8. \E u : Upto(n + 1, u)
      <4> HIDE DEF h, Upto
      <4> QED  BY <3>7
    <3> HIDE DEF Upto
    <3> QED  BY <3>8
  <2> HIDE DEF Reached
  <2> QED  BY <2>1, <2>2, SetInduction
<1> DEFINE pick == [n \in Nat |-> CHOOSE g : Upto(n, g)]
           f == [n \in Nat |-> pick[n][n]]
<1>2. \A n \in Nat : Upto(n, pick[n])
  <2> SUFFICES ASSUME NEW n \in Nat PROVE Upto(n, pick[n])
    OBVIOUS
  <2>1. \E g : Upto(n, g)
    BY <1>1
  <2>2. pick[n] = CHOOSE g : Upto(n, g)
    OBVIOUS
  <2> HIDE DEF Upto, pick
  <2> QED  BY <2>1, <2>2
<1> HIDE DEF pick
<1>3. ASSUME NEW n \in Nat
      PROVE  pick[n + 1][n] = pick[n][n]
  <2> DEFINE Agree == {i \in Nat : i <= n => pick[n + 1][i] = pick[n][i]}
  <2>1. 0 \in Agree
    BY <1>2
  <2>2. ASSUME NEW i \in Nat, i \in Agree PROVE i + 1 \in Agree
    <3> SUFFICES ASSUME i + 1 <= n PROVE pick[n + 1][i + 1] = pick[n][i + 1]
      OBVIOUS
    <3>1. pick[n + 1][i] = pick[n][i]
      BY <2>2
    <3>2. Upto(n, pick[n]) /\ Upto(n + 1, pick[n + 1])
      BY <1>2
    <3>3. i \in 0 .. n - 1 /\ i \in 0 .. (n + 1) - 1
      OBVIOUS
    <3>4. pick[n][i + 1] = step[<<i, pick[n][i]>>]
      BY <3>2, <3>3
    <3>5. pick[n + 1][i + 1] = step[<<i, pick[n + 1][i]>>]
      BY <3>2, <3>3
    <3> QED  BY <3>1, <3>4, <3>5
  <2>3. \A i \in Nat : i \in Agree
    <3> HIDE DEF Agree
    <3> QED  BY <2>1, <2>2, SetInduction
  <2> QED  BY <2>3
<1>4. f \in [Nat -> V]
  BY <1>2
<1>5. f[0] = first
  BY <1>2
<1>6. ASSUME NEW n \in Nat PROVE f[n + 1] = step[<<n, f[n]>>]
  <2>1. Upto(n + 1, pick[n + 1])
    BY <1>2
  <2>2. pick[n + 1][n + 1] = step[<<n, pick[n + 1][n]>>]
    BY <2>1
  <2> QED  BY <2>2, <1>3
<1> HIDE DEF f
<1>7. Follows(f, V, first, step)
  BY <1>4, <1>5, <1>6 DEF Follows
<1> QED  BY <1>7

LEMMA DivisionOf ==
  ASSUME NEW a \in Int, NEW m \in Nat \ {0}
  PROVE  /\ a \div m \in Int /\ a % m \in 0 .. m - 1
         /\ a = m * (a \div m) + (a % m)
         /\ a \in Nat => a \div m \in Nat
OBVIOUS

LEMMA DivisionIs ==
  ASSUME NEW a \in Int, NEW m \in Nat \ {0}, NEW q \in Int, NEW r \in 0 .. m - 1,
         a = m * q + r
  PROVE  a \div m = q /\ a % m = r
OBVIOUS

(* The recursion of Power.                                                 *)
LEMMA PowerRecursion ==
  ASSUME NEW b \in Nat
  PROVE  /\ Power(b, 0) = 1
         /\ \A n \in Nat : /\ Power(b, n) \in Nat
                           /\ Power(b, n + 1) = b * Power(b, n)
<1> DEFINE Solves(f) == f = [i \in Nat |-> IF i = 0 THEN 1 ELSE b * f[i - 1]]
           power == CHOOSE f : Solves(f)
<1>1. \A n : Power(b, n) = power[n]
  BY DEF Power
<1>2. \E f : Solves(f)
  <2> DEFINE step == [p \in Nat \X Nat |-> b * p[2]]
  <2>1. IsRecursion(Nat, 1, step)
    BY DEF IsRecursion
  <2>2. PICK f : Follows(f, Nat, 1, step)
    BY <2>1, Recursion
  <2>3. \A n \in Nat : f[n + 1] = b * f[n]
    BY <2>2 DEF Follows
  <2>4. ASSUME NEW i \in Nat PROVE f[i] = IF i = 0 THEN 1 ELSE b * f[i - 1]
    <3>1. CASE i = 0
      BY <3>1, <2>2 DEF Follows
    <3>2. CASE i # 0
      <4>1. i - 1 \in Nat /\ i = (i - 1) + 1
        BY <3>2
      <4> QED  BY <3>2, <4>1, <2>3
    <3> QED  BY <3>1, <3>2
  <2>5. Solves(f)
    BY <2>2, <2>4 DEF Follows
  <2> QED  BY <2>5
<1>3. Solves(power)
  BY <1>2
<1> HIDE DEF power
<1>4. power[0] = 1 /\ \A n \in Nat : power[n + 1] = b * power[n]
  <2>1. ASSUME NEW n \in Nat PROVE power[n + 1] = b * power[n]
    <3>1. n + 1 \in Nat /\ n + 1 # 0 /\ (n + 1) - 1 = n
      OBVIOUS
    <3> QED  BY <3>1, <1>3
  <2>2. power[0] = 1
    BY <1>3
  <2> QED  BY <2>1, <2>2
<1> DEFINE S == {i \in Nat : power[i] \in Nat}
<1>5. \A n \in Nat : n \in S
  <2>1. 0 \in S
    BY <1>4
  <2>2. \A n \in Nat : n \in S => n + 1 \in S
    BY <1>4
  <2> HIDE DEF S
  <2> QED  BY <2>1, <2>2, SetInduction
<1> QED
  BY <1>1, <1>4, <1>5

LEMMA PowerIsPositive ==
  ASSUME NEW b \in Nat \ {0}, NEW n \in Nat
  PROVE  Power(b, n) \in Nat \ {0}
<1> DEFINE S == {i \in Nat : Power(b, i) \in Nat \ {0}}
<1>1. 0 \in S
  BY PowerRecursion
<1>2. ASSUME NEW i \in Nat, i \in S PROVE i + 1 \in S
  <2>1. Power(b, i + 1) = b * Power(b, i)
    BY PowerRecursion
  <2>2. \A x \in Nat \ {0} : b * x \in Nat \ {0}
    OBVIOUS
  <2> QED  BY <1>2, <2>1, <2>2
<1> HIDE DEF S
<1>3. n \in S
  BY <1>1, <1>2, SetInduction
<1> QED
  BY <1>3 DEF S

LEMMA PowerOfSum ==
  ASSUME NEW b \in Nat, NEW m \in Nat, NEW n \in Nat
  PROVE  Power(b, m + n) = Power(b, m) * Power(b, n)
<1> DEFINE S == {i \in Nat : Power(b, m + i) = Power(b, m) * Power(b, i)}
<1>1. Power(b, m) \in Nat
  BY PowerRecursion
<1>2. 0 \in S
  BY <1>1, PowerRecursion
<1>3. ASSUME NEW i \in Nat, i \in S PROVE i + 1 \in S
  <2>1. Power(b, i + 1) = b * Power(b, i) /\ Power(b, i) \in Nat
    BY PowerRecursion
  <2>2. m + i \in Nat /\ m + (i + 1) = (m + i) + 1
    OBVIOUS
  <2>3. Power(b, m + (i + 1)) = b * Power(b, m + i)
    BY <2>2, PowerRecursion
  <2>4. \A x, y \in Nat : b * (x * y) = x * (b * y)
    OBVIOUS
  <2> QED  BY <1>1, <1>3, <2>1, <2>3, <2>4
<1> HIDE DEF S
<1>4. n \in S
  BY <1>2, <1>3, SetInduction
<1> QED
  BY <1>4 DEF S

LEMMA PowerOfProduct ==
  ASSUME NEW b \in Nat, NEW m \in Nat, NEW n \in Nat
  PROVE  Power(b, m * n) = Power(Power(b, m), n)
<1> DEFINE c == Power(b, m)
           S == {i \in Nat : Power(b, m * i) = Power(c, i)}
<1>1. c \in Nat
  BY PowerRecursion
<1> HIDE DEF c
<1>2. 0 \in S
  <2>1. m * 0 = 0
    OBVIOUS
  <2> QED  BY <1>1, <2>1, PowerRecursion
<1>3. ASSUME NEW i \in Nat, i \in S PROVE i + 1 \in S
  <2>1. Power(c, i + 1) = c * Power(c, i) /\ Power(c, i) \in Nat
    BY <1>1, PowerRecursion
  <2>2. m * i \in Nat /\ m * (i + 1) = m * i + m
    OBVIOUS
  <2>3. Power(b, m * i + m) = Power(b, m * i) * c
    BY <2>2, PowerOfSum DEF c
  <2> QED  BY <1>1, <1>3, <2>1, <2>2, <2>3
<1> HIDE DEF S
<1>4. n \in S
  BY <1>2, <1>3, SetInduction
<1> QED
  BY <1>4 DEF S, c


-----------------------------------------------------------------------------
(* Strings of bytes.                                                       *)

LEMMA RadixPowers ==
  ASSUME NEW n \in Nat
  PROVE  /\ Power(Radix, n) \in Nat \ {0}
         /\ Power(Radix, 0) = 1
         /\ Power(Radix, n + 1) = Radix * Power(Radix, n)
<1>1. Radix \in Nat \ {0}
  BY BytesAssumption
<1> QED
  BY <1>1, PowerRecursion, PowerIsPositive

LEMMA StringLength ==
  ASSUME NEW n \in Nat, NEW s \in Strings(n)
  PROVE  /\ s \in Seq(Byte) /\ Len(s) = n /\ DOMAIN s = 1 .. n
         /\ \A i \in 1 .. n : s[i] \in Byte /\ s[i] \in Nat /\ s[i] < Radix
<1>1. s \in [1 .. n -> Byte] /\ Radix \in Nat
  BY BytesAssumption DEF Strings
<1>2. s \in Seq(Byte)
  BY <1>1
<1>3. Len(s) \in Nat /\ DOMAIN s = 1 .. Len(s) /\ DOMAIN s = 1 .. n
  BY <1>1, <1>2
<1>4. Len(s) = n
  <2>1. ASSUME NEW k \in Nat, NEW l \in Nat, 1 .. k = 1 .. l PROVE k = l
    <3>1. (k = 0 \/ k \in 1 .. k) /\ (l = 0 \/ l \in 1 .. l)
      OBVIOUS
    <3> QED  BY <2>1, <3>1
  <2> QED  BY <1>3, <2>1
<1>5. \A i \in 1 .. n : s[i] \in Byte
  BY <1>1
<1>6. \A b \in Byte : b \in Nat /\ b < Radix
  BY <1>1 DEF Byte
<1> QED
  BY <1>2, <1>3, <1>4, <1>5, <1>6

(* v[i] is what the first i bytes of a string spell.                       *)
Spells(v, s, n) ==
  /\ v \in [0 .. n -> Nat] /\ v[0] = 0
  /\ \A i \in 0 .. n - 1 : v[i + 1] = v[i] + Power(Radix, i) * s[i + 1]

LEMMA Spelled ==
  ASSUME NEW n \in Nat, NEW s \in Strings(n)
  PROVE  \E v : Spells(v, s, n) /\ LittleEndian(s) = v[n]
<1>1. Len(s) = n /\ \A i \in 1 .. n : s[i] \in Nat
  BY StringLength
<1> DEFINE Solves(f) ==
             f = [i \in 0 .. n |->
                    IF i = 0 THEN 0
                    ELSE f[i - 1] + Power(Radix, i - 1) * s[i]]
           value == CHOOSE f : Solves(f)
<1>2. LittleEndian(s) = value[n]
  BY <1>1 DEF LittleEndian
<1>3. \E f : Solves(f)
  <2> DEFINE step ==
        [p \in Nat \X Nat |->
           IF p[1] < n THEN p[2] + Power(Radix, p[1]) * s[p[1] + 1] ELSE p[2]]
  <2>1. IsRecursion(Nat, 0, step)
    <3>1. ASSUME NEW i \in Nat, NEW x \in Nat, i < n
          PROVE  x + Power(Radix, i) * s[i + 1] \in Nat
      <4>1. i + 1 \in 1 .. n
        BY <3>1
      <4>2. Power(Radix, i) \in Nat /\ s[i + 1] \in Nat
        BY <1>1, <4>1, RadixPowers
      <4> QED  BY <4>2
    <3>2. step \in [Nat \X Nat -> Nat]
      BY <3>1
    <3> QED  BY <3>2 DEF IsRecursion
  <2>2. PICK f : Follows(f, Nat, 0, step)
    BY <2>1, Recursion
  <2> DEFINE g == [i \in 0 .. n |-> f[i]]
  <2>3. f[0] = 0 /\ \A i \in Nat : f[i + 1] = step[<<i, f[i]>>] /\ f[i] \in Nat
    BY <2>2 DEF Follows
  <2>4. ASSUME NEW i \in 0 .. n
        PROVE  g[i] = IF i = 0 THEN 0
                      ELSE g[i - 1] + Power(Radix, i - 1) * s[i]
    <3>1. CASE i = 0
      BY <3>1, <2>3
    <3>2. CASE i # 0
      <4>1. i - 1 \in Nat /\ i = (i - 1) + 1 /\ i - 1 < n /\ i - 1 \in 0 .. n
        BY <3>2
      <4>2. f[i] = step[<<i - 1, f[i - 1]>>] /\ f[i - 1] \in Nat
        BY <4>1, <2>3
      <4>3. f[i] = f[i - 1] + Power(Radix, i - 1) * s[(i - 1) + 1]
        BY <4>1, <4>2
      <4> QED  BY <3>2, <4>1, <4>3
    <3> QED  BY <3>1, <3>2
  <2>5. Solves(g)
    <3>1. g = [i \in 0 .. n |-> g[i]]
      OBVIOUS
    <3> HIDE DEF g
    <3> QED  BY <2>4, <3>1
  <2> QED  BY <2>5
<1>4. Solves(value)
  BY <1>3
<1> HIDE DEF value
<1>5. value[0] = 0
  BY <1>4
<1>6. ASSUME NEW i \in 0 .. n - 1
      PROVE  value[i + 1] = value[i] + Power(Radix, i) * s[i + 1]
  <2>1. i + 1 \in 0 .. n /\ i + 1 # 0 /\ (i + 1) - 1 = i
    OBVIOUS
  <2> QED  BY <2>1, <1>4
<1> DEFINE S == {i \in Nat : i <= n => value[i] \in Nat}
<1>7. \A i \in Nat : i \in S
  <2>1. 0 \in S
    BY <1>5
  <2>2. ASSUME NEW i \in Nat, i \in S PROVE i + 1 \in S
    <3> SUFFICES ASSUME i + 1 <= n PROVE value[i + 1] \in Nat
      OBVIOUS
    <3>1. value[i] \in Nat /\ i \in 0 .. n - 1 /\ i + 1 \in 1 .. n
      BY <2>2
    <3>2. Power(Radix, i) \in Nat /\ s[i + 1] \in Nat
      BY <1>1, <3>1, RadixPowers
    <3>3. value[i + 1] = value[i] + Power(Radix, i) * s[i + 1]
      BY <3>1, <1>6
    <3> QED  BY <3>1, <3>2, <3>3
  <2> HIDE DEF S
  <2> QED  BY <2>1, <2>2, SetInduction
<1>8. value \in [0 .. n -> Nat]
  <2>1. \A i \in 0 .. n : value[i] \in Nat
    BY <1>7
  <2>2. value = [i \in 0 .. n |-> value[i]]
    BY <1>4
  <2> QED  BY <2>1, <2>2
<1> QED
  BY <1>2, <1>5, <1>6, <1>8 DEF Spells

(* What is spelled is below the power of its length.                       *)
LEMMA SpelledBelow ==
  ASSUME NEW n \in Nat, NEW s \in Strings(n), NEW v, Spells(v, s, n),
         NEW i \in 0 .. n
  PROVE  v[i] \in Nat /\ v[i] < Power(Radix, i)
<1> DEFINE S == {j \in Nat : j <= n => v[j] < Power(Radix, j)}
<1>1. 0 \in S
  BY RadixPowers DEF Spells
<1>2. ASSUME NEW j \in Nat, j \in S PROVE j + 1 \in S
  <2> SUFFICES ASSUME j + 1 <= n PROVE v[j + 1] < Power(Radix, j + 1)
    OBVIOUS
  <2>1. j \in 0 .. n - 1 /\ j + 1 \in 1 .. n /\ j \in 0 .. n /\ v[j] < Power(Radix, j)
    BY <1>2
  <2>2. v[j] \in Nat /\ v[j + 1] = v[j] + Power(Radix, j) * s[j + 1]
    BY <2>1 DEF Spells
  <2>3. s[j + 1] \in Nat /\ s[j + 1] < Radix /\ Radix \in Nat
    BY <2>1, StringLength, BytesAssumption
  <2>4. Power(Radix, j) \in Nat /\ Power(Radix, j + 1) = Radix * Power(Radix, j)
    BY RadixPowers
  <2>5. ASSUME NEW p \in Nat, NEW d \in Nat, NEW r \in Nat, NEW x \in Nat,
               d < r, x < p
        PROVE  x + p * d < r * p
    <3>1. d + 1 <= r
      BY <2>5
    <3>2. p * (d + 1) <= p * r
      BY <3>1
    <3>3. p * (d + 1) = p * d + p
      OBVIOUS
    <3> QED  BY <2>5, <3>2, <3>3
  <2> QED  BY <2>1, <2>2, <2>3, <2>4, <2>5
<1> HIDE DEF S
<1>3. i \in S
  BY <1>1, <1>2, SetInduction
<1> QED
  BY <1>3 DEF S, Spells

(* The bytes of t are those of s from a on: what they spell is what is     *)
(* added to the integer between a and their end.                           *)
LEMMA SliceAdds ==
  ASSUME NEW n \in Nat, NEW s \in Strings(n), NEW v, Spells(v, s, n),
         NEW m \in Nat, NEW t \in Strings(m), NEW w, Spells(w, t, m),
         NEW a \in Nat, a + m <= n, \A j \in 1 .. m : t[j] = s[a + j]
  PROVE  v[a + m] = v[a] + Power(Radix, a) * w[m]
<1> DEFINE S == {j \in Nat : j <= m =>
                   v[a + j] = v[a] + Power(Radix, a) * w[j]}
<1>0. Power(Radix, a) \in Nat /\ v[a] \in Nat
  <2>1. a \in 0 .. n
    OBVIOUS
  <2> QED  BY <2>1, RadixPowers DEF Spells
<1>1. 0 \in S
  BY <1>0 DEF Spells
<1>2. ASSUME NEW j \in Nat, j \in S PROVE j + 1 \in S
  <2> SUFFICES ASSUME j + 1 <= m
               PROVE  v[a + (j + 1)] = v[a] + Power(Radix, a) * w[j + 1]
    OBVIOUS
  <2>1. /\ j \in 0 .. m - 1 /\ j \in 0 .. m /\ j + 1 \in 1 .. m
        /\ a + j \in 0 .. n - 1 /\ a + (j + 1) = (a + j) + 1
        /\ (a + j) + 1 \in 1 .. n
    OBVIOUS
  <2>2. v[a + j] = v[a] + Power(Radix, a) * w[j]
    BY <1>2
  <2>3. v[(a + j) + 1] = v[a + j] + Power(Radix, a + j) * s[(a + j) + 1]
    BY <2>1 DEF Spells
  <2>4. w[j + 1] = w[j] + Power(Radix, j) * t[j + 1] /\ w[j] \in Nat
    BY <2>1 DEF Spells
  <2>5. t[j + 1] = s[(a + j) + 1] /\ t[j + 1] \in Nat
    BY <2>1, StringLength
  <2>6. Power(Radix, a + j) = Power(Radix, a) * Power(Radix, j)
    BY PowerOfSum, BytesAssumption
  <2>7. Power(Radix, j) \in Nat
    BY RadixPowers
  <2>8. \A p, q, x, y, d \in Nat :
          (x + p * y) + (p * q) * d = x + p * (y + q * d)
    OBVIOUS
  <2> QED  BY <1>0, <2>1, <2>2, <2>3, <2>4, <2>5, <2>6, <2>7, <2>8
<1> HIDE DEF S
<1>3. m \in S
  BY <1>1, <1>2, SetInduction
<1> QED
  BY <1>3 DEF S

(* A slice of a string is what division leaves of the integer.             *)
LEMMA SliceIsDigits ==
  ASSUME NEW n \in Nat, NEW s \in Strings(n), NEW m \in Nat, NEW t \in Strings(m),
         NEW a \in Nat, a + m <= n, \A j \in 1 .. m : t[j] = s[a + j]
  PROVE  /\ (LittleEndian(s) \div Power(Radix, a)) % Power(Radix, m)
              = LittleEndian(t)
         /\ a + m = n => LittleEndian(s) \div Power(Radix, a) = LittleEndian(t)
<1> DEFINE k == n - a
           rest == [j \in 1 .. k |-> s[a + j]]
           l == k - m
           last == [j \in 1 .. l |-> rest[m + j]]
<1>1. k \in Nat /\ rest \in Strings(k) /\ \A j \in 1 .. k : rest[j] = s[a + j]
  BY DEF Strings
<1>2. l \in Nat /\ last \in Strings(l) /\ \A j \in 1 .. l : last[j] = rest[m + j]
  BY DEF Strings
<1>3. /\ a + k = n /\ m + l = k /\ m <= k /\ 0 + m = m
      /\ \A j \in 1 .. m : t[j] = rest[0 + j]
  OBVIOUS
<1> HIDE DEF k, rest, l, last
<1>4. PICK v : Spells(v, s, n) /\ LittleEndian(s) = v[n]
  BY Spelled
<1>5. PICK x : Spells(x, rest, k) /\ LittleEndian(rest) = x[k]
  BY <1>1, Spelled
<1>6. PICK y : Spells(y, last, l) /\ LittleEndian(last) = y[l]
  BY <1>2, Spelled
<1>7. PICK w : Spells(w, t, m) /\ LittleEndian(t) = w[m]
  BY Spelled
<1>8. v[a + k] = v[a] + Power(Radix, a) * x[k]
  BY <1>1, <1>3, <1>4, <1>5, SliceAdds
<1>9. x[m + l] = x[m] + Power(Radix, m) * y[l]
  BY <1>1, <1>2, <1>3, <1>5, <1>6, SliceAdds
<1>10. x[m] = w[m]
  <2>1. x[0 + m] = x[0] + Power(Radix, 0) * w[m]
    BY <1>1, <1>3, <1>5, <1>7, SliceAdds
  <2>2. x[0] = 0 /\ Power(Radix, 0) = 1 /\ w[m] \in Nat
    BY <1>5, <1>7, RadixPowers DEF Spells
  <2> QED  BY <2>1, <2>2, <1>3
<1>11. /\ v[a] \in Nat /\ v[a] < Power(Radix, a)
       /\ w[m] \in Nat /\ w[m] < Power(Radix, m)
       /\ x[k] \in Nat /\ y[l] \in Nat
  <2>1. a \in 0 .. n /\ m \in 0 .. m /\ k \in 0 .. k /\ l \in 0 .. l
    BY <1>1, <1>2, <1>3
  <2> QED  BY <2>1, <1>1, <1>2, <1>4, <1>5, <1>6, <1>7, SpelledBelow
<1>12. Power(Radix, a) \in Nat \ {0} /\ Power(Radix, m) \in Nat \ {0}
  BY RadixPowers
<1>13. LittleEndian(s) \div Power(Radix, a) = x[k]
  <2>1. v[n] = Power(Radix, a) * x[k] + v[a]
    BY <1>3, <1>8, <1>11, <1>12
  <2> DEFINE p == Power(Radix, a)
             q == x[k]
             r == v[a]
             d == v[n]
  <2>2. p \in Nat \ {0} /\ q \in Int /\ r \in 0 .. p - 1 /\ d = p * q + r
    BY <2>1, <1>11, <1>12
  <2>3. d = LittleEndian(s)
    BY <1>4
  <2> HIDE DEF p, q, r, d
  <2>4. d \div p = q
    BY <2>2, DivisionIs
  <2> QED  BY <2>3, <2>4 DEF p, q
<1>14. x[k] % Power(Radix, m) = w[m]
  <2>1. x[k] = Power(Radix, m) * y[l] + w[m]
    BY <1>3, <1>9, <1>10, <1>11, <1>12
  <2> QED  BY <2>1, <1>11, <1>12, DivisionIs
<1>15. a + m = n => x[k] = w[m]
  <2>1. a + m = n => m = k
    BY <1>1, <1>3
  <2> QED  BY <2>1, <1>10
<1> QED
  BY <1>7, <1>13, <1>14, <1>15

-----------------------------------------------------------------------------
(* Integers modulo L.                                                      *)

Same(a, b) == a % L = b % L

LEMMA LIsPositive == L \in Nat \ {0}
<1>1. L \in Nat /\ L % 2 = 1
  BY BytesAssumption
<1> QED  BY <1>1

LEMMA SameBy ==
  ASSUME NEW a \in Int, NEW b \in Int
  PROVE  Same(a, b) <=> \E k \in Int : a = b + L * k
<1>1. L \in Nat \ {0}
  BY LIsPositive
<1>2. ASSUME Same(a, b) PROVE \E k \in Int : a = b + L * k
  <2> DEFINE k == (a \div L) - (b \div L)
  <2>1. /\ a = L * (a \div L) + (a % L) /\ b = L * (b \div L) + (b % L)
        /\ a \div L \in Int /\ b \div L \in Int /\ b % L \in Int
    BY <1>1, DivisionOf
  <2>2. a % L = b % L
    BY <1>2 DEF Same
  <2>3. \A q, p, r \in Int : L * q + r = (L * p + r) + L * (q - p)
    BY <1>1
  <2> QED  BY <2>1, <2>2, <2>3
<1>3. ASSUME NEW k \in Int, a = b + L * k PROVE Same(a, b)
  <2> DEFINE q == b \div L
             r == b % L
             p == q + k
  <2>1. b = L * q + r /\ q \in Int /\ r \in 0 .. L - 1
    BY <1>1, DivisionOf
  <2>2. r % L = r /\ p \in Int
    BY <1>1, <2>1
  <2> HIDE DEF q, r
  <2>3. a = L * p + r
    BY <1>1, <1>3, <2>1
  <2> HIDE DEF p
  <2>4. a % L = r
    BY <1>1, <2>1, <2>2, <2>3, DivisionIs
  <2> QED  BY <2>4 DEF Same, r
<1> QED  BY <1>2, <1>3

LEMMA SameArithmetic ==
  ASSUME NEW a \in Int, NEW b \in Int, NEW c \in Int, NEW d \in Int,
         Same(a, b), Same(c, d)
  PROVE  Same(a + c, b + d) /\ Same(a * c, b * d)
<1>1. L \in Int
  BY LIsPositive
<1>2. PICK k \in Int : a = b + L * k
  BY SameBy
<1>3. PICK l \in Int : c = d + L * l
  BY SameBy
<1>4. a + c = (b + d) + L * (k + l)
  BY <1>1, <1>2, <1>3
<1> DEFINE m == b * l + k * d + L * (k * l)
<1>5. m \in Int /\ a * c = b * d + L * m
  <2>1. (b + L * k) * (d + L * l) = b * d + L * m
    BY <1>1
  <2> QED  BY <1>1, <1>2, <1>3, <2>1
<1> HIDE DEF m
<1>6. Same(a + c, b + d)
  BY <1>4, SameBy
<1>7. Same(a * c, b * d)
  BY <1>5, SameBy
<1> QED  BY <1>6, <1>7

LEMMA SameTimes ==
  ASSUME NEW a \in Int, NEW b \in Int, NEW c \in Int, Same(a, b)
  PROVE  Same(a * c, b * c)
<1>1. Same(c, c)
  BY DEF Same
<1> QED  BY <1>1, SameArithmetic

LEMMA SameRemainder ==
  ASSUME NEW a \in Int
  PROVE  a % L \in Scalars /\ a % L \in Nat /\ Same(a % L, a)
<1>1. L \in Nat \ {0}
  BY LIsPositive
<1> DEFINE r == a % L
<1>2. r \in 0 .. L - 1
  BY <1>1, DivisionOf
<1> HIDE DEF r
<1>3. r % L = r
  BY <1>1, <1>2
<1> QED  BY <1>1, <1>2, <1>3 DEF r, Same, Scalars

LEMMA SameScalars ==
  ASSUME NEW a \in Scalars, NEW b \in Int, Same(a, b)
  PROVE  a = b % L
<1>1. L \in Nat \ {0}
  BY LIsPositive
<1>2. a % L = a
  BY <1>1 DEF Scalars
<1> QED  BY <1>2 DEF Same

-----------------------------------------------------------------------------
(* Montgomery forms.                                                       *)

(* Every power of a byte's radix has an inverse modulo L.                  *)
LEMMA PowersInvert ==
  ASSUME NEW n \in Nat
  PROVE  \E r \in Scalars : (r * Power(Radix, n)) % L = 1
<1> DEFINE S == {i \in Nat : \E r \in Scalars : Same(r * Power(Radix, i), 1)}
<1>0. L \in Nat \ {0} /\ 1 % L = 1 /\ Radix \in Nat
  <2>1. PICK u \in Scalars : (u * Radix) % L = 1
    BY ScheduleAssumption
  <2>2. L \in Nat \ {0} /\ Radix \in Nat
    BY LIsPositive, BytesAssumption
  <2>3. u * Radix \in Int
    BY <2>2 DEF Scalars
  <2>4. (u * Radix) % L \in 0 .. L - 1
    BY <2>2, <2>3, DivisionOf
  <2>5. 1 \in 0 .. L - 1
    BY <2>1, <2>4
  <2> QED  BY <2>2, <2>5
<1>1. 0 \in S
  <2>1. 1 \in Scalars /\ Power(Radix, 0) = 1
    BY <1>0, RadixPowers DEF Scalars
  <2>2. Same(1 * 1, 1)
    BY <1>0 DEF Same
  <2> QED  BY <2>1, <2>2
<1>2. ASSUME NEW i \in Nat, i \in S PROVE i + 1 \in S
  <2>1. PICK r \in Scalars : Same(r * Power(Radix, i), 1)
    BY <1>2
  <2>2. PICK u \in Scalars : (u * Radix) % L = 1
    BY ScheduleAssumption
  <2> DEFINE p == Power(Radix, i)
             t == (u * r) % L
  <2>3. p \in Nat /\ r \in Nat /\ u \in Nat /\ Power(Radix, i + 1) = Radix * p
    BY <1>0, RadixPowers DEF Scalars
  <2>4. Same(u * Radix, 1)
    BY <1>0, <2>2 DEF Same
  <2> HIDE DEF p
  <2>5. Same((u * Radix) * (r * p), 1 * 1)
    BY <1>0, <2>1, <2>3, <2>4, SameArithmetic DEF p
  <2>6. (u * Radix) * (r * p) = (u * r) * (Radix * p)
    BY <1>0, <2>3
  <2>7. t \in Scalars /\ t \in Nat /\ Same(t, u * r)
    BY <2>3, SameRemainder
  <2> HIDE DEF t
  <2>8. Same(Radix * p, Radix * p)
    BY DEF Same
  <2>9. Same(t * (Radix * p), (u * r) * (Radix * p))
    BY <1>0, <2>3, <2>7, <2>8, SameArithmetic
  <2>10. Same(t * Power(Radix, i + 1), 1)
    BY <2>3, <2>5, <2>6, <2>9 DEF Same
  <2> QED  BY <2>7, <2>10
<1> HIDE DEF S
<1>3. n \in S
  BY <1>1, <1>2, SetInduction
<1> QED
  BY <1>0, <1>3 DEF S, Same

LEMMA RadixHasInverse ==
  /\ ScalarRadix \in Nat /\ ScalarRadixInverse \in Scalars
  /\ ScalarRadixInverse \in Nat
  /\ Same(ScalarRadixInverse * ScalarRadix, 1)
<1>1. WordBytes \in Nat /\ ScalarWords \in Nat /\ Radix \in Nat
  BY BytesAssumption, ScheduleAssumption
<1>2. ScalarRadix = Power(Radix, WordBytes * ScalarWords)
  BY <1>1, PowerOfProduct DEF ScalarRadix, WordSpace
<1>3. WordBytes * ScalarWords \in Nat
  BY <1>1
<1>4. ScalarRadix \in Nat
  BY <1>2, <1>3, RadixPowers
<1>5. \E r \in Scalars : (r * ScalarRadix) % L = 1
  BY <1>2, <1>3, PowersInvert
<1>6. ScalarRadixInverse \in Scalars /\ (ScalarRadixInverse * ScalarRadix) % L = 1
  BY <1>5 DEF ScalarRadixInverse
<1>7. L \in Nat \ {0} /\ ScalarRadixInverse * ScalarRadix \in Int
  BY <1>4, <1>6, LIsPositive DEF Scalars
<1> DEFINE x == ScalarRadixInverse * ScalarRadix
<1>8. x % L \in 0 .. L - 1 /\ x % L = 1
  BY <1>6, <1>7, DivisionOf
<1>9. 1 % L = 1
  BY <1>7, <1>8
<1> QED
  BY <1>4, <1>6, <1>9 DEF Same, Scalars

LEMMA Forms ==
  ASSUME NEW x \in Nat, NEW y \in Nat
  PROVE  /\ Form!New(x) \in Scalars /\ Form!Mul(x, y) \in Scalars
         /\ Form!Plus(x, y) \in Scalars /\ Form!Retrieve(x) \in Scalars
         /\ Same(Form!New(x), x * ScalarRadix)
         /\ Same(Form!Mul(x, y), (x * y) * ScalarRadixInverse)
         /\ Same(Form!Plus(x, y), x + y)
         /\ Same(Form!Retrieve(x), x * ScalarRadixInverse)
<1>1. ScalarRadix \in Nat /\ ScalarRadixInverse \in Nat
  BY RadixHasInverse
<1> DEFINE z == (x * y) % L
<1>2. z \in Nat /\ Same(z, x * y)
  BY SameRemainder
<1>3. Same(z * ScalarRadixInverse, (x * y) * ScalarRadixInverse)
  <2>1. Same(ScalarRadixInverse, ScalarRadixInverse)
    BY DEF Same
  <2> HIDE DEF z
  <2> QED  BY <1>1, <1>2, <2>1, SameArithmetic
<1>4. Form!Mul(x, y) = (z * ScalarRadixInverse) % L
  BY DEF Form!Mul
<1> HIDE DEF z
<1>5. Form!Mul(x, y) \in Scalars /\ Same(Form!Mul(x, y), z * ScalarRadixInverse)
  BY <1>1, <1>2, <1>4, SameRemainder
<1>6. Same(Form!Mul(x, y), (x * y) * ScalarRadixInverse)
  BY <1>3, <1>5 DEF Same
<1>7. /\ Form!New(x) \in Scalars /\ Same(Form!New(x), x * ScalarRadix)
      /\ Form!Plus(x, y) \in Scalars /\ Same(Form!Plus(x, y), x + y)
      /\ Form!Retrieve(x) \in Scalars
      /\ Same(Form!Retrieve(x), x * ScalarRadixInverse)
  BY <1>1, SameRemainder DEF Form!New, Form!Plus, Form!Retrieve
<1> QED
  BY <1>5, <1>6, <1>7

LEMMA ScalarsAreNat == Scalars \subseteq Nat
  BY LIsPositive DEF Scalars

(* One fold: the form of the accumulator times a word's radix and a word   *)
(* added.                                                                  *)
LEMMA FoldIsHorner ==
  ASSUME NEW x \in Scalars, NEW w \in Nat, NEW d \in Nat
  PROVE  LET y == Form!Plus(Form!Mul(x, Form!New(w)), Form!New(d))
         IN  /\ y \in Scalars
             /\ Form!Retrieve(y) = (Form!Retrieve(x) * w + d) % L
<1> DEFINE R == ScalarRadix
           I == ScalarRadixInverse
           f == Form!New(w)
           g == Form!New(d)
           p == Form!Mul(x, f)
           y == Form!Plus(p, g)
           e == Form!Retrieve(x)
<1>1. R \in Nat /\ I \in Nat /\ Same(I * R, 1) /\ x \in Nat
  BY RadixHasInverse, ScalarsAreNat
<1>2. f \in Nat /\ g \in Nat /\ Same(f, w * R) /\ Same(g, d * R)
  BY Forms, ScalarsAreNat
<1>3. p \in Nat /\ Same(p, (x * f) * I)
  BY <1>1, <1>2, Forms, ScalarsAreNat
<1>4. y \in Scalars /\ y \in Nat /\ Same(y, p + g)
  BY <1>2, <1>3, Forms, ScalarsAreNat
<1>5. e \in Nat /\ Same(e, x * I)
  BY <1>1, Forms, ScalarsAreNat
<1>6. Form!Retrieve(y) \in Scalars /\ Same(Form!Retrieve(y), y * I)
  BY <1>4, Forms
<1> HIDE DEF R, I, f, g, p, y, e
<1>7. \A a \in Int : Same(a, a)
  BY DEF Same
<1>8. Same((x * f) * I, (x * (w * R)) * I)
  <2> DEFINE a == x * f
             b == x * (w * R)
  <2>1. a \in Int /\ b \in Int /\ I \in Int
    BY <1>1, <1>2
  <2>2. Same(a, b)
    <3> DEFINE c == w * R
    <3>1. c \in Int /\ Same(f, c) /\ f \in Int /\ x \in Int /\ Same(x, x)
      BY <1>1, <1>2, <1>7
    <3> HIDE DEF c
    <3>2. Same(x * f, x * c)
      BY <3>1, SameArithmetic
    <3> QED  BY <3>2 DEF c
  <2> HIDE DEF a, b
  <2>3. Same(a * I, b * I)
    BY <2>1, <2>2, SameTimes
  <2> QED  BY <2>3 DEF a, b
<1>9. (x * (w * R)) * I = ((x * I) * w) * R
  BY <1>1
<1>10. Same(((x * I) * w) * R, (e * w) * R)
  <2> DEFINE a == x * I
  <2>1. a \in Int /\ e \in Int /\ w \in Int /\ R \in Int /\ Same(a, e)
    BY <1>1, <1>5 DEF Same
  <2> HIDE DEF a
  <2>2. Same(a * w, e * w)
    BY <2>1, SameTimes
  <2> DEFINE b == a * w
             c == e * w
  <2>3. b \in Int /\ c \in Int /\ Same(b, c)
    BY <2>1, <2>2
  <2> HIDE DEF b, c
  <2>4. Same(b * R, c * R)
    BY <2>1, <2>3, SameTimes
  <2> QED  BY <2>4 DEF a, b, c
<1>11. Same(p, (e * w) * R)
  BY <1>3, <1>8, <1>9, <1>10 DEF Same
<1>12. Same(p + g, (e * w) * R + d * R)
  BY <1>1, <1>2, <1>3, <1>5, <1>11, SameArithmetic
<1>13. Same(y, (e * w + d) * R)
  <2>1. (e * w) * R + d * R = (e * w + d) * R
    BY <1>1, <1>5
  <2> QED  BY <2>1, <1>4, <1>12 DEF Same
<1>14. Same(y * I, ((e * w + d) * R) * I)
  <2> DEFINE a == (e * w + d) * R
  <2>1. a \in Int /\ y \in Int /\ I \in Int /\ Same(y, a)
    BY <1>1, <1>4, <1>5, <1>13
  <2> HIDE DEF a
  <2>2. Same(y * I, a * I)
    BY <2>1, SameTimes
  <2> QED  BY <2>2 DEF a
<1>15. ((e * w + d) * R) * I = (e * w + d) * (I * R)
  BY <1>1, <1>5
<1>16. Same((e * w + d) * (I * R), (e * w + d) * 1)
  BY <1>1, <1>5, <1>7, SameArithmetic
<1>17. Same(Form!Retrieve(y), e * w + d)
  <2>1. (e * w + d) * 1 = e * w + d
    BY <1>5
  <2> QED  BY <2>1, <1>6, <1>14, <1>15, <1>16 DEF Same
<1>18. Form!Retrieve(y) = (e * w + d) % L
  BY <1>5, <1>6, <1>17, SameScalars
<1> QED
  BY <1>4, <1>18 DEF y, p, f, g, e

(* The product of scalars.                                                 *)
LEMMA MulIsProduct ==
  ASSUME NEW x \in Scalars, NEW y \in Scalars
  PROVE  MulScalars(x, y) \in Scalars /\ MulScalars(x, y) = (x * y) % L
<1> DEFINE R == ScalarRadix
           I == ScalarRadixInverse
           f == Form!New(x)
           g == Form!New(y)
           p == Form!Mul(f, g)
           z == Form!Retrieve(p)
<1>1. /\ R \in Nat /\ I \in Nat /\ Same(I * R, 1)
      /\ x \in Nat /\ y \in Nat
  BY RadixHasInverse, ScalarsAreNat
<1>2. f \in Nat /\ g \in Nat /\ Same(f, x * R) /\ Same(g, y * R)
  BY <1>1, Forms, ScalarsAreNat
<1>3. p \in Nat /\ Same(p, (f * g) * I)
  BY <1>2, Forms, ScalarsAreNat
<1>4. z \in Scalars /\ Same(z, p * I)
  BY <1>3, Forms
<1> HIDE DEF R, I, f, g, p, z
<1>5. \A a \in Int : Same(a, a)
  BY DEF Same
<1>6. Same(f * g, (x * R) * (y * R))
  BY <1>1, <1>2, SameArithmetic
<1>7. Same((f * g) * I, ((x * R) * (y * R)) * I)
  <2> DEFINE a == f * g
             b == (x * R) * (y * R)
  <2>1. a \in Int /\ b \in Int /\ I \in Int /\ Same(a, b)
    BY <1>1, <1>2, <1>6
  <2> HIDE DEF a, b
  <2>2. Same(a * I, b * I)
    BY <2>1, SameTimes
  <2> QED  BY <2>2 DEF a, b
<1>8. Same(p, ((x * R) * (y * R)) * I)
  BY <1>3, <1>7 DEF Same
<1>9. Same(p * I, (((x * R) * (y * R)) * I) * I)
  BY <1>1, <1>3, <1>5, <1>8, SameArithmetic
<1>10. (((x * R) * (y * R)) * I) * I = (x * y) * ((I * R) * (I * R))
  BY <1>1
<1>11. Same((I * R) * (I * R), 1 * 1)
  BY <1>1, SameArithmetic
<1>12. Same((x * y) * ((I * R) * (I * R)), (x * y) * (1 * 1))
  BY <1>1, <1>5, <1>11, SameArithmetic
<1>13. Same(z, x * y)
  <2>1. (x * y) * (1 * 1) = x * y
    BY <1>1
  <2> QED  BY <2>1, <1>4, <1>9, <1>10, <1>12 DEF Same
<1>14. z = (x * y) % L
  BY <1>1, <1>4, <1>13, SameScalars
<1> QED
  BY <1>4, <1>14 DEF MulScalars, z, p, f, g

LEMMA AddIsSum ==
  ASSUME NEW x \in Scalars, NEW y \in Scalars
  PROVE  AddMod(x, y) \in Scalars /\ AddMod(x, y) = (x + y) % L
<1>1. L \in Nat \ {0}
  BY LIsPositive
<1> QED
  BY <1>1 DEF AddMod, Scalars

-----------------------------------------------------------------------------
(* The words of a string.                                                  *)

LEMMA WordSpaceFacts ==
  /\ WordBytes \in Nat \ {0} /\ WordSpace \in Nat \ {0}
  /\ WordSpace = Power(Radix, WordBytes)
  /\ \A i \in Nat : /\ Power(WordSpace, i) \in Nat \ {0}
                    /\ Power(WordSpace, i) = Power(Radix, WordBytes * i)
                    /\ Power(WordSpace, i + 1) = WordSpace * Power(WordSpace, i)
<1>1. WordBytes \in Nat \ {0} /\ WordBytes \in Nat /\ Radix \in Nat
  BY BytesAssumption
<1>2. WordSpace \in Nat \ {0} /\ WordSpace \in Nat
  BY <1>1, RadixPowers DEF WordSpace
<1>3. \A i \in Nat : Power(WordSpace, i) = Power(Radix, WordBytes * i)
  BY <1>1, PowerOfProduct DEF WordSpace
<1>4. \A i \in Nat : Power(WordSpace, i) \in Nat \ {0}
  BY <1>2, PowerIsPositive
<1>5. \A i \in Nat : Power(WordSpace, i + 1) = WordSpace * Power(WordSpace, i)
  BY <1>2, PowerRecursion
<1> QED
  BY <1>1, <1>2, <1>3, <1>4, <1>5 DEF WordSpace

(* Dividing twice is dividing by the product.                              *)
LEMMA DivisionTwice ==
  ASSUME NEW a \in Nat, NEW p \in Nat \ {0}, NEW w \in Nat \ {0}
  PROVE  /\ w * p \in Nat \ {0} /\ a \div p \in Nat /\ a \div (w * p) \in Nat
         /\ a \div p = w * (a \div (w * p)) + ((a \div p) % w)
         /\ (a \div p) % w \in 0 .. w - 1
<1> DEFINE q == a \div p
           r == a % p
<1>1. a = p * q + r /\ q \in Nat /\ r \in 0 .. p - 1
  <2>1. a \in Int /\ p \in Nat
    OBVIOUS
  <2> QED  BY <2>1, DivisionOf
<1> HIDE DEF q, r
<1> DEFINE u == q \div w
           v == q % w
<1>2. q = w * u + v /\ u \in Nat /\ v \in 0 .. w - 1
  <2>1. q \in Int /\ q \in Nat
    BY <1>1
  <2> QED  BY <2>1, DivisionOf
<1> HIDE DEF u, v
<1> DEFINE m == w * p
           e == p * v + r
<1>3. a = (w * p) * u + (p * v + r)
  BY <1>1, <1>2
<1>4. p * v + r \in 0 .. (w * p) - 1
  <2>1. p * v <= p * (w - 1)
    BY <1>2
  <2>2. p * (w - 1) = w * p - p
    OBVIOUS
  <2>3. p * v \in Nat
    BY <1>2
  <2> QED  BY <1>1, <2>1, <2>2, <2>3
<1>5. m \in Nat \ {0} /\ m \in Nat /\ u \in Int
  BY <1>2
<1>6. e \in 0 .. m - 1 /\ a = m * u + e
  BY <1>3, <1>4
<1> HIDE DEF m, e
<1>7. a \div m = u
  BY <1>5, <1>6, DivisionIs
<1> QED
  BY <1>1, <1>2, <1>5, <1>7 DEF m, u, v, q

Integer == LittleEndian(bytes)

Digit(i) == (Integer \div Power(WordSpace, i - 1)) % WordSpace

LEMMA IntegerIsNat ==
  ASSUME NEW n \in Nat, bytes \in Strings(n)
  PROVE  Integer \in Nat /\ Integer < Power(Radix, n)
<1>1. PICK v : Spells(v, bytes, n) /\ LittleEndian(bytes) = v[n]
  BY Spelled
<1>2. n \in 0 .. n
  OBVIOUS
<1> QED  BY <1>1, <1>2, SpelledBelow DEF Integer

LEMMA StringIsNat ==
  ASSUME NEW n \in Nat, NEW s \in Strings(n)
  PROVE  LittleEndian(s) \in Nat /\ LittleEndian(s) < Power(Radix, n)
<1>1. PICK v : Spells(v, s, n) /\ LittleEndian(s) = v[n]
  BY Spelled
<1>2. n \in 0 .. n
  OBVIOUS
<1> QED  BY <1>1, <1>2, SpelledBelow

LEMMA ZerosSpellNothing ==
  ASSUME NEW n \in Nat, NEW v, Spells(v, Zeros(n), n)
  PROVE  Zeros(n) \in Strings(n) /\ v[n] = 0
<1> DEFINE S == {i \in Nat : i <= n => v[i] = 0}
<1>1. 0 \in S
  BY DEF Spells
<1>2. ASSUME NEW i \in Nat, i \in S PROVE i + 1 \in S
  <2> SUFFICES ASSUME i + 1 <= n PROVE v[i + 1] = 0
    OBVIOUS
  <2>1. i \in 0 .. n - 1 /\ i + 1 \in 1 .. n /\ v[i] = 0
    BY <1>2
  <2>2. v[i + 1] = v[i] + Power(Radix, i) * Zeros(n)[i + 1]
    BY <2>1 DEF Spells
  <2>3. Zeros(n)[i + 1] = 0 /\ Power(Radix, i) \in Nat
    BY <2>1, RadixPowers DEF Zeros
  <2> QED  BY <2>1, <2>2, <2>3
<1> HIDE DEF S
<1>3. n \in S
  BY <1>1, <1>2, SetInduction
<1>4. 0 \in Byte
  BY BytesAssumption DEF Byte
<1> QED
  BY <1>3, <1>4 DEF S, Zeros, Strings

(* Zeros after a string do not change what it spells.                      *)
LEMMA ZerosAfter ==
  ASSUME NEW n \in Nat, NEW s \in Strings(n), NEW m \in Nat
  PROVE  /\ s \o Zeros(m) \in Strings(n + m)
         /\ LittleEndian(s \o Zeros(m)) = LittleEndian(s)
<1> DEFINE z == Zeros(m)
           t == s \o z
           k == n + m
<1>1. z \in Strings(m)
  <2>1. 0 \in Byte
    BY BytesAssumption DEF Byte
  <2> QED  BY <2>1 DEF Zeros, Strings
<1> HIDE DEF z
<1>2. /\ s \in Seq(Byte) /\ Len(s) = n /\ z \in Seq(Byte) /\ Len(z) = m
      /\ k \in Nat
  BY <1>1, StringLength
<1>3. t \in Seq(Byte) /\ Len(t) = k
  BY <1>2
<1>4. \A j \in 1 .. n : t[j] = s[0 + j]
  BY <1>2
<1>5. \A j \in 1 .. m : t[n + j] = z[j]
  BY <1>2
<1> HIDE DEF t
<1>6. t \in Strings(k)
  <2>1. t \in [1 .. Len(t) -> Byte]
    BY <1>3
  <2> QED  BY <1>3, <2>1 DEF Strings
<1> HIDE DEF k
<1>7. n + m = k /\ n <= k /\ 0 + n = n /\ n + m <= k /\ 0 + n <= k /\ k \in Nat
  BY DEF k
<1>8. PICK v : Spells(v, t, k) /\ LittleEndian(t) = v[k]
  BY <1>6, <1>7, Spelled
<1>9. PICK w : Spells(w, s, n) /\ LittleEndian(s) = w[n]
  BY Spelled
<1>10. PICK x : Spells(x, z, m) /\ LittleEndian(z) = x[m]
  BY <1>1, Spelled
<1>11. v[0 + n] = v[0] + Power(Radix, 0) * w[n]
  <2>1. \A j \in 1 .. n : s[j] = t[0 + j]
    BY <1>4
  <2> QED  BY <2>1, <1>6, <1>7, <1>8, <1>9, SliceAdds
<1>12. v[n + m] = v[n] + Power(Radix, n) * x[m]
  <2>1. \A j \in 1 .. m : z[j] = t[n + j]
    BY <1>5
  <2> QED  BY <2>1, <1>1, <1>6, <1>7, <1>8, <1>10, SliceAdds
<1>13. x[m] = 0
  BY <1>10, ZerosSpellNothing DEF z
<1>14. /\ v[0] = 0 /\ Power(Radix, 0) = 1 /\ w[n] \in Nat
       /\ Power(Radix, n) \in Nat
  BY <1>8, <1>9, RadixPowers DEF Spells
<1>15. v[k] = w[n]
  BY <1>7, <1>11, <1>12, <1>13, <1>14
<1> QED
  BY <1>6, <1>8, <1>9, <1>15 DEF t, z, k

-----------------------------------------------------------------------------
(* The reduction.                                                          *)

Response(o, q) == (Integer * o + q) % L

RInv ==
  /\ schedule \in Schedules
  /\ bytes \in Strings(FullWords * WordBytes + HighBytes)
  /\ stage \in {"load", "fold", "multiply", "add", "done"}
  /\ words \in [1 .. FullWords + 1 -> 0 .. WordSpace - 1]
  /\ index \in 0 .. FullWords + 1
  /\ accumulator \in Scalars
  /\ stage = "load" =>
       /\ index \in 0 .. FullWords
       /\ \A i \in 1 .. index : words[i] = Digit(i)
       /\ accumulator = 0
  /\ stage = "fold" =>
       /\ \A i \in 1 .. FullWords + 1 : words[i] = Digit(i)
       /\ Form!Retrieve(accumulator) = (Integer \div Power(WordSpace, index)) % L
  /\ stage \in {"load", "fold"} => scalar = -1 /\ operands = <<>>
  /\ stage = "multiply" => scalar = Integer % L /\ operands = <<>>
  /\ stage = "add" =>
       \E o \in Operands : operands = <<o>> /\ scalar = (Integer * o) % L
  /\ stage = "done" =>
       \E o, q \in Operands : operands = <<o, q>> /\ scalar = Response(o, q)

LEMMA Sizes ==
  ASSUME schedule \in Schedules
  PROVE  /\ FullWords \in Nat /\ HighBytes \in 1 .. WordBytes
         /\ FullWords * WordBytes \in Nat
         /\ FullWords * WordBytes + HighBytes \in Nat
<1>1. WordBytes \in Nat \ {0}
  BY BytesAssumption
<1>2. schedule \in Nat \X (1 .. WordBytes)
  BY ScheduleAssumption
<1>3. FullWords \in Nat /\ HighBytes \in 1 .. WordBytes
  BY <1>2 DEF FullWords, HighBytes
<1> QED  BY <1>1, <1>3

LEMMA OperandsAreScalars == Operands \subseteq Scalars /\ Scalars \subseteq Nat
  BY ScheduleAssumption, ScalarsAreNat

LEMMA ReduceInit == Init => RInv
<1> SUFFICES ASSUME Init PROVE RInv
  OBVIOUS
<1>1. FullWords \in Nat
  BY Sizes DEF Init
<1>2. 0 \in 0 .. WordSpace - 1
  BY WordSpaceFacts
<1>3. words \in [1 .. FullWords + 1 -> 0 .. WordSpace - 1]
  BY <1>2 DEF Init, Zeros
<1>4. 0 \in Scalars
  BY LIsPositive DEF Scalars
<1> QED
  BY <1>1, <1>3, <1>4 DEF Init, RInv

(* A full word is the digit of its place.                                  *)
LEMMA LoadedWord ==
  ASSUME RInv, NEW i \in Nat, i < FullWords
  PROVE  LittleEndian(SubSeq(bytes, i * WordBytes + 1, i * WordBytes + WordBytes))
           = Digit(i + 1)
<1> DEFINE n == FullWords * WordBytes + HighBytes
           a == i * WordBytes
           t == SubSeq(bytes, a + 1, a + WordBytes)
<1>1. /\ FullWords \in Nat /\ HighBytes \in Nat /\ n \in Nat
      /\ WordBytes \in Nat \ {0} /\ bytes \in Strings(n)
  BY Sizes, BytesAssumption DEF RInv
<1>2. a \in Nat /\ a + WordBytes <= n
  <2>1. i + 1 <= FullWords
    BY <1>1
  <2>2. (i + 1) * WordBytes <= FullWords * WordBytes
    BY <2>1, <1>1
  <2>3. (i + 1) * WordBytes = i * WordBytes + WordBytes
    BY <1>1
  <2> QED  BY <1>1, <2>2, <2>3
<1> HIDE DEF n, a
<1>3. bytes \in Seq(Byte) /\ Len(bytes) = n /\ \A j \in 1 .. n : bytes[j] \in Byte
  BY <1>1, StringLength
<1>4. /\ t \in Seq(Byte) /\ Len(t) = WordBytes
      /\ \A j \in 1 .. WordBytes : t[j] = bytes[a + j]
  <2>1. \A j \in a + 1 .. a + WordBytes : bytes[j] \in Byte
    BY <1>1, <1>2, <1>3
  <2>2. /\ a + 1 \in Int /\ a + WordBytes \in Int /\ a + 1 <= a + WordBytes
        /\ (a + WordBytes) - (a + 1) + 1 = WordBytes
    BY <1>1, <1>2
  <2>3. \A j \in 1 .. WordBytes : (a + 1) + j - 1 = a + j
    BY <1>1, <1>2
  <2> QED  BY <2>1, <2>2, <2>3, SubSeqProperties
<1> HIDE DEF t
<1>5. t \in Strings(WordBytes)
  <2>1. t \in [1 .. Len(t) -> Byte]
    BY <1>4
  <2> QED  BY <1>4, <2>1 DEF Strings
<1>6. LittleEndian(t)
        = (LittleEndian(bytes) \div Power(Radix, a)) % Power(Radix, WordBytes)
  BY <1>1, <1>2, <1>4, <1>5, SliceIsDigits
<1>7. (i + 1) - 1 = i /\ WordBytes * i = i * WordBytes
  BY <1>1
<1>8. Power(WordSpace, (i + 1) - 1) = Power(Radix, a)
  BY <1>7, WordSpaceFacts DEF a
<1> QED
  BY <1>6, <1>8, WordSpaceFacts DEF Digit, Integer, t, a

LEMMA LoadedHighWord ==
  ASSUME RInv
  PROVE  LET high == SubSeq(bytes, FullWords * WordBytes + 1, Len(bytes))
         IN  /\ LittleEndian(high \o Zeros(WordBytes - HighBytes))
                  = Digit(FullWords + 1)
             /\ Integer \div Power(WordSpace, FullWords + 1) = 0
<1> DEFINE a == FullWords * WordBytes
           n == a + HighBytes
           k == WordBytes - HighBytes
           t == SubSeq(bytes, a + 1, n)
<1>1. /\ FullWords \in Nat /\ HighBytes \in Nat \ {0} /\ n \in Nat /\ a \in Nat
      /\ WordBytes \in Nat \ {0} /\ bytes \in Strings(n) /\ k \in Nat
      /\ a + HighBytes = n /\ HighBytes + k = WordBytes
      /\ WordBytes * FullWords = a
  BY Sizes, BytesAssumption DEF RInv
<1>2. bytes \in Seq(Byte) /\ Len(bytes) = n /\ \A j \in 1 .. n : bytes[j] \in Byte
  BY <1>1, StringLength
<1> HIDE DEF a, n, k
<1>3. /\ t \in Seq(Byte) /\ Len(t) = HighBytes
      /\ \A j \in 1 .. HighBytes : t[j] = bytes[a + j]
  <2>1. \A j \in a + 1 .. n : bytes[j] \in Byte
    BY <1>1, <1>2
  <2>2. /\ a + 1 \in Int /\ n \in Int /\ a + 1 <= n
        /\ n - (a + 1) + 1 = HighBytes
    BY <1>1
  <2>3. \A j \in 1 .. HighBytes : (a + 1) + j - 1 = a + j
    BY <1>1
  <2> QED  BY <2>1, <2>2, <2>3, SubSeqProperties
<1> HIDE DEF t
<1>4. t \in Strings(HighBytes)
  <2>1. t \in [1 .. Len(t) -> Byte]
    BY <1>3
  <2> QED  BY <1>3, <2>1 DEF Strings
<1>5. Integer \div Power(Radix, a) = LittleEndian(t)
  <2>1. a + HighBytes <= n
    BY <1>1
  <2> QED  BY <1>1, <1>3, <1>4, <2>1, SliceIsDigits DEF Integer
<1>6. LittleEndian(t \o Zeros(k)) = LittleEndian(t)
  BY <1>1, <1>4, ZerosAfter
<1>7. LittleEndian(t) \in Nat /\ LittleEndian(t) < WordSpace
  <2>1. t \o Zeros(k) \in Strings(WordBytes)
    BY <1>1, <1>4, ZerosAfter
  <2>2. LittleEndian(t \o Zeros(k)) \in Nat
        /\ LittleEndian(t \o Zeros(k)) < Power(Radix, WordBytes)
    BY <2>1, <1>1, StringIsNat
  <2> QED  BY <1>6, <2>2, WordSpaceFacts
<1>8. Power(WordSpace, FullWords) = Power(Radix, a)
  BY <1>1, WordSpaceFacts
<1>9. LittleEndian(t) % WordSpace = LittleEndian(t)
  <2> DEFINE d == LittleEndian(t)
             w == WordSpace
  <2>1. d \in Nat /\ d < w /\ w \in Nat \ {0}
    BY <1>7, WordSpaceFacts
  <2> HIDE DEF d, w
  <2>2. d % w = d
    BY <2>1
  <2> QED  BY <2>2 DEF d, w
<1>10. (FullWords + 1) - 1 = FullWords
  BY <1>1
<1>11. LittleEndian(t) = Digit(FullWords + 1)
  BY <1>5, <1>8, <1>9, <1>10 DEF Digit
<1>12. Integer \div Power(WordSpace, FullWords + 1) = 0
  <2> DEFINE p == Power(WordSpace, FullWords)
             q == Integer \div p
             u == Integer \div (WordSpace * p)
  <2>1. Integer \in Nat /\ p \in Nat \ {0} /\ WordSpace \in Nat \ {0}
    BY <1>1, IntegerIsNat, WordSpaceFacts
  <2>2. q = WordSpace * u + (q % WordSpace) /\ u \in Nat
    BY <2>1, DivisionTwice
  <2>3. q % WordSpace = q /\ q \in Nat
    BY <1>5, <1>7, <1>8, <1>9
  <2>4. Power(WordSpace, FullWords + 1) = WordSpace * p
    BY <1>1, WordSpaceFacts
  <2> HIDE DEF u, q, p
  <2>5. u = 0
    <3>1. WordSpace * u = 0
      BY <2>1, <2>2, <2>3
    <3> QED  BY <2>1, <2>2, <3>1
  <2> QED  BY <2>4, <2>5 DEF u
<1> QED
  BY <1>1, <1>2, <1>6, <1>11, <1>12 DEF t, a, k

(* The place above the top word holds nothing: the fold starts from zero.  *)
LEMMA FormOfZero == Form!Retrieve(0) = 0
<1>1. L \in Nat \ {0} /\ ScalarRadixInverse \in Nat
  BY LIsPositive, RadixHasInverse
<1>2. 0 * ScalarRadixInverse = 0 /\ 0 % L = 0
  BY <1>1
<1> QED  BY <1>2 DEF Form!Retrieve

LEMMA DigitIsWord ==
  ASSUME RInv, NEW i \in Nat, i # 0
  PROVE  /\ Digit(i) \in 0 .. WordSpace - 1
         /\ Integer \div Power(WordSpace, i) \in Nat
         /\ Integer \div Power(WordSpace, i - 1)
              = WordSpace * (Integer \div Power(WordSpace, i)) + Digit(i)
<1> DEFINE p == Power(WordSpace, i - 1)
<1>1. Integer \in Nat
  BY Sizes, IntegerIsNat DEF RInv
<1>2. i - 1 \in Nat /\ (i - 1) + 1 = i
  OBVIOUS
<1>3. p \in Nat \ {0} /\ Power(WordSpace, i) = WordSpace * p
  BY <1>2, WordSpaceFacts
<1>4. WordSpace \in Nat \ {0}
  BY WordSpaceFacts
<1>5. Digit(i) = (Integer \div p) % WordSpace
  BY DEF Digit
<1> HIDE DEF p
<1>6. /\ Integer \div (WordSpace * p) \in Nat
      /\ Integer \div p
           = WordSpace * (Integer \div (WordSpace * p))
               + ((Integer \div p) % WordSpace)
      /\ (Integer \div p) % WordSpace \in 0 .. WordSpace - 1
  BY <1>1, <1>3, <1>4, DivisionTwice
<1> QED
  BY <1>3, <1>5, <1>6 DEF p

LEMMA LoadWordKeeps ==
  ASSUME RInv, LoadWord
  PROVE  RInv'
<1>1. FullWords \in Nat /\ index \in Nat /\ index < FullWords
  BY Sizes DEF RInv, LoadWord
<1> DEFINE d == LittleEndian(SubSeq(bytes, index * WordBytes + 1,
                                    index * WordBytes + WordBytes))
<1>2. d = Digit(index + 1) /\ words' = [words EXCEPT ![index + 1] = d]
  BY <1>1, LoadedWord DEF LoadWord
<1>3. Digit(index + 1) \in 0 .. WordSpace - 1
  BY <1>1, DigitIsWord
<1> HIDE DEF d
<1>4. /\ bytes' = bytes /\ schedule' = schedule /\ stage' = "load"
      /\ stage = "load" /\ index' = index + 1
      /\ UNCHANGED <<accumulator, scalar, operands>>
  BY DEF LoadWord
<1>5. FullWords' = FullWords /\ HighBytes' = HighBytes
  BY <1>4 DEF FullWords, HighBytes
<1>6. \A i : Digit(i)' = Digit(i)
  BY <1>4 DEF Digit, Integer
<1>7. words' \in [1 .. FullWords + 1 -> 0 .. WordSpace - 1]
  BY <1>2, <1>3 DEF RInv
<1>8. ASSUME NEW i \in 1 .. index + 1 PROVE words'[i] = Digit(i)
  <2>1. i \in 1 .. FullWords + 1 /\ words \in [1 .. FullWords + 1 -> 0 .. WordSpace - 1]
    BY <1>1 DEF RInv
  <2>2. CASE i = index + 1
    BY <2>1, <2>2, <1>2
  <2>3. CASE i # index + 1
    <3>1. i \in 1 .. index
      BY <2>3, <1>1
    <3> QED  BY <2>1, <2>3, <3>1, <1>2, <1>4 DEF RInv
  <2> QED  BY <2>2, <2>3
<1>9. index' \in 0 .. FullWords /\ index' \in 0 .. FullWords + 1
  BY <1>1, <1>4
<1> QED
  BY <1>4, <1>5, <1>6, <1>7, <1>8, <1>9 DEF RInv

LEMMA LoadHighWordKeeps ==
  ASSUME RInv, LoadHighWord
  PROVE  RInv'
<1>1. FullWords \in Nat /\ index = FullWords /\ stage = "load"
  BY Sizes DEF RInv, LoadHighWord
<1> DEFINE d == LittleEndian(SubSeq(bytes, FullWords * WordBytes + 1, Len(bytes))
                               \o Zeros(WordBytes - HighBytes))
<1>2. /\ d = Digit(FullWords + 1)
      /\ Integer \div Power(WordSpace, FullWords + 1) = 0
      /\ words' = [words EXCEPT ![FullWords + 1] = d]
  BY LoadedHighWord DEF LoadHighWord
<1>3. Digit(FullWords + 1) \in 0 .. WordSpace - 1
  BY <1>1, DigitIsWord
<1> HIDE DEF d
<1>4. /\ bytes' = bytes /\ schedule' = schedule /\ stage' = "fold"
      /\ index' = FullWords + 1
      /\ UNCHANGED <<accumulator, scalar, operands>>
  BY DEF LoadHighWord
<1>5. FullWords' = FullWords /\ HighBytes' = HighBytes
  BY <1>4 DEF FullWords, HighBytes
<1>6. (\A i : Digit(i)' = Digit(i)) /\ Integer' = Integer
  BY <1>4 DEF Digit, Integer
<1>7. words' \in [1 .. FullWords + 1 -> 0 .. WordSpace - 1]
  BY <1>2, <1>3 DEF RInv
<1>8. ASSUME NEW i \in 1 .. FullWords + 1 PROVE words'[i] = Digit(i)
  <2>1. words \in [1 .. FullWords + 1 -> 0 .. WordSpace - 1]
    BY DEF RInv
  <2>2. CASE i = FullWords + 1
    BY <2>1, <2>2, <1>2
  <2>3. CASE i # FullWords + 1
    <3>1. i \in 1 .. index
      BY <2>3, <1>1
    <3> QED  BY <2>1, <2>3, <3>1, <1>1, <1>2 DEF RInv
  <2> QED  BY <2>2, <2>3
<1>9. index' \in 0 .. FullWords + 1
  BY <1>1, <1>4
<1>10. Form!Retrieve(accumulator') = (Integer \div Power(WordSpace, index')) % L
  <2>1. accumulator' = 0
    BY <1>1, <1>4 DEF RInv
  <2>2. 0 % L = 0
    BY LIsPositive
  <2> QED  BY <2>1, <2>2, <1>2, <1>4, FormOfZero
<1> QED
  BY <1>1, <1>4, <1>5, <1>6, <1>7, <1>8, <1>9, <1>10 DEF RInv

LEMMA FoldWordKeeps ==
  ASSUME RInv, FoldWord
  PROVE  RInv'
<1> USE DEF FoldWord, FoldWordBy
<1>1. FullWords \in Nat /\ index \in 1 .. FullWords + 1 /\ stage = "fold"
  BY Sizes DEF RInv
<1>2. /\ schedule' = schedule /\ bytes' = bytes /\ stage' = stage
      /\ words' = words /\ scalar' = scalar /\ operands' = operands
      /\ index' = index - 1 /\ index - 1 \in 0 .. FullWords + 1
      /\ words[index] = Digit(index)
  BY <1>1 DEF RInv
<1> DEFINE q == Integer \div Power(WordSpace, index)
           d == Digit(index)
           e == Form!Retrieve(accumulator)
           W == WordSpace
<1>3. /\ q \in Nat /\ d \in Nat /\ W \in Nat
      /\ Integer \div Power(WordSpace, index - 1) = W * q + d
  <2>1. index \in Nat /\ index # 0 /\ WordSpace \in Nat
    BY <1>1, WordSpaceFacts
  <2> QED  BY <2>1, DigitIsWord
<1>4. e = q % L
  BY <1>1 DEF RInv
<1>5. /\ accumulator' \in Scalars
      /\ Form!Retrieve(accumulator') = (e * W + d) % L
  <2>1. accumulator' = Form!Plus(Form!Mul(accumulator, Form!New(W)), Form!New(d))
    BY <1>2 DEF RADIX_64
  <2>2. accumulator \in Scalars
    BY DEF RInv
  <2> HIDE DEF d, W
  <2> QED  BY <2>1, <2>2, <1>3, FoldIsHorner
<1>6. index' \in 0 .. FullWords + 1
  BY <1>2
<1> HIDE DEF e, d, W, q
<1>7. (e * W + d) % L = (W * q + d) % L
  <2>1. e \in Nat /\ Same(e, q)
    BY <1>3, <1>4, SameRemainder
  <2>2. Same(e * W, q * W)
    BY <1>3, <2>1, SameTimes
  <2>3. Same(d, d)
    BY DEF Same
  <2> DEFINE a == e * W
             b == q * W
  <2>4. a \in Int /\ b \in Int /\ Same(a, b) /\ d \in Int
    BY <1>3, <2>1, <2>2
  <2>5. b = W * q
    BY <1>3
  <2> HIDE DEF a, b
  <2>6. Same(a + d, b + d)
    BY <2>3, <2>4, SameArithmetic
  <2> QED  BY <2>5, <2>6 DEF Same, a
<1>8. Form!Retrieve(accumulator') = (Integer \div Power(WordSpace, index')) % L
  BY <1>2, <1>3, <1>5, <1>7
<1>9. FullWords' = FullWords /\ HighBytes' = HighBytes
  BY <1>2 DEF FullWords, HighBytes
<1>10. (\A i : Digit(i)' = Digit(i)) /\ Integer' = Integer
  BY <1>2 DEF Digit, Integer
<1> QED
  BY <1>1, <1>2, <1>5, <1>6, <1>8, <1>9, <1>10 DEF RInv

LEMMA RetrieveResultKeeps ==
  ASSUME RInv, RetrieveResult
  PROVE  RInv'
<1>1. /\ schedule' = schedule /\ bytes' = bytes /\ stage' = "multiply"
      /\ words' = words /\ operands' = operands /\ index' = index
      /\ accumulator' = accumulator /\ stage = "fold" /\ index = 0
      /\ scalar' = Form!Retrieve(accumulator)
  BY DEF RetrieveResult
<1>2. Integer \div Power(WordSpace, 0) = Integer
  <2>1. Integer \in Nat
    BY Sizes, IntegerIsNat DEF RInv
  <2>2. Power(WordSpace, 0) = 1
    BY WordSpaceFacts, PowerRecursion
  <2>3. Integer \div 1 = Integer
    BY <2>1
  <2> QED  BY <2>2, <2>3
<1>3. scalar' = Integer % L
  BY <1>1, <1>2 DEF RInv
<1>4. FullWords' = FullWords /\ HighBytes' = HighBytes /\ Integer' = Integer
  BY <1>1 DEF FullWords, HighBytes, Integer
<1> QED
  BY <1>1, <1>3, <1>4 DEF RInv

LEMMA MultiplyKeeps ==
  ASSUME RInv, Multiply
  PROVE  RInv'
<1>1. PICK o \in Operands : /\ scalar' = MulScalars(scalar, o)
                            /\ operands' = Append(operands, o)
  BY DEF Multiply
<1>2. /\ schedule' = schedule /\ bytes' = bytes /\ stage' = "add"
      /\ words' = words /\ index' = index /\ accumulator' = accumulator
      /\ stage = "multiply"
  BY DEF Multiply
<1>3. scalar = Integer % L /\ operands = <<>>
  BY <1>2 DEF RInv
<1>4. Integer \in Nat /\ o \in Nat /\ o \in Scalars
  BY Sizes, IntegerIsNat, OperandsAreScalars DEF RInv
<1>5. scalar \in Scalars /\ scalar \in Nat /\ Same(scalar, Integer)
  BY <1>3, <1>4, SameRemainder
<1>6. scalar' = (scalar * o) % L
  BY <1>1, <1>4, <1>5, MulIsProduct
<1>7. (scalar * o) % L = (Integer * o) % L
  <2>1. scalar \in Int /\ Integer \in Int /\ o \in Int
    BY <1>4, <1>5
  <2>2. Same(scalar * o, Integer * o)
    BY <2>1, <1>5, SameTimes
  <2> QED  BY <2>2 DEF Same
<1>8. operands' = <<o>>
  BY <1>1, <1>3
<1>9. FullWords' = FullWords /\ HighBytes' = HighBytes /\ Integer' = Integer
  BY <1>2 DEF FullWords, HighBytes, Integer
<1> QED
  BY <1>2, <1>6, <1>7, <1>8, <1>9 DEF RInv

LEMMA AppendToOne ==
  ASSUME NEW S, NEW o \in S, NEW q \in S
  PROVE Append(<<o>>, q) = <<o, q>>
<1> DEFINE s == <<o>>
           t == Append(s, q)
<1>1. s \in Seq(S) /\ Len(s) = 1 /\ s[1] = o
  OBVIOUS
<1> HIDE DEF s
<1>2. Len(t) = Len(s) + 1 
  BY <1>1, AppendProperties
<1>3. t \in Seq(S) 
  BY <1>1, AppendProperties
<1>4. t[Len(s)+1] = q
  BY <1>1, AppendProperties
<1>5. \A i \in 1 .. Len(s) : t[i] = s[i]
  BY <1>1, AppendProperties
<1> HIDE DEF t
<1>6. t \in Seq(S) /\ Len(t) = 2 /\ t[1] = o /\ t[2] = q
  BY <1>1, <1>2, <1>3, <1>4, <1>5
<1>7. t = <<t[1], t[2]>>
  BY <1>6
<1> QED BY <1>6, <1>7 DEF s, t

LEMMA AddKeeps ==
  ASSUME RInv, Add
  PROVE  RInv'
<1>1. PICK q \in Operands : /\ scalar' = AddMod(scalar, q)
                            /\ operands' = Append(operands, q)
  BY DEF Add
<1>2. /\ schedule' = schedule /\ bytes' = bytes /\ stage' = "done"
      /\ words' = words /\ index' = index /\ accumulator' = accumulator
      /\ stage = "add"
  BY DEF Add
<1>3. PICK o \in Operands : operands = <<o>> /\ scalar = (Integer * o) % L
  BY <1>2 DEF RInv
<1>4. /\ Integer \in Nat /\ o \in Nat /\ q \in Nat /\ q \in Scalars
  BY Sizes, IntegerIsNat, OperandsAreScalars DEF RInv
<1> DEFINE a == Integer * o
<1>5. a \in Int /\ q \in Int
  BY <1>4
<1> HIDE DEF a
<1>6. scalar \in Scalars /\ scalar \in Int /\ Same(scalar, a)
  BY <1>3, <1>5, SameRemainder DEF a
<1>7. scalar' = (scalar + q) % L
  BY <1>1, <1>4, <1>6, AddIsSum
<1>8. Same(scalar + q, a + q)
  <2>1. Same(q, q)
    BY DEF Same
  <2> QED  BY <2>1, <1>5, <1>6, SameArithmetic
<1>9. scalar' = Response(o, q)
  BY <1>7, <1>8 DEF Same, Response, a
<1>10. operands' = <<o, q>>
  BY <1>1, <1>3, AppendToOne
<1>11. FullWords' = FullWords /\ HighBytes' = HighBytes /\ Integer' = Integer
       /\ Response(o, q)' = Response(o, q)
  BY <1>2 DEF FullWords, HighBytes, Integer, Response
<1> QED
  BY <1>2, <1>9, <1>10, <1>11 DEF RInv

LEMMA ReduceStep == RInv /\ [Next]_vars => RInv'
<1> SUFFICES ASSUME RInv, [Next]_vars PROVE RInv'
  OBVIOUS
<1>1. CASE UNCHANGED vars
  <2>1. /\ schedule' = schedule /\ bytes' = bytes /\ stage' = stage
        /\ words' = words /\ index' = index /\ accumulator' = accumulator
        /\ scalar' = scalar /\ operands' = operands
    BY <1>1 DEF vars
  <2> QED
    BY <2>1 DEF RInv, FullWords, HighBytes, Integer, Digit, Response
<1> QED
  BY <1>1, LoadWordKeeps, LoadHighWordKeeps, FoldWordKeeps,
     RetrieveResultKeeps, MultiplyKeeps, AddKeeps DEF Next

(* Every state of a reduction has its types.                               *)
THEOREM ReduceTypes == Spec => []TypeOK
<1>1. RInv => TypeOK
  <2> SUFFICES ASSUME RInv PROVE TypeOK
    OBVIOUS
  <2>1. Len(bytes) = FullWords * WordBytes + HighBytes
    BY Sizes, StringLength DEF RInv
  <2>2. scalar \in Scalars \cup {-1}
    <3>1. Integer \in Int /\ \A o, q \in Operands : Integer * o \in Int
                                                  /\ Integer * o + q \in Int
      BY Sizes, IntegerIsNat, OperandsAreScalars DEF RInv
    <3>2. CASE stage \in {"load", "fold"}
      BY <3>2 DEF RInv
    <3>3. CASE stage = "multiply"
      BY <3>1, <3>3, SameRemainder DEF RInv
    <3>4. CASE stage = "add"
      BY <3>1, <3>4, SameRemainder DEF RInv
    <3>5. CASE stage = "done"
      BY <3>1, <3>5, SameRemainder DEF RInv, Response
    <3> QED  BY <3>2, <3>3, <3>4, <3>5 DEF RInv
  <2>3. operands \in BoundedSeq(Operands, 2)
    <3>1. \E m \in 0 .. 2 : operands \in [1 .. m -> Operands]
      <4>1. CASE stage \in {"load", "fold", "multiply"}
        <5>1. operands = <<>>
          BY <4>1 DEF RInv
        <5>2. <<>> \in [1 .. 0 -> Operands]
          OBVIOUS
        <5> QED  BY <5>1, <5>2
      <4>2. CASE stage = "add"
        <5>1. PICK o \in Operands : operands = <<o>>
          BY <4>2 DEF RInv
        <5>2. <<o>> \in [1 .. 1 -> Operands]
          OBVIOUS
        <5> QED  BY <5>1, <5>2
      <4>3. CASE stage = "done"
        <5>1. PICK o, q \in Operands : operands = <<o, q>>
          BY <4>3 DEF RInv
        <5>2. <<o, q>> \in [1 .. 2 -> Operands]
          OBVIOUS
        <5> QED  BY <5>1, <5>2
      <4> QED  BY <4>1, <4>2, <4>3 DEF RInv
    <3> QED  BY <3>1 DEF BoundedSeq, SeqOf
  <2> QED  BY <2>1, <2>2, <2>3 DEF RInv, TypeOK
<1> QED
  BY <1>1, ReduceInit, ReduceStep, PTL DEF Spec

(* Once loaded, the words are the digits of the integer the bytes spell.   *)
THEOREM LoadedWords == Spec => []WordsSpellTheBytes
<1>1. RInv => WordsSpellTheBytes
  BY DEF RInv, WordsSpellTheBytes, Digit, Integer
<1> QED
  BY <1>1, ReduceInit, ReduceStep, PTL DEF Spec

(* While folding, the accumulator stands for the part of the integer at    *)
(* and above the word index.                                               *)
THEOREM FoldsTheWords == Spec => []AccumulatorIsReducedPrefix
<1>1. RInv => AccumulatorIsReducedPrefix
  BY DEF RInv, AccumulatorIsReducedPrefix, Integer
<1> QED
  BY <1>1, ReduceInit, ReduceStep, PTL DEF Spec

(* The result is that of the integers modulo L.                            *)
THEOREM ExactResponse == Spec => []ResponseIsExact
<1>1. RInv => ResponseIsExact
  <2> SUFFICES ASSUME RInv, stage = "done"
               PROVE  scalar = (LittleEndian(bytes) * operands[1] + operands[2]) % L
    BY DEF ResponseIsExact
  <2>1. PICK o, q \in Operands : operands = <<o, q>> /\ scalar = Response(o, q)
    BY DEF RInv
  <2>2. operands[1] = o /\ operands[2] = q
    BY <2>1
  <2> QED  BY <2>1, <2>2 DEF Response, Integer
<1> QED
  BY <1>1, ReduceInit, ReduceStep, PTL DEF Spec

-----------------------------------------------------------------------------
(* The byte encoding of a scalar.                                          *)

(* A byte of a string is the digit of its place.                           *)
LEMMA StringDigit ==
  ASSUME NEW n \in Nat, NEW s \in Strings(n), NEW j \in 1 .. n
  PROVE  (LittleEndian(s) \div Power(Radix, j - 1)) % Radix = s[j]
<1> DEFINE t == [i \in 1 .. 1 |-> s[j]]
           a == j - 1
<1>1. /\ a \in Nat /\ a + 1 <= n /\ a + 1 = j
      /\ \A i \in 1 .. 1 : t[i] = s[a + i]
  OBVIOUS
<1>2. t \in Strings(1) /\ t[1] = s[j] /\ s[j] \in Nat
  <2>1. s[j] \in Byte /\ s[j] \in Nat
    BY StringLength
  <2> QED  BY <2>1 DEF Strings
<1> HIDE DEF t, a
<1>3. (LittleEndian(s) \div Power(Radix, a)) % Power(Radix, 1) = LittleEndian(t)
  BY <1>1, <1>2, SliceIsDigits
<1>4. Power(Radix, 1) = Radix /\ Power(Radix, 0) = 1
  <2>1. Power(Radix, 0 + 1) = Radix * Power(Radix, 0) /\ Power(Radix, 0) = 1
    BY RadixPowers
  <2>2. 0 + 1 = 1 /\ Radix * 1 = Radix
    BY BytesAssumption
  <2> QED  BY <2>1, <2>2
<1>5. LittleEndian(t) = s[j]
  <2>1. PICK v : Spells(v, t, 1) /\ LittleEndian(t) = v[1]
    BY <1>2, Spelled
  <2>2. 0 \in 0 .. 1 - 1 /\ 0 + 1 = 1
    OBVIOUS
  <2>3. v[1] = v[0] + Power(Radix, 0) * t[1] /\ v[0] = 0
    BY <2>1, <2>2 DEF Spells
  <2> QED  BY <1>2, <1>4, <2>1, <2>3
<1> QED
  BY <1>3, <1>4, <1>5 DEF a

(* The bytes of the word at an offset, the last word's too, are those of   *)
(* the string.                                                             *)
LEMMA WordHoldsBytes ==
  ASSUME NEW n \in Nat, NEW s \in Strings(n), NEW a \in Nat, a < n,
         NEW m \in Nat, m = IF n - a < WordBytes THEN n - a ELSE WordBytes,
         NEW j \in 1 .. m
  PROVE  LET word == (LittleEndian(s) \div Power(Radix, a)) % WordSpace
         IN  (word \div Power(Radix, j - 1)) % Radix = s[a + j]
<1> DEFINE t == [i \in 1 .. m |-> s[a + i]]
           k == WordBytes - m
<1>0. WordBytes \in Nat \ {0}
  BY BytesAssumption
<1>1. a + m <= n /\ m <= WordBytes /\ (m = WordBytes \/ a + m = n)
  BY <1>0
<1>2. k \in Nat /\ m + k = WordBytes /\ m \in Nat
  BY <1>0, <1>1
<1>3. t \in Strings(m) /\ \A i \in 1 .. m : t[i] = s[a + i]
  <2>1. \A i \in 1 .. m : s[a + i] \in Byte
    BY <1>1, StringLength
  <2> QED  BY <2>1 DEF Strings
<1> HIDE DEF t, k
<1>4. /\ (LittleEndian(s) \div Power(Radix, a)) % Power(Radix, m) = LittleEndian(t)
      /\ a + m = n => LittleEndian(s) \div Power(Radix, a) = LittleEndian(t)
  BY <1>1, <1>3, SliceIsDigits
<1>5. WordSpace = Power(Radix, WordBytes) /\ WordSpace \in Nat \ {0}
  BY WordSpaceFacts
<1>6. (LittleEndian(s) \div Power(Radix, a)) % WordSpace = LittleEndian(t)
  <2>1. CASE m = WordBytes
    BY <2>1, <1>4, <1>5
  <2>2. CASE a + m = n
    <3> DEFINE d == LittleEndian(t)
    <3>1. t \o Zeros(k) \in Strings(WordBytes) /\ LittleEndian(t \o Zeros(k)) = d
      BY <1>2, <1>3, ZerosAfter
    <3>2. d \in Nat /\ d < WordSpace
      BY <3>1, <1>0, <1>5, StringIsNat
    <3>3. LittleEndian(s) \div Power(Radix, a) = d
      BY <2>2, <1>4
    <3> HIDE DEF d
    <3>4. d % WordSpace = d
      BY <3>2, <1>5
    <3> QED  BY <3>3, <3>4 DEF d
  <2> QED  BY <2>1, <2>2, <1>1
<1>7. (LittleEndian(t) \div Power(Radix, j - 1)) % Radix = t[j]
  BY <1>2, <1>3, StringDigit
<1> QED
  BY <1>3, <1>6, <1>7

EInv ==
  /\ input \in Strings(ScalarLength)
  /\ phase \in {"parse", "write", "done"}
  /\ output \in Strings(ScalarLength)
  /\ offset \in 0 .. ScalarLength
  /\ word_index \in 0 .. ScalarWords
  /\ \/ parsed = None
     \/ parsed = Some(LittleEndian(input)) /\ LittleEndian(input) < L
  /\ phase = "parse" => offset = 0 /\ word_index = 0
  /\ phase = "write" =>
       /\ parsed = Some(LittleEndian(input))
       /\ offset < ScalarLength /\ offset = WordBytes * word_index
       /\ \A i \in 1 .. offset : output[i] = input[i]
  /\ phase = "done" => parsed = None \/ output = input

LEMMA EncodingStart == EncodingInit => EInv
<1> SUFFICES ASSUME EncodingInit PROVE EInv
  OBVIOUS
<1>1. /\ input \in Strings(ScalarLength) /\ parsed = None /\ phase = "parse"
      /\ output = Zeros(ScalarLength) /\ offset = 0 /\ word_index = 0
  BY DEF EncodingInit
<1>2. 0 \in Byte
  BY BytesAssumption DEF Byte
<1>3. output \in Strings(ScalarLength)
  BY <1>1, <1>2 DEF Zeros, Strings
<1>4. ScalarLength \in Nat \ {0} /\ ScalarWords \in Nat
  BY LengthAssumption, BytesAssumption
<1> QED
  BY <1>1, <1>3, <1>4 DEF EInv

LEMMA ParseKeeps ==
  ASSUME EInv, Parse
  PROVE  EInv'
<1> DEFINE k == ScalarWords * WordBytes - ScalarLength
           d == LittleEndian(input)
<1>1. /\ ScalarLength \in Nat \ {0} /\ ScalarWords \in Nat /\ L \in Nat
      /\ k \in Nat
  BY BytesAssumption, LengthAssumption
<1>2. LittleEndian(input \o Zeros(k)) = d /\ input \in Strings(ScalarLength)
  BY <1>1, ZerosAfter DEF EInv
<1>3. /\ phase = "parse" /\ UNCHANGED <<input, output, offset, word_index>>
      /\ parsed' = Checked(d < L, d)
      /\ phase' = IF d < L THEN "write" ELSE "done"
  BY <1>2 DEF Parse
<1> HIDE DEF k
<1>4. offset = 0 /\ word_index = 0
  BY <1>3 DEF EInv
<1>5. WordBytes * 0 = 0 /\ 0 < ScalarLength
  BY <1>1, BytesAssumption
<1>6. CASE d < L
  <2>1. parsed' = Some(d) /\ phase' = "write"
    BY <1>3, <1>6 DEF Checked
  <2> HIDE DEF d
  <2> QED  BY <2>1, <1>1, <1>3, <1>4, <1>5, <1>6 DEF EInv, d
<1>7. CASE ~ (d < L)
  <2>1. parsed' = None /\ phase' = "done"
    BY <1>3, <1>7 DEF Checked
  <2> QED  BY <2>1, <1>1, <1>3, <1>4 DEF EInv
<1> QED  BY <1>6, <1>7

LEMMA WriteKeeps ==
  ASSUME EInv, WriteWord
  PROVE  EInv'
<1> DEFINE n == ScalarLength
           d == LittleEndian(input)
           word == (d \div Power(Radix, offset)) % WordSpace
           take == IF n - offset < WordBytes THEN n - offset ELSE WordBytes
<1>1. /\ n \in Nat \ {0} /\ ScalarWords \in Nat /\ L \in Nat
      /\ n <= ScalarWords * WordBytes /\ WordBytes \in Nat \ {0}
  BY BytesAssumption, LengthAssumption
<1>2. /\ phase = "write" /\ UNCHANGED <<input, parsed>>
      /\ parsed = Some(d) /\ parsed.value = d
      /\ offset \in Nat /\ offset < n /\ offset = WordBytes * word_index
      /\ word_index \in Nat /\ word_index \in 0 .. ScalarWords
  BY <1>1 DEF WriteWord, EInv, Some
<1>3. Power(WordSpace, word_index) = Power(Radix, offset)
  BY <1>2, WordSpaceFacts
<1>4. /\ offset' = offset + take /\ word_index' = word_index + 1
      /\ phase' = IF offset' < n THEN "write" ELSE "done"
      /\ output' = [i \in 1 .. n |->
                      IF i \in offset + 1 .. offset + take
                      THEN LowBytes(word, WordBytes)[i - offset]
                      ELSE output[i]]
  BY <1>2, <1>3 DEF WriteWord
<1>5. take \in Nat /\ take <= n - offset /\ take <= WordBytes /\ take # 0
      /\ (take = WordBytes \/ offset + take = n)
  BY <1>1, <1>2
<1>6. \A j \in 1 .. take : (word \div Power(Radix, j - 1)) % Radix = input[offset + j]
  <2>1. input \in Strings(n)
    BY DEF EInv
  <2>2. take = IF n - offset < WordBytes THEN n - offset ELSE WordBytes
    OBVIOUS
  <2> HIDE DEF take
  <2> QED  BY <2>1, <2>2, <1>1, <1>2, <1>5, WordHoldsBytes
<1> HIDE DEF take, word
<1>7. \A j \in 1 .. take : LowBytes(word, WordBytes)[j] = input[offset + j]
  <2> SUFFICES ASSUME NEW j \in 1 .. take
               PROVE  LowBytes(word, WordBytes)[j] = input[offset + j]
    OBVIOUS
  <2>1. j \in 1 .. WordBytes
    BY <1>1, <1>5
  <2>2. LowBytes(word, WordBytes)[j] = (word \div Power(Radix, j - 1)) % Radix
    BY <2>1 DEF LowBytes
  <2> QED  BY <2>2, <1>6
<1>8. \A i \in 1 .. offset + take : i \in 1 .. n /\ output'[i] = input[i]
  <2> SUFFICES ASSUME NEW i \in 1 .. offset + take
               PROVE  i \in 1 .. n /\ output'[i] = input[i]
    OBVIOUS
  <2>1. i \in 1 .. n
    BY <1>1, <1>2, <1>5
  <2>2. CASE i <= offset
    <3>1. i \in 1 .. offset /\ ~ (i \in offset + 1 .. offset + take)
      BY <2>2, <1>2
    <3>2. output[i] = input[i]
      BY <3>1, <1>2 DEF EInv
    <3> QED  BY <2>1, <3>1, <3>2, <1>4
  <2>3. CASE ~ (i <= offset)
    <3> DEFINE j == i - offset
    <3>1. /\ i \in offset + 1 .. offset + take /\ j \in 1 .. take
          /\ offset + j = i
      BY <2>3, <1>2, <1>5
    <3> HIDE DEF j
    <3>2. LowBytes(word, WordBytes)[j] = input[i]
      BY <3>1, <1>7
    <3> QED  BY <2>1, <3>1, <3>2, <1>4 DEF j
  <2> QED  BY <2>2, <2>3
<1>9. output' \in Strings(n)
  <2> SUFFICES ASSUME NEW i \in 1 .. n PROVE output'[i] \in Byte
    BY <1>4 DEF Strings
  <2>1. input[i] \in Byte /\ output[i] \in Byte
    BY <1>1, StringLength DEF EInv
  <2>2. CASE i \in 1 .. offset + take
    BY <2>1, <2>2, <1>8
  <2>3. CASE i \notin 1 .. offset + take
    <3>1. ~ (i \in offset + 1 .. offset + take)
      BY <2>3, <1>2, <1>5
    <3> QED  BY <2>1, <3>1, <1>4
  <2> QED  BY <2>2, <2>3
<1>10. word_index' \in 0 .. ScalarWords /\ offset' \in 0 .. n
  <2>1. word_index # ScalarWords
    <3>1. n <= WordBytes * ScalarWords
      BY <1>1
    <3>2. WordBytes * word_index < n
      BY <1>2
    <3> HIDE DEF n
    <3>3. ScalarWords \in Int /\ WordBytes \in Int /\ n \in Int
      BY <1>1
    <3> QED  BY <3>1, <3>2, <3>3
  <2>2. word_index' \in 0 .. ScalarWords
    BY <2>1, <1>1, <1>2, <1>4
  <2>3. offset' \in 0 .. n
    BY <1>1, <1>2, <1>4, <1>5
  <2> QED  BY <2>2, <2>3
<1>11. CASE offset' < n
  <2>1. take = WordBytes
    BY <1>4, <1>5, <1>11
  <2>2. offset' = WordBytes * word_index'
    <3>1. WordBytes * (word_index + 1) = WordBytes * word_index + WordBytes
      BY <1>1, <1>2
    <3> QED  BY <2>1, <3>1, <1>2, <1>4
  <2>3. phase' = "write" /\ \A i \in 1 .. offset' : output'[i] = input'[i]
    BY <1>2, <1>4, <1>8, <1>11
  <2> HIDE DEF n, d
  <2> QED
    BY <2>2, <2>3, <1>2, <1>9, <1>10, <1>11 DEF EInv, n, d
<1>12. CASE ~ (offset' < n)
  <2>1. offset' = n
    BY <1>1, <1>10, <1>12
  <2>2. output' = input
    <3>1. \A i \in 1 .. n : output'[i] = input[i]
      BY <2>1, <1>4, <1>8
    <3>2. input \in [1 .. n -> Byte] /\ output' \in [1 .. n -> Byte]
      BY <1>9 DEF EInv, Strings
    <3> DEFINE o == output'
    <3>3. o \in [1 .. n -> Byte] /\ \A i \in 1 .. n : o[i] = input[i]
      BY <3>1, <3>2
    <3> HIDE DEF n, o
    <3>4. o = [i \in 1 .. n |-> input[i]]
      BY <3>3
    <3>5. input = [i \in 1 .. n |-> input[i]]
      BY <3>2
    <3> QED  BY <3>4, <3>5 DEF o
  <2>3. phase' = "done"
    BY <1>4, <1>12
  <2> HIDE DEF n, d
  <2> QED
    BY <2>2, <2>3, <1>2, <1>9, <1>10 DEF EInv, n, d
<1> QED  BY <1>11, <1>12

LEMMA EncodingStep == EInv /\ [EncodingNext]_encoding_vars => EInv'
<1> SUFFICES ASSUME EInv, [EncodingNext]_encoding_vars PROVE EInv'
  OBVIOUS
<1>1. CASE UNCHANGED encoding_vars
  <2>1. /\ input' = input /\ parsed' = parsed /\ phase' = phase
        /\ output' = output /\ offset' = offset /\ word_index' = word_index
    BY <1>1 DEF encoding_vars
  <2> QED  BY <2>1 DEF EInv
<1> QED  BY <1>1, ParseKeeps, WriteKeeps DEF EncodingNext

(* Every state of the encoding has its types.                              *)
THEOREM EncodingTypes ==
  EncodingSpec => []EncodingTypeOK
<1>1. EInv => EncodingTypeOK
  <2> SUFFICES ASSUME EInv PROVE EncodingTypeOK
    OBVIOUS
  <2>1. ScalarLength \in Nat /\ L \in Nat
    BY LengthAssumption, BytesAssumption
  <2>2. Len(input) = ScalarLength /\ output \in Strings(ScalarLength)
    BY <2>1, StringLength DEF EInv
  <2>3. parsed = None \/ parsed.value \in 0 .. L - 1
    <3>1. LittleEndian(input) \in Nat
      BY <2>1, StringIsNat DEF EInv
    <3> QED  BY <2>1, <3>1 DEF EInv, Some
  <2> QED  BY <2>2, <2>3 DEF EInv, EncodingTypeOK
<1> QED
  BY <1>1, EncodingStart, EncodingStep, PTL DEF EncodingSpec

(* Writing an accepted scalar gives back the bytes that were read.         *)
THEOREM OneEncoding ==
  EncodingSpec => []OneEncodingPerScalar
<1>1. EInv => OneEncodingPerScalar
  <2> SUFFICES ASSUME EInv, phase = "done", parsed.some PROVE output = input
    BY DEF OneEncodingPerScalar
  <2>1. ~ None.some
    BY DEF None
  <2> QED  BY <2>1 DEF EInv
<1> QED
  BY <1>1, EncodingStart, EncodingStep, PTL DEF EncodingSpec

=============================================================================
