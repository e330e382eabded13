---------------------------- MODULE PowersProofs ----------------------------
(***************************************************************************)
(* What the proofs about numbers rest on: induction, functions defined by  *)
(* recursion, powers, and the digits of a number.                          *)
(*                                                                         *)
(* The library states induction for an operator that is a parameter; here  *)
(* it is a fact about sets of numbers: a set that has zero and with every  *)
(* number the next one has them all.                                       *)
(***************************************************************************)
EXTENDS Powers, TLAPS, WellFoundedInduction

-----------------------------------------------------------------------------
(* Induction and recursion *)

\* A set of numbers has a least one.
LEMMA LeastNumber ==
    ASSUME NEW T, T \subseteq Nat, T # {}
    PROVE  \E m \in T : \A k \in T : m <= k
<1>1. IsWellFoundedOn(OpToRel(<, Nat), Nat)
  BY NatLessThanWellFounded
<1>2. \E x \in T : \A y \in T : ~(<<y, x>> \in OpToRel(<, Nat))
  BY <1>1, WFMin, Zenon
<1>3. \A x, y \in Nat : <<y, x>> \in OpToRel(<, Nat) <=> y < x
  BY DEF OpToRel
<1>4. PICK x \in T : \A y \in T : ~(<<y, x>> \in OpToRel(<, Nat))
  BY <1>2
<1>5. \A y \in T : ~(y < x)
  BY <1>3, <1>4, Zenon
<1> QED
  BY <1>5

\* A set with zero and the successor of each of its elements has every number.
LEMMA Induction ==
    ASSUME NEW T, T \subseteq Nat, 0 \in T, \A n \in T : n + 1 \in T
    PROVE  T = Nat
<1> SUFFICES ASSUME T # Nat PROVE FALSE
  OBVIOUS
<1>1. Nat \ T \subseteq Nat /\ Nat \ T # {}
  OBVIOUS
<1>2. PICK m \in Nat \ T : \A k \in Nat \ T : m <= k
  BY <1>1, LeastNumber
<1>3. m # 0 /\ m - 1 \in Nat /\ m - 1 \in T
  BY <1>2
<1> QED
  BY <1>2, <1>3

\* A first value and a step define a function.
LEMMA Recursion ==
    ASSUME NEW first \in Int, NEW step \in [Int \X Nat -> Int]
    PROVE  \E f \in [Nat -> Int] : f[0] = first /\ \A n \in Nat : f[n + 1] = step[<<f[n], n>>]
<1> DEFINE Starts(g, n) == g[0] = first /\ \A i \in 0 .. n - 1 : g[i + 1] = step[<<g[i], i>>]
           T == {n \in Nat : \E g \in [0 .. n -> Int] : Starts(g, n)}
<1>1. T = Nat
  <2>1. 0 \in T
    <3>1. [i \in 0 .. 0 |-> first] \in [0 .. 0 -> Int]
      OBVIOUS
    <3>2. Starts([i \in 0 .. 0 |-> first], 0)
      OBVIOUS
    <3> QED
      BY <3>1, <3>2
  <2>2. ASSUME NEW n \in T PROVE n + 1 \in T
    <3>1. PICK g \in [0 .. n -> Int] : Starts(g, n)
      OBVIOUS
    <3> DEFINE h == [i \in 0 .. n + 1 |-> IF i <= n THEN g[i] ELSE step[<<g[n], n>>]]
    <3>2. h \in [0 .. n + 1 -> Int]
      OBVIOUS
    <3>3. h[0] = first
      BY <3>1
    <3>4. ASSUME NEW i \in 0 .. n PROVE h[i + 1] = step[<<h[i], i>>]
      <4>1. h[i] = g[i]
        OBVIOUS
      <4>2. CASE i < n
        <5>1. h[i + 1] = g[i + 1] /\ i \in 0 .. n - 1
          BY <4>2
        <5> QED
          BY <3>1, <4>1, <5>1
      <4>3. CASE i = n
        <5>1. h[n + 1] = step[<<g[n], n>>]
          OBVIOUS
        <5> QED
          BY <4>1, <4>3, <5>1
      <4> QED
        BY <4>2, <4>3
    <3>5. (n + 1) - 1 = n /\ n + 1 \in Nat
      OBVIOUS
    <3>6. Starts(h, n + 1)
      BY <3>3, <3>4, <3>5
    <3> QED
      BY <3>2, <3>5, <3>6
  <2> HIDE DEF T
  <2>3. T \subseteq Nat
    BY DEF T
  <2> QED
    BY <2>1, <2>2, <2>3, Induction
<1> DEFINE G(n) == CHOOSE g \in [0 .. n -> Int] : Starts(g, n)
<1>2. \A n \in Nat : G(n) \in [0 .. n -> Int] /\ Starts(G(n), n)
  <2> TAKE n \in Nat
  <2>1. \E g \in [0 .. n -> Int] : Starts(g, n)
    BY <1>1
  <2> HIDE DEF Starts
  <2> QED
    BY <2>1
<1> HIDE DEF G
<1>3. ASSUME NEW n \in Nat PROVE \A i \in 0 .. n : G(n)[i] = G(n + 1)[i]
  <2> DEFINE U == {i \in Nat : i <= n => G(n)[i] = G(n + 1)[i]}
  <2>1. 0 \in U
    BY <1>2
  <2>2. ASSUME NEW i \in U PROVE i + 1 \in U
    <3> SUFFICES ASSUME i + 1 <= n PROVE G(n)[i + 1] = G(n + 1)[i + 1]
      OBVIOUS
    <3>1. G(n)[i] = G(n + 1)[i] /\ i \in 0 .. n - 1 /\ i \in 0 .. (n + 1) - 1
      OBVIOUS
    <3>2. Starts(G(n), n) /\ Starts(G(n + 1), n + 1)
      BY <1>2
    <3> HIDE DEF U
    <3>3. G(n)[i + 1] = step[<<G(n)[i], i>>] /\ G(n + 1)[i + 1] = step[<<G(n + 1)[i], i>>]
      BY <3>1, <3>2
    <3> QED
      BY <3>1, <3>3
  <2>3. U \subseteq Nat
    OBVIOUS
  <2> HIDE DEF U
  <2>4. U = Nat
    BY <2>1, <2>2, <2>3, Induction
  <2> QED
    BY <2>4 DEF U
<1> DEFINE f == [n \in Nat |-> G(n)[n]]
<1>4. f \in [Nat -> Int]
  BY <1>2
<1>5. f[0] = first
  BY <1>2
<1>6. \A n \in Nat : f[n + 1] = step[<<f[n], n>>]
  <2> TAKE n \in Nat
  <2>1. G(n + 1)[n + 1] = step[<<G(n + 1)[n], n>>]
    BY <1>2
  <2>2. G(n)[n] = G(n + 1)[n]
    BY <1>3
  <2> QED
    BY <2>1, <2>2
<1> QED
  BY <1>4, <1>5, <1>6

-----------------------------------------------------------------------------
(* Powers *)

\* The recursion that defines a power has a solution, so a power is what it says.
LEMMA PowerIs ==
    ASSUME NEW b \in Int
    PROVE  /\ Power(b, 0) = 1
           /\ \A n \in Nat : Power(b, n) \in Int /\ Power(b, n + 1) = b * Power(b, n)
<1> DEFINE step == [s \in Int \X Nat |-> b * s[1]]
           power == CHOOSE p : p = [n \in Nat |-> IF n = 0 THEN 1 ELSE b * p[n - 1]]
<1>1. PICK f \in [Nat -> Int] : f[0] = 1 /\ \A n \in Nat : f[n + 1] = step[<<f[n], n>>]
  <2>1. step \in [Int \X Nat -> Int]
    OBVIOUS
  <2>2. 1 \in Int
    OBVIOUS
  <2> HIDE DEF step
  <2> QED
    BY <2>1, <2>2, Recursion
<1>2. \A n \in Nat : f[n + 1] = b * f[n]
  BY <1>1
<1>3. f = [n \in Nat |-> IF n = 0 THEN 1 ELSE b * f[n - 1]]
  <2>1. \A n \in Nat : f[n] = IF n = 0 THEN 1 ELSE b * f[n - 1]
    <3> TAKE n \in Nat
    <3>1. CASE n # 0
      <4>1. n - 1 \in Nat /\ (n - 1) + 1 = n
        BY <3>1
      <4> QED
        BY <1>2, <3>1, <4>1
    <3> QED
      BY <1>1, <3>1
  <2> QED
    BY <2>1
<1>4. power = [n \in Nat |-> IF n = 0 THEN 1 ELSE b * power[n - 1]]
  BY <1>3
<1>5. \A n : Power(b, n) = power[n]
  BY DEF Power
<1> HIDE DEF power
<1>6. power[0] = 1 /\ \A n \in Nat : power[n + 1] = b * power[n]
  BY <1>4
<1> DEFINE T == {n \in Nat : power[n] \in Int}
<1>7. T = Nat
  <2>1. 0 \in T /\ T \subseteq Nat
    BY <1>6
  <2>2. \A n \in T : n + 1 \in T
    BY <1>6
  <2> HIDE DEF T
  <2> QED
    BY <2>1, <2>2, Induction
<1> QED
  BY <1>5, <1>6, <1>7

\* Powers of a positive number are positive.
LEMMA PowerPositive ==
    ASSUME NEW b \in Nat \ {0}
    PROVE  \A n \in Nat : Power(b, n) \in Nat \ {0}
<1> DEFINE T == {n \in Nat : Power(b, n) \in Nat \ {0}}
<1>1. 0 \in T /\ T \subseteq Nat
  BY PowerIs
<1>2. ASSUME NEW n \in T PROVE n + 1 \in T
  <2>1. n \in Nat /\ Power(b, n) \in Nat \ {0} /\ b * Power(b, n) \in Nat \ {0}
    OBVIOUS
  <2> QED
    BY <2>1, PowerIs
<1> HIDE DEF T
<1>3. T = Nat
  BY <1>1, <1>2, Induction
<1> QED
  BY <1>3 DEF T

\* A power of a sum is a product.
LEMMA PowerSum ==
    ASSUME NEW b \in Int, NEW m \in Nat
    PROVE  \A n \in Nat : Power(b, m + n) = Power(b, m) * Power(b, n)
<1> DEFINE T == {n \in Nat : Power(b, m + n) = Power(b, m) * Power(b, n)}
<1>1. 0 \in T /\ T \subseteq Nat
  BY PowerIs
<1>2. ASSUME NEW n \in T PROVE n + 1 \in T
  <2>1. /\ Power(b, m + n) = Power(b, m) * Power(b, n) /\ n \in Nat
        /\ (m + n) + 1 = m + (n + 1) /\ m + n \in Nat
    OBVIOUS
  <2>2. /\ Power(b, (m + n) + 1) = b * Power(b, m + n)
        /\ Power(b, n + 1) = b * Power(b, n)
        /\ Power(b, m) \in Int /\ Power(b, n) \in Int
    BY <2>1, PowerIs
  <2>3. b * (Power(b, m) * Power(b, n)) = Power(b, m) * (b * Power(b, n))
    BY <2>2
  <2> QED
    BY <2>1, <2>2, <2>3
<1> HIDE DEF T
<1>3. T = Nat
  BY <1>1, <1>2, Induction
<1> QED
  BY <1>3 DEF T

\* A power of a product is a power of a power.
LEMMA PowerProduct ==
    ASSUME NEW b \in Nat \ {0}, NEW m \in Nat
    PROVE  \A n \in Nat : Power(b, m * n) = Power(Power(b, m), n)
<1> DEFINE T == {n \in Nat : Power(b, m * n) = Power(Power(b, m), n)}
<1>0. Power(b, m) \in Int
  BY PowerIs
<1>1. 0 \in T /\ T \subseteq Nat
  BY <1>0, PowerIs
<1>2. ASSUME NEW n \in T PROVE n + 1 \in T
  <2>1. /\ Power(b, m * n) = Power(Power(b, m), n) /\ n \in Nat
        /\ m * n \in Nat /\ m * (n + 1) = (m * n) + m
    OBVIOUS
  <2>2. Power(b, (m * n) + m) = Power(b, m * n) * Power(b, m)
    BY <2>1, PowerSum
  <2>3. Power(Power(b, m), n + 1) = Power(b, m) * Power(Power(b, m), n)
    BY <1>0, <2>1, PowerIs
  <2>4. Power(b, m * n) \in Int
    BY <2>1, PowerIs
  <2> QED
    BY <1>0, <2>1, <2>2, <2>3, <2>4
<1> HIDE DEF T
<1>3. T = Nat
  BY <1>1, <1>2, Induction
<1> QED
  BY <1>3 DEF T

\* Powers grow with the exponent.
LEMMA PowerOrder ==
    ASSUME NEW b \in Nat \ {0}, NEW m \in Nat, NEW n \in Nat, m <= n
    PROVE  Power(b, m) <= Power(b, n)
<1>1. n - m \in Nat /\ m + (n - m) = n
  OBVIOUS
<1>2. Power(b, n) = Power(b, m) * Power(b, n - m)
  BY <1>1, PowerSum
<1>3. Power(b, m) \in Nat \ {0} /\ Power(b, n - m) \in Nat \ {0}
  BY <1>1, PowerPositive
<1> QED
  BY <1>2, <1>3

-----------------------------------------------------------------------------
(* Digits *)

\* A quotient and a remainder are what division leaves, and nothing else is.
LEMMA Division ==
    ASSUME NEW a \in Nat, NEW b \in Nat \ {0}
    PROVE  a = b * (a \div b) + (a % b) /\ a % b \in 0 .. b - 1 /\ a \div b \in Nat
OBVIOUS

\* There is one quotient and one remainder.
LEMMA DivisionIs ==
    ASSUME NEW a \in Nat, NEW b \in Nat \ {0}, NEW q \in Nat, NEW r \in 0 .. b - 1,
           a = b * q + r
    PROVE  a \div b = q /\ a % b = r
OBVIOUS

\* A digit put in front leaves the others: p is the weight of one of them, and
\* the new one weighs a multiple of base times p.
LEMMA DigitInFront ==
    ASSUME NEW a \in Nat, NEW base \in Nat \ {0}, NEW p \in Nat \ {0}, NEW k \in Nat
    PROVE  ((a + k * base * p) \div p) % base = (a \div p) % base
<1>1. a = p * (a \div p) + (a % p) /\ a % p \in 0 .. p - 1 /\ a \div p \in Nat
  BY Division
<1> DEFINE q == a \div p
           r == a % p
<1> HIDE DEF q, r
<1>2. a = p * q + r /\ r \in 0 .. p - 1 /\ q \in Nat
  BY <1>1 DEF q, r
<1>3. a + k * base * p = p * (q + k * base) + r
  BY <1>2
<1>4. /\ q + k * base \in Nat
      /\ a + k * base * p \in Nat
  BY <1>2
<1>5. (a + k * base * p) \div p = q + k * base
  BY <1>2, <1>3, <1>4, DivisionIs
<1>6. q = base * (q \div base) + (q % base) /\ q % base \in 0 .. base - 1 /\ q \div base \in Nat
  BY <1>2, Division
<1>7. q + k * base = base * ((q \div base) + k) + (q % base) /\ (q \div base) + k \in Nat
  BY <1>2, <1>6
<1>8. (q + k * base) % base = q % base
  BY <1>4, <1>6, <1>7, DivisionIs
<1> QED
  BY <1>5, <1>8 DEF q

\* What the digits below p * base stand for is what those below p do and the
\* digit of p.
LEMMA LowerDigits ==
    ASSUME NEW a \in Nat, NEW base \in Nat \ {0}, NEW p \in Nat \ {0}
    PROVE  a % (base * p) = (a % p) + p * ((a \div p) % base)
<1>1. /\ a = p * (a \div p) + (a % p) /\ a % p \in 0 .. p - 1 /\ a \div p \in Nat
  BY Division
<1> DEFINE q == a \div p
           r == a % p
           d == q % base
           k == q \div base
<1> HIDE DEF q, r, d, k
<1>2. a = p * q + r /\ r \in 0 .. p - 1 /\ q \in Nat
  BY <1>1 DEF q, r
<1>3. q = base * k + d /\ d \in 0 .. base - 1 /\ k \in Nat
  BY <1>2, Division DEF d, k
<1>4. a = (base * p) * k + (p * d + r)
  <2>1. p * q = p * (base * k) + p * d
    BY <1>3
  <2>2. p * (base * k) = (base * p) * k
    BY <1>3
  <2>3. p * d \in Nat /\ (base * p) * k \in Nat
    BY <1>3
  <2> QED
    BY <1>2, <2>1, <2>2, <2>3
<1>5. p * d + r \in 0 .. base * p - 1 /\ base * p \in Nat \ {0}
  <2>1. p * d <= p * (base - 1) /\ p * (base - 1) = base * p - p
    BY <1>3
  <2> QED
    BY <1>2, <1>3, <2>1
<1>6. a % (base * p) = p * d + r
  BY <1>3, <1>4, <1>5, DivisionIs
<1> QED
  BY <1>2, <1>3, <1>6 DEF q, r, d
=============================================================================
