-------------------------- MODULE ArithmeticProofs --------------------------
(***************************************************************************)
(* What the arithmetic of the models computes, for every input.  SumOf:    *)
(* the sum of n values is the sum of the first n - 1 and the last one, and *)
(* changing one value changes the sum by as much.  SdkDec: how far a       *)
(* rounded product or quotient is from the exact one, which every theorem  *)
(* about amounts of money rests on.  SumFunctionOnSet: the sum over a      *)
(* finite set of integers splits, grows and scales with its terms.         *)
(*                                                                         *)
(* The induction library takes operators as parameters; here an induction  *)
(* is a least counterexample.                                              *)
(***************************************************************************)
EXTENDS PrefixSum, SdkDec, Sequences, Functions, FiniteSetTheorems, WellFoundedInduction,
        TLAPS

\* Every non-empty set of natural numbers has a least element.
LEMMA LeastNatural ==
    ASSUME NEW S, S \subseteq Nat, S # {}
    PROVE  \E m \in S : \A k \in S : m <= k
<1> DEFINE R == OpToRel(<, Nat)
<1>1. IsWellFoundedOn(R, Nat)
  BY NatLessThanWellFounded
<1>2. PICK m \in S : \A k \in S : ~ (<<k, m>> \in R)
  <2> HIDE DEF R
  <2> QED BY <1>1, WFMin
<1>3. \A k \in S : ~ (k < m)
  BY <1>2 DEF OpToRel
<1> QED BY <1>3

\* The recursive equation that defines SumOf has a solution on 0..n.
IsPrefixSum(g, f, n) ==
    g = [i \in 0..n |-> IF i = 0 THEN 0 ELSE g[i - 1] + f[i]]

\* The recursion of SumOf is well founded.
LEMMA PrefixSumExists ==
    ASSUME NEW f, NEW n \in Nat
    PROVE  \E g : IsPrefixSum(g, f, n)
<1> DEFINE Bad == {m \in Nat : ~ \E g : IsPrefixSum(g, f, m)}
<1> SUFFICES ASSUME Bad # {} PROVE FALSE
  OBVIOUS
<1>1. PICK m \in Bad : \A k \in Bad : m <= k
  BY LeastNatural
<1>2. m # 0
  <2> DEFINE h == [i \in 0..0 |-> 0]
  <2>1. IsPrefixSum(h, f, 0)
    BY DEF IsPrefixSum
  <2> QED BY <2>1
<1>3. m - 1 \in Nat /\ m - 1 \notin Bad
  BY <1>1, <1>2
<1>4. PICK g : IsPrefixSum(g, f, m - 1)
  BY <1>3
<1> DEFINE h == [i \in 0..m |-> IF i < m THEN g[i] ELSE g[m - 1] + f[m]]
<1>5. IsPrefixSum(h, f, m)
  <2>1. \A i \in 0..m : h[i] = IF i = 0 THEN 0 ELSE h[i - 1] + f[i]
    <3> SUFFICES ASSUME NEW i \in 0..m
                 PROVE  h[i] = IF i = 0 THEN 0 ELSE h[i - 1] + f[i]
      OBVIOUS
    <3>1. CASE i < m
      BY <1>3, <1>4, <3>1 DEF IsPrefixSum
    <3>2. CASE i = m
      BY <1>2, <1>3, <3>2
    <3> QED BY <3>1, <3>2
  <2> QED BY <2>1 DEF IsPrefixSum
<1> QED BY <1>5

\* SumOf is the last value of that solution.
LEMMA SumOfIs ==
    ASSUME NEW f, NEW n \in Nat
    PROVE  \E g : IsPrefixSum(g, f, n) /\ SumOf(f, n) = g[n]
<1> DEFINE g == CHOOSE sum : IsPrefixSum(sum, f, n)
<1>1. IsPrefixSum(g, f, n)
  BY PrefixSumExists, Zenon
<1>2. SumOf(f, n) = g[n]
  BY Zenon DEF SumOf, IsPrefixSum
<1> QED BY <1>1, <1>2

\* Partial sums of integers are integers.
LEMMA PrefixSumType ==
    ASSUME NEW n \in Nat, NEW f \in [1..n -> Int], NEW g, IsPrefixSum(g, f, n)
    PROVE  g \in [0..n -> Int]
<1> DEFINE Bad == {i \in 0..n : g[i] \notin Int}
<1>1. ASSUME Bad # {} PROVE FALSE
  <2>1. PICK m \in Bad : \A k \in Bad : m <= k
    <3>1. Bad \subseteq Nat
      OBVIOUS
    <3> HIDE DEF Bad
    <3> QED BY <1>1, <3>1, LeastNatural
  <2>2. m # 0
    BY DEF IsPrefixSum
  <2>3. g[m - 1] \in Int /\ f[m] \in Int
    BY <2>1, <2>2
  <2> QED BY <2>2, <2>3 DEF IsPrefixSum
<1> QED BY <1>1 DEF IsPrefixSum

\* The sum of integers is an integer.
THEOREM SumOfType ==
    ASSUME NEW n \in Nat, NEW f \in [1..n -> Int]
    PROVE  SumOf(f, n) \in Int
BY SumOfIs, PrefixSumType

\* The sum of zeros is zero.
THEOREM SumOfZero ==
    ASSUME NEW n \in Nat, NEW f, \A i \in 1..n : f[i] = 0
    PROVE  SumOf(f, n) = 0
<1>1. PICK g : IsPrefixSum(g, f, n) /\ SumOf(f, n) = g[n]
  BY SumOfIs
<1> DEFINE Bad == {i \in 0..n : g[i] # 0}
<1>2. ASSUME Bad # {} PROVE FALSE
  <2>1. PICK m \in Bad : \A k \in Bad : m <= k
    <3>1. Bad \subseteq Nat
      OBVIOUS
    <3> HIDE DEF Bad
    <3> QED BY <1>2, <3>1, LeastNatural
  <2>2. m # 0
    BY <1>1 DEF IsPrefixSum
  <2>3. g[m - 1] = 0
    BY <2>1, <2>2
  <2> QED BY <1>1, <2>2, <2>3 DEF IsPrefixSum
<1> QED BY <1>1, <1>2

\* Changing one value changes the sum by the difference.
THEOREM SumOfUpdate ==
    ASSUME NEW n \in Nat, NEW f \in [1..n -> Int], NEW t \in 1..n,
           NEW e \in [1..n -> Int], \A i \in 1..n : i # t => e[i] = f[i]
    PROVE  SumOf(e, n) = SumOf(f, n) + (e[t] - f[t])
<1>1. PICK g : IsPrefixSum(g, f, n) /\ SumOf(f, n) = g[n]
  BY SumOfIs
<1>2. PICK h : IsPrefixSum(h, e, n) /\ SumOf(e, n) = h[n]
  BY SumOfIs
<1>3. g \in [0..n -> Int] /\ h \in [0..n -> Int]
  BY <1>1, <1>2, PrefixSumType
<1> DEFINE d == e[t] - f[t]
           Bad == {i \in 0..n : h[i] # g[i] + IF i < t THEN 0 ELSE d}
<1>4. ASSUME Bad # {} PROVE FALSE
  <2>1. PICK m \in Bad : \A k \in Bad : m <= k
    <3>1. Bad \subseteq Nat
      OBVIOUS
    <3> HIDE DEF Bad
    <3> QED BY <1>4, <3>1, LeastNatural
  <2>2. m # 0
    BY <1>1, <1>2 DEF IsPrefixSum
  <2>3. h[m - 1] = g[m - 1] + IF m - 1 < t THEN 0 ELSE d
    BY <2>1, <2>2
  <2>4. h[m] = h[m - 1] + e[m] /\ g[m] = g[m - 1] + f[m]
    BY <1>1, <1>2, <2>2 DEF IsPrefixSum
  <2>5. h[m] = g[m] + IF m < t THEN 0 ELSE d
    <3>1. m \in 1..n /\ g[m - 1] \in Int /\ h[m - 1] \in Int /\ e[m] \in Int /\ f[m] \in Int
      <4>1. m \in 0..n
        OBVIOUS
      <4> HIDE DEF Bad
      <4>2. m \in 1..n /\ m - 1 \in 0..n
        BY <2>2, <4>1
      <4> QED BY <1>3, <4>2
    <3>2. d \in Int
      OBVIOUS
    <3> HIDE DEF Bad
    <3>3. CASE m = t
      BY <2>3, <2>4, <3>1, <3>2, <3>3
    <3>4. CASE m < t
      <4> HIDE DEF d
      <4> QED BY <2>3, <2>4, <3>1, <3>2, <3>4
    <3>5. CASE m > t
      <4> HIDE DEF d
      <4> QED BY <2>3, <2>4, <3>1, <3>2, <3>5
    <3> QED BY <3>1, <3>3, <3>4, <3>5
  <2> QED BY <2>5
<1>5. h[n] = g[n] + d
  BY <1>4
<1> QED BY <1>1, <1>2, <1>5

\* The sum of natural numbers is one, and no less than any of them.
THEOREM SumOfNat ==
    ASSUME NEW n \in Nat, NEW f \in [1..n -> Nat]
    PROVE  SumOf(f, n) \in Nat /\ \A k \in 1..n : f[k] <= SumOf(f, n)
<1>1. PICK g : IsPrefixSum(g, f, n) /\ SumOf(f, n) = g[n]
  BY SumOfIs
<1>2. g \in [0..n -> Int]
  <2>1. f \in [1..n -> Int]
    OBVIOUS
  <2> QED BY <1>1, <2>1, PrefixSumType
<1>3. ASSUME NEW k \in 0..n, NEW i \in 0..n, k <= i PROVE g[k] <= g[i]
  <2> DEFINE Bad == {j \in 0..n : k <= j /\ g[j] < g[k]}
  <2>1. ASSUME Bad # {} PROVE FALSE
    <3>1. PICK m \in Bad : \A j \in Bad : m <= j
      <4>1. Bad \subseteq Nat
        OBVIOUS
      <4> HIDE DEF Bad
      <4> QED BY <2>1, <4>1, LeastNatural
    <3>2. m - 1 \in 0..n /\ m \in 1..n /\ k <= m - 1 /\ m - 1 \notin Bad
      BY <1>2, <3>1
    <3>3. g[m] < g[k] /\ ~ (g[m - 1] < g[k])
      BY <3>1, <3>2
    <3> HIDE DEF Bad
    <3>4. g[m] = g[m - 1] + f[m]
      BY <1>1, <3>2 DEF IsPrefixSum
    <3>5. f[m] \in Nat /\ g[m - 1] \in Int /\ g[k] \in Int
      BY <1>2, <3>2
    <3> QED BY <3>3, <3>4, <3>5
  <2>2. g[i] \in Int /\ g[k] \in Int /\ ~ (g[i] < g[k])
    BY <1>2, <1>3, <2>1
  <2> QED BY <2>2
<1>4. g[0] = 0 /\ \A i \in 0..n : g[i] \in Int /\ 0 <= g[i]
  BY <1>1, <1>2, <1>3 DEF IsPrefixSum
<1>5. ASSUME NEW k \in 1..n PROVE f[k] <= g[n]
  <2>1. k - 1 \in 0..n /\ k \in 0..n /\ n \in 0..n /\ f[k] \in Nat
    OBVIOUS
  <2>2. g[k] = g[k - 1] + f[k] /\ g[k] <= g[n]
    BY <1>1, <1>3, <2>1 DEF IsPrefixSum
  <2> QED BY <1>4, <2>1, <2>2
<1> QED BY <1>1, <1>4, <1>5

\* Sums over some of the indices.
THEOREM SumOverType ==
    ASSUME NEW n \in Nat, NEW S, NEW f \in [S -> Int]
    PROVE  SumOver(S, f, n) \in Int
<1> DEFINE g == [i \in 1..n |-> IF i \in S THEN f[i] ELSE 0]
<1>1. g \in [1..n -> Int]
  OBVIOUS
<1> HIDE DEF g
<1>2. SumOf(g, n) \in Int
  BY <1>1, SumOfType
<1> QED BY <1>2 DEF SumOver, g

\* The same, for natural numbers.
THEOREM SumOverNat ==
    ASSUME NEW n \in Nat, NEW S, S \subseteq 1..n, NEW f \in [S -> Nat]
    PROVE  SumOver(S, f, n) \in Nat /\ \A k \in S : f[k] <= SumOver(S, f, n)
<1> DEFINE g == [i \in 1..n |-> IF i \in S THEN f[i] ELSE 0]
<1>1. g \in [1..n -> Nat] /\ \A k \in S : k \in 1..n /\ g[k] = f[k]
  OBVIOUS
<1> HIDE DEF g
<1>2. SumOf(g, n) \in Nat /\ \A k \in 1..n : g[k] <= SumOf(g, n)
  BY <1>1, SumOfNat
<1> QED BY <1>1, <1>2 DEF SumOver, g

-----------------------------------------------------------------------------
(* Decimals. *)

\* The product of two decimals is a decimal.
LEMMA MulType ==
    ASSUME NEW a \in Int, NEW b \in Int
    PROVE  Mul(a, b) \in Int
BY ScaleAssumption DEF Mul, ChopPrecisionAndRound, ChopNat

\* So is a quotient, unless the divisor is zero.
LEMMA QuoType ==
    ASSUME NEW a \in Int, NEW b \in Int \ {0}
    PROVE  Quo(a, b) \in Int
BY ScaleAssumption DEF Quo, ChopNat, Abs

\* And the truncated quotient of integers.
LEMMA QuotType ==
    ASSUME NEW a \in Int, NEW b \in Int \ {0}
    PROVE  Quot(a, b) \in Int
BY DEF Quot, Abs

\* big.Int.Sqrt is defined for every natural number.
LEMMA ISqrtType ==
    ASSUME NEW n \in Nat
    PROVE  ISqrt(n) \in Nat
<1> DEFINE Root(k, r) == r * r <= k /\ k < (r + 1) * (r + 1)
           Bad == {k \in Nat : ~ \E r \in 0..k : Root(k, r)}
<1>1. ASSUME Bad # {} PROVE FALSE
  <2>1. PICK m \in Bad : \A k \in Bad : m <= k
    <3>1. Bad \subseteq Nat
      OBVIOUS
    <3> HIDE DEF Bad
    <3> QED BY <1>1, <3>1, LeastNatural
  <2>2. m # 0
    <3>1. 0 \in 0..0 /\ Root(0, 0)
      OBVIOUS
    <3> QED BY <3>1
  <2>3. m - 1 \in Nat /\ m - 1 \notin Bad
    BY <2>1, <2>2
  <2>4. PICK r \in 0..(m - 1) : Root(m - 1, r)
    BY <2>3
  <2>5. r \in 0..m /\ r + 1 \in 0..m
    BY <2>2, <2>4
  <2>6. Root(m, r) \/ Root(m, r + 1)
    BY <2>2, <2>4
  <2> QED BY <2>5, <2>6
<1>2. \E r \in 0..n : Root(n, r)
  BY <1>1
<1>3. ISqrt(n) \in 0..n
  BY <1>2 DEF ISqrt
<1> QED BY <1>3

\* The square root of a decimal is a decimal.
LEMMA MustSqrtDecType ==
    ASSUME NEW d \in Nat
    PROVE  MustSqrtDec(d) \in Int
<1>1. ToDec(ISqrt(d)) \in Int /\ ToDec(SqrtScale) \in Int \ {0}
  BY ISqrtType, ScaleAssumption DEF ToDec
<1> QED BY <1>1, QuoType DEF MustSqrtDec

\* Division with a remainder.
LEMMA DivMod ==
    ASSUME NEW a \in Nat, NEW b \in Nat \ {0}
    PROVE  /\ a \div b \in Nat
           /\ a % b \in Nat
           /\ a % b < b
           /\ a = b * (a \div b) + (a % b)
  BY SMT

\* A positive factor keeps the order.
LEMMA Signs ==
    ASSUME NEW x \in Int, NEW y \in Int, NEW b \in Nat \ {0}
    PROVE  /\ b * x < b * y <=> x < y
           /\ b * x <= b * y <=> x <= y
  BY SMT

\* Rounding a natural number is off by at most a half, and never by one or more.
LEMMA ChopBounds ==
    ASSUME NEW n \in Nat
    PROVE  /\ ChopNat(n) \in Nat
           /\ 2 * (Scale * ChopNat(n)) <= 2 * n + Scale
           /\ n < Scale * (ChopNat(n) + 1)
<1> DEFINE q == n \div Scale
           r == n % Scale
<1>1. /\ q \in Nat /\ r \in Nat /\ r < Scale
      /\ n = Scale * q + r
  BY ScaleAssumption, DivMod, Zenon
<1>2. q >= 0
  BY <1>1
<1>3. ChopNat(n) = q \/ (ChopNat(n) = q + 1 /\ 2 * r >= Scale)
  BY <1>1, ScaleAssumption DEF ChopNat
<1> HIDE DEF q, r
<1>4. Scale * (q + 1) = Scale * q + Scale /\ Scale * (q + 2) = Scale * q + 2 * Scale
  BY <1>1, ScaleAssumption
<1>5. Scale * q \in Int /\ Scale \in Nat
  BY <1>1, ScaleAssumption
<1> DEFINE m == Scale * q
<1>6. CASE ChopNat(n) = q
  BY <1>1, <1>2, <1>4, <1>5, <1>6
<1>7. CASE ChopNat(n) = q + 1 /\ 2 * r >= Scale
  BY <1>1, <1>2, <1>4, <1>5, <1>7
<1> QED BY <1>3, <1>6, <1>7

\* A multiple of Scale is rounded to its multiplier.
LEMMA ChopExact ==
    ASSUME NEW k \in Nat
    PROVE  ChopNat(k * Scale) = k
<1>1. k * Scale \in Nat /\ k * Scale = Scale * k
  BY ScaleAssumption
<1> DEFINE q == ChopNat(k * Scale)
<1>2. q \in Nat /\ 2 * (Scale * q) <= 2 * (Scale * k) + Scale /\ Scale * k < Scale * (q + 1)
  BY <1>1, ChopBounds
<1> HIDE DEF q
<1>3. k < q + 1
  BY <1>2, Signs, ScaleAssumption
<1>4. Scale * (2 * q) <= Scale * (2 * k + 1)
  BY <1>2, ScaleAssumption
<1>5. 2 * q <= 2 * k + 1
  BY <1>2, <1>4, Signs, ScaleAssumption
<1> QED BY <1>2, <1>3, <1>5 DEF q

\* The product of a whole number and a decimal is exact.
LEMMA MulExact ==
    ASSUME NEW i \in Nat, NEW d \in Nat
    PROVE  Mul(ToDec(i), d) = i * d /\ Mul(d, ToDec(i)) = i * d
<1>1. ToDec(i) * d = (i * d) * Scale /\ d * ToDec(i) = (i * d) * Scale
  BY ScaleAssumption DEF ToDec
<1>2. i * d \in Nat /\ ~ ((i * d) * Scale < 0)
  BY ScaleAssumption
<1> QED BY <1>1, <1>2, ChopExact DEF Mul, ChopPrecisionAndRound

\* The product of natural decimals is rounded to the nearest decimal.
LEMMA MulBounds ==
    ASSUME NEW a \in Nat, NEW b \in Nat
    PROVE  /\ Mul(a, b) \in Nat
           /\ 2 * (Scale * Mul(a, b)) <= 2 * (a * b) + Scale
           /\ a * b < Scale * (Mul(a, b) + 1)
<1>1. a * b \in Nat /\ ~ (a * b < 0)
  OBVIOUS
<1>2. Mul(a, b) = ChopNat(a * b)
  BY <1>1 DEF Mul, ChopPrecisionAndRound
<1> QED BY <1>1, <1>2, ChopBounds

\* Truncation.
LEMMA QuotBounds ==
    ASSUME NEW a \in Nat, NEW b \in Nat \ {0}
    PROVE  /\ Quot(a, b) \in Nat
           /\ b * Quot(a, b) <= a
           /\ a < b * (Quot(a, b) + 1)
<1>1. Quot(a, b) = a \div b
  BY DEF Quot, Abs
<1> DEFINE q == a \div b
           r == a % b
<1>2. q \in Nat /\ r \in Nat /\ r < b /\ a = b * q + r
  BY DivMod, Zenon
<1>3. q >= 0
  BY <1>2
<1> HIDE DEF q, r
<1>4. b * (q + 1) = b * q + b /\ b * q \in Int
  BY <1>2
<1>5. b * q <= a /\ a < b * (q + 1)
  BY <1>2, <1>4
<1> QED BY <1>1, <1>2, <1>3, <1>5 DEF q

\* Products distribute over sums.
LEMMA Distribute ==
    ASSUME NEW a \in Int, NEW b \in Int, NEW c \in Int
    PROVE  a * (b + c) = a * b + a * c /\ (b + c) * a = a * b + a * c
  BY SMT

\* Products may be regrouped and exchanged.
LEMMA Associate ==
    ASSUME NEW a \in Int, NEW b \in Int, NEW c \in Int
    PROVE  (a * b) * c = a * (b * c) /\ a * (b * c) = b * (a * c) /\ a * b = b * a
  BY SMT

\* A product of integers is an integer.
LEMMA Products ==
    ASSUME NEW a \in Int, NEW b \in Int
    PROVE  a * b \in Int
  BY SMT

\* The quotient of natural decimals: rounded to the nearest, off by less than one.
LEMMA QuoBounds ==
    ASSUME NEW a \in Nat, NEW b \in Nat \ {0}
    PROVE  /\ Quo(a, b) \in Nat
           /\ 2 * (b * Quo(a, b)) <= 2 * (a * Scale) + b
           /\ a * Scale < b * (Quo(a, b) + 1)
<1> DEFINE n == a * Scale
           x == n \div b
           r == n % b
           m == r * Scale
           y == m \div b
           s == m % b
           digits == x * Scale + y
           q == ChopNat(digits)
<1>0. Scale \in Nat \ {0} /\ n \in Nat
  BY ScaleAssumption
<1>1. Quo(a, b) = q
  BY <1>0 DEF Quo, Abs
<1>2. x \in Nat /\ r \in Nat /\ r < b /\ n = b * x + r
  BY <1>0, DivMod, Zenon
<1>3. x \in Nat
  BY <1>2
<1> HIDE DEF n, x, r
<1>4. m \in Nat /\ m = r * Scale
  BY <1>0, <1>2
<1> HIDE DEF m
<1>5. y \in Nat /\ s \in Nat /\ s < b /\ m = b * y + s
  BY <1>4, DivMod, Zenon
<1>6. y \in Nat
  BY <1>5
<1> HIDE DEF y, s
<1>7. digits \in Nat
  BY <1>0, <1>3, <1>6
<1>8. b * digits + s = n * Scale
  <2>1. n * Scale = (b * x) * Scale + r * Scale
    BY <1>0, <1>2, Distribute, Products, Associate
  <2>2. b * digits = b * (x * Scale) + b * y
    BY <1>0, <1>3, <1>6, Distribute, Products
  <2>3. b * (x * Scale) = (b * x) * Scale
    BY <1>0, <1>3, Associate
  <2> QED BY <1>0, <1>2, <1>3, <1>4, <1>5, <2>1, <2>2, <2>3, Products
<1> HIDE DEF digits
<1>9. q \in Nat /\ 2 * (Scale * q) <= 2 * digits + Scale /\ digits < Scale * (q + 1)
  BY <1>7, ChopBounds
<1> HIDE DEF q
<1>10. 2 * (b * q) <= 2 * n + b
  <2>1. b * (2 * (Scale * q)) <= b * (2 * digits + Scale)
    BY <1>0, <1>7, <1>9, Signs, Products
  <2>2. b * (2 * (Scale * q)) = Scale * (2 * (b * q))
    BY <1>0, <1>9, SMT
  <2>3. b * (2 * digits + Scale) = 2 * (b * digits) + b * Scale
    BY <1>0, <1>7, SMT
  <2>4. Scale * (2 * n + b) = 2 * (n * Scale) + b * Scale
    BY <1>0, SMT
  <2>5. Scale * (2 * (b * q)) <= Scale * (2 * n + b)
    BY <1>0, <1>5, <1>7, <1>8, <1>9, <2>1, <2>2, <2>3, <2>4, Products
  <2>6. 2 * (b * q) \in Int /\ 2 * n + b \in Int
    BY <1>0, <1>9, Products
  <2> QED BY <1>0, <2>5, <2>6, Signs
<1>11. n < b * (q + 1)
  <2>1. digits + 1 <= Scale * (q + 1)
    BY <1>0, <1>7, <1>9, Products
  <2>2. b * (digits + 1) <= b * (Scale * (q + 1))
    BY <1>0, <1>7, <1>9, <2>1, Signs, Products
  <2>3. b * (digits + 1) = b * digits + b /\ b * digits \in Int
    BY <1>7, SMT
  <2>4. b * (Scale * (q + 1)) = Scale * (b * (q + 1))
    BY <1>0, <1>9, Associate
  <2>5. Scale * n < Scale * (b * (q + 1))
    BY <1>0, <1>5, <1>8, <1>9, <2>2, <2>3, <2>4, Products, Associate
  <2>6. b * (q + 1) \in Int
    BY <1>9, Products
  <2> QED BY <1>0, <2>5, <2>6, Signs
<1> QED BY <1>1, <1>9, <1>10, <1>11 DEF n

\* Rounding up to a whole number adds less than one.
LEMMA CeilBounds ==
    ASSUME NEW d \in Nat
    PROVE  /\ CeilInt(d) \in Nat
           /\ d <= Scale * CeilInt(d)
           /\ Scale * CeilInt(d) < d + Scale
<1> DEFINE q == Quot(d, Scale)
<1>1. q \in Nat /\ Scale * q <= d /\ d < Scale * (q + 1)
  BY QuotBounds, ScaleAssumption, Zenon
<1>2. CeilInt(d) = IF d > q * Scale THEN q + 1 ELSE q
  BY Zenon DEF CeilInt
<1> HIDE DEF q
<1>3. /\ q \in Nat /\ Scale * q <= d /\ d < Scale * (q + 1)
      /\ Scale \in Nat /\ Scale * q \in Nat
      /\ Scale * (q + 1) = Scale * q + Scale /\ q * Scale = Scale * q
  BY <1>1, ScaleAssumption
<1>4. CASE d > Scale * q
  <2>1. CeilInt(d) = q + 1
    BY <1>3, <1>2, <1>4
  <2> QED BY <1>3, <1>4, <2>1, ScaleAssumption
<1>5. CASE ~ (d > Scale * q)
  <2>1. CeilInt(d) = q
    BY <1>3, <1>2, <1>5
  <2> QED BY <1>3, <1>5, <2>1, ScaleAssumption
<1> QED BY <1>4, <1>5

\* A negative quotient is not rounded up above zero.
LEMMA CeilNegative ==
    ASSUME NEW a \in Int, a < 0, NEW b \in Nat \ {0}
    PROVE  CeilInt(Quo(a, b)) \in Int /\ CeilInt(Quo(a, b)) <= 0
<1> DEFINE c == Quo(-a, b)
<1>1. c \in Nat
  BY QuoBounds
<1>2. Quo(a, b) = -c
  BY ScaleAssumption DEF Quo, Abs
<1> HIDE DEF c
<1> DEFINE q == Quot(c, Scale)
<1>3. q \in Nat /\ Scale * q <= c
  BY <1>1, QuotBounds, ScaleAssumption, Zenon
<1>4. Quot(-c, Scale) = -q
  BY <1>1, ScaleAssumption DEF Quot, Abs
<1> HIDE DEF q
<1>5. Scale * q \in Nat /\ (-q) * Scale = -(Scale * q)
  BY <1>3, ScaleAssumption
<1>6. CeilInt(-c) = IF -c > (-q) * Scale THEN -q + 1 ELSE -q
  BY <1>4, Zenon DEF CeilInt
<1>7. ~ (-c > (-q) * Scale)
  BY <1>1, <1>3, <1>5
<1> QED BY <1>2, <1>3, <1>6, <1>7

-----------------------------------------------------------------------------
(* Sums over finite sets. *)

\* The element that the fold of a set takes first.
First(s) == CHOOSE x \in s : TRUE

\* The recursion of SumFunctionOnSet.
IsSum(g, f, S) ==
    g = [s \in SUBSET S |-> IF s = {} THEN 0 ELSE f[First(s)] + g[s \ {First(s)}]]

\* What SumFunctionOnSet is by its definition.
LEMMA SumIs ==
    ASSUME NEW f, NEW S
    PROVE SumFunctionOnSet(f, S) = (CHOOSE g : IsSum(g, f, S))[S]
BY Zenon DEF SumFunctionOnSet, FoldFunctionOnSet, MapThenFoldSet, IsSum, First

\* Taking the first element makes a finite set smaller.
LEMMA Smaller ==
    ASSUME NEW S, IsFiniteSet(S), S # {}
    PROVE  /\ First(S) \in S
           /\ IsFiniteSet(S \ {First(S)})
           /\ Cardinality(S) \in Nat /\ Cardinality(S \ {First(S)}) \in Nat
           /\ Cardinality(S \ {First(S)}) < Cardinality(S)
<1>1. First(S) \in S
  BY Zenon DEF First
<1> DEFINE x == First(S)
<1> HIDE DEF x
<1>2. IsFiniteSet(S \ {x}) /\ (x \in S => Cardinality(S \ {x}) = Cardinality(S) - 1)
  BY FS_RemoveElement
<1>3. Cardinality(S) \in Nat /\ Cardinality(S \ {x}) \in Nat
  BY <1>2, FS_CardinalityType
<1>4. x \in S => Cardinality(S \ {x}) < Cardinality(S)
  BY <1>2, <1>3
<1> QED BY <1>1, <1>2, <1>3, <1>4 DEF x

\* Two such functions agree where both are defined.
LEMMA SumUnique ==
    ASSUME NEW f, NEW S, NEW T, IsFiniteSet(S), NEW g, IsSum(g, f, S), NEW h, IsSum(h, f, T),
           NEW u, u \subseteq S, u \subseteq T
    PROVE  g[u] = h[u]
<1> DEFINE Differ(s) == s \subseteq S /\ s \subseteq T /\ g[s] # h[s]
           Bad == {n \in Nat : \E s \in SUBSET S : Differ(s) /\ Cardinality(s) = n}
<1>1. \A s \in SUBSET S : IsFiniteSet(s) /\ Cardinality(s) \in Nat
  BY FS_Subset, FS_CardinalityType
<1>2. ASSUME Bad # {} PROVE FALSE
  <2>1. PICK n \in Bad : \A k \in Bad : n <= k
    <3>1. Bad \subseteq Nat
      OBVIOUS
    <3> HIDE DEF Bad
    <3> QED BY <1>2, <3>1, LeastNatural
  <2>2. PICK s \in SUBSET S : Differ(s) /\ Cardinality(s) = n
    OBVIOUS
  <2>3. s # {}
    BY <2>2 DEF IsSum
  <2> DEFINE r == s \ {First(s)}
  <2>4. g[s] = f[First(s)] + g[r] /\ h[s] = f[First(s)] + h[r]
    BY <2>2, <2>3 DEF IsSum
  <2>5. r \in SUBSET S /\ r \subseteq T /\ Cardinality(r) \in Nat /\ Cardinality(r) < n
    BY <1>1, <2>2, <2>3, Smaller
  <2>6. g[r] = h[r]
    <3> HIDE DEF r
    <3> QED BY <2>1, <2>5
  <2> QED BY <2>2, <2>4, <2>6
<1> QED BY <1>1, <1>2

\* The recursion is well founded, and a step of it is a step of the sum.
HasSum(f, S) == \E g : IsSum(g, f, S)
\* The value of a sum is that of any function that satisfies the recursion.
LEMMA SumValue ==
    ASSUME NEW f, NEW S, IsFiniteSet(S), HasSum(f, S), NEW g, IsSum(g, f, S)
    PROVE  SumFunctionOnSet(f, S) = g[S]
<1> DEFINE h == CHOOSE x : IsSum(x, f, S)
<1>1. IsSum(h, f, S)
  BY Zenon DEF HasSum
<1>2. SumFunctionOnSet(f, S) = h[S]
  BY SumIs
<1> HIDE DEF h
<1> QED BY <1>1, <1>2, SumUnique

\* Over a finite set the recursion has a solution.
LEMMA SumExists ==
    ASSUME NEW f, NEW S, IsFiniteSet(S)
    PROVE  HasSum(f, S)
<1> DEFINE Bad == {n \in Nat : \E T : IsFiniteSet(T) /\ Cardinality(T) = n /\ ~ HasSum(f, T)}
<1>1. ASSUME Bad # {} PROVE FALSE
  <2>1. PICK n \in Bad : \A k \in Bad : n <= k
    <3>1. Bad \subseteq Nat
      OBVIOUS
    <3> HIDE DEF Bad
    <3> QED BY <1>1, <3>1, LeastNatural
  <2>2. PICK T : IsFiniteSet(T) /\ Cardinality(T) = n /\ ~ HasSum(f, T)
    OBVIOUS
  <2>3. ASSUME NEW s, IsFiniteSet(s), Cardinality(s) < n PROVE HasSum(f, s)
    BY <2>1, <2>3, FS_CardinalityType
  <2> HIDE DEF Bad
  <2> DEFINE g == [s \in SUBSET T |->
                     IF s = {} THEN 0
                     ELSE f[First(s)] + SumFunctionOnSet(f, s \ {First(s)})]
  <2>4. ASSUME NEW s \in SUBSET T, s # {}
        PROVE  SumFunctionOnSet(f, s \ {First(s)}) = g[s \ {First(s)}]
    <3> DEFINE r == s \ {First(s)}
    <3>1. IsFiniteSet(s) /\ Cardinality(s) <= n
      BY <2>2, FS_Subset
    <3>2. IsFiniteSet(r) /\ r \in SUBSET T /\ Cardinality(r) \in Nat /\ Cardinality(r) < n
      BY <2>2, <2>4, <3>1, Smaller, FS_CardinalityType
    <3> HIDE DEF r
    <3>3. PICK h : IsSum(h, f, r)
      BY <2>3, <3>2 DEF HasSum
    <3>4. SumFunctionOnSet(f, r) = h[r]
      BY <3>2, <3>3, SumValue DEF HasSum
    <3>5. CASE r = {}
      BY <3>3, <3>4, <3>5 DEF IsSum, r
    <3>6. CASE r # {}
      <4> DEFINE q == r \ {First(r)}
      <4>1. h[r] = f[First(r)] + h[q]
        BY <3>3, <3>6 DEF IsSum
      <4>2. IsFiniteSet(q) /\ q \subseteq r /\ Cardinality(q) < n
        BY <3>2, <3>6, Smaller, <2>2, FS_CardinalityType
      <4>3. g[r] = f[First(r)] + SumFunctionOnSet(f, q)
        BY <3>2, <3>6
      <4> HIDE DEF q, g
      <4>4. PICK k : IsSum(k, f, q)
        BY <2>3, <4>2 DEF HasSum
      <4>5. SumFunctionOnSet(f, q) = k[q]
        BY <4>2, <4>4, SumValue DEF HasSum
      <4>6. k[q] = h[q]
        BY <3>2, <3>3, <4>2, <4>4, SumUnique
      <4>7. g[r] = SumFunctionOnSet(f, r)
        BY <3>4, <4>1, <4>3, <4>5, <4>6
      <4> QED BY <4>7 DEF r
    <3> QED BY <3>5, <3>6 DEF r
  <2>5. IsSum(g, f, T)
    <3>1. g = [s \in SUBSET T |-> IF s = {} THEN 0 ELSE f[First(s)] + g[s \ {First(s)}]]
      BY <2>4
    <3> HIDE DEF g
    <3> QED BY <3>1, Zenon DEF IsSum
  <2> HIDE DEF g
  <2> QED BY <2>2, <2>5 DEF HasSum
<1> QED BY <1>1, FS_CardinalityType

\* The sum takes one element off the set at a time.
LEMMA SumStep ==
    ASSUME NEW f, NEW S, IsFiniteSet(S)
    PROVE  /\ S = {} => SumFunctionOnSet(f, S) = 0
           /\ S # {} => SumFunctionOnSet(f, S)
                          = f[First(S)] + SumFunctionOnSet(f, S \ {First(S)})
<1>1. PICK g : IsSum(g, f, S)
  BY SumExists DEF HasSum
<1>2. SumFunctionOnSet(f, S) = g[S]
  BY <1>1, SumExists, SumValue
<1>3. ASSUME S # {}
      PROVE  SumFunctionOnSet(f, S) = f[First(S)] + SumFunctionOnSet(f, S \ {First(S)})
  <2> DEFINE r == S \ {First(S)}
  <2>1. g[S] = f[First(S)] + g[r]
    BY <1>1, <1>3 DEF IsSum
  <2>2. IsFiniteSet(r) /\ r \subseteq S
    BY <1>3, Smaller
  <2> HIDE DEF r
  <2>3. PICK h : IsSum(h, f, r)
    BY <2>2, SumExists DEF HasSum
  <2>4. SumFunctionOnSet(f, r) = h[r]
    BY <2>2, <2>3, SumExists, SumValue
  <2>5. g[r] = h[r]
    BY <1>1, <2>2, <2>3, SumUnique
  <2>6. SumFunctionOnSet(f, S) = f[First(S)] + SumFunctionOnSet(f, r)
    BY <1>2, <2>1, <2>4, <2>5
  <2> QED BY <2>6 DEF r
<1>4. S = {} => g[S] = 0
  BY <1>1 DEF IsSum
<1> QED BY <1>2, <1>3, <1>4

\* The sum over no element is zero.
LEMMA SumEmpty ==
    ASSUME NEW f
    PROVE  SumFunctionOnSet(f, {}) = 0
BY SumStep, FS_EmptySet

\* A set of subsets of a finite set has a member that contains no other.
LEMMA LeastSubset ==
    ASSUME NEW S, IsFiniteSet(S), NEW B, B \subseteq SUBSET S, B # {}
    PROVE  \E T \in B : IsFiniteSet(T) /\ \A U \in SUBSET T : U # T => U \notin B
<1> DEFINE sizes == {Cardinality(T) : T \in B}
<1>1. \A T \in B : IsFiniteSet(T) /\ Cardinality(T) \in Nat
  BY FS_Subset, FS_CardinalityType
<1>2. PICK n \in sizes : \A k \in sizes : n <= k
  <2>1. sizes \subseteq Nat /\ sizes # {}
    BY <1>1
  <2> HIDE DEF sizes
  <2> QED BY <2>1, LeastNatural
<1>3. PICK T \in B : Cardinality(T) = n
  OBVIOUS
<1>4. ASSUME NEW U \in SUBSET T, U # T, U \in B PROVE FALSE
  <2>1. Cardinality(U) <= Cardinality(T) /\ Cardinality(U) # Cardinality(T)
    BY <1>1, <1>4, FS_Subset
  <2>2. Cardinality(U) \in Nat /\ Cardinality(T) \in Nat /\ n <= Cardinality(U)
    BY <1>1, <1>2, <1>4
  <2> QED BY <1>3, <2>1, <2>2
<1> QED BY <1>1, <1>4

\* A sum of integers is an integer.
IntOn(f, S) == \A x \in S : f[x] \in Int
\* Sums of integers are integers.
LEMMA SumInt ==
    ASSUME NEW f, NEW S, IsFiniteSet(S), IntOn(f, S)
    PROVE  SumFunctionOnSet(f, S) \in Int
<1> DEFINE Bad == {T \in SUBSET S : SumFunctionOnSet(f, T) \notin Int}
<1>1. ASSUME Bad # {} PROVE FALSE
  <2>1. PICK T \in Bad : IsFiniteSet(T) /\ \A U \in SUBSET T : U # T => U \notin Bad
    <3>1. Bad \subseteq SUBSET S
      OBVIOUS
    <3> HIDE DEF Bad
    <3> QED BY <1>1, <3>1, LeastSubset
  <2>2. ASSUME T = {} PROVE FALSE
    <3>1. SumFunctionOnSet(f, T) = 0
      BY <2>2, SumEmpty, Zenon
    <3> QED BY <2>1, <3>1
  <2> DEFINE x == First(T)
             r == T \ {x}
  <2>3. x \in T
    BY <2>1, <2>2, Smaller
  <2>4. SumFunctionOnSet(f, T) = f[x] + SumFunctionOnSet(f, r)
    BY <2>1, <2>2, SumStep
  <2> HIDE DEF x
  <2>5. SumFunctionOnSet(f, r) \in Int /\ f[x] \in Int
    BY <2>1, <2>3 DEF IntOn
  <2> QED BY <2>4, <2>5
<1> QED BY <1>1

\* The order of the elements is of no account: any one can be taken out.
LEMMA SumRemove ==
    ASSUME NEW f, NEW S, IsFiniteSet(S), IntOn(f, S), NEW y \in S
    PROVE  SumFunctionOnSet(f, S) = f[y] + SumFunctionOnSet(f, S \ {y})
<1> DEFINE Bad == {T \in SUBSET S : \E z \in T :
                      SumFunctionOnSet(f, T) # f[z] + SumFunctionOnSet(f, T \ {z})}
<1>1. ASSUME Bad # {} PROVE FALSE
  <2>1. PICK T \in Bad : IsFiniteSet(T) /\ \A U \in SUBSET T : U # T => U \notin Bad
    <3>1. Bad \subseteq SUBSET S
      OBVIOUS
    <3> HIDE DEF Bad
    <3> QED BY <1>1, <3>1, LeastSubset
  <2>2. PICK z \in T : SumFunctionOnSet(f, T) # f[z] + SumFunctionOnSet(f, T \ {z})
    BY <2>1
  <2> DEFINE x == First(T)
             tx == T \ {x}
             tz == T \ {z}
             txz == tx \ {z}
  <2>3. x \in T
    BY <2>1, <2>2, Smaller
  <2>4. SumFunctionOnSet(f, T) = f[x] + SumFunctionOnSet(f, tx)
    BY <2>1, <2>2, SumStep
  <2> HIDE DEF x
  <2>5. z # x
    BY <2>2, <2>4
  <2>6. SumFunctionOnSet(f, tx) = f[z] + SumFunctionOnSet(f, txz)
    <3>1. tx \in SUBSET S /\ tx \notin Bad /\ z \in tx
      BY <2>1, <2>3, <2>5
    <3> HIDE DEF tx
    <3> QED BY <3>1
  <2>7. SumFunctionOnSet(f, tz) = f[x] + SumFunctionOnSet(f, txz)
    <3>1. tz \in SUBSET S /\ tz \notin Bad /\ x \in tz /\ tz \ {x} = txz
      BY <2>1, <2>3, <2>5
    <3> HIDE DEF tz, txz
    <3> QED BY <3>1
  <2>8. f[x] \in Int /\ f[z] \in Int /\ SumFunctionOnSet(f, txz) \in Int
    <3>1. IsFiniteSet(txz) /\ IntOn(f, txz)
      BY <2>1, FS_RemoveElement DEF IntOn
    <3>2. SumFunctionOnSet(f, txz) \in Int
      <4> HIDE DEF txz
      <4> QED BY <3>1, SumInt
    <3> QED BY <2>1, <2>3, <3>2 DEF IntOn
  <2> HIDE DEF tx, tz, txz
  <2>9. SumFunctionOnSet(f, T) = f[z] + SumFunctionOnSet(f, tz)
    BY <2>4, <2>6, <2>7, <2>8
  <2> QED BY <2>2, <2>9 DEF tz
<1> QED BY <1>1

\* A sum with larger terms is larger.
LEMMA SumLe ==
    ASSUME NEW S, IsFiniteSet(S), NEW f, NEW g, IntOn(f, S), IntOn(g, S),
           \A x \in S : f[x] <= g[x]
    PROVE  SumFunctionOnSet(f, S) <= SumFunctionOnSet(g, S)
<1> DEFINE Bad == {T \in SUBSET S : ~ (SumFunctionOnSet(f, T) <= SumFunctionOnSet(g, T))}
<1>1. ASSUME Bad # {} PROVE FALSE
  <2>1. PICK T \in Bad : IsFiniteSet(T) /\ \A U \in SUBSET T : U # T => U \notin Bad
    <3>1. Bad \subseteq SUBSET S
      OBVIOUS
    <3> HIDE DEF Bad
    <3> QED BY <1>1, <3>1, LeastSubset
  <2>2. ASSUME T = {} PROVE FALSE
    <3>1. SumFunctionOnSet(f, T) = 0 /\ SumFunctionOnSet(g, T) = 0
      BY <2>2, SumEmpty, Zenon
    <3> QED BY <2>1, <3>1
  <2> DEFINE x == First(T)
             r == T \ {x}
  <2>3. x \in T /\ IsFiniteSet(r)
    BY <2>1, <2>2, Smaller
  <2>4. /\ SumFunctionOnSet(f, T) = f[x] + SumFunctionOnSet(f, r)
        /\ SumFunctionOnSet(g, T) = g[x] + SumFunctionOnSet(g, r)
    BY <2>1, <2>2, SumStep
  <2> HIDE DEF x
  <2>5. /\ SumFunctionOnSet(f, r) <= SumFunctionOnSet(g, r)
        /\ f[x] \in Int /\ g[x] \in Int /\ f[x] <= g[x]
        /\ IntOn(f, r) /\ IntOn(g, r)
    BY <2>1, <2>3 DEF IntOn
  <2> HIDE DEF r
  <2>6. SumFunctionOnSet(f, r) \in Int /\ SumFunctionOnSet(g, r) \in Int
    BY <2>3, <2>5, SumInt
  <2>7. SumFunctionOnSet(f, T) <= SumFunctionOnSet(g, T)
    BY <2>4, <2>5, <2>6
  <2> QED BY <2>1, <2>7
<1> QED BY <1>1

\* So the sum depends on the terms alone,
LEMMA SumEqual ==
    ASSUME NEW S, IsFiniteSet(S), NEW f, NEW g, IntOn(f, S), \A x \in S : f[x] = g[x]
    PROVE  SumFunctionOnSet(f, S) = SumFunctionOnSet(g, S)
<1>1. IntOn(g, S) /\ \A x \in S : f[x] <= g[x] /\ g[x] <= f[x]
  BY DEF IntOn
<1>2. SumFunctionOnSet(f, S) <= SumFunctionOnSet(g, S)
      /\ SumFunctionOnSet(g, S) <= SumFunctionOnSet(f, S)
  BY <1>1, SumLe
<1>3. SumFunctionOnSet(f, S) \in Int /\ SumFunctionOnSet(g, S) \in Int
  BY <1>1, SumInt
<1> QED BY <1>2, <1>3

\* and is linear in them.
LEMMA SumLinear ==
    ASSUME NEW S, IsFiniteSet(S), NEW f, NEW g, NEW h, IntOn(f, S), IntOn(g, S),
           NEW c \in Int, \A x \in S : h[x] = f[x] + c * g[x]
    PROVE  SumFunctionOnSet(h, S) = SumFunctionOnSet(f, S) + c * SumFunctionOnSet(g, S)
<1> DEFINE Bad == {T \in SUBSET S : SumFunctionOnSet(h, T)
                                      # SumFunctionOnSet(f, T) + c * SumFunctionOnSet(g, T)}
<1>1. ASSUME Bad # {} PROVE FALSE
  <2>1. PICK T \in Bad : IsFiniteSet(T) /\ \A U \in SUBSET T : U # T => U \notin Bad
    <3>1. Bad \subseteq SUBSET S
      OBVIOUS
    <3> HIDE DEF Bad
    <3> QED BY <1>1, <3>1, LeastSubset
  <2>2. ASSUME T = {} PROVE FALSE
    <3>1. SumFunctionOnSet(f, T) = 0 /\ SumFunctionOnSet(g, T) = 0 /\ SumFunctionOnSet(h, T) = 0
      BY <2>2, SumEmpty, Zenon
    <3> QED BY <2>1, <3>1
  <2> DEFINE x == First(T)
             r == T \ {x}
  <2>3. x \in T /\ IsFiniteSet(r)
    BY <2>1, <2>2, Smaller
  <2>4. /\ SumFunctionOnSet(f, T) = f[x] + SumFunctionOnSet(f, r)
        /\ SumFunctionOnSet(g, T) = g[x] + SumFunctionOnSet(g, r)
        /\ SumFunctionOnSet(h, T) = h[x] + SumFunctionOnSet(h, r)
    BY <2>1, <2>2, SumStep
  <2> HIDE DEF x
  <2>5. /\ SumFunctionOnSet(h, r) = SumFunctionOnSet(f, r) + c * SumFunctionOnSet(g, r)
        /\ f[x] \in Int /\ g[x] \in Int /\ h[x] = f[x] + c * g[x]
        /\ IntOn(f, r) /\ IntOn(g, r)
    BY <2>1, <2>3 DEF IntOn
  <2> HIDE DEF r
  <2>6. SumFunctionOnSet(f, r) \in Int /\ SumFunctionOnSet(g, r) \in Int
    BY <2>3, <2>5, SumInt
  <2> DEFINE gr == SumFunctionOnSet(g, r)
             fr == SumFunctionOnSet(f, r)
  <2>7. c * (g[x] + gr) = c * g[x] + c * gr
    <3> HIDE DEF gr
    <3>1. gr \in Int
      BY <2>6 DEF gr
    <3> QED BY <2>5, <3>1, Distribute
  <2>8. c * g[x] \in Int /\ c * gr \in Int
    BY <2>5, <2>6, Products
  <2>9. SumFunctionOnSet(h, T) = SumFunctionOnSet(f, T) + c * SumFunctionOnSet(g, T)
    <3> DEFINE cg == c * g[x]
               cr == c * gr
    <3>1. /\ SumFunctionOnSet(h, T) = (f[x] + cg) + (fr + cr)
          /\ SumFunctionOnSet(f, T) = f[x] + fr
          /\ c * SumFunctionOnSet(g, T) = cg + cr
      BY <2>4, <2>5, <2>7
    <3>2. fr \in Int /\ f[x] \in Int /\ cg \in Int /\ cr \in Int
      BY <2>5, <2>6, <2>8
    <3> HIDE DEF cg, cr, fr
    <3> QED BY <3>1, <3>2
  <2> QED BY <2>1, <2>9
<1> QED BY <1>1

\* Terms that are zero can be left out.
LEMMA SumSubset ==
    ASSUME NEW S, IsFiniteSet(S), NEW f, IntOn(f, S), NEW V, V \subseteq S,
           \A x \in S \ V : f[x] = 0
    PROVE  SumFunctionOnSet(f, S) = SumFunctionOnSet(f, V)
<1> DEFINE Bad == {T \in SUBSET S : V \subseteq T
                                      /\ SumFunctionOnSet(f, T) # SumFunctionOnSet(f, V)}
<1>1. ASSUME Bad # {} PROVE FALSE
  <2>1. PICK T \in Bad : IsFiniteSet(T) /\ \A U \in SUBSET T : U # T => U \notin Bad
    <3>1. Bad \subseteq SUBSET S
      OBVIOUS
    <3> HIDE DEF Bad
    <3> QED BY <1>1, <3>1, LeastSubset
  <2>2. PICK z \in T : z \notin V
    <3>1. V \subseteq T /\ T # V
      BY <2>1
    <3> HIDE DEF Bad
    <3> QED BY <3>1
  <2> DEFINE r == T \ {z}
  <2>3. SumFunctionOnSet(f, T) = f[z] + SumFunctionOnSet(f, r)
    BY <2>1, SumRemove DEF IntOn
  <2>4. f[z] = 0 /\ SumFunctionOnSet(f, r) = SumFunctionOnSet(f, V)
    BY <2>1, <2>2
  <2>5. IsFiniteSet(V) /\ IntOn(f, V)
    BY FS_Subset DEF IntOn
  <2>6. SumFunctionOnSet(f, V) \in Int
    BY <2>5, SumInt
  <2> HIDE DEF r
  <2> QED BY <2>1, <2>3, <2>4, <2>6
<1> QED BY <1>1

\* A sum of natural numbers is one.
LEMMA SumNatural ==
    ASSUME NEW S, IsFiniteSet(S), NEW f, \A x \in S : f[x] \in Nat
    PROVE  SumFunctionOnSet(f, S) \in Nat
<1> DEFINE zero == [x \in S |-> 0]
<1>1. IntOn(zero, S) /\ IntOn(f, S) /\ \A x \in S : zero[x] <= f[x]
  BY DEF IntOn
<1>2. \A x \in S \ {} : zero[x] = 0
  OBVIOUS
<1> HIDE DEF zero
<1>3. SumFunctionOnSet(zero, S) = SumFunctionOnSet(zero, {})
  BY <1>1, <1>2, SumSubset
<1>4. SumFunctionOnSet(zero, S) = 0
  BY <1>3, SumEmpty, Zenon
<1>5. SumFunctionOnSet(zero, S) <= SumFunctionOnSet(f, S)
  BY <1>1, SumLe
<1>6. SumFunctionOnSet(f, S) \in Int
  BY <1>1, SumInt
<1> QED BY <1>4, <1>5, <1>6

\* A sum is that of two parts.
LEMMA SumSplit ==
    ASSUME NEW S, IsFiniteSet(S), NEW f, IntOn(f, S), NEW V, V \subseteq S
    PROVE  SumFunctionOnSet(f, S) = SumFunctionOnSet(f, V) + SumFunctionOnSet(f, S \ V)
<1> DEFINE in == [x \in S |-> IF x \in V THEN f[x] ELSE 0]
           out == [x \in S |-> IF x \in V THEN 0 ELSE f[x]]
           W == S \ V
<1>1. /\ IntOn(in, S) /\ IntOn(out, S)
      /\ IntOn(in, V) /\ IntOn(out, W)
      /\ \A x \in S : f[x] = in[x] + 1 * out[x]
      /\ \A x \in S \ V : in[x] = 0
      /\ \A x \in S \ W : out[x] = 0
      /\ \A x \in V : in[x] = f[x]
      /\ \A x \in W : out[x] = f[x]
      /\ W \subseteq S
  BY DEF IntOn
<1>2. IsFiniteSet(V) /\ IsFiniteSet(W)
  BY <1>1, FS_Subset
<1> HIDE DEF in, out, W
<1>3. SumFunctionOnSet(f, S) = SumFunctionOnSet(in, S) + 1 * SumFunctionOnSet(out, S)
  BY <1>1, SumLinear
<1>4. SumFunctionOnSet(in, S) = SumFunctionOnSet(in, V)
  BY <1>1, SumSubset
<1>5. SumFunctionOnSet(in, V) = SumFunctionOnSet(f, V)
  BY <1>1, <1>2, SumEqual
<1>6. SumFunctionOnSet(out, S) = SumFunctionOnSet(out, W)
  BY <1>1, SumSubset
<1>7. SumFunctionOnSet(out, W) = SumFunctionOnSet(f, W)
  BY <1>1, <1>2, SumEqual
<1>8. SumFunctionOnSet(out, S) \in Int
  BY <1>1, SumInt
<1>9. SumFunctionOnSet(f, S) = SumFunctionOnSet(f, V) + SumFunctionOnSet(f, W)
  BY <1>3, <1>4, <1>5, <1>6, <1>7, <1>8
<1> QED BY <1>9 DEF W

\* A finite set of integers has a least element.
LEMMA LeastInteger ==
    ASSUME NEW S, IsFiniteSet(S), S \subseteq Int, S # {}
    PROVE  \E m \in S : \A k \in S : m <= k
<1> DEFINE Bad == {T \in SUBSET S : T # {} /\ ~ \E m \in T : \A k \in T : m <= k}
<1> SUFFICES Bad = {}
  BY FS_Subset
<1> SUFFICES ASSUME Bad # {} PROVE FALSE
  OBVIOUS
<1>1. PICK T \in Bad : IsFiniteSet(T) /\ \A U \in SUBSET T : U # T => U \notin Bad
  <2>1. Bad \subseteq SUBSET S
    OBVIOUS
  <2> HIDE DEF Bad
  <2> QED BY <2>1, LeastSubset
<1>2. PICK x \in T : TRUE
  OBVIOUS
<1>3. T \ {x} = {} \/ \E m \in T \ {x} : \A k \in T \ {x} : m <= k
  <2>1. T \ {x} \in SUBSET T /\ T \ {x} # T /\ T \ {x} \in SUBSET S
    OBVIOUS
  <2> QED BY <1>1, <2>1
<1>4. CASE T \ {x} = {}
  <2>1. \A k \in T : x <= k
    BY <1>2, <1>4
  <2> QED BY <1>2, <2>1
<1>5. ASSUME NEW m \in T \ {x}, \A k \in T \ {x} : m <= k PROVE FALSE
  <2>1. m \in Int /\ x \in Int /\ \A k \in T : k \in Int
    BY <1>2
  <2>2. CASE x <= m
    <3>1. \A k \in T : x <= k
      BY <1>5, <2>1, <2>2
    <3> QED BY <1>2, <3>1
  <2>3. CASE m <= x
    <3>1. \A k \in T : m <= k
      BY <1>5, <2>1, <2>3
    <3> QED BY <1>5, <3>1
  <2> QED BY <2>1, <2>2, <2>3
<1> QED BY <1>3, <1>4, <1>5

\* The values that a function takes on a finite set are finitely many.
LEMMA FiniteImage ==
    ASSUME NEW S, IsFiniteSet(S), NEW f
    PROVE  IsFiniteSet({f[x] : x \in S})
<1> DEFINE T == {f[x] : x \in S}
           g == [x \in S |-> f[x]]
<1>1. g \in Surjection(S, T)
  BY DEF Surjection
<1> QED BY <1>1, FS_Surjection

\* And a greatest one.
LEMMA GreatestInteger ==
    ASSUME NEW S, IsFiniteSet(S), S \subseteq Int, S # {}
    PROVE  \E m \in S : \A k \in S : k <= m
<1> DEFINE neg == [k \in S |-> 0 - k]
           N == {neg[k] : k \in S}
<1>1. N \subseteq Int /\ N # {}
  <2>1. \A k \in S : neg[k] \in Int
    OBVIOUS
  <2>2. PICK k \in S : TRUE
    OBVIOUS
  <2>3. neg[k] \in N
    BY <2>2
  <2> HIDE DEF neg
  <2> QED BY <2>1, <2>3
<1>2. IsFiniteSet(N)
  <2> HIDE DEF neg
  <2> QED BY FiniteImage
<1>3. PICK m \in N : \A k \in N : m <= k
  <2> HIDE DEF N, neg
  <2> QED BY <1>1, <1>2, LeastInteger
<1>4. PICK x \in S : m = neg[x]
  OBVIOUS
<1>5. \A k \in S : neg[x] <= neg[k]
  BY <1>3, <1>4
<1>6. \A k \in S : k <= x
  BY <1>5
<1> QED BY <1>6

\* A constant factor can be taken out of a sum.
LEMMA SumScaled ==
    ASSUME NEW S, IsFiniteSet(S), NEW g, IntOn(g, S), NEW c \in Int,
           NEW h, \A x \in S : h[x] = c * g[x]
    PROVE  SumFunctionOnSet(h, S) = c * SumFunctionOnSet(g, S)
<1> DEFINE zero == [x \in S |-> 0]
<1>1. /\ IntOn(zero, S) /\ \A x \in S : zero[x] \in Nat
      /\ \A x \in S \ {} : zero[x] = 0
      /\ \A x \in S : h[x] = zero[x] + c * g[x]
  <2>1. \A x \in S : g[x] \in Int
    BY DEF IntOn
  <2> QED BY <2>1 DEF IntOn
<1> HIDE DEF zero
<1>2. SumFunctionOnSet(zero, S) = SumFunctionOnSet(zero, {})
  BY <1>1, SumSubset
<1>3. SumFunctionOnSet(zero, S) = 0
  BY <1>2, SumEmpty, Zenon
<1>4. SumFunctionOnSet(h, S) = SumFunctionOnSet(zero, S) + c * SumFunctionOnSet(g, S)
  BY <1>1, SumLinear
<1>5. SumFunctionOnSet(g, S) \in Int
  BY SumInt
<1> QED BY <1>3, <1>4, <1>5

-----------------------------------------------------------------------------
(* Sequences. *)

\* The elements of a sequence
LEMMA SeqElement ==
    ASSUME NEW S, NEW s \in Seq(S)
    PROVE  DOMAIN s = 1..Len(s) /\ Len(s) \in Nat /\ \A i \in DOMAIN s : s[i] \in S
OBVIOUS

\* and its first k.
LEMMA FirstElements ==
    ASSUME NEW S, NEW s \in Seq(S), NEW k \in Nat, k <= Len(s)
    PROVE  /\ SubSeq(s, 1, k) \in Seq(S) /\ Len(SubSeq(s, 1, k)) = k
           /\ \A i \in 1..k : SubSeq(s, 1, k)[i] = s[i]
OBVIOUS

\* The elements from the k-th on.
LEMMA LaterElements ==
    ASSUME NEW S, NEW s \in Seq(S), NEW k \in 1..Len(s)
    PROVE  /\ SubSeq(s, k, Len(s)) \in Seq(S)
           /\ Len(SubSeq(s, k, Len(s))) = Len(s) - k + 1
           /\ \A i \in 1..(Len(s) - k + 1) : SubSeq(s, k, Len(s))[i] = s[i + k - 1]
OBVIOUS

-----------------------------------------------------------------------------
(* Averages. *)

\* The differences of neighbours add up to the difference of the ends.
LEMMA SumTelescopes ==
    ASSUME NEW n \in Nat, NEW g, \A i \in 1..(n + 1) : g[i] \in Int,
           NEW f, \A i \in 1..n : f[i] = g[i + 1] - g[i]
    PROVE  SumFunctionOnSet(f, 1..n) = g[n + 1] - g[1]
<1> DEFINE Bad == {k \in Nat : k <= n /\ SumFunctionOnSet(f, 1..k) # g[k + 1] - g[1]}
<1> SUFFICES ASSUME Bad # {} PROVE FALSE
  OBVIOUS
<1>1. PICK m \in Bad : \A k \in Bad : m <= k
  BY LeastNatural
<1>2. m \in Nat /\ m <= n /\ SumFunctionOnSet(f, 1..m) # g[m + 1] - g[1]
  OBVIOUS
<1>3. m # 0
  <2>1. 1..0 = {} /\ g[0 + 1] - g[1] = 0
    OBVIOUS
  <2>2. SumFunctionOnSet(f, 1..0) = 0
    BY <2>1, SumEmpty, Zenon
  <2> QED BY <1>2, <2>1, <2>2
<1>4. SumFunctionOnSet(f, 1..(m - 1)) = g[m] - g[1]
  <2>1. m - 1 \in Nat /\ m - 1 \notin Bad /\ m - 1 <= n /\ (m - 1) + 1 = m
    BY <1>1, <1>2, <1>3
  <2> QED BY <2>1
<1> HIDE DEF Bad
<1>5. /\ m \in 1..m /\ m \in 1..n /\ m + 1 \in 1..(n + 1) /\ m \in 1..(n + 1)
      /\ 1 \in 1..(n + 1) /\ (1..m) \ {m} = 1..(m - 1)
      /\ \A i \in 1..m : i \in 1..n
      /\ \A i \in 1..n : i \in 1..(n + 1) /\ i + 1 \in 1..(n + 1)
  BY <1>2, <1>3
<1>6. f[m] = g[m + 1] - g[m] /\ g[m] \in Int /\ g[m + 1] \in Int /\ g[1] \in Int
  BY <1>5, Zenon
<1>7. IntOn(f, 1..m)
  <2>1. \A i \in 1..m : f[i] = g[i + 1] - g[i] /\ g[i + 1] \in Int /\ g[i] \in Int
    BY <1>5, Zenon
  <2> QED BY <2>1 DEF IntOn
<1>8. SumFunctionOnSet(f, 1..m) = f[m] + SumFunctionOnSet(f, 1..(m - 1))
  <2> DEFINE S == 1..m
  <2>1. IsFiniteSet(S)
    BY <1>2, FS_Interval
  <2>2. IntOn(f, S) /\ m \in S
    BY <1>5, <1>7
  <2>3. S \ {m} = 1..(m - 1)
    BY <1>5
  <2> HIDE DEF S
  <2>4. SumFunctionOnSet(f, S) = f[m] + SumFunctionOnSet(f, S \ {m})
    BY <2>1, <2>2, SumRemove
  <2> QED BY <2>3, <2>4, Zenon DEF S
<1> QED BY <1>2, <1>4, <1>6, <1>8

\* A quotient that is truncated towards zero stays between the same integers as the
\* exact one.
LEMMA QuotBetween ==
    ASSUME NEW s \in Int, NEW w \in Nat \ {0}, NEW lo \in Int, NEW hi \in Int,
           w * lo <= s, s <= w * hi
    PROVE  lo <= Quot(s, w) /\ Quot(s, w) <= hi
<1>1. CASE s >= 0
  <2>1. s \in Nat
    BY <1>1
  <2>2. PICK q \in Nat : q = Quot(s, w) /\ w * q <= s /\ s < w * (q + 1)
    BY <2>1, QuotBounds
  <2>3. w * lo < w * (q + 1) /\ w * q <= w * hi
    <3> DEFINE x == w * lo
               y == w * (q + 1)
               z == w * q
               u == w * hi
    <3>1. x \in Int /\ y \in Int /\ z \in Int /\ u \in Int
      BY <2>2, Products
    <3>2. x <= s /\ s < y /\ z <= s /\ s <= u
      BY <2>2
    <3> HIDE DEF x, y, z, u
    <3>3. x < y /\ z <= u
      BY <3>1, <3>2
    <3> QED BY <3>3 DEF x, y, z, u
  <2>4. lo < q + 1 /\ q <= hi
    BY <2>2, <2>3, Signs
  <2> QED BY <2>2, <2>4
<1>2. CASE s < 0
  <2>1. -s \in Nat
    BY <1>2
  <2>2. PICK q \in Nat : q = Quot(-s, w) /\ w * q <= -s /\ -s < w * (q + 1)
    BY <2>1, QuotBounds
  <2>3. Quot(s, w) = -q
    <3>1. Quot(-s, w) = (-s) \div w
      BY <1>2 DEF Quot, Abs
    <3>2. Quot(s, w) = -((-s) \div w)
      BY <1>2 DEF Quot, Abs
    <3> QED BY <2>2, <3>1, <3>2
  <2>4. w * q <= w * (-lo) /\ w * (-hi) < w * (q + 1)
    <3> DEFINE x == w * lo
               y == w * (q + 1)
               z == w * q
               u == w * hi
    <3>1. x \in Int /\ y \in Int /\ z \in Int /\ u \in Int
      BY <2>2, Products
    <3>2. x <= s /\ -s < y /\ z <= -s /\ s <= u
      BY <2>2
    <3>3. w * (-lo) = -x /\ w * (-hi) = -u
      OBVIOUS
    <3> HIDE DEF x, y, z, u
    <3>4. z <= -x /\ -u < y
      BY <3>1, <3>2
    <3> QED BY <3>3, <3>4 DEF x, y, z, u
  <2>5. q <= -lo /\ -hi < q + 1
    BY <2>2, <2>4, Signs
  <2> QED BY <2>2, <2>3, <2>5
<1> QED BY <1>1, <1>2

\* A weighted average lies between bounds of the values, for weights that are not
\* negative and not all zero.
LEMMA AverageBetween ==
    ASSUME NEW S, IsFiniteSet(S), NEW w, \A x \in S : w[x] \in Nat,
           SumFunctionOnSet(w, S) # 0,
           NEW p, NEW lo \in Int, NEW hi \in Int,
           \A x \in S : p[x] \in Int /\ lo <= p[x] /\ p[x] <= hi,
           NEW h, \A x \in S : h[x] = p[x] * w[x]
    PROVE  /\ SumFunctionOnSet(w, S) \in Nat \ {0}
           /\ lo <= Quot(SumFunctionOnSet(h, S), SumFunctionOnSet(w, S))
           /\ Quot(SumFunctionOnSet(h, S), SumFunctionOnSet(w, S)) <= hi
<1> DEFINE low == [x \in S |-> lo * w[x]]
           high == [x \in S |-> hi * w[x]]
           W == SumFunctionOnSet(w, S)
           H == SumFunctionOnSet(h, S)
<1>1. W \in Nat \ {0}
  BY SumNatural
<1>2. IntOn(w, S) /\ IntOn(h, S) /\ IntOn(low, S) /\ IntOn(high, S)
  <2>1. \A x \in S : w[x] \in Int /\ p[x] \in Int
    OBVIOUS
  <2> QED BY <2>1, Products DEF IntOn
<1>3. \A x \in S : low[x] <= h[x] /\ h[x] <= high[x]
  <2>1. \A a \in Int, b \in Int, c \in Nat : a <= b => a * c <= b * c
    BY SMT
  <2> QED BY <2>1
<1>4. \A x \in S : low[x] = lo * w[x] /\ high[x] = hi * w[x]
  OBVIOUS
<1> HIDE DEF low, high
<1>5. SumFunctionOnSet(low, S) = lo * W /\ SumFunctionOnSet(high, S) = hi * W
  BY <1>2, <1>4, SumScaled
<1>6. SumFunctionOnSet(low, S) <= H /\ H <= SumFunctionOnSet(high, S) /\ H \in Int
  BY <1>2, <1>3, SumLe, SumInt
<1> HIDE DEF W, H
<1>7. W * lo <= H /\ H <= W * hi
  <2>1. W * lo = lo * W /\ W * hi = hi * W
    BY <1>1, Associate
  <2> QED BY <1>5, <1>6, <2>1
<1>8. lo <= Quot(H, W) /\ Quot(H, W) <= hi
  BY <1>1, <1>6, <1>7, QuotBetween
<1> QED BY <1>1, <1>8 DEF W, H

-----------------------------------------------------------------------------
(* Prefix sums over stretches of equal values. *)

\* Over a stretch of equal values a prefix sum grows linearly.
LEMMA ConstantStretch ==
    ASSUME NEW n \in Nat, NEW f, NEW g, IsPrefixSum(g, f, n),
           NEW a \in 0..n, NEW b \in 0..n, a <= b, NEW c \in Int, g[a] \in Int,
           \A k \in (a + 1)..b : f[k] = c
    PROVE  g[b] = g[a] + (b - a) * c
<1> DEFINE Bad == {k \in Nat : a <= k /\ k <= b /\ g[k] # g[a] + (k - a) * c}
<1> SUFFICES ASSUME Bad # {} PROVE FALSE
  OBVIOUS
<1>1. PICK m \in Bad : \A k \in Bad : m <= k
  BY LeastNatural
<1>2. m \in Nat /\ a <= m /\ m <= b /\ g[m] # g[a] + (m - a) * c
  OBVIOUS
<1>3. a \in Nat /\ b \in Nat /\ b <= n
  OBVIOUS
<1>4. m # a
  <2>1. (a - a) * c = 0
    BY <1>3
  <2> QED BY <1>2, <2>1
<1>5. m - 1 \in Nat /\ a <= m - 1 /\ m - 1 <= b
  BY <1>2, <1>3, <1>4
<1>6. g[m - 1] = g[a] + (m - 1 - a) * c
  <2>1. ~ (m <= m - 1)
    BY <1>2
  <2> QED BY <1>1, <1>5, <2>1
<1>7. f[m] = c
  BY <1>2, <1>3, <1>4
<1>8. g[m] = g[m - 1] + f[m]
  <2>1. m \in 0..n /\ m # 0
    BY <1>2, <1>3, <1>4
  <2> HIDE DEF Bad
  <2> QED BY <2>1, Zenon DEF IsPrefixSum
<1> HIDE DEF Bad
<1>9. (m - a) * c = (m - 1 - a) * c + c
  <2>1. m - a \in Int /\ m - 1 - a \in Int /\ m - a = (m - 1 - a) + 1
    BY <1>2, <1>3
  <2>2. ASSUME NEW x \in Int, NEW y \in Int, x = y + 1 PROVE x * c = y * c + c
    BY <2>2
  <2> QED BY <2>1, <2>2
<1> DEFINE x == (m - a) * c
           y == (m - 1 - a) * c
<1>10. x \in Int /\ y \in Int
  BY <1>2, <1>3
<1> HIDE DEF x, y
<1>11. g[m] = g[a] + y + c
  BY <1>6, <1>7, <1>8 DEF y
<1>12. x = y + c
  BY <1>9 DEF x, y
<1>13. g[m] = g[a] + x
  BY <1>10, <1>11, <1>12
<1> QED BY <1>2, <1>13 DEF x
=============================================================================
