----------------------------- MODULE SpotProofs -----------------------------
(***************************************************************************)
(* The spot pools for any traders, denoms, parameters, amounts and         *)
(* restarts: every copy of what a pool owns agrees with the others after   *)
(* any mix of messages (PoolsBacked), and whoever owns all shares of a     *)
(* pool can take out all of it (PoolCanBeEmptied).                         *)
(***************************************************************************)
EXTENDS Spot, ArithmeticProofs

-----------------------------------------------------------------------------
(* Newton's method *)

\* The recursion of Newton: g[k] is the function that k turns compute.
IsRun(g, step, n) ==
    g = [k \in 0..n |-> IF k = 0 THEN [v \in Nat |-> v] ELSE Turn(step, g[k - 1])]

\* The recursion is well founded.
LEMMA RunExists ==
    ASSUME NEW step, NEW n \in Nat
    PROVE  \E g : IsRun(g, step, n)
<1> DEFINE Bad == {m \in Nat : ~ \E g : IsRun(g, step, m)}
<1> SUFFICES ASSUME Bad # {} PROVE FALSE
  OBVIOUS
<1>1. PICK m \in Bad : \A k \in Bad : m <= k
  BY LeastNatural
<1>2. m # 0
  <2> DEFINE h == [k \in 0..0 |-> [v \in Nat |-> v]]
  <2>1. IsRun(h, step, 0)
    BY DEF IsRun
  <2> QED BY <2>1
<1>3. m - 1 \in Nat /\ m - 1 \notin Bad
  BY <1>1, <1>2
<1>4. PICK g : IsRun(g, step, m - 1)
  BY <1>3
<1> DEFINE h == [k \in 0..m |-> IF k < m THEN g[k] ELSE Turn(step, g[m - 1])]
<1>5. IsRun(h, step, m)
  <2>1. \A k \in 0..m : h[k] = IF k = 0 THEN [v \in Nat |-> v] ELSE Turn(step, h[k - 1])
    <3> SUFFICES ASSUME NEW k \in 0..m
                 PROVE  h[k] = IF k = 0 THEN [v \in Nat |-> v] ELSE Turn(step, h[k - 1])
      OBVIOUS
    <3>1. CASE k < m
      BY <1>3, <1>4, <3>1 DEF IsRun
    <3>2. CASE k = m
      BY <1>2, <1>3, <3>2
    <3> QED BY <3>1, <3>2
  <2> QED BY <2>1 DEF IsRun
<1> QED BY <1>5

\* The values between turns are in S, the results in R: a step from S gives a
\* result, and unless the loop ends there, a value to go on from.
StepsWithin(step, S, R) ==
    \A v \in S : /\ step[v] \in R
                 /\ ~ (Abs(step[v] - v) < 2) => step[v] \in S

\* What holds of every turn holds of the solution.
LEMMA NewtonWithin ==
    ASSUME NEW step, NEW S, NEW R, S \subseteq Nat, S \subseteq R,
           StepsWithin(step, S, R), NEW start \in S
    PROVE  Newton(step, start) \in R
<1> DEFINE n == MaxIterations
           g == CHOOSE run : IsRun(run, step, n)
<1>1. n \in Nat
  BY IterationsAssumption
<1>2. IsRun(g, step, n)
  <2> HIDE DEF n
  <2> QED BY <1>1, RunExists, Zenon
<1>3. Newton(step, start) = g[n][start]
  BY Zenon DEF Newton, IsRun
<1> HIDE DEF g, n
<1> DEFINE Good(k) == \A v \in S : g[k][v] \in R
           Bad == {k \in 0..n : ~ Good(k)}
<1>4. ASSUME Bad # {} PROVE FALSE
  <2>1. PICK m \in Bad : \A k \in Bad : m <= k
    <3>1. Bad \subseteq Nat
      OBVIOUS
    <3> HIDE DEF Bad
    <3> QED BY <1>4, <3>1, LeastNatural
  <2>2. m \in 0..n /\ ~ Good(m)
    BY <2>1
  <2>3. m # 0
    <3>1. 0 \in 0..n /\ g[0] = [v \in Nat |-> v]
      BY <1>1, <1>2 DEF IsRun
    <3>2. Good(0)
      BY <3>1
    <3> QED BY <2>2, <3>2
  <2>4. m - 1 \in 0..n /\ Good(m - 1)
    <3>1. m - 1 \in 0..n /\ m - 1 < m
      BY <1>1, <2>2, <2>3
    <3>2. m - 1 \notin Bad
      BY <1>1, <2>1, <2>2, <3>1
    <3> QED BY <3>1, <3>2
  <2>5. g[m] = Turn(step, g[m - 1])
    BY <1>2, <2>2, <2>3 DEF IsRun
  <2>6. Good(m)
    <3> SUFFICES ASSUME NEW v \in S PROVE g[m][v] \in R
      OBVIOUS
    <3>1. g[m][v] = IF Abs(step[v] - v) < 2 THEN step[v] ELSE g[m - 1][step[v]]
      BY <2>5 DEF Turn
    <3> HIDE DEF Bad
    <3> QED BY <2>4, <3>1 DEF StepsWithin
  <2> QED BY <2>2, <2>6
<1>5. Good(n)
  <2>1. n \in 0..n /\ n \notin Bad
    BY <1>1, <1>4
  <2> QED BY <2>1
<1> QED BY <1>3, <1>5

\* A quotient is at least every multiplier that fits.
LEMMA QuotientAtLeast ==
    ASSUME NEW a \in Nat, NEW b \in Nat \ {0}, NEW k \in Nat, b * k <= a
    PROVE  k <= a \div b
<1> DEFINE q == a \div b
           r == a % b
<1>1. q \in Nat /\ r \in Nat /\ r < b /\ a = b * q + r
  BY DivMod, Zenon
<1> HIDE DEF q, r
<1>2. b * (q + 1) = b * q + b /\ b * q \in Int
  BY <1>1
<1>3. b * k < b * (q + 1)
  BY <1>1, <1>2, Products
<1>4. k < q + 1
  BY <1>1, <1>3, Signs
<1> QED BY <1>1, <1>4 DEF q

\* A turn of GetD keeps D positive,
LEMMA StepDPositive ==
    ASSUME NEW x \in Nat \ {0}, NEW y \in Nat \ {0}, NEW amp \in Nat \ {0}, NEW d \in Nat \ {0}
    PROVE  StepD(x, y, amp)[d] \in Nat \ {0}
<1> DEFINE p == ((d * d) \div (2 * x)) * d
           DP == p \div (2 * y)
           s == Ann(amp) * (x + y)
           num == (s + 2 * DP) * d
           den == (Ann(amp) - 1) * d + 3 * DP
<1>1. StepD(x, y, amp)[d] = num \div den
  BY DEF StepD
<1>2. p \in Nat /\ (d = 1 => p = 0)
  <2>1. 2 * x \in Nat \ {0} /\ d * d \in Nat
    OBVIOUS
  <2> DEFINE q == (d * d) \div (2 * x)
             r == (d * d) % (2 * x)
  <2>2. q \in Nat /\ r \in Nat /\ d * d = (2 * x) * q + r
    BY <2>1, DivMod, Zenon
  <2>3. d = 1 => q = 0
    OBVIOUS
  <2> HIDE DEF q, r
  <2>4. q * d \in Nat /\ (q = 0 => q * d = 0)
    BY <2>2
  <2> QED BY <2>3, <2>4 DEF q
<1>3. DP \in Nat /\ (d = 1 => DP = 0)
  <2> HIDE DEF p
  <2>1. 2 * y \in Nat \ {0}
    OBVIOUS
  <2>2. DP \in Nat
    BY <1>2, <2>1, DivMod, Zenon
  <2>3. 0 \div (2 * y) = 0
    BY <2>1
  <2> QED BY <1>2, <2>2, <2>3
<1>4. Ann(amp) \in Nat /\ Ann(amp) >= 4 /\ s \in Nat /\ s >= Ann(amp)
  BY DEF Ann
<1> HIDE DEF p, DP, s
<1>5. den \in Nat \ {0} /\ num \in Nat /\ den * 1 <= num
  <2> DEFINE a == Ann(amp)
             ad == a * d
             sd == s * d
             pd == DP * d
  <2>1. (a - 1) * d = ad - d /\ num = sd + 2 * pd
    BY <1>3, <1>4
  <2>2. ad \in Nat /\ sd \in Nat /\ pd \in Nat
    BY <1>3, <1>4
  <2>3. ad >= 4 * d /\ sd >= ad
    BY <1>4
  <2>4. 3 * DP <= 2 * pd
    <3>1. CASE d = 1
      BY <1>3, <3>1
    <3>2. CASE d >= 2
      <4>1. DP * 2 <= pd
        BY <1>3, <3>2
      <4> QED BY <1>3, <2>2, <4>1
    <3> QED BY <3>1, <3>2
  <2> HIDE DEF ad, sd, pd, num, a
  <2>5. den = ad - d + 3 * DP
    BY <2>1 DEF a
  <2> HIDE DEF den
  <2> QED BY <1>3, <2>1, <2>2, <2>3, <2>4, <2>5
<1> HIDE DEF num, den
<1>6. 1 <= num \div den /\ num \div den \in Nat
  BY <1>5, QuotientAtLeast, DivMod
<1> QED BY <1>1, <1>6

\* so the D of a pool that has both coins is positive.
LEMMA GetDPositive ==
    ASSUME NEW x \in Nat \ {0}, NEW y \in Nat \ {0}, NEW amp \in Nat \ {0}
    PROVE  GetD(x, y, amp) \in Nat \ {0}
<1> DEFINE step == StepD(x, y, amp)
           S == Nat \ {0}
<1>1. S \subseteq Nat /\ S \subseteq S /\ x + y \in S
  OBVIOUS
<1>2. StepsWithin(step, S, S)
  BY StepDPositive DEF StepsWithin
<1> HIDE DEF step, S
<1>3. Newton(step, x + y) \in S
  BY <1>1, <1>2, NewtonWithin
<1> QED BY <1>3 DEF GetD, step, S

\* A square is no less than its tangent.
LEMMA Tangent ==
    ASSUME NEW y \in Int, NEW e \in Int
    PROVE  (2 * y - e) * e <= y * y
<1>1. (y - e) * (y - e) >= 0
  BY SMT
<1>2. (y - e) * (y - e) = y * y - (2 * y - e) * e
  BY SMT
<1> QED BY <1>1, <1>2, Products

\* The divisor 2y + b - D of a turn of SolveStableswapInvariant stays positive: the
\* loop starts from D, whose divisor is D + b, and every later y is at least D - b.
\* So the unsigned subtraction of the code never wraps around.
LEMMA StepYWithin ==
    ASSUME NEW b \in Nat, NEW c \in Nat, NEW d \in Nat,
           NEW S, S = {y \in Nat : 2 * y + b - d > 0}
    PROVE  StepsWithin(StepY(b, c, d), S, Nat)
<1> SUFFICES ASSUME NEW y \in S
             PROVE  /\ StepY(b, c, d)[y] \in Nat
                    /\ ~ (Abs(StepY(b, c, d)[y] - y) < 2) => StepY(b, c, d)[y] \in S
  BY DEF StepsWithin
<1> DEFINE e == d - b
           den == 2 * y - e
           num == y * y + c
           next == num \div den
<1>1. y \in Nat /\ e \in Int /\ den \in Nat \ {0} /\ num \in Nat
  OBVIOUS
<1>2. StepY(b, c, d)[y] = next
  <2>1. 2 * y + b - d = den
    OBVIOUS
  <2> QED BY <2>1 DEF StepY
<1>3. next \in Nat
  <2> HIDE DEF num, den
  <2> QED BY <1>1, DivMod
<1>4. ASSUME ~ (Abs(next - y) < 2) PROVE 2 * next - e > 0
  <2>1. CASE e < 0
    <3> HIDE DEF next, e
    <3> QED BY <1>1, <1>3, <2>1
  <2>2. CASE e > 0
    <3>1. den * e <= num
      <4>1. den * e <= y * y
        <5> HIDE DEF e
        <5> QED BY <1>1, Tangent
      <4>2. y * y <= num /\ y * y \in Int
        BY <1>1
      <4> HIDE DEF num, e
      <4> QED BY <1>1, <4>1, <4>2, Products
    <3>2. e <= next
      <4> HIDE DEF num, den, e
      <4> QED BY <1>1, <2>2, <3>1, QuotientAtLeast
    <3> HIDE DEF next, e
    <3> QED BY <1>1, <1>3, <2>2, <3>2
  <2>3. CASE e = 0
    <3>1. y # 0 /\ den = 2 * y
      <4> HIDE DEF e
      <4> QED BY <1>1, <2>3
    <3>2. CASE y = 1
      <4> HIDE DEF next
      <4>1. next # 0
        BY <1>3, <1>4, <3>2 DEF Abs
      <4> HIDE DEF e
      <4> QED BY <1>1, <1>3, <2>3, <4>1
    <3>3. CASE y >= 2
      <4>1. y * y >= 2 * y
        BY <1>1, <3>3
      <4>2. den * 1 <= num
        <5> DEFINE sq == y * y
        <5>1. sq \in Int /\ sq >= 2 * y
          BY <1>1, <4>1
        <5> HIDE DEF sq, e
        <5>2. num = sq + c
          BY DEF sq
        <5> HIDE DEF num, den
        <5> QED BY <1>1, <3>1, <5>1, <5>2
      <4>3. 1 <= next
        <5> HIDE DEF num, den
        <5> QED BY <1>1, <4>2, QuotientAtLeast
      <4> HIDE DEF next, e
      <4> QED BY <1>1, <1>3, <2>3, <4>3
    <3> HIDE DEF e
    <3> QED BY <1>1, <3>1, <3>2, <3>3
  <2> HIDE DEF e
  <2> QED BY <1>1, <2>1, <2>2, <2>3
<1>5. 2 * next - e > 0 => next \in S
  <2> HIDE DEF next
  <2> QED BY <1>3
<1> HIDE DEF next
<1> QED BY <1>2, <1>3, <1>4, <1>5

\* So the balance it solves for is a natural number: a swap pays out no more than
\* the pool has.
LEMMA SolvedBalance ==
    ASSUME NEW x \in Nat \ {0}, NEW d \in Nat, NEW amp \in Nat \ {0}
    PROVE  SolveStableswapInvariant(x, d, amp) \in Nat
<1> DEFINE c == (((d * d) \div (2 * x)) * d) \div (2 * Ann(amp))
           b == x + d \div Ann(amp)
           S == {y \in Nat : 2 * y + b - d > 0}
<1>1. Ann(amp) \in Nat \ {0} /\ 2 * Ann(amp) \in Nat \ {0} /\ 2 * x \in Nat \ {0}
  BY DEF Ann
<1>2. b \in Nat \ {0}
  <2> DEFINE q == d \div Ann(amp)
  <2>1. q \in Nat
    BY <1>1, DivMod
  <2> HIDE DEF q
  <2>2. x + q \in Nat \ {0}
    BY <2>1
  <2> QED BY <2>2 DEF q
<1>3. c \in Nat
  <2> DEFINE q == (d * d) \div (2 * x)
  <2>1. d * d \in Nat
    OBVIOUS
  <2>2. q \in Nat
    BY <1>1, <2>1, DivMod
  <2> HIDE DEF q
  <2>3. q * d \in Nat
    BY <2>2
  <2>4. (q * d) \div (2 * Ann(amp)) \in Nat
    BY <1>1, <2>3, DivMod
  <2> QED BY <2>4 DEF q
<1> HIDE DEF b, c
<1>4. S \subseteq Nat /\ d \in S
  BY <1>2
<1>5. StepsWithin(StepY(b, c, d), S, Nat)
  BY <1>2, <1>3, StepYWithin
<1> HIDE DEF S
<1>6. Newton(StepY(b, c, d), d) \in Nat
  BY <1>4, <1>5, NewtonWithin
<1> QED BY <1>6 DEF SolveStableswapInvariant, b, c

\* The square root of a decimal that is not negative is one.
LEMMA ApproxSqrtType ==
    ASSUME NEW d \in Nat
    PROVE  ApproxSqrt(d) \in Nat
<1> DEFINE step == StepRoot(d)
<1>1. \A g \in Nat : step[g] \in Nat
  <2> SUFFICES ASSUME NEW g \in Nat PROVE step[g] \in Nat
    OBVIOUS
  <2> DEFINE q == Quo(d, IF g = 0 THEN 1 ELSE g)
  <2>1. q \in Nat
    <3> DEFINE b == IF g = 0 THEN 1 ELSE g
    <3>1. b \in Nat \ {0}
      OBVIOUS
    <3> HIDE DEF b
    <3>2. Quo(d, b) \in Nat
      BY <3>1, QuoBounds
    <3> QED BY <3>2 DEF b
  <2>2. step[g] = g + Quot(q - g, 2)
    BY DEF StepRoot
  <2> HIDE DEF q, step
  <2>3. g + Quot(q - g, 2) \in Nat
    BY <2>1 DEF Quot, Abs
  <2> QED BY <2>2, <2>3
<1>2. StepsWithin(step, Nat, Nat)
  BY <1>1 DEF StepsWithin
<1>3. One \in Nat
  BY ScaleAssumption DEF One
<1> HIDE DEF step
<1>4. Newton(step, One) \in Nat
  BY <1>2, <1>3, NewtonWithin
<1> QED BY <1>4 DEF ApproxSqrt, step

-----------------------------------------------------------------------------
(* The inductive invariant *)

\* A stored pool: two whitelisted denoms, with the parameters it was created with.
IsPool(p) ==
    /\ p = [type |-> p.type, A |-> p.A, swapFee |-> p.swapFee, exitFee |-> p.exitFee,
            assets |-> p.assets, totalShares |-> p.totalShares]
    /\ p.type \in {"balancer", "stableswap"}
    /\ p.type = "stableswap" => p.A \in Nat \ {0}
    /\ p.swapFee \in 0..One /\ p.exitFee \in 0..One
    /\ DOMAIN p.assets \in Pairs
    /\ DOMAIN p.assets \subseteq WhitelistedAsset
    /\ p.assets \in [DOMAIN p.assets -> Nat]
    /\ p.totalShares \in Nat

\* The pools have the numbers given out so far.
PoolsTyped ==
    /\ \A id \in DOMAIN pools : IsPool(pools[id])
    /\ DOMAIN pools \subseteq PoolIds
    /\ nextPool \in PoolIds
    /\ \A id \in DOMAIN pools : id < nextPool

\* The balances are never negative.
BankTyped ==
    /\ tokens \in [Accounts -> [Denoms -> Nat]]
    /\ shares \in [Traders -> [PoolIds -> Nat]]
    /\ liquidity \in [Denoms -> Int]
    /\ history = [txs |-> history.txs, restarts |-> history.restarts]
    /\ history.restarts \in Nat

\* The index and the pools lead to each other.
IndexAgrees ==
    /\ \A id \in DOMAIN pools : /\ DOMAIN pools[id].assets \in DOMAIN poolIdOf
                                /\ poolIdOf[DOMAIN pools[id].assets] = id
    /\ \A p \in DOMAIN poolIdOf : /\ poolIdOf[p] \in DOMAIN pools
                                  /\ DOMAIN pools[poolIdOf[p]].assets = p

\* The account and the share coins of pool id cover its record.
BackedPool(id) ==
    /\ \A d \in DOMAIN pools[id].assets :
        /\ tokens[id][d] >= pools[id].assets[d]
        /\ history.restarts = 0 => tokens[id][d] = pools[id].assets[d]
    /\ ShareSupply(id) >= pools[id].totalShares
    /\ history.restarts = 0 => ShareSupply(id) = pools[id].totalShares
AllBacked == \A id \in DOMAIN pools : BackedPool(id)

\* Until a restart, the number of a pool to come names no account and no shares
\* that anyone holds.
FreshAreEmpty ==
    history.restarts = 0 =>
        \A id \in PoolIds : id >= nextPool =>
            /\ \A d \in Denoms : tokens[id][d] = 0
            /\ \A t \in Traders : shares[t][id] = 0

PoolAmounts(d) == [id \in DOMAIN pools |-> Amount(pools[id].assets, d)]
LiquidityAgrees == \A d \in Denoms : liquidity[d] = SumFunction(PoolAmounts(d))

PInv == /\ PoolsTyped /\ BankTyped /\ IndexAgrees
        /\ AllBacked /\ FreshAreEmpty /\ LiquidityAgrees

-----------------------------------------------------------------------------
(* A message changes one pool *)

\* One term more, or another value for one term.
LEMMA SumReplaced ==
    ASSUME NEW f, NEW g, NEW id, IsFiniteSet(DOMAIN f), IntOn(f, DOMAIN f),
           DOMAIN g = DOMAIN f \cup {id}, g[id] \in Int,
           \A i \in DOMAIN f : i # id => g[i] = f[i]
    PROVE  /\ SumFunction(f) \in Int
           /\ SumFunction(g) = SumFunction(f)
                                + (g[id] - IF id \in DOMAIN f THEN f[id] ELSE 0)
<1> DEFINE S == DOMAIN f
           T == S \cup {id}
           V == S \ {id}
<1>1. IsFiniteSet(T) /\ IsFiniteSet(V) /\ IntOn(f, V) /\ IntOn(g, T) /\ id \in T
  BY FS_AddElement, FS_Subset DEF IntOn
<1>2. T \ {id} = V
  OBVIOUS
<1>3. \A x \in V : f[x] = g[x]
  OBVIOUS
<1>4. SumFunction(f) = SumFunctionOnSet(f, S) /\ SumFunction(g) = SumFunctionOnSet(g, T)
  BY DEF SumFunction
<1>5. IsFiniteSet(S) /\ IntOn(f, S)
  OBVIOUS
<1>6. id \notin S => V = S
  OBVIOUS
<1> HIDE DEF S, T, V
<1>7. SumFunctionOnSet(g, T) = g[id] + SumFunctionOnSet(g, T \ {id})
  BY <1>1, SumRemove
<1>8. SumFunctionOnSet(g, V) = SumFunctionOnSet(f, V) /\ SumFunctionOnSet(f, V) \in Int
  BY <1>1, <1>3, SumEqual, SumInt
<1>9. SumFunctionOnSet(f, S) \in Int
  BY <1>5, SumInt
<1> DEFINE old == IF id \in S THEN f[id] ELSE 0
           sv == SumFunctionOnSet(f, V)
<1>10. old \in Int /\ SumFunctionOnSet(f, S) = old + sv
  <2>1. CASE id \in S
    <3>1. SumFunctionOnSet(f, S) = f[id] + sv /\ f[id] \in Int
      BY <1>5, <2>1, SumRemove DEF IntOn, V
    <3> QED BY <2>1, <3>1
  <2>2. CASE id \notin S
    BY <1>6, <1>8, <2>2
  <2> QED BY <2>1, <2>2
<1>11. SumFunctionOnSet(g, T) = g[id] + sv
  BY <1>2, <1>7, <1>8
<1> HIDE DEF old, sv
<1>12. SumFunction(g) = SumFunction(f) + (g[id] - old)
  BY <1>4, <1>8, <1>10, <1>11 DEF sv
<1> QED BY <1>4, <1>9, <1>12 DEF old, S

\* What pool id had before the step: nothing, if the step creates it.
OldAmount(id, d) == IF id \in DOMAIN pools THEN Amount(pools[id].assets, d) ELSE 0
OldShares(id) == IF id \in DOMAIN pools THEN pools[id].totalShares ELSE 0

\* The bank and the totals move by what the record of pool id moves.
BankMoves(who, id, pool) ==
    /\ tokens' \in [Accounts -> [Denoms -> Nat]]
    /\ \A d \in Denoms :
        tokens'[id][d] = tokens[id][d] + (Amount(pool.assets, d) - OldAmount(id, d))
    /\ \A i \in PoolIds \ {id} : tokens'[i] = tokens[i]
    /\ shares' \in [Traders -> [PoolIds -> Nat]]
    /\ shares'[who][id] = shares[who][id] + (pool.totalShares - OldShares(id))
    /\ \A t \in Traders, i \in PoolIds :
        <<t, i>> # <<who, id>> => shares'[t][i] = shares[t][i]
    /\ liquidity' = [d \in Denoms |->
                        liquidity[d] + (Amount(pool.assets, d) - OldAmount(id, d))]

\* The pool is one that exists, or the next one.
Numbered(id, pool) ==
    \/ /\ id \in DOMAIN pools
       /\ DOMAIN pools[id].assets = DOMAIN pool.assets
       /\ nextPool' = nextPool
    \/ /\ id = nextPool
       /\ DOMAIN pool.assets \notin DOMAIN poolIdOf
       /\ nextPool' = nextPool + 1
       /\ nextPool' \in PoolIds

Moves(who, id, pool) ==
    /\ who \in Traders /\ id \in PoolIds /\ IsPool(pool)
    /\ SetPool(id, pool)
    /\ Counted
    /\ BankMoves(who, id, pool)
    /\ Numbered(id, pool)

\* The amount of a denom in a pool.
LEMMA AmountType ==
    ASSUME NEW p, IsPool(p), NEW d
    PROVE  Amount(p.assets, d) \in Nat
<1>1. p.assets \in [DOMAIN p.assets -> Nat]
  BY DEF IsPool
<1> QED BY <1>1 DEF Amount

\* The numbers of pools are finitely many integers.
LEMMA PoolNumbers ==
    /\ PoolIds \subseteq Int
    /\ IsFiniteSet(PoolIds)
    /\ StartingPoolNumber \in PoolIds
    /\ \A n \in PoolIds : n >= StartingPoolNumber /\ n \in Nat
<1>1. StartingPoolNumber \in Nat /\ MaxPools \in Nat
  BY SpotAssumption
<1>2. IsFiniteSet(PoolIds)
  BY <1>1, FS_Interval DEF PoolIds
<1> QED BY <1>1, <1>2 DEF PoolIds

\* The stored pools after such a step.
LEMMA PoolsAfter ==
    ASSUME NEW id, NEW pool, SetPool(id, pool)
    PROVE  /\ DOMAIN pools' = DOMAIN pools \cup {id}
           /\ pools'[id] = pool
           /\ \A i \in DOMAIN pools : i # id => pools'[i] = pools[i]
           /\ DOMAIN poolIdOf' = DOMAIN poolIdOf \cup {DOMAIN pool.assets}
           /\ poolIdOf'[DOMAIN pool.assets] = id
           /\ \A p \in DOMAIN poolIdOf : p # DOMAIN pool.assets => poolIdOf'[p] = poolIdOf[p]
BY DEF SetPool

\* Such a step keeps the types of the pools, the bank and the shares,
LEMMA MovesKeepTypes ==
    ASSUME PInv, NEW who, NEW id, NEW pool, Moves(who, id, pool)
    PROVE  PoolsTyped' /\ BankTyped'
<1>1. PoolsTyped /\ BankTyped /\ IsPool(pool) /\ id \in PoolIds /\ Numbered(id, pool)
  BY DEF PInv, Moves
<1>2. /\ DOMAIN pools' = DOMAIN pools \cup {id}
      /\ pools'[id] = pool
      /\ \A i \in DOMAIN pools : i # id => pools'[i] = pools[i]
  BY PoolsAfter DEF Moves
<1>3. \A i \in DOMAIN pools' : IsPool(pools'[i])
  BY <1>1, <1>2 DEF PoolsTyped
<1>4. nextPool' \in PoolIds /\ nextPool <= nextPool' /\ id < nextPool'
  BY <1>1, PoolNumbers DEF Numbered, PoolsTyped
<1>5. PoolsTyped'
  <2>1. DOMAIN pools' \subseteq PoolIds
    BY <1>1, <1>2 DEF PoolsTyped
  <2>2. ASSUME NEW i \in DOMAIN pools' PROVE i < nextPool'
    <3>1. i = id \/ (i \in DOMAIN pools /\ i < nextPool /\ i \in PoolIds)
      BY <1>1, <1>2 DEF PoolsTyped
    <3>2. CASE i = id
      BY <1>4, <3>2
    <3>3. CASE i \in DOMAIN pools /\ i < nextPool /\ i \in PoolIds
      <4>1. i \in Int /\ nextPool \in Int /\ nextPool' \in Int
        BY <1>1, <1>4, <3>3, PoolNumbers DEF PoolsTyped
      <4> QED BY <1>4, <3>3, <4>1
    <3> QED BY <3>1, <3>2, <3>3
  <2>3. \A i \in DOMAIN pools' : IsPool(pools[i])'
    BY <1>3 DEF IsPool
  <2> QED BY <1>4, <2>1, <2>2, <2>3 DEF PoolsTyped
<1>6. BankTyped'
  <2>1. liquidity' \in [Denoms -> Int]
    <3>1. \A d \in Denoms : liquidity[d] \in Int
      BY <1>1 DEF BankTyped
    <3>2. \A d \in Denoms : Amount(pool.assets, d) \in Nat /\ OldAmount(id, d) \in Nat
      BY <1>1, AmountType DEF OldAmount, PoolsTyped
    <3>3. liquidity' = [d \in Denoms |->
                        liquidity[d] + (Amount(pool.assets, d) - OldAmount(id, d))]
      BY DEF Moves, BankMoves
    <3> QED BY <3>1, <3>2, <3>3
  <2>2. history' = [txs |-> history'.txs, restarts |-> history'.restarts]
        /\ history'.restarts \in Nat
    BY <1>1 DEF BankTyped, Moves, Counted
  <2>3. tokens' \in [Accounts -> [Denoms -> Nat]] /\ shares' \in [Traders -> [PoolIds -> Nat]]
    BY DEF Moves, BankMoves
  <2> QED BY <2>1, <2>2, <2>3 DEF BankTyped
<1> QED BY <1>5, <1>6

\* the index by pair,
LEMMA MovesKeepIndex ==
    ASSUME PInv, NEW who, NEW id, NEW pool, Moves(who, id, pool)
    PROVE  IndexAgrees'
<1> DEFINE pair == DOMAIN pool.assets
<1>1. PoolsTyped /\ IndexAgrees /\ Numbered(id, pool)
  BY DEF PInv, Moves
<1>2. /\ DOMAIN pools' = DOMAIN pools \cup {id}
      /\ pools'[id] = pool
      /\ \A i \in DOMAIN pools : i # id => pools'[i] = pools[i]
      /\ DOMAIN poolIdOf' = DOMAIN poolIdOf \cup {pair}
      /\ poolIdOf'[pair] = id
      /\ \A p \in DOMAIN poolIdOf : p # pair => poolIdOf'[p] = poolIdOf[p]
  <2>1. SetPool(id, pool)
    BY DEF Moves
  <2>2. DOMAIN pools' = DOMAIN pools \cup {id} /\ pools'[id] = pool
        /\ \A i \in DOMAIN pools : i # id => pools'[i] = pools[i]
    BY <2>1, PoolsAfter
  <2>3. DOMAIN poolIdOf' = DOMAIN poolIdOf \cup {DOMAIN pool.assets}
        /\ poolIdOf'[DOMAIN pool.assets] = id
    BY <2>1, PoolsAfter
  <2>4. \A p \in DOMAIN poolIdOf : p # DOMAIN pool.assets => poolIdOf'[p] = poolIdOf[p]
    BY <2>1 DEF SetPool
  <2> QED BY <2>2, <2>3, <2>4
<1>3. \A i \in DOMAIN pools : i # id => DOMAIN pools[i].assets # pair
  BY <1>1 DEF IndexAgrees, Numbered
<1>4. \A p \in DOMAIN poolIdOf : p # pair => poolIdOf[p] # id
  <2>1. id = nextPool => id \notin DOMAIN pools
    BY <1>1, PoolNumbers DEF PoolsTyped
  <2> QED BY <1>1, <2>1 DEF IndexAgrees, Numbered
<1> HIDE DEF pair
<1>5. ASSUME NEW i \in DOMAIN pools'
      PROVE  /\ DOMAIN pools'[i].assets \in DOMAIN poolIdOf'
             /\ poolIdOf'[DOMAIN pools'[i].assets] = i
  <2>1. CASE i = id
    BY <1>2, <2>1 DEF pair
  <2>2. CASE i # id
    BY <1>1, <1>2, <1>3, <2>2 DEF IndexAgrees
  <2> QED BY <2>1, <2>2
<1>6. ASSUME NEW p \in DOMAIN poolIdOf'
      PROVE  poolIdOf'[p] \in DOMAIN pools' /\ DOMAIN pools'[poolIdOf'[p]].assets = p
  <2>1. CASE p = pair
    BY <1>2, <2>1 DEF pair
  <2>2. CASE p # pair
    BY <1>1, <1>2, <1>4, <2>2 DEF IndexAgrees
  <2> QED BY <2>1, <2>2
<1> QED BY <1>5, <1>6 DEF IndexAgrees

\* The share coins of a pool, and how they change.
LEMMA SupplyAfter ==
    ASSUME PInv, NEW who, NEW id, NEW pool, Moves(who, id, pool)
    PROVE  /\ \A i \in PoolIds : ShareSupply(i) \in Nat
           /\ ShareSupply(id)' = ShareSupply(id) + (pool.totalShares - OldShares(id))
           /\ \A i \in PoolIds \ {id} : ShareSupply(i)' = ShareSupply(i)
<1>1. /\ shares \in [Traders -> [PoolIds -> Nat]]
      /\ shares' \in [Traders -> [PoolIds -> Nat]]
      /\ who \in Traders /\ id \in PoolIds
  BY DEF PInv, BankTyped, Moves, BankMoves
<1>2. IsFiniteSet(Traders)
  BY AccountAssumption
<1> DEFINE F(i) == [t \in Traders |-> shares[t][i]]
           G(i) == [t \in Traders |-> shares'[t][i]]
<1>3. ASSUME NEW i \in PoolIds
      PROVE  ShareSupply(i) = SumFunctionOnSet(F(i), Traders)
             /\ ShareSupply(i)' = SumFunctionOnSet(G(i), Traders)
             /\ \A t \in Traders : F(i)[t] \in Nat /\ G(i)[t] \in Nat
  BY <1>1 DEF ShareSupply, SumFunction
<1>4. ASSUME NEW i \in PoolIds PROVE ShareSupply(i) \in Nat
  <2> DEFINE f == F(i)
  <2>1. \A t \in Traders : f[t] \in Nat
    BY <1>3
  <2> HIDE DEF f
  <2>2. SumFunctionOnSet(f, Traders) \in Nat
    BY <1>2, <2>1, SumNatural
  <2> QED BY <1>3, <2>2 DEF f
<1>5. ASSUME NEW i \in PoolIds \ {id} PROVE ShareSupply(i)' = ShareSupply(i)
  <2> DEFINE f == F(i)
             g == G(i)
  <2>1. f = g
    <3>1. \A t \in Traders : shares'[t][i] = shares[t][i]
      BY DEF Moves, BankMoves
    <3> QED BY <3>1
  <2> HIDE DEF f, g
  <2> QED BY <1>3, <2>1 DEF f, g
<1>6. ShareSupply(id)' = ShareSupply(id) + (pool.totalShares - OldShares(id))
  <2> DEFINE f == F(id)
             g == G(id)
             more == pool.totalShares - OldShares(id)
  <2>1. /\ IntOn(f, DOMAIN f) /\ DOMAIN f = Traders /\ DOMAIN g = Traders
        /\ g[who] \in Int /\ f[who] \in Int
    BY <1>1, <1>3 DEF IntOn
  <2>2. \A t \in Traders : t # who => g[t] = f[t]
    BY <1>1 DEF Moves, BankMoves
  <2>3. g[who] = f[who] + more
    BY <1>1 DEF Moves, BankMoves
  <2>4. ShareSupply(id) = SumFunction(f) /\ ShareSupply(id)' = SumFunction(g)
    BY <1>1, <1>3 DEF SumFunction
  <2>5. more \in Int
    <3>1. pool.totalShares \in Nat
      BY DEF Moves, IsPool
    <3>2. OldShares(id) \in Nat
      BY DEF OldShares, PInv, PoolsTyped, IsPool
    <3> QED BY <3>1, <3>2
  <2> HIDE DEF f, g, more
  <2>6. SumFunction(f) \in Int /\ SumFunction(g) = SumFunction(f) + (g[who] - f[who])
    <3>1. DOMAIN g = DOMAIN f \cup {who}
      BY <1>1, <2>1
    <3> QED BY <1>1, <1>2, <2>1, <2>2, <3>1, SumReplaced
  <2>7. SumFunction(g) = SumFunction(f) + more
    BY <2>1, <2>3, <2>5, <2>6
  <2> QED BY <2>4, <2>7 DEF more
<1> QED BY <1>4, <1>5, <1>6

\* the account and the share coins behind every pool,
LEMMA MovesKeepBacking ==
    ASSUME PInv, NEW who, NEW id, NEW pool, Moves(who, id, pool)
    PROVE  AllBacked'
<1>1. PoolsTyped /\ BankTyped /\ AllBacked /\ IsPool(pool) /\ id \in PoolIds
      /\ Numbered(id, pool)
  BY DEF PInv, Moves
<1>2. /\ DOMAIN pools' = DOMAIN pools \cup {id}
      /\ pools'[id] = pool
      /\ \A i \in DOMAIN pools : i # id => pools'[i] = pools[i]
  BY PoolsAfter DEF Moves
<1>3. history'.restarts = history.restarts
  BY <1>1 DEF BankTyped, Moves, Counted
<1>4. /\ \A i \in PoolIds : ShareSupply(i) \in Nat
      /\ ShareSupply(id)' = ShareSupply(id) + (pool.totalShares - OldShares(id))
      /\ \A i \in PoolIds \ {id} : ShareSupply(i)' = ShareSupply(i)
  BY SupplyAfter
<1> SUFFICES ASSUME NEW i \in DOMAIN pools' PROVE BackedPool(i)'
  BY DEF AllBacked
<1>5. CASE i # id
  <2>1. i \in DOMAIN pools /\ i \in PoolIds \ {id} /\ BackedPool(i)
    BY <1>1, <1>2, <1>5 DEF AllBacked, PoolsTyped
  <2>2. tokens'[i] = tokens[i] /\ pools'[i] = pools[i] /\ ShareSupply(i)' = ShareSupply(i)
    BY <1>2, <1>4, <1>5, <2>1 DEF Moves, BankMoves
  <2> QED BY <1>3, <2>1, <2>2 DEF BackedPool
<1>6. CASE i = id
  <2>1. ASSUME NEW d \in DOMAIN pool.assets
        PROVE  /\ tokens'[id][d] >= pool.assets[d]
               /\ history.restarts = 0 => tokens'[id][d] = pool.assets[d]
    <3>1. d \in Denoms /\ Amount(pool.assets, d) = pool.assets[d]
          /\ pool.assets[d] \in Nat /\ tokens[id][d] \in Nat
      BY <1>1 DEF IsPool, Pairs, Amount, BankTyped, Accounts
    <3>2. tokens'[id][d] = tokens[id][d] + (pool.assets[d] - OldAmount(id, d))
      BY <3>1 DEF Moves, BankMoves
    <3>3. /\ OldAmount(id, d) \in Nat
          /\ tokens[id][d] >= OldAmount(id, d)
          /\ history.restarts = 0 => tokens[id][d] = OldAmount(id, d)
      <4>1. CASE id \in DOMAIN pools
        <5>1. DOMAIN pools[id].assets = DOMAIN pool.assets
          BY <1>1, <4>1, PoolNumbers DEF Numbered, PoolsTyped
        <5>2. OldAmount(id, d) = pools[id].assets[d]
          BY <4>1, <5>1 DEF OldAmount, Amount
        <5> QED BY <1>1, <4>1, <5>1, <5>2 DEF AllBacked, BackedPool, PoolsTyped, IsPool
      <4>2. CASE id \notin DOMAIN pools
        <5>1. id = nextPool /\ OldAmount(id, d) = 0
          BY <1>1, <4>2 DEF Numbered, OldAmount
        <5>2. history.restarts = 0 => tokens[id][d] = 0
          <6>1. id >= nextPool
            BY <1>1, <5>1, PoolNumbers
          <6> QED BY <1>1, <3>1, <6>1 DEF PInv, FreshAreEmpty
        <5> QED BY <3>1, <5>1, <5>2
      <4> QED BY <4>1, <4>2
    <3> DEFINE a == tokens[id][d]
               o == OldAmount(id, d)
               b == pool.assets[d]
    <3>4. a \in Nat /\ o \in Nat /\ b \in Nat
      BY <3>1, <3>3
    <3> HIDE DEF a, o, b
    <3>5. a >= o => a + (b - o) >= b
      BY <3>4
    <3>6. a = o => a + (b - o) = b
      BY <3>4
    <3> QED BY <3>2, <3>3, <3>5, <3>6 DEF a, o, b
  <2>2. /\ OldShares(id) \in Nat
        /\ ShareSupply(id) >= OldShares(id)
        /\ history.restarts = 0 => ShareSupply(id) = OldShares(id)
    <3>1. CASE id \in DOMAIN pools
      BY <1>1, <3>1 DEF AllBacked, BackedPool, PoolsTyped, IsPool, OldShares
    <3>2. CASE id \notin DOMAIN pools
      <4>1. id = nextPool /\ OldShares(id) = 0
        BY <1>1, <3>2 DEF Numbered, OldShares
      <4>2. ASSUME history.restarts = 0 PROVE ShareSupply(id) = 0
        <5> DEFINE f == [t \in Traders |-> shares[t][id]]
        <5>1. \A t \in Traders : f[t] = 0
          <6>1. id >= nextPool
            BY <1>1, <4>1, PoolNumbers
          <6> QED BY <1>1, <4>2, <6>1 DEF PInv, FreshAreEmpty
        <5>2. IntOn(f, Traders) /\ {} \subseteq Traders /\ \A t \in Traders \ {} : f[t] = 0
          BY <5>1 DEF IntOn
        <5>3. ShareSupply(id) = SumFunctionOnSet(f, Traders)
          BY DEF ShareSupply, SumFunction
        <5> HIDE DEF f
        <5>4. SumFunctionOnSet(f, Traders) = SumFunctionOnSet(f, {})
          BY <5>2, AccountAssumption, SumSubset
        <5> QED BY <5>3, <5>4, SumEmpty
      <4>3. ShareSupply(id) \in Nat
        BY <1>1, <1>4
      <4> QED BY <4>1, <4>2, <4>3
    <3> QED BY <3>1, <3>2
  <2>3. /\ ShareSupply(id)' >= pool.totalShares
        /\ history.restarts = 0 => ShareSupply(id)' = pool.totalShares
    <3> DEFINE a == ShareSupply(id)
               o == OldShares(id)
               b == pool.totalShares
    <3>1. a \in Nat /\ o \in Nat /\ b \in Nat
      BY <1>1, <1>4, <2>2 DEF IsPool
    <3> HIDE DEF a, o, b
    <3>2. a >= o => a + (b - o) >= b
      BY <3>1
    <3>3. a = o => a + (b - o) = b
      BY <3>1
    <3> QED BY <1>4, <2>2, <3>2, <3>3 DEF a, o, b
  <2> QED BY <1>2, <1>3, <1>6, <2>1, <2>3 DEF BackedPool
<1> QED BY <1>5, <1>6

\* the emptiness of the accounts of pools still to come,
LEMMA MovesKeepFresh ==
    ASSUME PInv, NEW who, NEW id, NEW pool, Moves(who, id, pool)
    PROVE  FreshAreEmpty'
<1>1. PoolsTyped /\ BankTyped /\ FreshAreEmpty /\ id \in PoolIds /\ Numbered(id, pool)
  BY DEF PInv, Moves
<1>2. history'.restarts = history.restarts
  BY <1>1 DEF BankTyped, Moves, Counted
<1> SUFFICES ASSUME history.restarts = 0, NEW i \in PoolIds, i >= nextPool'
             PROVE  /\ \A d \in Denoms : tokens'[i][d] = 0
                    /\ \A t \in Traders : shares'[t][i] = 0
  BY <1>2 DEF FreshAreEmpty
<1>3. i >= nextPool /\ i # id
  BY <1>1, PoolNumbers DEF PoolsTyped, Numbered
<1>4. tokens'[i] = tokens[i] /\ \A t \in Traders : shares'[t][i] = shares[t][i]
  BY <1>3 DEF Moves, BankMoves
<1> QED BY <1>1, <1>3, <1>4 DEF FreshAreEmpty

\* and the totals by denom.
LEMMA MovesKeepLiquidity ==
    ASSUME PInv, NEW who, NEW id, NEW pool, Moves(who, id, pool)
    PROVE  LiquidityAgrees'
<1>1. PoolsTyped /\ BankTyped /\ LiquidityAgrees /\ IsPool(pool)
  BY DEF PInv, Moves
<1>2. /\ DOMAIN pools' = DOMAIN pools \cup {id}
      /\ pools'[id] = pool
      /\ \A i \in DOMAIN pools : i # id => pools'[i] = pools[i]
  BY PoolsAfter DEF Moves
<1> SUFFICES ASSUME NEW d \in Denoms PROVE liquidity'[d] = SumFunction(PoolAmounts(d)')
  BY DEF LiquidityAgrees
<1> DEFINE f == PoolAmounts(d)
           g == PoolAmounts(d)'
<1>3. DOMAIN f = DOMAIN pools /\ IsFiniteSet(DOMAIN f) /\ IntOn(f, DOMAIN f)
  <2>1. \A i \in DOMAIN pools : Amount(pools[i].assets, d) \in Nat
    BY <1>1, AmountType DEF PoolsTyped
  <2>2. IsFiniteSet(DOMAIN pools)
    BY <1>1, PoolNumbers, FS_Subset DEF PoolsTyped
  <2> QED BY <2>1, <2>2 DEF PoolAmounts, IntOn
<1>4. DOMAIN g = DOMAIN f \cup {id} /\ g[id] = Amount(pool.assets, d)
      /\ \A i \in DOMAIN f : i # id => g[i] = f[i]
  BY <1>2 DEF PoolAmounts
<1>5. g[id] \in Int
  BY <1>1, <1>4, AmountType
<1>6. OldAmount(id, d) = IF id \in DOMAIN f THEN f[id] ELSE 0
  BY DEF OldAmount, PoolAmounts
<1>7. liquidity'[d] = liquidity[d] + (Amount(pool.assets, d) - OldAmount(id, d))
  BY DEF Moves, BankMoves
<1>8. liquidity[d] = SumFunction(f)
  BY <1>1 DEF LiquidityAgrees
<1> HIDE DEF f, g
<1>9. SumFunction(g) = SumFunction(f) + (g[id] - IF id \in DOMAIN f THEN f[id] ELSE 0)
  <2>1. PICK e, h : e = f /\ h = g
    OBVIOUS
  <2>2. IsFiniteSet(DOMAIN e) /\ IntOn(e, DOMAIN e)
    BY <1>3, <2>1
  <2>3. DOMAIN h = DOMAIN e \cup {id} /\ h[id] \in Int
    BY <1>4, <1>5, <2>1
  <2>4. \A i \in DOMAIN e : i # id => h[i] = e[i]
    BY <1>4, <2>1
  <2>5. SumFunction(h) = SumFunction(e) + (h[id] - IF id \in DOMAIN e THEN e[id] ELSE 0)
    BY <2>2, <2>3, <2>4, SumReplaced
  <2> QED BY <2>1, <2>5
<1>10. liquidity'[d] = SumFunction(g)
  BY <1>4, <1>6, <1>7, <1>8, <1>9, Zenon
<1> QED BY <1>10 DEF g

\* A step that moves the record, the bank and the totals alike keeps the invariant.
LEMMA MovesKeep ==
    ASSUME PInv, NEW who, NEW id, NEW pool, Moves(who, id, pool)
    PROVE  PInv'
BY MovesKeepTypes, MovesKeepIndex, MovesKeepBacking, MovesKeepFresh, MovesKeepLiquidity
   DEF PInv

-----------------------------------------------------------------------------
(* Coins and the bank *)

\* A pair is two different denoms.
LEMMA PairIs ==
    ASSUME NEW p \in Pairs
    PROVE  /\ p \subseteq Denoms /\ IsFiniteSet(p)
           /\ \E a, b \in Denoms : a # b /\ p = {a, b}
<1>1. p \subseteq Denoms /\ Cardinality(p) = 2
  BY DEF Pairs
<1>2. IsFiniteSet(p)
  BY <1>1, AccountAssumption, FS_Subset
<1>3. p # {}
  BY <1>1, FS_EmptySet
<1>4. PICK a \in p : TRUE
  BY <1>3
<1> DEFINE q == p \ {a}
<1>5. IsFiniteSet(q) /\ Cardinality(q) = 1
  BY <1>1, <1>2, <1>4, FS_RemoveElement
<1>6. PICK b : q = {b}
  BY <1>5, FS_Singleton
<1> QED BY <1>1, <1>2, <1>4, <1>6

\* Amounts of some of the denoms, each positive or zero.
IsCoins(coins) == DOMAIN coins \subseteq Denoms /\ coins \in [DOMAIN coins -> Nat]

\* The amount of a denom among coins is a natural number.
LEMMA CoinAmount ==
    ASSUME NEW coins, IsCoins(coins), NEW d
    PROVE  /\ Amount(coins, d) \in Nat
           /\ d \in DOMAIN coins => Amount(coins, d) = coins[d]
           /\ d \notin DOMAIN coins => Amount(coins, d) = 0
BY DEF IsCoins, Amount

\* A transfer from one account to another.
Balances == [Accounts -> [Denoms -> Nat]]
Transfer(t, u, from, to, coins) ==
    /\ \A d \in Denoms : u[from][d] = t[from][d] - Amount(coins, d)
    /\ \A d \in Denoms : u[to][d] = t[to][d] + Amount(coins, d)
    /\ \A a \in Accounts \ {from, to} : u[a] = t[a]

\* SendCoins moves the coins from one account to the other and touches no third.
LEMMA TransferIs ==
    ASSUME NEW t \in Balances, NEW coins, IsCoins(coins),
           NEW from \in Accounts, NEW to \in Accounts, from # to,
           \A d \in DOMAIN coins : t[from][d] >= coins[d]
    PROVE  /\ SendCoins(t, from, to, coins) \in Balances
           /\ Transfer(t, SendCoins(t, from, to, coins), from, to, coins)
<1> DEFINE u == SendCoins(t, from, to, coins)
           f == SubCoins(t[from], coins)
           g == AddCoins(t[to], coins)
<1>1. t[from] \in [Denoms -> Nat] /\ t[to] \in [Denoms -> Nat]
  BY DEF Balances
<1>2. \A d \in Denoms : Amount(coins, d) \in Nat /\ t[from][d] >= Amount(coins, d)
  BY <1>1, CoinAmount
<1>3. f \in [Denoms -> Nat] /\ \A d \in Denoms : f[d] = t[from][d] - Amount(coins, d)
  BY <1>1, <1>2 DEF SubCoins
<1>4. g \in [Denoms -> Nat] /\ \A d \in Denoms : g[d] = t[to][d] + Amount(coins, d)
  BY <1>1, <1>2 DEF AddCoins
<1>5. u = [t EXCEPT ![from] = f, ![to] = g]
  BY DEF SendCoins, Balances
<1> HIDE DEF f, g, u
<1>6. u \in Balances /\ u[from] = f /\ u[to] = g
      /\ \A a \in Accounts \ {from, to} : u[a] = t[a]
  BY <1>3, <1>4, <1>5 DEF Balances
<1> QED BY <1>3, <1>4, <1>6 DEF Transfer, u

\* A trader and a pool are different accounts.
LEMMA AccountsDiffer ==
    ASSUME NEW who \in Traders, NEW id \in PoolIds
    PROVE  who \in Accounts /\ id \in Accounts /\ who # id /\ who \notin PoolIds
BY AccountAssumption DEF Accounts

\* The shares of one trader in one pool change.
LEMMA SharesAfter ==
    ASSUME BankTyped, NEW who \in Traders, NEW id \in PoolIds, NEW k \in Int,
           shares[who][id] + k \in Nat,
           shares' = [shares EXCEPT ![who][id] = @ + k]
    PROVE  /\ shares' \in [Traders -> [PoolIds -> Nat]]
           /\ shares'[who][id] = shares[who][id] + k
           /\ \A t \in Traders, i \in PoolIds :
                <<t, i>> # <<who, id>> => shares'[t][i] = shares[t][i]
BY DEF BankTyped

-----------------------------------------------------------------------------
(* Leaving a pool *)

\* A part of a decimal, rounded, is no more than the whole.
LEMMA MulAtMost ==
    ASSUME NEW a \in Nat, NEW k \in 0..One
    PROVE  Mul(a, k) \in Nat /\ Mul(a, k) <= a
<1> DEFINE m == Mul(a, k)
<1>1. k \in Nat /\ k <= Scale
  BY ScaleAssumption DEF One
<1>2. m \in Nat /\ 2 * (Scale * m) <= 2 * (a * k) + Scale
  BY <1>1, MulBounds
<1>3. a * k <= Scale * a
  BY <1>1, ScaleAssumption
<1> HIDE DEF m
<1>4. Scale * (2 * m) <= Scale * (2 * a + 1)
  <2>1. Scale * (2 * m) = 2 * (Scale * m) /\ Scale * (2 * a + 1) = 2 * (Scale * a) + Scale
    BY <1>2, ScaleAssumption
  <2>2. Scale * m \in Int /\ a * k \in Int /\ Scale * a \in Int
    BY <1>1, <1>2, ScaleAssumption, Products
  <2> DEFINE x == Scale * m
             y == a * k
             z == Scale * a
  <2>3. x \in Int /\ y \in Int /\ z \in Int /\ 2 * x <= 2 * y + Scale /\ y <= z
    BY <1>2, <1>3, <2>2
  <2> HIDE DEF x, y, z
  <2>4. 2 * x <= 2 * z + Scale
    BY <2>3, ScaleAssumption
  <2> QED BY <2>1, <2>4 DEF x, z
<1>5. 2 * m <= 2 * a + 1
  BY <1>2, <1>4, Signs, ScaleAssumption
<1> QED BY <1>2, <1>5 DEF m

\* Truncation of at most a whole number.
LEMMA TruncateAtMost ==
    ASSUME NEW d \in Nat, NEW a \in Nat, d <= Scale * a
    PROVE  Truncate(d) \in Nat /\ Truncate(d) <= a
<1> DEFINE q == Quot(d, Scale)
<1>1. q \in Nat /\ Scale * q <= d
  BY QuotBounds, ScaleAssumption
<1> HIDE DEF q
<1>2. Scale * q <= Scale * a
  <2>1. Scale * q \in Int /\ Scale * a \in Int
    BY <1>1, ScaleAssumption, Products
  <2> QED BY <1>1, <2>1
<1>3. q <= a
  BY <1>1, <1>2, Signs, ScaleAssumption
<1> QED BY <1>1, <1>3 DEF q, Truncate

\* What shares are worth is no more than the pool has.
LEMMA OutOfPool ==
    ASSUME NEW pool, IsPool(pool), NEW n \in Nat, n > 0, n <= pool.totalShares
    PROVE  LET out == TokensOutFromPoolSharesIn(pool, n)
           IN  /\ IsCoins(out)
               /\ DOMAIN out \subseteq DOMAIN pool.assets
               /\ \A d \in DOMAIN out : out[d] <= pool.assets[d]
<1> DEFINE out == TokensOutFromPoolSharesIn(pool, n)
           ratio == QuoInt(ToDec(n), pool.totalShares)
           rest == One - pool.exitFee
<1>1. pool.totalShares \in Nat \ {0} /\ pool.assets \in [DOMAIN pool.assets -> Nat]
      /\ DOMAIN pool.assets \subseteq Denoms /\ rest \in 0..One
  BY ScaleAssumption DEF IsPool, Pairs, One
<1>2. DOMAIN out \subseteq DOMAIN pool.assets
  BY DEF TokensOutFromPoolSharesIn, PoolBalances, NonZero, Restrict
<1>3. \A d \in DOMAIN out : out[d] = Truncate(Mul(ratio * pool.assets[d], rest))
  BY DEF TokensOutFromPoolSharesIn, PoolBalances, NonZero, Restrict
<1>4. ratio \in Nat /\ ratio <= Scale
  <2> DEFINE ts == pool.totalShares
             q == Quot(n * Scale, ts)
  <2>1. n * Scale \in Nat
    BY ScaleAssumption
  <2>2. ts \in Nat \ {0}
    BY <1>1
  <2> HIDE DEF ts
  <2>3. q \in Nat /\ ts * q <= n * Scale
    BY <2>1, <2>2, QuotBounds
  <2>4. n * Scale <= ts * Scale
    BY <2>2, ScaleAssumption DEF ts
  <2> HIDE DEF q
  <2>5. ts * q <= ts * Scale
    <3>1. ts * q \in Int /\ ts * Scale \in Int
      BY <2>2, <2>3, ScaleAssumption, Products
    <3> QED BY <2>1, <2>3, <2>4, <3>1
  <2>6. q <= Scale
    BY <2>2, <2>3, <2>5, Signs, ScaleAssumption
  <2> QED BY <2>3, <2>6 DEF q, ts, QuoInt, ToDec
<1> HIDE DEF ratio, rest
<1>5. ASSUME NEW d \in DOMAIN out
      PROVE  out[d] \in Nat /\ out[d] <= pool.assets[d]
  <2> DEFINE a == pool.assets[d]
             m == Mul(ratio * a, rest)
  <2>1. a \in Nat
    BY <1>1, <1>2
  <2>2. out[d] = Truncate(m)
    BY <1>3
  <2> HIDE DEF a, out
  <2>3. ratio * a \in Nat /\ ratio * a <= Scale * a
    BY <1>4, <2>1, ScaleAssumption
  <2>4. m \in Nat /\ m <= ratio * a
    BY <1>1, <2>3, MulAtMost
  <2> HIDE DEF m
  <2>5. m <= Scale * a
    <3>1. Scale * a \in Int
      BY <2>1, ScaleAssumption, Products
    <3> QED BY <2>3, <2>4, <3>1
  <2>6. Truncate(m) \in Nat /\ Truncate(m) <= a
    BY <2>1, <2>4, <2>5, TruncateAtMost
  <2> QED BY <2>2, <2>6 DEF a
<1>6. out \in [DOMAIN out -> Nat]
  <2>1. out = [d \in DOMAIN out |-> out[d]]
    BY DEF TokensOutFromPoolSharesIn
  <2> HIDE DEF out
  <2> QED BY <1>5, <2>1
<1> HIDE DEF out
<1>7. IsCoins(out)
  BY <1>1, <1>2, <1>6 DEF IsCoins
<1> QED BY <1>2, <1>5, <1>7 DEF out

\* A pool with other balances of the same coins, and other shares.
Rebalanced(p, assets, ts) == [p EXCEPT !.assets = assets, !.totalShares = ts]

\* It is a pool.
LEMMA RebalancedIsPool ==
    ASSUME NEW p, IsPool(p), NEW assets \in [DOMAIN p.assets -> Nat], NEW ts \in Nat
    PROVE  /\ IsPool(Rebalanced(p, assets, ts))
           /\ Rebalanced(p, assets, ts).assets = assets
           /\ Rebalanced(p, assets, ts).totalShares = ts
<1>1. Rebalanced(p, assets, ts)
        = [type |-> p.type, A |-> p.A, swapFee |-> p.swapFee, exitFee |-> p.exitFee,
           assets |-> assets, totalShares |-> ts]
  <2>1. PICK a, b, c, e, f, g : p = [type |-> a, A |-> b, swapFee |-> c, exitFee |-> e,
                                    assets |-> f, totalShares |-> g]
    BY DEF IsPool
  <2> DEFINE r == [type |-> a, A |-> b, swapFee |-> c, exitFee |-> e,
                   assets |-> assets, totalShares |-> g]
  <2>2. [p EXCEPT !.assets = assets] = r
    BY <2>1
  <2>3. [r EXCEPT !.totalShares = ts]
          = [type |-> a, A |-> b, swapFee |-> c, exitFee |-> e,
             assets |-> assets, totalShares |-> ts]
    OBVIOUS
  <2>4. Rebalanced(p, assets, ts) = [r EXCEPT !.totalShares = ts]
    BY <2>2 DEF Rebalanced
  <2> HIDE DEF r
  <2> QED BY <2>1, <2>3, <2>4
<1>2. DOMAIN assets = DOMAIN p.assets
  OBVIOUS
<1> HIDE DEF Rebalanced
<1> QED BY <1>1, <1>2 DEF IsPool

\* ExitPool takes from the record what it pays out of the account.
LEMMA ExitKeeps ==
    ASSUME PInv, NEW who \in Traders, NEW id \in DOMAIN pools,
           NEW n \in ExitAmounts \cup {pools[id].totalShares}, ExitPool(who, id, n)
    PROVE  PInv'
<1>1. PICK pool : pool = pools[id]
  OBVIOUS
<1>2. IsPool(pool) /\ id \in PoolIds /\ BankTyped
  BY <1>1 DEF PInv, PoolsTyped
<1>3. PICK out : out = TokensOutFromPoolSharesIn(pool, n)
  OBVIOUS
<1>4. /\ Counted
      /\ CanExit(pool, n, id)
      /\ shares[who][id] >= n
      /\ tokens' = SendCoins(tokens, id, who, out)
      /\ shares' = [shares EXCEPT ![who][id] = @ - n]
      /\ SetPool(id, [pool EXCEPT !.assets = SubCoins(@, out), !.totalShares = @ - n])
      /\ liquidity' = SubCoins(liquidity, out)
      /\ nextPool' = nextPool
  BY <1>1, <1>3 DEF ExitPool, RecordTotalLiquidityDecrease
<1>5. n \in Nat /\ n > 0 /\ n <= pool.totalShares /\ pool.totalShares \in Nat
  <2>1. n \in ExitAmounts \/ n = pool.totalShares
    BY <1>1
  <2> QED BY <1>2, <1>4, <2>1, InputAssumption DEF CanExit, IsPool
<1>6. /\ IsCoins(out)
      /\ DOMAIN out \subseteq DOMAIN pool.assets
      /\ \A d \in DOMAIN out : out[d] <= pool.assets[d]
  BY <1>2, <1>3, <1>5, OutOfPool
<1>7. PICK assets : assets = SubCoins(pool.assets, out)
  OBVIOUS
<1>8. pool.assets \in [DOMAIN pool.assets -> Nat] /\ DOMAIN pool.assets \subseteq Denoms
  BY <1>2 DEF IsPool, Pairs
<1>9. \A d : Amount(out, d) \in Nat /\ (d \in DOMAIN pool.assets => pool.assets[d] >= Amount(out, d))
             /\ (d \notin DOMAIN pool.assets => Amount(out, d) = 0)
  BY <1>6, <1>8, CoinAmount
<1>10. assets \in [DOMAIN pool.assets -> Nat]
       /\ \A d \in DOMAIN pool.assets : assets[d] = pool.assets[d] - Amount(out, d)
  BY <1>7, <1>8, <1>9 DEF SubCoins
<1>11. PICK q : q = Rebalanced(pool, assets, pool.totalShares - n)
  OBVIOUS
<1>12. IsPool(q) /\ q.assets = assets /\ q.totalShares = pool.totalShares - n
  <2>1. pool.totalShares - n \in Nat
    BY <1>5
  <2> QED BY <1>2, <1>10, <1>11, <2>1, RebalancedIsPool
<1>13. SetPool(id, q)
  BY <1>2, <1>4, <1>7, <1>11 DEF Rebalanced, IsPool
<1>14. \A d \in Denoms : Amount(q.assets, d) - OldAmount(id, d) = 0 - Amount(out, d)
  BY <1>1, <1>8, <1>9, <1>10, <1>12 DEF OldAmount, Amount
<1>15. who \in Accounts /\ id \in Accounts /\ who # id /\ who \notin PoolIds
  BY <1>2, AccountsDiffer
<1>16. tokens' \in Balances /\ Transfer(tokens, tokens', id, who, out)
  <2>1. tokens \in Balances
    BY <1>2 DEF BankTyped, Balances
  <2>2. \A d \in DOMAIN out : tokens[id][d] >= out[d]
    BY <1>3, <1>4 DEF CanExit, CanPay
  <2> QED BY <1>4, <1>6, <1>15, <2>1, <2>2, TransferIs
<1>17. /\ shares' \in [Traders -> [PoolIds -> Nat]]
       /\ shares'[who][id] = shares[who][id] + (q.totalShares - OldShares(id))
       /\ \A t \in Traders, i \in PoolIds :
             <<t, i>> # <<who, id>> => shares'[t][i] = shares[t][i]
  <2>1. shares[who][id] \in Nat
    BY <1>2 DEF BankTyped
  <2>2. q.totalShares - OldShares(id) = 0 - n
    BY <1>1, <1>5, <1>12 DEF OldShares
  <2>3. shares[who][id] + (0 - n) \in Nat /\ 0 - n \in Int
    BY <1>4, <1>5, <2>1
  <2>4. shares' = [shares EXCEPT ![who][id] = @ + (0 - n)]
    <3>1. shares[who][id] - n = shares[who][id] + (0 - n)
      BY <1>5, <2>1
    <3> QED BY <1>4, <3>1
  <2> QED BY <1>2, <2>2, <2>3, <2>4, SharesAfter
<1>18. BankMoves(who, id, q)
  <2>1. \A d \in Denoms :
          tokens'[id][d] = tokens[id][d] + (Amount(q.assets, d) - OldAmount(id, d))
    <3> SUFFICES ASSUME NEW d \in Denoms
                 PROVE  tokens'[id][d] = tokens[id][d] + (Amount(q.assets, d) - OldAmount(id, d))
      OBVIOUS
    <3>1. tokens[id][d] \in Nat /\ Amount(out, d) \in Nat
      BY <1>2, <1>9, <1>15 DEF BankTyped
    <3>2. tokens'[id][d] = tokens[id][d] - Amount(out, d)
      BY <1>16 DEF Transfer
    <3> QED BY <1>14, <3>1, <3>2
  <2>2. \A i \in PoolIds \ {id} : tokens'[i] = tokens[i]
    BY <1>15, <1>16 DEF Transfer, Accounts
  <2>3. liquidity' = [d \in Denoms |->
                        liquidity[d] + (Amount(q.assets, d) - OldAmount(id, d))]
    <3>1. liquidity \in [Denoms -> Int]
      BY <1>2 DEF BankTyped
    <3>2. \A d \in Denoms : liquidity[d] - Amount(out, d)
                              = liquidity[d] + (Amount(q.assets, d) - OldAmount(id, d))
      BY <1>9, <1>14, <3>1
    <3>3. liquidity' = [d \in Denoms |-> liquidity[d] - Amount(out, d)]
      BY <1>4, <3>1 DEF SubCoins
    <3> QED BY <3>2, <3>3
  <2> QED BY <1>16, <1>17, <2>1, <2>2, <2>3 DEF BankMoves, Balances
<1>19. Moves(who, id, q)
  <2>1. Numbered(id, q)
    BY <1>1, <1>4, <1>10, <1>12 DEF Numbered
  <2> QED BY <1>2, <1>4, <1>12, <1>13, <1>18, <2>1 DEF Moves
<1> QED BY <1>19, MovesKeep

-----------------------------------------------------------------------------
(* Swaps *)

\* D is positive when the pool has both coins.
LEMMA DPositive ==
    ASSUME NEW assets, DOMAIN assets \in Pairs, assets \in [DOMAIN assets -> Nat \ {0}],
           NEW amp \in Nat \ {0}
    PROVE  D(assets, amp) \in Nat \ {0}
<1>1. PICK a, b \in Denoms : a # b /\ DOMAIN assets = {a, b}
  BY PairIs
<1> DEFINE d == CHOOSE c \in DOMAIN assets : TRUE
           e == CHOOSE c \in DOMAIN assets \ {d} : TRUE
<1>2. d \in DOMAIN assets
  BY <1>1
<1>3. e \in DOMAIN assets \ {d}
  <2> HIDE DEF d
  <2>1. \E c \in DOMAIN assets \ {d} : TRUE
    BY <1>1, <1>2
  <2> QED BY <2>1
<1> HIDE DEF d, e
<1>4. assets[d] \in Nat \ {0} /\ assets[e] \in Nat \ {0}
  BY <1>2, <1>3
<1>5. GetD(assets[d], assets[e], amp) \in Nat \ {0}
  BY <1>4, GetDPositive
<1> QED BY <1>5 DEF D, d, e

\* The quotient of a decimal by one no smaller is at most one.
LEMMA QuoAtMostOne ==
    ASSUME NEW a \in Nat, NEW b \in Nat \ {0}, a <= b
    PROVE  Quo(a, b) \in 0..One
<1> DEFINE q == Quo(a, b)
<1>1. q \in Nat /\ 2 * (b * q) <= 2 * (a * Scale) + b
  BY QuoBounds
<1>2. a * Scale <= b * Scale
  BY ScaleAssumption
<1> HIDE DEF q
<1>3. b * (2 * q) <= b * (2 * Scale + 1)
  <2>1. b * (2 * q) = 2 * (b * q) /\ b * (2 * Scale + 1) = 2 * (b * Scale) + b
    BY <1>1, ScaleAssumption
  <2> DEFINE x == b * q
             y == a * Scale
             z == b * Scale
  <2>2. x \in Int /\ y \in Int /\ z \in Int /\ 2 * x <= 2 * y + b /\ y <= z
    BY <1>1, <1>2, ScaleAssumption, Products
  <2> HIDE DEF x, y, z
  <2>3. 2 * x <= 2 * z + b
    BY <2>2
  <2> QED BY <2>1, <2>3 DEF x, z
<1>4. 2 * q <= 2 * Scale + 1
  BY <1>1, <1>3, Signs, ScaleAssumption
<1> QED BY <1>1, <1>4, ScaleAssumption DEF q, One

\* What a swap pays is no more than the pool has.
LEMMA SwapOut ==
    ASSUME NEW pool, IsPool(pool), NEW dIn \in DOMAIN pool.assets,
           NEW dOut \in DOMAIN pool.assets, NEW amt \in Nat
    PROVE  LET out == CalcOutAmtGivenIn(pool, dIn, amt, dOut)
           IN  out \in Int /\ out <= pool.assets[dOut]
<1> DEFINE afterFee == Mul(ToDec(amt), One - pool.swapFee)
           a == pool.assets[dIn]
           b == pool.assets[dOut]
           out == CalcOutAmtGivenIn(pool, dIn, amt, dOut)
<1>1. a \in Nat /\ b \in Nat
  BY DEF IsPool
<1>2. afterFee \in Nat
  <2>1. ToDec(amt) \in Nat /\ One - pool.swapFee \in 0..One
    BY ScaleAssumption DEF ToDec, One, IsPool
  <2> QED BY <2>1, MulAtMost
<1> HIDE DEF afterFee
<1>3. CASE pool.type = "stableswap" /\ 0 \notin Range(pool.assets)
  <2>1. pool.A \in Nat \ {0} /\ DOMAIN pool.assets \in Pairs
        /\ pool.assets \in [DOMAIN pool.assets -> Nat \ {0}]
    <3>1. pool.assets \in [DOMAIN pool.assets -> Nat] /\ DOMAIN pool.assets \in Pairs
          /\ pool.A \in Nat \ {0}
      BY <1>3 DEF IsPool
    <3>2. \A d \in DOMAIN pool.assets : pool.assets[d] # 0
      BY <1>3 DEF Range
    <3> QED BY <3>1, <3>2
  <2> DEFINE dd == D(pool.assets, pool.A)
             in == Truncate(afterFee)
             y == SolveStableswapInvariant(a + in, dd, pool.A)
  <2>2. dd \in Nat \ {0}
    BY <2>1, DPositive
  <2>3. in \in Nat /\ a + in \in Nat \ {0}
    <3>1. in \in Nat
      BY <1>2, QuotBounds, ScaleAssumption DEF Truncate
    <3>2. a \in Nat \ {0}
      BY <2>1
    <3> HIDE DEF in, a
    <3> QED BY <3>1, <3>2
  <2>4. out = b - y
    BY <1>3 DEF CalcOutAmtGivenIn, Exchange, afterFee
  <2> HIDE DEF dd, in, a, b, out
  <2>5. y \in Nat
    BY <2>1, <2>2, <2>3, SolvedBalance
  <2> HIDE DEF y
  <2>6. out \in Int /\ out <= b
    BY <1>1, <2>4, <2>5
  <2> QED BY <2>6 DEF out, b
<1>4. CASE pool.type # "stableswap" /\ ToDec(a) + afterFee # 0
  <2> DEFINE x == ToDec(a)
             z == x + afterFee
             part == One - Quo(x, z)
             m == Mul(ToDec(b), part)
  <2>1. x \in Nat /\ ToDec(b) \in Nat /\ ToDec(b) = Scale * b
    BY <1>1, ScaleAssumption DEF ToDec
  <2>2. z \in Nat \ {0} /\ x <= z
    <3> HIDE DEF x
    <3> QED BY <1>2, <1>4, <2>1 DEF x
  <2>3. out = Truncate(m)
    BY <1>4 DEF CalcOutAmtGivenIn, SolveConstantProductInvariant, afterFee
  <2> HIDE DEF x, z, out, b
  <2>4. part \in 0..One
    <3>1. Quo(x, z) \in 0..One
      BY <2>1, <2>2, QuoAtMostOne
    <3> QED BY <3>1, ScaleAssumption DEF One
  <2> HIDE DEF part
  <2>5. m \in Nat /\ m <= Scale * b
    BY <2>1, <2>4, MulAtMost
  <2> HIDE DEF m
  <2>6. out \in Nat /\ out <= b
    BY <1>1, <2>3, <2>5, TruncateAtMost
  <2> QED BY <2>6 DEF out, b
<1>5. CASE \/ pool.type = "stableswap" /\ 0 \in Range(pool.assets)
           \/ pool.type # "stableswap" /\ ToDec(a) + afterFee = 0
  <2>1. out = 0
    BY <1>5 DEF CalcOutAmtGivenIn, afterFee
  <2> QED BY <1>1, <2>1
<1> HIDE DEF a, out
<1> QED BY <1>3, <1>4, <1>5 DEF out

\* A coin.
LEMMA CoinIs ==
    ASSUME NEW d \in Denoms, NEW amt \in Nat
    PROVE  /\ IsCoins(Coin(d, amt))
           /\ \A e : Amount(Coin(d, amt), e) = IF e = d THEN amt ELSE 0
           /\ DOMAIN Coin(d, amt) = {d} /\ Coin(d, amt)[d] = amt
BY DEF IsCoins, Coin, Amount

\* The record after a swap.
Swapped(p, dIn, amt, dOut, out) ==
    [p EXCEPT !.assets[dIn] = @ + amt, !.assets[dOut] = @ - out]

\* It is a pool: the swap pays out no more than there is.
LEMMA SwappedIsPool ==
    ASSUME NEW p, IsPool(p), NEW dIn \in DOMAIN p.assets, NEW dOut \in DOMAIN p.assets,
           dIn # dOut, NEW amt \in Nat, NEW out \in Nat, out <= p.assets[dOut]
    PROVE  LET q == Swapped(p, dIn, amt, dOut, out)
           IN  /\ IsPool(q)
               /\ DOMAIN q.assets = DOMAIN p.assets
               /\ q.totalShares = p.totalShares
               /\ \A d \in DOMAIN p.assets :
                    q.assets[d] = p.assets[d] + ((IF d = dIn THEN amt ELSE 0)
                                                   - (IF d = dOut THEN out ELSE 0))
<1>1. PICK a, b, c, e, f, g : p = [type |-> a, A |-> b, swapFee |-> c, exitFee |-> e,
                                   assets |-> f, totalShares |-> g]
  BY DEF IsPool
<1>2. p.assets = f /\ f \in [DOMAIN f -> Nat] /\ p.totalShares = g /\ g \in Nat
  BY <1>1 DEF IsPool
<1>3. dIn \in DOMAIN f /\ dOut \in DOMAIN f /\ out <= f[dOut]
  BY <1>2
<1> DEFINE h == [f EXCEPT ![dIn] = f[dIn] + amt]
           k == [h EXCEPT ![dOut] = f[dOut] - out]
           r == [type |-> a, A |-> b, swapFee |-> c, exitFee |-> e,
                 assets |-> h, totalShares |-> g]
           q == Swapped(p, dIn, amt, dOut, out)
<1>4. k \in [DOMAIN f -> Nat]
      /\ \A d \in DOMAIN f : k[d] = f[d] + ((IF d = dIn THEN amt ELSE 0)
                                             - (IF d = dOut THEN out ELSE 0))
  <2>1. f[dIn] + amt \in Nat /\ h[dOut] = f[dOut] /\ f[dOut] - out \in Nat
    BY <1>2, <1>3
  <2>2. k \in [DOMAIN f -> Nat]
    BY <1>2, <1>3, <2>1
  <2>3. \A d \in DOMAIN f : f[d] \in Nat
    BY <1>2
  <2> QED BY <1>2, <1>3, <2>1, <2>2, <2>3
<1>5. [p EXCEPT !.assets[dIn] = @ + amt] = r
  BY <1>1
<1>6. q = [r EXCEPT !.assets[dOut] = f[dOut] - out]
  BY <1>1, <1>3, <1>5 DEF Swapped
<1> HIDE DEF h
<1>7. [r EXCEPT !.assets[dOut] = f[dOut] - out]
        = [type |-> a, A |-> b, swapFee |-> c, exitFee |-> e, assets |-> k, totalShares |-> g]
  OBVIOUS
<1>8. Rebalanced(p, k, g)
        = [type |-> a, A |-> b, swapFee |-> c, exitFee |-> e, assets |-> k, totalShares |-> g]
  <2> HIDE DEF k
  <2> DEFINE s == [type |-> a, A |-> b, swapFee |-> c, exitFee |-> e,
                   assets |-> k, totalShares |-> g]
  <2>1. [p EXCEPT !.assets = k] = s
    BY <1>1
  <2>2. [s EXCEPT !.totalShares = g] = s
    OBVIOUS
  <2>3. Rebalanced(p, k, g) = [s EXCEPT !.totalShares = g]
    BY <2>1 DEF Rebalanced
  <2> QED BY <2>2, <2>3
<1> HIDE DEF k, r, q
<1>9. q = Rebalanced(p, k, g)
  BY <1>6, <1>7, <1>8
<1>10. IsPool(q) /\ q.assets = k /\ q.totalShares = g
  BY <1>2, <1>4, <1>9, RebalancedIsPool
<1>11. DOMAIN k = DOMAIN f
  BY <1>4
<1> QED BY <1>2, <1>4, <1>10, <1>11 DEF q

\* SwapExactAmountIn changes record, account and totals by the same two coins.
LEMMA SwapKeeps ==
    ASSUME PInv, NEW who \in Traders, NEW id \in DOMAIN pools,
           NEW dIn \in DOMAIN pools[id].assets, NEW dOut \in DOMAIN pools[id].assets,
           NEW amt \in SwapAmounts, SwapExactAmountIn(who, id, dIn, amt, dOut)
    PROVE  PInv'
<1>1. PICK pool : pool = pools[id]
  OBVIOUS
<1>2. IsPool(pool) /\ id \in PoolIds /\ BankTyped
  BY <1>1 DEF PInv, PoolsTyped
<1>3. PICK out : out = CalcOutAmtGivenIn(pool, dIn, amt, dOut)
  OBVIOUS
<1>4. PICK paid, got, t : paid = Coin(dIn, amt) /\ got = Coin(dOut, out)
                          /\ t = SendCoins(tokens, who, id, paid)
  OBVIOUS
<1>5. /\ Counted
      /\ {dIn, dOut} = DOMAIN pool.assets
      /\ out > 0
      /\ CanPay(who, paid) /\ CanPay(id, got)
      /\ tokens' = SendCoins(t, id, who, got)
      /\ SetPool(id, Swapped(pool, dIn, amt, dOut, out))
      /\ liquidity' = [liquidity EXCEPT ![dIn] = @ + amt, ![dOut] = @ - out]
      /\ nextPool' = nextPool /\ shares' = shares
  BY <1>1, <1>3, <1>4 DEF SwapExactAmountIn, Swapped
<1>6. dIn # dOut /\ dIn \in Denoms /\ dOut \in Denoms /\ amt \in Nat
      /\ dIn \in DOMAIN pool.assets /\ dOut \in DOMAIN pool.assets
  <2>1. DOMAIN pool.assets \in Pairs
    BY <1>2 DEF IsPool
  <2>2. PICK a, b \in Denoms : a # b /\ DOMAIN pool.assets = {a, b}
    BY <2>1, PairIs
  <2> QED BY <1>1, <1>5, <2>2, InputAssumption
<1>7. out \in Nat /\ out <= pool.assets[dOut]
  <2>1. out \in Int /\ out <= pool.assets[dOut]
    BY <1>2, <1>3, <1>6, SwapOut
  <2> QED BY <1>5, <2>1
<1>8. PICK q : q = Swapped(pool, dIn, amt, dOut, out)
  OBVIOUS
<1>9. /\ IsPool(q)
      /\ DOMAIN q.assets = DOMAIN pool.assets
      /\ q.totalShares = pool.totalShares
      /\ \A d \in DOMAIN pool.assets :
            q.assets[d] = pool.assets[d] + ((IF d = dIn THEN amt ELSE 0)
                                             - (IF d = dOut THEN out ELSE 0))
  BY <1>2, <1>6, <1>7, <1>8, SwappedIsPool
<1> DEFINE Delta(d) == (IF d = dIn THEN amt ELSE 0) - (IF d = dOut THEN out ELSE 0)
<1>10. \A d \in Denoms : Delta(d) \in Int /\ Amount(q.assets, d) - OldAmount(id, d) = Delta(d)
  <2> SUFFICES ASSUME NEW d \in Denoms
               PROVE  Delta(d) \in Int /\ Amount(q.assets, d) - OldAmount(id, d) = Delta(d)
    OBVIOUS
  <2>1. Delta(d) \in Int
    BY <1>6, <1>7
  <2>2. CASE d \in DOMAIN pool.assets
    <3>1. pool.assets[d] \in Nat
      BY <1>2, <2>2 DEF IsPool
    <3>2. Amount(q.assets, d) = pool.assets[d] + Delta(d) /\ OldAmount(id, d) = pool.assets[d]
      BY <1>1, <1>9, <2>2 DEF Amount, OldAmount
    <3> HIDE DEF Delta
    <3> QED BY <2>1, <3>1, <3>2
  <2>3. CASE d \notin DOMAIN pool.assets
    <3>1. d # dIn /\ d # dOut
      BY <1>6, <2>3
    <3> QED BY <1>1, <1>9, <2>3, <3>1 DEF Amount, OldAmount
  <2> QED BY <2>1, <2>2, <2>3
<1>11. who \in Accounts /\ id \in Accounts /\ who # id /\ who \notin PoolIds
  BY <1>2, AccountsDiffer
<1>12. /\ IsCoins(paid) /\ IsCoins(got)
       /\ \A d \in Denoms : Amount(paid, d) = IF d = dIn THEN amt ELSE 0
       /\ \A d \in Denoms : Amount(got, d) = IF d = dOut THEN out ELSE 0
  <2>1. IsCoins(paid) /\ IsCoins(got)
    BY <1>4, <1>6, <1>7, CoinIs
  <2> QED BY <1>4, <2>1 DEF Coin, Amount
<1>13. tokens \in Balances
  BY <1>2 DEF BankTyped, Balances
<1>14. t \in Balances /\ Transfer(tokens, t, who, id, paid)
  <2>1. \A d \in DOMAIN paid : tokens[who][d] >= paid[d]
    BY <1>5 DEF CanPay
  <2> QED BY <1>4, <1>11, <1>12, <1>13, <2>1, TransferIs
<1>15. tokens' \in Balances /\ Transfer(t, tokens', id, who, got)
  <2>1. \A d \in DOMAIN got : t[id][d] >= got[d]
    <3>1. DOMAIN got = {dOut} /\ got[dOut] = out
      BY <1>4, <1>6, <1>7, CoinIs
    <3>2. tokens[id][dOut] >= out
      BY <1>5, <3>1 DEF CanPay
    <3>3. tokens[id][dOut] \in Nat
      BY <1>6, <1>11, <1>13 DEF Balances
    <3>4. t[id][dOut] = tokens[id][dOut] + 0
      BY <1>6, <1>12, <1>14 DEF Transfer
    <3> QED BY <3>1, <3>2, <3>3, <3>4
  <2> QED BY <1>5, <1>11, <1>12, <1>14, <2>1, TransferIs
<1>16. BankMoves(who, id, q)
  <2>1. \A d \in Denoms :
          tokens'[id][d] = tokens[id][d] + (Amount(q.assets, d) - OldAmount(id, d))
    <3> SUFFICES ASSUME NEW d \in Denoms PROVE tokens'[id][d] = tokens[id][d] + Delta(d)
      BY <1>10
    <3>1. tokens[id][d] \in Nat
      BY <1>11, <1>13 DEF Balances
    <3>2. tokens'[id][d] = t[id][d] - Amount(got, d)
      BY <1>15 DEF Transfer
    <3>3. t[id][d] = tokens[id][d] + Amount(paid, d)
      BY <1>14 DEF Transfer
    <3> QED BY <1>6, <1>7, <1>12, <3>1, <3>2, <3>3
  <2>2. \A i \in PoolIds \ {id} : tokens'[i] = tokens[i]
    BY <1>11, <1>14, <1>15 DEF Transfer, Accounts
  <2>3. liquidity' = [d \in Denoms |->
                        liquidity[d] + (Amount(q.assets, d) - OldAmount(id, d))]
    <3>1. liquidity \in [Denoms -> Int]
      BY <1>2 DEF BankTyped
    <3>2. liquidity' = [d \in Denoms |-> liquidity[d] + Delta(d)]
      <4>1. liquidity' = [liquidity EXCEPT ![dIn] = liquidity[dIn] + amt,
                                           ![dOut] = liquidity[dOut] - out]
        BY <1>5, <1>6
      <4>2. \A d \in Denoms : liquidity'[d] = liquidity[d] + Delta(d)
        <5>1. \A d \in Denoms : liquidity[d] \in Int
          BY <3>1
        <5> QED BY <1>6, <1>7, <3>1, <4>1, <5>1
      <4>3. liquidity' = [d \in Denoms |-> liquidity'[d]]
        BY <3>1, <4>1
      <4> HIDE DEF Delta
      <4> QED BY <4>2, <4>3
    <3> HIDE DEF Delta
    <3> QED BY <1>10, <3>2
  <2>4. /\ shares' \in [Traders -> [PoolIds -> Nat]]
        /\ shares'[who][id] = shares[who][id] + (q.totalShares - OldShares(id))
        /\ \A tr \in Traders, i \in PoolIds : shares'[tr][i] = shares[tr][i]
    <3>1. shares[who][id] \in Nat /\ q.totalShares \in Nat /\ OldShares(id) = q.totalShares
      BY <1>1, <1>2, <1>9 DEF BankTyped, IsPool, OldShares
    <3> QED BY <1>2, <1>5, <3>1 DEF BankTyped
  <2> QED BY <1>15, <2>1, <2>2, <2>3, <2>4 DEF BankMoves, Balances
<1>17. Moves(who, id, q)
  <2>1. Numbered(id, q)
    BY <1>1, <1>5, <1>9 DEF Numbered
  <2> QED BY <1>2, <1>5, <1>8, <1>9, <1>16, <2>1 DEF Moves
<1> QED BY <1>17, MovesKeep

-----------------------------------------------------------------------------
(* New pools *)

\* NewPool stores what its account receives, under a number no pool has.
LEMMA NewPoolKeeps ==
    ASSUME PInv, NEW who \in Traders, NEW pair \in Pairs, NEW params \in PoolParams,
           NEW assets \in [pair -> NewPoolAmounts], NewPool(who, params, assets)
    PROVE  PInv'
<1>1. PICK id : id = nextPool
  OBVIOUS
<1>2. PICK q : q = NewPoolRecord(params, assets)
  OBVIOUS
<1>3. PICK t : t = SendCoins(tokens, who, Community, PoolCreationFee)
  OBVIOUS
<1>4. /\ Counted
      /\ nextPool < StartingPoolNumber + MaxPools
      /\ areAllAssetsWhitelisted(pair)
      /\ PoolIdFromPair(pair) \notin DOMAIN pools
      /\ CanPay(who, AddCoins(PoolCreationFee, assets))
      /\ nextPool' = nextPool + 1
      /\ tokens' = SendCoins(t, who, id, assets)
      /\ shares' = [shares EXCEPT ![who][id] = @ + InitPoolSharesSupply]
      /\ SetPool(id, q)
      /\ liquidity' = AddCoins(liquidity, assets)
  <2>1. DOMAIN assets = pair
    OBVIOUS
  <2> QED BY <1>1, <1>2, <1>3, <2>1 DEF NewPool, CanCreate, RecordTotalLiquidityIncrease
<1>5. BankTyped /\ PoolsTyped /\ IndexAgrees /\ id \in PoolIds /\ id \notin DOMAIN pools
  <2>1. BankTyped /\ PoolsTyped /\ IndexAgrees
    BY DEF PInv
  <2> QED BY <1>1, <2>1, PoolNumbers DEF PoolsTyped
<1>6. nextPool' \in PoolIds
  <2>1. StartingPoolNumber \in Nat /\ MaxPools \in Nat /\ nextPool \in PoolIds
    BY <1>5, SpotAssumption DEF PoolsTyped
  <2> QED BY <1>4, <2>1 DEF PoolIds
<1>7. pair \notin DOMAIN poolIdOf
  BY <1>4, <1>5 DEF PoolIdFromPair, IndexAgrees
<1>8. DOMAIN assets = pair /\ assets \in [pair -> Nat] /\ pair \subseteq Denoms /\ IsCoins(assets)
  BY PairIs, InputAssumption DEF IsCoins
<1>9. IsPool(q) /\ q.assets = assets /\ q.totalShares = InitPoolSharesSupply
  <2>1. q = [type |-> params.type, A |-> params.A, swapFee |-> params.swapFee,
             exitFee |-> params.exitFee, assets |-> assets,
             totalShares |-> InitPoolSharesSupply]
    BY <1>2 DEF NewPoolRecord
  <2>2. /\ q.type = params.type /\ q.A = params.A /\ q.swapFee = params.swapFee
        /\ q.exitFee = params.exitFee /\ q.assets = assets
        /\ q.totalShares = InitPoolSharesSupply
    BY <2>1
  <2>3. /\ params.type \in {"balancer", "stableswap"}
        /\ params.type = "stableswap" => params.A \in Nat \ {0}
        /\ params.swapFee \in 0..One /\ params.exitFee \in 0..One
    BY InputAssumption
  <2>4. InitPoolSharesSupply \in Nat /\ pair \subseteq WhitelistedAsset
    BY <1>4, SpotAssumption DEF areAllAssetsWhitelisted
  <2> QED BY <1>8, <2>1, <2>2, <2>3, <2>4 DEF IsPool
<1>10. OldShares(id) = 0 /\ \A d : OldAmount(id, d) = 0
  BY <1>5 DEF OldShares, OldAmount
<1>11. /\ who \in Accounts /\ id \in Accounts /\ Community \in Accounts
       /\ who # id /\ who # Community /\ id # Community
       /\ who \notin PoolIds /\ Community \notin PoolIds
  BY <1>5, AccountAssumption DEF Accounts
<1>12. tokens \in Balances /\ IsCoins(PoolCreationFee) /\ DOMAIN PoolCreationFee = Denoms
  BY <1>5, SpotAssumption DEF BankTyped, Balances, IsCoins
<1>13. \A d \in Denoms : Amount(assets, d) \in Nat /\ PoolCreationFee[d] \in Nat
                         /\ Amount(PoolCreationFee, d) = PoolCreationFee[d]
  BY <1>8, <1>12, CoinAmount, SpotAssumption
<1>14. \A d \in Denoms : tokens[who][d] \in Nat
                         /\ tokens[who][d] >= PoolCreationFee[d] + Amount(assets, d)
  <2>1. \A d \in Denoms : tokens[who][d] \in Nat
    BY <1>11, <1>12 DEF Balances
  <2>2. \A d \in Denoms : tokens[who][d] >= PoolCreationFee[d] + Amount(assets, d)
    BY <1>4, <1>12 DEF CanPay, AddCoins
  <2> QED BY <2>1, <2>2
<1>15. t \in Balances /\ Transfer(tokens, t, who, Community, PoolCreationFee)
  <2>1. \A d \in DOMAIN PoolCreationFee : tokens[who][d] >= PoolCreationFee[d]
    BY <1>12, <1>13, <1>14
  <2> QED BY <1>3, <1>11, <1>12, <2>1, TransferIs
<1>16. tokens' \in Balances /\ Transfer(t, tokens', who, id, assets)
  <2>1. ASSUME NEW d \in DOMAIN assets PROVE t[who][d] >= assets[d]
    <3>1. d \in Denoms /\ Amount(assets, d) = assets[d]
      BY <1>8, CoinAmount
    <3>2. t[who][d] = tokens[who][d] - PoolCreationFee[d]
      BY <1>13, <1>15, <3>1 DEF Transfer
    <3> QED BY <1>13, <1>14, <3>1, <3>2
  <2> QED BY <1>4, <1>8, <1>11, <1>15, <2>1, TransferIs
<1>17. BankMoves(who, id, q)
  <2>1. ASSUME NEW d \in Denoms
        PROVE  tokens'[id][d] = tokens[id][d] + (Amount(q.assets, d) - OldAmount(id, d))
    <3>1. tokens'[id][d] = tokens[id][d] + Amount(assets, d)
      BY <1>11, <1>15, <1>16 DEF Transfer
    <3>2. tokens[id][d] \in Nat
      BY <1>11, <1>12 DEF Balances
    <3> QED BY <1>9, <1>10, <1>13, <3>1, <3>2
  <2>2. \A i \in PoolIds \ {id} : tokens'[i] = tokens[i]
    <3> SUFFICES ASSUME NEW i \in PoolIds \ {id} PROVE tokens'[i] = tokens[i]
      OBVIOUS
    <3>1. i \in Accounts \ {who, id} /\ i \in Accounts \ {who, Community}
      BY <1>11 DEF Accounts
    <3> QED BY <1>15, <1>16, <3>1 DEF Transfer
  <2>3. liquidity' = [d \in Denoms |->
                        liquidity[d] + (Amount(q.assets, d) - OldAmount(id, d))]
    <3>1. liquidity \in [Denoms -> Int]
      BY <1>5 DEF BankTyped
    <3>2. liquidity' = [d \in Denoms |-> liquidity[d] + Amount(assets, d)]
      BY <1>4, <3>1 DEF AddCoins
    <3>3. \A d \in Denoms : Amount(q.assets, d) - OldAmount(id, d) = Amount(assets, d)
      BY <1>9, <1>10, <1>13
    <3> QED BY <3>2, <3>3
  <2>4. /\ shares' \in [Traders -> [PoolIds -> Nat]]
        /\ shares'[who][id] = shares[who][id] + (q.totalShares - OldShares(id))
        /\ \A tr \in Traders, i \in PoolIds :
              <<tr, i>> # <<who, id>> => shares'[tr][i] = shares[tr][i]
    <3>1. InitPoolSharesSupply \in Nat
      BY SpotAssumption
    <3>2. q.totalShares - OldShares(id) = InitPoolSharesSupply
      BY <1>9, <1>10, <3>1
    <3>3. shares[who][id] + InitPoolSharesSupply \in Nat /\ InitPoolSharesSupply \in Int
      BY <1>5, <3>1 DEF BankTyped
    <3> QED BY <1>4, <1>5, <3>2, <3>3, SharesAfter
  <2> QED BY <1>16, <2>1, <2>2, <2>3, <2>4 DEF BankMoves, Balances
<1>18. Moves(who, id, q)
  <2>1. Numbered(id, q)
    BY <1>1, <1>4, <1>6, <1>7, <1>8, <1>9 DEF Numbered
  <2> QED BY <1>4, <1>5, <1>9, <1>17, <2>1 DEF Moves
<1> QED BY <1>18, MovesKeep

-----------------------------------------------------------------------------
(* The start, and a genesis export *)

\* No pool, no liquidity.
LEMMA NoPools ==
    ASSUME NEW p, DOMAIN p = {}, NEW d
    PROVE  SumFunction([id \in DOMAIN p |-> Amount(p[id].assets, d)]) = 0
BY SumEmpty DEF SumFunction

\* At genesis there is no pool and every account of one is empty.
LEMMA InitOK == Init => PInv
<1> SUFFICES ASSUME Init PROVE PInv
  OBVIOUS
<1>1. DOMAIN pools = {} /\ DOMAIN poolIdOf = {}
  BY DEF Init
<1>2. PoolsTyped /\ IndexAgrees /\ AllBacked
  BY <1>1, PoolNumbers DEF Init, PoolsTyped, IndexAgrees, AllBacked
<1>3. BankTyped
  <2>1. InitialTokens \in Nat
    BY InputAssumption
  <2> QED BY <2>1 DEF Init, BankTyped
<1>4. FreshAreEmpty
  <2> SUFFICES ASSUME NEW i \in PoolIds
               PROVE  /\ \A d \in Denoms : tokens[i][d] = 0
                      /\ \A t \in Traders : shares[t][i] = 0
    BY DEF FreshAreEmpty
  <2>1. i \in Accounts /\ i \notin Traders
    BY AccountAssumption DEF Accounts
  <2> QED BY <2>1 DEF Init
<1>5. LiquidityAgrees
  BY <1>1, NoPools DEF Init, LiquidityAgrees, PoolAmounts
<1> QED BY <1>2, <1>3, <1>4, <1>5 DEF PInv

\* A genesis export forgets the pools; what the bank keeps is then more than enough.
LEMMA RestartKeeps ==
    ASSUME PInv, Restart
    PROVE  PInv'
<1>1. BankTyped
  BY DEF PInv
<1>2. DOMAIN pools' = {} /\ DOMAIN poolIdOf' = {}
  BY DEF Restart
<1>3. PoolsTyped' /\ IndexAgrees' /\ AllBacked'
  BY <1>2, PoolNumbers DEF Restart, PoolsTyped, IndexAgrees, AllBacked
<1>4. BankTyped'
  BY <1>1 DEF Restart, BankTyped
<1>5. history'.restarts # 0
  BY <1>1 DEF Restart, BankTyped
<1>6. FreshAreEmpty'
  BY <1>5 DEF FreshAreEmpty
<1>7. LiquidityAgrees'
  <2>1. \A d \in Denoms : SumFunction([id \in DOMAIN pools' |-> Amount(pools'[id].assets, d)]) = 0
    BY <1>2, NoPools
  <2> QED BY <2>1 DEF Restart, LiquidityAgrees, PoolAmounts
<1> QED BY <1>3, <1>4, <1>6, <1>7 DEF PInv

\* A stuttering step.
LEMMA UnchangedKeeps == ASSUME PInv, UNCHANGED vars PROVE PInv'
<1>1. /\ pools' = pools /\ poolIdOf' = poolIdOf /\ nextPool' = nextPool
      /\ liquidity' = liquidity /\ tokens' = tokens /\ shares' = shares
      /\ history' = history
  BY DEF vars
<1>2. PoolsTyped' /\ BankTyped' /\ IndexAgrees'
  BY <1>1 DEF PInv, PoolsTyped, BankTyped, IndexAgrees
<1>3. AllBacked'
  <2>1. \A id : ShareSupply(id)' = ShareSupply(id)
    BY <1>1 DEF ShareSupply
  <2> QED BY <1>1, <2>1 DEF PInv, AllBacked, BackedPool
<1>4. FreshAreEmpty'
  BY <1>1 DEF PInv, FreshAreEmpty
<1>5. LiquidityAgrees'
  BY <1>1 DEF PInv, LiquidityAgrees, PoolAmounts
<1> QED BY <1>2, <1>3, <1>4, <1>5 DEF PInv

-----------------------------------------------------------------------------
(* Joining a pool *)

\* The coins of a join: some of the pool's, or none, in positive amounts.
JoinsWith(pool, coins) ==
    /\ DOMAIN coins \subseteq DOMAIN pool.assets
    /\ coins \in [DOMAIN coins -> Nat \ {0}]

\* A single coin is worth an integer number of shares.
LEMMA SingleAssetInt ==
    ASSUME NEW pool, IsPool(pool), NEW d \in DOMAIN pool.assets, pool.assets[d] # 0,
           NEW amt \in Nat
    PROVE  SingleAssetShares(pool, d, amt) \in Int
<1> DEFINE half == Quo(pool.swapFee, ToDec(2))
           part == Mul(ToDec(amt), One - half)
           ratio == QuoInt(part, pool.assets[d])
           root == ApproxSqrt(ratio + One)
<1>1. /\ pool.assets[d] \in Nat \ {0} /\ pool.totalShares \in Nat
      /\ pool.swapFee \in Nat /\ pool.swapFee <= Scale
  BY ScaleAssumption DEF IsPool, One
<1>2. ToDec(2) \in Nat \ {0} /\ pool.swapFee <= ToDec(2) /\ ToDec(amt) \in Nat /\ One \in Nat
  BY <1>1, ScaleAssumption DEF ToDec, One
<1>3. half \in 0..One
  BY <1>1, <1>2, QuoAtMostOne
<1> HIDE DEF half
<1>4. One - half \in 0..One
  BY <1>2, <1>3
<1>5. part \in Nat
  BY <1>2, <1>4, MulAtMost
<1> HIDE DEF part
<1>6. ratio \in Nat
  BY <1>1, <1>5, QuotBounds DEF QuoInt
<1> HIDE DEF ratio
<1>7. ratio + One \in Nat
  BY <1>2, <1>6
<1>8. root \in Nat
  BY <1>7, ApproxSqrtType
<1> HIDE DEF root
<1>9. (root - One) * pool.totalShares \in Int
  BY <1>1, <1>2, <1>8
<1>10. Truncate((root - One) * pool.totalShares) \in Int
  BY <1>9, QuotType, ScaleAssumption DEF Truncate
<1> QED BY <1>10 DEF SingleAssetShares, root, ratio, part, half

\* A join with every coin, for an integer number of shares.
WholeJoin(r) == r.ok /\ r.rem = <<>> /\ r.shares \in Int

\* A join of a stableswap pool takes every coin.
LEMMA StableShares ==
    ASSUME NEW pool, IsPool(pool), pool.type = "stableswap",
           NEW coins, JoinsWith(pool, coins)
    PROVE  LET r == numSharesOutFromTokensInStableSwap(pool, coins)
           IN  r = Fail \/ WholeJoin(r)
<1> DEFINE r == numSharesOutFromTokensInStableSwap(pool, coins)
           D0 == D(pool.assets, pool.A)
           more == AddCoins(pool.assets, coins)
           D1 == D(more, pool.A)
<1>1. CASE \E d \in DOMAIN pool.assets : pool.assets[d] = 0
  BY <1>1 DEF numSharesOutFromTokensInStableSwap
<1>2. CASE D1 < D0
  BY <1>2 DEF numSharesOutFromTokensInStableSwap
<1>3. CASE ~ (\E d \in DOMAIN pool.assets : pool.assets[d] = 0) /\ ~ (D1 < D0)
  <2>1. pool.assets \in [DOMAIN pool.assets -> Nat] /\ DOMAIN pool.assets \in Pairs
        /\ pool.A \in Nat \ {0} /\ pool.totalShares \in Nat
    BY DEF IsPool
  <2>2. pool.assets \in [DOMAIN pool.assets -> Nat \ {0}]
    BY <1>3, <2>1
  <2>3. D0 \in Nat \ {0}
    BY <2>1, <2>2, DPositive
  <2>4. DOMAIN more = DOMAIN pool.assets /\ more \in [DOMAIN more -> Nat \ {0}]
    <3>1. \A d : Amount(coins, d) \in Nat
      BY DEF JoinsWith, Amount
    <3> QED BY <2>2, <3>1 DEF AddCoins
  <2> HIDE DEF more
  <2>5. D1 \in Nat \ {0}
    BY <2>1, <2>4, DPositive
  <2>6. r = [ok |-> TRUE, rem |-> <<>>,
             shares |-> (pool.totalShares * (D1 - D0)) \div D0]
    BY <1>3 DEF numSharesOutFromTokensInStableSwap, more
  <2> HIDE DEF D0, D1, r
  <2>7. (pool.totalShares * (D1 - D0)) \in Nat
    BY <1>3, <2>1, <2>3, <2>5
  <2>8. (pool.totalShares * (D1 - D0)) \div D0 \in Nat
    BY <2>3, <2>7, DivMod
  <2>9. WholeJoin(r)
    BY <2>6, <2>8 DEF WholeJoin
  <2> QED BY <2>9 DEF r
<1> HIDE DEF D0, D1
<1> QED BY <1>1, <1>2, <1>3

\* What is left of the coins: less of some of them, none of at least one.
LeavesPart(coins, rem) ==
    /\ DOMAIN rem \subseteq DOMAIN coins /\ DOMAIN rem # DOMAIN coins
    /\ rem \in [DOMAIN rem -> Nat \ {0}]
    /\ \A d \in DOMAIN rem : rem[d] <= coins[d]
PartJoin(coins, r) == r.ok /\ r.shares \in Nat /\ LeavesPart(coins, r.rem)

\* Too little of a coin to count.
EmptyJoin(coins, r) == r = [ok |-> TRUE, rem |-> coins, shares |-> 0]

\* What the least ratio uses of a coin is no more than there is.
LEMMA UsedAtMost ==
    ASSUME NEW amt \in Nat, NEW a \in Nat \ {0}, NEW ratio \in Nat,
           ratio <= QuoInt(ToDec(amt), a)
    PROVE  CeilInt(ratio * a) \in Nat /\ CeilInt(ratio * a) <= amt
<1> DEFINE q == QuoInt(ToDec(amt), a)
           u == CeilInt(ratio * a)
           p == ratio * a
<1>1. ToDec(amt) \in Nat /\ ToDec(amt) = Scale * amt
  BY ScaleAssumption DEF ToDec
<1>2. q \in Nat /\ a * q <= Scale * amt
  BY <1>1, QuotBounds DEF QuoInt
<1> HIDE DEF q
<1>3. p \in Nat /\ p <= a * q
  BY <1>2 DEF q
<1>4. u \in Nat /\ Scale * u < p + Scale
  <2> HIDE DEF p
  <2>1. CeilInt(p) \in Nat /\ Scale * CeilInt(p) < p + Scale
    BY <1>3, CeilBounds
  <2> QED BY <2>1 DEF p
<1> HIDE DEF u, p
<1>5. Scale * u < Scale * (amt + 1)
  <2>1. Scale * u \in Int /\ a * q \in Int /\ Scale * amt \in Int /\ Scale \in Int
    BY <1>2, <1>4, ScaleAssumption, Products
  <2>2. Scale * (amt + 1) = Scale * amt + Scale
    BY ScaleAssumption
  <2> DEFINE x == Scale * u
             y == a * q
             z == Scale * amt
  <2>3. x < p + Scale /\ p <= y /\ y <= z /\ x \in Int /\ y \in Int /\ z \in Int /\ p \in Int
    BY <1>2, <1>3, <1>4, <2>1
  <2> HIDE DEF x, y, z
  <2>4. x < z + Scale
    BY <2>1, <2>3
  <2> QED BY <2>2, <2>4 DEF x, z
<1>6. u < amt + 1
  BY <1>4, <1>5, Signs, ScaleAssumption
<1> QED BY <1>4, <1>6 DEF u, p

\* A join of a balancer pool with one coin takes all of it; with both coins it
\* takes the coin of the least ratio whole, or nothing of either.
LEMMA BalancerShares ==
    ASSUME NEW pool, IsPool(pool), NEW coins, JoinsWith(pool, coins), DOMAIN coins # {}
    PROVE  LET r == numSharesOutFromTokensIn(pool, coins)
           IN  \/ r = Fail
               \/ Cardinality(DOMAIN coins) = 1 /\ WholeJoin(r)
               \/ Cardinality(DOMAIN coins) # 1 /\ (EmptyJoin(coins, r) \/ PartJoin(coins, r))
<1> DEFINE r == numSharesOutFromTokensIn(pool, coins)
           S == DOMAIN coins
           Ratio(d) == QuoInt(ToDec(coins[d]), pool.assets[d])
           ratio == Min({Ratio(d) : d \in S})
           Used(d) == CeilInt(ratio * pool.assets[d])
           left == [d \in S |-> IF Ratio(d) = ratio THEN 0 ELSE coins[d] - Used(d)]
<1>1. CASE \E d \in S : pool.assets[d] = 0
  BY <1>1 DEF numSharesOutFromTokensIn
<1>2. CASE ~ (\E d \in S : pool.assets[d] = 0) /\ Cardinality(S) = 1
  <2> DEFINE d == CHOOSE c \in S : TRUE
  <2>1. d \in S
    OBVIOUS
  <2>2. r = [ok |-> TRUE, rem |-> <<>>, shares |-> SingleAssetShares(pool, d, coins[d])]
    BY <1>2 DEF numSharesOutFromTokensIn
  <2> HIDE DEF d, r
  <2>3. d \in DOMAIN pool.assets /\ pool.assets[d] # 0 /\ coins[d] \in Nat
    BY <1>2, <2>1 DEF JoinsWith
  <2>4. SingleAssetShares(pool, d, coins[d]) \in Int
    BY <2>3, SingleAssetInt
  <2>5. WholeJoin(r)
    BY <2>2, <2>4 DEF WholeJoin
  <2> QED BY <1>2, <2>5 DEF r
<1>3. CASE ~ (\E d \in S : pool.assets[d] = 0) /\ Cardinality(S) # 1 /\ ratio = 0
  <2>1. r = [ok |-> TRUE, rem |-> coins, shares |-> 0]
    BY <1>3 DEF numSharesOutFromTokensIn
  <2> HIDE DEF r
  <2>2. EmptyJoin(coins, r)
    BY <2>1 DEF EmptyJoin
  <2> QED BY <1>3, <2>2 DEF r
<1>4. CASE ~ (\E d \in S : pool.assets[d] = 0) /\ Cardinality(S) # 1 /\ ratio # 0
  <2>1. r = [ok |-> TRUE, shares |-> Truncate(ratio * pool.totalShares), rem |-> NonZero(left)]
    BY <1>4 DEF numSharesOutFromTokensIn
  <2> HIDE DEF r
  <2>2. \A d \in S : pool.assets[d] \in Nat \ {0} /\ coins[d] \in Nat \ {0}
    BY <1>4 DEF IsPool, JoinsWith
  <2>3. \A d \in S : Ratio(d) \in Nat
    <3> SUFFICES ASSUME NEW d \in S PROVE Ratio(d) \in Nat
      OBVIOUS
    <3>1. ToDec(coins[d]) \in Nat
      BY <2>2, ScaleAssumption DEF ToDec
    <3> QED BY <2>2, <3>1, QuotBounds DEF QuoInt
  <2>4. ratio \in Nat /\ (\A d \in S : ratio <= Ratio(d)) /\ (\E d \in S : Ratio(d) = ratio)
    <3> DEFINE f == [d \in S |-> Ratio(d)]
               R == {f[d] : d \in S}
    <3>1. R = {Ratio(d) : d \in S}
      OBVIOUS
    <3>2. IsFiniteSet(S)
      <4>1. IsFiniteSet(DOMAIN pool.assets)
        BY PairIs DEF IsPool
      <4> QED BY <4>1, FS_Subset DEF JoinsWith
    <3>3. S # {} /\ R # {} /\ R \subseteq Int
      BY <2>3
    <3>4. IsFiniteSet(R)
      <4> HIDE DEF f
      <4> QED BY <3>2, FiniteImage
    <3>5. ratio = Min(R)
      BY <3>1
    <3> HIDE DEF R
    <3>6. \E m \in R : \A k \in R : m <= k
      BY <3>3, <3>4, LeastInteger
    <3>7. Min(R) \in R /\ \A k \in R : Min(R) <= k
      BY <3>6 DEF Min
    <3> HIDE DEF ratio
    <3> QED BY <2>3, <3>1, <3>5, <3>7
  <2> HIDE DEF ratio
  <2>5. ASSUME NEW d \in S PROVE Used(d) \in Nat /\ Used(d) <= coins[d]
    <3>1. coins[d] \in Nat /\ pool.assets[d] \in Nat \ {0}
      BY <2>2
    <3>2. ratio <= QuoInt(ToDec(coins[d]), pool.assets[d])
      BY <2>4
    <3> QED BY <2>4, <3>1, <3>2, UsedAtMost
  <2>6. \A d \in S : left[d] \in Nat /\ left[d] <= coins[d]
    <3> SUFFICES ASSUME NEW d \in S PROVE left[d] \in Nat /\ left[d] <= coins[d]
      OBVIOUS
    <3> DEFINE u == Used(d)
    <3>1. u \in Nat /\ u <= coins[d] /\ coins[d] \in Nat
      BY <2>2, <2>5
    <3>2. left[d] = IF Ratio(d) = ratio THEN 0 ELSE coins[d] - u
      OBVIOUS
    <3> HIDE DEF u, left
    <3> QED BY <3>1, <3>2
  <2>7. \E d \in S : left[d] = 0
    BY <2>4
  <2>8. DOMAIN left = S
    OBVIOUS
  <2> HIDE DEF left
  <2>9. LeavesPart(coins, NonZero(left))
    <3> DEFINE rem == NonZero(left)
    <3>1. DOMAIN rem = {d \in S : left[d] # 0} /\ \A d \in DOMAIN rem : rem[d] = left[d]
      BY <2>8 DEF NonZero, Restrict
    <3>2. rem = [d \in DOMAIN rem |-> rem[d]]
      BY DEF NonZero, Restrict
    <3> HIDE DEF rem
    <3>3. rem \in [DOMAIN rem -> Nat \ {0}]
      BY <2>6, <3>1, <3>2
    <3>4. LeavesPart(coins, rem)
      BY <2>6, <2>7, <3>1, <3>3 DEF LeavesPart
    <3> QED BY <3>4 DEF rem
  <2>10. Truncate(ratio * pool.totalShares) \in Nat
    <3>1. ratio * pool.totalShares \in Nat
      BY <2>4 DEF IsPool
    <3> QED BY <3>1, QuotBounds, ScaleAssumption DEF Truncate
  <2>11. PartJoin(coins, r)
    BY <2>1, <2>9, <2>10 DEF PartJoin
  <2> QED BY <1>4, <2>11 DEF r
<1> HIDE DEF ratio, r
<1> QED BY <1>1, <1>2, <1>3, <1>4 DEF r

\* The record with more coins and shares.
LEMMA Incremented ==
    ASSUME NEW pool, IsPool(pool), NEW used, DOMAIN used \subseteq DOMAIN pool.assets,
           used \in [DOMAIN used -> Nat], NEW n \in Int, pool.totalShares + n \in Nat
    PROVE  LET q == incrementBalances(pool, n, used)
           IN  /\ IsPool(q) /\ DOMAIN q.assets = DOMAIN pool.assets
               /\ q.totalShares = pool.totalShares + n
               /\ q.type = pool.type
               /\ \A d \in DOMAIN pool.assets :
                    q.assets[d] = pool.assets[d] + Amount(used, d)
<1> DEFINE q == incrementBalances(pool, n, used)
           assets == AddCoins(pool.assets, used)
           ts == pool.totalShares + n
<1>1. \A d : Amount(used, d) \in Nat
  BY DEF Amount
<1>2. pool.assets \in [DOMAIN pool.assets -> Nat]
  BY DEF IsPool
<1>3. assets \in [DOMAIN pool.assets -> Nat]
      /\ \A d \in DOMAIN pool.assets : assets[d] = pool.assets[d] + Amount(used, d)
  BY <1>1, <1>2 DEF AddCoins
<1>4. q = Rebalanced(pool, assets, ts)
  BY DEF incrementBalances, Rebalanced, IsPool
<1>5. Rebalanced(pool, assets, ts).type = pool.type
  <2> HIDE DEF assets, ts
  <2> QED BY DEF Rebalanced, IsPool
<1> HIDE DEF assets, ts, q
<1>6. IsPool(q) /\ q.assets = assets /\ q.totalShares = ts
  <2>1. ts \in Nat
    BY DEF ts
  <2> QED BY <1>3, <1>4, <2>1, RebalancedIsPool
<1> QED BY <1>3, <1>4, <1>5, <1>6 DEF q, ts

\* What a join promises its callers: the record grows by what was used.
Joined(pool, coins, r) ==
    /\ SubCoins(coins, r.rem) \in [DOMAIN coins -> Nat]
    /\ r.shares \in Int
    /\ IsPool(r.pool) /\ DOMAIN r.pool.assets = DOMAIN pool.assets
    /\ r.pool.totalShares = pool.totalShares + r.shares
    /\ r.pool.type = pool.type
    /\ \A d \in DOMAIN pool.assets :
         r.pool.assets[d] = pool.assets[d] + Amount(SubCoins(coins, r.rem), d)

\* What is left of a join is at most what came.
LEMMA UsedCoins ==
    ASSUME NEW pool, NEW coins, JoinsWith(pool, coins), NEW rem,
           rem = <<>> \/ rem = coins \/ LeavesPart(coins, rem)
    PROVE  /\ SubCoins(coins, rem) \in [DOMAIN coins -> Nat]
           /\ \A d \in DOMAIN coins : SubCoins(coins, rem)[d] = coins[d] - Amount(rem, d)
<1>1. coins \in [DOMAIN coins -> Nat]
  BY DEF JoinsWith
<1>2. \A d \in DOMAIN coins : Amount(rem, d) \in Nat /\ Amount(rem, d) <= coins[d]
  <2>1. CASE rem = <<>>
    BY <1>1, <2>1 DEF Amount
  <2>2. CASE rem = coins
    BY <1>1, <2>2 DEF Amount
  <2>3. CASE LeavesPart(coins, rem)
    BY <1>1, <2>3 DEF Amount, LeavesPart
  <2> QED BY <2>1, <2>2, <2>3
<1> QED BY <1>1, <1>2 DEF SubCoins

\* The three ways a join can be worth its shares.
JoinCase(coins, s) == WholeJoin(s) \/ EmptyJoin(coins, s) \/ PartJoin(coins, s)

\* In each of them the record gains exactly the coins that were used.
LEMMA JoinedBy ==
    ASSUME NEW pool, IsPool(pool), NEW coins, JoinsWith(pool, coins),
           NEW s, JoinCase(coins, s), pool.totalShares + s.shares \in Nat
    PROVE  LET r == WithShares(pool, coins, s)
           IN  /\ r.ok /\ r.rem = s.rem /\ r.shares = s.shares
               /\ Joined(pool, coins, r)
<1> DEFINE used == SubCoins(coins, s.rem)
           r == WithShares(pool, coins, s)
<1>1. s.ok /\ s.shares \in Int
      /\ (s.rem = <<>> \/ s.rem = coins \/ LeavesPart(coins, s.rem))
  BY DEF JoinCase, WholeJoin, EmptyJoin, PartJoin
<1>2. used \in [DOMAIN coins -> Nat]
  BY <1>1, UsedCoins
<1>3. r = [ok |-> TRUE, rem |-> s.rem, shares |-> s.shares,
           pool |-> incrementBalances(pool, s.shares, used)]
  BY <1>1 DEF WithShares
<1>4. DOMAIN used = DOMAIN coins /\ DOMAIN coins \subseteq DOMAIN pool.assets
  BY <1>2 DEF JoinsWith
<1> HIDE DEF used, r
<1>5. /\ r.ok /\ r.rem = s.rem /\ r.shares = s.shares
      /\ r.pool = incrementBalances(pool, s.shares, used)
  BY <1>3
<1> DEFINE q == incrementBalances(pool, s.shares, used)
<1>6. /\ IsPool(q) /\ DOMAIN q.assets = DOMAIN pool.assets
      /\ q.totalShares = pool.totalShares + s.shares
      /\ q.type = pool.type
      /\ \A d \in DOMAIN pool.assets : q.assets[d] = pool.assets[d] + Amount(used, d)
  <2>1. DOMAIN used \subseteq DOMAIN pool.assets /\ used \in [DOMAIN used -> Nat]
    BY <1>2, <1>4
  <2> QED BY <1>1, <2>1, Incremented
<1> HIDE DEF q
<1>7. Joined(pool, coins, r)
  BY <1>1, <1>2, <1>5, <1>6 DEF Joined, used, q
<1> QED BY <1>5, <1>7 DEF r

\* The outcomes of SharesOut.
LEMMA SharesOutIs ==
    ASSUME NEW pool, IsPool(pool), NEW coins, JoinsWith(pool, coins),
           DOMAIN coins # {} \/ pool.type = "stableswap"
    PROVE  LET s == SharesOut(pool, coins)
           IN  \/ s = Fail
               \/ WholeJoin(s)
               \/ Cardinality(DOMAIN coins) # 1 /\ (EmptyJoin(coins, s) \/ PartJoin(coins, s))
<1> DEFINE s == SharesOut(pool, coins)
<1>1. CASE pool.totalShares = 0
  <2>1. s = [ok |-> TRUE, rem |-> <<>>, shares |-> InitPoolSharesSupply]
    BY <1>1 DEF SharesOut
  <2> HIDE DEF s
  <2>2. WholeJoin(s)
    BY <2>1, SpotAssumption DEF WholeJoin
  <2> QED BY <2>2 DEF s
<1>2. CASE pool.totalShares # 0 /\ pool.type = "stableswap"
  <2>1. s = numSharesOutFromTokensInStableSwap(pool, coins)
    BY <1>2 DEF SharesOut
  <2> HIDE DEF s
  <2>2. s = Fail \/ WholeJoin(s)
    BY <1>2, <2>1, StableShares
  <2> QED BY <2>2 DEF s
<1>3. CASE pool.totalShares # 0 /\ pool.type # "stableswap"
  <2>1. s = numSharesOutFromTokensIn(pool, coins)
    BY <1>3 DEF SharesOut
  <2> HIDE DEF s
  <2>2. \/ s = Fail
        \/ Cardinality(DOMAIN coins) = 1 /\ WholeJoin(s)
        \/ Cardinality(DOMAIN coins) # 1 /\ (EmptyJoin(coins, s) \/ PartJoin(coins, s))
    BY <1>3, <2>1, BalancerShares
  <2> QED BY <2>2 DEF s
<1> HIDE DEF s
<1> QED BY <1>1, <1>2, <1>3

\* Joining with one call.
LEMMA AddTokensIs ==
    ASSUME NEW pool, IsPool(pool), NEW coins, JoinsWith(pool, coins),
           DOMAIN coins # {} \/ pool.type = "stableswap",
           NEW r, r = AddTokensToPool(pool, coins), r.ok, r.shares > 0
    PROVE  Joined(pool, coins, r)
<1>1. PICK s : s = SharesOut(pool, coins)
  OBVIOUS
<1>2. s = Fail \/ JoinCase(coins, s)
  BY <1>1, SharesOutIs DEF JoinCase
<1>3. r = WithShares(pool, coins, s)
  BY <1>1 DEF AddTokensToPool
<1>4. s # Fail
  BY <1>3 DEF WithShares, Fail
<1>5. s.ok /\ s.shares \in Int
  BY <1>2, <1>4 DEF JoinCase, WholeJoin, EmptyJoin, PartJoin
<1>6. r.shares = s.shares
  BY <1>3, <1>5 DEF WithShares
<1>7. pool.totalShares + s.shares \in Nat
  BY <1>5, <1>6 DEF IsPool
<1> QED BY <1>2, <1>3, <1>4, <1>7, JoinedBy

\* Of two coins, some and not all is one.
LEMMA PartOfPair ==
    ASSUME NEW pair \in Pairs, NEW S, S \subseteq pair, S # {}, NEW T, T \subseteq pair,
           S \subseteq T, S # T
    PROVE  Cardinality(S) = 1
<1>1. PICK a, b \in Denoms : a # b /\ pair = {a, b}
  BY PairIs
<1>2. S = {a} \/ S = {b}
  BY <1>1
<1> QED BY <1>2, FS_Singleton

\* The coins of one call with nothing left are all used.
LEMMA NothingLeft ==
    ASSUME NEW pool, NEW coins, JoinsWith(pool, coins)
    PROVE  SubCoins(coins, <<>>) = coins
<1>1. coins \in [DOMAIN coins -> Nat]
  BY DEF JoinsWith
<1>2. \A d \in DOMAIN coins : coins[d] - Amount(<<>>, d) = coins[d]
  BY <1>1 DEF Amount
<1> QED BY <1>1, <1>2 DEF SubCoins

\* A join that takes nothing leaves the pool as it is.
LEMMA EmptyJoinKeepsPool ==
    ASSUME NEW pool, IsPool(pool), NEW coins, JoinsWith(pool, coins)
    PROVE  incrementBalances(pool, 0, SubCoins(coins, coins)) = pool
<1> DEFINE used == SubCoins(coins, coins)
           assets == AddCoins(pool.assets, used)
<1>1. coins \in [DOMAIN coins -> Nat] /\ pool.assets \in [DOMAIN pool.assets -> Nat]
      /\ pool.totalShares \in Nat
  BY DEF JoinsWith, IsPool
<1>2. \A d : Amount(used, d) = 0
  BY <1>1 DEF SubCoins, Amount
<1>3. assets = pool.assets
  <2> HIDE DEF used
  <2>1. \A d \in DOMAIN pool.assets : pool.assets[d] + Amount(used, d) = pool.assets[d]
    BY <1>1, <1>2
  <2> QED BY <1>1, <2>1 DEF AddCoins
<1>4. incrementBalances(pool, 0, used)
        = [pool EXCEPT !.assets = assets, !.totalShares = pool.totalShares + 0]
  BY DEF incrementBalances, IsPool
<1> HIDE DEF assets, used
<1>5. incrementBalances(pool, 0, used)
        = [pool EXCEPT !.assets = pool.assets, !.totalShares = pool.totalShares]
  <2>1. pool.totalShares + 0 = pool.totalShares
    BY <1>1
  <2> QED BY <1>3, <1>4, <2>1
<1>6. [pool EXCEPT !.assets = pool.assets, !.totalShares = pool.totalShares] = pool
  <2>1. PICK a, b, c, e, f, g : pool = [type |-> a, A |-> b, swapFee |-> c, exitFee |-> e,
                                       assets |-> f, totalShares |-> g]
    BY DEF IsPool
  <2>2. [pool EXCEPT !.assets = pool.assets] = pool
    BY <2>1
  <2>3. [pool EXCEPT !.totalShares = pool.totalShares] = pool
    BY <2>1
  <2> QED BY <2>2, <2>3
<1> QED BY <1>5, <1>6 DEF used

\* Joining with one coin, whole: what is used is the coin.
LEMMA OneCoinIs ==
    ASSUME NEW pool, IsPool(pool), NEW coins, JoinsWith(pool, coins),
           Cardinality(DOMAIN coins) = 1,
           NEW r, r = AddTokensToPool(pool, coins), r.ok,
           r.shares \in Int => pool.totalShares + r.shares \in Nat
    PROVE  r.rem = <<>> /\ Joined(pool, coins, r)
<1>1. PICK s : s = SharesOut(pool, coins)
  OBVIOUS
<1>2. s = Fail \/ WholeJoin(s)
  <2>1. DOMAIN coins # {}
    BY FS_EmptySet
  <2> QED BY <1>1, <2>1, SharesOutIs
<1>3. r = WithShares(pool, coins, s)
  BY <1>1 DEF AddTokensToPool
<1>4. WholeJoin(s)
  BY <1>2, <1>3 DEF WithShares, Fail
<1>5. s.ok /\ s.shares \in Int /\ s.rem = <<>> /\ JoinCase(coins, s)
  BY <1>4 DEF WholeJoin, JoinCase
<1>6. r.shares = s.shares
  BY <1>3, <1>5 DEF WithShares
<1>7. pool.totalShares + s.shares \in Nat
  BY <1>5, <1>6
<1>8. r.rem = s.rem /\ Joined(pool, coins, r)
  BY <1>3, <1>5, <1>7, JoinedBy
<1> QED BY <1>5, <1>8

\* A balanced join first, then one with what is left of one coin: together they
\* use every coin.
LEMMA BothJoined ==
    ASSUME NEW pool, IsPool(pool), NEW coins, JoinsWith(pool, coins),
           NEW first, PartJoin(coins, first), Joined(pool, coins, first),
           DOMAIN first.rem # {},
           NEW second, second = AddTokensToPool(first.pool, first.rem), second.ok,
           NEW r, r = BothJoins(first, second), r.shares > 0
    PROVE  Joined(pool, coins, r)
<1> DEFINE rem == first.rem
<1>1. LeavesPart(coins, rem) /\ first.shares \in Nat
  BY DEF PartJoin
<1>2. IsPool(first.pool) /\ DOMAIN first.pool.assets = DOMAIN pool.assets
      /\ first.pool.totalShares = pool.totalShares + first.shares
      /\ first.pool.type = pool.type
      /\ pool.totalShares \in Nat
  BY DEF Joined, IsPool
<1>3. JoinsWith(first.pool, rem)
  BY <1>1, <1>2 DEF JoinsWith, LeavesPart
<1>4. Cardinality(DOMAIN rem) = 1
  <2>1. DOMAIN pool.assets \in Pairs
    BY DEF IsPool
  <2>2. DOMAIN coins \subseteq DOMAIN pool.assets
    BY DEF JoinsWith
  <2> QED BY <1>1, <2>1, <2>2, PartOfPair DEF LeavesPart
<1>5. r = [ok |-> TRUE, pool |-> second.pool, rem |-> <<>>,
           shares |-> first.shares + second.shares]
  BY DEF BothJoins
<1>6. r.pool = second.pool /\ r.rem = <<>> /\ r.shares = first.shares + second.shares
  BY <1>5
<1>7. second.shares \in Int => first.pool.totalShares + second.shares \in Nat
  BY <1>1, <1>2, <1>6
<1> HIDE DEF rem
<1>8. second.rem = <<>> /\ Joined(first.pool, rem, second)
  BY <1>2, <1>3, <1>4, <1>7, OneCoinIs DEF rem
<1>9. SubCoins(rem, <<>>) = rem /\ SubCoins(coins, <<>>) = coins
  BY <1>3, NothingLeft
<1>10. coins \in [DOMAIN coins -> Nat]
  BY DEF JoinsWith
<1>11. r.shares \in Int /\ r.pool.totalShares = pool.totalShares + r.shares
  <2>1. second.shares \in Int
        /\ second.pool.totalShares = first.pool.totalShares + second.shares
    BY <1>8 DEF Joined
  <2> QED BY <1>1, <1>2, <1>6, <2>1
<1>12. IsPool(r.pool) /\ DOMAIN r.pool.assets = DOMAIN pool.assets /\ r.pool.type = pool.type
  BY <1>2, <1>6, <1>8 DEF Joined
<1>13. ASSUME NEW d \in DOMAIN pool.assets
       PROVE  r.pool.assets[d] = pool.assets[d] + Amount(coins, d)
  <2> DEFINE used == SubCoins(coins, rem)
  <2>1. first.pool.assets[d] = pool.assets[d] + Amount(used, d)
    BY DEF Joined, rem
  <2>2. second.pool.assets[d] = first.pool.assets[d] + Amount(rem, d)
    BY <1>2, <1>8, <1>9 DEF Joined
  <2>3. used \in [DOMAIN coins -> Nat]
        /\ \A c \in DOMAIN coins : used[c] = coins[c] - Amount(rem, c)
    BY <1>1, UsedCoins
  <2>4. Amount(rem, d) \in Nat
    BY <1>1 DEF LeavesPart, Amount
  <2>5. d \notin DOMAIN coins => Amount(rem, d) = 0
    BY <1>1 DEF LeavesPart, Amount
  <2> HIDE DEF used
  <2>6. Amount(used, d) \in Nat /\ Amount(coins, d) \in Nat
        /\ Amount(coins, d) = Amount(used, d) + Amount(rem, d)
    <3>1. CASE d \in DOMAIN coins
      <4>1. used[d] \in Nat /\ coins[d] \in Nat /\ used[d] = coins[d] - Amount(rem, d)
            /\ Amount(used, d) = used[d] /\ Amount(coins, d) = coins[d]
        BY <1>10, <2>3, <3>1 DEF Amount
      <4> QED BY <2>4, <4>1
    <3>2. CASE d \notin DOMAIN coins
      <4>1. Amount(used, d) = 0 /\ Amount(coins, d) = 0
        BY <2>3, <3>2 DEF Amount
      <4> QED BY <2>5, <3>2, <4>1
    <3> QED BY <3>1, <3>2
  <2>7. pool.assets[d] \in Nat
    BY DEF IsPool
  <2> QED BY <1>6, <2>1, <2>2, <2>4, <2>6, <2>7
<1> QED BY <1>6, <1>9, <1>10, <1>11, <1>12, <1>13 DEF Joined

\* Joining with all of the coins.
LEMMA AddAllIs ==
    ASSUME NEW pool, IsPool(pool), NEW coins, JoinsWith(pool, coins), DOMAIN coins # {},
           NEW r, r = AddAllTokensToPool(pool, coins), r.ok, r.shares > 0
    PROVE  Joined(pool, coins, r)
<1>1. IsFiniteSet(DOMAIN coins) /\ Cardinality(DOMAIN coins) \in Nat \ {0}
  <2>1. IsFiniteSet(DOMAIN pool.assets)
    BY PairIs DEF IsPool
  <2>2. IsFiniteSet(DOMAIN coins) /\ DOMAIN coins # {}
    BY <2>1, FS_Subset DEF JoinsWith
  <2> QED BY <2>2, FS_CardinalityType, FS_EmptySet
<1>2. CASE ~ (Cardinality(DOMAIN coins) > 1)
  <2>1. PICK first : first = [ok |-> TRUE, pool |-> pool, shares |-> 0, rem |-> coins]
    OBVIOUS
  <2>2. PICK second : second = AddTokensToPool(pool, coins)
    OBVIOUS
  <2>3. first.ok /\ first.pool = pool /\ first.shares = 0 /\ first.rem = coins
    BY <2>1
  <2>4. r = AddRemaining(first)
    BY <1>2, <2>1 DEF AddAllTokensToPool
  <2>5. DOMAIN coins # {}
    OBVIOUS
  <2>6. r = BothJoins(first, second)
    BY <2>2, <2>3, <2>4, <2>5 DEF AddRemaining
  <2>7. second.ok
    BY <2>6 DEF BothJoins, Fail
  <2>8. r.pool = second.pool /\ r.rem = <<>> /\ r.shares = 0 + second.shares
    BY <2>3, <2>6, <2>7 DEF BothJoins
  <2>9. second.shares \in Int => pool.totalShares + second.shares \in Nat
    BY <2>8 DEF IsPool
  <2>10. Cardinality(DOMAIN coins) = 1
    BY <1>1, <1>2
  <2>11. second.rem = <<>> /\ Joined(pool, coins, second)
    BY <2>2, <2>7, <2>9, <2>10, OneCoinIs
  <2>12. r.shares = second.shares
    BY <2>8, <2>11 DEF Joined
  <2> QED BY <2>8, <2>11, <2>12 DEF Joined
<1>3. CASE Cardinality(DOMAIN coins) > 1
  <2>1. PICK s : s = SharesOut(pool, coins)
    OBVIOUS
  <2>2. PICK first : first = WithShares(pool, coins, s)
    OBVIOUS
  <2>3. r = AddRemaining(first)
    BY <1>3, <2>1, <2>2 DEF AddAllTokensToPool, AddTokensToPool
  <2>4. first.ok
    BY <2>3 DEF AddRemaining, Fail
  <2>5. s # Fail
    BY <2>2, <2>4 DEF WithShares, Fail
  <2>6. WholeJoin(s) \/ EmptyJoin(coins, s) \/ PartJoin(coins, s)
    BY <2>1, <2>5, SharesOutIs
  <2>7. s.ok /\ s.shares \in Int
    BY <2>6 DEF WholeJoin, EmptyJoin, PartJoin
  <2>8. first.rem = s.rem /\ first.shares = s.shares
        /\ first.pool = incrementBalances(pool, s.shares, SubCoins(coins, s.rem))
    BY <2>2, <2>7 DEF WithShares
  <2>9. CASE DOMAIN first.rem = {}
    <3>1. r = first
      BY <2>3, <2>4, <2>9 DEF AddRemaining
    <3>2. r = AddTokensToPool(pool, coins)
      BY <2>1, <2>2, <3>1 DEF AddTokensToPool
    <3> QED BY <3>2, AddTokensIs
  <2>10. CASE DOMAIN first.rem # {}
    <3>1. PICK second : second = AddTokensToPool(first.pool, first.rem)
      OBVIOUS
    <3>2. r = BothJoins(first, second)
      BY <2>3, <2>4, <2>10, <3>1 DEF AddRemaining
    <3>3. second.ok
      BY <3>2 DEF BothJoins, Fail
    <3>4. CASE WholeJoin(s)
      BY <2>8, <2>10, <3>4 DEF WholeJoin
    <3>5. CASE EmptyJoin(coins, s)
      <4>1. s.shares = 0 /\ s.rem = coins
        BY <3>5 DEF EmptyJoin
      <4>2. first.pool = pool /\ first.rem = coins
        BY <2>8, <4>1, EmptyJoinKeepsPool
      <4>3. second = first
        BY <2>1, <2>2, <3>1, <4>2 DEF AddTokensToPool
      <4>4. r.shares = 0 + 0
        BY <2>8, <3>2, <3>3, <4>1, <4>3 DEF BothJoins
      <4> QED BY <4>4
    <3>6. CASE PartJoin(coins, s)
      <4>1. pool.totalShares + s.shares \in Nat
        BY <3>6 DEF PartJoin, IsPool
      <4>2. Joined(pool, coins, first)
        BY <2>2, <3>6, <4>1, JoinedBy DEF JoinCase
      <4>3. PartJoin(coins, first)
        BY <2>4, <2>8, <3>6 DEF PartJoin
      <4> QED BY <2>10, <3>1, <3>2, <3>3, <4>2, <4>3, BothJoined
    <3> QED BY <2>6, <3>4, <3>5, <3>6
  <2> QED BY <2>9, <2>10
<1> QED BY <1>2, <1>3

\* Joining a balancer pool with no coins is worth nothing, even an emptied one.
LEMMA AddNothing ==
    ASSUME NEW pool, NEW coins, DOMAIN coins = {}
    PROVE  ~ (AddAllTokensToPool(pool, coins).shares > 0)
<1> DEFINE first == [ok |-> TRUE, pool |-> pool, shares |-> 0, rem |-> coins]
<1>1. ~ (Cardinality(DOMAIN coins) > 1)
  BY FS_EmptySet
<1>2. AddAllTokensToPool(pool, coins) = AddRemaining(first)
  BY <1>1 DEF AddAllTokensToPool
<1>3. AddRemaining(first) = first
  BY DEF AddRemaining
<1> QED BY <1>2, <1>3

\* JoinPool pays into the account exactly what the record gains.
LEMMA JoinKeeps ==
    ASSUME PInv, NEW who \in Traders, NEW id \in DOMAIN pools, NEW useAll \in BOOLEAN,
           NEW coins \in JoinCoins(DOMAIN pools[id].assets), JoinPool(who, id, coins, useAll)
    PROVE  PInv'
<1>1. PICK pool : pool = pools[id]
  OBVIOUS
<1>2. IsPool(pool) /\ id \in PoolIds /\ BankTyped
  BY <1>1 DEF PInv, PoolsTyped
<1>3. JoinsWith(pool, coins)
  <2>1. PICK ds \in SUBSET DOMAIN pool.assets : coins \in [ds -> JoinAmounts]
    BY <1>1 DEF JoinCoins
  <2>2. DOMAIN coins = ds /\ coins \in [ds -> Nat \ {0}]
    BY <2>1, InputAssumption
  <2> QED BY <2>1, <2>2 DEF JoinsWith
<1>4. PICK r : r = IF useAll /\ pool.type = "balancer" THEN AddAllTokensToPool(pool, coins)
                   ELSE AddTokensToPool(pool, coins)
  OBVIOUS
<1>5. PICK used : used = SubCoins(coins, r.rem)
  OBVIOUS
<1>6. /\ Counted
      /\ useAll \/ Cardinality(DOMAIN coins) = 2
      /\ r.ok /\ r.shares > 0
      /\ CanPay(who, NonZero(used))
      /\ tokens' = SendCoins(tokens, who, id, used)
      /\ shares' = [shares EXCEPT ![who][id] = @ + r.shares]
      /\ SetPool(id, r.pool)
      /\ liquidity' = AddCoins(liquidity, used)
      /\ nextPool' = nextPool
  BY <1>1, <1>4, <1>5 DEF JoinPool, CompleteJoin, RecordTotalLiquidityIncrease
<1>7. Joined(pool, coins, r)
  <2>1. CASE r = AddAllTokensToPool(pool, coins)
    <3>1. DOMAIN coins # {}
      BY <1>6, <2>1, AddNothing
    <3> QED BY <1>2, <1>3, <1>6, <2>1, <3>1, AddAllIs
  <2>2. CASE r = AddTokensToPool(pool, coins) /\ ~ (useAll /\ pool.type = "balancer")
    <3>1. pool.type \in {"balancer", "stableswap"}
      BY <1>2 DEF IsPool
    <3>2. Cardinality({}) = 0
      BY FS_EmptySet
    <3>3. useAll => pool.type = "stableswap"
      BY <2>2, <3>1
    <3>4. ~ useAll => Cardinality(DOMAIN coins) = 2
      BY <1>6
    <3>5. DOMAIN coins # {} \/ pool.type = "stableswap"
      BY <3>2, <3>3, <3>4
    <3> QED BY <1>2, <1>3, <1>6, <2>2, <3>5, AddTokensIs
  <2> QED BY <1>4, <2>1, <2>2
<1>8. PICK q : q = r.pool
  OBVIOUS
<1>9. /\ used \in [DOMAIN coins -> Nat] /\ r.shares \in Int
      /\ IsPool(q) /\ DOMAIN q.assets = DOMAIN pool.assets
      /\ q.totalShares = pool.totalShares + r.shares
      /\ \A d \in DOMAIN pool.assets : q.assets[d] = pool.assets[d] + Amount(used, d)
  BY <1>5, <1>7, <1>8 DEF Joined
<1>10. DOMAIN used = DOMAIN coins /\ DOMAIN used \subseteq DOMAIN pool.assets /\ IsCoins(used)
  BY <1>2, <1>3, <1>9 DEF JoinsWith, IsCoins, IsPool, Pairs
<1>11. \A d : Amount(used, d) \in Nat /\ (d \notin DOMAIN pool.assets => Amount(used, d) = 0)
  BY <1>10, CoinAmount
<1>12. \A d \in Denoms : Amount(q.assets, d) - OldAmount(id, d) = Amount(used, d)
  <2> SUFFICES ASSUME NEW d \in Denoms
               PROVE  Amount(q.assets, d) - OldAmount(id, d) = Amount(used, d)
    OBVIOUS
  <2>1. CASE d \in DOMAIN pool.assets
    <3>1. pool.assets[d] \in Nat
      BY <1>2, <2>1 DEF IsPool
    <3>2. Amount(q.assets, d) = pool.assets[d] + Amount(used, d)
          /\ OldAmount(id, d) = pool.assets[d]
      BY <1>1, <1>9, <2>1 DEF OldAmount, Amount
    <3> QED BY <1>11, <3>1, <3>2
  <2>2. CASE d \notin DOMAIN pool.assets
    <3>1. Amount(q.assets, d) = 0 /\ OldAmount(id, d) = 0
      BY <1>1, <1>9, <2>2 DEF OldAmount, Amount
    <3> QED BY <1>11, <2>2, <3>1
  <2> QED BY <2>1, <2>2
<1>13. who \in Accounts /\ id \in Accounts /\ who # id /\ who \notin PoolIds
  BY <1>2, AccountsDiffer
<1>14. tokens' \in Balances /\ Transfer(tokens, tokens', who, id, used)
  <2>1. tokens \in Balances
    BY <1>2 DEF BankTyped, Balances
  <2>2. \A d \in DOMAIN used : tokens[who][d] >= used[d]
    <3> SUFFICES ASSUME NEW d \in DOMAIN used PROVE tokens[who][d] >= used[d]
      OBVIOUS
    <3>1. tokens[who][d] \in Nat /\ used[d] \in Nat
      BY <1>10, <1>13, <2>1 DEF Balances, IsCoins
    <3>2. used[d] # 0 => tokens[who][d] >= used[d]
      BY <1>6 DEF CanPay, NonZero, Restrict
    <3> QED BY <3>1, <3>2
  <2> QED BY <1>6, <1>10, <1>13, <2>1, <2>2, TransferIs
<1>15. BankMoves(who, id, q)
  <2>1. \A d \in Denoms :
          tokens'[id][d] = tokens[id][d] + (Amount(q.assets, d) - OldAmount(id, d))
    BY <1>12, <1>14 DEF Transfer
  <2>2. \A i \in PoolIds \ {id} : tokens'[i] = tokens[i]
    BY <1>13, <1>14 DEF Transfer, Accounts
  <2>3. liquidity' = [d \in Denoms |->
                        liquidity[d] + (Amount(q.assets, d) - OldAmount(id, d))]
    <3>1. liquidity \in [Denoms -> Int]
      BY <1>2 DEF BankTyped
    <3>2. liquidity' = [d \in Denoms |-> liquidity[d] + Amount(used, d)]
      BY <1>6, <3>1 DEF AddCoins
    <3> QED BY <1>12, <3>2
  <2>4. /\ shares' \in [Traders -> [PoolIds -> Nat]]
        /\ shares'[who][id] = shares[who][id] + (q.totalShares - OldShares(id))
        /\ \A t \in Traders, i \in PoolIds :
              <<t, i>> # <<who, id>> => shares'[t][i] = shares[t][i]
    <3>1. shares[who][id] \in Nat /\ pool.totalShares \in Nat
      BY <1>2 DEF BankTyped, IsPool
    <3>2. q.totalShares - OldShares(id) = r.shares
      BY <1>1, <1>9, <3>1 DEF OldShares
    <3>3. shares[who][id] + r.shares \in Nat
      BY <1>6, <1>9, <3>1
    <3>4. shares' = [shares EXCEPT ![who][id] = @ + r.shares]
      BY <1>6
    <3>5. /\ shares' \in [Traders -> [PoolIds -> Nat]]
          /\ shares'[who][id] = shares[who][id] + r.shares
          /\ \A t \in Traders, i \in PoolIds :
                <<t, i>> # <<who, id>> => shares'[t][i] = shares[t][i]
      <4>1. PICK k : k = r.shares
        OBVIOUS
      <4>2. k \in Int /\ shares[who][id] + k \in Nat
        BY <1>9, <3>3, <4>1
      <4>3. shares' = [shares EXCEPT ![who][id] = @ + k]
        BY <3>4, <4>1
      <4> QED BY <1>2, <4>1, <4>2, <4>3, SharesAfter
    <3> QED BY <3>2, <3>5
  <2> QED BY <1>14, <2>1, <2>2, <2>3, <2>4 DEF BankMoves, Balances
<1>16. Moves(who, id, q)
  <2>1. Numbered(id, q)
    BY <1>1, <1>6, <1>9 DEF Numbered
  <2> QED BY <1>2, <1>6, <1>8, <1>9, <1>15, <2>1 DEF Moves
<1> QED BY <1>16, MovesKeep

-----------------------------------------------------------------------------
(* The theorem *)

\* Every step keeps the invariant.
LEMMA NextKeeps == PInv /\ [Next]_vars => PInv'
<1> SUFFICES ASSUME PInv, [Next]_vars PROVE PInv'
  OBVIOUS
<1>1. ASSUME NEW who \in Traders, Create(who) PROVE PInv'
  BY <1>1, NewPoolKeeps DEF Create
<1>2. ASSUME NEW who \in Traders, Join(who) PROVE PInv'
  BY <1>2, JoinKeeps DEF Join
<1>3. ASSUME NEW who \in Traders, Exit(who) PROVE PInv'
  BY <1>3, ExitKeeps DEF Exit
<1>4. ASSUME NEW who \in Traders, Swap(who) PROVE PInv'
  BY <1>4, SwapKeeps DEF Swap
<1>5. CASE Restart
  BY <1>5, RestartKeeps
<1>6. CASE UNCHANGED vars
  BY <1>6, UnchangedKeeps
<1> QED BY <1>1, <1>2, <1>3, <1>4, <1>5, <1>6 DEF Next

\* The invariant says what PoolsBacked says, and more.
LEMMA PInvImplies == PInv => PoolsBacked
<1> SUFFICES ASSUME PInv PROVE PoolsBacked
  OBVIOUS
<1>1. PoolsTyped /\ BankTyped /\ IndexAgrees /\ AllBacked /\ LiquidityAgrees
  BY DEF PInv
<1>2. \A d \in Denoms : liquidity[d] \in Nat
  <2> SUFFICES ASSUME NEW d \in Denoms PROVE liquidity[d] \in Nat
    OBVIOUS
  <2> DEFINE f == PoolAmounts(d)
  <2>1. DOMAIN f = DOMAIN pools /\ \A i \in DOMAIN pools : f[i] \in Nat
    BY <1>1, AmountType DEF PoolAmounts, PoolsTyped
  <2>2. IsFiniteSet(DOMAIN pools)
    BY <1>1, PoolNumbers, FS_Subset DEF PoolsTyped
  <2>3. liquidity[d] = SumFunction(f)
    BY <1>1 DEF LiquidityAgrees
  <2> HIDE DEF f
  <2>4. SumFunctionOnSet(f, DOMAIN f) \in Nat
    BY <2>1, <2>2, SumNatural
  <2> QED BY <2>3, <2>4 DEF SumFunction
<1>3. TypeOK
  <2>1. ASSUME NEW id \in DOMAIN pools
        PROVE  /\ id \in PoolIds
               /\ DOMAIN pools[id].assets \in Pairs
               /\ DOMAIN pools[id].assets \subseteq WhitelistedAsset
               /\ Range(pools[id].assets) \subseteq Nat
               /\ pools[id].totalShares \in Nat
    BY <1>1 DEF PoolsTyped, IsPool, Range
  <2>2. liquidity \in [Denoms -> Nat]
    BY <1>1, <1>2 DEF BankTyped
  <2>3. nextPool \in PoolIds
    BY <1>1 DEF PoolsTyped
  <2>4. (\A a \in Accounts : tokens[a] \in [Denoms -> Nat])
        /\ (\A t \in Traders : shares[t] \in [PoolIds -> Nat])
    BY <1>1 DEF BankTyped
  <2> QED BY <2>1, <2>2, <2>3, <2>4 DEF TypeOK
<1>4. OnePoolPerPair
  BY <1>1 DEF IndexAgrees, OnePoolPerPair
<1> QED BY <1>1, <1>3, <1>4 DEF PoolsBacked, AllBacked, BackedPool, LiquidityAgrees, PoolAmounts

\* After any creations, joins, exits, swaps and genesis exports, the index, the
\* accounts, the share coins and the liquidity totals of the spot module agree with
\* the stored pools (x/spot keeper: NewPool, JoinPool, ExitPool, SwapExactAmountIn).
THEOREM PoolsAlwaysBacked == Spec => []PoolsBacked
<1>1. Spec => []PInv
  BY InitOK, NextKeeps, PTL DEF Spec
<1> QED BY <1>1, PInvImplies, PTL

\* A multiple is divided exactly.
LEMMA QuotExact ==
    ASSUME NEW a \in Nat, NEW b \in Nat \ {0}
    PROVE  Quot(a * b, b) = a
<1> DEFINE q == Quot(a * b, b)
<1>1. a * b \in Nat /\ a * b = b * a
  OBVIOUS
<1>2. q \in Nat /\ b * q <= b * a /\ b * a < b * (q + 1)
  BY <1>1, QuotBounds
<1> HIDE DEF q
<1>3. q <= a /\ a < q + 1
  BY <1>2, Signs
<1> QED BY <1>2, <1>3 DEF q

\* All the shares of a pool without an exit fee are worth all that it has.
LEMMA AllSharesOut ==
    ASSUME NEW pool, IsPool(pool), pool.exitFee = 0, pool.totalShares > 0
    PROVE  LET out == TokensOutFromPoolSharesIn(pool, pool.totalShares)
           IN  /\ QuoInt(ToDec(pool.totalShares), pool.totalShares) = Scale
               /\ DOMAIN out = {d \in DOMAIN pool.assets : pool.assets[d] # 0}
               /\ \A d \in DOMAIN out : out[d] = pool.assets[d]
<1> DEFINE n == pool.totalShares
           out == TokensOutFromPoolSharesIn(pool, n)
<1>1. n \in Nat \ {0} /\ pool.assets \in [DOMAIN pool.assets -> Nat] /\ Scale \in Nat \ {0}
  BY ScaleAssumption DEF IsPool
<1>2. QuoInt(ToDec(n), n) = Scale
  <2>1. ToDec(n) = Scale * n
    BY <1>1 DEF ToDec
  <2> HIDE DEF n
  <2> QED BY <1>1, <2>1, QuotExact DEF QuoInt
<1>3. DOMAIN out = {d \in DOMAIN pool.assets : pool.assets[d] # 0}
  BY DEF TokensOutFromPoolSharesIn, PoolBalances, NonZero, Restrict
<1>4. \A d \in DOMAIN out : out[d] = Truncate(Mul(Scale * pool.assets[d], One - 0))
  BY <1>2 DEF TokensOutFromPoolSharesIn, PoolBalances, NonZero, Restrict
<1>5. ASSUME NEW d \in DOMAIN out PROVE out[d] = pool.assets[d]
  <2> DEFINE a == pool.assets[d]
  <2>1. a \in Nat /\ out[d] = Truncate(Mul(Scale * a, One - 0))
    BY <1>1, <1>3, <1>4
  <2> HIDE DEF a, out
  <2>2. Scale * a = ToDec(a) /\ One - 0 = Scale
    BY <1>1, <2>1 DEF ToDec, One
  <2>3. Mul(ToDec(a), Scale) = a * Scale
    BY <1>1, <2>1, MulExact
  <2>4. Truncate(a * Scale) = a
    BY <1>1, <2>1, QuotExact DEF Truncate
  <2> QED BY <2>1, <2>2, <2>3, <2>4 DEF a
<1> QED BY <1>2, <1>3, <1>5

\* So whoever owns all of a pool's shares has a payout, and the account covers it.
LEMMA PInvEmptiable == PInv => PoolCanBeEmptied
<1> SUFFICES ASSUME PInv, NEW id \in DOMAIN pools,
                    pools[id].exitFee = 0, pools[id].totalShares > 0
             PROVE  CanExit(pools[id], pools[id].totalShares, id)
  BY DEF PoolCanBeEmptied
<1>1. PICK pool : pool = pools[id]
  OBVIOUS
<1>2. IsPool(pool) /\ BackedPool(id)
  BY <1>1 DEF PInv, PoolsTyped, AllBacked
<1>3. PICK n, out : n = pool.totalShares /\ out = TokensOutFromPoolSharesIn(pool, n)
  OBVIOUS
<1>4. /\ QuoInt(ToDec(n), n) = Scale
      /\ DOMAIN out = {d \in DOMAIN pool.assets : pool.assets[d] # 0}
      /\ \A d \in DOMAIN out : out[d] = pool.assets[d]
  BY <1>1, <1>2, <1>3, AllSharesOut
<1>5. n \in Nat /\ n > 0 /\ n <= pool.totalShares
  BY <1>1, <1>2, <1>3 DEF IsPool
<1>6. \A d \in DOMAIN out : out[d] > 0
  BY <1>2, <1>4 DEF IsPool
<1>7. CanPay(id, out)
  BY <1>1, <1>2, <1>4 DEF CanPay, BackedPool
<1>8. QuoInt(ToDec(n), pool.totalShares) > 0
  BY <1>3, <1>4, ScaleAssumption
<1>9. CanExit(pool, n, id)
  BY <1>3, <1>5, <1>6, <1>7, <1>8 DEF CanExit
<1> QED BY <1>1, <1>3, <1>9

\* The owner of every share of a pool without an exit fee may always redeem them, in
\* full: no pool can be left with coins that nobody can take out (Pool.ExitPool).
THEOREM PoolsCanAlwaysBeEmptied == Spec => []PoolCanBeEmptied
<1>1. Spec => []PInv
  BY InitOK, NextKeeps, PTL DEF Spec
<1> QED BY <1>1, PInvEmptiable, PTL
=============================================================================
