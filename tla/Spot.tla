-------------------------------- MODULE Spot --------------------------------
(***************************************************************************)
(* The x/spot module: two-asset pools, of the balancer (x y = k) or the    *)
(* stableswap kind, that traders create, join, leave and swap against.     *)
(* What a pool owns is kept three times: in the pool's record, in its bank *)
(* account and in the per-denom liquidity total; its shares twice, in the  *)
(* record and as bank coins.  Genesis carries none of the module's own     *)
(* copies, while the bank carries all of its.                              *)
(*                                                                         *)
(* A message that errors or panics is reverted whole and is not a step.    *)
(* Coins are functions from denoms to positive amounts.                    *)
(***************************************************************************)
EXTENDS StableSwap, FiniteSets, FiniteSetsExt, Functions

CONSTANTS
    Traders,
    Denoms,
    WhitelistedAsset,      \* the denoms a pool may hold
    PoolParams,            \* the [type, A, swapFee, exitFee] offered
    InitPoolSharesSupply,  \* shares of a new pool
    StartingPoolNumber,
    PoolCreationFee,       \* coins, as a function of Denoms
    Community,             \* the account of the community pool
    InitialTokens,         \* what each trader holds of each denom
    NewPoolAmounts,        \* initial balances tried
    JoinAmounts, SwapAmounts, ExitAmounts,
    Curves,                \* further [x, y, A] on which GetD is compared with the curve
    MaxPools, MaxTxs, MaxRestarts

ASSUME SpotAssumption ==
    /\ WhitelistedAsset \subseteq Denoms
    /\ PoolCreationFee \in [Denoms -> Nat]
    /\ StartingPoolNumber \in Nat /\ InitPoolSharesSupply \in Nat \ {0}
    /\ MaxPools \in Nat /\ MaxTxs \in Nat /\ MaxRestarts \in Nat

\* ValidateBasic of MsgCreatePool and PoolAsset.Validate; the bank refuses a coin of
\* zero, which MsgJoinPool and MsgSwapAssets may hold.
ASSUME InputAssumption ==
    /\ \A params \in PoolParams :
          /\ params.type \in {"balancer", "stableswap"}
          /\ params.type = "stableswap" => params.A \in Nat \ {0}
          /\ params.swapFee \in 0..One /\ params.exitFee \in 0..One
    /\ InitialTokens \in Nat
    /\ NewPoolAmounts \subseteq Nat \ {0} /\ JoinAmounts \subseteq Nat \ {0}
    /\ SwapAmounts \subseteq Nat \ {0} /\ ExitAmounts \subseteq Nat
    /\ Curves \subseteq [x : Nat \ {0}, y : Nat \ {0}, A : Nat \ {0}]

PoolIds == StartingPoolNumber..(StartingPoolNumber + MaxPools)
Accounts == Traders \cup {Community} \cup PoolIds

\* An account is of one kind.
ASSUME AccountAssumption ==
    /\ IsFiniteSet(Traders) /\ IsFiniteSet(Denoms)
    /\ Traders \cap PoolIds = {} /\ Community \notin Traders \cup PoolIds

Pairs == {p \in SUBSET Denoms : Cardinality(p) = 2}

VARIABLES
    pools,        \* the stored pools, by id
    poolIdOf,     \* the index: pair of denoms -> pool id
    nextPool,     \* NextGlobalPoolNumber
    liquidity,    \* the recorded liquidity of each denom
    tokens,       \* bank: balances of the denoms
    shares,       \* bank: the traders' balances of each pool's share denom
    history       \* read by no handler: counts of messages and restarts

vars == <<pools, poolIdOf, nextPool, liquidity, tokens, shares, history>>

Truncate(d) == Quot(d, Scale)
Amount(coins, d) == IF d \in DOMAIN coins THEN coins[d] ELSE 0
Coin(d, amt) == [c \in {d} |-> amt]

-----------------------------------------------------------------------------
\* The bank, and sdk.Coins (cosmos-sdk).

AddCoins(f, coins) == [d \in DOMAIN f |-> f[d] + Amount(coins, d)]
SubCoins(f, coins) == [d \in DOMAIN f |-> f[d] - Amount(coins, d)]
NonZero(f) == Restrict(f, {d \in DOMAIN f : f[d] # 0})

CanPay(who, coins) == \A d \in DOMAIN coins : tokens[who][d] >= coins[d]

\* SendCoins on the balances t, which the sender's cover.
SendCoins(t, from, to, coins) ==
    [t EXCEPT ![from] = SubCoins(@, coins), ![to] = AddCoins(@, coins)]

\* Dec.ApproxSqrt: Newton's method from one, until a step of at most one unit.
StepRoot(d) == [g \in Nat |-> g + Quot(Quo(d, IF g = 0 THEN 1 ELSE g) - g, 2)]
ApproxSqrt(d) ==
    IF d \in {0, One} THEN d ELSE Newton(StepRoot(d), One)

-----------------------------------------------------------------------------
\* Pool shares and amounts (types/shares.go, types/pool.go, types/swap.go).
\* Operators that may fail return a record whose field ok says whether they
\* did; a division by an empty balance panics, which fails the message too.

Fail == [ok |-> FALSE]

\* Mutant: an emptied asset stays in the list as a zero coin.
PoolBalancesWithZeros(pool) == pool.assets

\* Coins.Add drops the zero coins.
PoolBalances(pool) == NonZero(pool.assets)

incrementBalances(pool, numShares, coins) ==
    [pool EXCEPT !.assets = AddCoins(@, coins), !.totalShares = @ + numShares]

\* One coin into a balancer pool: P * (sqrt(1 + (1 - f/2) in / X) - 1) shares.
\* Mutant: shares in proportion to the coin, as if the other came with it.
SingleAssetSharesLinear(pool, d, amt) ==
    LET ratio == QuoInt(Mul(ToDec(amt), One - Quo(pool.swapFee, ToDec(2))),
                        pool.assets[d])
    IN  Truncate(ratio * pool.totalShares)

SingleAssetShares(pool, d, amt) ==
    LET ratio == QuoInt(Mul(ToDec(amt), One - Quo(pool.swapFee, ToDec(2))),
                        pool.assets[d])
    IN  Truncate((ApproxSqrt(ratio + One) - One) * pool.totalShares)

numSharesOutFromTokensIn(pool, coins) ==
    LET Ratio(d) == QuoInt(ToDec(coins[d]), pool.assets[d])
        ratio == Min({Ratio(d) : d \in DOMAIN coins})
        Used(d) == CeilInt(ratio * pool.assets[d])
    IN  IF \E d \in DOMAIN coins : pool.assets[d] = 0 THEN Fail
        ELSE IF Cardinality(DOMAIN coins) = 1
        THEN LET d == CHOOSE c \in DOMAIN coins : TRUE
             IN  [ok |-> TRUE, rem |-> <<>>,
                  shares |-> SingleAssetShares(pool, d, coins[d])]
        ELSE IF ratio = 0 THEN [ok |-> TRUE, rem |-> coins, shares |-> 0]
        ELSE [ok |-> TRUE, shares |-> Truncate(ratio * pool.totalShares),
              rem |-> NonZero([d \in DOMAIN coins |->
                        IF Ratio(d) = ratio THEN 0 ELSE coins[d] - Used(d)])]

\* The curve's D over a pool's balances.
D(assets, amp) ==
    LET d == CHOOSE c \in DOMAIN assets : TRUE
        e == CHOOSE c \in DOMAIN assets \ {d} : TRUE
    IN  GetD(assets[d], assets[e], amp)

numSharesOutFromTokensInStableSwap(pool, coins) ==
    LET D0 == D(pool.assets, pool.A)
        D1 == D(AddCoins(pool.assets, coins), pool.A)
    IN  IF \/ \E d \in DOMAIN pool.assets : pool.assets[d] = 0
           \/ D1 < D0
        THEN Fail
        ELSE [ok |-> TRUE, rem |-> <<>>,
              shares |-> (pool.totalShares * (D1 - D0)) \div D0]

\* The shares a join is worth, and the coins it leaves.
SharesOut(pool, coins) ==
    CASE pool.totalShares = 0 ->
            [ok |-> TRUE, rem |-> <<>>, shares |-> InitPoolSharesSupply]
      [] pool.totalShares # 0 /\ pool.type = "stableswap" ->
            numSharesOutFromTokensInStableSwap(pool, coins)
      [] OTHER -> numSharesOutFromTokensIn(pool, coins)

WithShares(pool, coins, r) ==
    IF ~ r.ok THEN Fail
    ELSE [ok |-> TRUE, rem |-> r.rem, shares |-> r.shares,
          pool |-> incrementBalances(pool, r.shares, SubCoins(coins, r.rem))]

AddTokensToPool(pool, coins) == WithShares(pool, coins, SharesOut(pool, coins))

BothJoins(first, second) ==
    IF ~ second.ok THEN Fail
    ELSE [ok |-> TRUE, pool |-> second.pool, rem |-> <<>>,
          shares |-> first.shares + second.shares]

AddRemaining(first) ==
    CASE ~ first.ok -> Fail
      [] first.ok /\ DOMAIN first.rem = {} -> first
      [] first.ok /\ DOMAIN first.rem # {} ->
            BothJoins(first, AddTokensToPool(first.pool, first.rem))

\* A balanced join first, then one with what is left of a single coin.
AddAllTokensToPool(pool, coins) ==
    AddRemaining(IF Cardinality(DOMAIN coins) > 1
                 THEN AddTokensToPool(pool, coins)
                 ELSE [ok |-> TRUE, pool |-> pool, shares |-> 0, rem |-> coins])

TokensOutFromPoolSharesIn(pool, numSharesIn) ==
    LET ratio == QuoInt(ToDec(numSharesIn), pool.totalShares)
        balances == PoolBalances(pool)
    IN  [d \in DOMAIN balances |->
            Truncate(Mul(ratio * balances[d], One - pool.exitFee))]

\* Mutant: the amount the swap adds is divided by, instead of the new balance.
SolveConstantProductFromPrior(xPrior, xAfter, yPrior) ==
    Mul(yPrior, MinDec(One, Quo(xAfter - xPrior, xPrior)))

SolveConstantProductInvariant(xPrior, xAfter, yPrior) ==
    Mul(yPrior, One - Quo(xPrior, xAfter))

\* Pool.Exchange; a solved balance above the pool's makes Coin.Sub panic.
Exchange(pool, dIn, amt, dOut) ==
    LET y == SolveStableswapInvariant(
                pool.assets[dIn] + amt, D(pool.assets, pool.A), pool.A)
    IN  pool.assets[dOut] - y

\* The amount out, which the callers refuse when it is not positive.
CalcOutAmtGivenIn(pool, dIn, amt, dOut) ==
    LET afterFee == Mul(ToDec(amt), One - pool.swapFee)
        x == ToDec(pool.assets[dIn])
    IN  IF pool.type = "stableswap"
        THEN IF 0 \in Range(pool.assets) THEN 0
             ELSE Exchange(pool, dIn, Truncate(afterFee), dOut)
        ELSE IF x + afterFee = 0 THEN 0
             ELSE Truncate(SolveConstantProductInvariant(
                            x, x + afterFee, ToDec(pool.assets[dOut])))

-----------------------------------------------------------------------------
\* The keeper.

areAllAssetsWhitelisted(pair) == pair \subseteq WhitelistedAsset

\* FetchPoolFromPair: a pair with no entry reads as pool number 0.
PoolIdFromPair(pair) == IF pair \in DOMAIN poolIdOf THEN poolIdOf[pair] ELSE 0

SetPool(id, pool) ==
    /\ pools' = [i \in DOMAIN pools \cup {id} |->
                    IF i = id THEN pool ELSE pools[i]]
    /\ poolIdOf' = [p \in DOMAIN poolIdOf \cup {DOMAIN pool.assets} |->
                    IF p = DOMAIN pool.assets THEN id ELSE poolIdOf[p]]

RecordTotalLiquidityIncrease(coins) == liquidity' = AddCoins(liquidity, coins)

\* Mutant: what leaves the pools is recorded as if it had come in.
RecordTotalLiquiditySame(coins) == liquidity' = AddCoins(liquidity, coins)

RecordTotalLiquidityDecrease(coins) == liquidity' = SubCoins(liquidity, coins)

Counted == /\ history.txs < MaxTxs
           /\ history' = [history EXCEPT !.txs = @ + 1]

\* types.NewPool with setInitialPoolAssets: a fresh record.
NewPoolRecord(params, assets) ==
    [type |-> params.type, A |-> params.A, swapFee |-> params.swapFee,
     exitFee |-> params.exitFee, assets |-> assets,
     totalShares |-> InitPoolSharesSupply]

CanCreate(who, pair, assets) ==
    /\ areAllAssetsWhitelisted(pair)
    /\ PoolIdFromPair(pair) \notin DOMAIN pools
    /\ CanPay(who, AddCoins(PoolCreationFee, assets))

NewPool(who, params, assets) ==
    /\ Counted
    /\ nextPool < StartingPoolNumber + MaxPools
    /\ CanCreate(who, DOMAIN assets, assets)
    /\ nextPool' = nextPool + 1
    /\ tokens' = SendCoins(SendCoins(tokens, who, Community, PoolCreationFee),
                           who, nextPool, assets)
    /\ shares' = [shares EXCEPT ![who][nextPool] = @ + InitPoolSharesSupply]
    /\ SetPool(nextPool, NewPoolRecord(params, assets))
    /\ RecordTotalLiquidityIncrease(assets)

\* The trader pays what the join r used and is minted its shares; the bank
\* refuses to mint none.
CompleteJoin(who, id, coins, r) ==
    LET consumed == SubCoins(coins, r.rem)
    IN  /\ r.ok /\ r.shares > 0
        /\ CanPay(who, NonZero(consumed))
        /\ tokens' = SendCoins(tokens, who, id, consumed)
        /\ shares' = [shares EXCEPT ![who][id] = @ + r.shares]
        /\ SetPool(id, r.pool)
        /\ RecordTotalLiquidityIncrease(consumed)
        /\ UNCHANGED nextPool

JoinPool(who, id, coins, useAll) ==
    LET pool == pools[id]
    IN  /\ Counted
        /\ DOMAIN coins \subseteq DOMAIN pool.assets
        /\ useAll \/ Cardinality(DOMAIN coins) = 2
        /\ CompleteJoin(who, id, coins,
                        IF useAll /\ pool.type = "balancer"
                        THEN AddAllTokensToPool(pool, coins)
                        ELSE AddTokensToPool(pool, coins))

\* Pool.ExitPool and the bank accept: no asset's part is cut to nothing.
CanExit(pool, n, id) ==
    LET out == TokensOutFromPoolSharesIn(pool, n)
    IN  /\ n > 0 /\ n <= pool.totalShares
        /\ QuoInt(ToDec(n), pool.totalShares) > 0
        /\ \A d \in DOMAIN out : out[d] > 0
        /\ CanPay(id, out)

ExitPool(who, id, n) ==
    LET pool == pools[id]
        out == TokensOutFromPoolSharesIn(pool, n)
    IN  /\ Counted
        /\ CanExit(pool, n, id)
        /\ shares[who][id] >= n
        /\ tokens' = SendCoins(tokens, id, who, out)
        /\ shares' = [shares EXCEPT ![who][id] = @ - n]
        /\ SetPool(id, [pool EXCEPT !.assets = SubCoins(@, out),
                                    !.totalShares = @ - n])
        /\ RecordTotalLiquidityDecrease(out)
        /\ UNCHANGED nextPool

SwapExactAmountIn(who, id, dIn, amt, dOut) ==
    LET pool == pools[id]
        out == CalcOutAmtGivenIn(pool, dIn, amt, dOut)
    IN  /\ Counted
        /\ {dIn, dOut} = DOMAIN pool.assets
        /\ out > 0
        /\ CanPay(who, Coin(dIn, amt)) /\ CanPay(id, Coin(dOut, out))
        /\ tokens' = SendCoins(SendCoins(tokens, who, id, Coin(dIn, amt)),
                               id, who, Coin(dOut, out))
        /\ SetPool(id, [pool EXCEPT !.assets[dIn] = @ + amt,
                                    !.assets[dOut] = @ - out])
        /\ liquidity' = [liquidity EXCEPT ![dIn] = @ + amt, ![dOut] = @ - out]
        /\ UNCHANGED <<nextPool, shares>>

\* ExportGenesis then InitGenesis: only the parameters survive; the bank, a
\* module of its own, exports every balance, the share coins' included.
Restart ==
    /\ history.restarts < MaxRestarts
    /\ history' = [history EXCEPT !.restarts = @ + 1]
    /\ pools' = <<>> /\ poolIdOf' = <<>>
    /\ nextPool' = StartingPoolNumber
    /\ liquidity' = [d \in Denoms |-> 0]
    /\ UNCHANGED <<tokens, shares>>

-----------------------------------------------------------------------------
Init ==
    /\ pools = <<>> /\ poolIdOf = <<>>
    /\ nextPool = StartingPoolNumber
    /\ liquidity = [d \in Denoms |-> 0]
    /\ tokens = [a \in Accounts |->
                    [d \in Denoms |-> IF a \in Traders THEN InitialTokens ELSE 0]]
    /\ shares = [t \in Traders |-> [i \in PoolIds |-> 0]]
    /\ history = [txs |-> 0, restarts |-> 0]

\* The coins of a MsgJoinPool, which may name none: an emptied stableswap pool is
\* reopened even so, and otherwise the join is worth no shares.
JoinCoins(pair) ==
    UNION {[ds -> JoinAmounts] : ds \in SUBSET pair}

Create(who) ==
    \E pair \in Pairs, params \in PoolParams :
        \E assets \in [pair -> NewPoolAmounts] : NewPool(who, params, assets)
Join(who) ==
    \E id \in DOMAIN pools, useAll \in BOOLEAN :
        \E coins \in JoinCoins(DOMAIN pools[id].assets) :
            JoinPool(who, id, coins, useAll)
Exit(who) ==
    \E id \in DOMAIN pools :
        \E n \in ExitAmounts \cup {pools[id].totalShares} : ExitPool(who, id, n)
Swap(who) ==
    \E id \in DOMAIN pools :
        \E dIn, dOut \in DOMAIN pools[id].assets, amt \in SwapAmounts :
            SwapExactAmountIn(who, id, dIn, amt, dOut)

Next ==
    \/ \E who \in Traders : Create(who) \/ Join(who) \/ Exit(who) \/ Swap(who)
    \/ Restart

Spec == Init /\ [][Next]_vars

-----------------------------------------------------------------------------
\* Properties

\* No balance, share or recorded amount of the module is ever negative, and
\* every pool holds two whitelisted denoms.
TypeOK ==
    /\ \A id \in DOMAIN pools :
        /\ id \in PoolIds
        /\ DOMAIN pools[id].assets \in Pairs
        /\ DOMAIN pools[id].assets \subseteq WhitelistedAsset
        /\ Range(pools[id].assets) \subseteq Nat
        /\ pools[id].totalShares \in Nat
    /\ nextPool \in PoolIds
    /\ liquidity \in [Denoms -> Nat]
    /\ \A a \in Accounts : tokens[a] \in [Denoms -> Nat]
    /\ \A t \in Traders : shares[t] \in [PoolIds -> Nat]

ShareSupply(id) == SumFunction([t \in Traders |-> shares[t][id]])

\* Each pair has one pool, the one its index entry leads to: NewPool refuses a
\* second, and every SetPool rewrites the entry.
OnePoolPerPair ==
    /\ \A id \in DOMAIN pools : poolIdOf[DOMAIN pools[id].assets] = id
    /\ \A p \in DOMAIN poolIdOf : poolIdOf[p] \in DOMAIN pools

\* The copies agree after any mix of creations, joins, exits and swaps: the
\* index leads to the one pool of a pair, a
\* pool's account holds what its record says, its share coins are its total
\* shares, and the liquidity of a denom is the sum over the pools.  A genesis
\* export forgets the pools and not the bank, so that from then on the account
\* and the share coins may be more than the record, never less.
PoolsBacked ==
    /\ TypeOK
    /\ OnePoolPerPair
    /\ \A id \in DOMAIN pools :
        /\ \A d \in DOMAIN pools[id].assets :
            /\ tokens[id][d] >= pools[id].assets[d]
            /\ history.restarts = 0 => tokens[id][d] = pools[id].assets[d]
        /\ ShareSupply(id) >= pools[id].totalShares
        /\ history.restarts = 0 => ShareSupply(id) = pools[id].totalShares
    /\ \A d \in Denoms :
        liquidity[d] = SumFunction([id \in DOMAIN pools |-> Amount(pools[id].assets, d)])

\* GetD's integer iteration gives the root of the curve's equation but for what its
\* divisions cut, for every balance a pool reaches and for unbalanced pools on which
\* it alternates between two values until the bound of 255 turns (Curves).
DIsCurve ==
    /\ \A id \in DOMAIN pools :
        LET p == pools[id]
            d == CHOOSE c \in DOMAIN p.assets : TRUE
            e == CHOOSE c \in DOMAIN p.assets \ {d} : TRUE
        IN  (p.type = "stableswap" /\ 0 \notin Range(p.assets))
                => OnCurve(p.assets[d], p.assets[e], p.A)
    /\ history.txs = 0 => \A c \in Curves : OnCurve(c.x, c.y, c.A)

\* "Users can only withdraw funds" from a pool that lost one asset (GetD), and
\* they can: without an exit fee the owner of every share may always redeem
\* them, even when one side is empty (a pool left by all and reopened with one
\* coin).
PoolCanBeEmptied ==
    \A id \in DOMAIN pools :
        (pools[id].exitFee = 0 /\ pools[id].totalShares > 0)
            => CanExit(pools[id], pools[id].totalShares, id)

\* A swap moves a pool along its curve and never below it, but for rounding:
\* x y may fall by half a unit of the last decimal of the price times the new
\* balance (SolveConstantProductInvariant rounds the ratio), and D by what two
\* units of the coin paid out are worth.
SwapKeepsCurve ==
    [][\A id \in DOMAIN pools \cap DOMAIN pools' :
        LET old == pools[id].assets
            new == pools'[id].assets
        IN  (pools[id].totalShares = pools'[id].totalShares /\ old # new) =>
            \E i, o \in DOMAIN old :
                /\ new[i] > old[i] /\ new[o] < old[o]
                /\ pools[id].type = "balancer" =>
                    2 * Scale * (old[i] * old[o] - new[i] * new[o])
                        <= new[i] * (old[o] + 1)
                /\ pools[id].type = "stableswap" =>
                    CurveD(new[i], new[o] + 2, pools[id].A)
                        >= CurveD(old[i], old[o], pools[id].A)]_vars

\* Joining or leaving never makes the other owners' shares worth less: k per
\* squared share of a balancer pool, and D per share of a stableswap pool, do
\* not fall, the truncations favouring the pool.  The one exception is the
\* square root of a single-asset join, which may be a unit of the last decimal
\* too large: it is worth at most one share in Scale of the joiner's.
SharesNotDiluted ==
    [][\A id \in DOMAIN pools \cap DOMAIN pools' :
        LET p == pools[id]
            q == pools'[id]
            k(x) == FoldFunction(LAMBDA a, b : a * b, 1, x)
            root == IF q.totalShares < p.totalShares THEN 0
                    ELSE (p.totalShares + Scale - 1) \div Scale
        IN  (p.totalShares # q.totalShares /\ p.totalShares > 0 /\ q.totalShares > 0) =>
            /\ p.type = "balancer" =>
                k(q.assets) * p.totalShares * p.totalShares
                    >= k(p.assets) * (q.totalShares - root) * (q.totalShares - root)
            /\ (p.type = "stableswap" /\ 0 \notin Range(p.assets)
                    /\ 0 \notin Range(q.assets)) =>
                (D(q.assets, q.A) + 1) * p.totalShares
                    >= D(p.assets, p.A) * q.totalShares]_vars
=============================================================================
