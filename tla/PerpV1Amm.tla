----------------------------- MODULE PerpV1Amm ------------------------------
(***************************************************************************)
(* The virtual pool of the first perp module (x/perp/amm): its arithmetic  *)
(* (types/pool.go), its snapshots and their time-weighted averages         *)
(* (keeper/prices.go, keeper/snapshot.go).  A pool is a record             *)
(*   [base, quote, sqrtDepth, peg, totalLong, totalShort]                  *)
(* of decimals; a snapshot is [ts, pool].  Amounts that enter the pool are *)
(* positive, amounts that leave it negative.  Where the code returns an    *)
(* error, a companion predicate "Can..." is false.                         *)
(***************************************************************************)
EXTENDS SdkDec, PrefixSum, Sequences

Long == "LONG"
Short == "SHORT"
Directions == {Long, Short}
ToMultiplier(dir) == IF dir = Long THEN 1 ELSE -1

PoolType == [base : Int, quote : Int, sqrtDepth : Int, peg : Int,
             totalLong : Int, totalShort : Int]

FromQuoteAssetToReserve(pool, quoteAsset) == Quo(quoteAsset, pool.peg)
FromQuoteReserveToAsset(pool, quoteReserve) == Mul(quoteReserve, pool.peg)

GetBias(pool) == pool.totalLong - pool.totalShort

CanGetBaseByQuote(pool, quoteDelta) == quoteDelta = 0 \/ pool.quote + quoteDelta > 0
GetBaseAmountByQuoteAmount(pool, quoteDelta) ==
    IF quoteDelta = 0 THEN 0
    ELSE Abs(Quo(Mul(pool.quote, pool.base), pool.quote + quoteDelta) - pool.base)

CanGetQuoteByBase(pool, baseDelta) == baseDelta = 0 \/ pool.base + baseDelta > 0
GetQuoteReserveByBase(pool, baseDelta) ==
    IF baseDelta = 0 THEN 0
    ELSE Abs(Quo(Mul(pool.quote, pool.base), pool.base + baseDelta) - pool.quote)

\* What baseDelta base assets sell for (or cost, when negative).
GetBaseAssetPrice(pool, baseDelta) ==
    FromQuoteReserveToAsset(pool, GetQuoteReserveByBase(pool, baseDelta))

GetMarkPrice(pool) ==
    IF pool.base = 0 \/ pool.quote = 0 THEN 0
    ELSE Mul(Quo(pool.quote, pool.base), pool.peg)

\* AddToBaseReserveAndTotalLongShort and AddToQuoteReserve.  A trade that closes
\* a long counts as a short: the totals grow, their difference is the bias.
AddToReserves(pool, quoteDelta, baseDelta) ==
    [pool EXCEPT !.quote = @ + quoteDelta,
                 !.base = @ + baseDelta,
                 !.totalLong = @ + MaxDec(0, -baseDelta),
                 !.totalShort = @ + MaxDec(0, baseDelta)]

ComputeSqrtDepth(pool) == MustSqrtDec(Mul(pool.quote, pool.base))

\* Market.Validate, without the configuration.
ValidPool(pool) ==
    /\ pool.quote > 0
    /\ pool.base > 0
    /\ pool.sqrtDepth > 0
    /\ Abs(pool.sqrtDepth - ComputeSqrtDepth(pool)) <= One
    /\ pool.peg > 0

\* Mutant: the cost has the same sign whichever side the bias is on.
GetRepegCostUnsigned(pool, peg) ==
    Mul(GetQuoteReserveByBase(pool, GetBias(pool)), peg - pool.peg)
CanRepeg(pool, peg) == peg > 0 /\ CanGetQuoteByBase(pool, GetBias(pool))
GetRepegCost(pool, peg) ==
    LET cost == Mul(GetQuoteReserveByBase(pool, GetBias(pool)), peg - pool.peg)
    IN  IF GetBias(pool) < 0 THEN -cost ELSE cost

UpdateSwapInvariant(pool, multiplier) ==
    LET invariant == Mul(pool.base, pool.quote)
        c == MustSqrtDec(Quo(Mul(invariant, multiplier), invariant))
        base == Mul(c, pool.base)
        quote == Mul(c, pool.quote)
    IN  [pool EXCEPT !.base = base, !.quote = quote,
                     !.sqrtDepth = MustSqrtDec(Mul(base, quote))]
CanUpdateSwapInvariant(pool, multiplier) ==
    /\ multiplier > 0
    /\ Mul(pool.base, pool.quote) # 0      \* Quo panics
    /\ ValidPool(UpdateSwapInvariant(pool, multiplier))

\* getMarketQuoteReserveValue takes both totals as base assets to sell.
MarketQuoteReserveValue(pool) ==
    GetQuoteReserveByBase(pool, pool.totalLong)
    + GetQuoteReserveByBase(pool, pool.totalShort)
GetSwapInvariantUpdateCost(pool, multiplier) ==
    FromQuoteReserveToAsset(pool,
        MarketQuoteReserveValue(UpdateSwapInvariant(pool, multiplier))
        - MarketQuoteReserveValue(pool))

\* HasEnoughReservesForTrade
HasEnoughReserves(pool, quoteAmt, baseAmt, tradeLimit) ==
    /\ Mul(pool.quote, tradeLimit) >= quoteAmt
    /\ Mul(pool.base, tradeLimit) >= baseAmt

\* IsOverFluctuationLimitInRelationWithSnapshot
IsOverFluctuationLimit(pool, snapshot, limit) ==
    /\ limit # 0
    /\ \/ GetMarkPrice(pool) > Mul(GetMarkPrice(snapshot.pool), One + limit)
       \/ GetMarkPrice(pool) < Mul(GetMarkPrice(snapshot.pool), One - limit)

IsOverSpreadLimit(pool, indexPrice, limit) ==
    Abs(Quo(GetMarkPrice(pool) - indexPrice, indexPrice)) >= limit

-----------------------------------------------------------------------------
(* calcTwap over the snapshots of a pair, in the order of their times. *)

\* The snapshots of the descending scan: down to the first one not after the
\* start of the window.
Scanned(snaps, now, lookback) ==
    {i \in DOMAIN snaps :
        \A j \in DOMAIN snaps : j > i => snaps[j].ts > now - lookback}

\* For how long a scanned snapshot was in force inside the window.
InForce(snaps, i, now, lookback) ==
    (IF i = Len(snaps) THEN now ELSE snaps[i + 1].ts)
    - MaxDec(snaps[i].ts, now - lookback)

CalcTwap(snaps, price, now, lookback) ==
    LET scanned == Scanned(snaps, now, lookback)
        time == [i \in scanned |-> InForce(snaps, i, now, lookback)]
        weighted == [i \in scanned |-> price[i] * time[i]]
    IN  IF \E i \in scanned : scanned = {i}
        THEN price[CHOOSE i \in scanned : TRUE]
        ELSE QuoInt(SumOver(scanned, weighted, Len(snaps)),
                    SumOver(scanned, time, Len(snaps)))

CanGetMarkPriceTWAP(snaps, now, lookback) ==
    \A i \in Scanned(snaps, now, lookback) : snaps[i].pool.base # 0
GetMarkPriceTWAP(snaps, now, lookback) ==
    CalcTwap(snaps,
             [i \in DOMAIN snaps |-> Mul(Quo(snaps[i].pool.quote, snaps[i].pool.base),
                                         snaps[i].pool.peg)],
             now, lookback)

CanGetBaseAssetTWAP(snaps, baseDelta, now, lookback) ==
    \A i \in Scanned(snaps, now, lookback) : CanGetQuoteByBase(snaps[i].pool, baseDelta)
GetBaseAssetTWAP(snaps, baseDelta, now, lookback) ==
    CalcTwap(snaps,
             [i \in Scanned(snaps, now, lookback) |->
                 GetBaseAssetPrice(snaps[i].pool, baseDelta)],
             now, lookback)
=============================================================================
