----------------------------- MODULE PerpV2Amm ------------------------------
(***************************************************************************)
(* The virtual constant-product pool of a perp market                      *)
(* (x/perp/types/v2/amm.go).  A pool is a record                           *)
(*   [base, quote, sqrtDepth, peg, totalLong, totalShort]                  *)
(* of decimals.  Where the code returns an error, the operator that        *)
(* computes the result has a companion predicate "Can..." that is false.   *)
(***************************************************************************)
EXTENDS SdkDec

Long == "LONG"
Short == "SHORT"
Directions == {Long, Short}

AmmType == [base : Int, quote : Int, sqrtDepth : Int, peg : Int,
            totalLong : Int, totalShort : Int]

FromQuoteAssetToReserve(amm, quoteAsset) == Quo(quoteAsset, amm.peg)
FromQuoteReserveToAsset(amm, quoteReserve) == Mul(quoteReserve, amm.peg)

Invariant(amm) == Mul(amm.quote, amm.base)

\* Reserves left by a trade of q quote (of b base) reserve units.
QuoteAfter(amm, q, dir) == IF dir = Long THEN amm.quote + q ELSE amm.quote - q
BaseAfter(amm, b, dir) == IF dir = Long THEN amm.base - b ELSE amm.base + b

CanGetBaseReserveAmt(amm, q, dir) == q <= 0 \/ QuoteAfter(amm, q, dir) > 0
GetBaseReserveAmt(amm, q, dir) ==
    IF q <= 0 THEN 0
    ELSE Abs(Quo(Invariant(amm), QuoteAfter(amm, q, dir)) - amm.base)

CanGetQuoteReserveAmt(amm, b, dir) == b <= 0 \/ BaseAfter(amm, b, dir) > 0
GetQuoteReserveAmt(amm, b, dir) ==
    IF b <= 0 THEN 0
    ELSE Abs(Quo(Invariant(amm), BaseAfter(amm, b, dir)) - amm.quote)

MarkPrice(amm) ==
    IF amm.base = 0 \/ amm.quote = 0 THEN 0
    ELSE Mul(Quo(amm.quote, amm.base), amm.peg)

\* The pool after q quote reserves and b base reserves changed hands.
Trade(amm, q, b, dir) ==
    IF dir = Long
    THEN [amm EXCEPT !.quote = @ + q, !.base = @ - b, !.totalLong = @ + b]
    ELSE [amm EXCEPT !.quote = @ - q, !.base = @ + b, !.totalShort = @ + b]

\* SwapQuoteAsset: the base assets exchanged, and the pool after the swap.
CanSwapQuote(amm, quoteAsset, dir) ==
    CanGetBaseReserveAmt(amm, FromQuoteAssetToReserve(amm, quoteAsset), dir)
SwapQuoteDelta(amm, quoteAsset, dir) ==
    GetBaseReserveAmt(amm, FromQuoteAssetToReserve(amm, quoteAsset), dir)
SwapQuoteAmm(amm, quoteAsset, dir) ==
    Trade(amm, FromQuoteAssetToReserve(amm, quoteAsset),
          SwapQuoteDelta(amm, quoteAsset, dir), dir)

\* SwapBaseAsset: the quote assets exchanged, and the pool after the swap.
SwapBaseDelta(amm, baseAsset, dir) ==
    FromQuoteReserveToAsset(amm, GetQuoteReserveAmt(amm, baseAsset, dir))
SwapBaseAmm(amm, baseAsset, dir) ==
    Trade(amm, GetQuoteReserveAmt(amm, baseAsset, dir), baseAsset, dir)

Bias(amm) == amm.totalLong - amm.totalShort

\* The direction in which the net position of all traders closes.
BiasExit(amm) == IF Bias(amm) > 0 THEN Short ELSE Long
CanValueBias(amm) == CanGetQuoteReserveAmt(amm, Abs(Bias(amm)), BiasExit(amm))
BiasInQuoteReserve(amm) ==
    LET v == GetQuoteReserveAmt(amm, Abs(Bias(amm)), BiasExit(amm))
    IN  IF Bias(amm) < 0 THEN -v ELSE v

GetMarketValue(amm) == FromQuoteReserveToAsset(amm, BiasInQuoteReserve(amm))

CanRepeg(amm, newPeg) == newPeg > 0 /\ CanValueBias(amm)
\* Mutant: the difference of the pegs the wrong way round.
CalcRepegCostSwapped(amm, newPeg) ==
    CeilInt(Mul(BiasInQuoteReserve(amm), amm.peg - newPeg))
CalcRepegCost(amm, newPeg) ==
    CeilInt(Mul(BiasInQuoteReserve(amm), newPeg - amm.peg))

\* Mutant: the depth is not updated with the reserves.
UpdateSwapInvariantOldDepth(amm, newSwapInvariant) ==
    LET multiplier == Quo(MustSqrtDec(newSwapInvariant), amm.sqrtDepth)
    IN  [amm EXCEPT !.base = Mul(@, multiplier), !.quote = Mul(@, multiplier)]
UpdateSwapInvariant(amm, newSwapInvariant) ==
    LET newSqrtDepth == MustSqrtDec(newSwapInvariant)
        multiplier == Quo(newSqrtDepth, amm.sqrtDepth)
    IN  [amm EXCEPT !.sqrtDepth = newSqrtDepth,
                    !.base = Mul(@, multiplier),
                    !.quote = Mul(@, multiplier)]

ValidAmm(amm) ==
    /\ amm.base > 0
    /\ amm.quote > 0
    /\ amm.peg > 0
    /\ amm.sqrtDepth > 0

CanUpdateSwapInvariant(amm, newSwapInvariant) ==
    /\ newSwapInvariant > 0
    /\ CanValueBias(amm)
    /\ ValidAmm(UpdateSwapInvariant(amm, newSwapInvariant))
    /\ CanValueBias(UpdateSwapInvariant(amm, newSwapInvariant))
CalcUpdateSwapInvariantCost(amm, newSwapInvariant) ==
    CeilInt(GetMarketValue(UpdateSwapInvariant(amm, newSwapInvariant))
            - GetMarketValue(amm))

ComputeSqrtDepth(amm) == MustSqrtDec(Invariant(amm))
=============================================================================
