------------------------------- MODULE PerpV1 -------------------------------
(***************************************************************************)
(* The first perpetual-futures module (x/perp/keeper/v1 with x/perp/amm),  *)
(* which the application runs next to the second one and which the smart   *)
(* contracts trade on: positions, margin, liquidation, bad debt, funding,  *)
(* pool administration, snapshots at the end of every block, governance    *)
(* proposals and the restart from an exported genesis.                     *)
(*                                                                         *)
(* As in PerpV2 a handler maps a store to a store, and an action commits   *)
(* the store of a handler that returns no error.  Amounts are sdk.Dec,     *)
(* except coins and prepaid bad debt, which are sdk.Int of the one quote   *)
(* denom.                                                                  *)
(***************************************************************************)
EXTENDS PerpV1Amm

CONSTANTS
    NumTraders, NumPairs,
    GenesisReserve,    \* [Pairs -> base and quote reserve of the new pool]
    GenesisPeg,        \* [Pairs -> peg multiplier]
    GenesisConfig,     \* [Pairs -> MarketConfig]
    GenesisBank,       \* [Accounts -> Nat]
    GenesisIndex,      \* [Pairs -> oracle price]
    ModuleParams,      \* [feePoolFee, efFee, liquidationFee, partial, lookback,
                       \*  minQuote (TO_MICRO), intervalsPerDay]
    Liquidators,       \* params.WhitelistedLiquidators
    \* inputs
    QuoteAmounts, Leverages, BaseLimits, Margins, Donations, IndexPrices,
    Configs, Reserves, Depths,
    \* bounds
    MaxTxs,            \* messages, proposals, epochs and price changes
    MaxTime,           \* blocks
    MaxRequests        \* liquidations in one MsgMultiLiquidate

ASSUME PerpV1Assumption ==
    /\ NumTraders \in Nat \ {0}
    /\ NumPairs \in Nat \ {0}

Traders == 1..NumTraders
Pairs == 1..NumPairs

Vault == -1
PerpEF == -2
FeePool == -3
Accounts == Traders \cup {Vault, PerpEF, FeePool}

VARIABLES
    pools,       \* [Pairs -> pool]
    configs,     \* [Pairs -> MarketConfig]
    snapshots,   \* [Pairs -> Seq(snapshot)]
    positions,   \* [Pairs -> [Traders -> position]]
    cpf,         \* [Pairs -> cumulative premium fraction of PairsMetadata]
    prepaid,     \* prepaid bad debt of the quote denom
    netSize,     \* [Pairs -> Metrics.NetSize]
    bank,        \* [Accounts -> Int]
    index,       \* [Pairs -> oracle price, 0 when there is none]
    now,         \* ctx.BlockTime()
    txs,         \* steps so far, for MaxTxs
    history      \* read by no handler

perpVars == <<pools, configs, snapshots, positions, cpf, prepaid, netSize, bank,
              index, now, txs, history>>

(***************************************************************************)
(* history.credit:     coins the fund advanced and no bad debt has used    *)
(* history.dropped[p]: base assets traded by a position change that was    *)
(*                     not written                                         *)
(* history.funding[p]: funding the traders owe on balance, less what a     *)
(*                     liquidation in part let them off                    *)
(* history.totals[p]:  the totals of the pool were never overwritten       *)
(* history.priced[p]:  the pool was moved by trades and pegs alone         *)
(***************************************************************************)

\* A position that is not stored reads as ZeroPosition.
ZeroPosition == [stored |-> FALSE, size |-> 0, margin |-> 0,
                 openNotional |-> 0, cpf |-> 0]

\* MarketConfig.Validate
IsRatio(v) == 0 <= v /\ v <= One
ValidConfig(c) ==
    /\ IsRatio(c.tradeLimit)
    /\ IsRatio(c.fluctuation)
    /\ IsRatio(c.spread)
    /\ IsRatio(c.maintenance)
    /\ c.maxLeverage > 0
    /\ Quo(One, c.maxLeverage) >= c.maintenance
ASSUME ConfigAssumption ==
    \A c \in Configs \cup {GenesisConfig[p] : p \in Pairs} : ValidConfig(c)

\* Keeper.CreatePool
NewMarket(quote, base, peg) ==
    [base |-> base, quote |-> quote, sqrtDepth |-> MustSqrtDec(Mul(quote, base)),
     peg |-> peg, totalLong |-> 0, totalShort |-> 0]
CanCreatePool(quote, base, peg) ==
    /\ quote = base
    /\ base = NewMarket(quote, base, peg).sqrtDepth
    /\ ValidPool(NewMarket(quote, base, peg))
ASSUME GenesisAssumption ==
    \A p \in Pairs : CanCreatePool(GenesisReserve[p], GenesisReserve[p], GenesisPeg[p])

\* Params.Validate, and ValidateBasic of the messages of users.  The messages of
\* contracts do not pass through it: WasmPerp.
ASSUME InputAssumption ==
    /\ ModuleParams.liquidationFee \in 0..One /\ ModuleParams.partial \in 0..One
    /\ ModuleParams.lookback \in Nat /\ ModuleParams.intervalsPerDay \in Nat \ {0}
    /\ GenesisReserve \in [Pairs -> Nat] /\ GenesisPeg \in [Pairs -> Nat]
    /\ DOMAIN GenesisConfig = Pairs
    /\ \A c \in Configs \cup {GenesisConfig[p] : p \in Pairs} : c.maintenance \in Nat
    /\ QuoteAmounts \subseteq Nat /\ Leverages \subseteq Nat \ {0} /\ Margins \subseteq Nat
    /\ IndexPrices \subseteq Nat /\ Reserves \subseteq Nat /\ Depths \subseteq Int

PerpInit ==
    /\ pools = [p \in Pairs |->
                   NewMarket(GenesisReserve[p], GenesisReserve[p], GenesisPeg[p])]
    /\ configs = GenesisConfig
    /\ snapshots = [p \in Pairs |-> <<[ts |-> 0, pool |-> pools[p]]>>]
    /\ positions = [p \in Pairs |-> [t \in Traders |-> ZeroPosition]]
    /\ cpf = [p \in Pairs |-> 0]
    /\ prepaid = 0
    /\ netSize = [p \in Pairs |-> 0]
    /\ bank = GenesisBank
    /\ index = GenesisIndex
    /\ now = 0
    /\ txs = 0
    /\ history = [credit |-> 0,
                  dropped |-> [p \in Pairs |-> 0],
                  funding |-> [p \in Pairs |-> 0],
                  totals |-> [p \in Pairs |-> TRUE],
                  priced |-> [p \in Pairs |-> TRUE]]

Store == [pools |-> pools, positions |-> positions, prepaid |-> prepaid,
          netSize |-> netSize, bank |-> bank, history |-> history]
Commit(s) ==
    /\ pools' = s.pools
    /\ positions' = s.positions
    /\ prepaid' = s.prepaid
    /\ netSize' = s.netSize
    /\ bank' = s.bank
    /\ history' = s.history
    /\ UNCHANGED <<configs, snapshots, cpf, index, now>>

\* The bank module: a transfer fails when the sender has too little.
CanSend(b, from, amt) == b[from] >= amt
Send(b, from, to, amt) == [b EXCEPT ![from] = @ - amt, ![to] = @ + amt]

-----------------------------------------------------------------------------
(* margin.go and calc.go: the value of a position. *)

\* A long position is valued by selling its size, a short one by buying it.
CanNotionalSpot(pool, pos) == CanGetQuoteByBase(pool, pos.size)
NotionalSpot(pool, pos) == GetBaseAssetPrice(pool, pos.size)
CanNotionalTWAP(p, pos) ==
    CanGetBaseAssetTWAP(snapshots[p], pos.size, now, ModuleParams.lookback)
NotionalTWAP(p, pos) ==
    GetBaseAssetTWAP(snapshots[p], pos.size, now, ModuleParams.lookback)
NotionalOracle(p, pos) == Mul(index[p], Abs(pos.size))

UnrealizedPnl(pos, notional) ==
    IF pos.size > 0 THEN notional - pos.openNotional ELSE pos.openNotional - notional

FundingPayment(p, pos) == IF pos.size = 0 THEN 0 ELSE Mul(cpf[p] - pos.cpf, pos.size)

\* CalcRemainMarginWithFundingPayment: the margin when positive, the bad debt
\* when negative.
RemainingMargin(p, pos, delta) == pos.margin + delta - FundingPayment(p, pos)

\* GetPreferencePositionNotionalAndUnrealizedPnL: the notional and the profit are
\* picked separately, so for a short they come from different prices.
MaxNotional(p, pool, pos) == MaxDec(NotionalSpot(pool, pos), NotionalTWAP(p, pos))
MaxPnl(p, pool, pos) ==
    MaxDec(UnrealizedPnl(pos, NotionalSpot(pool, pos)),
           UnrealizedPnl(pos, NotionalTWAP(p, pos)))
MinNotional(p, pool, pos) == MinDec(NotionalSpot(pool, pos), NotionalTWAP(p, pos))
MinPnl(p, pool, pos) ==
    MinDec(UnrealizedPnl(pos, NotionalSpot(pool, pos)),
           UnrealizedPnl(pos, NotionalTWAP(p, pos)))

\* GetMarginRatio for a given notional and profit.
MarginRatio(p, pos, notional, pnl) == Quo(RemainingMargin(p, pos, pnl), notional)

CanMaxPnlRatio(p, pool, pos) ==
    /\ pos.size # 0
    /\ CanNotionalSpot(pool, pos)
    /\ CanNotionalTWAP(p, pos)
    /\ MaxNotional(p, pool, pos) # 0
MaxPnlRatio(p, pool, pos) ==
    MarginRatio(p, pos, MaxNotional(p, pool, pos), MaxPnl(p, pool, pos))

\* Mutant: the better of the two values of the position counts.
FreeCollateralAtBest(p, pool, pos) ==
    pos.margin + MinDec(0, MaxPnl(p, pool, pos))
    - Mul(MinNotional(p, pool, pos), configs[p].maintenance)
\* calcFreeCollateral, of a position whose margin is already reduced.
FreeCollateral(p, pool, pos) ==
    pos.margin + MinDec(0, MinPnl(p, pool, pos))
    - Mul(MinNotional(p, pool, pos), configs[p].maintenance)

-----------------------------------------------------------------------------
(* withdraw.go *)

Shortage(b, amt) == MaxDec(0, amt - b[Vault])
CanWithdraw(b, amt) == amt <= 0 \/ CanSend(b, PerpEF, Shortage(b, amt))
Withdraw(s, receiver, amt) ==
    LET short == Shortage(s.bank, amt) IN
    IF amt <= 0 THEN s
    ELSE [s EXCEPT !.prepaid = @ + short,
                   !.bank = Send(Send(@, PerpEF, Vault, short), Vault, receiver, amt),
                   !.history.credit = @ + short]

CanRealizeBadDebt(s, debt) == CanSend(s.bank, PerpEF, MaxDec(0, debt - s.prepaid))
\* Mutant: bad debt the fund has prepaid is not written off.
RealizeBadDebtKeepsPrepaid(s, debt) ==
    LET consumed == MinDec(s.prepaid, debt) IN
    [s EXCEPT !.bank = Send(@, PerpEF, Vault, debt - consumed),
              !.history.credit = @ - consumed]
RealizeBadDebt(s, debt) ==
    LET consumed == MinDec(s.prepaid, debt) IN
    [s EXCEPT !.prepaid = @ - consumed,
              !.bank = Send(@, PerpEF, Vault, debt - consumed),
              !.history.credit = @ - consumed]

-----------------------------------------------------------------------------
(* The swaps of amm/keeper.go, with the checks on the result.              *)

\* checkIfLimitIsViolated
WithinLimit(limit, amt, dir) ==
    \/ limit = 0
    \/ dir = Long /\ amt >= limit
    \/ dir = Short /\ amt <= limit

\* checkFluctuationLimitRatio, against the newest snapshot.
WithinFluctuation(p, pool) ==
    ~ IsOverFluctuationLimit(pool, snapshots[p][Len(snapshots[p])], configs[p].fluctuation)

\* A negative amount counts by its absolute value.
QuoteDelta(pool, dir, quote) ==
    Abs(FromQuoteAssetToReserve(pool, quote)) * ToMultiplier(dir)
SwappedBase(pool, dir, quote) ==
    GetBaseAmountByQuoteAmount(pool, QuoteDelta(pool, dir, quote))

\* SwapQuoteForBase, which leaves the pool alone when there is nothing to swap.
SwapQuoteForBase(pool, dir, quote) ==
    IF quote = 0 THEN pool
    ELSE AddToReserves(pool, QuoteDelta(pool, dir, quote),
                       -(SwappedBase(pool, dir, quote) * ToMultiplier(dir)))
CanSwapQuoteForBase(p, pool, dir, quote, limit, skip) ==
    quote # 0 =>
        /\ index[p] # 0
        /\ CanGetBaseByQuote(pool, QuoteDelta(pool, dir, quote))
        /\ HasEnoughReserves(pool, Abs(QuoteDelta(pool, dir, quote)),
                             SwappedBase(pool, dir, quote), configs[p].tradeLimit)
        /\ WithinLimit(limit, SwappedBase(pool, dir, quote), dir)
        /\ skip \/ WithinFluctuation(p, SwapQuoteForBase(pool, dir, quote))

\* SwapBaseForQuote of a whole position; no caller sets a limit.
SwapBaseForQuote(pool, baseDelta) ==
    AddToReserves(pool,
                  (IF baseDelta > 0 THEN -1 ELSE 1) * GetQuoteReserveByBase(pool, baseDelta),
                  baseDelta)
CanSwapBaseForQuote(p, pool, baseDelta, skip) ==
    /\ index[p] # 0
    /\ CanGetQuoteByBase(pool, baseDelta)
    /\ HasEnoughReserves(pool, GetQuoteReserveByBase(pool, baseDelta), Abs(baseDelta),
                         configs[p].tradeLimit)
    /\ skip \/ WithinFluctuation(p, SwapBaseForQuote(pool, baseDelta))

-----------------------------------------------------------------------------
(* clearing_house.go: a change to a position.  A response is                *)
(* [ok, pool, pos, deleted, notional, size, badDebt, toVault].              *)

Failed == [ok |-> FALSE]
ExitDir(pos) == IF pos.size > 0 THEN Short ELSE Long

IncreasePosition(p, pool, pos, dir, notional, limit, lev) ==
    LET after == SwapQuoteForBase(pool, dir, notional)
        size == SwappedBase(pool, dir, notional) * ToMultiplier(dir)
        margin == RemainingMargin(p, pos, Quo(notional, lev))
    IN  IF ~ CanSwapQuoteForBase(p, pool, dir, notional, limit, FALSE) THEN Failed
        ELSE IF ~ CanNotionalSpot(after, pos) THEN Failed
        ELSE [ok |-> TRUE,
              pool |-> after,
              pos |-> [stored |-> TRUE,
                       size |-> pos.size + size,
                       margin |-> MaxDec(0, margin),
                       openNotional |-> pos.openNotional + notional,
                       cpf |-> cpf[p]],
              deleted |-> FALSE,
              notional |-> notional,
              size |-> size,
              badDebt |-> MaxDec(0, -margin),
              toVault |-> Quo(notional, lev)]

DecreasePosition(p, pool, pos, notional, limit, skip) ==
    LET dir == ExitDir(pos)
        size == IF notional = 0 THEN 0
                ELSE SwappedBase(pool, dir, notional) * ToMultiplier(dir)
        current == NotionalSpot(pool, pos)
        pnl == UnrealizedPnl(pos, current)
        realized == Mul(pnl, Quo(Abs(size), Abs(pos.size)))
        margin == RemainingMargin(p, pos, realized)
        openNotional == IF pos.size > 0
                        THEN (current - notional) - (pnl - realized)
                        ELSE (current - notional) + (pnl - realized)
    IN  IF \/ pos.size = 0
           \/ ~ CanNotionalSpot(pool, pos)
           \/ ~ CanSwapQuoteForBase(p, pool, dir, notional, limit, skip)
        THEN Failed
        ELSE IF openNotional < 0 THEN Failed
        ELSE [ok |-> TRUE,
              pool |-> SwapQuoteForBase(pool, dir, notional),
              pos |-> [stored |-> TRUE,
                       size |-> pos.size + size,
                       margin |-> MaxDec(0, margin),
                       openNotional |-> openNotional,
                       cpf |-> cpf[p]],
              deleted |-> FALSE,
              notional |-> notional,
              size |-> size,
              badDebt |-> MaxDec(0, -margin),
              toVault |-> 0]

ClosePositionEntirely(p, pool, pos, skip) ==
    LET margin == RemainingMargin(p, pos, UnrealizedPnl(pos, NotionalSpot(pool, pos)))
    IN  IF pos.size = 0 \/ ~ CanNotionalSpot(pool, pos) THEN Failed
        ELSE IF ~ CanSwapBaseForQuote(p, pool, pos.size, skip) THEN Failed
        ELSE [ok |-> TRUE,
              pool |-> SwapBaseForQuote(pool, pos.size),
              pos |-> ZeroPosition,
              deleted |-> TRUE,
              notional |-> GetBaseAssetPrice(pool, pos.size),
              size |-> -pos.size,
              badDebt |-> MaxDec(0, -margin),
              toVault |-> -MaxDec(0, margin)]

\* The responses of a close and of the opening after it, as one.
JoinResponses(close, open) ==
    IF ~ open.ok THEN Failed
    ELSE [open EXCEPT !.deleted = TRUE,
                      !.notional = @ + close.notional,
                      !.size = @ + close.size,
                      !.badDebt = @ + close.badDebt,
                      !.toVault = @ + close.toVault]

OpenAfterClose(p, close, dir, notional, lev, limit) ==
    LET remaining == notional - close.notional
        newLimit == IF limit > 0 THEN limit - Abs(close.size) ELSE limit
    IN  IF ~ close.ok THEN Failed
        ELSE IF close.badDebt > 0 \/ remaining < 0 THEN Failed
        ELSE IF remaining = 0 THEN close
        ELSE IF newLimit < 0 THEN Failed
        ELSE JoinResponses(close, IncreasePosition(p, close.pool, ZeroPosition, dir, remaining,
                                            newLimit, lev))

CloseAndOpenReversePosition(p, pool, pos, quote, lev, limit) ==
    OpenAfterClose(p, ClosePositionEntirely(p, pool, pos, FALSE), ExitDir(pos),
                   lev * quote, lev, limit)

OpenReversePosition(p, pool, pos, quote, lev, limit) ==
    IF ~ CanNotionalSpot(pool, pos) THEN Failed
    ELSE IF NotionalSpot(pool, pos) > lev * quote
    THEN DecreasePosition(p, pool, pos, lev * quote, limit, FALSE)
    ELSE CloseAndOpenReversePosition(p, pool, pos, quote, lev, limit)

\* The response of OpenPosition before afterPositionUpdate.
OpenResponse(p, pool, pos, dir, quote, lev, limit) ==
    IF \/ ~ pos.stored
       \/ pos.size > 0 /\ dir = Long
       \/ pos.size < 0 /\ dir = Short
    THEN IncreasePosition(p, pool, pos, dir, lev * quote, limit, lev)
    ELSE OpenReversePosition(p, pool, pos, quote, lev, limit)

\* transferFee sends the fees that are positive.  The event of the message carries
\* their sum: sdk.NewCoin panics when it is negative.
FeePoolFee(notional) == RoundInt(Mul(ModuleParams.feePoolFee, notional))
EcosystemFee(notional) == RoundInt(Mul(ModuleParams.efFee, notional))
CanTransferFee(b, t, notional) ==
    /\ FeePoolFee(notional) + EcosystemFee(notional) >= 0
    /\ CanSend(b, t, MaxDec(0, FeePoolFee(notional)) + MaxDec(0, EcosystemFee(notional)))
TransferFee(b, t, notional) ==
    Send(Send(b, t, FeePool, MaxDec(0, FeePoolFee(notional))),
         t, PerpEF, MaxDec(0, EcosystemFee(notional)))

CanPayVault(b, t, toVault) ==
    IF toVault > 0 THEN CanSend(b, t, toVault) ELSE CanWithdraw(b, -toVault)
PayVault(s, t, toVault) ==
    IF toVault > 0 THEN [s EXCEPT !.bank = Send(@, t, Vault, toVault)]
    ELSE Withdraw(s, t, -toVault)

\* What the swaps of a response leave in the store: the pool, the metrics, and
\* the position deleted by a close.
Swapped(s, p, t, r) ==
    [s EXCEPT !.pools[p] = r.pool,
              !.netSize[p] = @ + r.size,
              !.positions[p][t] = IF r.deleted THEN ZeroPosition ELSE @]

CanAfterPositionUpdate(s, p, t, r) ==
    /\ r.badDebt = 0
    /\ r.pos.size # 0 => /\ CanMaxPnlRatio(p, r.pool, r.pos)
                         /\ MaxPnlRatio(p, r.pool, r.pos) >= configs[p].maintenance
    /\ CanPayVault(s.bank, t, RoundInt(r.toVault))
    /\ CanTransferFee(PayVault(s, t, RoundInt(r.toVault)).bank, t, r.notional)

\* A position of size zero is not written.
AfterPositionUpdate(s, p, t, r) ==
    LET paid == PayVault(Swapped(s, p, t, r), t, RoundInt(r.toVault))
    IN  [paid EXCEPT
            !.positions[p][t] = IF r.pos.size # 0 THEN r.pos ELSE @,
            !.bank = TransferFee(@, t, r.notional),
            !.history.dropped[p] =
                IF r.pos.size = 0 /\ ~ r.deleted THEN @ + r.size ELSE @]

-----------------------------------------------------------------------------
(* liquidate.go.  A request that fails leaves the store alone; one that     *)
(* panics aborts the whole message.                                         *)

CanDistribute(b, toFund, toLiquidator) ==
    /\ CanSend(b, Vault, toFund)
    /\ CanWithdraw(Send(b, Vault, PerpEF, toFund), toLiquidator)
DistributeLiquidateRewards(s, liquidator, toFund, toLiquidator) ==
    Withdraw([s EXCEPT !.bank = Send(@, Vault, PerpEF, toFund)], liquidator, toLiquidator)

\* The outcome of one request.
Outcome(status, s) == [status |-> status, store |-> s]

SettleFullLiquidation(s, p, t, liquidator, r) ==
    LET fee == QuoInt(Mul(ModuleParams.liquidationFee, r.notional), 2)
        remaining == Abs(r.toVault)
        badDebt == RoundInt(r.badDebt + MaxDec(0, fee - remaining))
        toFund == RoundInt(MaxDec(0, remaining - fee))
        realized == RealizeBadDebt(Swapped(s, p, t, r), badDebt)
    IN  IF ~ r.ok THEN Outcome("error", s)
        ELSE IF /\ CanRealizeBadDebt(s, badDebt)
                /\ CanDistribute(realized.bank, toFund, RoundInt(fee))
        THEN Outcome("ok", DistributeLiquidateRewards(realized, liquidator, toFund,
                                                      RoundInt(fee)))
        ELSE Outcome("error", s)

ExecuteFullLiquidation(s, p, t, liquidator) ==
    SettleFullLiquidation(s, p, t, liquidator,
        ClosePositionEntirely(p, s.pools[p], s.positions[p][t], TRUE))

\* Nobody pays the bad debt of the decrease, which is funding the trader owes.
LetOff(s, p, debt) == [s EXCEPT !.history.funding[p] = @ - debt]

SettlePartialLiquidation(s, p, t, liquidator, r) ==
    LET fee == Mul(r.notional, ModuleParams.liquidationFee)
        toLiquidator == RoundInt(QuoInt(fee, 2))
        toFund == RoundInt(fee - QuoInt(fee, 2))
        left == [r.pos EXCEPT !.margin = @ - fee]
        decreased == [Swapped(s, p, t, r) EXCEPT !.positions[p][t] = left]
    IN  IF ~ r.ok THEN Outcome("error", s)
        ELSE IF ~ CanDistribute(s.bank, toFund, toLiquidator) THEN Outcome("error", s)
        ELSE IF RoundInt(left.margin) < 0      \* sdk.NewCoin in the event
        THEN Outcome("panic", s)
        ELSE Outcome("ok", LetOff(DistributeLiquidateRewards(decreased, liquidator, toFund,
                                                             toLiquidator),
                                  p, r.badDebt))

\* The size that is put up, always priced as base assets sold to the pool.
ExecutePartialLiquidation(s, p, t, liquidator) ==
    LET pos == s.positions[p][t]
        part == Abs(Mul(pos.size, ModuleParams.partial))
    IN  IF ~ CanGetQuoteByBase(s.pools[p], part) THEN Outcome("error", s)
        ELSE SettlePartialLiquidation(s, p, t, liquidator,
                DecreasePosition(p, s.pools[p], pos, GetBaseAssetPrice(s.pools[p], part), 0,
                                 TRUE))

\* The ratio Liquidate goes by: the trader's best price, and when the mark price
\* strays from the oracle's, that price too.
LiquidationRatio(s, p, pos) ==
    IF IsOverSpreadLimit(s.pools[p], index[p], configs[p].spread)
    THEN MaxDec(MaxPnlRatio(p, s.pools[p], pos),
                MarginRatio(p, pos, NotionalOracle(p, pos),
                            UnrealizedPnl(pos, NotionalOracle(p, pos))))
    ELSE MaxPnlRatio(p, s.pools[p], pos)

Liquidatable(s, p, t) ==
    LET pos == s.positions[p][t] IN
    /\ pos.stored
    /\ CanMaxPnlRatio(p, s.pools[p], pos)
    /\ index[p] # 0
    /\ IsOverSpreadLimit(s.pools[p], index[p], configs[p].spread)
           => NotionalOracle(p, pos) # 0
    /\ LiquidationRatio(s, p, pos) < configs[p].maintenance

Liquidate(s, p, t, liquidator) ==
    LET pos == s.positions[p][t]
        spot == NotionalSpot(s.pools[p], pos)
    IN  IF ~ Liquidatable(s, p, t) THEN Outcome("error", s)
        ELSE IF spot = 0 THEN Outcome("error", s)
        ELSE IF MarginRatio(p, pos, spot, UnrealizedPnl(pos, spot))
                   >= ModuleParams.liquidationFee
        THEN ExecutePartialLiquidation(s, p, t, liquidator)
        ELSE ExecuteFullLiquidation(s, p, t, liquidator)

\* The outcomes of the requests of one message, each on the store the last
\* successful one committed.
Outcomes(s, reqs, liquidator) ==
    LET after[i \in 0..Len(reqs)] ==
            IF i = 0 THEN Outcome("none", s)
            ELSE Liquidate(after[i - 1].store, reqs[i].pair, reqs[i].trader, liquidator)
    IN  after

-----------------------------------------------------------------------------
(* The messages. *)

Step == txs < MaxTxs /\ txs' = txs + 1

\* The end of both messages, on the response of their change to the position.
UpdatePosition(p, t, r) ==
    /\ r.ok
    /\ CanAfterPositionUpdate(Store, p, t, r)
    /\ Commit(AfterPositionUpdate(Store, p, t, r))

OpenPosition(t, p, dir, quote, lev, limit) ==
    /\ Step
    /\ quote >= ModuleParams.minQuote
    /\ lev # 0
    /\ lev <= configs[p].maxLeverage
    /\ UpdatePosition(p, t, OpenResponse(p, pools[p], positions[p][t], dir, quote, lev, limit))

ClosePosition(t, p) ==
    /\ Step
    /\ positions[p][t].stored
    /\ UpdatePosition(p, t, ClosePositionEntirely(p, pools[p], positions[p][t], FALSE))

\* AddMargin of amt coins, of which quote are of the quote denom: the margin grows
\* by the amount whatever the denom.
AddCoins(t, p, amt, quote) ==
    LET pos == positions[p][t]
        margin == RemainingMargin(p, pos, ToDec(amt))
    IN  /\ Step
        /\ pos.stored
        /\ margin >= 0
        /\ amt >= 0                            \* sdk.NewCoins panics
        /\ CanSend(bank, t, quote)
        /\ CanNotionalSpot(pools[p], pos)
        /\ Commit([Store EXCEPT !.bank = Send(@, t, Vault, quote),
                                !.positions[p][t].margin = margin,
                                !.positions[p][t].cpf = cpf[p]])
AddMargin(t, p, amt) == AddCoins(t, p, amt, amt)

RemoveMargin(t, p, amt) ==
    LET margin == RemainingMargin(p, positions[p][t], -ToDec(amt))
        pos == [positions[p][t] EXCEPT !.margin = margin, !.cpf = cpf[p]]
    IN  /\ Step
        /\ pos.stored
        /\ margin >= 0
        /\ CanNotionalSpot(pools[p], pos)
        /\ CanNotionalTWAP(p, pos)
        /\ FreeCollateral(p, pools[p], pos) > 0
        /\ CanWithdraw(bank, amt)
        /\ Commit([Withdraw(Store, t, amt) EXCEPT !.positions[p][t] = pos])

\* The message fails when no request succeeds.
CommitOutcomes(n, outcomes) ==
    /\ \E i \in 1..n : outcomes[i].status = "ok"
    /\ \A i \in 1..n : outcomes[i].status # "panic"
    /\ Commit(outcomes[n].store)

MultiLiquidate(liquidator, reqs) ==
    /\ Step
    /\ liquidator \in Liquidators
    /\ CommitOutcomes(Len(reqs), Outcomes(Store, reqs, liquidator))

DonateToEcosystemFund(t, amt) ==
    /\ Step
    /\ CanSend(bank, t, amt)
    /\ Commit([Store EXCEPT !.bank = Send(@, t, PerpEF, amt)])

-----------------------------------------------------------------------------
(* amm.go: pool administration by the sudo contracts.                       *)

CanPayMarketUpdate(cost) == cost > 0 => CanSend(bank, PerpEF, cost)
\* handleMarketUpdateCost: a gain the vault cannot pay out is dropped.
PayMarketUpdate(cost) ==
    IF cost > 0 THEN Send(bank, PerpEF, Vault, cost)
    ELSE IF CanSend(bank, Vault, -cost) THEN Send(bank, Vault, PerpEF, -cost)
    ELSE bank

EditPoolPegMultiplier(p, peg) ==
    LET cost == CeilInt(GetRepegCost(pools[p], peg)) IN
    /\ Step
    /\ CanRepeg(pools[p], peg)
    /\ CanPayMarketUpdate(cost)
    /\ ValidPool([pools[p] EXCEPT !.peg = peg])
    /\ Commit([Store EXCEPT !.bank = PayMarketUpdate(cost), !.pools[p].peg = peg])

EditPoolSwapInvariant(p, multiplier) ==
    LET cost == CeilInt(GetSwapInvariantUpdateCost(pools[p], multiplier)) IN
    /\ Step
    /\ CanUpdateSwapInvariant(pools[p], multiplier)
    /\ CanPayMarketUpdate(cost)
    /\ Commit([Store EXCEPT !.bank = PayMarketUpdate(cost),
                            !.pools[p] = UpdateSwapInvariant(@, multiplier),
                            !.history.priced[p] = FALSE])

-----------------------------------------------------------------------------
(* amm/handler.go: governance proposals that passed.                        *)

\* A snapshot at this time overwrites one with the same time.
Saved(snaps, pool) ==
    LET newest == Len(snaps)
        older == IF snaps[newest].ts < now THEN newest ELSE newest - 1
    IN  Append(SubSeq(snaps, 1, older), [ts |-> now, pool |-> pool])

\* CreatePool also overwrites a pool that exists.
ProposalCreatePool(p, reserve, config) ==
    /\ Step
    /\ CanCreatePool(reserve, reserve, One)
    /\ pools' = [pools EXCEPT ![p] = NewMarket(reserve, reserve, One)]
    /\ configs' = [configs EXCEPT ![p] = config]
    /\ snapshots' = [snapshots EXCEPT ![p] = Saved(@, pools'[p])]
    /\ history' = [history EXCEPT !.totals[p] = FALSE, !.priced[p] = FALSE]
    /\ UNCHANGED <<positions, cpf, prepaid, netSize, bank, index, now>>

\* EditPoolConfig copies the market without its totals.
ProposalEditPoolConfig(p, config) ==
    /\ Step
    /\ ValidPool(pools[p])
    /\ pools' = [pools EXCEPT ![p].totalLong = 0, ![p].totalShort = 0]
    /\ configs' = [configs EXCEPT ![p] = config]
    /\ history' = [history EXCEPT !.totals[p] = FALSE]
    /\ UNCHANGED <<snapshots, positions, cpf, prepaid, netSize, bank, index, now>>

\* The proposal calls the pool's keeper: the vault is not compensated.
ProposalEditSwapInvariants(p, multiplier) ==
    /\ Step
    /\ CanUpdateSwapInvariant(pools[p], multiplier)
    /\ Commit([Store EXCEPT !.pools[p] = UpdateSwapInvariant(@, multiplier),
                            !.history.priced[p] = FALSE])

-----------------------------------------------------------------------------
(* Epochs, blocks, prices and restarts. *)

Sizes(p) == [t \in Traders |-> positions[p][t].size]
NetSize(p) == SumOf(Sizes(p), NumTraders)

\* The hook passes by a pair without an index price (0) or a mark price, and
\* panics on one whose base reserve was used up.
MarkTwap(p) == GetMarkPriceTWAP(snapshots[p], now, ModuleParams.lookback)
Premium(p, twap) ==
    IF twap[p] = 0 \/ MarkTwap(p) = 0 THEN 0
    ELSE QuoInt(MarkTwap(p) - twap[p], ModuleParams.intervalsPerDay)
AfterEpochEnd(twap) ==
    /\ Step
    /\ \A p \in Pairs :
          twap[p] # 0 => CanGetMarkPriceTWAP(snapshots[p], now, ModuleParams.lookback)
    /\ cpf' = [p \in Pairs |-> cpf[p] + Premium(p, twap)]
    /\ history' = [history EXCEPT !.funding =
                      [p \in Pairs |-> @[p] + Mul(Premium(p, twap), NetSize(p))]]
    /\ UNCHANGED <<pools, configs, snapshots, positions, prepaid, netSize, bank, index, now>>

EndBlocker ==
    /\ now < MaxTime
    /\ \A p \in Pairs : pools[p].base # 0      \* Quo panics in the event
    /\ snapshots' = [p \in Pairs |-> Saved(snapshots[p], pools[p])]
    /\ now' = now + 1
    /\ UNCHANGED <<pools, configs, positions, cpf, prepaid, netSize, bank, index, txs,
                   history>>

\* The oracle's price of a pair changes, or goes missing.
SetExchangeRate(p, price) ==
    /\ Step
    /\ index' = [index EXCEPT ![p] = price]
    /\ UNCHANGED <<pools, configs, snapshots, positions, cpf, prepaid, netSize, bank, now,
                   history>>

\* Export and import of the genesis.  Every pool goes through CreatePool, whose
\* error is a panic; totals, metrics and old snapshots are not kept.  Once the depth
\* has been changed, equal reserves no longer mean that the totals were equal.
CanImport == \A p \in Pairs : CanCreatePool(pools[p].quote, pools[p].base, pools[p].peg)
Restart ==
    /\ Step
    /\ CanImport
    /\ pools' = [p \in Pairs |-> NewMarket(pools[p].quote, pools[p].base, pools[p].peg)]
    /\ snapshots' = [p \in Pairs |-> <<[ts |-> now, pool |-> pools'[p]]>>]
    /\ netSize' = [p \in Pairs |-> 0]
    /\ history' = [history EXCEPT !.totals =
                      [p \in Pairs |-> @[p] /\ history.priced[p]]]
    /\ UNCHANGED <<configs, positions, cpf, prepaid, bank, index, now>>

Requests == UNION {[1..n -> [pair : Pairs, trader : Traders]] : n \in 1..MaxRequests}

Trade(t, p) ==
    \/ \E dir \in Directions, quote \in QuoteAmounts, lev \in Leverages,
          limit \in BaseLimits : OpenPosition(t, p, dir, quote, lev, limit)
    \/ ClosePosition(t, p)
    \/ \E amt \in Margins : AddMargin(t, p, amt)
    \/ \E amt \in Margins : RemoveMargin(t, p, amt)

\* Everything but the administration by contracts.
PerpNext ==
    \/ \E t \in Traders, p \in Pairs : Trade(t, p)
    \/ \E liquidator \in Traders, reqs \in Requests : MultiLiquidate(liquidator, reqs)
    \/ \E t \in Traders, amt \in Donations : DonateToEcosystemFund(t, amt)
    \/ \E p \in Pairs :
          \/ \E reserve \in Reserves, config \in Configs :
                ProposalCreatePool(p, reserve, config)
          \/ \E config \in Configs : ProposalEditPoolConfig(p, config)
          \/ \E multiplier \in Depths : ProposalEditSwapInvariants(p, multiplier)
          \/ \E price \in IndexPrices : SetExchangeRate(p, price)
    \/ \E twap \in [Pairs -> IndexPrices] : AfterEpochEnd(twap)
    \/ EndBlocker
    \/ Restart
=============================================================================
