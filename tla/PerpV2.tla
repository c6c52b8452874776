------------------------------- MODULE PerpV2 -------------------------------
(***************************************************************************)
(* The perpetual-futures clearing house (x/perp/keeper/v2): opening,       *)
(* reversing and closing positions, margin, liquidation, the prepaid bad   *)
(* debt of the ecosystem fund, pool repegging and funding.                 *)
(*                                                                         *)
(* Every message is a transaction: it takes effect whole or not at all.    *)
(* The handlers are operators from a store (the module's collections and   *)
(* the bank balances) to a store; an action is enabled when the handler    *)
(* returns no error, and commits the store it returns.  An error leaves    *)
(* the state as it was, so it needs no action.                             *)
(*                                                                         *)
(* Amounts are sdk.Dec (see SdkDec) except bank balances, prepaid bad debt *)
(* and message amounts, which are sdk.Int coins of the one quote denom.    *)
(* Traders and pairs are numbered: pairs in the order of their store keys. *)
(***************************************************************************)
EXTENDS PerpV2Twap

CONSTANTS
    NumTraders, NumPairs,
    Params,            \* [Pairs -> record]: the parts of a Market no code changes
    Snapshots,         \* [Pairs -> Seq([ts, amm])]: only InitGenesis writes them
    GenesisAmm,        \* [Pairs -> pool]
    GenesisBank,       \* [Accounts -> Nat]
    IntervalsPerDay,   \* [epoch id -> 24h / duration of that epoch]
    \* inputs of the messages
    QuoteAmounts, Leverages, BaseLimits, Margins, Donations,
    Pegs, SwapInvariants, Toggles, IndexPrices, Liquidators,
    TwapInputs,        \* <<snapshots, block time, look-back>> given to CalcTwap
    \* bounds
    MaxTxs,            \* transactions, block starts and epochs of a behaviour
    MaxTime,           \* block time
    MaxRequests        \* liquidations in one MsgMultiLiquidate

ASSUME PerpAssumption ==
    /\ NumTraders \in Nat \ {0}
    /\ NumPairs \in Nat \ {0}

Traders == 1..NumTraders
Pairs == 1..NumPairs

\* A market starts from a valid pool nobody has traded with.
ASSUME GenesisAssumption ==
    /\ GenesisAmm \in [Pairs -> AmmType]
    /\ \A p \in Pairs : ValidAmm(GenesisAmm[p]) /\ Bias(GenesisAmm[p]) = 0

\* Market.Validate
IsPercent(v) == 0 <= v /\ v <= One
ValidMarket(m) ==
    /\ IsPercent(m.fluctuation)
    /\ IsPercent(m.maintenance)
    /\ IsPercent(m.efFee)
    /\ IsPercent(m.exchangeFee)
    /\ IsPercent(m.liquidationFee)
    /\ IsPercent(m.partial)
    /\ m.maxLeverage > 0
    /\ Quo(One, m.maxLeverage) >= m.maintenance
ASSUME MarketAssumption == \A p \in Pairs : ValidMarket(Params[p])

\* ValidateBasic of the messages, and the types of the other inputs.
ASSUME InputAssumption ==
    /\ QuoteAmounts \subseteq Nat \ {0}
    /\ Leverages \subseteq Nat \ {0}
    /\ Margins \subseteq Nat \ {0}
    /\ Donations \subseteq Nat
    /\ Liquidators \subseteq Traders
    /\ Pegs \subseteq Int
    /\ SwapInvariants \subseteq Int
    /\ Toggles \subseteq BOOLEAN
    /\ IndexPrices \subseteq Int
    /\ \A p \in Pairs : /\ Params[p].maintenance \in Int
                         /\ Params[p].partial \in Int
                         /\ Params[p].exchangeFee \in Int
                         /\ Params[p].efFee \in Int
                         /\ Params[p].liquidationFee \in Int
                         /\ Params[p].lookback \in Nat
    /\ \A id \in DOMAIN IntervalsPerDay : IntervalsPerDay[id] \in Nat \ {0}

\* The genesis holds the snapshots of valid pools, in the order of their times.
IsSnapshots(snaps) ==
    /\ snaps \in Seq([ts : Int, amm : AmmType])
    /\ \A i \in DOMAIN snaps :
          /\ ValidAmm(snaps[i].amm)
          /\ \A j \in DOMAIN snaps : i < j => snaps[i].ts < snaps[j].ts
ASSUME SnapshotAssumption == \A p \in Pairs : IsSnapshots(Snapshots[p])
ASSUME TwapInputAssumption ==
    \A input \in TwapInputs :
        IsSnapshots(input[1]) /\ input[2] \in Int /\ input[3] \in Nat

ASSUME BoundAssumption == MaxTxs \in Nat /\ MaxTime \in Nat

Vault == -1
PerpEF == -2
FeePool == -3
Accounts == Traders \cup {Vault, PerpEF, FeePool}
ASSUME BankAssumption == GenesisBank \in [Accounts -> Nat]

VARIABLES
    markets,     \* [Pairs -> [enabled, cpf, prepaid]]
    amms,        \* [Pairs -> pool]
    positions,   \* [Pairs -> [Traders -> position]]
    bank,        \* [Accounts -> Int]
    now,         \* ctx.BlockTime()
    txs,         \* number of steps so far, for MaxTxs
    history      \* [Pairs -> [credit, dropped, funding]], read by no handler

vars == <<markets, amms, positions, bank, now, txs, history>>

(***************************************************************************)
(* history[p].credit:  coins the fund advanced to the vault and no         *)
(*                     realised bad debt has consumed                      *)
(* history[p].dropped: base assets traded by a position change that was    *)
(*                     not written to the store                            *)
(* history[p].funding: funding the traders of p owe on balance, less what  *)
(*                     a liquidation in part let them off                  *)
(***************************************************************************)
NoHistory == [credit |-> 0, dropped |-> 0, funding |-> 0]

\* A position that is not stored reads as ZeroPosition.
ZeroPosition == [stored |-> FALSE, size |-> 0, margin |-> 0,
                 openNotional |-> 0, cpf |-> 0]

Init ==
    /\ markets = [p \in Pairs |-> [enabled |-> TRUE, cpf |-> 0, prepaid |-> 0]]
    /\ amms = GenesisAmm
    /\ positions = [p \in Pairs |-> [t \in Traders |-> ZeroPosition]]
    /\ bank = GenesisBank
    /\ now = 0
    /\ txs = 0
    /\ history = [p \in Pairs |-> NoHistory]

-----------------------------------------------------------------------------
(* The store a handler works on. *)

Store == [markets |-> markets, amms |-> amms, positions |-> positions,
          bank |-> bank, history |-> history]

Commit(s) ==
    /\ markets' = s.markets
    /\ amms' = s.amms
    /\ positions' = s.positions
    /\ bank' = s.bank
    /\ history' = s.history

\* The bank module: a transfer fails when the sender has too little.
CanSend(b, from, amt) == b[from] >= amt
Send(b, from, to, amt) == [b EXCEPT ![from] = @ - amt, ![to] = @ + amt]

-----------------------------------------------------------------------------
(* calc.go: the value of a position. *)

ExitDir(pos) == IF pos.size > 0 THEN Short ELSE Long

CanNotionalSpot(amm, pos) == CanGetQuoteReserveAmt(amm, Abs(pos.size), ExitDir(pos))
PositionNotionalSpot(amm, pos) ==
    FromQuoteReserveToAsset(amm, GetQuoteReserveAmt(amm, Abs(pos.size), ExitDir(pos)))

CanNotionalTWAP(p, pos) ==
    CanTwapBaseSwap(Snapshots[p], Abs(pos.size), ExitDir(pos), now, Params[p].lookback)
PositionNotionalTWAP(p, pos) ==
    TwapBaseSwap(Snapshots[p], Abs(pos.size), ExitDir(pos), now, Params[p].lookback)

UnrealizedPnl(pos, notional) ==
    IF pos.size > 0 THEN notional - pos.openNotional ELSE pos.openNotional - notional

FundingPayment(pos, cpf) == Mul(cpf - pos.cpf, pos.size)

MarginRatio(pos, notional, cpf) ==
    IF pos.size = 0 \/ notional = 0 THEN 0
    ELSE Quo(pos.margin + UnrealizedPnl(pos, notional) - FundingPayment(pos, cpf),
             notional)

\* The ratio that both the trader's own messages and a liquidation go by.
HealthRatio(p, amm, pos, cpf) ==
    MarginRatio(pos,
                MaxDec(PositionNotionalSpot(amm, pos), PositionNotionalTWAP(p, pos)),
                cpf)

-----------------------------------------------------------------------------
(* withdraw.go: paying out of the vault, with the fund behind it.  m is the *)
(* caller's copy of the market, and is what gets written back.             *)

Shortage(b, amt) == MaxDec(0, amt - b[Vault])

CanWithdraw(b, amt) == amt <= 0 \/ CanSend(b, PerpEF, Shortage(b, amt))
Withdraw(s, p, m, receiver, amt) ==
    LET short == Shortage(s.bank, amt) IN
    IF amt <= 0 THEN s
    ELSE [s EXCEPT
            !.markets[p] = IF short > 0 THEN [m EXCEPT !.prepaid = @ + short] ELSE @,
            !.bank = Send(Send(@, PerpEF, Vault, short), Vault, receiver, amt),
            !.history[p].credit = @ + short]

\* Mutant: only prepaid bad debt is accepted.
CanRealizeBadDebtPrepaid(b, m, debt) == debt <= m.prepaid
CanRealizeBadDebt(b, m, debt) == CanSend(b, PerpEF, MaxDec(0, debt - m.prepaid))
\* Mutants: the fund pays nothing; all the prepaid bad debt is written off; the
\* prepaid bad debt pays for more than there is.
RealizeBadDebtUnpaid(s, p, m, debt) ==
    LET consumed == MinDec(m.prepaid, debt) IN
    [s EXCEPT !.markets[p] = [m EXCEPT !.prepaid = @ - consumed],
              !.history[p].credit = @ - consumed]
RealizeBadDebtZero(s, p, m, debt) ==
    LET consumed == MinDec(m.prepaid, debt) IN
    [s EXCEPT !.markets[p] = [m EXCEPT !.prepaid = 0],
              !.bank = Send(@, PerpEF, Vault, debt - consumed),
              !.history[p].credit = @ - consumed]

RealizeBadDebtOverdraws(s, p, m, debt) ==
    [s EXCEPT !.markets[p] = [m EXCEPT !.prepaid = @ - debt],
              !.history[p].credit = @ - debt]
RealizeBadDebt(s, p, m, debt) ==
    LET consumed == MinDec(m.prepaid, debt) IN
    [s EXCEPT !.markets[p] = [m EXCEPT !.prepaid = @ - consumed],
              !.bank = Send(@, PerpEF, Vault, debt - consumed),
              !.history[p].credit = @ - consumed]

-----------------------------------------------------------------------------
(* clearing_house.go and swap.go: a change to a position.  A response is    *)
(* [ok, amm, pos, deleted, notional, size, badDebt, toVault]: notional and  *)
(* size are the quote and (signed) base assets exchanged, toVault what the  *)
(* trader owes the vault, deleted whether the old position left the store.  *)

\* checkUserLimits
WithinLimit(limit, amt, dir) ==
    \/ limit = 0
    \/ dir = Long /\ amt >= limit
    \/ dir = Short /\ amt <= limit

Signed(amt, dir) == IF dir = Long THEN amt ELSE -amt

\* Keeper.SwapQuoteAsset
CanSwapQuoteAsset(amm, dir, quote, limit) ==
    quote > 0 => /\ CanSwapQuote(amm, quote, dir)
                 /\ WithinLimit(limit, SwapQuoteDelta(amm, quote, dir), dir)
SwappedBase(amm, dir, quote) ==
    IF quote > 0 THEN SwapQuoteDelta(amm, quote, dir) ELSE 0
SwappedAmm(amm, dir, quote) ==
    IF quote > 0 THEN SwapQuoteAmm(amm, quote, dir) ELSE amm

Failed == [ok |-> FALSE]

IncreasePosition(m, amm, pos, dir, notional, limit, lev) ==
    LET size == Signed(SwappedBase(amm, dir, notional), dir)
        margin == pos.margin + Quo(notional, lev) - FundingPayment(pos, m.cpf)
    IN  IF ~ CanSwapQuoteAsset(amm, dir, notional, limit) \/ ~ CanNotionalSpot(amm, pos)
        THEN Failed
        ELSE [ok |-> TRUE,
              amm |-> SwappedAmm(amm, dir, notional),
              pos |-> [stored |-> TRUE,
                       size |-> pos.size + size,
                       margin |-> MaxDec(0, margin),
                       openNotional |-> pos.openNotional + notional,
                       cpf |-> m.cpf],
              deleted |-> FALSE,
              notional |-> notional,
              size |-> size,
              badDebt |-> MaxDec(0, -margin),
              toVault |-> Quo(notional, lev)]

\* Mutant: the long's loss lowers what it is said to have paid.
RemainOpenNotionalSwapped(pos, remaining, pnl) ==
    IF pos.size > 0 THEN remaining + pnl ELSE remaining - pnl
\* What was paid for the part that is left: worth remaining, pnl of it profit.
RemainOpenNotional(pos, remaining, pnl) ==
    IF pos.size > 0 THEN remaining - pnl ELSE remaining + pnl

\* Mutant: what is left is not checked.
CanDecreaseUnchecked(amm, pos, notional, limit, openNotional) ==
    /\ pos.size # 0
    /\ CanNotionalSpot(amm, pos)
    /\ CanSwapQuoteAsset(amm, ExitDir(pos), notional, limit)
CanDecrease(amm, pos, notional, limit, openNotional) ==
    /\ pos.size # 0
    /\ CanNotionalSpot(amm, pos)
    /\ CanSwapQuoteAsset(amm, ExitDir(pos), notional, limit)
    /\ openNotional >= 0

DecreasePosition(m, amm, pos, notional, limit) ==
    LET dir == ExitDir(pos)
        size == Signed(SwappedBase(amm, dir, notional), dir)
        current == PositionNotionalSpot(amm, pos)
        pnl == UnrealizedPnl(pos, current)
        realized == Mul(pnl, Quo(Abs(size), Abs(pos.size)))
        margin == pos.margin + realized - FundingPayment(pos, m.cpf)
        openNotional == RemainOpenNotional(pos, current - notional, pnl - realized)
    IN  IF ~ CanDecrease(amm, pos, notional, limit, openNotional)
        THEN Failed
        ELSE [ok |-> TRUE,
              amm |-> SwappedAmm(amm, dir, notional),
              pos |-> [stored |-> TRUE,
                       size |-> pos.size + size,
                       margin |-> MaxDec(0, margin),
                       openNotional |-> openNotional,
                       cpf |-> m.cpf],
              deleted |-> FALSE,
              notional |-> notional,
              size |-> size,
              badDebt |-> MaxDec(0, -margin),
              toVault |-> 0]

\* The quote limit of every caller is zero: the swap has no user limit.
ClosePositionEntirely(m, amm, pos) ==
    LET margin == pos.margin + UnrealizedPnl(pos, PositionNotionalSpot(amm, pos))
                  - FundingPayment(pos, m.cpf)
    IN  IF pos.size = 0 \/ ~ CanNotionalSpot(amm, pos)
        THEN Failed
        ELSE [ok |-> TRUE,
              amm |-> SwapBaseAmm(amm, Abs(pos.size), ExitDir(pos)),
              pos |-> ZeroPosition,
              deleted |-> TRUE,
              notional |-> SwapBaseDelta(amm, Abs(pos.size), ExitDir(pos)),
              size |-> -pos.size,
              badDebt |-> MaxDec(0, -margin),
              toVault |-> -MaxDec(0, margin)]

CloseAndOpenReversePosition(m, amm, pos, quote, lev, limit) ==
    LET close == ClosePositionEntirely(m, amm, pos)
        remaining == lev * quote - close.notional
        newLimit == IF limit > 0 THEN limit - Abs(close.size) ELSE limit
        open == IncreasePosition(m, close.amm, ZeroPosition, ExitDir(pos),
                                 remaining, newLimit, lev)
    IN  IF ~ close.ok THEN Failed
        ELSE IF close.badDebt > 0 \/ remaining < 0 THEN Failed
        ELSE IF remaining = 0 THEN close
        ELSE IF newLimit < 0 THEN Failed
        ELSE IF ~ open.ok THEN Failed
        ELSE [open EXCEPT !.deleted = TRUE,
                          !.notional = @ + close.notional,
                          !.size = @ + close.size,
                          !.badDebt = @ + close.badDebt,
                          !.toVault = @ + close.toVault]

OpenReversePosition(m, amm, pos, quote, lev, limit) ==
    IF ~ CanNotionalSpot(amm, pos) THEN Failed
    ELSE IF PositionNotionalSpot(amm, pos) > lev * quote
    THEN DecreasePosition(m, amm, pos, lev * quote, limit)
    ELSE CloseAndOpenReversePosition(m, amm, pos, quote, lev, limit)

\* The response of OpenPosition before afterPositionUpdate.
OpenResponse(m, amm, pos, dir, quote, lev, limit) ==
    IF \/ ~ pos.stored
       \/ pos.size > 0 /\ dir = Long
       \/ pos.size < 0 /\ dir = Short
    THEN IncreasePosition(m, amm, pos, dir, lev * quote, limit, lev)
    ELSE OpenReversePosition(m, amm, pos, quote, lev, limit)

-----------------------------------------------------------------------------
(* afterPositionUpdate: the checks and the payments that follow a change.  *)

\* checkPriceFluctuationLimitRatio, against the newest snapshot.
WithinFluctuation(p, amm) ==
    LET limit == Params[p].fluctuation
        last == MarkPrice(Snapshots[p][Len(Snapshots[p])].amm)
    IN  limit # 0 =>
            /\ Snapshots[p] # <<>>
            /\ MarkPrice(amm) <= Mul(last, One + limit)
            /\ MarkPrice(amm) >= Mul(last, One - limit)

\* Mutant: the position is judged by its spot value alone.
HealthyAtSpot(p, amm, pos, cpf) ==
    pos.size # 0 =>
        /\ CanNotionalSpot(amm, pos)
        /\ MarginRatio(pos, PositionNotionalSpot(amm, pos), cpf) >= Params[p].maintenance

HealthyOrEmpty(p, amm, pos, cpf) ==
    pos.size # 0 =>
        /\ CanNotionalSpot(amm, pos)
        /\ CanNotionalTWAP(p, pos)
        /\ HealthRatio(p, amm, pos, cpf) >= Params[p].maintenance

CanPayVault(b, t, toVault) ==
    IF toVault > 0 THEN CanSend(b, t, toVault) ELSE CanWithdraw(b, -toVault)
PayVault(s, p, m, t, toVault) ==
    IF toVault > 0
    THEN [s EXCEPT !.bank = Send(@, t, Vault, toVault)]
    ELSE Withdraw(s, p, m, t, -toVault)

ExchangeFee(p, notional) == RoundInt(Mul(Params[p].exchangeFee, notional))
EcosystemFee(p, notional) == RoundInt(Mul(Params[p].efFee, notional))
CanTransferFee(b, p, t, notional) ==
    CanSend(b, t, ExchangeFee(p, notional) + EcosystemFee(p, notional))
TransferFee(b, p, t, notional) ==
    Send(Send(b, t, FeePool, ExchangeFee(p, notional)),
         t, PerpEF, EcosystemFee(p, notional))

\* Mutant: the close does not delete.
KeptNoDelete(old, r) == IF r.pos.size # 0 THEN r.pos ELSE old

\* What the store keeps: a change to size zero is not written, and only a close
\* has deleted the position by then.
Kept(old, r) ==
    IF r.pos.size # 0 THEN r.pos
    ELSE IF r.deleted THEN ZeroPosition ELSE old
Dropped(r) == IF r.pos.size = 0 /\ ~ r.deleted THEN r.size ELSE 0

CanAfterPositionUpdate(s, p, t, r) ==
    LET m == s.markets[p]
        toVault == RoundInt(r.toVault)
    IN  /\ r.badDebt = 0
        /\ WithinFluctuation(p, r.amm)
        /\ HealthyOrEmpty(p, r.amm, r.pos, m.cpf)
        /\ CanPayVault(s.bank, t, toVault)
        /\ CanTransferFee(PayVault(s, p, m, t, toVault).bank, p, t, r.notional)

AfterPositionUpdate(s, p, t, r) ==
    LET paid == PayVault(s, p, s.markets[p], t, RoundInt(r.toVault))
    IN  [paid EXCEPT
            !.amms[p] = r.amm,
            !.positions[p][t] = Kept(@, r),
            !.bank = TransferFee(@, p, t, r.notional),
            !.history[p].dropped = @ + Dropped(r)]

-----------------------------------------------------------------------------
(* liquidate.go.  A liquidation that fails leaves the store alone; one that *)
(* panics aborts the whole message.                                        *)

\* distributeLiquidateRewards, with the caller's copy m of the market.
CanDistribute(b, toFund, toLiquidator) ==
    /\ CanSend(b, Vault, toFund)
    /\ CanWithdraw(Send(b, Vault, PerpEF, toFund), toLiquidator)
DistributeLiquidateRewards(s, p, m, liquidator, toFund, toLiquidator) ==
    Withdraw([s EXCEPT !.bank = Send(@, Vault, PerpEF, toFund)],
             p, m, liquidator, toLiquidator)

\* The outcome of one request: [status, store].
Outcome(status, s) == [status |-> status, store |-> s]

FullLiquidation(s, p, t, liquidator) ==
    LET m == s.markets[p]
        r == ClosePositionEntirely(m, s.amms[p], s.positions[p][t])
        fee == QuoInt(Mul(Params[p].liquidationFee, r.notional), 2)
        remaining == Abs(r.toVault)
        badDebt == RoundInt(r.badDebt + MaxDec(0, fee - remaining))
        toFund == RoundInt(MaxDec(0, remaining - fee))
        closed == [s EXCEPT !.amms[p] = r.amm, !.positions[p][t] = ZeroPosition]
        realized == IF r.badDebt + MaxDec(0, fee - remaining) > 0
                    THEN RealizeBadDebt(closed, p, m, badDebt) ELSE closed
    IN  IF /\ r.ok
           /\ CanRealizeBadDebt(s.bank, m, badDebt)
           /\ CanDistribute(realized.bank, toFund, RoundInt(fee))
        THEN Outcome("ok", DistributeLiquidateRewards(realized, p, m, liquidator,
                                                      toFund, RoundInt(fee)))
        ELSE Outcome("error", s)

\* The part of the position that is put up for sale, in base assets.
PartialSize(p, pos) == Mul(pos.size, Params[p].partial)

\* Nobody pays the bad debt of the decrease, which is funding the trader owes.
LetOff(s, p, debt) == [s EXCEPT !.history[p].funding = @ - debt]

PartialLiquidation(s, p, t, liquidator) ==
    LET m == s.markets[p]
        amm == s.amms[p]
        pos == s.positions[p][t]
        quote == FromQuoteReserveToAsset(amm,
                    GetQuoteReserveAmt(amm, PartialSize(p, pos), ExitDir(pos)))
        r == DecreasePosition(m, amm, pos, quote, 0)
        fee == Mul(quote, Params[p].liquidationFee)
        toLiquidator == RoundInt(QuoInt(fee, 2))
        toFund == RoundInt(fee - QuoInt(fee, 2))
        left == [r.pos EXCEPT !.margin = @ - fee]
        decreased == [s EXCEPT !.amms[p] = r.amm, !.positions[p][t] = left]
    IN  IF \/ ~ CanGetQuoteReserveAmt(amm, PartialSize(p, pos), ExitDir(pos))
           \/ ~ r.ok
        THEN Outcome("error", s)
        ELSE IF ~ CanDistribute(s.bank, toFund, toLiquidator)
        THEN Outcome("error", s)
        ELSE IF RoundInt(left.margin) < 0      \* sdk.NewCoin in the event
        THEN Outcome("panic", s)
        ELSE Outcome("ok", LetOff(DistributeLiquidateRewards(decreased, p, m, liquidator,
                                                             toFund, toLiquidator),
                                  p, r.badDebt))

\* Whether the position may be liquidated, and whether only in part.
Liquidatable(s, p, t) ==
    LET pos == s.positions[p][t] IN
    /\ pos.stored
    /\ CanNotionalSpot(s.amms[p], pos)
    /\ CanNotionalTWAP(p, pos)
    /\ HealthRatio(p, s.amms[p], pos, s.markets[p].cpf) < Params[p].maintenance
InPart(s, p, t) ==
    LET pos == s.positions[p][t] IN
    MarginRatio(pos, PositionNotionalSpot(s.amms[p], pos), s.markets[p].cpf)
        >= Params[p].liquidationFee

LiquidateOne(s, p, t, liquidator) ==
    IF ~ Liquidatable(s, p, t) THEN Outcome("error", s)
    ELSE IF InPart(s, p, t) THEN PartialLiquidation(s, p, t, liquidator)
    ELSE FullLiquidation(s, p, t, liquidator)

\* The outcomes of the requests of one message, each on the store the one
\* before left behind.
Outcomes(s, reqs, liquidator) ==
    LET after[i \in 0..Len(reqs)] ==
            IF i = 0 THEN Outcome("none", s)
            ELSE LiquidateOne(after[i - 1].store, reqs[i].pair, reqs[i].trader,
                              liquidator)
    IN  after

-----------------------------------------------------------------------------
(* The messages, the administrative calls and the epoch hook. *)

Step == txs < MaxTxs /\ txs' = txs + 1

OpenPosition(t, p, dir, quote, lev, limit) ==
    LET r == OpenResponse(markets[p], amms[p], positions[p][t], dir, quote, lev, limit)
    IN  /\ Step
        /\ markets[p].enabled
        /\ lev <= Params[p].maxLeverage
        /\ r.ok
        /\ CanAfterPositionUpdate(Store, p, t, r)
        /\ Commit(AfterPositionUpdate(Store, p, t, r))
        /\ UNCHANGED now

ClosePosition(t, p) ==
    LET r == ClosePositionEntirely(markets[p], amms[p], positions[p][t])
    IN  /\ Step
        /\ positions[p][t].stored
        /\ r.ok
        /\ CanAfterPositionUpdate(Store, p, t, r)
        /\ Commit(AfterPositionUpdate(Store, p, t, r))
        /\ UNCHANGED now

AddMargin(t, p, amt) ==
    LET pos == positions[p][t]
        margin == pos.margin - FundingPayment(pos, markets[p].cpf) + ToDec(amt)
    IN  /\ Step
        /\ pos.stored
        /\ margin >= 0
        /\ CanSend(bank, t, amt)
        /\ CanNotionalSpot(amms[p], pos)
        /\ bank' = Send(bank, t, Vault, amt)
        /\ positions' = [positions EXCEPT ![p][t].margin = margin,
                                          ![p][t].cpf = markets[p].cpf]
        /\ UNCHANGED <<markets, amms, now, history>>

\* Mutants: the profit or loss is left out; a profit counts.
FreeCollateralNoPnl(p, amm, pos, margin) == margin
FreeCollateralWithProfit(p, amm, pos, margin) ==
    margin + UnrealizedPnl(pos, MinDec(PositionNotionalSpot(amm, pos),
                                       PositionNotionalTWAP(p, pos)))
\* What RemoveMargin lets go: the margin less a loss, never plus a profit.
FreeCollateral(p, amm, pos, margin) ==
    margin + MinDec(0, UnrealizedPnl(pos, MinDec(PositionNotionalSpot(amm, pos),
                                                 PositionNotionalTWAP(p, pos))))

RemoveMargin(t, p, amt) ==
    LET pos == positions[p][t]
        margin == pos.margin - FundingPayment(pos, markets[p].cpf)
    IN  /\ Step
        /\ pos.stored
        /\ CanNotionalSpot(amms[p], pos)
        /\ CanNotionalTWAP(p, pos)
        /\ FreeCollateral(p, amms[p], pos, margin) >= ToDec(amt)
        /\ CanWithdraw(bank, amt)
        /\ Commit([Withdraw(Store, p, markets[p], t, amt) EXCEPT
                      !.positions[p][t].margin = margin - ToDec(amt),
                      !.positions[p][t].cpf = markets[p].cpf])
        /\ UNCHANGED now

MultiLiquidate(liquidator, reqs) ==
    LET outcomes == Outcomes(Store, reqs, liquidator)
    IN  /\ Step
        /\ \E i \in 1..Len(reqs) : outcomes[i].status = "ok"
        /\ \A i \in 1..Len(reqs) : outcomes[i].status # "panic"
        /\ Commit(outcomes[Len(reqs)].store)
        /\ UNCHANGED now

DonateToEcosystemFund(t, amt) ==
    /\ Step
    /\ CanSend(bank, t, amt)
    /\ bank' = Send(bank, t, PerpEF, amt)
    /\ UNCHANGED <<markets, amms, positions, now, history>>

\* handleMarketUpdateCost: a cost the fund cannot pay is an error, a gain the
\* vault cannot pay is dropped.
CanPayMarketUpdate(cost) == cost > 0 => CanSend(bank, PerpEF, cost)
PayMarketUpdate(cost) ==
    bank' = IF cost > 0 THEN Send(bank, PerpEF, Vault, cost)
            ELSE IF CanSend(bank, Vault, -cost) THEN Send(bank, Vault, PerpEF, -cost)
            ELSE bank

EditPriceMultiplier(p, peg) ==
    LET amm == amms[p] IN
    /\ Step
    /\ peg # amm.peg
    /\ CanRepeg(amm, peg)
    /\ CanPayMarketUpdate(CalcRepegCost(amm, peg))
    /\ PayMarketUpdate(CalcRepegCost(amm, peg))
    /\ amms' = [amms EXCEPT ![p].peg = peg]
    /\ UNCHANGED <<markets, positions, now, history>>

EditSwapInvariant(p, k) ==
    LET amm == amms[p] IN
    /\ Step
    /\ CanUpdateSwapInvariant(amm, k)
    /\ CanPayMarketUpdate(CalcUpdateSwapInvariantCost(amm, k))
    /\ PayMarketUpdate(CalcUpdateSwapInvariantCost(amm, k))
    /\ amms' = [amms EXCEPT ![p] = UpdateSwapInvariant(amm, k)]
    /\ UNCHANGED <<markets, positions, now, history>>

ChangeMarketEnabledParameter(p, enabled) ==
    /\ Step
    /\ markets' = [markets EXCEPT ![p].enabled = enabled]
    /\ UNCHANGED <<amms, positions, bank, now, history>>

\* The markets the epoch hook gets to: its loop returns at the first one that
\* is disabled or has another epoch.  Index price zero also stands for an
\* oracle that has none; that market and one without a mark price are passed by.
Reached(id) ==
    {p \in Pairs : \A q \in 1..p : markets[q].enabled /\ Params[q].epochId = id}
MarkTwap(p) == TwapSpot(Snapshots[p], now, Params[p].lookback)
Funded(id, index) ==
    {p \in Reached(id) :
        /\ index[p] # 0
        /\ CanTwapSpot(Snapshots[p], now, Params[p].lookback)
        /\ MarkTwap(p) # 0}
Premium(p, id, index) == QuoInt(MarkTwap(p) - index[p], IntervalsPerDay[id])

AfterEpochEnd(id, index) ==
    /\ Step
    /\ markets' = [p \in Pairs |->
          IF p \in Funded(id, index)
          THEN [markets[p] EXCEPT !.cpf = @ + Premium(p, id, index)] ELSE markets[p]]
    /\ history' = [p \in Pairs |->
          IF p \in Funded(id, index)
          THEN [history[p] EXCEPT !.funding = @ + Mul(Premium(p, id, index), Bias(amms[p]))]
          ELSE history[p]]
    /\ UNCHANGED <<amms, positions, bank, now>>

NextBlock ==
    /\ now < MaxTime
    /\ now' = now + 1
    /\ UNCHANGED <<markets, amms, positions, bank, txs, history>>

Requests == UNION {[1..n -> [pair : Pairs, trader : Traders]] : n \in 1..MaxRequests}

Next ==
    \/ \E t \in Traders, p \in Pairs :
          \/ \E dir \in Directions, quote \in QuoteAmounts, lev \in Leverages,
                limit \in BaseLimits : OpenPosition(t, p, dir, quote, lev, limit)
          \/ ClosePosition(t, p)
          \/ \E amt \in Margins : AddMargin(t, p, amt)
          \/ \E amt \in Margins : RemoveMargin(t, p, amt)
    \/ \E liquidator \in Liquidators, reqs \in Requests :
          MultiLiquidate(liquidator, reqs)
    \/ \E t \in Traders, amt \in Donations : DonateToEcosystemFund(t, amt)
    \/ \E p \in Pairs :
          \/ \E peg \in Pegs : EditPriceMultiplier(p, peg)
          \/ \E k \in SwapInvariants : EditSwapInvariant(p, k)
          \/ \E enabled \in Toggles : ChangeMarketEnabledParameter(p, enabled)
    \/ \E id \in DOMAIN IntervalsPerDay, index \in [Pairs -> IndexPrices] :
          AfterEpochEnd(id, index)
    \/ NextBlock

Spec == Init /\ [][Next]_vars

-----------------------------------------------------------------------------
(* Properties. *)

PositionType == [stored : BOOLEAN, size : Int, margin : Int,
                 openNotional : Int, cpf : Int]

\* Every collection holds values of its protobuf type, and no account is
\* overdrawn.
TypeOK ==
    /\ \A p \in Pairs : /\ markets[p].enabled \in BOOLEAN
                         /\ markets[p].cpf \in Int
                         /\ markets[p].prepaid \in Nat
                         /\ amms[p] \in AmmType
                         /\ \A t \in Traders : positions[p][t] \in PositionType
    /\ \A a \in Accounts : bank[a] \in Nat
    /\ now \in 0..MaxTime
    /\ txs \in 0..MaxTxs

Sizes(p) == [t \in Traders |-> positions[p][t].size]
NetSize(p) == SumOf(Sizes(p), NumTraders)

\* amm.go says the bias of a pool is the net amount of base assets the traders
\* hold.  It is, up to the trades whose result afterPositionUpdate did not write:
\* the swap inside every open, reverse, close and liquidation moves the pool by
\* exactly what the stored position changes by.
BiasAccounted ==
    \A p \in Pairs : Bias(amms[p]) = NetSize(p) + history[p].dropped

\* What the traders of p could take out of the vault by closing one after the
\* other: margins, less funding, plus the value of the net position, less what
\* was paid for it.
Equity(p) ==
    [t \in Traders |->
        LET pos == positions[p][t] IN
        pos.margin - FundingPayment(pos, markets[p].cpf)
        - (IF pos.size > 0 THEN pos.openNotional ELSE -pos.openNotional)]
Claims(p) == SumOf(Equity(p), NumTraders) + GetMarketValue(amms[p])

\* Coins the vault holds beyond the claims, the outstanding advances of the fund
\* and the net funding.
VaultSurplus ==
    ToDec(bank[Vault])
    - SumOf([p \in Pairs |-> ToDec(history[p].credit) + Claims(p) + history[p].funding],
            NumPairs)
\* Payments round to whole coins, twice in a message at most.
RoundingPerStep == One

\* The vault never falls behind what it owes: margin payments, payouts, fees of
\* liquidations, realised bad debt and the costs of repegging balance, whatever
\* the order of the messages, as long as no position change was dropped.
VaultCoversClaims ==
    (\A p \in Pairs : history[p].dropped = 0)
        => VaultSurplus >= -(RoundingPerStep * txs)

\* The market's prepaid bad debt is never less than the coins the fund really
\* advanced and has not got back: Withdraw and realizeBadDebt lose no credit.
PrepaidCoversCredit ==
    \A p \in Pairs : markets[p].prepaid >= history[p].credit

\* The credit of withdraw.go: the market's prepaid bad debt is exactly what was
\* advanced and not consumed.
PrepaidIsCredit == \A p \in Pairs : markets[p].prepaid = history[p].credit

\* A swap keeps the reserves on the curve that ValidateLiquidityDepth tests.
ReservesOnCurve ==
    \A p \in Pairs : Abs(amms[p].sqrtDepth - ComputeSqrtDepth(amms[p])) <= One

\* What is left of Position.Validate, over any sequence of trades, funding and
\* liquidations, whole or in part, up to a part of all: no position owes on its
\* notional or, in whole coins, on its margin, although the margin is cut at zero
\* before a liquidation takes its fee out of it.
NearlyValid(pos) == pos.openNotional >= 0 /\ RoundInt(pos.margin) >= 0
PositionsNearlyValid ==
    \A p \in Pairs, t \in Traders : NearlyValid(positions[p][t])

\* The store a step leaves behind.
StoreAfter == [markets |-> markets', amms |-> amms', positions |-> positions',
               bank |-> bank', history |-> history']

\* Closing the position would leave bad debt.
Underwater(s, p, t) ==
    LET r == ClosePositionEntirely(s.markets[p], s.amms[p], s.positions[p][t])
    IN  r.ok /\ r.badDebt > 0

\* RemoveMargin "fails if the position goes underwater": so it is for a long, for
\* which the smaller of the spot and the time-weighted value, which RemoveMargin
\* goes by, is the worse one.
RemoveMarginKeepsLongsSolvent ==
    [][\A t \in Traders, p \in Pairs, amt \in Margins :
          RemoveMargin(t, p, amt) /\ positions[p][t].size > 0
             => \A s \in {StoreAfter} : ~ Underwater(s, p, t)]_vars

\* A position that just grew or changed sides, which only its owner's OpenPosition
\* does, cannot be liquidated by the next message: afterPositionUpdate and
\* liquidate judge it alike, on the pool and the position that were stored.
TradeLeavesHealthy ==
    [][\A t \in Traders, p \in Pairs :
          (\/ Abs(positions'[p][t].size) > Abs(positions[p][t].size)
           \/ positions'[p][t].size * positions[p][t].size < 0)
             => \A s \in {StoreAfter} : ~ Liquidatable(s, p, t)]_vars

\* What the position of t is worth to it at the spot price.
Worth(s, p, t) ==
    LET pos == s.positions[p][t] IN
    pos.margin + UnrealizedPnl(pos, PositionNotionalSpot(s.amms[p], pos))
    - FundingPayment(pos, s.markets[p].cpf)

\* Being liquidated pays nobody: the position, long or short, closed or reduced,
\* with funding paid or received, is afterwards worth no more than before (what is
\* below zero is bad debt), but for the funding a liquidation in part lets it off.
LiquidationNeverEnriches ==
    \A p \in Pairs, t \in Traders, l \in Liquidators :
        \A o \in {LiquidateOne(Store, p, t, l)} :
            o.status = "ok" =>
                Worth(o.store, p, t)
                  <= MaxDec(0, Worth(Store, p, t))
                     + (history[p].funding - o.store.history[p].funding)
                     + RoundingPerStep

\* A part of a long in profit is sold for a profit that its margin, less funding,
\* does not get to use: the fee is taken out of nothing and the message panics.
FeeFromNothing(p, t) ==
    LET pos == positions[p][t]
        notional == PositionNotionalSpot(amms[p], pos)
    IN  /\ pos.size > 0
        /\ UnrealizedPnl(pos, notional) > 0
        /\ pos.margin - FundingPayment(pos, markets[p].cpf)
              < Mul(Params[p].liquidationFee, notional)

\* "liquidate allows to liquidate the trader position if the margin is below the
\* required margin maintenance ratio": the next message does, whatever the trades,
\* funding and margin changes before it, as long as the vault holds what is left of
\* the position and the fund its bad debt and the reward.
LiquidationAvailable ==
    \A p \in Pairs, t \in Traders, l \in Liquidators :
        (/\ Liquidatable(Store, p, t)
         /\ positions[p][t].size # 0
         /\ Params[p].partial < One
         /\ InPart(Store, p, t) => ~ FeeFromNothing(p, t)
         /\ ToDec(bank[Vault]) >= Worth(Store, p, t)
         /\ ToDec(bank[PerpEF]) >= PositionNotionalSpot(amms[p], positions[p][t])
                                    + One - Worth(Store, p, t))
           => LiquidateOne(Store, p, t, l).status = "ok"

\* The cumulative premium fraction is "calculated once per funding rate interval",
\* for every enabled market whose interval has ended.
EveryMarketFunded ==
    [][\A id \in DOMAIN IntervalsPerDay, index \in [Pairs -> IndexPrices] :
          AfterEpochEnd(id, index) =>
             \A p \in Pairs :
                (/\ markets[p].enabled
                 /\ Params[p].epochId = id
                 /\ index[p] # 0
                 /\ MarkTwap(p) # 0)
                   => markets'[p].cpf = markets[p].cpf + Premium(p, id, index)]_vars

\* CalcTwap's descending scan computes the average, over the part of the look-back
\* window that the snapshots cover, of the price in force at each instant.  It is a
\* fact about an algorithm and no state; looking at it before the first step is enough.
TwapIsAverage ==
    txs = 0 =>
        \A input \in TwapInputs :
            LET snaps == input[1] IN
            CanTwapSpot(snaps, input[2], input[3]) =>
                TwapSpot(snaps, input[2], input[3])
                  = Average(snaps, [i \in DOMAIN snaps |-> SnapshotSpot(snaps[i].amm)],
                            input[2], input[3])
=============================================================================
