--------------------------- MODULE WasmPerpProofs ---------------------------
(***************************************************************************)
(* The first perp module and the contracts that act on it, for any number  *)
(* of traders and pairs, any parameters and any inputs: the prepaid bad    *)
(* debt is the credit of the fund, only contracts root has granted it move *)
(* a pool, and RemoveMargin leaves no position underwater.                 *)
(*                                                                         *)
(* A handler maps a store to a store, so the first result is an argument   *)
(* about stores: Balanced is the inductive invariant, Withdraw and         *)
(* RealizeBadDebt move both sides of it by the same amount, and every      *)
(* other handler keeps both sides as they are (Kept).  The last result     *)
(* needs that pools, positions and snapshots hold integers and pegs are    *)
(* positive (TInv), so that values of positions are not negative.          *)
(***************************************************************************)
EXTENDS WasmPerp, ArithmeticProofs

-----------------------------------------------------------------------------
(* Stores. *)

IsHistory(h) ==
    h \in [credit : {h.credit}, dropped : {h.dropped}, funding : {h.funding},
           totals : {h.totals}, priced : {h.priced}]
IsRecord(s) ==
    s \in [pools : {s.pools}, positions : {s.positions}, prepaid : {s.prepaid},
           netSize : {s.netSize}, bank : {s.bank}, history : {s.history}]
IsStore(s) == IsRecord(s) /\ IsHistory(s.history)

\* The inductive invariant, on a store.
Balanced(s) == IsStore(s) /\ s.prepaid = s.history.credit

\* u has the prepaid bad debt and the credit of s.
Kept(s, u) ==
    /\ IsStore(u)
    /\ u.prepaid = s.prepaid
    /\ u.history.credit = s.history.credit

\* A store that keeps both sides is balanced.
LEMMA KeptBalanced ==
    ASSUME NEW s, Balanced(s), NEW u, Kept(s, u)
    PROVE  Balanced(u)
BY DEF Balanced, Kept

\* Paying between accounts keeps both sides.
LEMMA BankKept ==
    ASSUME NEW s, IsStore(s), NEW b
    PROVE  Kept(s, [s EXCEPT !.bank = b])
BY DEF Kept, IsStore, IsRecord

\* A history with another credit.
LEMMA CreditChange ==
    ASSUME NEW h, IsHistory(h), NEW c
    PROVE  IsHistory([h EXCEPT !.credit = c]) /\ [h EXCEPT !.credit = c].credit = c
BY DEF IsHistory

\* Withdraw: what the fund advances is both prepaid bad debt and credit.
LEMMA WithdrawBalanced ==
    ASSUME NEW s, Balanced(s), NEW receiver, NEW amt
    PROVE  Balanced(Withdraw(s, receiver, amt))
<1> DEFINE u == Withdraw(s, receiver, amt)
           short == Shortage(s.bank, amt)
           h == [s.history EXCEPT !.credit = @ + short]
<1>1. CASE amt <= 0
  BY <1>1 DEF Withdraw
<1>2. CASE ~ (amt <= 0)
  <2>1. IsRecord(u) /\ u.prepaid = s.prepaid + short /\ u.history = h
    BY <1>2 DEF Withdraw, Balanced, IsStore, IsRecord
  <2>2. IsHistory(h) /\ h.credit = s.history.credit + short
    BY CreditChange DEF Balanced, IsStore
  <2> HIDE DEF u, h, short
  <2>3. Balanced(u)
    BY <2>1, <2>2 DEF Balanced, IsStore
  <2> QED BY <2>3 DEF u
<1> QED BY <1>1, <1>2

\* realizeBadDebt: what is used of the one is used of the other.
LEMMA RealizeBalanced ==
    ASSUME NEW s, Balanced(s), NEW debt
    PROVE  Balanced(RealizeBadDebt(s, debt))
<1> DEFINE u == RealizeBadDebt(s, debt)
           consumed == MinDec(s.prepaid, debt)
           h == [s.history EXCEPT !.credit = @ - consumed]
<1>1. IsRecord(u) /\ u.prepaid = s.prepaid - consumed /\ u.history = h
  BY DEF RealizeBadDebt, Balanced, IsStore, IsRecord
<1>2. IsHistory(h) /\ h.credit = s.history.credit - consumed
  BY CreditChange DEF Balanced, IsStore
<1> HIDE DEF u, h, consumed
<1>3. Balanced(u)
  BY <1>1, <1>2 DEF Balanced, IsStore
<1> QED BY <1>3 DEF u

\* The payment between the trader and the vault
LEMMA PayVaultBalanced ==
    ASSUME NEW s, Balanced(s), NEW t, NEW amt
    PROVE  Balanced(PayVault(s, t, amt))
<1>1. Balanced([s EXCEPT !.bank = Send(@, t, Vault, amt)])
  BY BankKept, KeptBalanced DEF Balanced
<1> QED BY <1>1, WithdrawBalanced DEF PayVault

\* The rewards of a liquidation
LEMMA DistributeBalanced ==
    ASSUME NEW s, Balanced(s), NEW l, NEW toFund, NEW toLiquidator
    PROVE  Balanced(DistributeLiquidateRewards(s, l, toFund, toLiquidator))
<1>1. Balanced([s EXCEPT !.bank = Send(@, Vault, PerpEF, toFund)])
  BY BankKept, KeptBalanced DEF Balanced
<1> QED BY <1>1, WithdrawBalanced DEF DistributeLiquidateRewards

\* The swaps of a response
LEMMA SwappedBalanced ==
    ASSUME NEW s, Balanced(s), NEW p, NEW t, NEW r
    PROVE  Balanced(Swapped(s, p, t, r))
<1>1. Kept(s, Swapped(s, p, t, r))
  BY DEF Kept, Swapped, Balanced, IsStore, IsRecord
<1> QED BY <1>1, KeptBalanced

\* A change of one position
LEMMA PositionBalanced ==
    ASSUME NEW s, Balanced(s), NEW p, NEW t, NEW pos
    PROVE  Balanced([s EXCEPT !.positions[p][t] = pos])
<1>1. Kept(s, [s EXCEPT !.positions[p][t] = pos])
  BY DEF Kept, Balanced, IsStore, IsRecord
<1> QED BY <1>1, KeptBalanced

\* afterPositionUpdate
LEMMA AfterPositionBalanced ==
    ASSUME NEW s, Balanced(s), NEW p, NEW t, NEW r
    PROVE  Balanced(AfterPositionUpdate(s, p, t, r))
<1> DEFINE paid == PayVault(Swapped(s, p, t, r), t, RoundInt(r.toVault))
           u == AfterPositionUpdate(s, p, t, r)
           d == IF r.pos.size = 0 /\ ~ r.deleted
                THEN paid.history.dropped[p] + r.size ELSE paid.history.dropped[p]
           h == [paid.history EXCEPT !.dropped[p] = d]
<1>1. Balanced(paid)
  BY SwappedBalanced, PayVaultBalanced
<1>2. u = [paid EXCEPT
            !.positions[p][t] = IF r.pos.size # 0 THEN r.pos ELSE @,
            !.bank = TransferFee(@, t, r.notional),
            !.history.dropped[p] =
                IF r.pos.size = 0 /\ ~ r.deleted THEN @ + r.size ELSE @]
  BY Zenon DEF AfterPositionUpdate
<1> HIDE DEF paid, u
<1>3. IsRecord(u) /\ u.prepaid = paid.prepaid /\ u.history = h
  BY <1>1, <1>2 DEF Balanced, IsStore, IsRecord
<1>4. IsHistory(h) /\ h.credit = paid.history.credit
  BY <1>1 DEF Balanced, IsStore, IsHistory
<1> HIDE DEF h
<1>5. Balanced(u)
  BY <1>1, <1>3, <1>4 DEF Balanced, IsStore
<1> QED BY <1>5 DEF u

-----------------------------------------------------------------------------
(* Liquidation. *)

\* executeFullLiquidation
LEMMA FullBalanced ==
    ASSUME NEW s, Balanced(s), NEW p, NEW t, NEW l, NEW r
    PROVE  Balanced(SettleFullLiquidation(s, p, t, l, r).store)
<1> DEFINE fee == QuoInt(Mul(ModuleParams.liquidationFee, r.notional), 2)
           remaining == Abs(r.toVault)
           badDebt == RoundInt(r.badDebt + MaxDec(0, fee - remaining))
           toFund == RoundInt(MaxDec(0, remaining - fee))
           realized == RealizeBadDebt(Swapped(s, p, t, r), badDebt)
           u == DistributeLiquidateRewards(realized, l, toFund, RoundInt(fee))
<1>1. \/ SettleFullLiquidation(s, p, t, l, r).store = s
      \/ SettleFullLiquidation(s, p, t, l, r).store = u
  BY DEF SettleFullLiquidation, Outcome
<1>2. Balanced(realized)
  <2> HIDE DEF badDebt
  <2> QED BY SwappedBalanced, RealizeBalanced
<1>3. Balanced(u)
  <2> HIDE DEF realized, toFund, fee
  <2> QED BY <1>2, DistributeBalanced
<1> HIDE DEF u
<1> QED BY <1>1, <1>3

\* Funding the trader is let off
LEMMA LetOffKeeps ==
    ASSUME NEW s, IsStore(s), NEW p, NEW debt
    PROVE  /\ Kept(s, LetOff(s, p, debt))
           /\ LetOff(s, p, debt).pools = s.pools
           /\ LetOff(s, p, debt).positions = s.positions
<1> DEFINE u == LetOff(s, p, debt)
           h == [s.history EXCEPT !.funding[p] = @ - debt]
<1>1. /\ IsRecord(u) /\ u.prepaid = s.prepaid /\ u.history = h
      /\ u.pools = s.pools /\ u.positions = s.positions
  BY DEF LetOff, IsStore, IsRecord
<1>2. IsHistory(h) /\ h.credit = s.history.credit
  BY DEF IsStore, IsHistory
<1> HIDE DEF u, h
<1>3. Kept(s, u) /\ u.pools = s.pools /\ u.positions = s.positions
  BY <1>1, <1>2 DEF Kept, IsStore
<1> QED BY <1>3 DEF u

\* executePartialLiquidation
LEMMA PartialBalanced ==
    ASSUME NEW s, Balanced(s), NEW p, NEW t, NEW l, NEW r
    PROVE  Balanced(SettlePartialLiquidation(s, p, t, l, r).store)
<1> DEFINE fee == Mul(r.notional, ModuleParams.liquidationFee)
           toLiquidator == RoundInt(QuoInt(fee, 2))
           toFund == RoundInt(fee - QuoInt(fee, 2))
           left == [r.pos EXCEPT !.margin = @ - fee]
           decreased == [Swapped(s, p, t, r) EXCEPT !.positions[p][t] = left]
           u == DistributeLiquidateRewards(decreased, l, toFund, toLiquidator)
<1>1. \/ SettlePartialLiquidation(s, p, t, l, r).store = s
      \/ SettlePartialLiquidation(s, p, t, l, r).store = LetOff(u, p, r.badDebt)
  BY DEF SettlePartialLiquidation, Outcome
<1>2. Balanced(decreased)
  <2> HIDE DEF left
  <2> QED BY SwappedBalanced, PositionBalanced
<1>3. Balanced(u)
  <2> HIDE DEF decreased, toFund, toLiquidator
  <2> QED BY <1>2, DistributeBalanced
<1> HIDE DEF u
<1>4. Balanced(LetOff(u, p, r.badDebt))
  BY <1>3, LetOffKeeps, KeptBalanced DEF Balanced
<1> QED BY <1>1, <1>4

\* Any request of a MsgMultiLiquidate
LEMMA LiquidateBalanced ==
    ASSUME NEW s, Balanced(s), NEW p, NEW t, NEW l
    PROVE  Balanced(Liquidate(s, p, t, l).store)
<1>1. \/ Liquidate(s, p, t, l).store = s
      \/ Liquidate(s, p, t, l) = ExecutePartialLiquidation(s, p, t, l)
      \/ Liquidate(s, p, t, l) = ExecuteFullLiquidation(s, p, t, l)
  BY DEF Liquidate, Outcome
<1>2. Balanced(ExecutePartialLiquidation(s, p, t, l).store)
  BY PartialBalanced DEF ExecutePartialLiquidation, Outcome
<1>3. Balanced(ExecuteFullLiquidation(s, p, t, l).store)
  BY FullBalanced DEF ExecuteFullLiquidation
<1> QED BY <1>1, <1>2, <1>3

\* The recursion of Outcomes.
IsOutcomes(g, s, reqs, l, n) ==
    g = [i \in 0..n |->
            IF i = 0 THEN Outcome("none", s)
            ELSE Liquidate(g[i - 1].store, reqs[i].pair, reqs[i].trader, l)]

\* It is well founded.
LEMMA OutcomesExist ==
    ASSUME NEW s, NEW reqs, NEW l, NEW n \in Nat
    PROVE  \E g : IsOutcomes(g, s, reqs, l, n)
<1> DEFINE Bad == {m \in Nat : ~ \E g : IsOutcomes(g, s, reqs, l, m)}
<1> SUFFICES ASSUME Bad # {} PROVE FALSE
  OBVIOUS
<1>1. PICK m \in Bad : \A k \in Bad : m <= k
  <2>1. Bad \subseteq Nat
    OBVIOUS
  <2> HIDE DEF Bad
  <2> QED BY <2>1, LeastNatural
<1>2. m # 0
  <2> DEFINE h == [i \in 0..0 |-> Outcome("none", s)]
  <2>1. IsOutcomes(h, s, reqs, l, 0)
    BY DEF IsOutcomes
  <2> QED BY <2>1
<1>3. m - 1 \in Nat /\ m - 1 \notin Bad
  BY <1>1, <1>2
<1>4. PICK g : IsOutcomes(g, s, reqs, l, m - 1)
  BY <1>3
<1> DEFINE h == [i \in 0..m |->
                    IF i < m THEN g[i]
                    ELSE Liquidate(g[m - 1].store, reqs[m].pair, reqs[m].trader, l)]
<1>5. IsOutcomes(h, s, reqs, l, m)
  <2>1. ASSUME NEW i \in 0..m
        PROVE  h[i] = IF i = 0 THEN Outcome("none", s)
                      ELSE Liquidate(h[i - 1].store, reqs[i].pair, reqs[i].trader, l)
    <3>1. CASE i < m
      BY <1>3, <1>4, <3>1 DEF IsOutcomes
    <3>2. CASE i = m
      BY <1>2, <1>3, <3>2
    <3> QED BY <3>1, <3>2
  <2> QED BY <2>1 DEF IsOutcomes
<1> QED BY <1>5

\* MultiLiquidate: the invariant holds after every request.
LEMMA OutcomesBalanced ==
    ASSUME NEW s, Balanced(s), NEW l, NEW n \in Nat, NEW reqs, Len(reqs) = n
    PROVE  Balanced(Outcomes(s, reqs, l)[n].store)
<1> DEFINE g == CHOOSE after : IsOutcomes(after, s, reqs, l, n)
<1>1. IsOutcomes(g, s, reqs, l, n)
  BY OutcomesExist, Zenon
<1>2. Outcomes(s, reqs, l) = g
  BY Zenon DEF Outcomes, IsOutcomes
<1> HIDE DEF g
<1> DEFINE Bad == {i \in 0..n : ~ Balanced(g[i].store)}
<1>3. ASSUME Bad # {} PROVE FALSE
  <2>1. PICK m \in Bad : \A k \in Bad : m <= k
    <3>1. Bad \subseteq Nat
      OBVIOUS
    <3> HIDE DEF Bad
    <3> QED BY <1>3, <3>1, LeastNatural
  <2>2. m # 0
    BY <1>1 DEF IsOutcomes, Outcome
  <2>3. Balanced(g[m - 1].store)
    BY <2>1, <2>2
  <2>4. g[m] = Liquidate(g[m - 1].store, reqs[m].pair, reqs[m].trader, l)
    BY <1>1, <2>2 DEF IsOutcomes
  <2> QED BY <2>3, <2>4, LiquidateBalanced
<1> QED BY <1>2, <1>3

-----------------------------------------------------------------------------
(* The specification: the prepaid bad debt. *)

\* The inductive invariant.
BInv == Balanced(Store)

\* What BInv says of the variables, and what it takes of the primed ones.
LEMMA BInvFacts ==
    ASSUME BInv
    PROVE  Balanced(Store) /\ prepaid = history.credit /\ IsHistory(history)
BY DEF BInv, Balanced, IsStore, Store

\* A store that is balanced after a step satisfies the invariant.
LEMMA PrimeBalanced ==
    ASSUME prepaid' = history'.credit, IsHistory(history')
    PROVE  BInv'
BY DEF BInv, Balanced, IsStore, IsRecord, Store, IsHistory

\* A handler's store, committed.
LEMMA CommitBalanced ==
    ASSUME NEW s, Balanced(s), Commit(s)
    PROVE  BInv'
BY PrimeBalanced DEF Commit, Balanced, IsStore

\* A step that changes neither side, whatever else of the history it rewrites.
LEMMA HistoryBalanced ==
    ASSUME BInv, prepaid' = prepaid, IsHistory(history'), history'.credit = history.credit
    PROVE  BInv'
BY BInvFacts, PrimeBalanced

\* RemoveMargin withdraws, which keeps the store balanced, and rewrites one position.
LEMMA RemoveMarginBalanced ==
    ASSUME BInv, NEW t, NEW p, NEW amt, RemoveMargin(t, p, amt)
    PROVE  BInv'
<1>1. PICK pos : Commit([Withdraw(Store, t, amt) EXCEPT !.positions[p][t] = pos])
  BY DEF RemoveMargin
<1>2. Balanced([Withdraw(Store, t, amt) EXCEPT !.positions[p][t] = pos])
  BY BInvFacts, WithdrawBalanced, PositionBalanced
<1> QED BY <1>1, <1>2, CommitBalanced

\* AddMargin and the handlers of pools, which write some of the store.
LEMMA CommitKept ==
    ASSUME BInv, NEW s, Kept(Store, s), Commit(s)
    PROVE  BInv'
BY BInvFacts, KeptBalanced, CommitBalanced

\* AddMargin, of coins of any denom
LEMMA AddCoinsBalanced ==
    ASSUME BInv, NEW t, NEW p, NEW amt, NEW quote, AddCoins(t, p, amt, quote)
    PROVE  BInv'
<1>1. PICK m, c : Commit([Store EXCEPT !.bank = Send(@, t, Vault, quote),
                                       !.positions[p][t].margin = m,
                                       !.positions[p][t].cpf = c])
  BY DEF AddCoins
<1>2. Kept(Store, [Store EXCEPT !.bank = Send(@, t, Vault, quote),
                                !.positions[p][t].margin = m,
                                !.positions[p][t].cpf = c])
  BY BInvFacts DEF Kept, Balanced, IsStore, IsRecord
<1> QED BY <1>1, <1>2, CommitKept

\* A change of the messages that trade, validated or not
LEMMA TradeBalanced ==
    ASSUME BInv, NEW t, NEW p, Trade(t, p) \/ UnvalidatedTrade(t, p)
    PROVE  BInv'
<1>1. ASSUME NEW r, UpdatePosition(p, t, r) PROVE BInv'
  BY <1>1, BInvFacts, AfterPositionBalanced, CommitBalanced DEF UpdatePosition
<1>2. ASSUME NEW dir, NEW quote, NEW lev, NEW limit, OpenPosition(t, p, dir, quote, lev, limit)
      PROVE  BInv'
  BY <1>1, <1>2 DEF OpenPosition
<1>3. CASE ClosePosition(t, p)
  BY <1>1, <1>3 DEF ClosePosition
<1> QED BY <1>2, <1>3, AddCoinsBalanced, RemoveMarginBalanced
        DEF Trade, UnvalidatedTrade, AddMargin

\* MsgMultiLiquidate
LEMMA MultiLiquidateBalanced ==
    ASSUME BInv, NEW l, NEW reqs \in Requests, MultiLiquidate(l, reqs)
    PROVE  BInv'
<1>1. PICK n \in 1..MaxRequests : reqs \in [1..n -> [pair : Pairs, trader : Traders]]
  BY DEF Requests
<1>2. n \in Nat /\ Len(reqs) = n
  BY <1>1
<1>3. Balanced(Outcomes(Store, reqs, l)[n].store)
  BY <1>2, BInvFacts, OutcomesBalanced
<1>4. Commit(Outcomes(Store, reqs, l)[n].store)
  BY <1>2 DEF MultiLiquidate, CommitOutcomes
<1> QED BY <1>3, <1>4, CommitBalanced

\* The contracts' changes of a pool
LEMMA PoolBalanced ==
    ASSUME BInv, NEW p,
           \/ \E peg : EditPoolPegMultiplier(p, peg)
           \/ \E multiplier : EditPoolSwapInvariant(p, multiplier)
           \/ \E multiplier : ProposalEditSwapInvariants(p, multiplier)
    PROVE  BInv'
<1>1. ASSUME NEW peg, EditPoolPegMultiplier(p, peg) PROVE BInv'
  <2>1. PICK b : Commit([Store EXCEPT !.bank = b, !.pools[p].peg = peg])
    BY <1>1 DEF EditPoolPegMultiplier
  <2>2. Kept(Store, [Store EXCEPT !.bank = b, !.pools[p].peg = peg])
    BY BInvFacts DEF Kept, Balanced, IsStore, IsRecord
  <2> QED BY <2>1, <2>2, CommitKept
<1>2. prepaid' = prepaid /\ history' = [history EXCEPT !.priced[p] = FALSE] => BInv'
  BY BInvFacts, HistoryBalanced DEF IsHistory
<1>3. ASSUME NEW k, EditPoolSwapInvariant(p, k) PROVE BInv'
  BY <1>2, <1>3 DEF EditPoolSwapInvariant, Commit, Store
<1>4. ASSUME NEW k, ProposalEditSwapInvariants(p, k) PROVE BInv'
  BY <1>2, <1>4 DEF ProposalEditSwapInvariants, Commit, Store
<1> QED BY <1>1, <1>3, <1>4

\* Proposals, epochs, blocks, prices and restarts
LEMMA OtherBalanced ==
    ASSUME BInv,
           \/ \E p, reserve, config : ProposalCreatePool(p, reserve, config)
           \/ \E p, config : ProposalEditPoolConfig(p, config)
           \/ \E p, price : SetExchangeRate(p, price)
           \/ \E twap : AfterEpochEnd(twap)
           \/ EndBlocker
           \/ Restart
    PROVE  BInv'
<1>1. \A p : IsHistory([history EXCEPT !.totals[p] = FALSE, !.priced[p] = FALSE])
             /\ [history EXCEPT !.totals[p] = FALSE, !.priced[p] = FALSE].credit = history.credit
  BY BInvFacts DEF IsHistory
<1>2. \A p : IsHistory([history EXCEPT !.totals[p] = FALSE])
             /\ [history EXCEPT !.totals[p] = FALSE].credit = history.credit
  BY BInvFacts DEF IsHistory
<1>3. \A f : /\ IsHistory([history EXCEPT !.funding = f])
             /\ [history EXCEPT !.funding = f].credit = history.credit
             /\ IsHistory([history EXCEPT !.totals = f])
             /\ [history EXCEPT !.totals = f].credit = history.credit
  BY BInvFacts DEF IsHistory
<1>4. ASSUME NEW p, NEW reserve, NEW config, ProposalCreatePool(p, reserve, config)
      PROVE  BInv'
  BY <1>1, <1>4, HistoryBalanced DEF ProposalCreatePool
<1>5. ASSUME NEW p, NEW config, ProposalEditPoolConfig(p, config) PROVE BInv'
  BY <1>2, <1>5, HistoryBalanced DEF ProposalEditPoolConfig
<1>6. ASSUME NEW p, NEW price, SetExchangeRate(p, price) PROVE BInv'
  BY <1>6, BInvFacts, HistoryBalanced DEF SetExchangeRate
<1>7. ASSUME NEW twap, AfterEpochEnd(twap) PROVE BInv'
  BY <1>3, <1>7, HistoryBalanced DEF AfterEpochEnd
<1>8. CASE EndBlocker
  BY <1>8, BInvFacts, HistoryBalanced DEF EndBlocker
<1>9. CASE Restart
  BY <1>3, <1>9, HistoryBalanced DEF Restart
<1> QED BY <1>4, <1>5, <1>6, <1>7, <1>8, <1>9

\* Every step keeps the balance.
LEMMA NextBalanced == BInv /\ [Next]_vars => BInv'
<1> SUFFICES ASSUME BInv, [Next]_vars PROVE BInv'
  OBVIOUS
<1>1. ASSUME NEW t, NEW amt, DonateToEcosystemFund(t, amt) PROVE BInv'
  BY <1>1, BInvFacts, BankKept, CommitKept DEF DonateToEcosystemFund, Balanced
<1>2. CASE PerpNext
  BY <1>1, <1>2, TradeBalanced, MultiLiquidateBalanced, PoolBalanced, OtherBalanced
  DEF PerpNext
<1>3. ASSUME NEW contract, DispatchMsg(contract) PROVE BInv'
  BY <1>3, PoolBalanced DEF DispatchMsg
<1>4. ASSUME NEW sender, NEW contracts, MsgEditSudoers(sender, contracts) PROVE BInv'
  BY <1>4, BInvFacts, HistoryBalanced DEF MsgEditSudoers
<1>5. CASE UNCHANGED vars
  BY <1>5, BInvFacts, HistoryBalanced DEF vars, perpVars
<1> QED BY <1>2, <1>3, <1>4, <1>5, TradeBalanced DEF Next

\* The prepaid bad debt of the module is what the fund has advanced to the vault
\* and no realised bad debt has used, in every reachable state: after any mix of
\* withdrawals, liquidations of several requests, proposals and restarts.
THEOREM PrepaidAlwaysCredit == Spec => []PrepaidIsCredit
<1>1. Init => BInv
  <2> SUFFICES ASSUME Init PROVE BInv
    OBVIOUS
  <2>1. prepaid = 0 /\ history.credit = 0 /\ IsHistory(history)
    BY DEF Init, PerpInit, IsHistory
  <2> QED BY <2>1 DEF BInv, Balanced, IsStore, IsRecord, Store
<1>2. BInv => PrepaidIsCredit
  BY BInvFacts DEF PrepaidIsCredit
<1> QED BY <1>1, <1>2, NextBalanced, PTL DEF Spec

-----------------------------------------------------------------------------
(* The specification: the registry. *)

\* The registry is what root granted, and no contract moved a pool without it.
GInv == movers = {} /\ sudoers = [root |-> Root, contracts |-> granted]

\* A permissioned message needs a registered contract.
LEMMA DispatchGranted ==
    ASSUME GInv, NEW contract, DispatchMsg(contract)
    PROVE  GInv'
BY DEF GInv, DispatchMsg, CheckPermissions, sudoVars

\* An edit that passes the permission check was sent by root.
LEMMA EditGranted ==
    ASSUME GInv, NEW sender, NEW contracts, MsgEditSudoers(sender, contracts)
    PROVE  GInv'
<1>1. movers' = {} /\ EditSudoers(sender, contracts)
  BY DEF MsgEditSudoers, GInv
<1>2. sender = Root
  BY <1>1 DEF EditSudoers, AddContracts, RemoveContracts, SenderHasPermission, GInv
<1>3. CASE AddContracts(sender, contracts)
  BY <1>1, <1>2, <1>3 DEF AddContracts, GInv
<1>4. CASE RemoveContracts(sender, contracts)
  BY <1>1, <1>2, <1>4 DEF RemoveContracts, GInv
<1> QED BY <1>1, <1>3, <1>4 DEF EditSudoers

\* A pool is moved by a peg or depth shift only when the contract that asks for it
\* is one root has added and not removed since, whoever else edits the registry.
THEOREM OnlyGrantedContractsEverMovePools == Spec => []OnlyGrantedContractsMovePools
<1>1. Init => GInv
  BY DEF Init, SudoInit, GInv
<1>2. GInv /\ [Next]_vars => GInv'
  <2> SUFFICES ASSUME GInv, [Next]_vars PROVE GInv'
    OBVIOUS
  <2>1. UNCHANGED <<sudoVars, movers>> => GInv'
    BY DEF GInv, sudoVars
  <2> QED BY <2>1, DispatchGranted, EditGranted DEF Next, UnvalidatedTrade, vars
<1>3. GInv => OnlyGrantedContractsMovePools
  BY DEF GInv, OnlyGrantedContractsMovePools
<1> QED BY <1>1, <1>2, <1>3, PTL DEF Spec

-----------------------------------------------------------------------------
(* Pools and positions hold integers. *)

\* The pools whose numbers are integers and whose peg is positive.
Pool == {q \in PoolType : q.peg > 0}

\* The distance of two integers.
LEMMA AbsNat ==
    ASSUME NEW x \in Int
    PROVE  Abs(x) \in Nat
BY DEF Abs

\* GetQuoteReserveByBase, when it returns no error
LEMMA QuoteReserveNat ==
    ASSUME NEW pool \in Pool, NEW b \in Int, CanGetQuoteByBase(pool, b)
    PROVE  GetQuoteReserveByBase(pool, b) \in Nat
<1>1. pool.quote \in Int /\ pool.base \in Int
  BY DEF Pool, PoolType
<1>2. CASE b # 0
  <2>1. pool.base + b \in Int \ {0}
    BY <1>1, <1>2 DEF CanGetQuoteByBase
  <2>2. Mul(pool.quote, pool.base) \in Int
    BY <1>1, MulType
  <2>3. Quo(Mul(pool.quote, pool.base), pool.base + b) - pool.quote \in Int
    BY <1>1, <2>1, <2>2, QuoType
  <2> QED BY <1>2, <2>3, AbsNat DEF GetQuoteReserveByBase
<1> QED BY <1>2 DEF GetQuoteReserveByBase

\* and what the base assets are worth.
LEMMA BasePriceNat ==
    ASSUME NEW pool \in Pool, NEW b \in Int, CanGetQuoteByBase(pool, b)
    PROVE  GetBaseAssetPrice(pool, b) \in Nat
<1>1. pool.peg \in Nat
  BY DEF Pool, PoolType
<1> QED BY <1>1, QuoteReserveNat, MulBounds DEF GetBaseAssetPrice, FromQuoteReserveToAsset

\* The quote reserves of a trade
LEMMA QuoteDeltaInt ==
    ASSUME NEW pool \in Pool, NEW dir, NEW quote \in Int
    PROVE  QuoteDelta(pool, dir, quote) \in Int /\ (quote = 0 => QuoteDelta(pool, dir, quote) = 0)
<1> DEFINE q == Quo(quote, pool.peg)
<1>1. pool.peg \in Nat \ {0}
  BY DEF Pool, PoolType
<1>2. q \in Int
  BY <1>1, QuoType
<1>3. quote = 0 => q = 0
  <2> SUFFICES ASSUME quote = 0 PROVE q = 0
    OBVIOUS
  <2>1. q \in Nat /\ 2 * (pool.peg * q) <= 2 * (0 * Scale) + pool.peg
    BY <1>1, QuoBounds
  <2>2. ASSUME q >= 1 PROVE pool.peg * q >= pool.peg
    BY <1>1, <2>1, <2>2
  <2>3. pool.peg * q \in Int /\ 0 * Scale = 0
    BY <1>1, <2>1, Products, ScaleAssumption
  <2> QED BY <1>1, <2>1, <2>2, <2>3
<1> HIDE DEF q
<1>4. Abs(q) * ToMultiplier(dir) \in Int /\ (q = 0 => Abs(q) * ToMultiplier(dir) = 0)
  BY <1>2 DEF Abs, ToMultiplier
<1> QED BY <1>3, <1>4 DEF QuoteDelta, FromQuoteAssetToReserve, q

\* and the base assets it exchanges.
LEMMA SwappedBaseInt ==
    ASSUME NEW pool \in Pool, NEW dir, NEW quote \in Int,
           quote # 0 => CanGetBaseByQuote(pool, QuoteDelta(pool, dir, quote))
    PROVE  SwappedBase(pool, dir, quote) \in Int
<1> DEFINE d == QuoteDelta(pool, dir, quote)
<1>1. pool.quote \in Int /\ pool.base \in Int
  BY DEF Pool, PoolType
<1>2. d \in Int /\ (quote = 0 => d = 0)
  BY QuoteDeltaInt
<1> HIDE DEF d
<1>3. CASE d # 0
  <2>1. pool.quote + d \in Int \ {0}
    BY <1>1, <1>2, <1>3 DEF CanGetBaseByQuote, d
  <2>2. Mul(pool.quote, pool.base) \in Int
    BY <1>1, MulType
  <2>3. Quo(Mul(pool.quote, pool.base), pool.quote + d) - pool.base \in Int
    BY <1>1, <2>1, <2>2, QuoType
  <2>4. GetBaseAmountByQuoteAmount(pool, d) \in Nat
    BY <1>3, <2>3, AbsNat DEF GetBaseAmountByQuoteAmount
  <2> QED BY <2>4 DEF SwappedBase, d
<1>4. CASE d = 0
  <2>1. GetBaseAmountByQuoteAmount(pool, d) = 0
    BY <1>4 DEF GetBaseAmountByQuoteAmount
  <2> QED BY <2>1 DEF SwappedBase, d
<1> QED BY <1>3, <1>4

\* A trade moves the reserves and the totals and not the peg.
LEMMA ReservesPool ==
    ASSUME NEW pool \in Pool, NEW q \in Int, NEW b \in Int
    PROVE  AddToReserves(pool, q, b) \in Pool
<1>1. pool.quote \in Int /\ pool.base \in Int /\ pool.totalLong \in Int /\ pool.totalShort \in Int
  BY DEF Pool, PoolType
<1>2. MaxDec(0, -b) \in Int /\ MaxDec(0, b) \in Int
  BY DEF MaxDec
<1>3. ASSUME NEW x \in Int, NEW y \in Int, NEW l \in Int, NEW s \in Int
      PROVE  [pool EXCEPT !.quote = x, !.base = y, !.totalLong = l, !.totalShort = s] \in Pool
  BY DEF Pool, PoolType
<1>4. /\ pool.quote + q \in Int /\ pool.base + b \in Int
      /\ pool.totalLong + MaxDec(0, -b) \in Int /\ pool.totalShort + MaxDec(0, b) \in Int
  BY <1>1, <1>2
<1> QED BY <1>3, <1>4, Zenon DEF AddToReserves

\* SwapQuoteForBase and SwapBaseForQuote keep a pool a pool.
LEMMA SwapQuotePool ==
    ASSUME NEW pool \in Pool, NEW dir, NEW quote \in Int,
           quote # 0 => CanGetBaseByQuote(pool, QuoteDelta(pool, dir, quote))
    PROVE  /\ SwapQuoteForBase(pool, dir, quote) \in Pool
           /\ SwappedBase(pool, dir, quote) * ToMultiplier(dir) \in Int
<1>1. SwappedBase(pool, dir, quote) * ToMultiplier(dir) \in Int
  BY SwappedBaseInt DEF ToMultiplier
<1>2. -(SwappedBase(pool, dir, quote) * ToMultiplier(dir)) \in Int
  BY <1>1
<1> QED BY <1>1, <1>2, QuoteDeltaInt, ReservesPool DEF SwapQuoteForBase

\* So does a swap of base assets.
LEMMA SwapBasePool ==
    ASSUME NEW pool \in Pool, NEW b \in Int, CanGetQuoteByBase(pool, b)
    PROVE  SwapBaseForQuote(pool, b) \in Pool
<1>1. (IF b > 0 THEN -1 ELSE 1) * GetQuoteReserveByBase(pool, b) \in Int
  BY QuoteReserveNat
<1> QED BY <1>1, ReservesPool DEF SwapBaseForQuote

-----------------------------------------------------------------------------
(* The responses of a change to a position. *)

\* A response whose pool, position and notional have their types.
IsResponse(r) ==
    /\ {"pool", "pos", "notional"} \subseteq DOMAIN r
    /\ r.pool \in Pool /\ r.pos \in PositionType /\ r.notional \in Int

\* What the cumulative premium fractions are, in the states of the specification.
Fractions == cpf \in [Pairs -> Int]

\* The zero position
LEMMA ZeroIsPosition == ZeroPosition \in PositionType
BY DEF ZeroPosition, PositionType

\* The margin left after a change of delta
LEMMA RemainingInt ==
    ASSUME Fractions, NEW p \in Pairs, NEW pos \in PositionType, NEW delta \in Int
    PROVE  RemainingMargin(p, pos, delta) \in Int
<1>1. pos.margin \in Int /\ pos.size \in Int /\ cpf[p] - pos.cpf \in Int
  BY DEF Fractions, PositionType
<1>2. Mul(cpf[p] - pos.cpf, pos.size) \in Int
  BY <1>1, MulType
<1> QED BY <1>1, <1>2 DEF RemainingMargin, FundingPayment

\* A position made of integers
LEMMA MakePosition ==
    ASSUME Fractions, NEW p \in Pairs, NEW size \in Int, NEW margin \in Int, NEW open \in Int
    PROVE  [stored |-> TRUE, size |-> size, margin |-> MaxDec(0, margin),
            openNotional |-> open, cpf |-> cpf[p]] \in PositionType
BY DEF Fractions, PositionType, MaxDec

\* increasePosition
LEMMA IncreaseResponse ==
    ASSUME Fractions, NEW p \in Pairs, NEW pool \in Pool, NEW pos \in PositionType, NEW dir,
           NEW notional \in Int, NEW limit, NEW lev \in Int \ {0},
           IncreasePosition(p, pool, pos, dir, notional, limit, lev).ok
    PROVE  IsResponse(IncreasePosition(p, pool, pos, dir, notional, limit, lev))
<1> DEFINE r == IncreasePosition(p, pool, pos, dir, notional, limit, lev)
           after == SwapQuoteForBase(pool, dir, notional)
           size == SwappedBase(pool, dir, notional) * ToMultiplier(dir)
           margin == RemainingMargin(p, pos, Quo(notional, lev))
           q == [stored |-> TRUE, size |-> pos.size + size, margin |-> MaxDec(0, margin),
                 openNotional |-> pos.openNotional + notional, cpf |-> cpf[p]]
<1>1. /\ CanSwapQuoteForBase(p, pool, dir, notional, limit, FALSE)
      /\ r = [ok |-> TRUE, pool |-> after, pos |-> q, deleted |-> FALSE,
              notional |-> notional, size |-> size, badDebt |-> MaxDec(0, -margin),
              toVault |-> Quo(notional, lev)]
  BY DEF IncreasePosition, Failed
<1>2. after \in Pool /\ size \in Int
  BY <1>1, SwapQuotePool DEF CanSwapQuoteForBase
<1>3. margin \in Int
  BY QuoType, RemainingInt
<1> HIDE DEF after, size, margin
<1>4. q \in PositionType
  <2>1. pos.size + size \in Int /\ pos.openNotional + notional \in Int
    BY <1>2 DEF PositionType
  <2> QED BY <1>3, <2>1, MakePosition
<1> HIDE DEF q, r
<1>5. IsResponse(r)
  BY <1>1, <1>2, <1>4 DEF IsResponse
<1> QED BY <1>5 DEF r

\* decreasePosition
LEMMA DecreaseResponse ==
    ASSUME Fractions, NEW p \in Pairs, NEW pool \in Pool, NEW pos \in PositionType,
           NEW notional \in Int, NEW limit, NEW skip,
           DecreasePosition(p, pool, pos, notional, limit, skip).ok
    PROVE  IsResponse(DecreasePosition(p, pool, pos, notional, limit, skip))
<1> DEFINE r == DecreasePosition(p, pool, pos, notional, limit, skip)
           dir == ExitDir(pos)
           swapped == SwappedBase(pool, dir, notional) * ToMultiplier(dir)
           size == IF notional = 0 THEN 0 ELSE swapped
           current == NotionalSpot(pool, pos)
           pnl == UnrealizedPnl(pos, current)
           realized == Mul(pnl, Quo(Abs(size), Abs(pos.size)))
           margin == RemainingMargin(p, pos, realized)
           open == IF pos.size > 0 THEN (current - notional) - (pnl - realized)
                   ELSE (current - notional) + (pnl - realized)
           after == SwapQuoteForBase(pool, dir, notional)
           q == [stored |-> TRUE, size |-> pos.size + size, margin |-> MaxDec(0, margin),
                 openNotional |-> open, cpf |-> cpf[p]]
<1>1. /\ pos.size # 0
      /\ CanNotionalSpot(pool, pos)
      /\ CanSwapQuoteForBase(p, pool, dir, notional, limit, skip)
      /\ r = [ok |-> TRUE, pool |-> after, pos |-> q, deleted |-> FALSE,
              notional |-> notional, size |-> size, badDebt |-> MaxDec(0, -margin),
              toVault |-> 0]
  BY DEF DecreasePosition, Failed
<1>2. after \in Pool /\ swapped \in Int
  BY <1>1, SwapQuotePool DEF CanSwapQuoteForBase
<1> HIDE DEF swapped, after
<1>3. size \in Int
  BY <1>2
<1> HIDE DEF size
<1>4. pos.size \in Int /\ pos.openNotional \in Int
  BY DEF PositionType
<1>5. current \in Int
  BY <1>1, <1>4, BasePriceNat DEF NotionalSpot, CanNotionalSpot
<1>6. pnl \in Int
  BY <1>4, <1>5 DEF UnrealizedPnl
<1> HIDE DEF current, pnl
<1>7. realized \in Int
  <2>1. Abs(size) \in Int /\ Abs(pos.size) \in Int \ {0}
    BY <1>1, <1>3, <1>4 DEF Abs
  <2> QED BY <1>6, <2>1, QuoType, MulType
<1> HIDE DEF realized
<1>8. margin \in Int
  BY <1>7, RemainingInt
<1>9. open \in Int
  BY <1>5, <1>6, <1>7
<1> HIDE DEF margin, open
<1>10. q \in PositionType
  <2>1. pos.size + size \in Int
    BY <1>3, <1>4
  <2> QED BY <1>8, <1>9, <2>1, MakePosition
<1> HIDE DEF q, r
<1>11. IsResponse(r)
  BY <1>1, <1>2, <1>10 DEF IsResponse
<1> QED BY <1>11 DEF r

\* closePositionEntirely
LEMMA CloseResponse ==
    ASSUME Fractions, NEW p \in Pairs, NEW pool \in Pool, NEW pos \in PositionType, NEW skip,
           ClosePositionEntirely(p, pool, pos, skip).ok
    PROVE  IsResponse(ClosePositionEntirely(p, pool, pos, skip))
<1> DEFINE r == ClosePositionEntirely(p, pool, pos, skip)
           margin == RemainingMargin(p, pos, UnrealizedPnl(pos, NotionalSpot(pool, pos)))
           after == SwapBaseForQuote(pool, pos.size)
           notional == GetBaseAssetPrice(pool, pos.size)
<1>1. /\ CanNotionalSpot(pool, pos)
      /\ r = [ok |-> TRUE, pool |-> after, pos |-> ZeroPosition, deleted |-> TRUE,
              notional |-> notional, size |-> -pos.size, badDebt |-> MaxDec(0, -margin),
              toVault |-> -MaxDec(0, margin)]
  BY DEF ClosePositionEntirely, Failed
<1>2. pos.size \in Int
  BY DEF PositionType
<1>3. after \in Pool /\ notional \in Int
  BY <1>1, <1>2, SwapBasePool, BasePriceNat DEF CanNotionalSpot
<1> HIDE DEF r, margin, after, notional
<1>4. IsResponse(r)
  BY <1>1, <1>3, ZeroIsPosition DEF IsResponse
<1> QED BY <1>4 DEF r

\* A close and the opening after it
LEMMA JoinedResponse ==
    ASSUME NEW close, IsResponse(close), NEW open, IsResponse(open), open.ok
    PROVE  IsResponse(JoinResponses(close, open))
<1> DEFINE n == open.notional + close.notional
<1>1. n \in Int
  BY DEF IsResponse
<1> HIDE DEF n
<1>2. PICK z, b, v : JoinResponses(close, open)
          = [open EXCEPT !.deleted = TRUE, !.notional = n, !.size = z, !.badDebt = b,
                         !.toVault = v]
  BY Zenon DEF JoinResponses, n
<1> QED BY <1>1, <1>2 DEF IsResponse

\* closeAndOpenReversePosition
LEMMA ReverseResponse ==
    ASSUME Fractions, NEW p \in Pairs, NEW close, IsResponse(close), NEW dir,
           NEW notional \in Int, NEW lev \in Int \ {0}, NEW limit,
           OpenAfterClose(p, close, dir, notional, lev, limit).ok
    PROVE  IsResponse(OpenAfterClose(p, close, dir, notional, lev, limit))
<1> DEFINE remaining == notional - close.notional
           newLimit == IF limit > 0 THEN limit - Abs(close.size) ELSE limit
           open == IncreasePosition(p, close.pool, ZeroPosition, dir, remaining, newLimit, lev)
           r == OpenAfterClose(p, close, dir, notional, lev, limit)
<1>1. r = close \/ r = JoinResponses(close, open)
  BY DEF OpenAfterClose, Failed
<1>2. remaining \in Int /\ close.pool \in Pool
  BY DEF IsResponse
<1> HIDE DEF remaining, newLimit
<1>3. CASE r = JoinResponses(close, open)
  <2>1. open.ok
    BY <1>3 DEF JoinResponses, Failed
  <2>2. IsResponse(open)
    BY <1>2, <2>1, ZeroIsPosition, IncreaseResponse
  <2> HIDE DEF open
  <2> QED BY <1>3, <2>1, <2>2, JoinedResponse
<1> QED BY <1>1, <1>3

\* OpenPosition, before afterPositionUpdate
LEMMA OpenResponseIs ==
    ASSUME Fractions, NEW p \in Pairs, NEW pool \in Pool, NEW pos \in PositionType, NEW dir,
           NEW quote \in Int, NEW lev \in Int \ {0}, NEW limit,
           OpenResponse(p, pool, pos, dir, quote, lev, limit).ok
    PROVE  IsResponse(OpenResponse(p, pool, pos, dir, quote, lev, limit))
<1> DEFINE r == OpenResponse(p, pool, pos, dir, quote, lev, limit)
           close == ClosePositionEntirely(p, pool, pos, FALSE)
<1>1. lev * quote \in Int
  BY Products
<1>2. CASE r = IncreasePosition(p, pool, pos, dir, lev * quote, limit, lev)
  BY <1>1, <1>2, IncreaseResponse
<1>3. CASE r = DecreasePosition(p, pool, pos, lev * quote, limit, FALSE)
  BY <1>1, <1>3, DecreaseResponse
<1>4. CASE r = OpenAfterClose(p, close, ExitDir(pos), lev * quote, lev, limit)
  <2>1. ASSUME ~ close.ok PROVE FALSE
    <3> HIDE DEF close
    <3>1. r = Failed
      BY <1>4, <2>1, Zenon DEF OpenAfterClose
    <3> QED BY <3>1 DEF Failed
  <2>2. IsResponse(close)
    BY <2>1, CloseResponse
  <2> HIDE DEF close
  <2> QED BY <1>1, <1>4, <2>2, ReverseResponse
<1>5. CASE r = Failed
  BY <1>5 DEF Failed
<1> QED BY <1>2, <1>3, <1>4, <1>5
        DEF OpenResponse, OpenReversePosition, CloseAndOpenReversePosition

-----------------------------------------------------------------------------
(* Stores whose pools and positions have their types. *)

Typed(s) ==
    /\ IsStore(s)
    /\ s.pools \in [Pairs -> Pool]
    /\ s.positions \in [Pairs -> [Traders -> PositionType]]

\* u has the pools and the positions of s.
SameBooks(s, u) == IsStore(u) /\ u.pools = s.pools /\ u.positions = s.positions

\* Payments leave the books alone:
LEMMA SameTyped ==
    ASSUME NEW s, Typed(s), NEW u, SameBooks(s, u)
    PROVE  Typed(u)
BY DEF Typed, SameBooks

\* a transfer,
LEMMA BankBooks ==
    ASSUME NEW s, IsStore(s), NEW b
    PROVE  SameBooks(s, [s EXCEPT !.bank = b])
BY DEF SameBooks, IsStore, IsRecord

\* Withdraw,
LEMMA WithdrawBooks ==
    ASSUME NEW s, IsStore(s), NEW receiver, NEW amt
    PROVE  SameBooks(s, Withdraw(s, receiver, amt))
<1> DEFINE u == Withdraw(s, receiver, amt)
           h == [s.history EXCEPT !.credit = @ + Shortage(s.bank, amt)]
<1>1. CASE amt <= 0
  BY <1>1 DEF Withdraw, SameBooks
<1>2. CASE ~ (amt <= 0)
  <2>1. IsRecord(u) /\ u.history = h /\ u.pools = s.pools /\ u.positions = s.positions
    BY <1>2 DEF Withdraw, IsStore, IsRecord
  <2>2. IsHistory(h)
    BY CreditChange DEF IsStore
  <2> HIDE DEF u, h
  <2>3. SameBooks(s, u)
    BY <2>1, <2>2 DEF SameBooks, IsStore
  <2> QED BY <2>3 DEF u
<1> QED BY <1>1, <1>2

\* realizeBadDebt,
LEMMA RealizeBooks ==
    ASSUME NEW s, IsStore(s), NEW debt
    PROVE  SameBooks(s, RealizeBadDebt(s, debt))
<1> DEFINE u == RealizeBadDebt(s, debt)
           h == [s.history EXCEPT !.credit = @ - MinDec(s.prepaid, debt)]
<1>1. IsRecord(u) /\ u.history = h /\ u.pools = s.pools /\ u.positions = s.positions
  BY DEF RealizeBadDebt, IsStore, IsRecord
<1>2. IsHistory(h)
  BY CreditChange DEF IsStore
<1> HIDE DEF u, h
<1>3. SameBooks(s, u)
  BY <1>1, <1>2 DEF SameBooks, IsStore
<1> QED BY <1>3 DEF u

\* the payment between the trader and the vault,
LEMMA PayVaultTyped ==
    ASSUME NEW s, Typed(s), NEW t, NEW amt
    PROVE  Typed(PayVault(s, t, amt))
<1>1. Typed([s EXCEPT !.bank = Send(@, t, Vault, amt)])
  BY BankBooks, SameTyped DEF Typed
<1>2. Typed(Withdraw(s, t, -amt))
  BY WithdrawBooks, SameTyped DEF Typed
<1> QED BY <1>1, <1>2 DEF PayVault

\* and the rewards of a liquidation.
LEMMA DistributeTyped ==
    ASSUME NEW s, Typed(s), NEW l, NEW toFund, NEW toLiquidator
    PROVE  Typed(DistributeLiquidateRewards(s, l, toFund, toLiquidator))
<1> DEFINE u == [s EXCEPT !.bank = Send(@, Vault, PerpEF, toFund)]
<1>1. Typed(u)
  BY BankBooks, SameTyped DEF Typed
<1> HIDE DEF u
<1>2. Typed(Withdraw(u, l, toLiquidator))
  BY <1>1, WithdrawBooks, SameTyped DEF Typed
<1> QED BY <1>2 DEF DistributeLiquidateRewards, u

\* Writing one position
LEMMA PositionTyped ==
    ASSUME NEW s, Typed(s), NEW p \in Pairs, NEW t \in Traders, NEW pos \in PositionType
    PROVE  Typed([s EXCEPT !.positions[p][t] = pos])
<1> DEFINE u == [s EXCEPT !.positions[p][t] = pos]
           b == [s.positions EXCEPT ![p][t] = pos]
<1>1. IsRecord(u) /\ u.history = s.history /\ u.pools = s.pools /\ u.positions = b
  BY DEF Typed, IsStore, IsRecord
<1>2. b \in [Pairs -> [Traders -> PositionType]]
  BY DEF Typed
<1> HIDE DEF u, b
<1>3. Typed(u)
  BY <1>1, <1>2 DEF Typed, IsStore
<1> QED BY <1>3 DEF u

\* The swaps of a response
LEMMA SwappedTyped ==
    ASSUME NEW s, Typed(s), NEW p \in Pairs, NEW t \in Traders, NEW r, IsResponse(r)
    PROVE  Typed(Swapped(s, p, t, r))
<1> DEFINE u == Swapped(s, p, t, r)
           q == IF r.deleted THEN ZeroPosition ELSE s.positions[p][t]
           b == [s.positions EXCEPT ![p][t] = q]
           m == [s.pools EXCEPT ![p] = r.pool]
<1>1. IsRecord(u) /\ u.history = s.history /\ u.pools = m /\ u.positions = b
  BY DEF Swapped, Typed, IsStore, IsRecord
<1>2. q \in PositionType
  BY ZeroIsPosition DEF Typed
<1> HIDE DEF q
<1>3. b \in [Pairs -> [Traders -> PositionType]] /\ m \in [Pairs -> Pool]
  BY <1>2 DEF Typed, IsResponse
<1> HIDE DEF u, b, m
<1>4. Typed(u)
  BY <1>1, <1>3 DEF Typed, IsStore
<1> QED BY <1>4 DEF u

\* afterPositionUpdate
LEMMA AfterPositionTyped ==
    ASSUME NEW s, Typed(s), NEW p \in Pairs, NEW t \in Traders, NEW r, IsResponse(r)
    PROVE  Typed(AfterPositionUpdate(s, p, t, r))
<1> DEFINE paid == PayVault(Swapped(s, p, t, r), t, RoundInt(r.toVault))
           u == AfterPositionUpdate(s, p, t, r)
           q == IF r.pos.size # 0 THEN r.pos ELSE paid.positions[p][t]
           d == IF r.pos.size = 0 /\ ~ r.deleted
                THEN paid.history.dropped[p] + r.size ELSE paid.history.dropped[p]
           b == [paid.positions EXCEPT ![p][t] = q]
           h == [paid.history EXCEPT !.dropped[p] = d]
<1>1. Typed(paid)
  BY SwappedTyped, PayVaultTyped
<1>2. u = [paid EXCEPT
            !.positions[p][t] = IF r.pos.size # 0 THEN r.pos ELSE @,
            !.bank = TransferFee(@, t, r.notional),
            !.history.dropped[p] =
                IF r.pos.size = 0 /\ ~ r.deleted THEN @ + r.size ELSE @]
  BY Zenon DEF AfterPositionUpdate
<1> HIDE DEF paid, u
<1>3. IsRecord(u) /\ u.pools = paid.pools /\ u.history = h /\ u.positions = b
  BY <1>1, <1>2 DEF Typed, IsStore, IsRecord
<1>4. IsHistory(h)
  BY <1>1 DEF Typed, IsStore, IsHistory
<1>5. q \in PositionType
  BY <1>1 DEF Typed, IsResponse
<1> HIDE DEF h, q
<1>6. b \in [Pairs -> [Traders -> PositionType]]
  BY <1>1, <1>5 DEF Typed
<1> HIDE DEF b
<1>7. Typed(u)
  BY <1>1, <1>3, <1>4, <1>6 DEF Typed, IsStore
<1> QED BY <1>7 DEF u

\* executeFullLiquidation
LEMMA FullTyped ==
    ASSUME NEW s, Typed(s), NEW p \in Pairs, NEW t \in Traders, NEW l, NEW r,
           IsResponse(r) \/ ~ r.ok
    PROVE  Typed(SettleFullLiquidation(s, p, t, l, r).store)
<1> DEFINE fee == QuoInt(Mul(ModuleParams.liquidationFee, r.notional), 2)
           remaining == Abs(r.toVault)
           badDebt == RoundInt(r.badDebt + MaxDec(0, fee - remaining))
           toFund == RoundInt(MaxDec(0, remaining - fee))
           realized == RealizeBadDebt(Swapped(s, p, t, r), badDebt)
           u == DistributeLiquidateRewards(realized, l, toFund, RoundInt(fee))
<1>1. \/ SettleFullLiquidation(s, p, t, l, r).store = s
      \/ IsResponse(r) /\ SettleFullLiquidation(s, p, t, l, r).store = u
  BY DEF SettleFullLiquidation, Outcome
<1>2. ASSUME IsResponse(r) PROVE Typed(u)
  <2>1. Typed(Swapped(s, p, t, r))
    BY <1>2, SwappedTyped
  <2> HIDE DEF badDebt
  <2>2. Typed(realized)
    BY <2>1, RealizeBooks, SameTyped DEF Typed
  <2> HIDE DEF realized, toFund, fee
  <2> QED BY <2>2, DistributeTyped
<1> HIDE DEF u
<1> QED BY <1>1, <1>2

\* executePartialLiquidation
LEMMA PartialTyped ==
    ASSUME NEW s, Typed(s), NEW p \in Pairs, NEW t \in Traders, NEW l, NEW r,
           IsResponse(r) \/ ~ r.ok
    PROVE  Typed(SettlePartialLiquidation(s, p, t, l, r).store)
<1> DEFINE fee == Mul(r.notional, ModuleParams.liquidationFee)
           toLiquidator == RoundInt(QuoInt(fee, 2))
           toFund == RoundInt(fee - QuoInt(fee, 2))
           left == [r.pos EXCEPT !.margin = @ - fee]
           decreased == [Swapped(s, p, t, r) EXCEPT !.positions[p][t] = left]
           u == DistributeLiquidateRewards(decreased, l, toFund, toLiquidator)
<1>1. \/ SettlePartialLiquidation(s, p, t, l, r).store = s
      \/ /\ IsResponse(r)
         /\ SettlePartialLiquidation(s, p, t, l, r).store = LetOff(u, p, r.badDebt)
  BY DEF SettlePartialLiquidation, Outcome
<1>2. ASSUME IsResponse(r) PROVE Typed(u)
  <2>1. fee \in Int
    <3>1. ModuleParams.liquidationFee \in Int
      BY InputAssumption, ScaleAssumption DEF One
    <3> QED BY <1>2, <3>1, MulType DEF IsResponse
  <2> HIDE DEF fee
  <2>2. left \in PositionType
    BY <1>2, <2>1 DEF IsResponse, PositionType
  <2> HIDE DEF left
  <2>3. Typed(Swapped(s, p, t, r))
    BY <1>2, SwappedTyped
  <2>4. Typed(decreased)
    BY <2>2, <2>3, PositionTyped
  <2> HIDE DEF decreased, toFund, toLiquidator
  <2> QED BY <2>4, DistributeTyped
<1> HIDE DEF u
<1>3. ASSUME IsResponse(r) PROVE Typed(LetOff(u, p, r.badDebt))
  BY <1>2, <1>3, LetOffKeeps DEF Typed, Kept
<1> QED BY <1>1, <1>3

\* Any request of a MsgMultiLiquidate
LEMMA LiquidateTyped ==
    ASSUME Fractions, NEW s, Typed(s), NEW p \in Pairs, NEW t \in Traders, NEW l
    PROVE  Typed(Liquidate(s, p, t, l).store)
<1> DEFINE pool == s.pools[p]
           pos == s.positions[p][t]
           part == Abs(Mul(pos.size, ModuleParams.partial))
           notional == GetBaseAssetPrice(pool, part)
           close == ClosePositionEntirely(p, pool, pos, TRUE)
           cut == DecreasePosition(p, pool, pos, notional, 0, TRUE)
<1>1. \/ Liquidate(s, p, t, l).store = s
      \/ Liquidate(s, p, t, l) = ExecutePartialLiquidation(s, p, t, l)
      \/ Liquidate(s, p, t, l) = ExecuteFullLiquidation(s, p, t, l)
  BY DEF Liquidate, Outcome
<1>2. pool \in Pool /\ pos \in PositionType
  BY DEF Typed
<1>3. Typed(ExecutePartialLiquidation(s, p, t, l).store)
  <2>1. \/ ExecutePartialLiquidation(s, p, t, l).store = s
        \/ /\ CanGetQuoteByBase(pool, part)
           /\ ExecutePartialLiquidation(s, p, t, l) = SettlePartialLiquidation(s, p, t, l, cut)
    BY DEF ExecutePartialLiquidation, Outcome
  <2>2. ASSUME CanGetQuoteByBase(pool, part)
        PROVE  IsResponse(cut) \/ ~ cut.ok
    <3>1. part \in Int
      <4>1. ModuleParams.partial \in Int
        BY InputAssumption, ScaleAssumption DEF One
      <4>2. Mul(pos.size, ModuleParams.partial) \in Int
        BY <1>2, <4>1, MulType DEF PositionType
      <4> QED BY <4>2, AbsNat
    <3> HIDE DEF pool, pos, part
    <3>2. notional \in Int
      BY <1>2, <2>2, <3>1, BasePriceNat
    <3> HIDE DEF notional
    <3> QED BY <1>2, <3>2, DecreaseResponse
  <2> HIDE DEF cut, pool, part
  <2> QED BY <2>1, <2>2, PartialTyped
<1>4. Typed(ExecuteFullLiquidation(s, p, t, l).store)
  <2>1. IsResponse(close) \/ ~ close.ok
    <3> HIDE DEF pool, pos
    <3> QED BY <1>2, CloseResponse
  <2>2. ExecuteFullLiquidation(s, p, t, l) = SettleFullLiquidation(s, p, t, l, close)
    BY DEF ExecuteFullLiquidation
  <2> HIDE DEF close
  <2> QED BY <2>1, <2>2, FullTyped
<1> QED BY <1>1, <1>3, <1>4

\* MultiLiquidate: the types hold after every request.
LEMMA OutcomesTyped ==
    ASSUME Fractions, NEW s, Typed(s), NEW l, NEW n \in Nat,
           NEW reqs \in [1..n -> [pair : Pairs, trader : Traders]], Len(reqs) = n
    PROVE  Typed(Outcomes(s, reqs, l)[n].store)
<1> DEFINE g == CHOOSE after : IsOutcomes(after, s, reqs, l, n)
<1>1. IsOutcomes(g, s, reqs, l, n)
  BY OutcomesExist, Zenon
<1>2. Outcomes(s, reqs, l) = g
  BY Zenon DEF Outcomes, IsOutcomes
<1> HIDE DEF g
<1> DEFINE Bad == {i \in 0..n : ~ Typed(g[i].store)}
<1>3. ASSUME Bad # {} PROVE FALSE
  <2>1. PICK m \in Bad : \A k \in Bad : m <= k
    <3>1. Bad \subseteq Nat
      OBVIOUS
    <3> HIDE DEF Bad
    <3> QED BY <1>3, <3>1, LeastNatural
  <2>2. m # 0
    BY <1>1 DEF IsOutcomes, Outcome
  <2>3. Typed(g[m - 1].store)
    BY <2>1, <2>2
  <2>4. g[m] = Liquidate(g[m - 1].store, reqs[m].pair, reqs[m].trader, l)
    BY <1>1, <2>2 DEF IsOutcomes
  <2>5. reqs[m].pair \in Pairs /\ reqs[m].trader \in Traders
    BY <2>2
  <2> QED BY <2>3, <2>4, <2>5, LiquidateTyped
<1> QED BY <1>2, <1>3

-----------------------------------------------------------------------------
(* Snapshots and their averages. *)

\* The snapshots of a pair at time t: one at least, in the order of their times, none
\* from the future.
IsSnapshots(snaps, t) ==
    /\ snaps \in Seq([ts : Int, pool : Pool])
    /\ Len(snaps) > 0
    /\ \A i \in DOMAIN snaps : snaps[i].ts <= t
    /\ \A i, j \in DOMAIN snaps : i < j => snaps[i].ts < snaps[j].ts

\* What the proofs need of snapshots.
LEMMA SnapshotFacts ==
    ASSUME NEW snaps, NEW t, IsSnapshots(snaps, t)
    PROVE  /\ DOMAIN snaps = 1..Len(snaps) /\ Len(snaps) \in Nat \ {0}
           /\ \A i \in DOMAIN snaps : /\ snaps[i].ts \in Int /\ snaps[i].pool \in Pool
                                      /\ snaps[i].ts <= t
           /\ \A i, j \in DOMAIN snaps : i < j => snaps[i].ts < snaps[j].ts
<1>1. /\ DOMAIN snaps = 1..Len(snaps) /\ Len(snaps) \in Nat \ {0}
      /\ \A i \in DOMAIN snaps : snaps[i] \in [ts : Int, pool : Pool]
  <2>1. snaps \in Seq([ts : Int, pool : Pool]) /\ Len(snaps) > 0
    BY DEF IsSnapshots
  <2>2. /\ DOMAIN snaps = 1..Len(snaps) /\ Len(snaps) \in Nat
        /\ \A i \in DOMAIN snaps : snaps[i] \in [ts : Int, pool : Pool]
    BY <2>1, SeqElement, Zenon
  <2> QED BY <2>1, <2>2
<1>2. \A r \in [ts : Int, pool : Pool] : r.ts \in Int /\ r.pool \in Pool
  OBVIOUS
<1> QED BY <1>1, <1>2, Zenon DEF IsSnapshots

\* A scanned snapshot was in force for some time, unless it is the newest one.
LEMMA InForceNat ==
    ASSUME NEW snaps, NEW t \in Int, IsSnapshots(snaps, t), NEW lookback \in Nat,
           NEW i \in Scanned(snaps, t, lookback)
    PROVE  /\ InForce(snaps, i, t, lookback) \in Nat
           /\ i # Len(snaps) => InForce(snaps, i, t, lookback) > 0
<1>1. /\ DOMAIN snaps = 1..Len(snaps) /\ Len(snaps) \in Nat \ {0} /\ i \in DOMAIN snaps
      /\ snaps[i].ts \in Int /\ snaps[i].ts <= t
  BY SnapshotFacts DEF Scanned
<1>2. CASE i = Len(snaps)
  BY <1>1, <1>2 DEF InForce, MaxDec
<1>3. CASE i # Len(snaps)
  <2>1. i + 1 \in DOMAIN snaps
    BY <1>1, <1>3
  <2>2. i < i + 1
    BY <1>1
  <2>3. snaps[i + 1].ts \in Int /\ snaps[i].ts < snaps[i + 1].ts
    BY <1>1, <2>1, <2>2, SnapshotFacts
  <2>4. snaps[i + 1].ts > t - lookback
    BY <1>1, <2>1, <2>2 DEF Scanned
  <2> QED BY <1>1, <1>3, <2>3, <2>4 DEF InForce, MaxDec
<1> QED BY <1>2, <1>3

\* The average of integers is one, that of natural numbers a natural number.
LEMMA TwapType ==
    ASSUME NEW snaps, NEW t \in Int, IsSnapshots(snaps, t), NEW lookback \in Nat, NEW price,
           \A i \in Scanned(snaps, t, lookback) : price[i] \in Int
    PROVE  /\ CalcTwap(snaps, price, t, lookback) \in Int
           /\ (\A i \in Scanned(snaps, t, lookback) : price[i] \in Nat)
                => CalcTwap(snaps, price, t, lookback) \in Nat
<1> DEFINE V == Scanned(snaps, t, lookback)
           n == Len(snaps)
           time == [i \in V |-> InForce(snaps, i, t, lookback)]
           weighted == [i \in V |-> price[i] * time[i]]
<1>1. n \in Nat \ {0} /\ V \subseteq 1..n /\ n \in V
  BY SnapshotFacts DEF Scanned
<1>2. CASE \E i \in V : V = {i}
  <2>1. (CHOOSE i \in V : TRUE) \in V
    BY <1>1
  <2>2. CalcTwap(snaps, price, t, lookback) = price[CHOOSE i \in V : TRUE]
    BY <1>2 DEF CalcTwap
  <2> QED BY <2>1, <2>2
<1>3. CASE ~ \E i \in V : V = {i}
  <2>1. PICK i \in V : i # n
    BY <1>1, <1>3
  <2>2. time \in [V -> Nat] /\ time[i] > 0
    BY <2>1, InForceNat
  <2> DEFINE total == SumOver(V, time, n)
             sum == SumOver(V, weighted, n)
  <2>3. CalcTwap(snaps, price, t, lookback) = Quot(sum, total)
    BY <1>3 DEF CalcTwap, QuoInt
  <2> HIDE DEF V, time
  <2>4. total \in Nat \ {0}
    <3>1. n \in Nat /\ V \subseteq 1..n /\ time \in [V -> Nat] /\ i \in V
      BY <1>1, <2>1, <2>2
    <3> HIDE DEF n
    <3>2. total \in Nat /\ time[i] <= total
      BY <3>1, SumOverNat, Zenon
    <3>3. time[i] \in Nat /\ time[i] > 0
      BY <2>2, <3>1
    <3> QED BY <3>2, <3>3
  <2>5. weighted \in [V -> Int] /\ ((\A k \in V : price[k] \in Nat) => weighted \in [V -> Nat])
    <3>1. \A k \in V : price[k] \in Int /\ time[k] \in Nat
      BY <2>2 DEF V
    <3>2. \A a \in Int, b \in Nat : a * b \in Int /\ (a \in Nat => a * b \in Nat)
      BY SMT
    <3> QED BY <3>1, <3>2
  <2> HIDE DEF weighted
  <2>6. sum \in Int /\ ((\A k \in V : price[k] \in Nat) => sum \in Nat)
    BY <1>1, <2>5, SumOverType, SumOverNat
  <2> HIDE DEF total, sum
  <2>7. Quot(sum, total) \in Int /\ (sum \in Nat => Quot(sum, total) \in Nat)
    BY <2>4, <2>6, QuotType, QuotBounds
  <2> QED BY <2>3, <2>6, <2>7 DEF V
<1> QED BY <1>2, <1>3

\* GetMarkPriceTWAP
LEMMA MarkTwapInt ==
    ASSUME NEW snaps, NEW t \in Int, IsSnapshots(snaps, t), NEW lookback \in Nat,
           CanGetMarkPriceTWAP(snaps, t, lookback)
    PROVE  GetMarkPriceTWAP(snaps, t, lookback) \in Int
<1> DEFINE price == [i \in DOMAIN snaps |->
                        Mul(Quo(snaps[i].pool.quote, snaps[i].pool.base), snaps[i].pool.peg)]
<1>1. ASSUME NEW i \in Scanned(snaps, t, lookback) PROVE price[i] \in Int
  <2>1. i \in DOMAIN snaps /\ snaps[i].pool \in Pool
    BY SnapshotFacts DEF Scanned
  <2>2. /\ snaps[i].pool.quote \in Int /\ snaps[i].pool.base \in Int \ {0}
        /\ snaps[i].pool.peg \in Int
    BY <2>1 DEF CanGetMarkPriceTWAP, Pool, PoolType
  <2> QED BY <2>1, <2>2, QuoType, MulType
<1> HIDE DEF price
<1>2. CalcTwap(snaps, price, t, lookback) \in Int
  BY <1>1, TwapType
<1> QED BY <1>2 DEF GetMarkPriceTWAP, price

\* GetBaseAssetTWAP
LEMMA BaseTwapNat ==
    ASSUME NEW snaps, NEW t \in Int, IsSnapshots(snaps, t), NEW lookback \in Nat, NEW b \in Int,
           CanGetBaseAssetTWAP(snaps, b, t, lookback)
    PROVE  GetBaseAssetTWAP(snaps, b, t, lookback) \in Nat
<1> DEFINE V == Scanned(snaps, t, lookback)
           price == [i \in V |-> GetBaseAssetPrice(snaps[i].pool, b)]
<1>1. ASSUME NEW i \in V PROVE price[i] \in Nat
  <2>1. snaps[i].pool \in Pool
    BY SnapshotFacts DEF Scanned
  <2>2. CanGetQuoteByBase(snaps[i].pool, b)
    BY DEF CanGetBaseAssetTWAP
  <2> QED BY <2>1, <2>2, BasePriceNat
<1> HIDE DEF price
<1>2. CalcTwap(snaps, price, t, lookback) \in Nat
  BY <1>1, TwapType
<1> QED BY <1>2 DEF GetBaseAssetTWAP, price

\* A sequence with one more element.
LEMMA AppendedElement ==
    ASSUME NEW S, NEW s \in Seq(S), NEW e \in S
    PROVE  /\ Append(s, e) \in Seq(S) /\ Len(Append(s, e)) = Len(s) + 1
           /\ Append(s, e)[Len(s) + 1] = e
           /\ \A i \in 1..Len(s) : Append(s, e)[i] = s[i]
OBVIOUS

\* Saving a snapshot keeps the order.
LEMMA SavedSnapshots ==
    ASSUME NEW snaps, now \in Int, IsSnapshots(snaps, now), NEW pool \in Pool
    PROVE  IsSnapshots(Saved(snaps, pool), now)
<1> DEFINE n == Len(snaps)
           k == IF snaps[n].ts < now THEN n ELSE n - 1
           head == SubSeq(snaps, 1, k)
           u == Append(head, [ts |-> now, pool |-> pool])
<1>1. /\ n \in Nat \ {0} /\ DOMAIN snaps = 1..n /\ snaps \in Seq([ts : Int, pool : Pool])
      /\ \A i \in 1..n : snaps[i].ts \in Int /\ snaps[i].ts <= now
      /\ \A i, j \in 1..n : i < j => snaps[i].ts < snaps[j].ts
  <2>1. snaps \in Seq([ts : Int, pool : Pool])
    BY DEF IsSnapshots
  <2> QED BY <2>1, SnapshotFacts
<1>2. k \in Nat /\ k <= n
  BY <1>1
<1>3. \A i \in 1..k : snaps[i].ts < now
  <2> SUFFICES ASSUME NEW i \in 1..k PROVE snaps[i].ts < now
    OBVIOUS
  <2>1. CASE snaps[n].ts < now
    <3>1. i \in 1..n /\ n \in 1..n
      BY <1>1, <1>2
    <3>2. i < n => snaps[i].ts < snaps[n].ts
      BY <1>1, <3>1, Zenon
    <3>3. snaps[i].ts \in Int /\ snaps[n].ts \in Int /\ n \in Nat
      BY <1>1, <3>1, Zenon
    <3> HIDE DEF n, k
    <3>4. i < n \/ i = n
      BY <3>1, <3>3
    <3> QED BY <2>1, <3>2, <3>3, <3>4
  <2>2. CASE ~ (snaps[n].ts < now)
    <3>1. i < n /\ i \in 1..n
      BY <1>1, <2>2
    <3>2. snaps[i].ts < snaps[n].ts /\ snaps[n].ts <= now
      BY <1>1, <3>1
    <3> QED BY <1>1, <3>1, <3>2
  <2> QED BY <2>1, <2>2
<1> HIDE DEF k
<1>4. /\ head \in Seq([ts : Int, pool : Pool]) /\ Len(head) = k
      /\ \A i \in 1..k : head[i] = snaps[i]
  BY <1>1, <1>2, FirstElements
<1> HIDE DEF head
<1>5. /\ u \in Seq([ts : Int, pool : Pool]) /\ Len(u) = k + 1 /\ DOMAIN u = 1..(k + 1)
      /\ u[k + 1] = [ts |-> now, pool |-> pool] /\ \A i \in 1..k : u[i] = snaps[i]
  <2> DEFINE last == [ts |-> now, pool |-> pool]
  <2>1. last \in [ts : Int, pool : Pool]
    OBVIOUS
  <2> HIDE DEF last
  <2>2. u = Append(head, last)
    BY DEF last
  <2> HIDE DEF u
  <2>3. /\ u \in Seq([ts : Int, pool : Pool]) /\ Len(u) = Len(head) + 1
        /\ u[Len(head) + 1] = last /\ \A i \in 1..Len(head) : u[i] = head[i]
    BY <1>4, <2>1, <2>2, AppendedElement
  <2>4. /\ u \in Seq([ts : Int, pool : Pool]) /\ Len(u) = k + 1 /\ u[k + 1] = last
        /\ \A i \in 1..k : u[i] = head[i]
    BY <1>4, <2>3
  <2>5. DOMAIN u = 1..(k + 1)
    BY <2>4
  <2> QED BY <1>4, <2>4, <2>5, Zenon DEF last
<1> HIDE DEF u
<1>6. \A i \in DOMAIN u : u[i].ts <= now
  <2> SUFFICES ASSUME NEW i \in 1..(k + 1) PROVE u[i].ts <= now
    BY <1>5
  <2>1. CASE i = k + 1
    BY <1>5, <2>1
  <2>2. CASE i \in 1..k
    BY <1>1, <1>2, <1>3, <1>5, <2>2
  <2> QED BY <1>2, <2>1, <2>2
<1>7. \A i, j \in DOMAIN u : i < j => u[i].ts < u[j].ts
  <2> SUFFICES ASSUME NEW i \in 1..(k + 1), NEW j \in 1..(k + 1), i < j
               PROVE  u[i].ts < u[j].ts
    BY <1>5
  <2>1. i \in 1..k
    BY <1>2
  <2>2. CASE j = k + 1
    BY <1>3, <1>5, <2>1, <2>2
  <2>3. CASE j \in 1..k
    <3>1. i \in 1..n /\ j \in 1..n
      BY <1>1, <1>2, <2>1, <2>3
    <3> QED BY <1>1, <1>5, <2>1, <2>3, <3>1
  <2> QED BY <1>2, <2>2, <2>3
<1>8. IsSnapshots(u, now)
  BY <1>2, <1>5, <1>6, <1>7 DEF IsSnapshots
<1> QED BY <1>8 DEF Saved, u, head, k

-----------------------------------------------------------------------------
(* The specification: types, and RemoveMargin. *)

\* The parts of the inductive invariant: pools and positions,
Books == /\ pools \in [Pairs -> Pool]
         /\ positions \in [Pairs -> [Traders -> PositionType]]
\* the maintenance ratios,
ConfigsOK == DOMAIN configs = Pairs /\ \A p \in Pairs : configs[p].maintenance \in Nat
\* and the snapshots.
SnapshotsOK == /\ now \in Nat /\ DOMAIN snapshots = Pairs
               /\ \A p \in Pairs : IsSnapshots(snapshots[p], now)

\* The inductive invariant of the last theorem.
TInv == BInv /\ Books /\ Fractions /\ ConfigsOK /\ SnapshotsOK

\* The store of a state
LEMMA StoreTyped ==
    ASSUME TInv
    PROVE  /\ Typed(Store) /\ Store.pools = pools /\ Store.positions = positions
           /\ pools \in [Pairs -> Pool]
           /\ positions \in [Pairs -> [Traders -> PositionType]]
<1>1. IsStore(Store)
  BY BInvFacts DEF TInv, Balanced
<1>2. Store.pools = pools /\ Store.positions = positions
  BY DEF Store
<1> QED BY <1>1, <1>2 DEF TInv, Books, Typed

\* and of a handler that commits.
LEMMA CommitTyped ==
    ASSUME TInv, NEW s, Typed(s), Commit(s)
    PROVE  Books' /\ UNCHANGED <<cpf, configs, snapshots, now>>
BY DEF Commit, Typed, Books

\* A step that leaves the other parts alone keeps them.
LEMMA OthersKept ==
    ASSUME TInv, UNCHANGED <<cpf, configs, snapshots, now>>
    PROVE  Fractions' /\ ConfigsOK' /\ SnapshotsOK'
<1>1. Fractions' /\ ConfigsOK'
  BY DEF TInv, Fractions, ConfigsOK
<1>2. SnapshotsOK'
  BY DEF TInv, SnapshotsOK
<1> QED BY <1>1, <1>2

\* The end of the messages that change a position,
LEMMA UpdateTyped ==
    ASSUME TInv, NEW t \in Traders, NEW p \in Pairs, NEW r, UpdatePosition(p, t, r), IsResponse(r)
    PROVE  Books' /\ UNCHANGED <<cpf, configs, snapshots, now>>
<1>1. Typed(AfterPositionUpdate(Store, p, t, r))
  BY StoreTyped, AfterPositionTyped
<1> QED BY <1>1, CommitTyped DEF UpdatePosition

\* An OpenPosition of any integers, as a contract may send it,
LEMMA OpenTyped ==
    ASSUME TInv, NEW t \in Traders, NEW p \in Pairs, NEW dir, NEW quote \in Int,
           NEW lev \in Int, NEW limit, OpenPosition(t, p, dir, quote, lev, limit)
    PROVE  Books' /\ UNCHANGED <<cpf, configs, snapshots, now>>
<1> DEFINE r == OpenResponse(p, pools[p], positions[p][t], dir, quote, lev, limit)
<1>1. Fractions /\ pools[p] \in Pool /\ positions[p][t] \in PositionType
  BY StoreTyped DEF TInv
<1>2. UpdatePosition(p, t, r) /\ r.ok /\ lev # 0
  BY DEF OpenPosition, UpdatePosition
<1>3. IsResponse(r)
  BY <1>1, <1>2, OpenResponseIs
<1> HIDE DEF r
<1> QED BY <1>2, <1>3, UpdateTyped

\* a ClosePosition,
LEMMA CloseTyped ==
    ASSUME TInv, NEW t \in Traders, NEW p \in Pairs, ClosePosition(t, p)
    PROVE  Books' /\ UNCHANGED <<cpf, configs, snapshots, now>>
<1> DEFINE r == ClosePositionEntirely(p, pools[p], positions[p][t], FALSE)
<1>1. Fractions /\ pools[p] \in Pool /\ positions[p][t] \in PositionType
  BY StoreTyped DEF TInv
<1>2. UpdatePosition(p, t, r) /\ r.ok
  BY DEF ClosePosition, UpdatePosition
<1>3. IsResponse(r)
  BY <1>1, <1>2, CloseResponse
<1> HIDE DEF r
<1> QED BY <1>2, <1>3, UpdateTyped

\* a position with another margin,
LEMMA MarginTyped ==
    ASSUME TInv, NEW t \in Traders, NEW p \in Pairs, NEW amt \in Int
    PROVE  /\ [positions[p][t] EXCEPT !.margin = RemainingMargin(p, positions[p][t], ToDec(amt)),
                                      !.cpf = cpf[p]] \in PositionType
           /\ [positions[p][t] EXCEPT !.margin = RemainingMargin(p, positions[p][t], -ToDec(amt)),
                                      !.cpf = cpf[p]] \in PositionType
<1>1. Fractions /\ positions[p][t] \in PositionType
  BY StoreTyped DEF TInv
<1>2. ToDec(amt) \in Int
  BY ScaleAssumption, Products DEF ToDec
<1>3. -ToDec(amt) \in Int
  BY <1>2
<1>4. /\ RemainingMargin(p, positions[p][t], ToDec(amt)) \in Int
      /\ RemainingMargin(p, positions[p][t], -ToDec(amt)) \in Int
  BY <1>1, <1>2, <1>3, RemainingInt
<1>5. \A m \in Int : [positions[p][t] EXCEPT !.margin = m, !.cpf = cpf[p]] \in PositionType
  BY <1>1 DEF PositionType, Fractions
<1> QED BY <1>4, <1>5

\* coins added to a position
LEMMA AddCoinsTyped ==
    ASSUME TInv, NEW t \in Traders, NEW p \in Pairs, NEW amt \in Int, NEW quote,
           AddCoins(t, p, amt, quote)
    PROVE  Books' /\ UNCHANGED <<cpf, configs, snapshots, now>>
<1> DEFINE m == RemainingMargin(p, positions[p][t], ToDec(amt))
           q == [positions[p][t] EXCEPT !.margin = m, !.cpf = cpf[p]]
           s == [Store EXCEPT !.bank = Send(@, t, Vault, quote),
                              !.positions[p][t].margin = m,
                              !.positions[p][t].cpf = cpf[p]]
           b == [positions EXCEPT ![p][t] = q]
<1>1. Commit(s)
  BY DEF AddCoins
<1>2. q \in PositionType
  BY MarginTyped
<1> HIDE DEF m
<1>3. s.positions = b /\ s.pools = pools
  BY StoreTyped DEF Typed, IsStore, IsRecord
<1> HIDE DEF q, s
<1>4. b \in [Pairs -> [Traders -> PositionType]]
  BY <1>2, StoreTyped
<1> QED BY <1>1, <1>3, <1>4, StoreTyped DEF Commit, Books

\* and margin removed from it, whatever its sign.
LEMMA RemoveTyped ==
    ASSUME TInv, NEW t \in Traders, NEW p \in Pairs, NEW amt \in Int, RemoveMargin(t, p, amt)
    PROVE  Books' /\ UNCHANGED <<cpf, configs, snapshots, now>>
<1> DEFINE m == RemainingMargin(p, positions[p][t], -ToDec(amt))
           q == [positions[p][t] EXCEPT !.margin = m, !.cpf = cpf[p]]
           w == Withdraw(Store, t, amt)
<1>1. Commit([w EXCEPT !.positions[p][t] = q])
  BY DEF RemoveMargin
<1>2. q \in PositionType
  BY MarginTyped
<1>3. Typed(w)
  BY StoreTyped, WithdrawBooks, SameTyped DEF Typed
<1> HIDE DEF m, q, w
<1>4. Typed([w EXCEPT !.positions[p][t] = q])
  BY <1>2, <1>3, PositionTyped
<1> QED BY <1>1, <1>4, CommitTyped

\* The messages that trade, validated or not
LEMMA TradeTyped ==
    ASSUME TInv, NEW t \in Traders, NEW p \in Pairs, Trade(t, p) \/ UnvalidatedTrade(t, p)
    PROVE  Books' /\ UNCHANGED <<cpf, configs, snapshots, now>>
<1>1. /\ \A quote \in QuoteAmounts : quote \in Int
      /\ \A lev \in Leverages \cup ContractLeverages : lev \in Int
      /\ \A amt \in Margins \cup ContractMargins : amt \in Int
  BY InputAssumption, BindingAssumption
<1>2. CASE Trade(t, p)
  BY <1>1, <1>2, OpenTyped, CloseTyped, AddCoinsTyped, RemoveTyped DEF Trade, AddMargin
<1>3. CASE UnvalidatedTrade(t, p)
  BY <1>1, <1>3, OpenTyped, AddCoinsTyped, RemoveTyped DEF UnvalidatedTrade
<1> QED BY <1>2, <1>3

\* MsgMultiLiquidate
LEMMA MultiLiquidateTyped ==
    ASSUME TInv, NEW l, NEW reqs \in Requests, MultiLiquidate(l, reqs)
    PROVE  Books' /\ UNCHANGED <<cpf, configs, snapshots, now>>
<1>1. PICK n \in 1..MaxRequests : reqs \in [1..n -> [pair : Pairs, trader : Traders]]
  BY DEF Requests
<1>2. n \in Nat /\ Len(reqs) = n
  BY <1>1
<1>3. Typed(Outcomes(Store, reqs, l)[n].store)
  BY <1>1, <1>2, StoreTyped, OutcomesTyped DEF TInv
<1>4. Commit(Outcomes(Store, reqs, l)[n].store)
  BY <1>2 DEF MultiLiquidate, CommitOutcomes
<1> QED BY <1>3, <1>4, CommitTyped

\* A ratio of two decimals of the same sign is not negative.
LEMMA QuoSigns ==
    ASSUME NEW i \in Int \ {0}, NEW m \in Int, m > 0
    PROVE  Quo(Mul(i, m), i) \in Nat
<1> DEFINE a == Mul(i, m)
<1>1. CASE i > 0
  <2>1. i \in Nat \ {0} /\ i \in Nat /\ m \in Nat
    BY <1>1
  <2>2. a \in Nat
    BY <2>1, MulBounds
  <2> HIDE DEF a
  <2>3. Quo(a, i) \in Nat
    BY <2>1, <2>2, QuoBounds
  <2> QED BY <2>3 DEF a
<1>2. CASE i < 0
  <2>1. i * m \in Int /\ i * m < 0
    BY <1>2
  <2>2. a = -ChopNat(-(i * m)) /\ -(i * m) \in Nat
    BY <2>1 DEF Mul, ChopPrecisionAndRound
  <2>3. a \in Int /\ a <= 0
    BY <2>2, ChopBounds
  <2> HIDE DEF a
  <2> DEFINE n == Abs(a) * Scale
             d == Abs(i)
             digits == (n \div d) * Scale + ((n % d) * Scale) \div d
  <2>4. n \in Nat /\ d \in Nat \ {0} /\ (a = 0 => n = 0)
    BY <1>2, <2>3, ScaleAssumption DEF Abs
  <2> HIDE DEF n, d
  <2>5. digits \in Nat /\ (n = 0 => digits = 0)
    <3>1. n \div d \in Nat /\ n % d \in Nat /\ (n = 0 => n \div d = 0 /\ n % d = 0)
      BY <2>4
    <3>2. (n % d) * Scale \in Nat /\ (n \div d) * Scale \in Nat
      BY <3>1, ScaleAssumption
    <3>3. ((n % d) * Scale) \div d \in Nat
      BY <2>4, <3>2, DivMod
    <3>4. n = 0 => (n % d) * Scale = 0 /\ (n \div d) * Scale = 0
      BY <3>1, ScaleAssumption
    <3>5. n = 0 => ((n % d) * Scale) \div d = 0
      BY <2>4, <3>4
    <3> QED BY <3>2, <3>3, <3>4, <3>5
  <2>6. Quo(a, i) = IF (a < 0) = (i < 0) THEN ChopNat(digits) ELSE -ChopNat(digits)
    BY Zenon DEF Quo, n, d
  <2> HIDE DEF digits
  <2>7. ChopNat(digits) \in Nat
    BY <2>5, ChopBounds
  <2>8. ChopNat(0) = 0
    <3>1. 0 * Scale = 0
      BY ScaleAssumption
    <3> QED BY <3>1, ChopExact
  <2> QED BY <1>2, <2>3, <2>4, <2>5, <2>6, <2>7, <2>8 DEF a
<1> QED BY <1>1, <1>2

\* UpdateSwapInvariant
LEMMA UpdatedPool ==
    ASSUME NEW pool \in Pool, NEW m \in Int, CanUpdateSwapInvariant(pool, m)
    PROVE  UpdateSwapInvariant(pool, m) \in Pool
<1> DEFINE i == Mul(pool.base, pool.quote)
           c == MustSqrtDec(Quo(Mul(i, m), i))
           base == Mul(c, pool.base)
           quote == Mul(c, pool.quote)
           depth == MustSqrtDec(Mul(base, quote))
           u == [pool EXCEPT !.base = base, !.quote = quote, !.sqrtDepth = depth]
<1>1. pool.base \in Int /\ pool.quote \in Int /\ m > 0 /\ i # 0
  BY DEF Pool, PoolType, CanUpdateSwapInvariant
<1>2. UpdateSwapInvariant(pool, m) = u
  BY DEF UpdateSwapInvariant
<1>3. u.base > 0 /\ u.quote > 0
  BY <1>2 DEF CanUpdateSwapInvariant, ValidPool
<1>4. i \in Int
  BY <1>1, MulType
<1> HIDE DEF i
<1>5. c \in Int
  BY <1>1, <1>4, QuoSigns, MustSqrtDecType
<1> HIDE DEF c
<1>6. base \in Int /\ quote \in Int
  BY <1>1, <1>5, MulType
<1> HIDE DEF base, quote
<1>7. u.base = base /\ u.quote = quote
  <2> HIDE DEF depth
  <2> QED BY DEF Pool, PoolType
<1> HIDE DEF u
<1>8. depth \in Int
  <2>1. base \in Nat /\ quote \in Nat
    BY <1>3, <1>6, <1>7
  <2> QED BY <2>1, MulBounds, MustSqrtDecType
<1> HIDE DEF depth
<1>9. u \in Pool
  BY <1>6, <1>8 DEF u, Pool, PoolType
<1> QED BY <1>2, <1>9

\* CreatePool
LEMMA NewMarketPool ==
    ASSUME NEW quote \in Int, NEW base \in Int, NEW peg \in Int, CanCreatePool(quote, base, peg)
    PROVE  NewMarket(quote, base, peg) \in Pool
<1> DEFINE depth == MustSqrtDec(Mul(quote, base))
<1>1. quote > 0 /\ base > 0 /\ peg > 0
  <2>1. ValidPool(NewMarket(quote, base, peg))
    BY DEF CanCreatePool
  <2> QED BY <2>1 DEF ValidPool, NewMarket
<1>2. depth \in Int
  BY <1>1, MulBounds, MustSqrtDecType
<1> HIDE DEF depth
<1>3. [base |-> base, quote |-> quote, sqrtDepth |-> depth, peg |-> peg,
       totalLong |-> 0, totalShort |-> 0] \in Pool
  BY <1>1, <1>2 DEF Pool, PoolType
<1> QED BY <1>3 DEF NewMarket, depth

\* A donation
LEMMA DonateTyped ==
    ASSUME TInv, NEW t, NEW amt, DonateToEcosystemFund(t, amt)
    PROVE  Books' /\ UNCHANGED <<cpf, configs, snapshots, now>>
<1> DEFINE s == [Store EXCEPT !.bank = Send(@, t, PerpEF, amt)]
<1>1. Commit(s)
  BY DEF DonateToEcosystemFund
<1>2. Typed(s)
  BY StoreTyped, BankBooks, SameTyped DEF Typed
<1> HIDE DEF s
<1> QED BY <1>1, <1>2, CommitTyped

\* A store whose pool of p is replaced, committed
LEMMA PoolTyped ==
    ASSUME TInv, NEW p \in Pairs, NEW q \in Pool,
           pools' = [pools EXCEPT ![p] = q], positions' = positions
    PROVE  Books'
<1>1. [pools EXCEPT ![p] = q] \in [Pairs -> Pool]
  BY StoreTyped
<1> QED BY <1>1, StoreTyped DEF Books

\* The administration of a pool: the peg stays positive, the reserves integers.
LEMMA PegTyped ==
    ASSUME TInv, NEW p \in Pairs, NEW peg \in Int, EditPoolPegMultiplier(p, peg)
    PROVE  Books' /\ UNCHANGED <<cpf, configs, snapshots, now>>
<1> DEFINE q == [pools[p] EXCEPT !.peg = peg]
<1>1. PICK b : Commit([Store EXCEPT !.bank = b, !.pools[p].peg = peg])
  BY DEF EditPoolPegMultiplier
<1>2. peg > 0 /\ pools[p] \in Pool
  BY StoreTyped DEF EditPoolPegMultiplier, CanRepeg
<1>3. q \in Pool
  BY <1>2 DEF Pool, PoolType
<1>4. pools' = [pools EXCEPT ![p] = q] /\ positions' = positions
  BY <1>1 DEF Commit, Store
<1> HIDE DEF q
<1>5. Books'
  BY <1>3, <1>4, PoolTyped
<1> QED BY <1>1, <1>5 DEF Commit

\* A change of the depth, by a contract or by a proposal, keeps the books.
LEMMA DepthTyped ==
    ASSUME TInv, NEW p \in Pairs, NEW k \in Int,
           EditPoolSwapInvariant(p, k) \/ ProposalEditSwapInvariants(p, k)
    PROVE  Books' /\ UNCHANGED <<cpf, configs, snapshots, now>>
<1> DEFINE q == UpdateSwapInvariant(pools[p], k)
<1>1. pools[p] \in Pool /\ CanUpdateSwapInvariant(pools[p], k)
  BY StoreTyped DEF EditPoolSwapInvariant, ProposalEditSwapInvariants
<1>2. q \in Pool
  BY <1>1, UpdatedPool
<1>3. /\ pools' = [pools EXCEPT ![p] = q] /\ positions' = positions
      /\ UNCHANGED <<cpf, configs, snapshots, now>>
  BY DEF EditPoolSwapInvariant, ProposalEditSwapInvariants, Commit, Store
<1> HIDE DEF q
<1> QED BY <1>2, <1>3, PoolTyped

\* The snapshots of one pair change.
LEMMA SnapshotsChange ==
    ASSUME TInv, now' = now, NEW p \in Pairs, NEW u, IsSnapshots(u, now),
           snapshots' = [snapshots EXCEPT ![p] = u]
    PROVE  SnapshotsOK'
<1>1. now \in Nat /\ DOMAIN snapshots = Pairs /\ \A r \in Pairs : IsSnapshots(snapshots[r], now)
  BY DEF TInv, SnapshotsOK
<1>2. /\ DOMAIN snapshots' = Pairs
      /\ \A r \in Pairs : IsSnapshots(snapshots'[r], now)
  <2>1. \A r \in Pairs : snapshots'[r] = IF r = p THEN u ELSE snapshots[r]
    BY <1>1, Zenon
  <2>2. DOMAIN snapshots' = Pairs
    BY <1>1, Zenon
  <2> QED BY <1>1, <2>1, <2>2, Zenon
<1>3. now' \in Nat
  BY <1>1
<1>4. \A r \in Pairs : IsSnapshots(snapshots'[r], now')
  BY <1>2, Zenon
<1> QED BY <1>2, <1>3, <1>4, Zenon DEF SnapshotsOK

\* The configuration of one pair changes.
LEMMA ConfigsChange ==
    ASSUME TInv, NEW p \in Pairs, NEW config \in Configs,
           configs' = [configs EXCEPT ![p] = config]
    PROVE  ConfigsOK'
<1>1. config.maintenance \in Nat
  BY InputAssumption
<1>2. DOMAIN configs = Pairs /\ \A r \in Pairs : configs[r].maintenance \in Nat
  BY DEF TInv, ConfigsOK
<1>3. DOMAIN configs' = Pairs /\ \A r \in Pairs : configs'[r] = IF r = p THEN config ELSE configs[r]
  BY <1>2, Zenon
<1> QED BY <1>1, <1>2, <1>3, Zenon DEF ConfigsOK

\* The proposals that create a pool
LEMMA CreateTyped ==
    ASSUME TInv, NEW p \in Pairs, NEW reserve \in Reserves, NEW config \in Configs,
           ProposalCreatePool(p, reserve, config)
    PROVE  Books' /\ Fractions' /\ ConfigsOK' /\ SnapshotsOK'
<1> DEFINE q == NewMarket(reserve, reserve, One)
<1>1. reserve \in Int /\ One \in Int
  BY InputAssumption, ScaleAssumption DEF One
<1>2. q \in Pool
  BY <1>1, NewMarketPool DEF ProposalCreatePool
<1>3. /\ pools' = [pools EXCEPT ![p] = q] /\ positions' = positions /\ cpf' = cpf /\ now' = now
      /\ configs' = [configs EXCEPT ![p] = config]
      /\ snapshots' = [snapshots EXCEPT ![p] = Saved(@, pools'[p])]
  BY DEF ProposalCreatePool
<1> HIDE DEF q
<1>4. Books'
  BY <1>2, <1>3, PoolTyped
<1>5. Fractions' /\ ConfigsOK'
  BY <1>3, ConfigsChange DEF TInv, Fractions
<1>6. IsSnapshots(Saved(snapshots[p], pools'[p]), now)
  <2>1. pools'[p] = q
    BY <1>3, StoreTyped
  <2>2. now \in Int /\ IsSnapshots(snapshots[p], now)
    BY DEF TInv, SnapshotsOK
  <2> QED BY <1>2, <2>1, <2>2, SavedSnapshots
<1>7. SnapshotsOK'
  BY <1>3, <1>6, SnapshotsChange
<1> QED BY <1>4, <1>5, <1>7

\* and edit its configuration, which resets the totals.
LEMMA ConfigTyped ==
    ASSUME TInv, NEW p \in Pairs, NEW config \in Configs, ProposalEditPoolConfig(p, config)
    PROVE  Books' /\ Fractions' /\ ConfigsOK' /\ SnapshotsOK'
<1> DEFINE q == [pools[p] EXCEPT !.totalLong = 0, !.totalShort = 0]
<1>1. pools[p] \in Pool
  BY StoreTyped
<1>2. q \in Pool
  <2>1. ASSUME NEW pool \in Pool, NEW l \in Int, NEW k \in Int
        PROVE  [pool EXCEPT !.totalLong = l, !.totalShort = k] \in Pool
    BY DEF Pool, PoolType
  <2>2. 0 \in Int
    OBVIOUS
  <2> QED BY <1>1, <2>1, <2>2, Zenon
<1>3. /\ pools' = [pools EXCEPT ![p] = q] /\ positions' = positions
      /\ UNCHANGED <<cpf, snapshots, now>> /\ configs' = [configs EXCEPT ![p] = config]
  BY DEF ProposalEditPoolConfig
<1> HIDE DEF q
<1>4. Books'
  BY <1>2, <1>3, PoolTyped
<1>5. Fractions' /\ ConfigsOK'
  BY <1>3, ConfigsChange DEF TInv, Fractions
<1>6. SnapshotsOK'
  BY <1>3 DEF TInv, SnapshotsOK
<1> QED BY <1>4, <1>5, <1>6

\* The epoch hook: the premium of an interval is an integer.
LEMMA EpochTyped ==
    ASSUME TInv, NEW twap \in [Pairs -> IndexPrices], AfterEpochEnd(twap)
    PROVE  Books' /\ Fractions' /\ ConfigsOK' /\ SnapshotsOK'
<1>1. ASSUME NEW p \in Pairs PROVE cpf[p] + Premium(p, twap) \in Int
  <2>1. /\ cpf[p] \in Int /\ twap[p] \in Int /\ now \in Int /\ IsSnapshots(snapshots[p], now)
        /\ ModuleParams.lookback \in Nat /\ ModuleParams.intervalsPerDay \in Int \ {0}
    <3>1. ModuleParams.lookback \in Nat /\ ModuleParams.intervalsPerDay \in Int \ {0}
      BY InputAssumption
    <3>2. \A x \in IndexPrices : x \in Int
      BY InputAssumption
    <3>3. cpf[p] \in Int /\ now \in Int /\ IsSnapshots(snapshots[p], now)
      BY DEF TInv, Fractions, SnapshotsOK
    <3>4. twap[p] \in Int
      BY <3>2, Zenon
    <3> QED BY <3>1, <3>3, <3>4, Zenon
  <2>2. CASE twap[p] = 0
    BY <2>1, <2>2 DEF Premium
  <2>3. CASE twap[p] # 0
    <3>1. MarkTwap(p) \in Int
      BY <2>1, <2>3, MarkTwapInt DEF AfterEpochEnd, MarkTwap
    <3>2. MarkTwap(p) - twap[p] \in Int
      BY <2>1, <3>1
    <3>3. Quot(MarkTwap(p) - twap[p], ModuleParams.intervalsPerDay) \in Int
      BY <2>1, <3>2, QuotType
    <3> QED BY <2>1, <3>3 DEF Premium, QuoInt
  <2> QED BY <2>2, <2>3
<1>2. Fractions'
  BY <1>1 DEF AfterEpochEnd, Fractions
<1>3. UNCHANGED <<pools, positions, configs, snapshots, now>>
  BY DEF AfterEpochEnd
<1>4. Books' /\ ConfigsOK'
  BY <1>3 DEF TInv, Books, ConfigsOK
<1>5. SnapshotsOK'
  BY <1>3 DEF TInv, SnapshotsOK
<1> QED BY <1>2, <1>4, <1>5

\* Snapshots stay snapshots when time passes.
LEMMA LaterSnapshots ==
    ASSUME NEW snaps, NEW t \in Int, IsSnapshots(snaps, t)
    PROVE  IsSnapshots(snaps, t + 1)
<1>1. \A i \in DOMAIN snaps : snaps[i].ts \in Int /\ snaps[i].ts <= t
  BY SnapshotFacts, Zenon
<1>2. \A i \in DOMAIN snaps : snaps[i].ts <= t + 1
  BY <1>1
<1> QED BY <1>2, Zenon DEF IsSnapshots

\* The end of a block saves the pools.
LEMMA BlockTyped ==
    ASSUME TInv, EndBlocker
    PROVE  Books' /\ Fractions' /\ ConfigsOK' /\ SnapshotsOK'
<1>1. /\ UNCHANGED <<pools, positions, configs, cpf>> /\ now' = now + 1
      /\ snapshots' = [p \in Pairs |-> Saved(snapshots[p], pools[p])]
  BY DEF EndBlocker
<1>2. Books' /\ Fractions' /\ ConfigsOK'
  BY <1>1 DEF TInv, Books, Fractions, ConfigsOK
<1>3. now \in Nat /\ now \in Int
  BY DEF TInv, SnapshotsOK
<1>4. ASSUME NEW p \in Pairs PROVE IsSnapshots(snapshots'[p], now')
  <2>1. pools[p] \in Pool /\ IsSnapshots(snapshots[p], now)
    BY StoreTyped DEF TInv, SnapshotsOK
  <2>2. IsSnapshots(Saved(snapshots[p], pools[p]), now + 1)
    BY <1>3, <2>1, SavedSnapshots, LaterSnapshots
  <2> QED BY <1>1, <2>2, Zenon
<1>5. now' \in Nat
  BY <1>1, <1>3
<1>6. DOMAIN snapshots' = Pairs
  BY <1>1, Zenon
<1> QED BY <1>2, <1>4, <1>5, <1>6, Zenon DEF SnapshotsOK

\* One snapshot
LEMMA OneSnapshot ==
    ASSUME NEW t \in Int, NEW pool \in Pool
    PROVE  IsSnapshots(<<[ts |-> t, pool |-> pool]>>, t)
<1> DEFINE r == [ts |-> t, pool |-> pool]
<1>1. r \in [ts : Int, pool : Pool] /\ r.ts = t
  OBVIOUS
<1> HIDE DEF r
<1>2. <<r>> \in Seq([ts : Int, pool : Pool]) /\ Len(<<r>>) = 1 /\ DOMAIN <<r>> = {1} /\ <<r>>[1] = r
  BY <1>1
<1>3. IsSnapshots(<<r>>, t)
  BY <1>1, <1>2 DEF IsSnapshots
<1> QED BY <1>3 DEF r

\* The import of an exported genesis creates every pool anew.
LEMMA RestartTyped ==
    ASSUME TInv, Restart
    PROVE  Books' /\ Fractions' /\ ConfigsOK' /\ SnapshotsOK'
<1>1. /\ UNCHANGED <<positions, configs, cpf, now>> /\ CanImport
      /\ pools' = [p \in Pairs |-> NewMarket(pools[p].quote, pools[p].base, pools[p].peg)]
      /\ snapshots' = [p \in Pairs |-> <<[ts |-> now, pool |-> pools'[p]]>>]
  BY DEF Restart
<1>2. ASSUME NEW p \in Pairs PROVE pools'[p] \in Pool
  <2>1. pools[p].quote \in Int /\ pools[p].base \in Int /\ pools[p].peg \in Int
    BY StoreTyped DEF Pool, PoolType
  <2>2. CanCreatePool(pools[p].quote, pools[p].base, pools[p].peg)
    BY <1>1 DEF CanImport
  <2>3. NewMarket(pools[p].quote, pools[p].base, pools[p].peg) \in Pool
    BY <2>1, <2>2, NewMarketPool
  <2> QED BY <1>1, <2>3, Zenon
<1>3. pools' \in [Pairs -> Pool]
  BY <1>1, <1>2
<1>4. Books' /\ Fractions' /\ ConfigsOK'
  BY <1>1, <1>3, StoreTyped DEF TInv, Books, Fractions, ConfigsOK
<1>5. now \in Nat /\ now \in Int
  BY DEF TInv, SnapshotsOK
<1>6. ASSUME NEW p \in Pairs PROVE IsSnapshots(snapshots'[p], now')
  <2>1. IsSnapshots(<<[ts |-> now, pool |-> pools'[p]]>>, now)
    BY <1>2, <1>5, OneSnapshot
  <2> QED BY <1>1, <2>1, Zenon
<1>7. DOMAIN snapshots' = Pairs /\ now' \in Nat
  BY <1>1, <1>5, Zenon
<1> QED BY <1>4, <1>6, <1>7, Zenon DEF SnapshotsOK

\* Every step keeps the types.
LEMMA NextTyped == TInv /\ [Next]_vars => TInv'
<1> SUFFICES ASSUME TInv, [Next]_vars PROVE TInv'
  OBVIOUS
<1> DEFINE Rest == Books' /\ Fractions' /\ ConfigsOK' /\ SnapshotsOK'
<1>1. BInv'
  BY NextBalanced DEF TInv
<1>2. Books' /\ UNCHANGED <<cpf, configs, snapshots, now>> => Rest
  BY OthersKept
<1>3. UNCHANGED <<pools, positions, cpf, configs, snapshots, now>> => Rest
  <2>1. UNCHANGED <<pools, positions>> => Books'
    BY DEF TInv, Books
  <2> QED BY <1>2, <2>1
<1>4. ASSUME PerpNext PROVE Rest
  <2>1. \A k \in Depths : k \in Int
    BY InputAssumption
  <2>2. ASSUME NEW p, NEW price, SetExchangeRate(p, price) PROVE Rest
    BY <1>3, <2>2 DEF SetExchangeRate
  <2>3. ASSUME NEW t \in Traders, NEW p \in Pairs, Trade(t, p) PROVE Rest
    BY <1>2, <2>3, TradeTyped
  <2>4. ASSUME NEW l, NEW reqs \in Requests, MultiLiquidate(l, reqs) PROVE Rest
    BY <1>2, <2>4, MultiLiquidateTyped
  <2>5. ASSUME NEW t, NEW amt, DonateToEcosystemFund(t, amt) PROVE Rest
    BY <1>2, <2>5, DonateTyped
  <2>6. ASSUME NEW p \in Pairs, NEW k \in Depths, ProposalEditSwapInvariants(p, k) PROVE Rest
    BY <1>2, <2>1, <2>6, DepthTyped
  <2> QED BY <1>4, <2>2, <2>3, <2>4, <2>5, <2>6, CreateTyped, ConfigTyped, EpochTyped,
             BlockTyped, RestartTyped
          DEF PerpNext
<1>5. ASSUME NEW contract, DispatchMsg(contract) PROVE Rest
  <2>1. (\A k \in Pegs : k \in Int) /\ (\A k \in DepthMults : k \in Int)
    BY BindingAssumption
  <2>2. ASSUME NEW p \in Pairs, NEW peg \in Pegs, EditPoolPegMultiplier(p, peg) PROVE Rest
    BY <1>2, <2>1, <2>2, PegTyped
  <2>3. ASSUME NEW p \in Pairs, NEW k \in DepthMults, EditPoolSwapInvariant(p, k) PROVE Rest
    BY <1>2, <2>1, <2>3, DepthTyped
  <2> QED BY <1>5, <2>2, <2>3 DEF DispatchMsg
<1>6. ASSUME NEW sender, NEW contracts, MsgEditSudoers(sender, contracts) PROVE Rest
  BY <1>3, <1>6 DEF MsgEditSudoers
<1>7. ASSUME UNCHANGED vars PROVE Rest
  BY <1>3, <1>7 DEF vars, perpVars
<1>8. ASSUME NEW t \in Traders, NEW p \in Pairs, UnvalidatedTrade(t, p) PROVE Rest
  BY <1>2, <1>8, TradeTyped
<1>9. Rest
  BY <1>4, <1>5, <1>6, <1>7, <1>8 DEF Next
<1> QED BY <1>1, <1>9 DEF TInv

\* The genesis has the types.
LEMMA InitTyped == Init => TInv
<1> SUFFICES ASSUME Init PROVE TInv
  OBVIOUS
<1>1. BInv
  <2>1. prepaid = 0 /\ history.credit = 0 /\ IsHistory(history)
    BY DEF Init, PerpInit, IsHistory
  <2> QED BY <2>1 DEF BInv, Balanced, IsStore, IsRecord, Store
<1>2. /\ pools = [p \in Pairs |-> NewMarket(GenesisReserve[p], GenesisReserve[p], GenesisPeg[p])]
      /\ configs = GenesisConfig /\ now = 0 /\ cpf = [p \in Pairs |-> 0]
      /\ snapshots = [p \in Pairs |-> <<[ts |-> 0, pool |-> pools[p]]>>]
      /\ positions = [p \in Pairs |-> [t \in Traders |-> ZeroPosition]]
  BY DEF Init, PerpInit
<1>3. ASSUME NEW p \in Pairs PROVE pools[p] \in Pool
  <2>1. GenesisReserve[p] \in Int /\ GenesisPeg[p] \in Int
    <3>1. GenesisReserve \in [Pairs -> Nat] /\ GenesisPeg \in [Pairs -> Nat]
      BY InputAssumption
    <3> QED BY <3>1
  <2>2. NewMarket(GenesisReserve[p], GenesisReserve[p], GenesisPeg[p]) \in Pool
    BY <2>1, GenesisAssumption, NewMarketPool
  <2> QED BY <1>2, <2>2, Zenon
<1>4. pools \in [Pairs -> Pool]
  BY <1>2, <1>3
<1>5. positions \in [Pairs -> [Traders -> PositionType]]
  BY <1>2, ZeroIsPosition
<1>6. ConfigsOK
  <2>1. /\ DOMAIN GenesisConfig = Pairs
        /\ \A c \in {GenesisConfig[p] : p \in Pairs} : c.maintenance \in Nat
    BY InputAssumption
  <2> QED BY <1>2, <2>1 DEF ConfigsOK
<1>7. ASSUME NEW p \in Pairs PROVE IsSnapshots(snapshots[p], now)
  <2>1. IsSnapshots(<<[ts |-> 0, pool |-> pools[p]]>>, 0)
    BY <1>3, OneSnapshot
  <2> QED BY <1>2, <2>1, Zenon
<1>8. SnapshotsOK
  <2>1. now \in Nat
    BY <1>2
  <2>2. DOMAIN snapshots = Pairs
    BY <1>2, Zenon
  <2> QED BY <1>7, <2>1, <2>2, Zenon DEF SnapshotsOK
<1>9. Fractions
  BY <1>2 DEF Fractions
<1> QED BY <1>1, <1>4, <1>5, <1>6, <1>8, <1>9 DEF TInv, Books

\* No funding is owed on a position that was just settled.
LEMMA SettledOwesNothing ==
    ASSUME Fractions, NEW p \in Pairs, NEW pos \in PositionType, pos.cpf = cpf[p]
    PROVE  FundingPayment(p, pos) = 0
<1>1. cpf[p] - pos.cpf = 0 /\ pos.size \in Int
  BY DEF Fractions, PositionType
<1>2. 0 * pos.size = 0 /\ 0 * Scale = 0
  BY <1>1, ScaleAssumption
<1>3. ChopNat(0) = 0
  BY <1>2, ChopExact
<1>4. Mul(0, pos.size) = 0
  BY <1>2, <1>3 DEF Mul, ChopPrecisionAndRound
<1> QED BY <1>1, <1>4 DEF FundingPayment

\* A position with free collateral has some margin left at the spot price.
LEMMA FreeIsSolvent ==
    ASSUME NEW margin \in Int, NEW spot \in Nat, NEW twap \in Nat, NEW a \in Int, NEW b \in Int,
           NEW m \in Nat, margin + MinDec(0, MinDec(a, b)) - Mul(MinDec(spot, twap), m) > 0
    PROVE  margin + a > 0
<1>1. MinDec(spot, twap) \in Nat
  BY DEF MinDec
<1>2. Mul(MinDec(spot, twap), m) \in Nat
  BY <1>1, MulBounds
<1>3. MinDec(0, MinDec(a, b)) \in Int /\ MinDec(0, MinDec(a, b)) <= a
  BY DEF MinDec
<1> HIDE DEF MinDec
<1> QED BY <1>2, <1>3

\* RemoveMargin leaves the position of the trader solvent, for any pools, snapshots
\* and history: at the spot price of the pool its margin covers the loss and the
\* funding, whichever side it is on and however the average of the snapshots strays
\* from the spot price.
THEOREM RemoveMarginLeavesSolvent == Spec => RemoveMarginKeepsSolvent
<1> DEFINE Solvent ==
        \A t \in Traders, p \in Pairs, amt \in Margins \cup ContractMargins :
          RemoveMargin(t, p, amt) => \A s \in {StoreAfter} : ~ Underwater(s, p, t)
<1>1. ASSUME TInv, NEW t \in Traders, NEW p \in Pairs, NEW amt \in Margins \cup ContractMargins,
             RemoveMargin(t, p, amt)
      PROVE  ~ Underwater(StoreAfter, p, t)
  <2> DEFINE old == positions[p][t]
             margin == RemainingMargin(p, old, -ToDec(amt))
             pos == [old EXCEPT !.margin = margin, !.cpf = cpf[p]]
             w == Withdraw(Store, t, amt)
             pool == pools[p]
             spot == NotionalSpot(pool, pos)
             twap == NotionalTWAP(p, pos)
  <2>1. Fractions /\ pool \in Pool /\ old \in PositionType /\ cpf[p] \in Int
    BY <1>1, StoreTyped DEF TInv, Fractions
  <2>2. /\ Commit([w EXCEPT !.positions[p][t] = pos])
        /\ CanNotionalSpot(pool, pos) /\ CanNotionalTWAP(p, pos)
        /\ FreeCollateral(p, pool, pos) > 0
    BY <1>1 DEF RemoveMargin
  <2>3. margin \in Int
    <3>1. amt \in Int /\ Scale \in Int
      BY <1>1, InputAssumption, BindingAssumption, ScaleAssumption
    <3>2. ToDec(amt) \in Int
      BY <3>1, Products DEF ToDec
    <3>3. -ToDec(amt) \in Int
      BY <3>2
    <3> QED BY <2>1, <3>3, RemainingInt
  <2> HIDE DEF margin
  <2>4. pos \in PositionType /\ pos.margin = margin /\ pos.cpf = cpf[p]
    BY <2>1, <2>3 DEF PositionType
  <2>5. IsStore(w) /\ w.pools = pools /\ w.positions = positions
    BY <1>1, StoreTyped, WithdrawBooks DEF SameBooks, Typed
  <2> HIDE DEF pos, w
  <2>6. pools' = pools /\ positions' = [positions EXCEPT ![p][t] = pos]
    <3>1. /\ [w EXCEPT !.positions[p][t] = pos].pools = w.pools
          /\ [w EXCEPT !.positions[p][t] = pos].positions = [w.positions EXCEPT ![p][t] = pos]
      BY <2>5 DEF IsStore, IsRecord
    <3> QED BY <2>2, <2>5, <3>1, Zenon DEF Commit
  <2>7. StoreAfter.pools[p] = pool /\ StoreAfter.positions[p][t] = pos
    <3>1. positions'[p][t] = pos
      BY <1>1, <2>6, StoreTyped
    <3> QED BY <2>6, <3>1 DEF StoreAfter
  <2>8. pos.size \in Int /\ pos.openNotional \in Int /\ margin \in Int
    BY <2>3, <2>4 DEF PositionType
  <2>9. spot \in Nat
    BY <2>1, <2>2, <2>8, BasePriceNat DEF CanNotionalSpot, NotionalSpot
  <2>10. twap \in Nat
    <3>1. ModuleParams.lookback \in Nat
      BY InputAssumption
    <3>2. now \in Int /\ IsSnapshots(snapshots[p], now)
      BY <1>1 DEF TInv, SnapshotsOK
    <3> QED BY <2>2, <2>8, <3>1, <3>2, BaseTwapNat DEF CanNotionalTWAP, NotionalTWAP
  <2>11. configs[p].maintenance \in Nat
    BY <1>1 DEF TInv, ConfigsOK
  <2> DEFINE a == UnrealizedPnl(pos, spot)
             b == UnrealizedPnl(pos, twap)
  <2>12. margin + MinDec(0, MinDec(a, b)) - Mul(MinDec(spot, twap), configs[p].maintenance) > 0
    BY <2>2, <2>4 DEF FreeCollateral, MinPnl, MinNotional
  <2> HIDE DEF spot, twap
  <2>13. a \in Int /\ b \in Int
    BY <2>8, <2>9, <2>10 DEF UnrealizedPnl
  <2> HIDE DEF a, b
  <2>14. margin + a > 0
    BY <2>8, <2>9, <2>10, <2>11, <2>12, <2>13, FreeIsSolvent
  <2>15. RemainingMargin(p, pos, a) = margin + a
    <3>1. FundingPayment(p, pos) = 0
      BY <2>1, <2>4, SettledOwesNothing
    <3> QED BY <2>4, <2>8, <2>13, <3>1 DEF RemainingMargin
  <2>16. Underwater(StoreAfter, p, t) => RemainingMargin(p, pos, a) < 0
    BY <2>7, Zenon DEF Underwater, a, spot
  <2> QED BY <2>8, <2>13, <2>14, <2>15, <2>16
<1>2. TInv /\ [Next]_vars => [Solvent]_vars
  <2> SUFFICES ASSUME TInv PROVE Solvent
    OBVIOUS
  <2> QED BY <1>1
<1> QED BY <1>2, InitTyped, NextTyped, PTL DEF Spec, RemoveMarginKeepsSolvent
=============================================================================
