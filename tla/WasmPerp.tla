------------------------------ MODULE WasmPerp ------------------------------
(***************************************************************************)
(* The smart-contract bindings (x/wasm/binding): contracts act on the      *)
(* first perp module, and those in the sudo registry also move its pools.  *)
(* OpenPosition, ClosePosition, AddMargin and RemoveMargin of a contract   *)
(* call the handlers of the messages of the same name, with the sender the *)
(* contract names, and skip ValidateBasic: with arguments it would pass    *)
(* they are steps of Trade, with others steps of UnvalidatedTrade.         *)
(* PegShift and DepthShift exist only here.                                *)
(***************************************************************************)
EXTENDS PerpV1, Sudo

CONSTANTS
    Pegs, DepthMults,               \* inputs of PegShift and DepthShift
    ContractLeverages, ContractLimits, ContractMargins   \* inputs of contracts' trades

ASSUME BindingAssumption ==
    /\ Pegs \subseteq Int /\ DepthMults \subseteq Int
    /\ ContractLeverages \subseteq Int /\ ContractLimits \subseteq Int
    /\ ContractMargins \subseteq Int

VARIABLES          \* read by no handler
    movers,        \* contracts that moved a pool without a grant
    unvalidated    \* a message took effect that ValidateBasic would have refused

vars == <<perpVars, sudoVars, movers, unvalidated>>

Init == PerpInit /\ SudoInit /\ movers = {} /\ unvalidated = FALSE

\* A contract's trade whose arguments ValidateBasic would refuse: a leverage or a
\* limit that is negative, margin in another denom or of no coins, a margin to
\* remove that is not positive.  The denom of RemoveMargin is read by nobody.
UnvalidatedTrade(t, p) ==
    /\ \/ \E dir \in Directions, quote \in QuoteAmounts, lev \in ContractLeverages,
             limit \in ContractLimits :
             /\ lev < 0 \/ limit < 0
             /\ OpenPosition(t, p, dir, quote, lev, limit)
       \/ \E amt \in ContractMargins : AddCoins(t, p, amt, 0)
       \/ \E amt \in ContractMargins : amt <= 0 /\ RemoveMargin(t, p, amt)
    /\ unvalidated' = TRUE
    /\ UNCHANGED <<sudoVars, movers>>

\* DispatchMsg of the two permissioned messages.
DispatchMsg(contract) ==
    /\ CheckPermissions(contract)
    /\ \E p \in Pairs :
          \/ \E peg \in Pegs : EditPoolPegMultiplier(p, peg)
          \/ \E multiplier \in DepthMults : EditPoolSwapInvariant(p, multiplier)
    /\ movers' = IF contract \in granted THEN movers ELSE movers \cup {contract}
    /\ UNCHANGED <<sudoVars, unvalidated>>

MsgEditSudoers(sender, contracts) ==
    /\ Step
    /\ EditSudoers(sender, contracts)
    /\ UNCHANGED <<pools, configs, snapshots, positions, cpf, prepaid, netSize, bank,
                   index, now, history, movers, unvalidated>>

Next ==
    \/ PerpNext /\ UNCHANGED <<sudoVars, movers, unvalidated>>
    \/ \E t \in Traders, p \in Pairs : UnvalidatedTrade(t, p)
    \/ \E contract \in Contracts : DispatchMsg(contract)
    \/ \E sender \in Senders, contracts \in SUBSET Contracts :
          MsgEditSudoers(sender, contracts)

Spec == Init /\ [][Next]_vars

-----------------------------------------------------------------------------
(* Properties. *)

PositionType == [stored : BOOLEAN, size : Int, margin : Int,
                 openNotional : Int, cpf : Int]

\* The collections hold values of their protobuf types, and no account is
\* overdrawn by any sequence of payments.
TypeOK ==
    /\ \A p \in Pairs : /\ pools[p] \in PoolType
                         /\ ValidConfig(configs[p])
                         /\ cpf[p] \in Int
                         /\ \A t \in Traders : positions[p][t] \in PositionType
    /\ prepaid \in Nat
    /\ \A a \in Accounts : bank[a] \in Nat
    /\ sudoers.contracts \subseteq Contracts
    /\ unvalidated \in BOOLEAN

\* "the net amount of base assets for longs minus the net amount of base assets
\* for shorts": the bias of a pool and the net size of its metrics are the sum of
\* the stored positions, whatever opened, reversed, closed or liquidated them and
\* across a restart, as long as no proposal overwrote the totals.
BiasAccounted ==
    \A p \in Pairs : history.totals[p] =>
        /\ GetBias(pools[p]) = NetSize(p) + history.dropped[p]
        /\ netSize[p] = NetSize(p) + history.dropped[p]

\* Withdraw and realizeBadDebt keep the credit exactly: the prepaid bad debt is
\* what the fund advanced and no realised bad debt has used, also when several
\* liquidations of one message and a restart come between.
PrepaidIsCredit == prepaid = history.credit

\* What the traders of p could take out of the vault by closing in turn.
Equity(p) ==
    [t \in Traders |->
        LET pos == positions[p][t] IN
        RemainingMargin(p, pos, 0)
        - (IF pos.size > 0 THEN pos.openNotional ELSE -pos.openNotional)]
BiasValue(p) ==
    IF GetBias(pools[p]) < 0 THEN -GetBaseAssetPrice(pools[p], GetBias(pools[p]))
    ELSE GetBaseAssetPrice(pools[p], GetBias(pools[p]))
VaultSurplus ==
    ToDec(bank[Vault]) - ToDec(history.credit)
    - SumOf([p \in Pairs |-> SumOf(Equity(p), NumTraders) + BiasValue(p)
                             + history.funding[p]], NumPairs)
\* Payments round to whole coins, twice in a message at most.
RoundingPerStep == One

\* The books balance: BiasAccounted, no account is overdrawn, also by a contract's
\* message that nobody validated, and until there was one
\* the vault covers what it owes while the pools were moved by trades, pegs and
\* restarts alone: margins, payouts, liquidation fees, realised bad debt and the
\* price of a new peg balance in every order.
VaultCoversClaims ==
    /\ TypeOK
    /\ BiasAccounted
    /\ (\A p \in Pairs : /\ history.totals[p]
                         /\ history.priced[p]
                         /\ history.dropped[p] = 0) /\ ~ unvalidated
          => VaultSurplus >= -(RoundingPerStep * txs)

StoreAfter == [pools |-> pools', positions |-> positions', prepaid |-> prepaid',
               netSize |-> netSize', bank |-> bank', history |-> history']

\* Closing the position of the store s would leave bad debt.
Underwater(s, p, t) ==
    LET pos == s.positions[p][t] IN
    RemainingMargin(p, pos, UnrealizedPnl(pos, NotionalSpot(s.pools[p], pos))) < 0

\* RemoveMargin "fails if the position goes underwater", for longs and shorts and
\* for the amounts a contract sends: the lowest notional and the lowest profit are
\* picked separately.
RemoveMarginKeepsSolvent ==
    [][\A t \in Traders, p \in Pairs, amt \in Margins \cup ContractMargins :
          RemoveMargin(t, p, amt) => \A s \in {StoreAfter} : ~ Underwater(s, p, t)]_vars

\* PegShift and DepthShift reach a pool only from a contract that root has added
\* and not removed since, however the edits of the registry, refused ones
\* included, and the contract's messages interleave.
OnlyGrantedContractsMovePools == movers = {}
=============================================================================
