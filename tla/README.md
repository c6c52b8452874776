# Verification of Nibiru: TLA+ models, TLC runs and TLAPS proofs

Nibiru is a Cosmos-SDK chain. Its own code is a set of modules under `x/`, each a
keeper over a key-value store, message handlers, and hooks that run at the start
or the end of a block. This directory holds TLA+ models of those modules, TLC
configurations that check them on small instances, and TLAPS proofs.

`PROJECT.json` maps every definition to the source lines it models, lists the
runs, the mutants that show each property can fail, the hazards the properties
are aimed at, and the findings.

## 1. Inventory

| component | state | operations | talks to |
|---|---|---|---|
| perp v2 (`x/perp/keeper/v2`, `types/v2`) | markets, pools, positions, reserve snapshots; vault, ecosystem fund (PerpEF) and fee pool accounts | open, close, add/remove margin, multi-liquidate, donate; repeg, change depth, create pool; funding at the end of an epoch | bank, oracle (index TWAP), epochs |
| perp v1 (`x/perp/keeper/v1`) and perp amm (`x/perp/amm`) | as v2, with pools in a module of their own and snapshots taken every block | as v2, plus spread and trade limits, governance proposals | bank, oracle, epochs |
| oracle (`x/oracle`) | prevotes, votes, exchange rates and their snapshots, miss counters, whitelist, rewards, feeder delegations | prevote, vote, delegate; tally at the end of a vote period, slashing at the end of a slash window, reward allocation at the end of a week | staking, bank, distribution, epochs |
| epochs (`x/epochs`) | one record per epoch: start, duration, current number | advances every epoch that is due at the start of a block, calling the hooks | stablecoin, perp v1, perp v2, inflation, oracle (in that order) |
| inflation (`x/inflation`) | period, skipped epochs, parameters | mints at the end of a day, advances the period | bank, distribution, epochs |
| stablecoin (`x/stablecoin`) | collateral ratio, parameters, balances | mint, burn, recollateralise, buy back; adjusts the ratio every 15 minutes | bank, oracle, epochs |
| spot (`x/spot`) | pools, shares, total liquidity | create, join, exit, swap (balancer and stableswap) | bank |
| sudo (`x/sudo`), wasm bindings (`x/wasm/binding`) | a root account and a set of contracts | edit the set; contract messages become perp calls | perp |
| common, app, cmd, proto | none | helpers, wiring, command line, encodings | |

### What is hard here

*Concurrency.* Transactions are serialised by consensus, so there are no data
races; what is concurrent is the *order* of transactions of different users,
administrative calls, block boundaries and hooks, none of which any user controls.

*Atomicity.* A message either commits its whole effect or nothing, but a
`MsgMultiLiquidate` runs each liquidation in its own cached context, and a panic in
a hook halts the chain.

*Stale copies.* Keepers read records by value, pass them through several calls and
write them back; a record changed in between is silently overwritten.

*Numbers.* Prices, reserves and margins are 18-digit decimals with banker's
rounding, and payments are whole coins; the difference has to go somewhere.

*Long sequences.* Whether the vault can pay everyone depends on who closes first,
on bad debt that was advanced earlier and on pools re-pegged in between. Whether a
validator is slashed depends on many vote periods.

### Properties that make each component correct

* perp: the pool's net exposure is that of the positions; the vault and the fund
  together cover what the module owes; bad debt advanced by the fund is remembered
  exactly until it is consumed; no position leaves a trade unhealthy; a liquidatable
  position can be liquidated; funding reaches every market.
* oracle: a price is only built from rates committed one period earlier; votes and
  prevotes never leak into another period; a validator that votes correctly is never
  counted as missing; rewards are backed by coins; a validator within its
  allowance is not slashed.
* epochs and inflation: each epoch ends once and not early, numbers are consecutive,
  the clocks never get stuck; the period and what is minted follow the days inflation
  was switched on.
* spot: every copy of what a pool owns agrees; a swap stays on the curve and a join or
  an exit does not dilute the other owners; the last owner can leave.
* stablecoin: minting is open exactly when the ratio can follow the price, the ratio
  moves once per block, collateral stays at its target.
* sudo and wasm: only contracts that root has named and not revoked move pools.
* generated codec: what one node writes every other reads as it was meant; what was
  cut or damaged is refused or read within its bounds.

## 2. Plan

1. **perp v2** (done): arithmetic, pool, TWAP, clearing house; runs on
   trading, liquidation and two markets; the net-exposure theorem.
2. **oracle** (done): voting, tally, misses, slashing, rewards.
3. **epochs + inflation** (done): the dispatcher of the hooks as a module, inflation as
   its client; an abstract specification of periodic timers that the epochs implement,
   with liveness under a chain that keeps producing blocks.
4. **perp v1 + amm, sudo, wasm bindings** (done), composed: the bindings drive the first
   clearing house and ask the registry.
5. **spot** (done): pool shares against balances, the stableswap solver against its
   definition.
6. **stablecoin** (done), composed with the epochs.
7. **generated codec** (done): the decoder as the loop it is, with one table per message.
8. **Proofs** (done): perp v2 (net exposure, balances, prepaid debt, removal of
   margin, averages, positions), the oracle (commit-reveal, tally, misses, slashing, rewards, no panic,
   averages), the epochs as periodic timers, stablecoin, inflation, of v1 and the bindings the prepaid
   debt, the registry and the removal of margin, of spot that every copy of a pool agrees, and of
   the codec that every decoder returns. What is left to TLC is listed at the end of section 5.

Modules that proofs use contain no RECURSIVE operator; sums are the recursive
function of `PrefixSum`, over traders and snapshots, or `SumFunction` of the community
modules, over sets of validators and rewards.

## 3. Modules

### `SdkDec`
`sdk.Dec` as an integer scaled by `Scale` (10^18 in the program). `Mul` and
`Quo` round half to even as `ChopPrecisionAndRound` does, `QuoInt` truncates, `RoundInt` and `CeilInt`
convert to coins, `MustSqrtDec` is the integer square root of `x/common/dec.go`.

### `PerpV2Amm`
The virtual constant-product pool of `types/v2/amm.go`: reserves, square root of
depth, price multiplier, totals of long and short trades. Swaps in both directions,
re-pegging, change of depth, their costs. An operator `CanX` holds when the Go function
returns no error, and `X` is what it returns.

### `PerpV2Twap`
`CalcTwap`: the walk back from the newest snapshot to the start of the window.
`MCPerpV2` states what a time-weighted average is, independently, for comparison.

### `PerpV2`
The clearing house. The handlers are operators from a store (the collections and the
bank balances) to a store; an action takes one message from the small sets of inputs,
is enabled when its handler returns no error, and commits the store it returns. An
error leaves the state alone and needs no action.

| action | code |
|---|---|
| `OpenPosition` | `OpenPosition`: increase, decrease or close-and-reverse, the checks after the trade, margin and fees |
| `ClosePosition` | `ClosePosition` |
| `AddMargin`, `RemoveMargin` | `margin.go` |
| `MultiLiquidate` | `MultiLiquidate`, one cached context per request: full, partial, or failed |
| `DonateToEcosystemFund` | message of that name |
| `EditPriceMultiplier`, `EditSwapInvariant`, `ChangeMarketEnabledParameter` | `amm.go`; a market's `Enabled` flag |
| `AfterEpochEnd` | the funding hook over all markets |
| `NextBlock` | time passes |

`history` is read by no handler: what the fund advanced, what a discarded position
change moved, what funding is owed, less what a partial liquidation lets its victim off
(`LetOff`: nobody realizes the bad debt of the decrease). `Snapshots` is a constant because only genesis
writes reserve snapshots: v2 has no end-blocker.

`IndexPrices` stands for what the oracle answers; `Params`, `GenesisAmm` and
`GenesisBank` are constants with the assumptions `Market.Validate` and `AMM.Validate`
make of them (`MarketAssumption`, `GenesisAssumption`).

### `OracleBallot`
One ballot of the oracle: its power, the vote threshold, the weighted median, the
standard deviation and the voters that win. The code sorts a ballot and walks it; the
operators quantify over rates instead, which gives the same whatever the order of equal
rates.

### `Oracle`
The oracle with what it needs of staking, bank and distribution. The state is the
keeper's collections; `height` is the block height and stands for the block time too.

| action | code |
|---|---|
| `AggregateExchangeRatePrevote`, `AggregateExchangeRateVote`, `DelegateFeedConsent` | the messages |
| `EndBlock` | staking's end-blocker, then the oracle's: at the last block of a vote period the tally, misses, rewards, clearing and the whitelist; at the last block of a slash window slashing and the reset of the counters |
| `AfterWeekEnd` | the epoch hook that splits the fee pool and allocates rewards |
| `Restart` | `ExportGenesis` followed by `InitGenesis` |
| `PayFees`, `Undelegate`, `Unjail` | external: fees of perp, a validator that leaves, one that comes back |

`EndBlock` is one action because nothing can come between its parts; inside it the
order of the code is kept: staking first (`OrderedModuleNames` in `app/keepers.go`),
prices, misses, rewards, clearing, slashing. A prevote holds the report instead of its
hash: only that report passes the comparison. `halted` records a panic outside a
transaction. `history` is read by no handler: the height of the prevote a vote came
from, and tallies and faults of the current slash window.

### `PeriodicTimers`, `Epochs`, `Inflation`
`Epochs` models a block's pass over the identifiers (`BeginBlocker`) and the restart from
an export (`RestartEpochs`): the new value of every clock and the set of epochs that
ended. `PeriodicTimers` is what listeners rely on, without heights, counting flags or
genesis: periods numbered 1, 2, 3, ..., each at least a duration after the one before,
and the next one always comes while there is time. `EpochsAreTimers` states the refinement, through
the instance `T`. `Inflation` extends `Epochs`: a `Block` is the pass over the clocks
with the hook at the end of a day (`SkipEpoch`, `NoProvision`, `Mint`), `Halt` a block whose
hook panics (`HookPanics`: a provision that is positive and below a coin), `SetParams` a change by
governance of any of the four parameters to any value that passes `Params.Validate`, `Restart` export
and import of both modules. The polynomial of the provision is computed in decimals as the code does.

### `Stablecoin`
Extends `Epochs` too. A block is `BeginBlock` (the clocks and the hook that evaluates the
ratio), any of `MintStable`, `BurnStable`, `Recollateralize`, `Buyback`, and `EndBlock`:
this module's `EndBlocker` and then the oracle's, in the order of `app/keepers.go:537-540` (installed at
`:572`), which may leave other rates, an average or none. So `average` is the one the hook and `EndBlocker` of a
block evaluate, and what the oracle writes counts from the next block on. A message may carry any token,
the three the module knows and `OtherTokens`: no handler and no `ValidateBasic` looks at the denomination.
Fees, the share of the fund, rounding up of what is needed and truncation of what is paid are
those of the code; the ratio is stored in parts of `Million`.

### `StableSwap`, `Spot`
`StableSwap` is `GetD` and `SolveStableswapInvariant`: Newton's iteration in integers, each as
a turn (`StepD`, `StepY`) of one loop (`Newton`). The reference is the curve's equation, multiplied out: `NotAbove`
says that a number is not past its root, `CurveD` is that root, and `OnCurve` what `GetD` promises of it. `Spot` has an action per message (`Create`, `Join`,
`Exit`, `Swap`, each for either kind of pool; a join may bring no coins) and `Restart`. The record of the pool,
its bank account, the liquidity by denomination, the index by pair and the share coins
are separate variables, as they are separate keys; a genesis export holds none of the
module's own and all of the bank's.

### `PerpV1Amm`, `PerpV1`, `Sudo`, `WasmPerp`
The pool of the first clearing house (reserves, limits, snapshots, averages, costs of a
new peg or depth), its handlers in the style of `PerpV2`, the registry of contracts, and
their composition. Unlike v2 the first version saves a snapshot of every pool at the end
of a block, checks a spread and a trade limit, keeps one prepaid bad debt for all
markets, reads the oracle on liquidation, and is reachable from contracts. `history.totals`
and `history.priced` record that a proposal overwrote the totals or moved a
pool without a price; the vault's guarantee is stated up to that.

The bindings pass a contract's trades to the message server without `ValidateBasic` (`exec_perp.go:53-124`).
What it would have refused is `UnvalidatedTrade`: `OpenPosition` with a negative leverage or limit,
`RemoveMargin` with an amount that is not positive, `AddMargin` of coins the module does not deal in (`AddCoins` separates what is
added to the margin from what is paid in the quote denom). `unvalidated` records that one took effect.

### `ProtoWire` and the tables `Wire*`
`*.pb.go` is generated, and two thirds of it is the codec. Every `MarshalToSizedBuffer`
and every `Unmarshal` is the same code around a list of fields, so the code is modelled
once and the lists are data: `Marshals` of a table holds the tags and fields in the order in which the
bytes are written, `Unmarshals` the number and kind each field is read with. The two are read off the two
functions separately, so that a disagreement between them would show. `Unmarshal` is
an action per turn of its loop: read a tag, then a field of one of the kinds (number,
boolean, bytes, string, embedded or custom payload, lists of them) or skip an unknown
field, with every check on index and length; a number is kept as its 7-bit groups.
Payloads of embedded messages and custom types are opaque.

### `PrefixSum`, `ArithmeticProofs`
`PrefixSum` has sums over `1..n`, and over some indices of it, as a recursive function. `ArithmeticProofs` holds the
lemmas on numbers that the other proofs cite: such sums, sums over finite sets
(`SumFunctionOnSet`), and the roundings of `SdkDec`.

### `PerpV2Proofs`, `OracleProofs`, `StablecoinProofs`, `InflationProofs`, `WasmPerpProofs`, `SpotProofs`, `ProtoWireProofs`
The theorems about the component each is named after, `InflationProofs` those about the epochs too; see section 5.

### `MCPerpV2`, `MCOracle`, `MCInflation`, `MCStablecoin`, `MCSpot`, `MCWasmPerp`, `MCProtoWire`
Values of the constants for TLC; the `.cfg` files choose among them. `MCProtoWire`
gathers the tables of the nine packages.

## 4. Runs

**perp_trading** (pass). Two traders, one market: opening, closing, margin changes,
liquidation in full and in part, re-pegging, change of depth and funding in any order, with an index price
below the pool's and one above it, so that longs pay and receive funding. Checks the type
invariant (no account is overdrawn) and that: the bias of the pool is the net size of
the positions plus recorded discarded trades; vault and fund cover what positions
could withdraw; the reserves stay on the curve; a liquidatable position can be liquidated by the next
message (`LiquidationAvailable`); a position, long or short, is worth no more to its
owner after it was liquidated than before, but for the funding it is let off (`LiquidationNeverEnriches`); a long
position never leaves `RemoveMargin` underwater; no trade leaves an unhealthy position.
`LiquidationAvailable` is claimed where the code can do it: the part to sell is not the whole, the
vault holds what is left of the position and the fund its bad debt and the reward, and a part of a long is not sold while
its margin less funding is below the fee (`FeeFromNothing`; the divergences below describe both). `TwapIsAverage` compares `CalcTwap` with its
definition on the inputs in `TwapInputs`, here all snapshot sequences of a bound; it speaks of no state and is
evaluated in the first one.

**perp_liquidation** (pass). Two traders at the highest leverage in two markets with
different fees and limits that share vault and fund, two liquidations in one message:
bad debt, advances, partial liquidation (of one half in one market, and with a ratio of 1, which
`Market.Validate` allows, in the other), donations, funding of the markets in either direction, markets switched off and on,
limits of the user. The vault covers the claims, the prepaid bad debt is at least the
fund's outstanding advance, and no position has a negative open notional or, in whole coins, a negative
margin (`PositionsNearlyValid`). That is what is left of `Position.Validate`: at a ratio of 1 a position of size zero,
or of the other side, may be stored.

**oracle_voting** (pass). Vote periods of two blocks, three validators with powers 5, 2
and 2, one of which may delegate its feed. A vote that can be tallied was committed in
the period before (`CommitBeforeReveal`); a prevote lives exactly as long as it can be
revealed, although revealing compares periods and clearing compares heights
(`PrevotesFresh`, `PrevotesNotLost`); a price has the required power and number of
voters behind it, counted without abstentions (`PriceNeedsQuorum`); a majority that
agrees decides it (`MajorityDecides`). "Majority" is by more than one unit of power: the
code rounds half of the power down.

**oracle_slashing** (pass). Two slash windows of three periods with a validator that may
withdraw its stake at any time, and be unjailed. Slashing only hits validators whose share of
faithful tallies is below the minimum; the end of a block never meets a miss counter of
a validator that staking has removed, provided that unbonding takes at least a slash
window; the time-weighted price lies between the prices it averages.

**oracle_rewards** (pass). Two pairs, one of them whitelisted after prevotes on it were
made; fees, the weekly allocation (also the one that the bank refuses because a share is
zero), payouts and restarts, with two rewards pending at genesis. A validator that
reports every pair, as an abstention or at the price, is not charged with a miss,
whichever ballots fail because of others; the oracle's account holds every reward still
to be paid, and distribution received exactly what it owes.

**epochs_inflation** (pass). Two clocks, one without and one with a start time, blocks of
one or two time units, a restart, and two votes out of six proposals: inflation off and on, periods of 0, 2 or 3 days,
a polynomial without its long-term part, and another distribution.
The clocks implement `PeriodicTimers` including its liveness, unless the chain halts (`EpochsAreTimers`); the
period never runs ahead of the days inflation was on nor behind the days it minted
(`PeriodFollowsDays`, with `DaysAccounted` as its first part); every coin is in one of the three accounts, in the
shares of the distributions that were in force up to truncation, and the hook halts the chain only
while the long-term part of the provision is below a coin a day (`MintedIsAllocated`). With the vote for a
polynomial without that part the halt is reached in the instance.

**stablecoin** (pass). Blocks of a time unit with up to three transactions in all, an epoch of two time units, three
readings of the oracle, one without the collateral's rate, and four averages, one of them missing. Each message comes with
each of the three tokens. Minting and
burning are closed at the end of a block exactly if the average that block saw is missing or asks for a step past
0 or 1 (`ValidityExplained`); the ratio moves once per block although hook and end-blocker
both evaluate it (`OneMovePerBlock`); no message with its documented coin adds more than a coin's value to the
shortfall and recollateralising stops at the target, also after messages with other coins (`CollateralOnTarget`).
Of those nothing of the kind is true.

**spot** (pass). Two interchangeable traders (symmetry), up to two pools out of three kinds
(balancer with and without fees, stableswap), four transactions, joins without coins among them, and a restart. All copies agree
(`PoolsBacked`, with the index `OnePoolPerPair` and `TypeOK` as parts); `GetD` ends at the root of the curve's equation or above it,
by at most one more than its two truncated divisions explain (`DIsCurve`, for every pool that is reached and for
the balances in `Curves`, unbalanced ones on which the iteration alternates between two values until its bound included); who owns all shares can redeem them (`PoolCanBeEmptied`); a swap never
falls below the curve (`SwapKeepsCurve`) and a join or an exit never dilutes
(`SharesNotDiluted`), each up to a stated rounding.

**perp_v1** (pass). Two traders, one market, a contract that root may name and revoke, a
second account that tries; trades, contracts' trades that `ValidateBasic` would have refused, liquidations, peg and depth moves, proposals,
a missing price, block snapshots and a restart. The books balance (`VaultCoversClaims`, with
`BiasAccounted` and `TypeOK`, no account overdrawn, as parts; that the vault covers what it owes is claimed until an unvalidated trade
took effect), prepaid bad debt is exactly the outstanding advance
(`PrepaidIsCredit`, which the second version violates), removing margin never leaves a
position underwater, short or long (`RemoveMarginKeepsSolvent`, which v2 guarantees for longs only),
and only contracts in root's favour move pools (`OnlyGrantedContractsMovePools`).

**codec** (pass). Every message of the nine packages, empty, with all fields (two values
of each) and with each field alone: its encoding by itself, after that of a full message,
with unknown fields in between, cut at every byte, and damaged at every byte; what was accepted from a damaged buffer is encoded and
read again. What was written is understood (`MarshalledIsUnderstood`), a cut
buffer gives an error or a prefix (`CutIsPrefix`), every turn of the loops takes a byte and none
past the end (`EveryTurnAdvances`). Deadlock is checked: a decoder that has not returned can go on.

**violation runs.** Each shows one place where a comment in the code or in a
proto file or a module's README says something the code does not do; they are described under
"Findings" below.

### Findings

* `perp_stale_prepaid`: a full liquidation writes back the market it read before bad
  debt consumed the prepaid debt, so consumed prepaid debt returns.
* `perp_funding_skip`: one market that is disabled or has another epoch ends the
  funding loop for the markets after it.

Other places where the code and its documents differ, met while modelling and kept in
the models as the code has them, without a run of their own:

* The partial liquidation of a short in v2 multiplies by a negative size
  (`liquidate.go:262`), which the pool treats as zero: the short is charged and sold nothing, and stays
  liquidatable. `LiquidationNeverEnriches` says what holds of either side. In v1 the amount is priced as a
  sale, too.
* The bad debt of the decrease inside a partial liquidation, funding the margin cannot pay, is dropped in both
  versions: nobody realizes it (`LetOff`).
* v2 cannot liquidate a part of a long in profit whose margin, less the funding it owes, is below
  the fee: the margin is cut at zero, the fee is taken out of it, and `sdk.NewCoin` of the
  event panics on what is left (`FeeFromNothing`). With a partial ratio of 1 rounding may give a negative open notional, an error, or
  store a position of size zero or of the other side.
* Contracts' trades pass no `ValidateBasic` (`exec_perp.go:53-124`): removing a negative margin raises the margin and
  no coins are paid, and coins of any denomination are added to a margin. The vault of v1 then does not cover
  what it owes; `VaultCoversClaims` speaks of it only while no such message took effect.
* `RemoveMargin` of v2 "fails if the position goes underwater" (`margin.go:99`), but the free
  collateral is computed from the smaller notional (`margin.go:140`), the better one for a short; a
  short can leave itself underwater. `RemoveMarginKeepsLongsSolvent` says what holds.
* After a restart the next oracle reward takes the id of the last pending one
  (`x/oracle/genesis.go:79` restores the sequence to the last id, not past it) and replaces it;
  `oracle.proto:135` says an id is unique. The coins stay in the account, so `RewardsBacked` holds.
* An epoch longer than a day divides by zero in the funding hooks (v1 `hooks.go:51`, v2 `hooks.go:46`), and a weekly
  fee share that truncates to zero panics in the oracle's hook (`hooks.go:54`; `AfterWeekEnd` models it).
* v1: a change of depth is priced with both totals taken as base to sell, proposals that change
  reserves or depth do not compensate the vault, and `EditPoolConfig` and the restart reset the totals of a pool although
  `amm/types/pool.go:34` calls their difference the net exposure: hence `history.priced` and
  `history.totals`. A restart after trades that left unequal reserves panics in
  `CreatePool`. The trade limit also stops closing and liquidating trades, a missing
  oracle price stops closing and liquidating, and a partial liquidation whose fee exceeds the margin
  panics in `NewCoin`, which aborts the whole message.
* spot: the genesis export forgets the pools while the bank keeps their coins and shares
  (`PoolsBacked` weakens to "at least" after a restart); a pair's index key concatenates
  denominations without a separator; with `StartingPoolNumber` 0 every pair seems to have a pool;
  an exit is refused if one of its parts truncates to zero; a stableswap pool may pay up
  to two units more than the curve.
  `GetD` does not converge on unbalanced pools (balances 1000000 and 1 with amplification 2 alternate between 31457 and 31470, the
  root being 31454) and returns where its 255 turns end; and a stableswap
  pool that was emptied can be joined without coins, which mints shares for nothing.
* stablecoin: what minting takes is truncated, so that each mint may be short of collateral by
  less than a coin. No handler checks that the coin of a message is the one its field is named after
  (`mint_burn_stable.go:293-365`, `collateral_ratio.go:195`, `:374`): burning another coin pays out collateral while
  the supply of NUSD stays. The module's end-blocker runs before the oracle's, so a first snapshot opens
  minting a block later.
* inflation: a polynomial whose long-term part is zero passes `Params.Validate` (`params.go:94`); once its
  provision is positive and below a coin the hook panics in the begin-blocker and the chain stops.
* A reverse trade whose base amount rounds to the whole position moves the pool, and
  the zero-sized position is neither stored nor deleted (`clearing_house.go:559`).
  `BiasAccounted` has the term `dropped` for it.
* `TotalLong` and `TotalShort` of a pool count trades in their direction and never
  shrink; `state.proto:149` calls the former the sum of the long open notional.
* The weighted median stops at half of the power rounded down (`types/ballot.go:121`):
  with powers 1 and 2 the price is the rate of the smaller. `MajorityDecides` says what
  is true instead.
* Abstentions enter the standard deviation (`types/ballot.go:142`) and widen the band in
  which votes win; the oracle's README says they are ignored.
* Pairs whose ballots fail are excused for everyone, so when all fail a validator that
  sent nothing has no miss (`keeper/ballot.go:119`).
* `SlashWindow` counts blocks, not vote periods. If it is not a multiple of
  `VotePeriod` a window can hold more tallies than the divisor (`slash.go:15`) and
  `SlashedOnlyBelowMinimum` fails; the runs use multiples, and the theorem assumes one.

### Bounds

`Scale = 100` keeps two decimal digits: roundings happen on nearly every
trade, far more often than at 10^18. `MaxTxs` bounds the length of a behaviour (5 or 6
steps, enough to open on both sides, move the price, realise bad debt and close),
`MaxTime` the block time, `MaxRequests` the liquidations in one message. The pool is
shallow, so two traders move its price by tens of percent, and leverages reach the
market's maximum. `perp_trading` allows a leverage of 5 with a maintenance ratio of 16 percent and sells one half in a
partial liquidation, so that positions are unhealthy without being insolvent; `perp_liquidation` goes
to a leverage of 10. In the oracle's runs `MaxHeight` bounds the blocks (a
commitment made in the first period is tallied in the second and its traces are gone in
the third), `MaxFees` and `MaxWeeks` the payments; two or three validators of unequal
power with rates far apart (1 and 3), abstentions and missing votes give every kind of
ballot. The parameters satisfy `Params.Validate`. The runs say `CHECK_DEADLOCK FALSE` because the bounds end every
behaviour.

`MaxTime`, `MaxStep` and `MaxRestarts` bound the clocks (nine time units against durations of two
and three: several epochs on either side of a restart, blocks that come exactly at, before and
after the end of an epoch), `MaxVotes` the parameter changes, `MaxPools` and `MaxRestarts` the pools
and exports of spot. The stableswap amounts are small enough for 32-bit products and large
enough that the iteration takes several steps and rounds; `Curves` adds balances of up to 1275 against 1 or 2, where it
does not converge. In the codec each kind of field has two values, one
of them of two bytes; a cut or a damage at every byte of every encoding meets each check
of the loop. `Damage` holds the bytes that matter: zero, a small one, one with the continuation bit alone, and
all ones.

### Fairness

`Inflation!FairSpec` assumes weak fairness of blocks that let time pass: consensus goes on producing
blocks, and each has a later time than the one before. A block whose hook panics counts (`Halt`): it ends the
chain, and `EpochsAreTimers` promises liveness only of a chain that does not halt. Nothing is assumed of
governance, restarts or users. `EpochsAreTimers` needs it for the clocks to advance; since time is bounded in
the instance, "the next period comes" is claimed while there is time for it, allowing for
a block and a restart in between (`Slack`). No other property is a liveness property: a
user need never send a message, and termination of the decoder is shown by `EveryTurnAdvances`, a
measure, with deadlock checking.

## 5. Proofs

Each theorem holds for every number of traders, markets, validators or clocks, every
scale, every parameter that passes validation and every input. What is assumed of the constants is in the
named ASSUMEs of the modules, which TLC evaluates on every run.

### perp v2 (`PerpV2Proofs`)

| theorem | states |
|---|---|
| `BiasAlwaysAccounted` | `Spec => []BiasAccounted` |
| `TypesAndBalances` | `Spec => []TypeOK`: no account is ever overdrawn |
| `PrepaidAlwaysCoversCredit` | `Spec => []PrepaidCoversCredit` |
| `RemoveMarginLeavesLongsSolvent` | `Spec => RemoveMarginKeepsLongsSolvent` |
| `TwapsAreAverages`, `TwapAlwaysAverage` | any average `CalcTwap` returns is the one of the price in force at each instant; `Spec => []TwapIsAverage` |
| `PositionsAlwaysNearlyValid` | `Spec => []PositionsNearlyValid`: no open notional is ever negative, no margin is below zero by half a coin or more |
| `PositionsStayValid` | `Spec /\ [][NoPartOfLong]_vars => []PositionsValid`: every stored position passes `Position.Validate` |
| `GrownPositionsHealthy`, `TradesLeaveHealthy` | `Spec => [][NoPartOfLong => LeavesHealthy]_vars`; `Spec /\ [][NoPartOfLong]_vars => TradeLeavesHealthy` |

Assumptions: a positive scale, a valid genesis pool with no bias, parameters that pass
`Market.Validate`, an integer (`sdk.Dec`) maintenance ratio, amounts that pass `ValidateBasic` of the messages, genesis snapshots
of valid pools in the order of their times, balances that are natural numbers.

The inductive invariant of the first is `IInv == StoreOK(Store)`: the pools and the sizes of the stored
positions are integers of the right shape, positions that are not stored have size zero, and the bias
equation holds per market. The shape part is needed because the equation is about
a sum over all traders, and changing one position changes the sum by exactly the
difference only if all terms are integers (`SumOfUpdate`). Every handler maps an
OK store to an OK store; the proof follows the call structure of the code, with one
lemma per handler and one step per outcome. A swap changes the bias by the signed base amount it
exchanges; the position changes by the same amount, or is discarded and recorded.

The next three rest on `FInv == IInv /\ Funds(Store) /\ Bounded`. `Funds` says that balances and prepaid debt are
natural numbers and that the credit of a market is at most its prepaid debt. It is inductive
because `Withdraw` advances what the vault lacks before it pays, `RealizeBadDebt` takes prepaid debt before it takes
coins of the fund, and every other payment is guarded by the sender's balance. That `prepaid` is at least, and not
equal to, the credit is the finding `perp_stale_prepaid`: a full liquidation may write back an older, larger value. For
`RemoveMargin` the argument is that the free collateral is computed from the smaller of the spot and the
time-weighted notional, which for a long is the worse one; `CalcTwap` only has to be an integer.

The average. `CalcTwap` scans the snapshots from the newest down, weights each price by the time to the snapshot
after it and divides by the time covered. Its reference is a sum over instants: at each instant of the window the price
of the last snapshot not after it is in force. The two agree because every visited snapshot is in force on exactly one
stretch of instants (`EndOf`, `InForceIs`), the stretches do not overlap and fill the window, and the sum over a stretch on
which the price is constant is that price times its length (`InstantsSum`, `ConstantStretch`). That snapshots are in
the order of their times is needed, and holds of every timeline the model stores.

The positions. `PositionsNearlyValid` is inductive together with `FInv` (TLC checks it on `perp_liquidation`
too). Trades store a margin and an open notional that are not negative; `RemoveMargin` takes at most the free collateral;
`DecreasePosition` refuses a negative open notional; and the event of a partial liquidation shows the margin that is left as a coin, where
`sdk.NewCoin` panics on a negative amount, which reverts the message. That coin is the rounded margin, hence "half a
coin": a partial liquidation can store a margin slightly below zero. It is the only message that can break `Position.Validate`:
of a long it sells a part and charges a fee, and by rounding the part may be the whole (a stored
position of size zero) or, with the loss it realizes, slightly more than the margin has. Of a short it sells nothing: the size passed to the
swap is negative, and the quote amount is then zero. So the
hypothesis `NoPartOfLong`, that no request of `MultiLiquidate` in the step sells part of a long, is what the
argument needs; TLC shows that it excludes real steps. Under it `PositionsValid`, which `PerpV2Proofs` defines, is inductive (`VInv`).
`LeavesHealthy` is what `TradeLeavesHealthy` says of one step. Only `OpenPosition` then makes a
position grow or change sides, and what it stores is what `afterPositionUpdate` judged, by the same margin ratio,
on the same pool and snapshots, by which `liquidate` decides.

### oracle (`OracleProofs`)

| theorem | states |
|---|---|
| `CommitAlwaysBeforeReveal`, `PrevotesAlwaysFresh`, `PrevotesNeverLost` | the commit-reveal scheme: `[]CommitBeforeReveal`, `[]PrevotesFresh`, `PrevotesNotLost` |
| `EveryPriceHasQuorum`, `MajorityAlwaysDecides` | `PriceNeedsQuorum`, `MajorityDecides` |
| `FaithfulAreNotCounted` | `FaithfulNeverMisses` |
| `SlashedAlwaysBelowMinimum` | `SlashedOnlyBelowMinimum`, if `SlashWindow % VotePeriod = 0` |
| `EndBlockAlwaysEnds`, `RewardsAlwaysBacked` | `[]EndBlockNeverPanics`, `[]RewardsBacked` |
| `TwapAlwaysBetweenPrices` | `[]TwapBetweenPrices` |

The first three need a positive vote period only. Their
inductive invariant `IInv` joins the two invariants, because a vote is only as old as the
prevote it came from, and adds `HeightsOK`: heights are natural numbers and no prevote is
from the future. The point of the argument is the last block of a period: a prevote
survives clearing, which compares heights, exactly if its period is the one that ends
(`RecentIsThisPeriod`, `OldIsEarlierPeriod`), and so exactly if revealing, which compares
periods, can still accept it.

The others rest on `TInv`, which TLC checks on the three oracle instances too, and assume what `Params.Validate` checks
(fractions between 0 and 1), finitely many validators and pairs, a genesis whose rewards are covered by
the account, and that staking's unbonding time is at least a slash window (`StakingAssumption`; by default
three weeks against one). Its parts:

* `FundsOK`: the rewards still to be paid are covered by the account, and distribution got what it owes. Inductive
  because the winners' portions are rounded down (`PortionsBound`) and each payout lowers what is
  promised by the whole reward of the period, paid or not.
* `MissesOK`: a miss counter belongs to a validator that staking still knows, and if that validator is
  leaving, it began to in this slash window; at the first block of a window there is none. With
  the unbonding time this is why `SlashAndResetMissCounters` never meets a removed validator.
* `ChainOK`, `ReportsOK`, `PricesOK`: types, and that every vote is one of the reports.

The median is a rate at which half of the power, rounded down, is reached and before which it is
not, so a group with more than half of the power and one unit cannot lie on one side of it
(`MajorityAlwaysDecides`).

`SlashedAlwaysBelowMinimum` adds `WindowOK`: a slash window of whole vote periods has at most `SlashWindow \div
VotePeriod` tallies, and a counter is at most the validator's recorded faults. The hypothesis is needed: see the last of
the divergences in section 4.

`TwapAlwaysBetweenPrices` adds `TimelinesOK`: the snapshots of a pair are in the order of their times, none is from the
future and their prices are integers. It is inductive because a block either replaces the snapshot of its own time
or adds a later one. Then all weights are natural numbers, and a weighted average of integers lies
between the least and the greatest of them, one unit of rounding included (`AverageBetween`). Of
the look-back it assumes only that it is an integer.

### epochs (`InflationProofs`)

`EpochsRefineTimers` (`EpochsSpec => T!TimersSafe`) is the safety half of the refinement, for any identifiers, durations, start times, block times
and restarts, from `EpochsAssumption` (a genesis in which no clock counts yet). The
inductive invariant `ClocksOK` says that each clock still has the start time and the
duration of the genesis file and is counting exactly when it has a number: without it an
export could restore a clock that starts at 1 again. Every step of the module is then, for every
clock, the begin of its first period, the end of one or nothing (`EpochsStep`).
`EpochsNeverEarly` (`EpochsSpec => []NeverEarly`) sums the steps up: the n-th epoch begins
at least n - 1 durations after the start time. The fairness half of `PeriodicTimers` is TLC's.

### stablecoin (`StablecoinProofs`)

`RatioMovesOncePerBlock` (`[]OneMovePerBlock`), `ValidityAlwaysExplained` (`[]ValidityExplained`) and
`CollateralStaysOnTarget` (`CollateralOnTarget`), for any parameters between 0 and 1, prices, averages, amounts, tokens and blocks. The
inductive invariant `IInv` has the types, those of the clocks included, and, for the ratio, that a move made by the epoch hook left minting
open, which is why the end of the block does not evaluate the ratio again. The second is about the average the block saw: the hook and
the end-blocker have the same one, because the oracle writes after both. The third is an argument
about roundings: what is taken from and given to the protocol in each of the four messages, with the coin it documents (`DocumentedMessage`),
differs from the exact amount by less than a coin (`MulBounds`, `QuoBounds`, `CeilBounds`). Ratios are stored in parts of a
million, and `Scale % Million = 0` (10^18 and 10^6) makes their conversion exact.

### inflation (`InflationProofs`)

`PeriodAlwaysFollowsDays` (`[]PeriodFollowsDays`) and `MintedAlwaysAllocated` (`[]MintedIsAllocated`), over the clocks of
the epochs above. The inductive invariant adds to the two properties that before the first day nothing was
counted and that coins are minted on active days only (`DaysOK`). Of the parameters only their validation is
assumed (`ValidateExponentialCalculation`, `ValidateInflationDistribution`), at genesis and in every proposal. `HaltOK`
says what a halt needs: the provision is at least its constant part, `c` over the days of a period, because
the rest is not negative; so if that part is a coin or more, no mint truncates to zero and the hook does not panic.
The shares of the reserve are summed up by the distribution in force at each mint.
The genesis period is positive; governance may set 0, which stops the minting.

### perp v1, sudo, bindings (`WasmPerpProofs`)

`PrepaidAlwaysCredit` (`[]PrepaidIsCredit`): `Balanced(Store)` says that prepaid debt equals the outstanding advance;
`Withdraw` and `RealizeBadDebt` move both by the same amount, and all other handlers keep both. In v1
the prepaid debt is a record of its own that no handler overwrites with a copy, hence the equation that v2 does not have.
`OnlyGrantedContractsEverMovePools` (`[]OnlyGrantedContractsMovePools`): the stored set is exactly what root granted
and has not revoked (`GInv`), so a message that passes `CheckPermissions` comes from a granted contract.
`RemoveMarginLeavesSolvent` (`Spec => RemoveMarginKeepsSolvent`): after the message the margin covers the loss at the
spot price, for longs and shorts, where v2 guarantees it for longs only. In v1 the profit is the smaller of the
two profits, and not the one of the smaller notional. The free collateral is the margin, plus that profit when it is a loss,
minus the maintenance margin; it is positive, so the margin exceeds the loss, provided the maintenance margin
is not negative. That is what the inductive invariant `TInv` is for (TLC checks it on the instance of `perp_v1`): the
pools of the markets and of all snapshots hold integers and a positive peg, the snapshots of a pair are a nonempty
sequence in the order of their times (`IsSnapshots`, which makes the weights of the average natural numbers that are not all
zero), and positions, premium fractions and maintenance ratios have their types. Every handler keeps it, with one
lemma per response (`IncreaseResponse`, `DecreaseResponse`, `CloseResponse`, ...), per outcome of a liquidation and per
administrative message. Assumptions: parameters within the ranges of `Params.Validate`, a genesis and configurations that
pass `Validate`, of users' messages natural amounts and positive leverages (`InputAssumption`, from `ValidateBasic`), and of contracts'
messages, which nobody validates, integers (`BindingAssumption`): all three theorems hold after unvalidated trades too.

### spot (`SpotProofs`)

`PoolsAlwaysBacked` (`[]PoolsBacked`) and `PoolsCanAlwaysBeEmptied` (`[]PoolCanBeEmptied`), for any traders, denoms, fees,
weights, amplifications, amounts and genesis exports. The assumptions are those of the module: fees
between 0 and 1, positive amounts in the coins of the messages (`InputAssumption`) and accounts of
pools that are no trader's (`AccountAssumption`). The inductive invariant `PInv`, which TLC
checks on the spot instance as well, adds to the property

* `PoolsTyped`, `BankTyped`: every stored pool has two whitelisted coins with natural balances, no account is overdrawn,
  and the numbers in use are below the next one;
* `FreshAreEmpty`: until a genesis export, nobody has paid into a pool that does not exist yet. Without it
  `NewPool` could find coins in its account, and the equations of `PoolsBacked` would fail.

The argument has two halves. Every message is a step that changes one record, its account, its share coins and the
totals by the same amounts (`Moves`), and any such step keeps the invariant (`MovesKeep`). What is left is that
each handler is such a step, that is, that it computes amounts the record can give:

* an exit pays a rounded part of each balance, at most all of it (`OutOfPool`);
* a swap of a balancer pool pays `y (1 - x / (x + in))`, at most `y`; a swap of a stableswap pool pays the difference
  to the balance that `SolveStableswapInvariant` returns. Its loop subtracts unsigned numbers: the divisor `2y + b - D` is positive
  for the first guess `D`, and the tangent inequality gives every later guess at least `D - b`, so it stays positive and
  nothing wraps (`StepYWithin`). It starts from a positive `D` because each turn of `GetD` keeps it so (`StepDPositive`);
* a join records exactly what it takes: the balanced part whole in one coin and rounded in the other, and the rest
  by a single-coin join, together every coin that was sent (`BalancerShares`, `BothJoined`, `AddAllIs`); one
  without coins leaves the record as it was (`AddNothing`).

What the loops compute, as opposed to where they stay, is TLC's (`DIsCurve`). The loop is a recursive
function; its turns are handled by least counterexample (`RunExists`, `NewtonWithin`).

### codec (`ProtoWireProofs`)

`AnyBytesReturn` (`AnyBytes /\ [][Next]_vars => []EveryTurnAdvances`): for any table of fields and any sequence of bytes,
whether or not a `Marshal` wrote it, each turn of the loops of `Unmarshal` and `skip` takes at least a byte and none past
the end, so there are at most as many turns as bytes. `EveryTurnAlwaysAdvances` (`Spec => []EveryTurnAdvances`) is
the case of the buffers of the run: `InitIsBuffer` shows that what is marshalled, extended, cut and damaged is a
sequence of bytes. The inductive invariant `TurnsOK` adds to the property that the buffer holds bytes and that every field
has a value of its kind; the second is needed because `Store` marshals what was accepted and has it read
again. The work is in the helpers: a varint that is accepted ends at or after where it begins and inside the bytes;
a length is accepted only if it is not `TooLong` (2^28 or more: negative or past the end in Go's arithmetic, of any buffer shorter than that); and
an element that `skip` passes over ends after it begins. `TablesAssumption` says that the two tables of a message are
about the same fields, `InputAssumption` that samples are values of their kinds.

### arithmetic (`ArithmeticProofs`)

The facts about sums and about the loop of `Dec.Power` are proved by least counterexample
(`LeastNatural`, `LeastSubset`), because the induction theorems of the library take an operator
argument that the installed back ends cannot instantiate. The bounds on `Mul`, `Quo`, `Quot` and `CeilInt` say how far a
rounded result is from the exact one.

### Only model-checked

* `VaultCoversClaims` (v1 and v2), `ReservesOnCurve`, `LiquidationNeverEnriches`: each
  holds up to roundings of several chained products and quotients, with an allowance chosen for the
  instances; for arbitrary pegs and depths the allowance would itself be a function of them.
* `TradeLeavesHealthy` in steps that liquidate a part of a long: a partial liquidation with a ratio of 1
  may by rounding leave a position of the other side, so there the property depends on the
  parameters of the run. `PositionsValid` fails in such steps; `PositionsNearlyValid` does not and is proved.
* `LiquidationAvailable`: that a liquidation ends without an error needs bounds on the outcome of a reverse swap against
  the reserves, again over several rounded products. `EpochsAreTimers`, its fairness half: liveness.
* `DIsCurve`, `SwapKeepsCurve`, `SharesNotDiluted`: what Newton's iteration and the approximate root
  compute, which is induction over data with no bound on the error.
* The codec (`MarshalledIsUnderstood`, `CutIsPrefix`): decoding what was encoded is an induction over
  byte sequences.

## 6. Not modelled

Addresses, denominations in perp and oracle (one quote denom; the foreign coins a contract may add to a margin in v1 are
modelled as no quote coins), events, logging,
telemetry, gas, queries, perp v2's genesis export (it writes what it read), a change of the oracle's parameters while
the chain runs, validators beyond `MaxValidators`. Of spot, the estimates only queries use
(`price.go`, `CalcInAmtGivenOut`); of v1, metrics other than the net size, `SettlePosition` and the store
migrations, which nothing in the application calls; of the bindings, the querier and JSON. Of the generated code
`Size`, accessors, descriptors, gRPC stubs and the REST gateway: they keep no state and decide
nothing. Command line, simulation and test utilities are outside the state machine, and the
application's wiring enters the models only as the order of modules and hooks. `PROJECT.json` lists them.
Overflow of `sdk.Dec` (315 bits) is not modelled: the bounds the program
accepts for amounts stay far below it.
