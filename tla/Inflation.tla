----------------------------- MODULE Inflation ------------------------------
(***************************************************************************)
(* The inflation module (x/inflation), composed with the clocks of         *)
(* x/epochs: at the end of every day epoch it mints an amount that decays  *)
(* from period to period, and splits it between the stakers, the community *)
(* pool and a reserve that stays in the module's account.                  *)
(*                                                                         *)
(* The bank and distribution modules are external: an account is a number. *)
(***************************************************************************)
EXTENDS Epochs, SdkDec

CONSTANTS
    DayEpochID,           \* the identifier the hook listens to
    EpochsPerPeriods, Calculations, Distributions,
                          \* values governance may give EpochsPerPeriod,
                          \* ExponentialCalculation, InflationDistribution
    GenesisEpochsPerPeriod, GenesisCalculation, GenesisDistribution,
    Proposals,            \* the combinations governance may vote for
    PowerReduction,       \* sdk.DefaultPowerReduction
    MaxVotes              \* bound on changes of the parameters by governance

\* What the parameters' validation asks of the values: decimals, not negative, a
\* decay of at most one, shares that add up to one.
ValidateExponentialCalculation(c) ==
    c \in [a : Nat, r : 0..Scale, c : Nat]
ValidateInflationDistribution(d) ==
    /\ d \in [stakingRewards : Nat, communityPool : Nat, strategicReserves : Nat]
    /\ d.stakingRewards + d.communityPool + d.strategicReserves = One

ASSUME InflationAssumption ==
    /\ DayEpochID \in EpochIds
    /\ EpochsPerPeriods \subseteq Nat
    /\ \A c \in Calculations : ValidateExponentialCalculation(c)
    /\ \A d \in Distributions : ValidateInflationDistribution(d)
    /\ GenesisEpochsPerPeriod \in EpochsPerPeriods \ {0}
    /\ GenesisCalculation \in Calculations
    /\ GenesisDistribution \in Distributions
    /\ Proposals \subseteq BOOLEAN \X EpochsPerPeriods \X Calculations \X Distributions
    /\ PowerReduction \in Nat \ {0}
    /\ MaxVotes \in Nat

VARIABLES
    enabled,           \* InflationEnabled
    epochsPerPeriod,   \* EpochsPerPeriod
    calculation,       \* ExponentialCalculation
    distribution,      \* InflationDistribution
    period,            \* CurrentPeriod
    skipped,           \* NumSkippedEpochs
    bank,              \* balances of the accounts inflation pays to
    halted,            \* the hook panicked: no block is committed any more
    history            \* read by no handler

params == <<enabled, epochsPerPeriod, calculation, distribution>>
inflationVars == <<params, period, skipped, bank, halted, history>>
vars == <<epochVars, inflationVars>>

(***************************************************************************)
(* history.mints:  day epochs at whose end coins were minted               *)
(* history.active: day epochs that ended with inflation switched on        *)
(* history.minted: the coins minted so far                                 *)
(* history.shares: the parts of them due to the reserve, in smallest       *)
(*                 decimals, by the distribution in force at each mint     *)
(* history.votes:  changes of the parameters, for the bound MaxVotes       *)
(***************************************************************************)

TruncateInt(d) == Quot(d, Scale)

\* sdk.Dec.Power: squaring while the exponent is above one, with one factor set
\* aside for every odd exponent on the way.
PowerRound(s) ==
    IF s.i <= 1 THEN s
    ELSE [i |-> s.i \div 2,
          d |-> Mul(s.d, s.d),
          tmp |-> IF s.i % 2 # 0 THEN Mul(s.tmp, s.d) ELSE s.tmp]

DecPower(d, n) ==
    LET loop[k \in 0..n] ==
            IF k = 0 THEN [i |-> n, d |-> d, tmp |-> One] ELSE PowerRound(loop[k - 1])
    IN  IF n = 0 THEN One ELSE Mul(loop[n].d, loop[n].tmp)

CalculateEpochMintProvision ==
    LET decay == One - calculation.r
    IN  IF epochsPerPeriod = 0 THEN 0
        ELSE QuoInt(Mul(calculation.a, DecPower(decay, period)) + calculation.c,
                    epochsPerPeriod) * PowerReduction

GetProportions(amount, proportion) == TruncateInt(Mul(ToDec(amount), proportion))

\* Mutant: the community pool gets what the other two leave.
AllocateRestToCommunity(b, amount) ==
    LET staking == GetProportions(amount, distribution.stakingRewards)
        reserve == GetProportions(amount, distribution.strategicReserves)
    IN  [b EXCEPT !.feeCollector = @ + staking,
                  !.communityPool = @ + amount - staking - reserve,
                  !.inflation = @ + reserve]

\* MintAndAllocateInflation, AllocateExponentialInflation
MintAndAllocateInflation(b, amount) ==
    LET staking == GetProportions(amount, distribution.stakingRewards)
        community == GetProportions(amount, distribution.communityPool)
    IN  [b EXCEPT !.feeCollector = @ + staking,
                  !.communityPool = @ + community,
                  !.inflation = @ + amount - staking - community]

\* Mutant: skipped epochs count towards the length of a period.
PeriodPassedWithSkipped(number) ==
    number - epochsPerPeriod * period > epochsPerPeriod

PeriodPassed(number) ==
    number - epochsPerPeriod * period - skipped > epochsPerPeriod

\* The coins of a day epoch.
MintedCoin == TruncateInt(CalculateEpochMintProvision)

\* The end of a day epoch with inflation switched off.
SkipEpoch ==
    /\ ~enabled
    /\ skipped' = skipped + 1
    /\ UNCHANGED <<params, period, bank, halted, history>>

\* No provision: nothing is minted, and the epoch is not counted as skipped.
NoProvision ==
    /\ enabled
    /\ CalculateEpochMintProvision <= 0
    /\ history' = [history EXCEPT !.active = @ + 1]
    /\ UNCHANGED <<params, period, skipped, bank, halted>>

\* Coins are minted and the period may end.
Mint(number) ==
    LET minted == MintedCoin
    IN  /\ enabled
        /\ minted > 0
        /\ bank' = MintAndAllocateInflation(bank, minted)
        /\ period' = IF PeriodPassed(number) THEN period + 1 ELSE period
        /\ history' = [history EXCEPT
              !.mints = @ + 1, !.active = @ + 1, !.minted = @ + minted,
              !.shares = @ + minted * distribution.strategicReserves]
        /\ UNCHANGED <<params, skipped, halted>>

AfterEpochEnd(number) ==
    SkipEpoch \/ NoProvision \/ Mint(number)

\* A provision below one coin mints nothing, and the hook panics on the amounts of
\* the empty coins it gets back.
HookPanics == enabled /\ CalculateEpochMintProvision > 0 /\ MintedCoin = 0

\* A block: BeginBlocker of x/epochs with the hook of x/inflation.
Block(dt) ==
    /\ ~halted
    /\ BeginBlocker(dt)
    /\ IF DayEpochID \in EpochEnds(epochs, time')
       THEN AfterEpochEnd(epochs[DayEpochID].number)
       ELSE UNCHANGED inflationVars

\* A block in whose BeginBlocker the hook panics is never committed.
Halt(dt) ==
    /\ ~halted
    /\ time + dt <= MaxTime
    /\ DayEpochID \in EpochEnds(epochs, time + dt)
    /\ HookPanics
    /\ halted' = TRUE
    /\ UNCHANGED <<epochVars, params, period, skipped, bank, history>>

\* A parameter change by governance (ParamSetPairs), of any of the four.
SetParams(proposal) ==
    /\ ~halted
    /\ history.votes < MaxVotes
    /\ proposal # params
    /\ enabled' = proposal[1]
    /\ epochsPerPeriod' = proposal[2]
    /\ calculation' = proposal[3]
    /\ distribution' = proposal[4]
    /\ history' = [history EXCEPT !.votes = @ + 1]
    /\ UNCHANGED <<epochVars, period, skipped, bank, halted>>

ExportGenesis == [period |-> period, skipped |-> skipped]

\* The state of both modules is exported and a new chain starts from it.
Restart(dt) ==
    /\ ~halted
    /\ RestartEpochs(dt)
    /\ period' = ExportGenesis.period
    /\ skipped' = ExportGenesis.skipped
    /\ UNCHANGED <<params, bank, halted, history>>

Init ==
    /\ EpochsInit
    /\ enabled = TRUE
    /\ epochsPerPeriod = GenesisEpochsPerPeriod
    /\ calculation = GenesisCalculation
    /\ distribution = GenesisDistribution
    /\ period = 0
    /\ skipped = 0
    /\ bank = [feeCollector |-> 0, communityPool |-> 0, inflation |-> 0]
    /\ halted = FALSE
    /\ history = [mints |-> 0, active |-> 0, minted |-> 0, shares |-> 0, votes |-> 0]

Next ==
    \/ \E dt \in 0..MaxStep : Block(dt) \/ Halt(dt) \/ Restart(dt)
    \/ \E proposal \in Proposals : SetParams(proposal)

\* Consensus goes on producing blocks, as long as their BeginBlocker returns, and
\* block time moves.
Fairness == WF_vars(\E dt \in 1..MaxStep : Block(dt) \/ Halt(dt))

Spec == Init /\ [][Next]_vars
FairSpec == Spec /\ Fairness

(***************************************************************************)
(* Properties                                                              *)
(***************************************************************************)

\* The state of both modules has its type.
TypeOK ==
    /\ EpochsTypeOK
    /\ enabled \in BOOLEAN
    /\ epochsPerPeriod \in EpochsPerPeriods
    /\ calculation \in Calculations /\ distribution \in Distributions
    /\ period \in Nat /\ skipped \in Nat
    /\ bank \in [{"feeCollector", "communityPool", "inflation"} -> Nat]
    /\ halted \in BOOLEAN
    /\ history \in [{"mints", "active", "minted", "shares", "votes"} -> Nat]

\* The number the hook is called with, less the skipped epochs it stored, is the
\* number of days on which inflation was switched on: no day is counted twice or
\* lost by switching inflation off and on or by a restart (AfterEpochEnd).
DaysAccounted ==
    epochs[DayEpochID].number = 0 \/ epochs[DayEpochID].number - 1 = history.active + skipped

\* The period follows the days: DaysAccounted, and it never runs ahead of the days
\* inflation was on, counted in periods of some length that governance may give
\* them, and never falls behind the days on which coins were minted
\* (AfterEpochEnd).
PeriodFollowsDays ==
    /\ DaysAccounted
    /\ period > 0 => \E epp \in EpochsPerPeriods \ {0} : history.active > epp * period
    /\ \E epp \in EpochsPerPeriods \ {0} : history.mints <= epp * (period + 1)

\* Every minted coin is in one of the three accounts, and the reserve has at least
\* its share, by the distributions that were in force, and at most two coins more
\* per mint (the truncated parts of the other two shares stay in it:
\* AllocateExponentialInflation).  The hook panics in BeginBlock, which stops the
\* chain, only while inflation is on and the long-term part of the provision is
\* below one coin a day: no number of periods, no length given to them and no
\* other part of the polynomial can do it alone (AfterEpochEnd).
MintedIsAllocated ==
    /\ TypeOK
    /\ history.minted = bank.feeCollector + bank.communityPool + bank.inflation
    /\ history.shares <= bank.inflation * Scale
    /\ bank.inflation * Scale <= history.shares + 2 * Scale * history.mints
    /\ halted => /\ enabled
                 /\ epochsPerPeriod > 0
                 /\ QuoInt(calculation.c, epochsPerPeriod) * PowerReduction < One

\* The identifiers are periodic timers: numbers without a gap, never early, also
\* across restarts, and never stuck unless a hook stops the chain (BeginBlocker,
\* InitGenesis, ExportGenesis of x/epochs).
EpochsAreTimers == T!TimersSafe /\ (<>halted \/ T!TimersLive)
=============================================================================
