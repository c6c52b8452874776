------------------------------- MODULE Oracle -------------------------------
(***************************************************************************)
(* The price oracle (x/oracle): validators commit to a report of prices in *)
(* one vote period and reveal it in the next; at the last block of every   *)
(* period the revealed votes are tallied, misses are counted and winners   *)
(* are rewarded, and at the last block of every slash window validators    *)
(* with too many misses are slashed and jailed.                            *)
(*                                                                         *)
(* The prevote holds a hash of salt, report and validator; only the report *)
(* it was made from passes the comparison, so the model keeps the report.  *)
(* Maps of the store are functions on the keys they hold.  Staking, bank   *)
(* and distribution are external and modelled by what the oracle asks of   *)
(* them; there is one denomination.                                        *)
(***************************************************************************)
EXTENDS OracleBallot, Sequences

CONSTANTS
    Validators, Pairs,
    \* parameters of the module; no operation changes them
    VotePeriod, VoteThreshold, MinVoters, RewardBand, Whitelist,
    SlashFraction, SlashWindow, MinValidPerWindow, TwapLookback, ValidatorFeeRatio,
    \* genesis
    GenesisPairs, GenesisTokens, GenesisRewards, GenesisBank,
    \* parameters of staking
    PowerReduction, UnbondingBlocks,
    \* inputs of the messages
    Reports,       \* rates by pair, each a function on a set of pairs
    Delegations,   \* pairs of a validator and the feeder it may name
    Fees,          \* what perp pays into the fee pool at a time
    Leavers,       \* validators that may withdraw their stake
    Restarts,      \* {TRUE} if the chain may be exported and started again
    \* bounds
    MaxHeight, MaxFees, MaxWeeks

\* Params.Validate
ASSUME PeriodAssumption ==
    /\ VotePeriod \in Nat \ {0}
    /\ SlashWindow \in Nat
    /\ SlashWindow >= VotePeriod
ASSUME ParamsAssumption ==
    /\ RewardBand \in 0..One
    /\ SlashFraction \in 0..One
    /\ MinValidPerWindow \in 0..One
    /\ ValidatorFeeRatio \in 0..One
    /\ TwapLookback \in Int
    /\ Whitelist \subseteq Pairs

\* A validator that leaves is not removed in the slash window in which it began to
\* leave.  The default slash window is of one week (DefaultSlashWindow), and staking's
\* default unbonding time of three.
ASSUME StakingAssumption ==
    /\ PowerReduction \in Nat \ {0}
    /\ UnbondingBlocks \in Nat
    /\ UnbondingBlocks + 1 >= SlashWindow

ASSUME InputAssumption ==
    /\ IsFiniteSet(Validators) /\ IsFiniteSet(Pairs)
    /\ \A report \in Reports : /\ DOMAIN report \subseteq Pairs
                                /\ \A p \in DOMAIN report : report[p] \in Int
    /\ \A d \in Delegations : d[1] \in Validators
    /\ Fees \subseteq Nat
    /\ Leavers \subseteq Validators
    /\ MaxHeight \in Nat \ {0}

VARIABLES
    height,         \* ctx.BlockHeight(), which stands for the block time too
    stake,          \* [Validators -> [status, jailed, tokens, since]]
    feeders,        \* FeederDelegations
    prevotes,       \* Prevotes: validator -> [report, submit]
    votes,          \* Votes: validator -> report
    exchangeRates,  \* ExchangeRates: pair -> rate
    snapshots,      \* PriceSnapshots: [Pairs -> Seq([ts, price])]
    whitelist,      \* WhitelistedPairs
    missCounters,   \* MissCounters: validator -> Nat
    rewards,        \* Rewards: id -> [periods, coins]
    rewardsID,      \* RewardsID, the next id
    bank,           \* balances of the module accounts
    outstanding,    \* distribution's rewards by validator
    halted,         \* what panicked outside a transaction
    history         \* read by no handler

votingVars == <<prevotes, votes, exchangeRates, snapshots, whitelist>>
rewardVars == <<rewards, rewardsID, bank, outstanding>>
vars == <<height, stake, feeders, votingVars, missCounters, rewardVars, halted, history>>

(***************************************************************************)
(* history.commit:  validator -> height of the prevote its vote came from  *)
(* history.tallies: tallies in this slash window                           *)
(* history.faults:  tallies in this window at which the validator was      *)
(*                  counted and had not voted faithfully                   *)
(* history.paid, history.weeks: fees paid and weeks ended so far, for the  *)
(*                  bounds MaxFees and MaxWeeks                            *)
(***************************************************************************)

Accounts == {"feePool", "perpEF", "oracle", "distribution"}

\* What the rewards that are still to be paid add up to.
Promised(rs) == SumFunction([id \in DOMAIN rs |-> rs[id].periods * rs[id].coins])

\* Genesis is empty or exported from a chain, whose rewards were paid for.
ASSUME GenesisAssumption ==
    /\ GenesisPairs \subseteq Pairs
    /\ GenesisTokens \in [Validators -> Nat]
    /\ GenesisBank \in [Accounts -> Nat]
    /\ IsFiniteSet(DOMAIN GenesisRewards)
    /\ \A id \in DOMAIN GenesisRewards :
          GenesisRewards[id] \in [periods : Nat \ {0}, coins : Nat]
    /\ Promised(GenesisRewards) <= GenesisBank["oracle"]

\* A map with one more key, and without some.
Put(f, k, v) == [x \in DOMAIN f \cup {k} |-> IF x = k THEN v ELSE f[x]]
EmptyMap == [x \in {} |-> 0]

Send(b, from, to, amt) == [b EXCEPT ![from] = @ - amt, ![to] = @ + amt]
TruncateInt(d) == Quot(d, Scale)

\* GetConsensusPower
Power(val) == val.tokens \div PowerReduction
Bonded(st, v) == st[v].status = "bonded"
\* Mutant: validators that are unbonding are counted.
ActiveUnbonding(st) == {v \in Validators : st[v].status # "gone" /\ ~ st[v].jailed}
\* The validators the oracle counts: ValidatorsPowerStoreIterator leaves out the
\* jailed ones.  MaxValidators is not reached.
Active(st) == {v \in Validators : Bonded(st, v) /\ ~ st[v].jailed}

Init ==
    /\ height = 1
    /\ stake = [v \in Validators |-> [status |-> "bonded", jailed |-> FALSE,
                                      tokens |-> GenesisTokens[v], since |-> 0]]
    /\ feeders = EmptyMap
    /\ prevotes = EmptyMap
    /\ votes = EmptyMap
    /\ exchangeRates = EmptyMap
    /\ snapshots = [p \in Pairs |-> <<>>]
    /\ whitelist = IF GenesisPairs # {} THEN GenesisPairs ELSE Whitelist
    /\ missCounters = EmptyMap
    /\ rewards = GenesisRewards
    /\ rewardsID = IF DOMAIN GenesisRewards = {} THEN 1 ELSE Max(DOMAIN GenesisRewards)
    /\ bank = GenesisBank
    /\ outstanding = [v \in Validators |-> 0]
    /\ halted = {}
    /\ history = [commit |-> EmptyMap, tallies |-> 0,
                  faults |-> [v \in Validators |-> 0],
                  paid |-> 0, weeks |-> 0]

-----------------------------------------------------------------------------
(* Messages. *)

\* A validator may always feed for itself.
ValidateFeeder(feeder, v) ==
    /\ feeder # v => v \in DOMAIN feeders /\ feeders[v] = feeder
    /\ Bonded(stake, v)

AggregateExchangeRatePrevote(v, feeder, report) ==
    /\ halted = {}
    /\ ValidateFeeder(feeder, v)
    /\ prevotes' = Put(prevotes, v, [report |-> report, submit |-> height])
    /\ UNCHANGED <<height, stake, feeders, votes, exchangeRates, snapshots, whitelist,
                   missCounters, rewardVars, halted, history>>

VotePeriodOf(h) == h \div VotePeriod

\* Mutant: a prevote can be revealed in its own period.
CanRevealAtOnce(prevote) == VotePeriodOf(height) - VotePeriodOf(prevote.submit) <= 1
CanReveal(prevote) == VotePeriodOf(height) - VotePeriodOf(prevote.submit) = 1

AggregateExchangeRateVote(v, feeder, report) ==
    /\ halted = {}
    /\ ValidateFeeder(feeder, v)
    /\ v \in DOMAIN prevotes
    /\ CanReveal(prevotes[v])
    /\ DOMAIN report \subseteq whitelist
    /\ prevotes[v].report = report
    /\ votes' = Put(votes, v, report)
    /\ prevotes' = Restrict(prevotes, DOMAIN prevotes \ {v})
    /\ history' = [history EXCEPT !.commit = Put(@, v, prevotes[v].submit)]
    /\ UNCHANGED <<height, stake, feeders, exchangeRates, snapshots, whitelist,
                   missCounters, rewardVars, halted>>

DelegateFeedConsent(v, delegate) ==
    /\ halted = {}
    /\ stake[v].status # "gone"
    /\ feeders' = Put(feeders, v, delegate)
    /\ UNCHANGED <<height, stake, votingVars, missCounters, rewardVars, halted, history>>

-----------------------------------------------------------------------------
(* The tally, on the stake st that staking left at the end of the block. *)

\* groupBallotsByPair
Ballot(st, p) ==
    [v \in {v \in Active(st) \cap DOMAIN votes : p \in DOMAIN votes[v]} |->
        [rate |-> votes[v][p],
         power |-> IF votes[v][p] > 0 THEN Power(st[v]) ELSE 0]]

BondedTokens(st) ==
    SumFunction([v \in {v \in Validators : Bonded(st, v)} |-> st[v].tokens])
ThresholdPower(st) == RoundInt(VoteThreshold * (BondedTokens(st) \div PowerReduction))

VotedPairs(st) == {p \in Pairs : DOMAIN Ballot(st, p) # {}}
\* The pairs whose ballots removeInvalidBallots keeps.
PassingPairs(st) ==
    {p \in VotedPairs(st) \cap whitelist :
        IsPassingVoteThreshold(Ballot(st, p), ThresholdPower(st), MinVoters)}
\* Mutant: a pair whose ballot failed still has to be won.
CountedPairsAll(st) == whitelist
\* The pairs a validator has to win: a pair whose ballot failed is excused, a
\* pair nobody voted on is not.
CountedPairs(st) == whitelist \ (VotedPairs(st) \ PassingPairs(st))

\* newValidatorPerformances, after Tally of every ballot that passed: the number of
\* pairs the validator won and the power it won them with.
ValidatorPerformances(st) ==
    LET winners == [p \in PassingPairs(st) |-> Winners(Ballot(st, p), RewardBand)]
        won(v) == {p \in PassingPairs(st) : v \in winners[p]}
    IN  [v \in Active(st) |->
            [winCount |-> Cardinality(won(v)),
             rewardWeight |-> SumFunction([p \in won(v) |-> Ballot(st, p)[v].power])]]

\* registerMissedVotes
Missing(st, performances) ==
    {v \in DOMAIN performances :
        performances[v].winCount # Cardinality(CountedPairs(st))}

GetTotalRewardWeight(performances) ==
    SumFunction([v \in DOMAIN performances |-> performances[v].rewardWeight])

PeriodRewards == SumFunction([id \in DOMAIN rewards |-> rewards[id].coins])
RewardPortion(weight, total) ==
    TruncateInt(Mul(ToDec(PeriodRewards), QuoInt(ToDec(weight), total)))

\* Mutant: the number of remaining periods does not decrease.
RewardsAfterNone == rewards
\* GatherRewardsForVotePeriod
RewardsAfter ==
    [id \in {id \in DOMAIN rewards : rewards[id].periods # 1} |->
        [rewards[id] EXCEPT !.periods = @ - 1]]

\* What each validator is given, if any ballot was won with some power.
Portions(performances) ==
    LET total == GetTotalRewardWeight(performances)
    IN  IF total = 0 THEN EmptyMap
        ELSE [v \in DOMAIN performances |->
                 RewardPortion(performances[v].rewardWeight, total)]
Distributed(portions) == SumFunction(portions)

RewardBallotWinners(portions) ==
    IF portions = EmptyMap
    THEN UNCHANGED <<rewards, bank, outstanding>>
    ELSE /\ rewards' = RewardsAfter
         /\ outstanding' = [v \in Validators |->
                IF v \in DOMAIN portions THEN outstanding[v] + portions[v]
                ELSE outstanding[v]]
         /\ bank' = Send(bank, "oracle", "distribution", Distributed(portions))

\* Mutants: prevotes of this period are cleared too; those of the one before stay.
PrevotesKeptNone == {}
PrevotesKeptAll == DOMAIN prevotes
\* clearVotesAndPreVotes
PrevotesKept == {v \in DOMAIN prevotes : height < prevotes[v].submit + VotePeriod}

\* updateWhitelist compares the parameter with the pairs that were counted, and
\* writes the store only if they differ.
WhitelistAfter(st) == IF CountedPairs(st) = Whitelist THEN whitelist ELSE Whitelist

Price(st, p) == WeightedMedian(Ballot(st, p))
\* PriceSnapshots is ordered by time: a snapshot replaces one of the same time.
Inserted(snaps, new) ==
    LET newest == Len(snaps)
        older == IF newest = 0 \/ snaps[newest].ts < new.ts THEN newest ELSE newest - 1
    IN  Append(SubSeq(snaps, 1, older), new)
\* SetPrice for every passing pair, after resetExchangeRates.
UpdatePrices(st) ==
    /\ exchangeRates' = [p \in PassingPairs(st) |-> Price(st, p)]
    /\ snapshots' = [p \in Pairs |->
          IF p \in PassingPairs(st)
          THEN Inserted(snapshots[p], [ts |-> height, price |-> Price(st, p)])
          ELSE snapshots[p]]

MissesAfterTally(missing) ==
    [v \in DOMAIN missCounters \cup missing |->
        (IF v \in DOMAIN missCounters THEN missCounters[v] ELSE 0)
        + (IF v \in missing THEN 1 ELSE 0)]

\* A report that gives every pair of the whitelist, each as an abstention, as the
\* rate that becomes the price, or for a pair that gets no price.
Faithful(st, v) ==
    /\ v \in DOMAIN votes
    /\ \A p \in whitelist :
          /\ p \in DOMAIN votes[v]
          /\ \/ votes[v][p] <= 0
             \/ p \in PassingPairs(st) => votes[v][p] = Price(st, p)

-----------------------------------------------------------------------------
(* Slashing, with the miss counters mc that the tally left. *)

VotePeriodsPerWindow == SlashWindow \div VotePeriod
\* The subtraction is of uint64 and read as int64: it may be negative.
ValidVoteRate(misses) ==
    QuoInt(ToDec(VotePeriodsPerWindow - misses), VotePeriodsPerWindow)
Failing(mc) == {v \in DOMAIN mc : ValidVoteRate(mc[v]) < MinValidPerWindow}
Slashed(st, mc) == {v \in Failing(mc) : Bonded(st, v) /\ ~ st[v].jailed}

\* Staking's Slash and Jail.
SlashAndJail(val) ==
    [val EXCEPT !.jailed = TRUE,
                !.tokens = MaxDec(0, @ - TruncateInt(SlashFraction * Power(val) * PowerReduction))]

\* Mutant: the counters are not reset.
MissesAfterWindowKept(mc) == mc
MissesAfterWindow(mc) == EmptyMap

-----------------------------------------------------------------------------
(* The end of a block: staking's EndBlocker, then the oracle's. *)

\* Staking unbonds the jailed and the empty validators, bonds the others, and
\* removes an empty one when its unbonding time has passed.
StakingEndBlocker ==
    [v \in Validators |->
        LET val == stake[v] IN
        IF val.status = "bonded" /\ (val.jailed \/ Power(val) = 0)
        THEN [val EXCEPT !.status = "unbonding", !.since = height]
        ELSE IF val.status = "unbonding" /\ ~ val.jailed /\ Power(val) > 0
        THEN [val EXCEPT !.status = "bonded"]
        ELSE IF /\ val.status = "unbonding"
                /\ val.tokens = 0
                /\ height >= val.since + UnbondingBlocks
        THEN [val EXCEPT !.status = "gone"]
        ELSE val]

IsPeriodLastBlock(blocks) == (height + 1) % blocks = 0

UpdateExchangeRates(st, portions) ==
    /\ UpdatePrices(st)
    /\ RewardBallotWinners(portions)
    /\ prevotes' = Restrict(prevotes, PrevotesKept)
    /\ votes' = EmptyMap
    /\ whitelist' = WhitelistAfter(st)

\* Sending more than the oracle's account holds, and asking a validator that is
\* gone whether it is bonded, panic.
Panics(st, portions, mc) ==
    (IF Distributed(portions) > bank["oracle"] THEN {"reward"} ELSE {})
    \cup
    (IF /\ IsPeriodLastBlock(SlashWindow)
        /\ \E v \in Failing(mc) : st[v].status = "gone" THEN {"slash"} ELSE {})

HistoryAfter(st) ==
    LET tallied == IsPeriodLastBlock(VotePeriod)
        ended == IsPeriodLastBlock(SlashWindow)
        faulty == IF tallied THEN {v \in Active(st) : ~ Faithful(st, v)} ELSE {}
    IN  [history EXCEPT
            !.tallies = IF ended THEN 0 ELSE IF tallied THEN @ + 1 ELSE @,
            !.faults = [v \in Validators |->
                IF ended THEN 0 ELSE IF v \in faulty THEN @[v] + 1 ELSE @[v]],
            !.commit = IF tallied THEN EmptyMap ELSE @]

EndBlock ==
    LET st == StakingEndBlocker
        tallied == IsPeriodLastBlock(VotePeriod)
        performances == ValidatorPerformances(st)
        portions == IF tallied THEN Portions(performances) ELSE EmptyMap
        mc == IF tallied THEN MissesAfterTally(Missing(st, performances)) ELSE missCounters
        panics == Panics(st, portions, mc)
    IN  /\ halted = {}
        /\ height < MaxHeight
        /\ IF panics # {}
           THEN /\ halted' = panics
                /\ UNCHANGED <<height, stake, feeders, votingVars, missCounters, rewardVars, history>>
           ELSE /\ height' = height + 1
                /\ IF tallied
                   THEN UpdateExchangeRates(st, portions)
                   ELSE UNCHANGED <<votingVars, rewards, bank, outstanding>>
                /\ IF IsPeriodLastBlock(SlashWindow)
                   THEN /\ stake' = [v \in Validators |->
                              IF v \in Slashed(st, mc) THEN SlashAndJail(st[v]) ELSE st[v]]
                        /\ missCounters' = MissesAfterWindow(mc)
                   ELSE stake' = st /\ missCounters' = mc
                /\ history' = HistoryAfter(st)
                /\ UNCHANGED <<feeders, rewardsID, halted>>

-----------------------------------------------------------------------------
(* The weekly epoch, the rest of the chain, and a restart from genesis. *)

\* The hook of the oracle at the end of a week: the fee pool is split between
\* the ecosystem fund and the validators.  The bank refuses a coin of amount zero.
ValidatorFees == TruncateInt(Mul(ToDec(bank["feePool"]), ValidatorFeeRatio))
AllocateRewards(coins, periods) ==
    /\ rewards' = Put(rewards, rewardsID, [periods |-> periods, coins |-> coins \div periods])
    /\ rewardsID' = rewardsID + 1

AfterWeekEnd ==
    LET rest == bank["feePool"] - ValidatorFees
        refused == bank["feePool"] # 0 /\ (rest = 0 \/ ValidatorFees = 0)
    IN  /\ halted = {}
        /\ history.weeks < MaxWeeks
        /\ history' = [history EXCEPT !.weeks = @ + 1]
        /\ IF refused
           THEN halted' = {"week"} /\ UNCHANGED rewardVars
           ELSE /\ bank' = Send(Send(bank, "feePool", "perpEF", rest),
                                "feePool", "oracle", ValidatorFees)
                /\ AllocateRewards(ValidatorFees, 1)
                /\ UNCHANGED <<outstanding, halted>>
        /\ UNCHANGED <<height, stake, feeders, votingVars, missCounters>>

\* Perp sends trading fees to the fee pool.
PayFees(amt) ==
    /\ halted = {}
    /\ history.paid + amt <= MaxFees
    /\ bank' = [bank EXCEPT !["feePool"] = @ + amt]
    /\ history' = [history EXCEPT !.paid = @ + amt]
    /\ UNCHANGED <<height, stake, feeders, votingVars, missCounters, rewards, rewardsID,
                   outstanding, halted>>

\* Staking: a validator's stake is withdrawn; a jailed one is unjailed.
Undelegate(v) ==
    /\ halted = {}
    /\ stake[v].status # "gone" /\ stake[v].tokens > 0
    /\ stake' = [stake EXCEPT ![v].tokens = 0]
    /\ UNCHANGED <<height, feeders, votingVars, missCounters, rewardVars, halted, history>>
Unjail(v) ==
    /\ halted = {}
    /\ stake[v].jailed /\ stake[v].status = "unbonding"
    /\ stake' = [stake EXCEPT ![v].jailed = FALSE]
    /\ UNCHANGED <<height, feeders, votingVars, missCounters, rewardVars, halted, history>>

\* ExportGenesis and InitGenesis: price snapshots other than those of the current
\* prices are not exported, and the next reward id is set from the last one.  The
\* chain is exported between blocks; the messages of a block change nothing that
\* this reads or writes, so they may as well come before it.
Restart ==
    /\ halted = {}
    /\ snapshots' = [p \in Pairs |->
          IF p \in DOMAIN exchangeRates
          THEN <<[ts |-> height, price |-> exchangeRates[p]]>> ELSE <<>>]
    /\ whitelist' = IF whitelist # {} THEN whitelist ELSE Whitelist
    /\ rewardsID' = IF DOMAIN rewards = {} THEN 1 ELSE Max(DOMAIN rewards)
    /\ UNCHANGED <<height, stake, feeders, prevotes, votes, exchangeRates, missCounters,
                   rewards, bank, outstanding, halted, history>>

\* A validator's operator account and the accounts that may feed for it.
Feeders == Validators \cup {d[2] : d \in Delegations}

Next ==
    \/ \E v \in Validators, feeder \in Feeders, report \in Reports :
          \/ AggregateExchangeRatePrevote(v, feeder, report)
          \/ AggregateExchangeRateVote(v, feeder, report)
    \/ \E d \in Delegations : DelegateFeedConsent(d[1], d[2])
    \/ EndBlock
    \/ AfterWeekEnd
    \/ \E amt \in Fees : PayFees(amt)
    \/ \E v \in Leavers : Undelegate(v)
    \/ \E v \in Validators : Unjail(v)
    \/ TRUE \in Restarts /\ Restart

Spec == Init /\ [][Next]_vars

-----------------------------------------------------------------------------
(* The time-weighted price that other modules read. *)

\* The snapshots of the window, which are the last ones.
TwapSnapshots(p) ==
    LET snaps == snapshots[p]
        recent == {i \in DOMAIN snaps : snaps[i].ts >= height - TwapLookback}
    IN  IF recent = {} THEN <<>> ELSE SubSeq(snaps, Min(recent), Len(snaps))
\* Mutant: the average is taken over the whole window.
CalcTwapWindow(snaps) ==
    LET end(i) == IF i = Len(snaps) THEN height ELSE snaps[i + 1].ts
    IN  QuoInt(SumFunction([i \in DOMAIN snaps |-> snaps[i].price * (end(i) - snaps[i].ts)]),
               TwapLookback)
CalcTwap(snaps) ==
    LET first == MaxDec(snaps[1].ts, height - TwapLookback)
        start(i) == IF i = 1 THEN first ELSE snaps[i].ts
        end(i) == IF i = Len(snaps) THEN height ELSE snaps[i + 1].ts
    IN  IF Len(snaps) = 1 THEN snaps[1].price
        ELSE QuoInt(SumFunction([i \in DOMAIN snaps |-> snaps[i].price * (end(i) - start(i))]),
                    height - first)

-----------------------------------------------------------------------------
(* Properties. *)

\* Every map of the store has keys and values of its type.
TypeOK ==
    /\ height \in 1..MaxHeight
    /\ \A v \in Validators : /\ stake[v].status \in {"bonded", "unbonding", "gone"}
                              /\ stake[v].jailed \in BOOLEAN
                              /\ stake[v].tokens \in Nat
                              /\ outstanding[v] \in Nat
    /\ DOMAIN feeders \subseteq Validators
    /\ DOMAIN prevotes \subseteq Validators
    /\ \A v \in DOMAIN prevotes : prevotes[v].submit \in 1..height
    /\ DOMAIN votes \subseteq Validators
    /\ DOMAIN exchangeRates \subseteq Pairs
    /\ \A p \in DOMAIN exchangeRates : exchangeRates[p] \in Int
    /\ whitelist \subseteq Pairs
    /\ \A v \in DOMAIN missCounters : missCounters[v] \in Nat \ {0}
    /\ \A id \in DOMAIN rewards : rewards[id].periods \in Nat \ {0}
    /\ \A a \in Accounts : bank[a] \in Nat
    /\ halted \subseteq {"reward", "slash", "week"}

\* Commit before reveal: every vote that can be tallied was committed in the vote
\* period just before this one, so before any vote of this period was revealed;
\* no vote is left over from an earlier tally.
CommitBeforeReveal ==
    \A v \in DOMAIN votes :
        /\ v \in DOMAIN history.commit
        /\ VotePeriodOf(height) = VotePeriodOf(history.commit[v]) + 1

\* clearVotesAndPreVotes keeps exactly the prevotes that may still be revealed:
\* none is older than one period.
PrevotesFresh ==
    \A v \in DOMAIN prevotes :
        VotePeriodOf(height) - VotePeriodOf(prevotes[v].submit) \in {0, 1}

\* A prevote is not lost before the end of the period in which it can be revealed:
\* it only disappears when its own validator reveals or replaces it, or when that
\* period ends.
PrevotesNotLost ==
    [][\A v \in DOMAIN prevotes :
          \/ v \in DOMAIN prevotes'
          \/ v \in DOMAIN votes'
          \/ VotePeriodOf(height') > VotePeriodOf(prevotes[v].submit) + 1]_vars

\* The steps that tally: only EndBlock changes the height.
Tallies == height' = height + 1 /\ IsPeriodLastBlock(VotePeriod) /\ halted' = {}

\* A price needs a quorum: bonded validators that revealed a positive rate for the
\* pair, at least MinVoters of them, with VoteThreshold of the bonded power.
PriceNeedsQuorum ==
    [][Tallies =>
         \A p \in DOMAIN exchangeRates' :
            LET st == StakingEndBlocker
                voters == {v \in Active(st) \cap DOMAIN votes :
                              p \in DOMAIN votes[v] /\ votes[v][p] > 0}
            IN  /\ Cardinality(voters) >= MinVoters
                /\ SumFunction([v \in voters |-> Power(st[v])]) >= ThresholdPower(st)]_vars

\* Validators that reveal the same rate and have more than half of the power that
\* voted, by more than one unit, decide the price.
MajorityDecides ==
    [][Tallies =>
         \A p \in DOMAIN exchangeRates' :
            LET b == Ballot(StakingEndBlocker, p) IN
            \A r \in Rates(b) :
               2 * PowerOf(b, {v \in DOMAIN b : b[v].rate = r}) > BallotPower(b) + 1
                  => exchangeRates'[p] = r]_vars

\* A validator that reveals the price of every pair of the whitelist, or abstains
\* on it, is not counted as missing, whatever the others do.
FaithfulNeverMisses ==
    [][(Tallies /\ ~ IsPeriodLastBlock(SlashWindow)) =>
         \A v \in DOMAIN votes :
            Faithful(StakingEndBlocker, v) =>
               (v \in DOMAIN missCounters' =>
                  v \in DOMAIN missCounters /\ missCounters'[v] = missCounters[v])]_vars

\* A validator is slashed and jailed only if its share of faithful tallies in the
\* window that ends is below MinValidPerWindow.
SlashedOnlyBelowMinimum ==
    [][\A v \in Validators :
          stake'[v].jailed /\ ~ stake[v].jailed =>
             LET st == StakingEndBlocker
                 last == IF IsPeriodLastBlock(VotePeriod) THEN 1 ELSE 0
                 tallies == history.tallies + last
                 faults == history.faults[v]
                           + (IF Faithful(st, v) THEN 0 ELSE last)
             IN  ToDec(tallies - faults) < MinValidPerWindow * tallies]_vars

\* Every reward is backed, before and after it is paid out: the oracle's account
\* covers the rewards that are still to be paid, and what distribution owes the
\* validators is what it has received (rewardBallotWinners, GatherRewardsForVotePeriod).
RewardsBacked ==
    /\ Promised(rewards) <= bank["oracle"]
    /\ SumFunction(outstanding) = bank["distribution"] - GenesisBank["distribution"]

\* The end of a block never panics: a miss counter never outlives its validator,
\* and the account of the oracle can always pay the winners.  What it leaves is
\* well-typed.
EndBlockNeverPanics == TypeOK /\ "slash" \notin halted /\ "reward" \notin halted

\* The time-weighted price lies between the prices it averages.
TwapBetweenPrices ==
    \A p \in Pairs :
        LET snaps == TwapSnapshots(p)
            prices == {snaps[i].price : i \in DOMAIN snaps}
        IN  snaps # <<>> => Min(prices) <= CalcTwap(snaps) /\ CalcTwap(snaps) <= Max(prices)
=============================================================================
