CONSTANTS
    Scale = 100
    SqrtScale = 10
    FloatScale = 10
    Validators = {1, 2, 3}
    Pairs = {1}
    Delegations <- MCDelegations
    VotePeriod = 2
    VoteThreshold = 50
    MinVoters = 2
    RewardBand = 2
    Whitelist = {1}
    SlashFraction = 1
    SlashWindow = 4
    MinValidPerWindow = 50
    TwapLookback = 3
    ValidatorFeeRatio = 50
    GenesisPairs = {}
    GenesisTokens <- MCBigTokens
    GenesisRewards <- MCNoRewards
    GenesisBank <- MCBank
    PowerReduction = 1
    UnbondingBlocks = 4
    Reports <- MCReports
    Fees = {}
    Leavers = {}
    Restarts = {}
    MaxHeight = 4
    MaxFees = 0
    MaxWeeks = 0
SPECIFICATION Spec
INVARIANTS
    CommitBeforeReveal
    PrevotesFresh
PROPERTIES
    PrevotesNotLost
    PriceNeedsQuorum
    MajorityDecides
CHECK_DEADLOCK FALSE
