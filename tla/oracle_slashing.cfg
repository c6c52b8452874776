CONSTANTS
    Scale = 100
    SqrtScale = 10
    FloatScale = 10
    Validators = {1, 2}
    Pairs = {1}
    Delegations = {}
    VotePeriod = 1
    VoteThreshold = 50
    MinVoters = 1
    RewardBand = 2
    Whitelist = {1}
    SlashFraction = 1
    SlashWindow = 3
    MinValidPerWindow = 66
    TwapLookback = 3
    ValidatorFeeRatio = 50
    GenesisPairs = {}
    GenesisTokens <- MCTokens
    GenesisRewards <- MCNoRewards
    GenesisBank <- MCBank
    PowerReduction = 1
    UnbondingBlocks = 3
    Reports <- MCReports
    Fees = {}
    Leavers = {2}
    Restarts = {}
    MaxHeight = 6
    MaxFees = 0
    MaxWeeks = 0
SPECIFICATION Spec
INVARIANTS
    EndBlockNeverPanics
    TwapBetweenPrices
PROPERTIES
    SlashedOnlyBelowMinimum
CHECK_DEADLOCK FALSE
