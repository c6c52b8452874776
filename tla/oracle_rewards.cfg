CONSTANTS
    Scale = 100
    SqrtScale = 10
    FloatScale = 10
    Validators = {1, 2}
    Pairs = {1, 2}
    Delegations = {}
    VotePeriod = 1
    VoteThreshold = 50
    MinVoters = 2
    RewardBand = 2
    Whitelist = {1, 2}
    SlashFraction = 1
    SlashWindow = 4
    MinValidPerWindow = 50
    TwapLookback = 3
    ValidatorFeeRatio = 30
    GenesisPairs = {1}
    GenesisTokens <- MCTokens
    GenesisRewards <- MCRewards
    GenesisBank <- MCFundedBank
    PowerReduction = 1
    UnbondingBlocks = 4
    Reports <- MCPartialReports
    Fees = {3}
    Leavers = {}
    Restarts = {TRUE}
    MaxHeight = 3
    MaxFees = 6
    MaxWeeks = 1
SPECIFICATION Spec
INVARIANTS
    RewardsBacked
PROPERTIES
    FaithfulNeverMisses
CHECK_DEADLOCK FALSE
