CONSTANTS
    Scale = 100
    SqrtScale = 10
    NumTraders = 2
    NumPairs = 1
    Params <- MCParamsWide
    Snapshots <- MCSnapshots
    GenesisAmm <- MCGenesisAmm
    GenesisBank <- MCBank
    IntervalsPerDay <- MCDaily
    QuoteAmounts = {1, 4}
    Leverages = {500}
    BaseLimits = {0}
    Margins = {1}
    Donations = {}
    Pegs = {150}
    SwapInvariants = {90000}
    Toggles = {}
    IndexPrices = {10, 140}
    Liquidators <- MCLiquidators
    TwapInputs <- MCTwapInputs
    MaxTxs = 5
    MaxTime = 0
    MaxRequests = 1
SPECIFICATION Spec
INVARIANTS
    TypeOK
    BiasAccounted
    VaultCoversClaims
    ReservesOnCurve
    LiquidationAvailable
    LiquidationNeverEnriches
    TwapIsAverage
PROPERTIES
    RemoveMarginKeepsLongsSolvent
    TradeLeavesHealthy
CHECK_DEADLOCK FALSE
