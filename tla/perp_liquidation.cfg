CONSTANTS
    Scale = 100
    SqrtScale = 10
    NumTraders = 2
    NumPairs = 2
    Params <- MCParamsMixed
    Snapshots <- MCSnapshots
    GenesisAmm <- MCGenesisAmm
    GenesisBank <- MCBank
    IntervalsPerDay <- MCIntervals
    QuoteAmounts = {2}
    Leverages = {1000}
    BaseLimits = {0,700}
    Margins = {}
    Donations = {1}
    Pegs = {}
    SwapInvariants = {}
    Toggles = {TRUE, FALSE}
    IndexPrices = {10, 140}
    Liquidators <- MCLiquidators
    TwapInputs = {}
    MaxTxs = 5
    MaxTime = 1
    MaxRequests = 2
SPECIFICATION Spec
INVARIANTS
    PositionsNearlyValid
    VaultCoversClaims
    PrepaidCoversCredit
CHECK_DEADLOCK FALSE
