CONSTANTS
    Scale = 100
    SqrtScale = 10
    NumTraders = 1
    NumPairs = 2
    Params <- MCParams
    Snapshots <- MCSnapshots
    GenesisAmm <- MCGenesisAmm
    GenesisBank <- MCBank
    IntervalsPerDay <- MCIntervals
    QuoteAmounts = {1}
    Leverages = {100}
    BaseLimits = {0}
    Margins = {}
    Donations = {}
    Pegs = {}
    SwapInvariants = {}
    Toggles = {TRUE, FALSE}
    IndexPrices = {50}
    Liquidators <- MCLiquidators
    TwapInputs = {}
    MaxTxs = 4
    MaxTime = 0
    MaxRequests = 1
SPECIFICATION Spec
PROPERTIES
    EveryMarketFunded
CHECK_DEADLOCK FALSE
