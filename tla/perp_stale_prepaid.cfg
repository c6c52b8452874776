CONSTANTS
    Scale = 100
    SqrtScale = 10
    NumTraders = 2
    NumPairs = 1
    Params <- MCParamsHighFee
    Snapshots <- MCSnapshots
    GenesisAmm <- MCGenesisAmm
    GenesisBank <- MCBank
    IntervalsPerDay <- MCIntervals
    QuoteAmounts = {1, 2}
    Leverages = {1000}
    BaseLimits = {0}
    Margins = {}
    Donations = {}
    Pegs = {}
    SwapInvariants = {}
    Toggles = {}
    IndexPrices = {}
    Liquidators <- MCLiquidators
    TwapInputs = {}
    MaxTxs = 6
    MaxTime = 0
    MaxRequests = 1
SPECIFICATION Spec
INVARIANTS
    PrepaidIsCredit
CHECK_DEADLOCK FALSE
