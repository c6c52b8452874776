CONSTANTS
    Scale = 100
    SqrtScale = 10
    EpochIds = {1}
    GenesisEpochs <- MCGenesisEpochs
    MaxStep = 1
    MaxTime = 3
    MaxRestarts = 1
    Million = 20
    FeeRatio = 1
    EfFeeRatio = 10
    BonusRateRecoll = 1
    AdjustmentStep = 7
    PriceLowerBound = 19
    PriceUpperBound = 21
    GenesisCollRatio = 20
    DistrEpochIdentifier = 1
    OtherTokens = {}
    Readings <- MCReadings
    Averages <- MCAverages
    Amounts = {12}
    GenesisFunds = 40
    MaxTxs = 3
SPECIFICATION Spec
INVARIANTS
    ValidityExplained
    OneMovePerBlock
PROPERTIES
    CollateralOnTarget
CHECK_DEADLOCK FALSE
