CONSTANTS
    Scale = 100
    SqrtScale = 10
    NumTraders = 2
    NumPairs = 1
    GenesisReserve <- MCGenesisReserve
    GenesisPeg <- MCGenesisPeg
    GenesisConfig <- MCGenesisConfig
    GenesisBank <- MCBank
    GenesisIndex <- MCGenesisIndex
    ModuleParams <- MCParams
    Liquidators = {1}
    QuoteAmounts = {1, 3}
    Leverages = {500}
    BaseLimits = {0}
    Margins = {1}
    Donations = {1}
    IndexPrices = {50}
    Configs <- MCConfigs
    Reserves = {1000}
    Depths = {225}
    MaxTxs = 4
    MaxTime = 1
    MaxRequests = 2
    Root = r
    Senders = {r, s}
    Contracts = {c}
    GenesisContracts = {}
    Pegs = {20}
    DepthMults = {225}
    ContractLeverages <- MCContractLeverages
    ContractLimits = {0}
    ContractMargins <- MCContractMargins
SPECIFICATION Spec
INVARIANTS
    PrepaidIsCredit
    VaultCoversClaims
    OnlyGrantedContractsMovePools
PROPERTIES
    RemoveMarginKeepsSolvent
CHECK_DEADLOCK FALSE
