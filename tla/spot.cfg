SPECIFICATION Spec
CONSTANTS
    Scale = 100
    SqrtScale = 10
    MaxIterations = 255
    nibi = nibi
    nusd = nusd
    usdc = usdc
    atom = atom
    Traders = {alice, bob}
    Denoms = {nibi, nusd, usdc, atom}
    WhitelistedAsset <- MCWhitelistedAsset
    PoolParams <- MCPoolParams
    InitPoolSharesSupply = 20
    StartingPoolNumber = 1
    PoolCreationFee <- MCPoolCreationFee
    Community = community
    InitialTokens = 40
    NewPoolAmounts = {12}
    JoinAmounts = {7}
    SwapAmounts = {1, 10}
    ExitAmounts = {3, 10}
    Curves <- MCCurves
    MaxPools = 2
    MaxTxs = 4
    MaxRestarts = 1
INVARIANTS
    PoolsBacked
    DIsCurve
    PoolCanBeEmptied
SYMMETRY MCSymmetry
PROPERTIES
    SwapKeepsCurve
    SharesNotDiluted
CHECK_DEADLOCK FALSE
