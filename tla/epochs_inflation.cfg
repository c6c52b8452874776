CONSTANTS
    Scale = 100
    SqrtScale = 10
    EpochIds = {1, 2}
    GenesisEpochs <- MCGenesisEpochs
    MaxStep = 2
    MaxTime = 9
    MaxRestarts = 1
    DayEpochID = 1
    EpochsPerPeriods = {0, 2, 3}
    GenesisEpochsPerPeriod = 2
    Calculations <- MCCalculations
    Distributions <- MCDistributions
    GenesisCalculation <- MCGenesisCalculation
    GenesisDistribution <- MCGenesisDistribution
    Proposals <- MCProposals
    PowerReduction = 4
    MaxVotes = 2
SPECIFICATION FairSpec
INVARIANTS
    PeriodFollowsDays
    MintedIsAllocated
PROPERTIES
    EpochsAreTimers
CHECK_DEADLOCK FALSE
