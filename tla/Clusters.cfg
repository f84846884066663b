SPECIFICATION Spec
CONSTANTS
    Setups <- MCSetups
    MaxRetries = 2
INVARIANTS
    PairsShareGpus
    LayersOnOneNode
    MasterRunsRankZero
    FailsOnlyIfUnfit
PROPERTY SetupEnds
