SPECIFICATION Spec
CONSTANTS
    Configs <- MCConfigs
    MaxEpochs = 2
    Batches = 3
    SavePeriod = 4
    ValPeriod = 2
    BatchSize = 2
    TrainSize = 2
    MaxGenBatches = 3
    MaxCrashes = 2
INVARIANTS OnPolicy GpuShared StateOfOneStep WorkIsSaved
