SPECIFICATION Spec
CONSTANTS
    Ranks = {1, 2}
    Leader = 1
    Models <- MCModels
    ScaleCounts = {0, 2}
    ScaleSize = 1
    BufferSize = 9
    Alignment = 2
    TrainTarget = 3
    EngineTarget = 3
    MaxFaults = 1
INVARIANT RefittedEverywhere
