CONSTANTS
    Capacity = 6
    Round = 2
    PadMultiple = 2
    PipelineParallel = 2
    TensorParallel = 2
    Jobs <- RewardModelJobs
SPECIFICATION Spec
INVARIANT PairsTogether
