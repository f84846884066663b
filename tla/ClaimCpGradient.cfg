SPECIFICATION Spec
CONSTANTS
    Jobs <- ContextParallelJobs
    Capacity = 16
    Round = 4
INVARIANT GradientWeights
