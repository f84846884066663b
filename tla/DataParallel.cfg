CONSTANTS
    Capacity = 6
    Round = 2
    PadMultiple = 2
    PipelineParallel = 2
    TensorParallel = 2
    Jobs <- AllJobs
SPECIFICATION Spec
INVARIANTS
    StepsAreGlobalBatches
    ResultsInOrder
    RanksAgree
    MicrobatchesFit
