SPECIFICATION Spec
CONSTANTS
    Jobs <- AllJobs
    Capacity = 16
    Round = 4
INVARIANTS
    TokensInPlace
    GradientWeights
