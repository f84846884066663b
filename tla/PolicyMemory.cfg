CONSTANTS
    Jobs <- MCJobs
    Formats = {"unset", "safetensors", "torch_save"}
    MaxSteps = 2
    MaxCrashes = 2
SPECIFICATION Spec
INVARIANTS InItsPlace ReferenceIsBase WeightsOfStep
