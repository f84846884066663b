\* Two epochs of three batches, a save every fourth step, five validation
\* samples of which one is masked, in twos, and up to two restarts.
SPECIFICATION Spec
CONSTANTS
    Configs <- MCConfigs
    MaxEpochs = 2
    Batches = 3
    SavePeriod = 4
    ValSamples = 5
    ValidSamples <- MCValidSamples
    ValBatchSize = 2
    PadTo = 2
    MaxCrashes = 2
INVARIANTS StepInputs CheckpointsKeepUp OneOnGpu
