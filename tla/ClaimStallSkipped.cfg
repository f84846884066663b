\* No failure; the collector is slower than the driver once.
CONSTANTS
    NumPrompts = 1
    MaxAge = 1
    StartStep = 0
    MaxSteps = 2
    NumBatches = 4
    InFlight = TRUE
    ValPeriod = 0
    ValAtStart = FALSE
    SavePeriod = 0
    MustSaveBy = FALSE
    MaxFailures = 0
SPECIFICATION FairSpec
PROPERTY StepNeverSkipped
\* the driver stops, kills the actors, or sleeps for good on a short buffer
CHECK_DEADLOCK FALSE
