\* Liveness with refits that wait for pending generations, a validation at the
\* start, and one failure of a rollout or of the driver at any point: five batches
\* are enough for surplus groups that fill the buffer while the driver waits to refit.
CONSTANTS
    NumPrompts = 1
    MaxAge = 1
    StartStep = 0
    MaxSteps = 2
    NumBatches = 5
    InFlight = FALSE
    ValPeriod = 0
    ValAtStart = TRUE
    SavePeriod = 0
    MustSaveBy = FALSE
    MaxFailures = 1
SPECIFICATION FairSpec
PROPERTIES PausesEnd RefitHappens ReservedStepArrivesOnce
\* the driver stops, kills the actors, or sleeps for good on a short buffer
CHECK_DEADLOCK FALSE
