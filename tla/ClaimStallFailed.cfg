\* Two prompts a step; the rollout of one of them fails.
CONSTANTS
    NumPrompts = 2
    MaxAge = 1
    StartStep = 0
    MaxSteps = 1
    NumBatches = 3
    InFlight = TRUE
    ValPeriod = 0
    ValAtStart = FALSE
    SavePeriod = 0
    MustSaveBy = FALSE
    MaxFailures = 1
SPECIFICATION FairSpec
PROPERTY StallEnds
\* the driver stops, kills the actors, or sleeps for good on a short buffer
CHECK_DEADLOCK FALSE
