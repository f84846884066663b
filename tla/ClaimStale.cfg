\* No failure; a surplus group stays in the buffer.
CONSTANTS
    NumPrompts = 1
    MaxAge = 1
    StartStep = 0
    MaxSteps = 3
    NumBatches = 4
    InFlight = TRUE
    ValPeriod = 0
    ValAtStart = FALSE
    SavePeriod = 0
    MustSaveBy = FALSE
    MaxFailures = 0
SPECIFICATION Spec
INVARIANT StaleDiscarded
\* the driver stops, kills the actors, or sleeps for good on a short buffer
CHECK_DEADLOCK FALSE
