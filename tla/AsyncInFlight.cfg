\* Two prompts a step and in-flight refits; a target reserved twice leaves surplus groups
\* that fill the buffer, and can grow too old for the last of three steps. The second
\* step validates and saves, and the timeout may end the run at any step.
CONSTANTS
    NumPrompts = 2
    MaxAge = 1
    StartStep = 0
    MaxSteps = 3
    NumBatches = 3
    InFlight = TRUE
    ValPeriod = 2
    ValAtStart = FALSE
    SavePeriod = 2
    MustSaveBy = TRUE
    MaxFailures = 0
SPECIFICATION Spec
INVARIANTS WindowAdmitsIntended ReservedOrBuffered FullBufferHasStep
PROPERTIES KeepsStalenessBounded
\* the driver stops, kills the actors, or sleeps for good on a short buffer
CHECK_DEADLOCK FALSE
