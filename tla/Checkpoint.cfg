\* Three steps, the best one and the latest kept, up to two crashes.
CONSTANTS
    MaxStep = 3
    Scores = {0, 1}
    KeepTopK = 1
    Callers = {"driver", "other"}
    MaxSaves = 3
    MaxCrashes = 2
SPECIFICATION Spec
INVARIANT ResumesFromWholeCheckpoint
PROPERTIES ImplementsStore OldKeptUntilReplaced
\* the run ends when its saves are used up, or finalize_checkpoint raises
CHECK_DEADLOCK FALSE
