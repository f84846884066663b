\* A caller saves a step again after a crash that cut a replacement short.
CONSTANTS
    MaxStep = 2
    Scores = {0, 1}
    KeepTopK = 1
    Callers = {"driver", "other"}
    MaxSaves = 3
    MaxCrashes = 2
SPECIFICATION Spec
INVARIANT OverrideSucceeds
\* the run ends when its saves are used up, or finalize_checkpoint raises
CHECK_DEADLOCK FALSE
