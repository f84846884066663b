\* Four groups in a buffer of three: the buffer fills, rejects, and is
\* sampled with groups of other targets before, between and after.
CONSTANTS
    Trajectories = {g1, g2, g3, g4}
    MaxSize = 3
    MaxVersion = 2
    NumGroups = 2
    MaxAge = 1
SPECIFICATION Spec
PROPERTY ImplementsBuffer
\* every group may have been pushed and the buffer cleared
CHECK_DEADLOCK FALSE
