SPECIFICATION Spec
CONSTANTS
    Inputs = {0, 1}
    Tapes <- SomeTapes
    Granularities = {1, 2}
    Ring = 8
    FrameLimit = 4
    ResetLimit = 1
    Resets = FALSE
    Toggles = FALSE
INVARIANT MovieInv
PROPERTY StartOnlyBack
CHECK_DEADLOCK FALSE
