SPECIFICATION SpecLoop
CONSTANTS
    Frames = {"a", "b"}
INVARIANT LoopInv
PROPERTIES
    Promised
    CallsReturn
    FrameDrawn
    CloseEnds
CHECK_DEADLOCK FALSE
