SPECIFICATION FairSpec
CONSTANTS
    Frames = 1
    Packets = 4
    FrameLimit = 18
INVARIANTS
    TypeOK
    WindowInOrder
    NeededFrameInWindow
    FlipAgreed
PROPERTIES
    
    EveryFrameRuns
    FlipAnswered
CHECK_DEADLOCK FALSE
