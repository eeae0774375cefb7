SPECIFICATION Spec
CONSTANTS
    Frames = 2
    Packets = 6
    Retries = 2
    Faults = TRUE
    FrameLimit = 5
    Pads <- OnePad
INVARIANT RingInv
PROPERTIES
    OneGame
    SlidingWindow
CHECK_DEADLOCK FALSE
