SPECIFICATION Spec
CONSTANTS
    Frames = 1
    Packets = 2
    Retries = 1
    Faults = FALSE
    FrameLimit = 9
    Pads <- FlipPads
PROPERTIES
    OneGame
    
CHECK_DEADLOCK FALSE
