SPECIFICATION FairSpec
CONSTANTS
    Size = 4
    Addresses = {1, 2, 3, 4, 5}
    Priorities = {0, 1}
    Durations = {1, 2}
    UnsignedMax = 3
    TaskFlushes = FALSE
    Pushes = 5
INVARIANTS
    QueueInv
    
PROPERTY ScreenClears
CHECK_DEADLOCK FALSE
