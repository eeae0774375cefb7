SPECIFICATION SpecAudio
INVARIANTS
    AudioInv
    OneLate
PROPERTIES
    AudioCallsReturn
    Plays
CHECK_DEADLOCK FALSE
