SPECIFICATION SpecDelta
CONSTANTS
    StateSizes = {4, 7, 8, 11, 12}
    Uint16Max = 4
    Alignments = {TRUE, FALSE}
INVARIANTS
    DeltaInv
    LeadsBack
CHECK_DEADLOCK FALSE
