SPECIFICATION Spec
CONSTANTS
    States = {s1, s2}
    Sizes = {1, 3}
    Capacity = 15
    Pushes = 6
INVARIANT RingInv
PROPERTIES
    IsAStack
    DiscardsOnlyForRoom
CHECK_DEADLOCK FALSE
