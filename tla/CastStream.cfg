SPECIFICATION Spec
CONSTANTS
    Capacity = 1
    Wire = 1
    LoadMayFail = FALSE
    Cycle = 6
    MaxRequests = 2
CHECK_DEADLOCK FALSE
INVARIANTS
    Gapless
PROPERTIES
    ClosesDown
