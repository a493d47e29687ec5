SPECIFICATION Spec
CONSTANTS
    Capacity = 1
    Wire = 1
    LoadMayFail = TRUE
    Cycle = 6
    MaxRequests = 2
CHECK_DEADLOCK FALSE
PROPERTIES
    ClosesDown
