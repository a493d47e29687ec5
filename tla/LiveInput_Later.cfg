SPECIFICATION Spec
CONSTANTS
    None = None
    LowKey = LowKey
    HighKey = HighKey
    Realms = {"threads"}
    Keys <- OneKey
    Capacity = 1
    Quantum = 2
    Blocks = {2}
    Requests = {0}
    MaxSends = 3
    MaxCancels <- Twice
PROPERTIES
    LaterNotesKept
