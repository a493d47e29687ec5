SPECIFICATION Spec
SYMMETRY AlikeKeys
CONSTANTS
    None = None
    LowKey = LowKey
    HighKey = HighKey
    Realms = {"threads", "worklet"}
    Keys <- TwoKeys
    Capacity = 1
    Quantum = 2
    Blocks = {1, 3}
    Requests = {0}
    MaxSends = 3
    MaxCancels <- OnceOnThreads
INVARIANTS
    OnTime
    KeyUpSilences
PROPERTIES
    FoundStopsCancel
    OneStopKeepsLaterNotes
