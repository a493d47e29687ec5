SPECIFICATION Spec
CONSTANTS
    None = None
    LowKey = LowKey
    HighKey = HighKey
    Realms = {"threads", "worklet"}
    Keys <- OneKey
    Capacity = 1
    Quantum = 2
    Blocks = {2}
    Requests = {0}
    MaxSends = 4
    MaxCancels <- Once
PROPERTIES
    KeyUpSilencesInTheEnd
