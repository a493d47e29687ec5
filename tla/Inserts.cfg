SPECIFICATION Spec
CONSTANTS
    None = None
    Places = {master}
    Missing = {lane}
    Kinds = {reverb, delay}
    Params = {mix}
    Values = {1}
    Default = 0
    Capacity = 2
    DrainLimit = 3
    Realms = {"worklet", "threads"}
    MaxCalls = 4
    MaxRebuilds = 2
INVARIANTS
    HostKnowsTheGraph
PROPERTIES
    RebuildKeepsTheLayout
CHECK_DEADLOCK FALSE
