SPECIFICATION FairSpec
CONSTANTS
    HostCapacity = 3
    RetiredCapacity = 2
    EngineCapacity = 4
    EngineDrain = 2
    GarbageCapacity = 2
    SingleRealm = FALSE
    Gated = FALSE
    Ops = {"load", "engine", "barrier", "transport"}
    MaxIssue = 4
    MaxBuild = 4
    MaxCancel = 0
INVARIANTS
    NoAudioFree
    NothingLeaks
PROPERTIES
    OrderKept
    LoadsNeverWedge
    BarriersAnswered
