SPECIFICATION Spec
CONSTANTS
    HostCapacity = 6
    RetiredCapacity = 2
    EngineCapacity = 16
    EngineDrain = 8
    GarbageCapacity = 2
    SingleRealm = TRUE
    Gated = TRUE
    Ops = {"load", "replace", "release", "barrier"}
    MaxIssue = 7
    MaxBuild = 2
    MaxCancel = 1
INVARIANTS
    SourceInStep
    FreshSourceSilent
PROPERTIES
    CancelledReleaseInert
    AcceptedMeansInstalled
