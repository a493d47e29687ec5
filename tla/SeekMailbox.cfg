SPECIFICATION Spec
CONSTANTS
    Realms = {"worklet", "threads"}
    MaxSeeks = 3
    MaxClears = 1
    MaxRewinds = 1
    MaxQuanta = 2
INVARIANTS
    KindHasItsArgument
    LastSeekLostOnlyUnderALook
    NextDispatchTakesTheSeek
