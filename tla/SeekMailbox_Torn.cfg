SPECIFICATION Spec
CONSTANTS
    Realms = {"threads"}
    MaxSeeks = 2
    MaxClears = 0
    MaxRewinds = 0
    MaxQuanta = 2
INVARIANTS
    AppliedAsMade
