SPECIFICATION WordSpec
CONSTANTS
    Halves = {0, 1, 2}
    Initial <- Zero
    ReadAttempts = 3
    MaxStores = 3
PROPERTIES
    IsRegister
