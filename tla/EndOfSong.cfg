SPECIFICATION Spec
CONSTANTS
    Transports = {"Legacy", "Interactive"}
    SongEnds = {"Loops", "Ends"}
    Length = 3
    FadeQuanta = 2
    AtEndsOf <- AllModes
    Actions = {"Play", "Pause", "Stop"}
    MaxCommands = 4
INVARIANTS
    InteractiveRestartPlaysOn
    RewindMeansNaturalEnd
PROPERTIES
    EndsOnce
    OnlyARetractionClicks
    HeardSongStops
