SPECIFICATION Spec
CONSTANTS
    Transports = {"Legacy"}
    SongEnds = {"Loops"}
    Length = 3
    FadeQuanta = 2
    AtEndsOf <- FadesOrRepeats
    Actions = {"Play", "Stop"}
    MaxCommands = 4
PROPERTIES
    StopLandsSilent
