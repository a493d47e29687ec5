SPECIFICATION ChannelSpec
CONSTANTS
    Depth = 3
    MaxPublish = 7
INVARIANTS
    NoSilentLoss
    PromptReaderLosesNothing
