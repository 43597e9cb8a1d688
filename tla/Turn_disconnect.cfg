SPECIFICATION FairSpec
CONSTANTS
    ChannelCap = 2
    MaxIter = 2
    MaxChunks = 2

PROPERTY TurnEnds
CHECK_DEADLOCK FALSE
