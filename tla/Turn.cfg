SPECIFICATION FairSpec
CONSTANTS
    ChannelCap = 2
    MaxIter = 2
    MaxChunks = 2
INVARIANT Settled
PROPERTIES AnswerNeverShrinks 
CHECK_DEADLOCK FALSE
