SPECIFICATION HistSpec
CONSTANTS
    MaxTurns = 3
    MaxIterations = 2
    KeepTurns = 1
    NativeTools = FALSE
INVARIANT QuestionVerbatim
CHECK_DEADLOCK FALSE
