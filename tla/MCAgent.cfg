SPECIFICATION MCSpec
CONSTANTS
    MaxTurns = 4
    MaxIterations = 2
    KeepTurns = 1
    NativeTools = TRUE
    Models = 2
    Providers = 2
    MaxRetries = 1
    Requests <- MCRequests
    Windows = {1, 3, 4}
    Calls = {c1, c2, c3}
    Capacity = 2
    MaxReplies = 2
INVARIANTS QuestionVerbatim Paired SkippedAreTold SameView EveryoneAsked EndIsSent AnswersRouted
PROPERTIES CallsReturn
CHECK_DEADLOCK FALSE
