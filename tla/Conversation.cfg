SPECIFICATION Spec
CONSTANTS
    Conns = {c1, c2}
    Messages = {m1, m2, m3}
    NoConn = NoConn
    NoMessage = NoMessage
    Results = Results
    NativeTools = TRUE
    CarefulClients = TRUE
INVARIANTS QuestionsKept AnswersInPlace AnswersKept
SYMMETRY Symmetry
