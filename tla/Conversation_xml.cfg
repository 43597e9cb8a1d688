SPECIFICATION Spec
CONSTANTS
    Conns = {c1, c2}
    Messages = {m1, m2, m3}
    NoConn = NoConn
    NoMessage = NoMessage
    Results = Results
    NativeTools = FALSE
    CarefulClients = TRUE
INVARIANT QuestionsKept
SYMMETRY Symmetry
