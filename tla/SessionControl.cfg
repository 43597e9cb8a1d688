SPECIFICATION FairSpec
CONSTANTS
    Conns = {c1, c2}
    MaxTurns = 2
    MaxCalls = 2
    MaxCrashes = 1
    CarefulClients = TRUE
INVARIANTS Abortable StateTellsTurn NameKept
 
CHECK_DEADLOCK FALSE
