SPECIFICATION MCSpec
CONSTANTS
    s1 = s1
    Conns = {c1, c2}
    Sessions = {s1}
    SessionOf <- MCSessionOf
    Questions = {q1, q2}
    MaxTurns = 2
    Clients = {a, b, c}
    IdemKeys = {x, y, z}
    Limit = 1
    Window = 2
    MaxClients = 2
    Ttl = 2
    MaxKeys = 2
    MaxRequests = 4
    HookTime = 2
    u1 = u1  u2 = u2  u3 = u3  n1 = n1  n2 = n2  r1 = r1  r2 = r2
    Threads = {t1, t2}
    Names = {n1, n2}
    Tools = {u1, u2, u3}
    Sources = {r1, r2}
    NameOf <- MCNameOf
    SourceOf <- MCSourceOf
    Patterns = {n1}
    Matches <- MCMatches
    McpHidden <- MCHidden
    NoTool = NoTool
    Nobody = Nobody
INVARIANTS AcceptedIsReturned NoQuestionOutlivesTurn  RateHolds WorkedOnOnce
           CacheHonest RemovesAllOwn
PROPERTIES RemovesOnlyOwn
SYMMETRY Symmetry
CHECK_DEADLOCK FALSE
