SPECIFICATION FairSpec
CONSTANTS
    c4 = c4  s1 = s1  s2 = s2
    Conns = {c1, c2, c3, c4}
    Sessions = {s1, s2}
    SessionOf <- MCSessionOf
    Slots = {sl1, sl2}
    MaxQueueDepth = 2
    Nobody = Nobody
    NoSlot = NoSlot
INVARIANTS MutualExclusion NothingLeaks DepthBounded
PROPERTIES ImplementsSessionTurns Answered
