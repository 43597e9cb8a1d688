SPECIFICATION MemSpec
CONSTANTS
    Agents = {a1, a2}
    Lessons = {l1, l2}
    Calls = {t1}
    OldKeys = {o1}
    QueueCap = 1
    Batch = 1
    Backfill = TRUE
    MaxExits = 1
    Nothing = Nothing
INVARIANT NoCircle
PROPERTIES  AcceptedIsLearnt
CHECK_DEADLOCK FALSE
