SPECIFICATION MCSpec
CONSTANTS
    d1 = d1  j1 = j1
    Jobs = {d1, j1}
    Declared = {d1}
    Period = 2
    MaxTasks = 1
    MaxConcurrent = 1
    CatchUp = TRUE
    CarefulEditors = TRUE
    MaxTime = 3
    MaxEdits = 2
    MaxCrashes = 1
    NoJob = NoJob
    BgJobs = {b1, b2}
    Callers = {k1, k2}
    MaxRunning = 1
    MaxQueued = 1
INVARIANTS OnceRunsOnce ScheduleHolds 
PROPERTIES DueRuns EndIsFinal JobsEnd
CHECK_DEADLOCK FALSE
