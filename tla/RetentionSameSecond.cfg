CONSTANTS
    MaxJobs = 1
    MaxSegments = 1
    MaxTime = 1
    MaxCrashes = 0
    ProtectUnbacked = TRUE
    SameSecond = TRUE
    StoreErrors = FALSE
SPECIFICATION Spec
INVARIANTS NoFootageLost
CHECK_DEADLOCK FALSE
