CONSTANTS
    MaxJobs = 2
    MaxSegments = 1
    MaxTime = 1
    MaxCrashes = 1
    ProtectUnbacked = TRUE
    SameSecond = FALSE
    StoreErrors = TRUE
SPECIFICATION Spec
INVARIANTS TypeOK NoFootageLost BackedUpIsArchived FileWhereRowSays
PROPERTIES OutcomeIsFinal
CHECK_DEADLOCK FALSE
