SPECIFICATION Spec
CONSTANTS
    MaxCommands = 1
    CommandTypes <- PlainTypes
    MaxRetained = 1
    QueueCapacity = 1
    MaxBoots = 1
    StorageMayFail = TRUE
    MaxFrames = 1
    MaxLate = 0
    PollFallback = FALSE
    ClockSkew = FALSE
INVARIANTS
    JournalFailureHasNoEffect
CHECK_DEADLOCK FALSE
