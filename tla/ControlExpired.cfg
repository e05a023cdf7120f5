SPECIFICATION Spec
CONSTANTS
    MaxCommands = 1
    CommandTypes <- PlainTypes
    MaxRetained = 1
    QueueCapacity = 1
    MaxBoots = 1
    StorageMayFail = FALSE
    MaxFrames = 1
    MaxLate = 0
    PollFallback = FALSE
    ClockSkew = FALSE
PROPERTIES
    ExpiredNeverExecutes
CHECK_DEADLOCK FALSE
