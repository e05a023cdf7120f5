SPECIFICATION FairSpec
CONSTANTS
    MaxCommands = 2
    CommandTypes <- UpdateTypes
    MaxRetained = 1
    QueueCapacity = 1
    MaxBoots = 1
    StorageMayFail = FALSE
    MaxFrames = 2
    MaxLate = 0
    PollFallback = FALSE
    ClockSkew = FALSE
INVARIANTS
    RunsOnceIfAtAll
PROPERTIES
    QueueDrains
CHECK_DEADLOCK FALSE
