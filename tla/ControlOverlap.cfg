SPECIFICATION Spec
CONSTANTS
    MaxCommands = 2
    CommandTypes <- PlainTypes
    MaxRetained = 2
    QueueCapacity = 1
    MaxBoots = 1
    StorageMayFail = FALSE
    MaxFrames = 1
    MaxLate = 1
    PollFallback = TRUE
    ClockSkew = FALSE
INVARIANTS
    TypeOK
    RunsOnceIfAtAll
PROPERTIES
    EffectsInOrder
    ServerNeverBackward
CHECK_DEADLOCK FALSE
