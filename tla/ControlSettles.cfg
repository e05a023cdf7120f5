SPECIFICATION FairSpec
CONSTANTS
    MaxCommands = 1
    CommandTypes <- RestartTypes
    MaxRetained = 1
    QueueCapacity = 1
    MaxBoots = 2
    StorageMayFail = FALSE
    MaxFrames = 1
    MaxLate = 0
    PollFallback = TRUE
    ClockSkew = TRUE
PROPERTIES
    AcceptedSettles
    LoopRestartsDeliverResults
CHECK_DEADLOCK FALSE
