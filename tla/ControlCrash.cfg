SPECIFICATION Spec
CONSTANTS
    MaxCommands = 1
    CommandTypes <- AllTypes
    MaxRetained = 1
    QueueCapacity = 1
    MaxBoots = 2
    StorageMayFail = TRUE
    MaxFrames = 1
    MaxLate = 1
    PollFallback = TRUE
    ClockSkew = FALSE
INVARIANTS
    ServerResultIsTruthful
    AtMostOnce
    EffectIsJournaled
    OutcomeIsTruthful
PROPERTIES
    KeepsRemoteCommandPromise
    SettledIsFinal
CHECK_DEADLOCK FALSE
