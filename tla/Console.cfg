CONSTANTS
    Parts = {"tile", "ptz", "link", "rec", "app", "layout", "panel", "target", "browser", "bridge", "tiles"}
    Setup = 3
    RetryInterval = 2
    Stall = 5
    Episode = 15
    StableReset = 3
    Cooldown = 3
    ProbeInterval = 30
    ProbeTimeout = 4
    Latency = 1
    Preferred = "webrtc"
    HasFallback = TRUE
    MaxRestarts = 1
    MaxChunks = 5
    PendingRoom = 3
    Requests = {r1, r2}
    Cameras = {"north", "south"}
    Archive <- TwoCameras
    LastTime = 3
    MaxCalls = 4
    MaxActs = 6
    Pipes = {"a", "b", "c"}
    MaxShows = 2
    MaxOutages = 2
    MaxClicks = 2
    ConnectsOverlap = FALSE
    PromptService = FALSE
    Views = {"n", "s"}
    MaxOperations = 3
    Fleet = {"v1", "v2"}
    MaxCommands = 2
    MaxPresses = 5
    Operations = {"first", "second"}
    PushesOverlap = FALSE
    Archived = {"n", "s"}
    Recordings <- FewRecordings
    MaxRequests = 2
    MaxGestures = 4
    OnePointer = TRUE
    CommandKeys = {"k1"}
    MaxCrossings = 4
    CalmReloads = TRUE
    Grid = {"n", "s"}
    MaxPicks = 7
    SteadyDrags = TRUE
SPECIFICATION ConsoleSpec
VIEW ShownPart
INVARIANTS
    ConsoleTypeOK
    OneConnection SilenceIsBounded
    OneMoveAtATime LastChoiceWins
    MediaInOrder
    RecordingsAsAsked
    NeverAbandoned CleanMeansSaved ShowsWhatWasAsked BridgeAgrees TilesAsChosen
PROPERTIES
    NoMoveAfterRelease
    ClosedIsSilent OnlyWhatWasConfirmed ReportsHold
CHECK_DEADLOCK FALSE
