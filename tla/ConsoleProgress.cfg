CONSTANTS
    Parts = {"tile", "ptz", "link", "rec", "app"}
    Setup = 2
    RetryInterval = 1
    Stall = 2
    Episode = 5
    StableReset = 2
    Cooldown = 2
    ProbeInterval = 5
    ProbeTimeout = 2
    Latency = 1
    Preferred = "mse"
    HasFallback = TRUE
    MaxRestarts = 0
    MaxChunks = 5
    PendingRoom = 3
    Requests = {r1, r2}
    Cameras = {"north", "south"}
    Archive <- TwoCameras
    LastTime = 3
    MaxCalls = 4
    MaxActs = 3
    Pipes = {"a", "b"}
    MaxShows = 2
    MaxOutages = 2
    MaxClicks = 1
    ConnectsOverlap = FALSE
    PromptService = TRUE
    Views = {"n", "s"}
    MaxOperations = 3
    Fleet = {"v1", "v2"}
    MaxCommands = 2
    MaxPresses = 5
    Operations = {"first", "second"}
    PushesOverlap = FALSE
    Archived = {"n", "s"}
    Recordings <- FewRecordings
    MaxRequests = 2
    MaxGestures = 4
    OnePointer = TRUE
    CommandKeys = {"k1"}
    MaxCrossings = 4
    CalmReloads = TRUE
    Grid = {"n", "s"}
    MaxPicks = 6
    SteadyDrags = TRUE
SPECIFICATION ConsoleFairSpec
PROPERTIES
    TilePlaysPrimaryAgain PtzConverges LinkMakesProgress RecordingPlaysOn
    ViewerComesBack
CHECK_DEADLOCK FALSE
