CONSTANTS
    Pipes = {"a", "b"}
    MaxShows = 2
    MaxOutages = 0
    MaxClicks = 2
    ConnectsOverlap = FALSE
    PromptService = TRUE
SPECIFICATION AppSpec
PROPERTIES
    NeverQuitsActive
CHECK_DEADLOCK FALSE
