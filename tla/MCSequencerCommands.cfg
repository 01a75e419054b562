CONSTANTS
    BTs <- Trees
    DefaultBT = "default.xml"
    Callbacks = {"sequence", "manual"}
    WaypointLists <- TriggerAndPlain
    Requesters = {"ui", "safety"}
    ManualModes = {"default", "normal", "queue_wait"}
    CostmapMayFail = TRUE
    ServesWhileWaiting = TRUE
    MaxCommands = 3
SPECIFICATION Spec
INVARIANTS
    PositionIsGenuine
    ManualIsExclusive
CHECK_DEADLOCK FALSE
