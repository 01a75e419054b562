CONSTANTS
    BTs <- Trees
    DefaultBT = "default.xml"
    Callbacks = {"sequence", "manual"}
    WaypointLists <- ActionThenGoal
    Requesters = {"ui"}
    ManualModes = {}
    CostmapMayFail = FALSE
    ServesWhileWaiting = FALSE
    MaxCommands = 4
SPECIFICATION FairSpec
PROPERTIES
    PromisesAreKept
    ParkedComesToRest
CHECK_DEADLOCK FALSE
