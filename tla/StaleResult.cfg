CONSTANTS
    BTs <- Trees
    DefaultBT = "default.xml"
    Callbacks = {"sequence", "manual"}
    WaypointLists <- OneWaypoint
    Requesters = {"ui"}
    ManualModes = {}
    CostmapMayFail = FALSE
    ServesWhileWaiting = FALSE
    MaxCommands = 3
SPECIFICATION Spec
INVARIANT OldResultsAreIgnored
CHECK_DEADLOCK FALSE
