CONSTANTS
    BTs <- Trees
    DefaultBT = "default.xml"
    Callbacks = {"sequence", "manual"}
    WaypointLists <- MixedOnly
    Requesters = {"ui", "safety"}
    ManualModes = {}
    CostmapMayFail = TRUE
    ServesWhileWaiting = FALSE
    MaxCommands = 3
SPECIFICATION Spec
INVARIANTS
    FsmIsConsistent
    ParkedIsQuiet
    LayersFollowMode
PROPERTY SendsOneAtATime
CHECK_DEADLOCK FALSE
