SPECIFICATION Spec
CONSTANTS
    Parts = {"costmap", "denoise", "filters", "clearance", "monitor", "tf"}
    MaxCostmapEvents = 4
    MaxClearanceEvents = 1
    Size = 5
    World <- WorldTable
    Maps <- MapTable
    InscribedRadius = 1
    InflationRadius = 2
    ObstacleRange = 3
    RaytraceRange = 3
    ClearDistance = 3
    NoMap = NoMap
    Windows <- WindowTable
    Ways = {4, 6}
    GroupSizes = {0, 2, 4}
    NarrowMax = 4
    FilterKinds = {"speed", "keepout", "binary"}
    Infos <- InfoTable
    MaskTopics = {"a", "b"}
    Masks <- MaskTable
    Places = {0, 2, 9}
    Master <- MasterTable
    Beneath <- BeneathTable
    Areas <- AreaTable
    MaskShift = 3
    FlipThreshold = 50
    DefaultState = FALSE
    MaxHappenings = 5
    CostMaps <- CostMapTable
    Paths <- PathTable
    Robot <- RobotTable
    Outline <- OutlineTable
    Lookaheads = {2}
    PathMargin = 1
    MaxSearch = 3
    UseRotate = TRUE
    ClearDuration = 2
    CostmapTimeout = 3
    ReevaluatePeriod = 2
    RetryPeriod = 2
    EpisodeGap = 1
    MinClearMaps = 2
    GoalTolerance = 0
    Conditions = {"IsPathClear", "IsPathBlocked"}
    ClockEnd = 6
    PolygonParams <- PolygonTable
    Configs <- ConfigTable
    SourceParams <- SourceTable
    Cmds <- CmdTable
    SourceMessages <- SourceMessageTable
    ZoneMsgs <- ZoneTable
    SourceTimeout = 1
    StopPubTimeout = 1
    MinHeight = 0
    MaxHeight = 3
    Scale = 10
    MaxTime = 2
    MaxOps = 2
    MaxChanges = 1
    NoData = NoData
    Frames = {"map", "odom", "base", "laser"}
    None = None
    Messages <- MessageTable
    Requests <- RequestTable
    Publishers = {p1, p2}
    CacheTime = 3
    Times <- TimeTable
INVARIANTS
    MasterIsTheLayers
    DenoiseIsExact
    ClearanceIsSound
    StopIsDelivered
    TfIsSound
PROPERTIES
    UpdatesApplyTheMask
    OutputIsSafe
SYMMETRY PublisherSymmetry
CHECK_DEADLOCK FALSE
