SPECIFICATION Spec
CONSTANTS
    Parts = {"graph", "batch", "renderer", "matchers", "files", "input", "bridge"}
    MaxNodes = 5
    Steps = {2, 4}
    MinTranslation = 4
    MinRotation = 3
    StraightTurn = 1
    MaxDrift = 2
    OdomInformation = 1
    NearBuffer = 2
    NearMinDiff = 2
    NearMaxDistance = 12
    NearMaxLinks = 1
    SearchRadius = 20
    MinNodeGap = 3
    LoopGap = 3
    Window = 2
    Fixes <- FixTable
    AnchorMinStatus = 0
    PriorMinStatus = 1
    ReanchorMinStatus = 2
    MaxSigma = 4
    ReanchorSigma = 1
    InitDistance = 3
    MinInterval = 1
    ReanchorSamples = 2
    ReanchorDistance = 2
    MaxInnovation = 0
    ReanchorSpan = 25
    SampleGap = 4
    AnchorStep = 1
    RerenderThreshold = 2
    SkipModes = {TRUE, FALSE}
    Bends <- BendTable
    Numerics <- NumericsTable
    FixLoss = {}
    GnssModes = {TRUE, FALSE}
    Builders = {"odom", "matching", "loop"}
    BatchOnFinalize = TRUE
    SubmapRadius = 20
    QueryWindow = 2
    Keys <- KeyTable
    Points <- PointTable
    Guess <- GuessTable
    Scan <- ScanTable
    Nodes <- NodeTable
    Threads = 3
    LinearSteps = 1
    YawSteps = 1
    MinPenalty = 3
    FullPenalty = 4
    BandRows = 3
    KernelCells = 1
    ScoreThreshold = 300
    IcpFinds = {5}
    MaxTargets = 2
    MaxBatch = 2
    MaxLinks = 2
    RenderKinds = {"counting", "overwrite"}
    HitScans <- HitTable
    NodeSteps <- StepTable
    Drift <- DriftTable
    MaxDrawn = 4
    MaxMoves = 1
    Res = 2
    ExpansionMargin = 6
    MissClearance = 1
    MinHits = 2
    HitWeight = 100
    MissWeight = 100
    MissRatios = {0, 50}
    HitThreshold = 60
    RenderThreads = 2
    Chunk = 1
    SmallCount = 2
    MaskRadius = 1
    MatcherTypes = {"icp", "ndt", "csm", "coarse_to_fine", "multi_start_icp", "multi_start_coarse_to_fine"}
    NormalNeighbors = 3
    MinCorrespondences = 2
    MinNdt = 1
    MaxIterations = 2
    Levels = 2
    FullScan = 2
    CostMax = 2
    FastScore = 1
    Yaws <- YawTable
    Offsets <- OffsetTable
    TargetSizes = {0, 2, 3}
    ScanSizes = {0, 2}
    MaxMatches = 2
    MaxFileNodes = 3
    MaxSessions = 2
    MaxCalls = 2
    GridRows = 2
    GridColumns = 3
    RenderedMaps <- GridTable
    Modes = {"live", "bag"}
    OdomStamps = {1, 2, 4}
    ScanStamps = {2, 3}
    FixMsgs <- FixMsgTable
    GnssKinds = {"fix", "navpvt"}
    MaxClock = 4
    OdomCap = 2
    GnssCap = 1
    MaxDt = 2
    Margin = 5
    Bags <- BagTable
    Starts = {0, 3, 5}
    Ends = {0, 4, 7}
    Beams = 3
    Duration = 2
    StartOffset <- SweepOffset
    Directions <- SweepDirections
    Samples = 3
    Positions <- PositionTable
    HalfTurn = 12
    Direction <- DirectionTable
    Alpha = 60
    HeadingMin = 5
    MinPub = 8
    Accuracies = {1, 6}
    Floor <- FloorTable
    Scale <- ScaleTable
    MaxVariance = 4900
    AcceptSingle = TRUE
    Compensates = TRUE
    LeverVariance = 8
    AdoptionTimeout = 2
    MaxTime = 2
    NoValue = NoValue
INVARIANTS
    FactorsAreUsedOnce
    CachesFollowGraph
    FinalMapIsTheGraph
    BatchIsFaithful
    MapIsTheGraph
    MatchIsSound
    SavedMapIsReadBack
    InputIsFaithful
PROPERTIES
    ConfirmedWallsStay
    FramesAreExact
    HeadingIsCurrent
CHECK_DEADLOCK FALSE
