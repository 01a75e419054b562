SPECIFICATION Spec
CONSTANTS
    Parts = {"serial", "detector", "follower"}
    Kinds = {"motor", "odometry"}
    RecoveryCount = 2
    MaxErrors = 3
    MaxPlugs = 2
    MaxSpeed = 600
    MaxTurn = 800
    Pitch = 358
    Twists <- TwistTable
    Readings <- ReadingTable
    AlwaysPublish = FALSE
    Inverted = {"x", "y"}
    Garbage <- GarbageTable
    Tampers <- TamperTable
    NoValue = NoValue
    Clouds <- CloudTable
    Width = 4
    Height = 2
    Res = 2
    ZMin = 0
    ZMax = 20
    Stride = 1
    DeltaZ = 2
    MinPoints = 3
    Trim = 1
    LinkRadius = 1
    MinCells = 2
    NoPoint = NoPoint
    MaxList = 2
    MaxNavGoals = 3
    MaxRequests = 2
INVARIANTS
    LineIsFaithful
    ObstaclesAreThisFrames
PROPERTIES
    DeviceComesBack
    KeepsItsPromise
CHECK_DEADLOCK FALSE
