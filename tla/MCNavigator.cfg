CONSTANTS
    BTs = {"default", "queue_wait"}
    DefaultBT = "default"
    Callbacks = {"seq"}
    MaxGoals = 3
SPECIFICATION NavSpec
INVARIANTS
    GoalsAreAccountedFor
    CancelsAreHonoured
CHECK_DEADLOCK FALSE
