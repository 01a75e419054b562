CONSTANTS
    MaxChanges = 4
    MaxGateCrashes = 2
    MaxSupervisorRestarts = 1
    MaxArbiterRestarts = 1
    MaxFailures = 2
    CrashDuringCall = FALSE
SPECIFICATION FairSpec
INVARIANT SettledIsRight
PROPERTIES
    GateConverges
    HeardUnlessRestarted
