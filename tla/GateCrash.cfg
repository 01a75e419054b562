CONSTANTS
    MaxChanges = 2
    MaxGateCrashes = 1
    MaxSupervisorRestarts = 0
    MaxArbiterRestarts = 0
    MaxFailures = 0
    CrashDuringCall = TRUE
SPECIFICATION FairSpec
PROPERTY GateConverges
