CONSTANTS
    RunChecks = {"gnss", "scan"}
    SuspectTicks <- Suspect
    IsolateTicks <- Isolate
    CorroborateTicks = 1
    ClearTicks = 2
    IsolateHold = 2
    RecoverOkTicks = 2
    RecoverTimeout = 3
    MaxReinitAttempts = 2
    DegradedRetry = 2
    SlowOnDegraded = TRUE
    StartupGrace = 1
    GraceAfterRecovery = 2
    Cap = 3
SPECIFICATION FairSpec
INVARIANTS
    TypeOK
    RecoveryIsSound
    AnomaliesAreConfirmed
PROPERTIES
    LastingMismatchIsHeld
    HealthyRunRecovers
