\* The daemon ends when it is shut down or dies.
SPECIFICATION FairSpec
CHECK_DEADLOCK FALSE
CONSTANTS
    Names <- MCNames
    MaxRestarts = 1
    Order <- MCOrder
    Enabled = {"gateway", "heartbeat"}
    Reported = {"channels", "scheduler"}
    SelfReporting = {"heartbeat"}
    DaemonName = "daemon"
    InitialBackoff = 1
    MaxBackoff = 3
    MayShutdown = TRUE
    MayFail = TRUE
INVARIANTS
    TypeOK
    StoppedMeansEnded
    EndedShownDown
    LaunchedOnceAfterAbort
PROPERTIES
    ShutdownReturns
