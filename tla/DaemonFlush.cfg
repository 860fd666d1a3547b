\* The daemon dies.
SPECIFICATION Spec
CHECK_DEADLOCK FALSE
CONSTANTS
    Names <- MCNames
    MaxRestarts = 1
    Order <- MCOrder
    Enabled = {"gateway", "heartbeat"}
    Reported = {"channels", "scheduler"}
    SelfReporting = {"heartbeat"}
    DaemonName = "daemon"
    InitialBackoff = 1
    MaxBackoff = 3
    MayShutdown = FALSE
    MayFail = FALSE
INVARIANTS
    StaysUp
