\* The clock stops and the bounds are reached.
SPECIFICATION FairSpec
CHECK_DEADLOCK FALSE
CONSTANTS
    c1 = c1
    c2 = c2
    a = a
    b = b
    d = d
    Callers <- MCCallers
    Keys <- MCKeys
    Clients <- MCClients
    MaxTime = 4
    Limit = 2
    Window = 2
    SweepEvery = 3
    Ttl = 2
    MaxKeys = 2
    MaxEntries = 4
    Nobody = "nobody"
    MaxAttempts = 2
    Lockout = 2
    MaxTracked = 1
    MaxMisses = 4
    MaxActions = 2
    Hour = 2
    MaxRecords = 7
    Costs = {1, 2}
    MaxCost = 2
    DailyLimit = 1
    MonthlyLimit = 3
    MonthLength = 2
    MaxUsages = 3
    MaxHistory = 7
    MaxIterations = 3
    MaxRetries = 1
    MaxTurns = 4
INVARIANTS
    ServicesTypeOK
    WithinLimit
    FreshOnce
    GuessesBounded
    ActionsWithinBudget
    AttemptsBounded
    TotalsCoverLog
    OverspendBounded
    HistoryPaired
    CurrentUserKept
PROPERTIES
    LockHolds
    TurnEnds
