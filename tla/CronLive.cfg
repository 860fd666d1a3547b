\* Every due job is served, under the fairness of a daemon that is kept running.
CONSTANTS
    JobIds = {j1, j2}
    Commands = {echo}
    NoCommand = NoCommand
    Minutely = Minutely
    TwoMinutely = TwoMinutely
    Never = Never
    CronExprs = {Minutely}
    CronNext <- MCCronNext
    MaxTime = 2
    Fallback = 1
    MaxTasks = 1
    MaxRunHistory = 1
    NoJob = NoJob
    Clients = {c1}
    Periods = {2}
    AgentDeleteFlags = {TRUE}
    CliForbids = {}
    DaemonForbids = {NoCommand}
    Hanging = {}
    Retries = 1
    MaxEdits = 2
    MaxFaults = 1
    MaxCrashes = 1
SPECIFICATION FairSpec
INVARIANTS HistoryBounded
PROPERTIES DueJobServed ExecutionEnds
