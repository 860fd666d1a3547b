\* A command that neither ends nor writes is not timed out.
CONSTANTS
    JobIds = {j1, j2}
    Commands = {echo}
    NoCommand = NoCommand
    Minutely = Minutely
    TwoMinutely = TwoMinutely
    Never = Never
    CronExprs = {Minutely}
    CronNext <- MCCronNext
    MaxTime = 2
    Fallback = 1
    MaxTasks = 1
    MaxRunHistory = 1
    NoJob = NoJob
    Clients = {c1}
    Periods = {}
    AgentDeleteFlags = {}
    CliForbids = {}
    DaemonForbids = {}
    Hanging = {echo}
    Retries = 0
    MaxEdits = 3
    MaxFaults = 1
    MaxCrashes = 0
SPECIFICATION FairSpec
CHECK_DEADLOCK FALSE
PROPERTIES ExecutionEnds
