\* Command lines and the scheduler interleaved between any two statements, with
\* a lock failure anywhere.
CONSTANTS
    JobIds = {j1, j2}
    Commands = {echo}
    NoCommand = NoCommand
    Minutely = Minutely
    TwoMinutely = TwoMinutely
    Never = Never
    CronExprs = {Minutely, TwoMinutely}
    CronNext <- MCCronNext
    MaxTime = 2
    Fallback = 1
    MaxTasks = 1
    MaxRunHistory = 1
    NoJob = NoJob
    Clients = {c1, c2}
    Periods = {}
    AgentDeleteFlags = {FALSE}
    CliForbids = {}
    DaemonForbids = {NoCommand}
    Hanging = {}
    Retries = 0
    MaxEdits = 3
    MaxFaults = 1
    MaxCrashes = 0
SPECIFICATION HSpec
SYMMETRY Symmetry
INVARIANTS TypeOK RunsBelongToJobs OncePerDueTime OneShotOnce TimingFits BoundedOvertaking
PROPERTIES RemovedStaysRemoved
