--------------------------- MODULE CronScheduler ---------------------------
(***************************************************************************)
(* The daemon's cron scheduler (src/src/cron/scheduler.cpp) and the        *)
(* command line (src/src/cron/cron.cpp), two processes that share nothing  *)
(* but jobs.db.  The scheduler selects the due jobs once and then works    *)
(* through its copies of the rows, however long that takes; the command    *)
(* line reads a row, changes its copy and writes every column back.        *)
(*                                                                         *)
(* A statement fails when another connection holds the database lock (the  *)
(* store sets no busy timeout): the code reports or swallows it and goes   *)
(* on.  The daemon may be killed between two statements and started again. *)
(***************************************************************************)
EXTENDS CronStore

CONSTANTS
    Clients,          \* command-line processes
    Periods,          \* the every_ms values the command line passes
    AgentDeleteFlags, \* the delete_after_run arguments add_agent_job is called with
    CliForbids,       \* commands the command line's policy refuses
    DaemonForbids,    \* commands the daemon's policy refuses
    Hanging,          \* commands that neither end nor close their output
    Retries,          \* config.reliability.scheduler_retries
    MaxEdits,         \* bound on command-line operations
    MaxFaults,        \* bound on lock failures
    MaxCrashes        \* bound on daemon crashes

ASSUME ClientAssumption ==
    /\ Periods \subseteq Nat
    /\ AgentDeleteFlags \subseteq BOOLEAN
    /\ CliForbids \subseteq Commands
    /\ DaemonForbids \subseteq Commands \cup {NoCommand}
    /\ Hanging \subseteq Commands
    /\ Retries \in Nat
    /\ MaxEdits \in Nat /\ MaxFaults \in Nat /\ MaxCrashes \in Nat

VARIABLES
    now,        \* the wall clock
    jobs,       \* cron_jobs
    runs,       \* cron_runs, per job
    used,       \* the ids handed out
    pc,         \* where scheduler::run is
    due,        \* the snapshots it still has to work through; the head is current
    startedAt,  \* started_at of the current job
    attempt,    \* attempts of the current job that failed
    ok,         \* result.success of the current job
    copy,       \* the row update_job read for the scheduler, changed, not yet written
    cli,        \* per client: how far its update has come
    edits, faults, crashes

store == <<jobs, runs>>
sched == <<pc, due, startedAt, attempt, ok, copy>>
vars  == <<now, jobs, runs, used, pc, due, startedAt, attempt, ok, copy, cli,
           edits, faults, crashes>>

Snapshot == [id : JobIds, row : Row]

\* An update at rest; with its patch made and the row not yet read; with the row
\* read, changed and not yet written.  NoCommand in a patch leaves the command.
AtRest  == [stage |-> "rest"]
Patched == [stage : {"patched"}, id : JobIds, schedule : Schedule,
            command : Commands \cup {NoCommand}]
Merged  == [stage : {"merged"}, id : JobIds, row : Row]

TypeOK ==
    /\ now \in Time
    /\ jobs \in [JobIds -> Row \cup {NoJob}]
    /\ runs \in [JobIds -> Seq(Run)]
    /\ used \subseteq JobIds
    /\ pc \in {"down", "poll", "execute", "record", "prune", "dispose", "disable"}
    /\ due \in Seq(Snapshot)
    /\ startedAt \in Time
    /\ attempt \in 0..Retries
    /\ ok \in BOOLEAN
    /\ copy \in Row \cup {NoJob}
    /\ cli \in [Clients -> {AtRest} \cup Patched \cup Merged]
    /\ edits \in 0..MaxEdits
    /\ faults \in 0..MaxFaults
    /\ crashes \in 0..MaxCrashes

Init ==
    /\ now = 0
    /\ jobs = [j \in JobIds |-> NoJob]
    /\ runs = [j \in JobIds |-> << >>]
    /\ used = {}
    /\ pc = "poll"
    /\ due = << >>
    /\ startedAt = 0
    /\ attempt = 0
    /\ ok = FALSE
    /\ copy = NoJob
    /\ cli = [c \in Clients |-> AtRest]
    /\ edits = 0
    /\ faults = 0
    /\ crashes = 0

-----------------------------------------------------------------------------
(* The clock *)

Tick ==
    /\ now < MaxTime
    /\ now' = now + 1
    /\ UNCHANGED <<store, used, sched, cli, edits, faults, crashes>>

-----------------------------------------------------------------------------
(* scheduler::run *)

Job == Head(due)

\* is_one_shot_auto_delete, of the snapshot and not of the stored row
OneShot(row) == row.deleteAfterRun /\ row.schedule.kind = "at"

LockFails == faults < MaxFaults /\ faults' = faults + 1

\* The body of the loop starts on the head of q, or the loop over q is done.
Work(q) ==
    /\ due' = q
    /\ pc' = IF q = << >> THEN "poll" ELSE "execute"
    /\ startedAt' = now
    /\ attempt' = 0
    /\ ok' = FALSE
    /\ copy' = NoJob

Poll ==
    /\ pc = "poll"
    /\ \E s \in DueSelections(jobs, now) : Work(Snapshots(jobs, s))
    /\ UNCHANGED <<now, store, used, cli, edits, faults, crashes>>

PollFails ==
    /\ pc = "poll"
    /\ LockFails
    /\ UNCHANGED <<now, store, used, sched, cli, edits, crashes>>

\* The policy refuses the command: not run, not retried.
ExecuteRefused ==
    /\ pc = "execute"
    /\ Job.row.command \in DaemonForbids
    /\ ok' = FALSE
    /\ pc' = "record"
    /\ UNCHANGED <<now, store, used, due, startedAt, attempt, copy, cli, edits, faults, crashes>>

\* The shell ran the command.  The prompt of an agent job is not looked at: the
\* shell is given its empty command, "cd dir && 2>&1", like any other.
ExecuteSucceeds ==
    /\ pc = "execute"
    /\ Job.row.command \notin DaemonForbids \cup Hanging
    /\ ok' = TRUE
    /\ pc' = "record"
    /\ UNCHANGED <<now, store, used, due, startedAt, attempt, copy, cli, edits, faults, crashes>>

\* Mutant: one retry too many.
ExecuteFailsOnceMore ==
    /\ pc = "execute"
    /\ Job.row.command \notin DaemonForbids \cup Hanging
    /\ IF attempt <= Retries
       THEN attempt' = attempt + 1 /\ UNCHANGED <<pc, ok>>
       ELSE ok' = FALSE /\ pc' = "record" /\ UNCHANGED attempt
    /\ UNCHANGED <<now, store, used, due, startedAt, copy, cli, edits, faults, crashes>>

\* Mutant: the attempts start over when they are used up.
ExecuteFailsForever ==
    /\ pc = "execute"
    /\ Job.row.command \notin DaemonForbids \cup Hanging
    /\ attempt' = IF attempt < Retries THEN attempt + 1 ELSE 0
    /\ UNCHANGED <<now, store, used, pc, due, startedAt, ok, copy, cli, edits, faults, crashes>>

\* Spawn error, non-zero status or timeout: retried until the attempts are used up.
\* The timeout is looked at when a line of output comes, and pclose waits for the
\* command to end: of a silent command that does not end, nothing is heard again.
ExecuteFails ==
    /\ pc = "execute"
    /\ Job.row.command \notin DaemonForbids \cup Hanging
    /\ IF attempt < Retries
       THEN attempt' = attempt + 1 /\ UNCHANGED <<pc, ok>>
       ELSE ok' = FALSE /\ pc' = "record" /\ UNCHANGED attempt
    /\ UNCHANGED <<now, store, used, due, startedAt, copy, cli, edits, faults, crashes>>

\* record_run, its INSERT.
RecordInsert ==
    /\ pc = "record"
    /\ runs' = InsertRun(jobs, runs, Job.id, [at |-> startedAt, ok |-> ok])
    /\ pc' = "prune"
    /\ UNCHANGED <<now, jobs, used, due, startedAt, attempt, ok, copy, cli, edits, faults, crashes>>

\* The INSERT fails unseen and the prune follows; a failure to open the
\* database is thrown, caught and logged, and the prune is skipped.
RecordFails ==
    /\ pc = "record"
    /\ LockFails
    /\ pc' \in {"prune", "dispose"}
    /\ UNCHANGED <<now, store, used, due, startedAt, attempt, ok, copy, cli, edits, crashes>>

\* record_run, its DELETE of the old runs.
RecordPrune ==
    /\ pc = "prune"
    /\ runs' = PruneRuns(runs, Job.id)
    /\ pc' = "dispose"
    /\ UNCHANGED <<now, jobs, used, due, startedAt, attempt, ok, copy, cli, edits, faults, crashes>>

PruneFails ==
    /\ pc = "prune"
    /\ LockFails
    /\ pc' = "dispose"
    /\ UNCHANGED <<now, store, used, due, startedAt, attempt, ok, copy, cli, edits, crashes>>

\* Mutant: the one-shot is left in the table.
RemoveOneShotNot ==
    /\ pc = "dispose"
    /\ OneShot(Job.row) /\ ok
    /\ Work(Tail(due))
    /\ UNCHANGED <<now, store, used, cli, edits, faults, crashes>>

\* A one-shot that succeeded is removed; "not found" is swallowed.
RemoveOneShot ==
    /\ pc = "dispose"
    /\ OneShot(Job.row) /\ ok
    /\ jobs' = DeleteJob(jobs, Job.id)
    /\ runs' = CascadeRuns(runs, Job.id)
    /\ Work(Tail(due))
    /\ UNCHANGED <<now, used, cli, edits, faults, crashes>>

\* A one-shot that failed is disabled: update_job reads the row ...
DisableRead ==
    /\ pc = "dispose"
    /\ OneShot(Job.row) /\ ~ok
    /\ IF jobs[Job.id] = NoJob
       THEN Work(Tail(due))
       ELSE /\ copy' = [jobs[Job.id] EXCEPT !.enabled = FALSE]
            /\ pc' = "disable"
            /\ UNCHANGED <<due, startedAt, attempt, ok>>
    /\ UNCHANGED <<now, store, used, cli, edits, faults, crashes>>

\* ... and writes all of it back.
DisableWrite ==
    /\ pc = "disable"
    /\ jobs' = WriteRow(jobs, Job.id, copy)
    /\ Work(Tail(due))
    /\ UNCHANGED <<now, runs, used, cli, edits, faults, crashes>>

\* Mutant: only a job that succeeded moves on.
RescheduleIfOk ==
    /\ pc = "dispose"
    /\ ~OneShot(Job.row)
    /\ jobs' = IF ok THEN RescheduleRow(jobs, Job.id, Job.row.schedule, ok, now) ELSE jobs
    /\ Work(Tail(due))
    /\ UNCHANGED <<now, runs, used, cli, edits, faults, crashes>>

\* Any other job moves on, by the schedule of the snapshot.
Reschedule ==
    /\ pc = "dispose"
    /\ ~OneShot(Job.row)
    /\ jobs' = RescheduleRow(jobs, Job.id, Job.row.schedule, ok, now)
    /\ Work(Tail(due))
    /\ UNCHANGED <<now, runs, used, cli, edits, faults, crashes>>

\* remove_job, update_job or reschedule_after_run fails: swallowed or logged.
DisposeFails ==
    /\ pc \in {"dispose", "disable"}
    /\ LockFails
    /\ Work(Tail(due))
    /\ UNCHANGED <<now, store, used, cli, edits, crashes>>

\* The process dies with its snapshots; what the statements committed stays.
Crash ==
    /\ pc # "down"
    /\ crashes < MaxCrashes
    /\ crashes' = crashes + 1
    /\ pc' = "down"
    /\ due' = << >>
    /\ attempt' = 0 /\ ok' = FALSE /\ copy' = NoJob
    /\ UNCHANGED <<now, store, used, startedAt, cli, edits, faults>>

Restart ==
    /\ pc = "down"
    /\ pc' = "poll"
    /\ UNCHANGED <<now, store, used, due, startedAt, attempt, ok, copy, cli, edits, faults, crashes>>

-----------------------------------------------------------------------------
(* cron::handle_command and the store's API, one process per client *)

Edit == edits < MaxEdits /\ edits' = edits + 1

Idle(c) == cli[c].stage = "rest"

\* The schedules of add, add-at, once and add-every.
CliSchedules ==      [kind : {"cron"},  expr  : CronExprs]
                \cup [kind : {"at"},    at    : Time]
                \cup [kind : {"every"}, every : Periods]

Insert(s, cmd, del) ==
    /\ ValidSchedule(s, now)
    /\ \E j \in JobIds \ used :
          /\ used' = used \cup {j}
          /\ jobs' = InsertJob(jobs, j, NewRow(s, cmd, del, now))
    /\ UNCHANGED <<now, runs, sched, cli, faults, crashes>>

\* add, add-at, add-every, once: a shell job is deleted after its run iff it is an `at'.
AddShell(c) ==
    /\ Idle(c) /\ Edit
    /\ \E s \in CliSchedules, cmd \in Commands \ CliForbids : Insert(s, cmd, s.kind = "at")

AddAgent(c) ==
    /\ Idle(c) /\ Edit
    /\ \E s \in CliSchedules, del \in AgentDeleteFlags : Insert(s, NoCommand, del)

Remove(c) ==
    /\ Idle(c) /\ Edit
    /\ \E j \in Stored(jobs) :
          /\ jobs' = DeleteJob(jobs, j)
          /\ runs' = CascadeRuns(runs, j)
    /\ UNCHANGED <<now, used, sched, cli, faults, crashes>>

\* update_job, its read: the changed row is kept until it is written.
ReadForUpdate(c, j, row) ==
    /\ cli' = [cli EXCEPT ![c] = [stage |-> "merged", id |-> j, row |-> row]]
    /\ UNCHANGED <<now, store, used, sched, faults, crashes>>

Pause(c) ==
    /\ Idle(c) /\ Edit
    /\ \E j \in Stored(jobs) : ReadForUpdate(c, j, [jobs[j] EXCEPT !.enabled = FALSE])

Resume(c) ==
    /\ Idle(c) /\ Edit
    /\ \E j \in Stored(jobs) : ReadForUpdate(c, j, [jobs[j] EXCEPT !.enabled = TRUE])

WithCommand(row, cmd) == IF cmd = NoCommand THEN row ELSE [row EXCEPT !.command = cmd]

\* The command of update --command, or none.
CommandPatches == (Commands \ CliForbids) \cup {NoCommand}

\* update --command, --name: whatever is given, every column is written back.
UpdateCommand(c) ==
    /\ Idle(c) /\ Edit
    /\ \E j \in Stored(jobs), cmd \in CommandPatches :
          ReadForUpdate(c, j, WithCommand(jobs[j], cmd))

\* update --expression, --tz: handle_command reads the row for the expression the
\* patch keeps, and to refuse a schedule that is no cron expression; update_job
\* reads the row again.
UpdateSchedule(c) ==
    /\ Idle(c) /\ Edit
    /\ \E j \in Stored(jobs), e \in CronExprs, cmd \in CommandPatches :
          /\ jobs[j].schedule.kind = "cron"
          /\ cli' = [cli EXCEPT ![c] = [stage |-> "patched", id |-> j, command |-> cmd,
                                        schedule |-> [kind |-> "cron", expr |-> e]]]
    /\ UNCHANGED <<now, store, used, sched, faults, crashes>>

\* Mutant: the new schedule is stored beside the old next_run.
UpdateReadOnly(c) ==
    /\ cli[c].stage = "patched"
    /\ LET j == cli[c].id
           s == cli[c].schedule
       IN  IF jobs[j] = NoJob \/ ~ValidSchedule(s, now)
           THEN cli' = [cli EXCEPT ![c] = AtRest]
           ELSE cli' = [cli EXCEPT ![c] =
                          [stage |-> "merged", id |-> j,
                           row |-> [WithCommand(jobs[j], cli[c].command)
                                      EXCEPT !.schedule = s]]]
    /\ UNCHANGED <<now, store, used, sched, edits, faults, crashes>>

\* update_job with a schedule, its read: next_run is computed anew.  Without the
\* row or with an invalid schedule the update ends here.
UpdateRead(c) ==
    /\ cli[c].stage = "patched"
    /\ LET j == cli[c].id
           s == cli[c].schedule
       IN  IF jobs[j] = NoJob \/ ~ValidSchedule(s, now)
           THEN cli' = [cli EXCEPT ![c] = AtRest]
           ELSE \E n \in NextRun(s, now) :
                  cli' = [cli EXCEPT ![c] =
                            [stage |-> "merged", id |-> j,
                             row |-> [WithCommand(jobs[j], cli[c].command)
                                        EXCEPT !.schedule = s, !.nextRun = n]]]
    /\ UNCHANGED <<now, store, used, sched, edits, faults, crashes>>

\* update_job, its write.
UpdateWrite(c) ==
    /\ cli[c].stage = "merged"
    /\ jobs' = WriteRow(jobs, cli[c].id, cli[c].row)
    /\ cli' = [cli EXCEPT ![c] = AtRest]
    /\ UNCHANGED <<now, runs, used, sched, edits, faults, crashes>>

UpdateFails(c) ==
    /\ ~Idle(c)
    /\ LockFails
    /\ cli' = [cli EXCEPT ![c] = AtRest]
    /\ UNCHANGED <<now, store, used, sched, edits, crashes>>

-----------------------------------------------------------------------------

SchedulerStep ==
    \/ Poll
    \/ ExecuteRefused \/ ExecuteSucceeds \/ ExecuteFails
    \/ RecordInsert \/ RecordPrune
    \/ RemoveOneShot \/ DisableRead \/ DisableWrite \/ Reschedule

Failure == PollFails \/ RecordFails \/ PruneFails \/ DisposeFails

Client(c) ==
    \/ AddShell(c) \/ AddAgent(c) \/ Remove(c)
    \/ Pause(c) \/ Resume(c) \/ UpdateCommand(c)
    \/ UpdateSchedule(c) \/ UpdateRead(c) \/ UpdateWrite(c) \/ UpdateFails(c)

Next ==
    \/ Tick
    \/ SchedulerStep
    \/ Failure
    \/ Crash \/ Restart
    \/ \E c \in Clients : Client(c)

Spec == Init /\ [][Next]_vars

\* The scheduler's thread is never stopped for good, a killed daemon is started
\* again, and a command line finishes the update it began.
Fairness ==
    /\ WF_vars(SchedulerStep)
    /\ WF_vars(Restart)
    /\ \A c \in Clients : WF_vars(UpdateRead(c) \/ UpdateWrite(c) \/ UpdateFails(c))

FairSpec == Spec /\ Fairness

-----------------------------------------------------------------------------
(* Properties *)

\* A run in the history belongs to a stored job: whatever interleaving of a
\* removal with the scheduler's record_run, no orphan run is left behind
\* (the foreign key of cron_runs and its cascade).
RunsBelongToJobs == \A j \in JobIds : jobs[j] = NoJob => runs[j] = << >>

\* The history of a job is as long as max_run_history allows, or one longer
\* between record_run's two statements; each prune that is lost to a lock or a
\* crash lets one more run stay, and the next prune removes them all.
HistoryBounded ==
    \A j \in JobIds :
        Len(runs[j]) <= Keep + faults + crashes
                        + (IF pc = "prune" /\ Job.id = j THEN 1 ELSE 0)

\* A removed job never comes back: not by the write of an update that read the
\* row before, nor by the disabling or rescheduling of a snapshot of it.
RemovedStaysRemoved ==
    [][\A j \in used : jobs[j] = NoJob => jobs'[j] = NoJob]_vars

\* Every due job stops being due: it is run and moved on, or someone pauses,
\* changes or removes it.  max_tasks and the jobs ahead of it do not starve it.
IsDue(j) == j \in DueSet(jobs, now)
DueJobServed == \A j \in JobIds : IsDue(j) ~> ~IsDue(j)

\* The execution of a job ends: "job timed out after 120s" (scheduler.cpp:115), and
\* the scheduler goes on to the next one.
ExecutionEnds == pc = "execute" ~> pc # "execute"
=============================================================================
