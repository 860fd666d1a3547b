----------------------------- MODULE CronStore -----------------------------
(***************************************************************************)
(* The cron job store: the tables of cron/jobs.db and the SQL statements   *)
(* src/src/cron/store.cpp runs against them.  Every public function of the *)
(* store opens a connection of its own and runs its statements one by one, *)
(* without BEGIN: a statement is one atomic step, a function is several.   *)
(* A statement is an operator from the tables before it to the tables     *)
(* after it, so that the scheduler and the command line (CronScheduler)    *)
(* can interleave between the statements of one call.                      *)
(*                                                                         *)
(* A job row keeps the columns control depends on.  name, prompt, model,   *)
(* session_target, delivery, tz, created_at, last_run and last_output are  *)
(* carried by the code and read by nothing but the listing; an agent job   *)
(* is a row whose command is NoCommand.                                    *)
(***************************************************************************)
EXTENDS Integers, Sequences, FiniteSets, Functions

CONSTANTS
    JobIds,         \* the UUIDs generate_uuid can hand out
    Commands,       \* shell command lines
    NoCommand,      \* the empty command of an agent job
    CronExprs,      \* cron expressions
    CronNext,       \* CronNext[e][t]: {the next run of e after t}, {} if the search gives up
    MaxTime,        \* bound: the clock runs over 0..MaxTime
    Fallback,       \* the one hour reschedule_after_run falls back to
    MaxTasks,       \* config.scheduler.max_tasks
    MaxRunHistory,  \* config.cron.max_run_history
    NoJob           \* the absent row

Time == 0..MaxTime

ASSUME IdsAssumption == IsFiniteSet(JobIds)
ASSUME CommandAssumption == NoCommand \notin Commands
\* CronSearch shows this of next_run_from_cron_fields.
ASSUME CronNextAssumption ==
    \A e \in CronExprs, t \in Time : \A n \in CronNext[e][t] : n \in Nat /\ n > t
\* The search computes one time, the same for the same expression and start.
ASSUME CronNextOne ==
    \A e \in CronExprs, t \in Time : \A n, m \in CronNext[e][t] : n = m
ASSUME BoundsAssumption ==
    MaxTime \in Nat /\ Fallback \in Nat \ {0} /\ MaxTasks \in Nat /\ MaxRunHistory \in Nat

Schedule ==      [kind : {"cron"},  expr  : CronExprs]
            \cup [kind : {"at"},    at    : Nat]
            \cup [kind : {"every"}, every : Nat]

Row == [schedule       : Schedule,
        command        : Commands \cup {NoCommand},
        enabled        : BOOLEAN,
        deleteAfterRun : BOOLEAN,
        nextRun        : Nat,
        lastStatus     : {"never", "ok", "error"}]

ASSUME NoJobAssumption == NoJob \notin Row

Run == [at : Time, ok : BOOLEAN]

-----------------------------------------------------------------------------
(* schedule.cpp *)

\* {the time the schedule runs next after `from'}; {} where the code throws.
NextRun(s, from) ==
    CASE s.kind = "cron"  -> CronNext[s.expr][from]
      [] s.kind = "at"    -> {s.at}
      [] s.kind = "every" -> {n \in {from + s.every} : s.every # 0}

\* validate_schedule: an `at' lies in the future, the others have a next run.
ValidSchedule(s, t) ==
    IF s.kind = "at" THEN s.at > t ELSE NextRun(s, t) # {}

-----------------------------------------------------------------------------
(* store.cpp: one operator per SQL statement *)

Stored(jobs) == {j \in JobIds : jobs[j] # NoJob}

\* The row add_shell_job and add_agent_job insert.
NewRow(s, cmd, del, t) ==
    [schedule |-> s, command |-> cmd, enabled |-> TRUE, deleteAfterRun |-> del,
     nextRun |-> CHOOSE n \in NextRun(s, t) : TRUE, lastStatus |-> "never"]

InsertJob(jobs, j, row) == [jobs EXCEPT ![j] = row]

\* Mutant: a schema without ON DELETE CASCADE.
CascadeRunsNone(runs, j) == runs

\* DELETE FROM cron_jobs; the foreign key cascades to cron_runs.
DeleteJob(jobs, j)     == [jobs EXCEPT ![j] = NoJob]
CascadeRuns(runs, j)   == [runs EXCEPT ![j] = << >>]

DueSet(jobs, t) == {j \in Stored(jobs) : jobs[j].enabled /\ jobs[j].nextRun <= t}

Limit == IF MaxTasks > 1 THEN MaxTasks ELSE 1

\* Mutant: LIMIT without ORDER BY.
DueSelectionsUnordered(jobs, t) ==
    LET D == DueSet(jobs, t)
        n == IF Cardinality(D) < Limit THEN Cardinality(D) ELSE Limit
    IN  {s \in [1..n -> D] : IsInjective(s)}

\* WHERE enabled AND next_run <= now ORDER BY next_run LIMIT n; ties come in any order.
DueSelections(jobs, t) ==
    LET D == DueSet(jobs, t)
        n == IF Cardinality(D) < Limit THEN Cardinality(D) ELSE Limit
    IN  {s \in [1..n -> D] :
           /\ IsInjective(s)
           /\ \A i, k \in 1..n : i < k => jobs[s[i]].nextRun <= jobs[s[k]].nextRun
           /\ \A d \in D \ Range(s) : \A i \in 1..n : jobs[s[i]].nextRun <= jobs[d].nextRun}

\* The snapshots due_jobs returns: the row as it was when it was selected.
Snapshots(jobs, s) == [i \in DOMAIN s |-> [id |-> s[i], row |-> jobs[s[i]]]]

\* Mutant: INSERT OR REPLACE in the place of UPDATE.
WriteRowUpsert(jobs, j, row) == [jobs EXCEPT ![j] = row]

\* The UPDATE of update_job writes every column but last_*; no row, no effect.
WriteRow(jobs, j, row) ==
    IF jobs[j] = NoJob THEN jobs
    ELSE [jobs EXCEPT ![j] = [row EXCEPT !.lastStatus = jobs[j].lastStatus]]

\* The time reschedule_after_run computes from the schedule it is handed.
RescheduleTime(s, t) ==
    IF NextRun(s, t) = {} THEN t + Fallback ELSE CHOOSE n \in NextRun(s, t) : TRUE

\* The UPDATE of reschedule_after_run writes next_run and last_*; no row, no effect.
RescheduleRow(jobs, j, s, ok, t) ==
    IF jobs[j] = NoJob THEN jobs
    ELSE [jobs EXCEPT ![j].nextRun = RescheduleTime(s, t),
                      ![j].lastStatus = IF ok THEN "ok" ELSE "error"]

\* INSERT INTO cron_runs: the foreign key refuses a run of a job that is gone.
InsertRun(jobs, runs, j, run) ==
    IF jobs[j] = NoJob THEN runs ELSE [runs EXCEPT ![j] = Append(@, run)]

Keep == IF MaxRunHistory > 1 THEN MaxRunHistory ELSE 1

\* Mutant: one run too many survives.
NewestPlusOne(h) == IF Len(h) > Keep THEN SubSeq(h, Len(h) - Keep, Len(h)) ELSE h

\* DELETE ... NOT IN (the newest Keep).  Runs are kept in the order they were
\* inserted, which is the order of started_at: one scheduler, a monotone clock.
Newest(h) == IF Len(h) > Keep THEN SubSeq(h, Len(h) - Keep + 1, Len(h)) ELSE h
PruneRuns(runs, j) == [runs EXCEPT ![j] = Newest(@)]
=============================================================================
