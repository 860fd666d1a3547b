---------------------------- MODULE CronHistory ----------------------------
(***************************************************************************)
(* CronScheduler with history variables that remember what was run, so     *)
(* that "a job runs once for each time it is due" can be said, and with it *)
(* exactly which interleavings, lock failures and crashes break it.        *)
(***************************************************************************)
EXTENDS CronScheduler

VARIABLES
    fired,    \* per job: the next_run times it has been run for, since a run was last lost
    refired,  \* jobs, not kept, run a second time for a next_run they had been run for
    won,      \* one-shot jobs whose command succeeded, and whose removal was not lost
    rewon,    \* one-shot jobs whose command succeeded again after that
    raced,    \* jobs whose timing changed while a copy of the row was in use
    passed,   \* <<j, k>>: k has been selected while j was due and was not selected
    overtaken \* jobs, not kept, selected a second time ahead of one and the same due job

history == <<fired, refired, won, rewon, raced, passed, overtaken>>

\* The execution of the current job ends in this step, in success or failure.
Finished == pc = "execute" /\ pc' = "record"
Succeeded == Finished /\ ok' /\ OneShot(Job.row)

\* An "at" job that is kept after its run is rescheduled to the time it had: it is due
\* at every poll from then on.
Kept(row) == row.schedule.kind = "at" /\ ~row.deleteAfterRun

\* The columns update_job writes back from an old copy and that the next run depends on.
Timing(row) == <<row.schedule, row.nextRun>>
Retimed(j) == /\ jobs[j] # NoJob /\ jobs'[j] # NoJob
              /\ Timing(jobs[j]) # Timing(jobs'[j])

\* A copy of the row of j is still to be used after this step.
CopyInUse(j) == \/ \E c \in Clients : cli'[c].stage = "merged" /\ cli'[c].id = j
                \/ \E i \in DOMAIN due' : due'[i].id = j

\* A command line enabled j again: what it was run for before is forgotten.
Resumed(j) == /\ jobs[j] # NoJob /\ jobs'[j] # NoJob
              /\ ~jobs[j].enabled /\ jobs'[j].enabled

Selected(k) == pc = "poll" /\ \E i \in DOMAIN due' : due'[i].id = k

Listed(j) == \E i \in DOMAIN due : due[i].id = j

\* A failure takes j off the list, or the daemon dies with it: j is not disposed of.
Dropped(j) ==
    /\ faults' # faults \/ crashes' # crashes
    /\ Listed(j) /\ ~Listed(j)'

\* ... and it has been run: that it has is forgotten with it.
Unsettled(j) == Dropped(j) /\ Job.id = j /\ pc # "execute"

Passes == {p \in JobIds \X JobIds :
             p[1] \in DueSet(jobs, now) /\ ~Selected(p[1]) /\ Selected(p[2])}

Remember ==
    /\ fired' = [j \in JobIds |->
                   CASE Resumed(j) \/ Unsettled(j) -> {}
                     [] Finished /\ Job.id = j    -> fired[j] \cup {Job.row.nextRun}
                     [] OTHER                     -> fired[j]]
    /\ refired' = refired \cup {j \in JobIds :
                     /\ Finished /\ Job.id = j /\ ~Kept(Job.row)
                     /\ Job.row.nextRun \in fired[j]}
    /\ won'   = {j \in won \cup {i \in JobIds : Succeeded /\ Job.id = i} : ~Unsettled(j)}
    /\ rewon' = rewon \cup {j \in won : Succeeded /\ Job.id = j}
    /\ raced' = raced \cup {j \in JobIds : Retimed(j) /\ CopyInUse(j)}
    /\ passed' = {p \in passed \cup Passes :
                     /\ p[1] \in DueSet(jobs', now') /\ ~Selected(p[1]) /\ ~Retimed(p[1])
                     /\ ~Resumed(p[2]) /\ ~Dropped(p[2])}
    /\ overtaken' = overtaken \cup {p[2] : p \in {q \in passed \cap Passes : ~Kept(jobs[q[2]])}}

HistoryInit ==
    /\ fired = [j \in JobIds |-> {}]
    /\ refired = {} /\ won = {} /\ rewon = {} /\ raced = {}
    /\ passed = {} /\ overtaken = {}

HInit == Init /\ HistoryInit
HNext == Next /\ Remember
HSpec == HInit /\ [][HNext]_<<vars, history>>

-----------------------------------------------------------------------------
(* Properties *)

\* A job is run at most once for each time it was due, but for an "at" job that
\* add_agent_job was told to keep (reschedule_after_run gives it the same time again), and
\* unless what followed its run was lost to a lock or a crash, or a command line changed
\* the row from a copy that the scheduler had meanwhile overtaken (or the other way round).
OncePerDueTime == refired \subseteq raced

\* A one-shot job ("at", deleted after its run) succeeds at most once, whatever the
\* command lines do to it at the same time and whatever fails, and once more only after
\* its removal was itself lost to a lock or a crash.
OneShotOnce == rewon = {}

\* The stored next_run is one the stored schedule gives, unless the two were
\* written from different copies of the row.
TimingFits ==
    \A j \in Stored(jobs) \ raced :
        \E t \in 0..now : jobs[j].nextRun = RescheduleTime(jobs[j].schedule, t)

\* No job starves another, but for a kept "at" job: while a job is due and waits for its
\* turn (max_tasks jobs are taken per poll), every other job goes ahead of it at most once,
\* and once more only after it went and a failure kept it from being disposed of.
BoundedOvertaking == overtaken \subseteq raced
=============================================================================
