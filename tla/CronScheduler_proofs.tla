------------------------ MODULE CronScheduler_proofs ------------------------
(***************************************************************************)
(* The job store stays well formed under every interleaving of the         *)
(* scheduler, any number of command lines, lock failures and crashes: type *)
(* correctness, the bound on the run history, no orphan runs, and no job   *)
(* that comes back after its removal.  Then what CronHistory remembers of  *)
(* the runs: a one-shot succeeds once, stored times fit their schedules, a *)
(* job runs once per due time, and none is overtaken twice.                *)
(***************************************************************************)
EXTENDS CronHistory, FiniteSetTheorems, TLAPS

-----------------------------------------------------------------------------
(* The store's operators *)

\* Every schedule's next run is a time.
LEMMA NextRunType ==
    ASSUME NEW s \in Schedule, NEW u \in Time
    PROVE  NextRun(s, u) \subseteq Nat
<1>0. u \in Nat
  BY BoundsAssumption DEF Time
<1>1. CASE s \in [kind : {"cron"}, expr : CronExprs]
  BY <1>1, CronNextAssumption DEF NextRun
<1>2. CASE s \in [kind : {"at"}, at : Nat]
  BY <1>2 DEF NextRun
<1>3. CASE s \in [kind : {"every"}, every : Nat]
  BY <1>0, <1>3 DEF NextRun
<1>4. QED
  BY <1>1, <1>2, <1>3 DEF Schedule

LEMMA RescheduleTimeType ==
    ASSUME NEW s \in Schedule, NEW u \in Time
    PROVE  RescheduleTime(s, u) \in Nat
<1>1. u \in Nat /\ Fallback \in Nat
  BY BoundsAssumption DEF Time
<1>2. CASE NextRun(s, u) = {}
  BY <1>1, <1>2 DEF RescheduleTime
<1>3. CASE NextRun(s, u) # {}
  <2>1. (CHOOSE n \in NextRun(s, u) : TRUE) \in NextRun(s, u)
    BY <1>3
  <2>2. QED
    BY <1>3, <2>1, NextRunType DEF RescheduleTime
<1>4. QED
  BY <1>2, <1>3

\* A schedule that passes validation has a next run.
LEMMA ValidHasNext ==
    ASSUME NEW s \in Schedule, NEW u \in Time, ValidSchedule(s, u)
    PROVE  NextRun(s, u) # {}
<1>1. CASE s.kind = "at"
  BY <1>1 DEF NextRun
<1>2. CASE s.kind # "at"
  BY <1>2 DEF ValidSchedule
<1>3. QED
  BY <1>1, <1>2

LEMMA NewRowType ==
    ASSUME NEW s \in Schedule, NEW u \in Time, ValidSchedule(s, u),
           NEW cmd \in Commands \cup {NoCommand}, NEW del \in BOOLEAN
    PROVE  NewRow(s, cmd, del, u) \in Row
<1>1. (CHOOSE n \in NextRun(s, u) : TRUE) \in NextRun(s, u)
  BY ValidHasNext
<1>2. (CHOOSE n \in NextRun(s, u) : TRUE) \in Nat
  BY <1>1, NextRunType
<1>3. QED
  BY <1>2 DEF NewRow, Row

\* The tables after each statement are tables.
LEMMA WriteRowType ==
    ASSUME NEW tab \in [JobIds -> Row \cup {NoJob}], NEW j \in JobIds, NEW row \in Row
    PROVE  WriteRow(tab, j, row) \in [JobIds -> Row \cup {NoJob}]
<1>1. CASE tab[j] = NoJob
  BY <1>1 DEF WriteRow
<1>2. CASE tab[j] # NoJob
  <2>1. tab[j] \in Row
    BY <1>2
  <2>2. [row EXCEPT !.lastStatus = tab[j].lastStatus] \in Row
    BY <2>1 DEF Row
  <2>3. QED
    BY <1>2, <2>2 DEF WriteRow
<1>3. QED
  BY <1>1, <1>2

LEMMA RescheduleRowType ==
    ASSUME NEW tab \in [JobIds -> Row \cup {NoJob}], NEW j \in JobIds,
           NEW s \in Schedule, NEW b \in BOOLEAN, NEW u \in Time
    PROVE  RescheduleRow(tab, j, s, b, u) \in [JobIds -> Row \cup {NoJob}]
<1>1. CASE tab[j] = NoJob
  BY <1>1 DEF RescheduleRow
<1>2. CASE tab[j] # NoJob
  <2>1. tab[j] \in Row /\ RescheduleTime(s, u) \in Nat
    BY <1>2, RescheduleTimeType
  <2> DEFINE row == [tab[j] EXCEPT !.nextRun = RescheduleTime(s, u),
                                   !.lastStatus = IF b THEN "ok" ELSE "error"]
  <2>2. row \in Row
    BY <2>1 DEF Row
  <2>3. RescheduleRow(tab, j, s, b, u) = [tab EXCEPT ![j] = row]
    BY <1>2, <2>1 DEF RescheduleRow, Row
  <2>4. QED
    BY <2>2, <2>3
<1>3. QED
  BY <1>1, <1>2

LEMMA DeleteType ==
    ASSUME NEW tab \in [JobIds -> Row \cup {NoJob}], NEW hist \in [JobIds -> Seq(Run)],
           NEW j \in JobIds
    PROVE  /\ DeleteJob(tab, j) \in [JobIds -> Row \cup {NoJob}]
           /\ CascadeRuns(hist, j) \in [JobIds -> Seq(Run)]
<1>1. << >> \in Seq(Run)
  OBVIOUS
<1>2. QED
  BY <1>1 DEF DeleteJob, CascadeRuns

\* Neither write brings an absent row back.
LEMMA WritesNeverCreate ==
    ASSUME NEW tab \in [JobIds -> Row \cup {NoJob}], NEW j \in JobIds, NEW row \in Row,
           NEW s, NEW b, NEW u
    PROVE  \A k \in JobIds : tab[k] = NoJob =>
              WriteRow(tab, j, row)[k] = NoJob /\ RescheduleRow(tab, j, s, b, u)[k] = NoJob
BY DEF WriteRow, RescheduleRow

\* Pruning leaves at most Keep runs, all of them runs that were there.
LEMMA NewestBound ==
    ASSUME NEW h \in Seq(Run)
    PROVE  Newest(h) \in Seq(Run) /\ Len(Newest(h)) <= Keep
<1>1. Keep \in Nat \ {0} /\ Len(h) \in Nat
  BY BoundsAssumption DEF Keep
<1>2. CASE Len(h) > Keep
  <2>1. Newest(h) = SubSeq(h, Len(h) - Keep + 1, Len(h))
    BY <1>2 DEF Newest
  <2>2. QED
    BY <1>1, <1>2, <2>1
<1>3. CASE ~(Len(h) > Keep)
  BY <1>1, <1>3 DEF Newest
<1>4. QED
  BY <1>2, <1>3

\* The snapshots of a poll are rows of stored jobs.
LEMMA SnapshotsType ==
    ASSUME NEW tab \in [JobIds -> Row \cup {NoJob}], NEW u,
           NEW s \in DueSelections(tab, u)
    PROVE  Snapshots(tab, s) \in Seq(Snapshot)
<1> DEFINE D == DueSet(tab, u)
           n == IF Cardinality(D) < Limit THEN Cardinality(D) ELSE Limit
<1>1. IsFiniteSet(D)
  BY IdsAssumption, FS_Subset DEF DueSet, Stored
<1>2. n \in Nat
  BY <1>1, FS_CardinalityType, BoundsAssumption DEF Limit
<1>3. s \in [1..n -> D]
  BY DEF DueSelections
<1>4. \A d \in D : d \in JobIds /\ tab[d] \in Row
  BY DEF DueSet, Stored
<1>5. \A i \in 1..n : [id |-> s[i], row |-> tab[s[i]]] \in Snapshot
  BY <1>3, <1>4 DEF Snapshot
<1>6. Snapshots(tab, s) \in [1..n -> Snapshot]
  BY <1>3, <1>5 DEF Snapshots
<1>7. QED
  BY <1>2, <1>6

-----------------------------------------------------------------------------
(* The inductive invariant *)

\* In the middle of a job there is a current job, and a copy where one is needed.
Busy ==
    /\ pc \in {"execute", "record", "prune", "dispose", "disable"} => due # << >>
    /\ pc = "disable" => copy \in Row

TInv == TypeOK /\ Busy

\* Beginning the next snapshot of a list, or the next poll.
LEMMA WorkTyped ==
    ASSUME TypeOK, NEW q \in Seq(Snapshot), Work(q)
    PROVE  /\ due' \in Seq(Snapshot)
           /\ pc' \in {"poll", "execute"}
           /\ startedAt' \in Time /\ attempt' \in 0..Retries /\ ok' \in BOOLEAN
           /\ copy' \in Row \cup {NoJob}
           /\ Busy'
<1>1. Retries \in Nat
  BY ClientAssumption
<1>2. due' \in Seq(Snapshot) /\ pc' \in {"poll", "execute"}
  BY DEF Work
<1>3. startedAt' \in Time /\ ok' \in BOOLEAN /\ copy' \in Row \cup {NoJob}
  BY DEF Work, TypeOK
<1>4. attempt' \in 0..Retries
  BY <1>1 DEF Work
<1>5. Busy'
  BY DEF Work, Busy
<1>6. QED
  BY <1>2, <1>3, <1>4, <1>5

\* The current job of a busy scheduler, and what is left after it.
LEMMA JobTyped ==
    ASSUME TInv, pc \in {"execute", "record", "prune", "dispose", "disable"}
    PROVE  /\ Job \in Snapshot /\ Job.id \in JobIds /\ Job.row \in Row
           /\ Job.row.schedule \in Schedule
           /\ Tail(due) \in Seq(Snapshot)
<1>1. due \in Seq(Snapshot) /\ due # << >>
  BY DEF TInv, TypeOK, Busy
<1>2. Head(due) \in Snapshot /\ Tail(due) \in Seq(Snapshot)
  BY <1>1
<1>3. QED
  BY <1>2 DEF Job, Snapshot, Row

LEMMA WithCommandType ==
    ASSUME NEW row \in Row, NEW cmd \in Commands \cup {NoCommand}
    PROVE  WithCommand(row, cmd) \in Row
BY DEF WithCommand, Row

LEMMA CliSchedulesType == CliSchedules \subseteq Schedule
<1>1. Time \subseteq Nat /\ Periods \subseteq Nat
  BY BoundsAssumption, ClientAssumption DEF Time
<1>2. /\ [kind : {"at"}, at : Time] \subseteq [kind : {"at"}, at : Nat]
      /\ [kind : {"every"}, every : Periods] \subseteq [kind : {"every"}, every : Nat]
  BY <1>1
<1>3. QED
  BY <1>2 DEF CliSchedules, Schedule

\* An insertion stores a row under an id never used before.
LEMMA InsertTyped ==
    ASSUME TypeOK, NEW s \in CliSchedules, NEW cmd \in Commands \cup {NoCommand},
           NEW del \in BOOLEAN, Insert(s, cmd, del)
    PROVE  \E j \in JobIds \ used, row \in Row :
              used' = used \cup {j} /\ jobs' = [jobs EXCEPT ![j] = row]
<1>1. PICK j \in JobIds \ used :
         used' = used \cup {j} /\ jobs' = InsertJob(jobs, j, NewRow(s, cmd, del, now))
  BY DEF Insert
<1>2. NewRow(s, cmd, del, now) \in Row
  BY CliSchedulesType, NewRowType DEF Insert, TypeOK
<1>3. QED
  BY <1>1, <1>2 DEF InsertJob

LEMMA AddTyped ==
    ASSUME TypeOK, NEW c \in Clients, AddShell(c) \/ AddAgent(c)
    PROVE  /\ \E j \in JobIds \ used, row \in Row :
                 used' = used \cup {j} /\ jobs' = [jobs EXCEPT ![j] = row]
           /\ UNCHANGED <<now, runs, sched, cli, faults, crashes>> /\ Edit
<1>1. CASE AddShell(c)
  <2>1. PICK s \in CliSchedules, cmd \in Commands \ CliForbids : Insert(s, cmd, s.kind = "at")
    BY <1>1 DEF AddShell
  <2>2. (s.kind = "at") \in BOOLEAN /\ cmd \in Commands \cup {NoCommand}
    OBVIOUS
  <2>3. QED
    BY <1>1, <2>1, <2>2, InsertTyped DEF AddShell, Insert
<1>2. CASE AddAgent(c)
  <2>1. PICK s \in CliSchedules, del \in AgentDeleteFlags : Insert(s, NoCommand, del)
    BY <1>2 DEF AddAgent
  <2>2. QED
    BY <1>2, <2>1, InsertTyped, ClientAssumption DEF AddAgent, Insert
<1>3. QED
  BY <1>1, <1>2

LEMMA InitTInv == Init => TInv
<1> SUFFICES ASSUME Init PROVE TInv
  OBVIOUS
<1>1. /\ MaxTime \in Nat /\ Retries \in Nat /\ MaxEdits \in Nat
      /\ MaxFaults \in Nat /\ MaxCrashes \in Nat
  BY BoundsAssumption, ClientAssumption
<1>2. now \in Time /\ startedAt \in Time /\ attempt \in 0..Retries
  BY <1>1 DEF Init, Time
<1>3. edits \in 0..MaxEdits /\ faults \in 0..MaxFaults /\ crashes \in 0..MaxCrashes
  BY <1>1 DEF Init
<1>4. jobs \in [JobIds -> Row \cup {NoJob}] /\ cli \in [Clients -> {AtRest} \cup Patched \cup Merged]
  BY DEF Init
<1>5. << >> \in Seq(Run) /\ << >> \in Seq(Snapshot)
  OBVIOUS
<1>6. runs \in [JobIds -> Seq(Run)] /\ due \in Seq(Snapshot)
  BY <1>5 DEF Init
<1>7. used \subseteq JobIds /\ ok \in BOOLEAN /\ copy \in Row \cup {NoJob} /\ pc = "poll"
  BY DEF Init
<1>8. QED
  BY <1>2, <1>3, <1>4, <1>6, <1>7 DEF TInv, TypeOK, Busy

LEMMA NextTInv == TInv /\ [Next]_vars => TInv'
<1> SUFFICES ASSUME TInv, [Next]_vars PROVE TInv'
  OBVIOUS
<1> USE DEF TInv
<1>b. /\ MaxTime \in Nat /\ Retries \in Nat /\ MaxEdits \in Nat
      /\ MaxFaults \in Nat /\ MaxCrashes \in Nat
  BY BoundsAssumption, ClientAssumption
<1>t. /\ jobs \in [JobIds -> Row \cup {NoJob}] /\ runs \in [JobIds -> Seq(Run)]
      /\ now \in Time /\ ok \in BOOLEAN /\ startedAt \in Time
  BY DEF TypeOK
<1>w. ASSUME NEW q \in Seq(Snapshot), Work(q), jobs' \in [JobIds -> Row \cup {NoJob}],
             runs' \in [JobIds -> Seq(Run)], UNCHANGED <<now, used, cli, edits, crashes>>,
             faults' \in 0..MaxFaults
      PROVE  TInv'
  BY <1>w, WorkTyped DEF TypeOK
<1>l. LockFails => faults' \in 0..MaxFaults
  BY <1>b DEF LockFails, TypeOK
<1>f. faults \in 0..MaxFaults /\ edits \in 0..MaxEdits /\ crashes \in 0..MaxCrashes
  BY DEF TypeOK
<1>1. CASE Tick
  BY <1>1, <1>b DEF Tick, TypeOK, Busy, Time, store, sched
<1>2. CASE Poll
  <2>1. PICK s \in DueSelections(jobs, now) : Work(Snapshots(jobs, s))
    BY <1>2 DEF Poll
  <2>2. Snapshots(jobs, s) \in Seq(Snapshot)
    BY <1>t, SnapshotsType
  <2>3. QED
    BY <1>2, <1>t, <1>f, <1>w, <2>1, <2>2 DEF Poll, store
<1>3. CASE PollFails
  BY <1>3, <1>l DEF PollFails, TypeOK, Busy, store, sched
<1>4. CASE ExecuteRefused
  BY <1>4 DEF ExecuteRefused, TypeOK, Busy, store
<1>5. CASE ExecuteSucceeds
  BY <1>5 DEF ExecuteSucceeds, TypeOK, Busy, store
<1>6. CASE ExecuteFails
  <2>1. CASE attempt < Retries
    BY <1>6, <1>b, <2>1 DEF ExecuteFails, TypeOK, Busy, store
  <2>2. CASE ~(attempt < Retries)
    BY <1>6, <2>2 DEF ExecuteFails, TypeOK, Busy, store
  <2>3. QED
    BY <2>1, <2>2
<1>7. CASE RecordInsert
  <2>1. [at |-> startedAt, ok |-> ok] \in Run
    BY <1>t DEF Run
  <2>2. Job.id \in JobIds
    BY <1>7, JobTyped DEF RecordInsert
  <2>3. runs' \in [JobIds -> Seq(Run)]
    BY <1>7, <1>t, <2>1, <2>2 DEF RecordInsert, InsertRun
  <2>4. QED
    BY <1>7, <2>3 DEF RecordInsert, TypeOK, Busy
<1>8. CASE RecordFails
  BY <1>8, <1>l DEF RecordFails, TypeOK, Busy, store
<1>9. CASE RecordPrune
  <2>1. Job.id \in JobIds
    BY <1>9, JobTyped DEF RecordPrune
  <2>2. runs' \in [JobIds -> Seq(Run)]
    BY <1>9, <1>t, <2>1, NewestBound DEF RecordPrune, PruneRuns
  <2>3. QED
    BY <1>9, <2>2 DEF RecordPrune, TypeOK, Busy
<1>10. CASE PruneFails
  BY <1>10, <1>l DEF PruneFails, TypeOK, Busy, store
<1>11. CASE RemoveOneShot
  <2>1. Job.id \in JobIds /\ Tail(due) \in Seq(Snapshot)
    BY <1>11, JobTyped DEF RemoveOneShot
  <2>2. jobs' \in [JobIds -> Row \cup {NoJob}] /\ runs' \in [JobIds -> Seq(Run)]
    BY <1>11, <1>t, <2>1, DeleteType DEF RemoveOneShot
  <2>3. QED
    BY <1>11, <1>w, <1>f, <2>1, <2>2 DEF RemoveOneShot
<1>12. CASE DisableRead
  <2>1. Job.id \in JobIds /\ Tail(due) \in Seq(Snapshot)
    BY <1>12, JobTyped DEF DisableRead
  <2>2. CASE jobs[Job.id] = NoJob
    BY <1>12, <1>t, <1>w, <1>f, <2>1, <2>2 DEF DisableRead, store
  <2>3. CASE jobs[Job.id] # NoJob
    <3>1. jobs[Job.id] \in Row
      BY <1>t, <2>1, <2>3
    <3>2. [jobs[Job.id] EXCEPT !.enabled = FALSE] \in Row
      BY <3>1 DEF Row
    <3>3. QED
      BY <1>12, <2>3, <3>2 DEF DisableRead, TypeOK, Busy, store
  <2>4. QED
    BY <2>2, <2>3
<1>13. CASE DisableWrite
  <2>1. Job.id \in JobIds /\ Tail(due) \in Seq(Snapshot) /\ copy \in Row
    BY <1>13, JobTyped DEF DisableWrite, Busy
  <2>2. jobs' \in [JobIds -> Row \cup {NoJob}]
    BY <1>13, <1>t, <2>1, WriteRowType DEF DisableWrite
  <2>3. QED
    BY <1>13, <1>t, <1>w, <1>f, <2>1, <2>2 DEF DisableWrite
<1>14. CASE Reschedule
  <2>1. Job.id \in JobIds /\ Tail(due) \in Seq(Snapshot) /\ Job.row.schedule \in Schedule
    BY <1>14, JobTyped DEF Reschedule
  <2>2. jobs' \in [JobIds -> Row \cup {NoJob}]
    BY <1>14, <1>t, <2>1, RescheduleRowType DEF Reschedule
  <2>3. QED
    BY <1>14, <1>t, <1>w, <1>f, <2>1, <2>2 DEF Reschedule
<1>15. CASE DisposeFails
  <2>1. Tail(due) \in Seq(Snapshot)
    BY <1>15, JobTyped DEF DisposeFails
  <2>2. QED
    BY <1>15, <1>t, <1>w, <1>l, <2>1 DEF DisposeFails, store
<1>16. CASE Crash
  <2>1. crashes' \in 0..MaxCrashes /\ attempt' \in 0..Retries
    BY <1>16, <1>b, <1>f DEF Crash
  <2>2. due' \in Seq(Snapshot)
    BY <1>16 DEF Crash
  <2>3. QED
    BY <1>16, <2>1, <2>2 DEF Crash, TypeOK, Busy, store
<1>17. CASE Restart
  BY <1>17 DEF Restart, TypeOK, Busy, store
<1>18. ASSUME NEW c \in Clients, Client(c)
       PROVE  TInv'
  <2>e. Edit => edits' \in 0..MaxEdits
    BY <1>b, <1>f DEF Edit
  <2>r. ASSUME NEW j \in JobIds, NEW row \in Row, ReadForUpdate(c, j, row), Edit
        PROVE  TInv'
    <3>1. [stage |-> "merged", id |-> j, row |-> row] \in Merged
      BY DEF Merged
    <3>2. (cli \in [Clients -> {AtRest} \cup Patched \cup Merged])'
      BY <2>r, <3>1 DEF ReadForUpdate, TypeOK
    <3>3. QED
      BY <2>r, <2>e, <3>2 DEF ReadForUpdate, TypeOK, Busy, store, sched
  <2>j. \A j \in Stored(jobs) : j \in JobIds /\ jobs[j] \in Row
    BY <1>t DEF Stored
  <2>1. CASE AddShell(c) \/ AddAgent(c)
    <3>1. PICK j \in JobIds \ used, row \in Row :
             used' = used \cup {j} /\ jobs' = [jobs EXCEPT ![j] = row]
      BY <2>1, AddTyped
    <3>2. UNCHANGED <<now, runs, sched, cli, faults, crashes>> /\ Edit
      BY <2>1, AddTyped
    <3>3. jobs' \in [JobIds -> Row \cup {NoJob}] /\ used' \subseteq JobIds
      BY <1>t, <3>1 DEF TypeOK
    <3>4. QED
      BY <2>e, <3>2, <3>3 DEF TypeOK, Busy, sched
  <2>3. CASE Remove(c)
    <3>1. PICK j \in Stored(jobs) : jobs' = DeleteJob(jobs, j) /\ runs' = CascadeRuns(runs, j)
      BY <2>3 DEF Remove
    <3>2. jobs' \in [JobIds -> Row \cup {NoJob}] /\ runs' \in [JobIds -> Seq(Run)]
      BY <1>t, <2>j, <3>1, DeleteType
    <3>3. QED
      BY <2>3, <2>e, <3>2 DEF Remove, TypeOK, Busy, sched
  <2>4. CASE Pause(c)
    <3>1. PICK j \in Stored(jobs) : ReadForUpdate(c, j, [jobs[j] EXCEPT !.enabled = FALSE])
      BY <2>4 DEF Pause
    <3>2. [jobs[j] EXCEPT !.enabled = FALSE] \in Row
      BY <2>j DEF Row
    <3>3. QED
      BY <2>4, <2>j, <2>r, <3>1, <3>2 DEF Pause
  <2>5. CASE Resume(c)
    <3>1. PICK j \in Stored(jobs) : ReadForUpdate(c, j, [jobs[j] EXCEPT !.enabled = TRUE])
      BY <2>5 DEF Resume
    <3>2. [jobs[j] EXCEPT !.enabled = TRUE] \in Row
      BY <2>j DEF Row
    <3>3. QED
      BY <2>5, <2>j, <2>r, <3>1, <3>2 DEF Resume
  <2>6. CASE UpdateCommand(c)
    <3>1. PICK j \in Stored(jobs), cmd \in CommandPatches :
             ReadForUpdate(c, j, WithCommand(jobs[j], cmd))
      BY <2>6 DEF UpdateCommand
    <3>2. WithCommand(jobs[j], cmd) \in Row
      BY <2>j, WithCommandType DEF CommandPatches
    <3>3. QED
      BY <2>6, <2>j, <2>r, <3>1, <3>2 DEF UpdateCommand
  <2>7. CASE UpdateSchedule(c)
    <3>1. PICK j \in Stored(jobs), e \in CronExprs, cmd \in CommandPatches :
             cli' = [cli EXCEPT ![c] = [stage |-> "patched", id |-> j, command |-> cmd,
                                        schedule |-> [kind |-> "cron", expr |-> e]]]
      BY <2>7 DEF UpdateSchedule
    <3>2. [stage |-> "patched", id |-> j, command |-> cmd,
           schedule |-> [kind |-> "cron", expr |-> e]] \in Patched
      BY <2>j DEF Patched, Schedule, CommandPatches
    <3>3. (cli \in [Clients -> {AtRest} \cup Patched \cup Merged])'
      BY <3>1, <3>2 DEF TypeOK
    <3>4. QED
      BY <2>7, <2>e, <3>3 DEF UpdateSchedule, TypeOK, Busy, store, sched
  <2>8. CASE UpdateRead(c)
    <3>0. cli[c] \in {AtRest} \cup Patched \cup Merged
      BY DEF TypeOK
    <3>1. cli[c] \in Patched
      <4>1. cli[c].stage = "patched"
        BY <2>8 DEF UpdateRead
      <4>2. cli[c] # AtRest
        BY <4>1 DEF AtRest
      <4>3. cli[c] \notin Merged
        BY <4>1 DEF Merged
      <4>4. QED
        BY <3>0, <4>2, <4>3
    <3> DEFINE j == cli[c].id
               s == cli[c].schedule
    <3>2. j \in JobIds /\ s \in Schedule /\ cli[c].command \in Commands \cup {NoCommand}
      BY <3>1 DEF Patched
    <3>3. (cli \in [Clients -> {AtRest} \cup Patched \cup Merged])'
      <4>1. CASE jobs[j] = NoJob \/ ~ValidSchedule(s, now)
        BY <2>8, <4>1 DEF UpdateRead, TypeOK
      <4>2. CASE ~(jobs[j] = NoJob \/ ~ValidSchedule(s, now))
        <5> DEFINE new(n) == [WithCommand(jobs[j], cli[c].command)
                                EXCEPT !.schedule = s, !.nextRun = n]
        <5>1. PICK n \in NextRun(s, now) :
                 cli' = [cli EXCEPT ![c] = [stage |-> "merged", id |-> j, row |-> new(n)]]
          BY <2>8, <4>2 DEF UpdateRead
        <5>2. jobs[j] \in Row /\ n \in Nat
          BY <1>t, <3>2, <4>2, NextRunType
        <5>3. WithCommand(jobs[j], cli[c].command) \in Row
          BY <3>2, <5>2, WithCommandType
        <5>4. new(n) \in Row
          BY <3>2, <5>2, <5>3 DEF Row
        <5>5. [stage |-> "merged", id |-> j, row |-> new(n)] \in Merged
          BY <3>2, <5>4 DEF Merged
        <5>6. QED
          BY <5>1, <5>5 DEF TypeOK
      <4>3. QED
        BY <4>1, <4>2
    <3>4. QED
      BY <2>8, <3>3 DEF UpdateRead, TypeOK, Busy, store, sched
  <2>9. CASE UpdateWrite(c)
    <3>1. cli[c] \in Merged
      BY <2>9 DEF UpdateWrite, TypeOK, AtRest, Patched
    <3>2. jobs' \in [JobIds -> Row \cup {NoJob}]
      BY <2>9, <1>t, <3>1, WriteRowType DEF UpdateWrite, Merged
    <3>3. QED
      BY <2>9, <3>2 DEF UpdateWrite, TypeOK, Busy, sched
  <2>10. CASE UpdateFails(c)
    BY <2>10, <1>l DEF UpdateFails, TypeOK, Busy, store, sched
  <2>11. QED
    BY <1>18, <2>1, <2>3, <2>4, <2>5, <2>6, <2>7, <2>8, <2>9, <2>10 DEF Client
<1>19. CASE UNCHANGED vars
  BY <1>19 DEF vars, TypeOK, Busy
<1>20. QED
  BY <1>1, <1>2, <1>3, <1>4, <1>5, <1>6, <1>7, <1>8, <1>9, <1>10, <1>11, <1>12, <1>13,
     <1>14, <1>15, <1>16, <1>17, <1>18, <1>19
  DEF Next, SchedulerStep, Failure

\* Every variable keeps its type, for every number of jobs, clients and failures.
THEOREM TypeCorrect == Spec => []TypeOK
<1>1. TInv => TypeOK
  BY DEF TInv
<1>2. QED
  BY <1>1, InitTInv, NextTInv, PTL DEF Spec

-----------------------------------------------------------------------------
(* The run history *)

\* Writing a row leaves every row where it is, the absent ones absent.
LEMMA WriteKeeps ==
    ASSUME NEW tab \in [JobIds -> Row \cup {NoJob}], NEW j \in JobIds, NEW row \in Row
    PROVE  \A k \in JobIds : WriteRow(tab, j, row)[k] = NoJob <=> tab[k] = NoJob
<1>1. CASE tab[j] = NoJob
  BY <1>1 DEF WriteRow
<1>2. CASE tab[j] # NoJob
  <2> DEFINE new == [row EXCEPT !.lastStatus = tab[j].lastStatus]
  <2>1. tab[j] \in Row
    BY <1>2
  <2>2. new \in Row
    BY <2>1 DEF Row
  <2>3. new # NoJob
    BY <2>2, NoJobAssumption
  <2>4. WriteRow(tab, j, row) = [tab EXCEPT ![j] = new]
    BY <1>2 DEF WriteRow
  <2>5. QED
    BY <1>2, <2>3, <2>4
<1>3. QED
  BY <1>1, <1>2

LEMMA RescheduleKeeps ==
    ASSUME NEW tab \in [JobIds -> Row \cup {NoJob}], NEW j \in JobIds,
           NEW s \in Schedule, NEW b \in BOOLEAN, NEW u \in Time
    PROVE  \A k \in JobIds : RescheduleRow(tab, j, s, b, u)[k] = NoJob <=> tab[k] = NoJob
<1>1. CASE tab[j] = NoJob
  BY <1>1 DEF RescheduleRow
<1>2. CASE tab[j] # NoJob
  <2> DEFINE new == [tab[j] EXCEPT !.nextRun = RescheduleTime(s, u),
                                   !.lastStatus = IF b THEN "ok" ELSE "error"]
  <2>1. tab[j] \in Row
    BY <1>2
  <2>2. new \in Row
    BY <2>1, RescheduleTimeType DEF Row
  <2>3. new # NoJob
    BY <2>2, NoJobAssumption
  <2>4. RescheduleRow(tab, j, s, b, u) = [tab EXCEPT ![j] = new]
    BY <1>2, <2>1 DEF RescheduleRow, Row
  <2>5. QED
    BY <1>2, <2>3, <2>4
<1>3. QED
  BY <1>1, <1>2

\* What a step does to the rows: nothing, or it writes rows in place, inserts one
\* under a fresh id, or deletes one.
RowsKept     == \A k \in JobIds : jobs'[k] = NoJob <=> jobs[k] = NoJob
RowInserted  == \E j \in JobIds \ used, row \in Row :
                    used' = used \cup {j} /\ jobs' = [jobs EXCEPT ![j] = row]
RowDeleted   == \E j \in JobIds : jobs' = DeleteJob(jobs, j) /\ runs' = CascadeRuns(runs, j)

\* How the places of the scheduler, the failure counts and the runs go together.
RunsKept ==
    /\ UNCHANGED runs
    /\ faults' >= faults /\ crashes' >= crashes
    /\ pc' = "prune" => \/ pc = "prune" /\ UNCHANGED due
                        \/ pc = "record" /\ UNCHANGED due
    /\ pc = "prune" => \/ pc' = "prune" /\ UNCHANGED due
                       \/ faults' > faults \/ crashes' > crashes
RunsCut ==
    /\ \E j \in JobIds : runs' = CascadeRuns(runs, j)
    /\ UNCHANGED <<faults, crashes>>
    /\ \/ pc # "prune" /\ pc' # "prune"
       \/ UNCHANGED <<pc, due>>

TablesStep ==
    \/ (RowsKept \/ RowInserted) /\ RunsKept
    \/ RowDeleted /\ RunsCut
    \/ UNCHANGED jobs /\ RecordInsert
    \/ UNCHANGED jobs /\ RecordPrune

LEMMA TablesStepTaken == TInv /\ [Next]_vars => TablesStep
<1> SUFFICES ASSUME TInv, [Next]_vars PROVE TablesStep
  OBVIOUS
<1>t. /\ jobs \in [JobIds -> Row \cup {NoJob}] /\ runs \in [JobIds -> Seq(Run)]
      /\ now \in Time /\ ok \in BOOLEAN /\ faults \in Int /\ crashes \in Int
  BY DEF TInv, TypeOK
<1>k. UNCHANGED jobs => RowsKept
  BY DEF RowsKept
<1>l. LockFails => faults' > faults /\ faults' >= faults
  BY <1>t DEF LockFails
<1>w. ASSUME NEW q, Work(q) PROVE pc' # "prune"
  BY <1>w DEF Work
<1>1. CASE Tick \/ PollFails \/ ExecuteRefused \/ ExecuteSucceeds \/ ExecuteFails \/ Restart
           \/ UNCHANGED vars
  BY <1>1, <1>t, <1>k, <1>l DEF Tick, PollFails, ExecuteRefused, ExecuteSucceeds, ExecuteFails,
     Restart, vars, store, sched, TablesStep, RunsKept
<1>2. CASE RecordFails \/ PruneFails
  BY <1>2, <1>t, <1>k, <1>l DEF RecordFails, PruneFails, store, TablesStep, RunsKept
<1>3. CASE Crash
  BY <1>3, <1>t, <1>k DEF Crash, store, TablesStep, RunsKept
<1>4. CASE Poll \/ DisposeFails
  BY <1>4, <1>t, <1>k, <1>l, <1>w DEF Poll, DisposeFails, store, TablesStep, RunsKept
<1>5. CASE RecordInsert \/ RecordPrune
  BY <1>5 DEF RecordInsert, RecordPrune, TablesStep
<1>6. CASE RemoveOneShot
  BY <1>6, <1>w, JobTyped DEF RemoveOneShot, TablesStep, RowDeleted, RunsCut
<1>7. CASE DisableRead
  <2>1. pc' # "prune"
    BY <1>7, <1>w DEF DisableRead
  <2>2. QED
    BY <1>7, <1>t, <1>k, <2>1 DEF DisableRead, store, TablesStep, RunsKept
<1>8. CASE DisableWrite
  <2>1. Job.id \in JobIds /\ copy \in Row
    BY <1>8, JobTyped DEF DisableWrite, TInv, Busy
  <2>2. RowsKept
    BY <1>8, <1>t, <2>1, WriteKeeps DEF DisableWrite, RowsKept
  <2>3. QED
    BY <1>8, <1>t, <1>w, <2>2 DEF DisableWrite, TablesStep, RunsKept
<1>9. CASE Reschedule
  <2>1. Job.id \in JobIds /\ Job.row.schedule \in Schedule
    BY <1>9, JobTyped DEF Reschedule
  <2>2. RowsKept
    BY <1>9, <1>t, <2>1, RescheduleKeeps DEF Reschedule, RowsKept
  <2>3. QED
    BY <1>9, <1>t, <1>w, <2>2 DEF Reschedule, TablesStep, RunsKept
<1>10. ASSUME NEW c \in Clients, Client(c)
       PROVE  TablesStep
  <2>1. CASE AddShell(c) \/ AddAgent(c)
    <3>1. RowInserted /\ UNCHANGED <<runs, sched, faults, crashes>>
      BY <2>1, AddTyped DEF TInv, RowInserted
    <3>2. QED
      BY <1>t, <3>1 DEF sched, TablesStep, RunsKept
  <2>2. CASE Remove(c)
    BY <2>2 DEF Remove, Stored, sched, TablesStep, RowDeleted, RunsCut
  <2>3. CASE Pause(c) \/ Resume(c) \/ UpdateCommand(c) \/ UpdateSchedule(c) \/ UpdateRead(c)
    <3>1. UNCHANGED <<store, sched, faults, crashes>>
      BY <2>3 DEF Pause, Resume, UpdateCommand, UpdateSchedule, UpdateRead, ReadForUpdate
    <3>2. QED
      BY <1>t, <1>k, <3>1 DEF store, sched, TablesStep, RunsKept
  <2>4. CASE UpdateWrite(c)
    <3>1. cli[c] \in Merged
      BY <2>4 DEF UpdateWrite, TInv, TypeOK, AtRest, Patched
    <3>2. RowsKept
      BY <2>4, <1>t, <3>1, WriteKeeps DEF UpdateWrite, RowsKept, Merged
    <3>3. QED
      BY <2>4, <1>t, <3>2 DEF UpdateWrite, sched, TablesStep, RunsKept
  <2>5. CASE UpdateFails(c)
    BY <2>5, <1>t, <1>k, <1>l DEF UpdateFails, store, sched, TablesStep, RunsKept
  <2>6. QED
    BY <1>10, <2>1, <2>2, <2>3, <2>4, <2>5 DEF Client
<1>11. QED
  BY <1>1, <1>2, <1>3, <1>4, <1>5, <1>6, <1>7, <1>8, <1>9, <1>10
  DEF Next, SchedulerStep, Failure

IInv == TInv /\ RunsBelongToJobs /\ HistoryBounded

LEMMA InitIInv == Init => IInv
<1> SUFFICES ASSUME Init PROVE IInv
  OBVIOUS
<1>1. Keep \in Nat /\ faults = 0 /\ crashes = 0 /\ pc = "poll"
  BY BoundsAssumption DEF Init, Keep
<1>2. \A j \in JobIds : runs[j] = << >> /\ Len(runs[j]) = 0
  BY DEF Init
<1>3. QED
  BY <1>1, <1>2, InitTInv DEF IInv, RunsBelongToJobs, HistoryBounded

LEMMA NextRunsBelong == IInv /\ [Next]_vars => RunsBelongToJobs'
<1> SUFFICES ASSUME IInv, [Next]_vars, NEW k \in JobIds, jobs'[k] = NoJob
             PROVE  runs'[k] = << >>
  BY DEF RunsBelongToJobs
<1>t. jobs \in [JobIds -> Row \cup {NoJob}] /\ runs \in [JobIds -> Seq(Run)]
  BY DEF IInv, TInv, TypeOK
<1>b. jobs[k] = NoJob => runs[k] = << >>
  BY DEF IInv, RunsBelongToJobs
<1>1. CASE (RowsKept \/ RowInserted) /\ RunsKept
  <2>1. jobs[k] = NoJob
    BY <1>1, <1>t, NoJobAssumption DEF RowsKept, RowInserted
  <2>2. QED
    BY <1>1, <1>b, <2>1 DEF RunsKept
<1>2. CASE RowDeleted
  BY <1>2, <1>b, <1>t DEF RowDeleted, DeleteJob, CascadeRuns
<1>3. CASE UNCHANGED jobs /\ RecordInsert
  BY <1>3, <1>b, <1>t DEF RecordInsert, InsertRun
<1>4. CASE UNCHANGED jobs /\ RecordPrune
  <2>1. runs[k] = << >>
    BY <1>4, <1>b
  <2>2. Newest(<< >>) = << >>
    BY BoundsAssumption DEF Newest, Keep
  <2>3. QED
    BY <1>4, <1>t, <2>1, <2>2 DEF RecordPrune, PruneRuns
<1>5. QED
  BY <1>1, <1>2, <1>3, <1>4, TablesStepTaken DEF IInv, TablesStep

LEMMA NextHistoryBounded == IInv /\ [Next]_vars => HistoryBounded'
<1> SUFFICES ASSUME IInv, [Next]_vars, NEW k \in JobIds
             PROVE  Len(runs'[k]) <= Keep + faults' + crashes'
                                     + (IF pc' = "prune" /\ Job'.id = k THEN 1 ELSE 0)
  BY DEF HistoryBounded
<1>t. /\ runs \in [JobIds -> Seq(Run)] /\ runs[k] \in Seq(Run) /\ Len(runs[k]) \in Nat
      /\ faults \in Nat /\ crashes \in Nat /\ startedAt \in Time /\ ok \in BOOLEAN
  BY ClientAssumption DEF IInv, TInv, TypeOK
<1>n. faults' \in Nat /\ crashes' \in Nat
  BY NextTInv, ClientAssumption DEF IInv, TInv, TypeOK
<1>p. Keep \in Nat
  BY BoundsAssumption DEF Keep
<1>b. Len(runs[k]) <= Keep + faults + crashes + (IF pc = "prune" /\ Job.id = k THEN 1 ELSE 0)
  BY DEF IInv, HistoryBounded
<1>1. CASE RunsKept
  <2>1. Len(runs'[k]) = Len(runs[k]) /\ faults' >= faults /\ crashes' >= crashes
    BY <1>1 DEF RunsKept
  <2>2. CASE pc = "prune" /\ Job.id = k
    <3>1. \/ pc' = "prune" /\ Job'.id = k
          \/ faults' > faults \/ crashes' > crashes
      BY <1>1, <2>2 DEF RunsKept, Job
    <3>2. QED
      BY <1>b, <1>t, <1>n, <1>p, <2>1, <2>2, <3>1
  <2>3. CASE ~(pc = "prune" /\ Job.id = k)
    <3>1. Len(runs[k]) <= Keep + faults + crashes
      BY <1>b, <1>t, <1>p, <2>3
    <3>2. Len(runs[k]) <= Keep + faults' + crashes'
      BY <1>t, <1>n, <1>p, <2>1, <3>1
    <3>3. QED
      BY <1>n, <1>p, <1>t, <2>1, <3>2
  <2>4. QED
    BY <2>2, <2>3
<1>2. CASE RunsCut
  <2>1. Len(runs'[k]) = 0 \/ Len(runs'[k]) = Len(runs[k])
    BY <1>2, <1>t DEF RunsCut, CascadeRuns
  <2>2. UNCHANGED <<faults, crashes>>
    BY <1>2 DEF RunsCut
  <2>3. (pc' = "prune" /\ Job'.id = k) <=> (pc = "prune" /\ Job.id = k)
    BY <1>2 DEF RunsCut, Job
  <2>4. CASE pc = "prune" /\ Job.id = k
    BY <1>b, <1>t, <1>p, <2>1, <2>2, <2>3, <2>4
  <2>5. CASE ~(pc = "prune" /\ Job.id = k)
    BY <1>b, <1>t, <1>p, <2>1, <2>2, <2>3, <2>5
  <2>6. QED
    BY <2>4, <2>5
<1>3. CASE RecordInsert
  <2>1. pc = "record" /\ pc' = "prune" /\ UNCHANGED <<due, faults, crashes>>
        /\ runs' = InsertRun(jobs, runs, Job.id, [at |-> startedAt, ok |-> ok])
    BY <1>3 DEF RecordInsert
  <2>2. Len(runs[k]) <= Keep + faults + crashes
    BY <1>b, <1>t, <1>p, <2>1
  <2>3. [at |-> startedAt, ok |-> ok] \in Run
    BY <1>t DEF Run
  <2>4. Len(runs'[k]) = Len(runs[k]) \/ (Len(runs'[k]) = Len(runs[k]) + 1 /\ Job.id = k)
    BY <1>t, <2>1, <2>3 DEF InsertRun
  <2>5. Job'.id = Job.id
    BY <2>1 DEF Job
  <2>6. CASE Len(runs'[k]) = Len(runs[k])
    BY <1>t, <1>p, <2>1, <2>2, <2>6
  <2>7. CASE Len(runs'[k]) = Len(runs[k]) + 1 /\ Job.id = k
    BY <1>t, <1>p, <2>1, <2>2, <2>5, <2>7
  <2>8. QED
    BY <2>4, <2>6, <2>7
<1>4. CASE RecordPrune
  <2>1. pc = "prune" /\ pc' = "dispose" /\ UNCHANGED <<due, faults, crashes>>
        /\ runs' = PruneRuns(runs, Job.id)
    BY <1>4 DEF RecordPrune
  <2>2. CASE Job.id = k
    <3>1. runs'[k] = Newest(runs[k])
      BY <1>t, <2>1, <2>2 DEF PruneRuns
    <3>2. Len(runs'[k]) <= Keep /\ Newest(runs[k]) \in Seq(Run)
      BY <1>t, <3>1, NewestBound
    <3>3. Len(runs'[k]) \in Nat
      BY <3>1, <3>2
    <3>4. QED
      BY <1>t, <1>p, <2>1, <3>2, <3>3
  <2>3. CASE Job.id # k
    <3>1. runs'[k] = runs[k]
      BY <1>t, <2>1, <2>3 DEF PruneRuns
    <3>2. QED
      BY <1>b, <1>t, <1>p, <2>1, <2>3, <3>1
  <2>4. QED
    BY <2>2, <2>3
<1>5. QED
  BY <1>1, <1>2, <1>3, <1>4, TablesStepTaken DEF IInv, TablesStep

LEMMA NextIInv == IInv /\ [Next]_vars => IInv'
BY NextTInv, NextRunsBelong, NextHistoryBounded DEF IInv

\* No run outlives its job.
THEOREM NoOrphanRuns == Spec => []RunsBelongToJobs
<1>1. IInv => RunsBelongToJobs
  BY DEF IInv
<1>2. QED
  BY <1>1, InitIInv, NextIInv, PTL DEF Spec

\* The history of a job exceeds its bound by no more than the prunes that were lost.
THEOREM HistoryStaysBounded == Spec => []HistoryBounded
<1>1. IInv => HistoryBounded
  BY DEF IInv
<1>2. QED
  BY <1>1, InitIInv, NextIInv, PTL DEF Spec

-----------------------------------------------------------------------------
(* Removal is final *)

LEMMA NextRemoved ==
    TInv /\ [Next]_vars => [\A j \in used : jobs[j] = NoJob => jobs'[j] = NoJob]_vars
<1> SUFFICES ASSUME TInv, [Next]_vars, NEW j \in used, jobs[j] = NoJob
             PROVE  jobs'[j] = NoJob
  OBVIOUS
<1>1. j \in JobIds /\ jobs \in [JobIds -> Row \cup {NoJob}]
  BY DEF TInv, TypeOK
<1>2. CASE RowsKept
  BY <1>1, <1>2 DEF RowsKept
<1>3. CASE RowInserted
  BY <1>1, <1>3 DEF RowInserted
<1>4. CASE RowDeleted
  BY <1>1, <1>4 DEF RowDeleted, DeleteJob
<1>5. CASE UNCHANGED jobs
  BY <1>5
<1>6. QED
  BY <1>2, <1>3, <1>4, <1>5, TablesStepTaken DEF TablesStep

\* No step, of whichever process, stores a job under the id of a removed one.
THEOREM RemovalIsFinal == Spec => RemovedStaysRemoved
<1>1. TInv /\ [Next]_vars => [\A j \in used : jobs[j] = NoJob => jobs'[j] = NoJob]_vars
  BY NextRemoved
<1>2. QED
  BY <1>1, InitTInv, NextTInv, PTL DEF Spec, RemovedStaysRemoved

-----------------------------------------------------------------------------
(* Ids and snapshots *)

\* Ids are handed out before they are stored or selected, and a poll selects a
\* job once.
Known ==
    /\ Stored(jobs) \subseteq used
    /\ \A i \in DOMAIN due : due[i].id \in used
    /\ \A i, k \in DOMAIN due : due[i].id = due[k].id => i = k

LEMMA UsedGrows == [Next]_vars => used \subseteq used'
BY DEF Next, vars, SchedulerStep, Failure, Client, Tick, Poll, ExecuteRefused, ExecuteSucceeds,
   ExecuteFails, RecordInsert, RecordPrune, RemoveOneShot, DisableRead, DisableWrite, Reschedule,
   PollFails, RecordFails, PruneFails, DisposeFails, Crash, Restart, AddShell, AddAgent, Insert,
   Remove, Pause, Resume, UpdateCommand, ReadForUpdate, UpdateSchedule, UpdateRead, UpdateWrite,
   UpdateFails

LEMMA StoredKnown == TInv /\ Known /\ [Next]_vars => Stored(jobs') \subseteq used'
<1> SUFFICES ASSUME TInv, Known, [Next]_vars, NEW j \in JobIds, jobs'[j] # NoJob
             PROVE  j \in used'
  BY DEF Stored
<1>1. jobs \in [JobIds -> Row \cup {NoJob}] /\ used \subseteq used'
  BY UsedGrows DEF TInv, TypeOK
<1>2. jobs[j] # NoJob => j \in used
  BY DEF Known, Stored
<1>3. CASE RowsKept \/ UNCHANGED jobs
  BY <1>1, <1>2, <1>3 DEF RowsKept
<1>4. CASE RowInserted
  BY <1>1, <1>2, <1>4 DEF RowInserted
<1>5. CASE RowDeleted
  BY <1>1, <1>2, <1>5 DEF RowDeleted, DeleteJob
<1>6. QED
  BY <1>3, <1>4, <1>5, TablesStepTaken DEF TablesStep

\* What a step does to the snapshots that are left.
DueStep ==
    \/ UNCHANGED due
    \/ due # << >> /\ due' = Tail(due)
    \/ due' = << >>
    \/ Poll

LEMMA DueStepTaken == TInv /\ [Next]_vars => DueStep
<1> SUFFICES ASSUME TInv, [Next]_vars PROVE DueStep
  OBVIOUS
<1>1. CASE RemoveOneShot \/ DisableRead \/ DisableWrite \/ Reschedule \/ DisposeFails
  BY <1>1 DEF RemoveOneShot, DisableRead, DisableWrite, Reschedule, DisposeFails, Work, DueStep,
     TInv, Busy
<1>2. CASE Tick \/ ExecuteRefused \/ ExecuteSucceeds \/ ExecuteFails \/ RecordInsert \/ RecordPrune
           \/ PollFails \/ RecordFails \/ PruneFails \/ Restart \/ UNCHANGED vars
  BY <1>2 DEF Tick, ExecuteRefused, ExecuteSucceeds, ExecuteFails, RecordInsert, RecordPrune,
     PollFails, RecordFails, PruneFails, Restart, vars, sched, DueStep
<1>3. CASE Poll \/ Crash
  BY <1>3 DEF Crash, DueStep
<1>4. ASSUME NEW c \in Clients, Client(c) PROVE DueStep
  BY <1>4 DEF Client, AddShell, AddAgent, Insert, Remove, Pause, Resume, UpdateCommand,
     ReadForUpdate, UpdateSchedule, UpdateRead, UpdateWrite, UpdateFails, sched, DueStep
<1>5. QED
  BY <1>1, <1>2, <1>3, <1>4 DEF Next, SchedulerStep, Failure

\* The snapshots of a poll: one of each, of a stored job, with its row.
LEMMA PollTakes ==
    ASSUME TInv, Poll
    PROVE  /\ \A i \in DOMAIN due' :
                 /\ due'[i].id \in Stored(jobs) /\ due'[i].id \in DueSet(jobs, now)
                 /\ due'[i].row = jobs[due'[i].id]
           /\ \A i, k \in DOMAIN due' : due'[i].id = due'[k].id => i = k
           /\ \A d \in DueSet(jobs, now) :
                 \/ \E i \in DOMAIN due' : due'[i].id = d
                 \/ \A i \in DOMAIN due' : jobs[due'[i].id].nextRun <= jobs[d].nextRun
<1>1. PICK s \in DueSelections(jobs, now) : due' = Snapshots(jobs, s)
  BY DEF Poll, Work
<1> DEFINE D == DueSet(jobs, now)
           n == IF Cardinality(D) < Limit THEN Cardinality(D) ELSE Limit
<1>2. s \in [1..n -> D] /\ IsInjective(s)
  BY DEF DueSelections
<1>3. /\ DOMAIN due' = 1..n
      /\ \A i \in 1..n : due'[i] = [id |-> s[i], row |-> jobs[s[i]]]
  BY <1>1, <1>2 DEF Snapshots
<1>4. \A i \in 1..n : s[i] \in Stored(jobs) /\ s[i] \in DueSet(jobs, now)
  BY <1>2 DEF DueSet
<1>5. \A i, k \in 1..n : s[i] = s[k] => i = k
  BY <1>2 DEF IsInjective
<1>6. ASSUME NEW i \in DOMAIN due' PROVE due'[i].id = s[i] /\ due'[i].row = jobs[s[i]]
  <2>1. i \in 1..n
    BY <1>3
  <2>2. due'[i] = [id |-> s[i], row |-> jobs[s[i]]]
    BY <1>3, <2>1
  <2>3. QED
    BY <2>2
<1>7. \A i \in DOMAIN due' : /\ due'[i].id \in Stored(jobs) /\ due'[i].id \in DueSet(jobs, now)
                            /\ due'[i].row = jobs[due'[i].id]
  <2> TAKE i \in DOMAIN due'
  <2>1. i \in 1..n /\ due'[i].id = s[i] /\ due'[i].row = jobs[s[i]]
    BY <1>3, <1>6
  <2>2. QED
    BY <1>4, <2>1
<1>8. ASSUME NEW i \in DOMAIN due', NEW k \in DOMAIN due', due'[i].id = due'[k].id
      PROVE  i = k
  <2>1. i \in 1..n /\ k \in 1..n /\ s[i] = s[k]
    BY <1>3, <1>6, <1>8
  <2>2. QED
    BY <1>5, <2>1
<1>9. ASSUME NEW d \in DueSet(jobs, now), \A i \in DOMAIN due' : due'[i].id # d,
             NEW i \in DOMAIN due'
      PROVE  jobs[due'[i].id].nextRun <= jobs[d].nextRun
  <2>1. d \notin Range(s)
    <3>1. ASSUME NEW k \in 1..n PROVE s[k] # d
      <4>1. k \in DOMAIN due'
        BY <1>3
      <4>2. QED
        BY <1>6, <1>9, <4>1
    <3>2. QED
      BY <1>2, <3>1 DEF Range
  <2>2. i \in 1..n /\ due'[i].id = s[i]
    BY <1>3, <1>6
  <2>3. \A m \in 1..n : jobs[s[m]].nextRun <= jobs[d].nextRun
    BY <2>1 DEF DueSelections
  <2>4. QED
    BY <2>2, <2>3
<1>10. QED
  BY <1>7, <1>8, <1>9

\* The rest of a list are elements of the list, in other places.
LEMMA TailPlaces ==
    ASSUME NEW q \in Seq(Snapshot), q # << >>
    PROVE  /\ Tail(q) \in Seq(Snapshot)
           /\ \A i \in DOMAIN Tail(q) : i + 1 \in DOMAIN q /\ Tail(q)[i] = q[i + 1] /\ i + 1 # 1
           /\ 1 \in DOMAIN q /\ Head(q) = q[1]
<1>1. Len(q) \in Nat \ {0} /\ DOMAIN q = 1..Len(q)
  OBVIOUS
<1>2. Tail(q) \in Seq(Snapshot) /\ Len(Tail(q)) = Len(q) - 1
  OBVIOUS
<1>3. DOMAIN Tail(q) = 1..(Len(q) - 1)
  BY <1>1, <1>2
<1>4. \A i \in 1..(Len(q) - 1) : Tail(q)[i] = q[i + 1]
  BY <1>1
<1>5. \A i \in 1..(Len(q) - 1) : i + 1 \in 1..Len(q) /\ i + 1 # 1
  BY <1>1
<1>6. Head(q) = q[1]
  OBVIOUS
<1>7. QED
  BY <1>1, <1>2, <1>3, <1>4, <1>5, <1>6

LEMMA InitKnown == Init => Known
<1> SUFFICES ASSUME Init PROVE Known
  OBVIOUS
<1>1. Stored(jobs) = {} /\ due = << >>
  BY DEF Init, Stored
<1>2. QED
  BY <1>1 DEF Known

LEMMA NextKnown == TInv /\ Known /\ [Next]_vars => Known'
<1> SUFFICES ASSUME TInv, Known, [Next]_vars PROVE Known'
  OBVIOUS
<1>1. Stored(jobs') \subseteq used' /\ used \subseteq used'
  BY StoredKnown, UsedGrows
<1>2. /\ \A i \in DOMAIN due' : due'[i].id \in used'
      /\ \A i, k \in DOMAIN due' : due'[i].id = due'[k].id => i = k
  <2>1. CASE UNCHANGED due
    BY <1>1, <2>1 DEF Known
  <2>2. CASE due # << >> /\ due' = Tail(due)
    <3>1. \A i \in DOMAIN due' : i + 1 \in DOMAIN due /\ due'[i] = due[i + 1]
      BY <2>2, TailPlaces DEF TInv, TypeOK
    <3>2. \A i \in DOMAIN due' : i \in Int
      BY <2>2, TailPlaces DEF TInv, TypeOK
    <3>3. \A i \in DOMAIN due' : due'[i].id \in used'
      BY <1>1, <3>1 DEF Known
    <3>4. ASSUME NEW i \in DOMAIN due', NEW k \in DOMAIN due', due'[i].id = due'[k].id
          PROVE  i = k
      <4>1. i + 1 = k + 1
        BY <3>1, <3>4 DEF Known
      <4>2. QED
        BY <3>2, <4>1
    <3>5. QED
      BY <3>3, <3>4
  <2>3. CASE due' = << >>
    BY <2>3
  <2>4. CASE Poll
    BY <1>1, <2>4, PollTakes DEF Known
  <2>5. QED
    BY <2>1, <2>2, <2>3, <2>4, DueStepTaken DEF DueStep
<1>3. QED
  BY <1>1, <1>2 DEF Known

-----------------------------------------------------------------------------
(* A one-shot succeeds once *)

\* After its success a one-shot is in the scheduler's hand until it is removed;
\* from then on no snapshot of it is left.
InHand(j) ==
    /\ pc \in {"record", "prune", "dispose"} /\ ok
    /\ OneShot(Job.row) /\ Job.id = j
Gone(j) == jobs[j] = NoJob /\ \A i \in DOMAIN due : due[i].id # j

OnceInv == won \subseteq used /\ rewon = {} /\ \A j \in won : Gone(j) \/ InHand(j)

\* An execution ends with the snapshots and rows it began with.
LEMMA FinishKeeps == [Next]_vars /\ Finished => UNCHANGED <<due, jobs>>
<1> SUFFICES ASSUME [Next]_vars, Finished PROVE UNCHANGED <<due, jobs>>
  OBVIOUS
<1>0. pc = "execute" /\ pc' = "record"
  BY DEF Finished
<1>1. CASE SchedulerStep \/ Failure \/ Crash \/ Restart
  BY <1>0, <1>1 DEF SchedulerStep, Failure, Poll, ExecuteRefused, ExecuteSucceeds, ExecuteFails,
     RecordInsert, RecordPrune, RemoveOneShot, DisableRead, DisableWrite, Reschedule, PollFails,
     RecordFails, PruneFails, DisposeFails, Crash, Restart, sched, store
<1>2. CASE Tick \/ UNCHANGED vars
  BY <1>2 DEF Tick, vars, sched, store
<1>3. ASSUME NEW c \in Clients, Client(c) PROVE UNCHANGED <<due, jobs>>
  BY <1>0, <1>3 DEF Client, AddShell, AddAgent, Insert, Remove, Pause, Resume, UpdateCommand,
     ReadForUpdate, UpdateSchedule, UpdateRead, UpdateWrite, UpdateFails, sched
<1>4. QED
  BY <1>1, <1>2, <1>3 DEF Next

\* The current job is one of the snapshots; the others have other ids.
LEMMA CurrentJob ==
    ASSUME TInv, Known, due # << >>
    PROVE  /\ \E i \in DOMAIN due : due[i] = Job
           /\ Job.id \in used
           /\ \A i \in DOMAIN Tail(due) : /\ Tail(due)[i].id # Job.id
                                          /\ \E k \in DOMAIN due : Tail(due)[i] = due[k]
<1>1. due \in Seq(Snapshot)
  BY DEF TInv, TypeOK
<1>2. 1 \in DOMAIN due /\ Job = due[1]
  BY <1>1, TailPlaces DEF Job
<1>3. Job.id \in used
  BY <1>2 DEF Known
<1>4. ASSUME NEW i \in DOMAIN Tail(due)
      PROVE  Tail(due)[i].id # Job.id /\ \E k \in DOMAIN due : Tail(due)[i] = due[k]
  <2>1. i + 1 \in DOMAIN due /\ Tail(due)[i] = due[i + 1] /\ i + 1 # 1
    BY <1>1, TailPlaces
  <2>2. QED
    BY <1>2, <2>1 DEF Known
<1>5. QED
  BY <1>2, <1>3, <1>4

LEMMA GoneStays ==
    ASSUME TInv, Known, [Next]_vars, NEW j \in used, Gone(j)
    PROVE  Gone(j)'
<1>1. jobs'[j] = NoJob
  <2>1. CASE UNCHANGED vars
    BY <2>1 DEF vars, Gone
  <2>2. CASE ~UNCHANGED vars
    BY <2>2, NextRemoved DEF Gone
  <2>3. QED
    BY <2>1, <2>2
<1>2. \A i \in DOMAIN due' : due'[i].id # j
  <2>1. CASE UNCHANGED due \/ due' = << >>
    BY <2>1 DEF Gone
  <2>2. CASE due # << >> /\ due' = Tail(due)
    BY <2>2, CurrentJob DEF Gone
  <2>3. CASE Poll
    BY <2>3, PollTakes DEF Gone, Stored
  <2>4. QED
    BY <2>1, <2>2, <2>3, DueStepTaken DEF DueStep
<1>3. QED
  BY <1>1, <1>2 DEF Gone

\* What is in hand is in the list.
LEMMA HeldListed ==
    ASSUME TInv, Known, NEW j, pc \notin {"down", "poll"}, Job.id = j
    PROVE  Listed(j) /\ due # << >>
<1>1. due # << >>
  BY DEF TInv, Busy, TypeOK
<1>2. QED
  BY <1>1, CurrentJob DEF Listed

\* A failure or crash leaves the current job in hand, or takes it off the list.
LEMMA FailureDrops ==
    ASSUME TInv, Known, Failure \/ Crash, NEW j, pc \notin {"down", "poll"}, Job.id = j
    PROVE  \/ /\ pc \in {"record", "prune"} /\ pc' \in {"prune", "dispose"}
              /\ UNCHANGED <<due, ok>>
           \/ Dropped(j)
<1>1. Listed(j) /\ due # << >>
  BY HeldListed
<1>2. faults \in Nat /\ crashes \in Nat
  BY ClientAssumption DEF TInv, TypeOK
<1>3. faults' # faults \/ crashes' # crashes
  BY <1>2 DEF Failure, PollFails, RecordFails, PruneFails, DisposeFails, LockFails, Crash
<1>4. CASE DisposeFails
  <2>1. due' = Tail(due)
    BY <1>4 DEF DisposeFails, Work
  <2>2. ~Listed(j)'
    BY <1>1, <2>1, CurrentJob DEF Listed
  <2>3. QED
    BY <1>1, <1>3, <2>2 DEF Dropped
<1>5. CASE Crash
  <2>1. ~Listed(j)'
    BY <1>5 DEF Crash, Listed
  <2>2. QED
    BY <1>1, <1>3, <2>1 DEF Dropped
<1>6. CASE PollFails \/ RecordFails \/ PruneFails
  BY <1>6 DEF PollFails, RecordFails, PruneFails
<1>7. QED
  BY <1>4, <1>5, <1>6 DEF Failure

LEMMA HandLetsGo ==
    ASSUME TInv, Known, [Next]_vars, NEW j \in used, InHand(j)
    PROVE  Gone(j)' \/ InHand(j)' \/ Unsettled(j)
<1>0. pc \in {"record", "prune", "dispose"} /\ ok /\ OneShot(Job.row) /\ Job.id = j
  BY DEF InHand
<1>2. CASE UNCHANGED sched
  BY <1>0, <1>2 DEF sched, InHand, Job
<1>3. CASE RecordInsert \/ RecordPrune
  BY <1>0, <1>3 DEF RecordInsert, RecordPrune, InHand, Job
<1>4. CASE RemoveOneShot
  <2>1. due # << >> /\ due' = Tail(due) /\ jobs' = DeleteJob(jobs, j)
    BY <1>0, <1>4 DEF RemoveOneShot, Work, TInv, Busy
  <2>2. j \in JobIds /\ jobs \in [JobIds -> Row \cup {NoJob}]
    BY DEF TInv, TypeOK
  <2>3. jobs'[j] = NoJob
    BY <2>1, <2>2 DEF DeleteJob
  <2>4. \A i \in DOMAIN due' : due'[i].id # j
    BY <1>0, <2>1, CurrentJob
  <2>5. QED
    BY <2>3, <2>4 DEF Gone
<1>5. CASE \/ Poll \/ ExecuteRefused \/ ExecuteSucceeds \/ ExecuteFails \/ DisableRead
           \/ DisableWrite \/ Reschedule \/ Restart
  BY <1>0, <1>5 DEF Poll, ExecuteRefused, ExecuteSucceeds, ExecuteFails, DisableRead,
     DisableWrite, Reschedule, Restart
<1>6. CASE Failure \/ Crash
  <2>1. CASE pc' \in {"prune", "dispose"} /\ UNCHANGED <<due, ok>>
    BY <1>0, <2>1 DEF InHand, Job, OneShot
  <2>2. CASE Dropped(j)
    BY <1>0, <2>2 DEF Unsettled
  <2>3. QED
    BY <1>0, <1>6, <2>1, <2>2, FailureDrops
<1>7. CASE Tick \/ UNCHANGED vars
  BY <1>2, <1>7 DEF Tick, vars, sched
<1>8. ASSUME NEW c \in Clients, Client(c) PROVE UNCHANGED sched
  BY <1>8 DEF Client, AddShell, AddAgent, Insert, Remove, Pause, Resume, UpdateCommand,
     ReadForUpdate, UpdateSchedule, UpdateRead, UpdateWrite, UpdateFails
<1>9. QED
  BY <1>2, <1>3, <1>4, <1>5, <1>6, <1>7, <1>8 DEF Next, SchedulerStep

LEMMA NextOnce ==
    TInv /\ Known /\ OnceInv /\ [HNext]_<<vars, history>> => OnceInv'
<1> SUFFICES ASSUME TInv, Known, OnceInv, [HNext]_<<vars, history>> PROVE OnceInv'
  OBVIOUS
<1>1. CASE UNCHANGED <<vars, history>>
  BY <1>1 DEF vars, history, OnceInv, Gone, InHand, Job
<1>2. CASE HNext
  <2>1. /\ [Next]_vars
        /\ won' = {j \in won \cup {i \in JobIds : Succeeded /\ Job.id = i} : ~Unsettled(j)}
        /\ rewon' = rewon \cup {j \in won : Succeeded /\ Job.id = j}
    BY <1>2 DEF HNext, Remember
  <2>2. used \subseteq used'
    BY <2>1, UsedGrows
  <2>3. Succeeded => /\ Finished /\ ok' /\ OneShot(Job.row) /\ UNCHANGED due
                     /\ pc = "execute" /\ pc' = "record" /\ due # << >>
    BY <2>1, FinishKeeps DEF Succeeded, Finished, TInv, Busy
  <2>4. won' \subseteq used'
    BY <2>1, <2>2, <2>3, CurrentJob DEF OnceInv
  <2>5. ASSUME NEW j \in won, Succeeded, Job.id = j PROVE FALSE
    <3>1. ~InHand(j)
      BY <2>3, <2>5 DEF InHand
    <3>2. \E i \in DOMAIN due : due[i].id = j
      BY <2>3, <2>5, CurrentJob
    <3>3. QED
      BY <2>5, <3>1, <3>2 DEF OnceInv, Gone
  <2>6. rewon' = {}
    BY <2>1, <2>5 DEF OnceInv
  <2>7. ASSUME NEW j \in won' PROVE Gone(j)' \/ InHand(j)'
    <3>0. ~Unsettled(j)
      BY <2>1
    <3>1. CASE j \in won
      BY <2>1, <3>0, <3>1, GoneStays, HandLetsGo DEF OnceInv
    <3>2. CASE j \notin won
      <4>1. Succeeded /\ Job.id = j
        BY <2>1, <3>2
      <4>2. Job' = Job
        BY <2>3, <4>1 DEF Job
      <4>3. QED
        BY <2>3, <4>1, <4>2 DEF InHand, OneShot
    <3>3. QED
      BY <3>1, <3>2
  <2>8. QED
    BY <2>4, <2>6, <2>7 DEF OnceInv
<1>3. QED
  BY <1>1, <1>2

\* Whatever the command lines do to it at the same time and whatever fails, a one-shot
\* that succeeded does not succeed again, unless its removal was itself lost to a lock or
\* a crash: the snapshots of a poll are distinct, the job that is removed is the one that
\* was run, and a failure to record or to prune does not keep it from being removed.
THEOREM OneShotsSucceedOnce == HSpec => []OneShotOnce
<1>1. HInit => TInv /\ Known /\ OnceInv
  BY InitTInv, InitKnown DEF HInit, HistoryInit, OnceInv
<1>2. [HNext]_<<vars, history>> => [Next]_vars
  BY DEF HNext, vars
<1>3. TInv /\ Known /\ OnceInv /\ [HNext]_<<vars, history>> => (TInv /\ Known /\ OnceInv)'
  BY <1>2, NextTInv, NextKnown, NextOnce
<1>4. OnceInv => OneShotOnce
  BY DEF OnceInv, OneShotOnce
<1>5. QED
  BY <1>1, <1>3, <1>4, PTL DEF HSpec

-----------------------------------------------------------------------------
(* The stored time fits the stored schedule *)

FitsBy(u, row) == \E t \in 0..u : row.nextRun = RescheduleTime(row.schedule, t)
Fits(row) == FitsBy(now, row)

\* What the rows and their copies promise, as long as no copy of the job has been
\* overtaken: the rows fit, the rows about to be written back fit, and the
\* snapshots of the scheduler have the stored timing.
RowsFit   == \A j \in Stored(jobs) \ raced : Fits(jobs[j])
MergedFit == \A c \in Clients :
                cli[c].stage = "merged" /\ cli[c].id \notin raced => Fits(cli[c].row)
CopyFits  == pc = "disable" /\ Job.id \notin raced => Fits(copy)
SnapshotsFit ==
    \A i \in DOMAIN due :
        due[i].id \notin raced /\ jobs[due[i].id] # NoJob =>
            Timing(due[i].row) = Timing(jobs[due[i].id])

TimingInv == RowsFit /\ MergedFit /\ CopyFits /\ SnapshotsFit

\* The search gives one time, the one that is stored.
LEMMA NextRunFits ==
    ASSUME TypeOK, NEW s \in Schedule, NEW n \in NextRun(s, now)
    PROVE  n = RescheduleTime(s, now)
<1>1. now \in Time
  BY DEF TypeOK
<1>2. \A m \in NextRun(s, now) : m = n
  <2>1. CASE s \in [kind : {"cron"}, expr : CronExprs]
    BY <1>1, <2>1, CronNextOne DEF NextRun
  <2>2. CASE s \in [kind : {"at"}, at : Nat]
    BY <2>2 DEF NextRun
  <2>3. CASE s \in [kind : {"every"}, every : Nat]
    BY <2>3 DEF NextRun
  <2>4. QED
    BY <2>1, <2>2, <2>3 DEF Schedule
<1>3. NextRun(s, now) # {}
  OBVIOUS
<1>4. RescheduleTime(s, now) = CHOOSE m \in NextRun(s, now) : TRUE
  BY <1>3 DEF RescheduleTime
<1>5. RescheduleTime(s, now) \in NextRun(s, now)
  BY <1>3, <1>4
<1>6. QED
  BY <1>2, <1>5

LEMMA FitsNow ==
    ASSUME TypeOK, NEW row, row.nextRun = RescheduleTime(row.schedule, now)
    PROVE  FitsBy(now, row)
<1>1. now \in 0..now
  BY BoundsAssumption DEF TypeOK, Time
<1>2. QED
  BY <1>1 DEF FitsBy

LEMMA NewRowFits ==
    ASSUME TypeOK, NEW s \in Schedule, ValidSchedule(s, now), NEW cmd, NEW del
    PROVE  FitsBy(now, NewRow(s, cmd, del, now))
<1> DEFINE n == CHOOSE m \in NextRun(s, now) : TRUE
<1>1. now \in Time
  BY DEF TypeOK
<1>2. n \in NextRun(s, now)
  BY <1>1, ValidHasNext
<1>3. n = RescheduleTime(s, now)
  BY <1>2, NextRunFits
<1>4. NewRow(s, cmd, del, now).nextRun = n /\ NewRow(s, cmd, del, now).schedule = s
  BY DEF NewRow
<1>5. QED
  BY <1>3, <1>4, FitsNow

LEMMA NowGrows ==
    ASSUME TypeOK, [Next]_vars
    PROVE  now \in Nat /\ (now' = now \/ now' = now + 1)
<1>1. now \in Nat
  BY BoundsAssumption DEF TypeOK, Time
<1>2. CASE SchedulerStep \/ Failure \/ Crash \/ Restart \/ UNCHANGED vars
  <2>1. now' = now
    BY <1>2 DEF SchedulerStep, Failure, Poll, ExecuteRefused, ExecuteSucceeds, ExecuteFails,
       RecordInsert, RecordPrune, RemoveOneShot, DisableRead, DisableWrite, Reschedule,
       PollFails, RecordFails, PruneFails, DisposeFails, Crash, Restart, vars
  <2>2. QED
    BY <1>1, <2>1
<1>3. ASSUME NEW c \in Clients, Client(c) PROVE now' = now
  BY <1>3 DEF Client, AddShell, AddAgent, Insert, Remove, Pause, Resume, UpdateCommand,
     ReadForUpdate, UpdateSchedule, UpdateRead, UpdateWrite, UpdateFails
<1>4. CASE Tick
  BY <1>1, <1>4 DEF Tick
<1>5. QED
  BY <1>1, <1>2, <1>3, <1>4 DEF Next

\* Time goes on and what fitted still fits; the columns beside the two do not matter.
LEMMA FitsStays ==
    ASSUME TypeOK, [Next]_vars, NEW row, NEW row2, FitsBy(now, row),
           row2.schedule = row.schedule, row2.nextRun = row.nextRun
    PROVE  FitsBy(now', row2)
<1>1. now \in Nat /\ (now' = now \/ now' = now + 1)
  BY NowGrows
<1>2. PICK t \in 0..now : row.nextRun = RescheduleTime(row.schedule, t)
  BY DEF FitsBy
<1>3. t \in 0..now'
  BY <1>1, <1>2
<1>4. row2.nextRun = RescheduleTime(row2.schedule, t)
  BY <1>2
<1>5. QED
  BY <1>3, <1>4 DEF FitsBy

\* Where the row of a job that is there after a step has its timing from.
Core(row) == <<row.schedule, row.nextRun, row.deleteAfterRun>>

RowWritten(j) ==
    \/ jobs[j] # NoJob /\ Core(jobs'[j]) = Core(jobs[j])
    \/ /\ pc = "dispose" /\ Job.id = j /\ jobs[j] # NoJob /\ ~OneShot(Job.row)
       /\ jobs'[j].schedule = jobs[j].schedule
       /\ jobs'[j].deleteAfterRun = jobs[j].deleteAfterRun
       /\ jobs'[j].nextRun = RescheduleTime(Job.row.schedule, now)
    \/ \E c \in Clients : /\ cli[c].stage = "merged" /\ cli[c].id = j /\ jobs[j] # NoJob
                          /\ Core(jobs'[j]) = Core(cli[c].row)
    \/ /\ pc = "disable" /\ Job.id = j /\ jobs[j] # NoJob
       /\ Core(jobs'[j]) = Core(copy)
    \/ \E s \in Schedule, cmd \in Commands \cup {NoCommand}, del \in BOOLEAN :
          j \notin used /\ ValidSchedule(s, now) /\ jobs'[j] = NewRow(s, cmd, del, now)

LEMMA WriteRowCore ==
    ASSUME NEW tab \in [JobIds -> Row \cup {NoJob}], NEW j \in JobIds, NEW row \in Row,
           NEW k \in JobIds, WriteRow(tab, j, row)[k] # NoJob
    PROVE  \/ tab[k] # NoJob /\ Core(WriteRow(tab, j, row)[k]) = Core(tab[k])
           \/ k = j /\ tab[k] # NoJob /\ Core(WriteRow(tab, j, row)[k]) = Core(row)
<1>1. CASE tab[j] = NoJob \/ k # j
  BY <1>1 DEF WriteRow
<1>2. CASE tab[j] # NoJob /\ k = j
  <2>1. WriteRow(tab, j, row)[j] = [row EXCEPT !.lastStatus = tab[j].lastStatus]
    BY <1>2 DEF WriteRow
  <2>2. QED
    BY <1>2, <2>1 DEF Core, Row
<1>3. QED
  BY <1>1, <1>2

LEMMA RowWrittenTaken ==
    ASSUME TInv, [Next]_vars, NEW j \in JobIds, jobs'[j] # NoJob
    PROVE  RowWritten(j)
<1>t. jobs \in [JobIds -> Row \cup {NoJob}] /\ now \in Time /\ ok \in BOOLEAN
  BY DEF TInv, TypeOK
<1>0. jobs'[j] = jobs[j] => RowWritten(j)
  BY DEF RowWritten
<1>1. CASE \/ Poll \/ ExecuteRefused \/ ExecuteSucceeds \/ ExecuteFails \/ RecordInsert
           \/ RecordPrune \/ DisableRead \/ Failure \/ Crash \/ Restart \/ Tick \/ UNCHANGED vars
  <2>1. UNCHANGED jobs
    BY <1>1 DEF Poll, ExecuteRefused, ExecuteSucceeds, ExecuteFails, RecordInsert, RecordPrune,
       DisableRead, Failure, PollFails, RecordFails, PruneFails, DisposeFails, Crash, Restart,
       Tick, vars, store
  <2>2. QED
    BY <1>0, <2>1
<1>2. CASE RemoveOneShot
  <2>1. jobs'[j] = jobs[j]
    BY <1>2, <1>t DEF RemoveOneShot, DeleteJob
  <2>2. QED
    BY <1>0, <2>1
<1>3. CASE DisableWrite
  <2>1. Job.id \in JobIds /\ copy \in Row /\ pc = "disable" /\ jobs' = WriteRow(jobs, Job.id, copy)
    BY <1>3, JobTyped DEF DisableWrite, TInv, Busy
  <2>2. \/ jobs[j] # NoJob /\ Core(jobs'[j]) = Core(jobs[j])
        \/ j = Job.id /\ jobs[j] # NoJob /\ Core(jobs'[j]) = Core(copy)
    BY <1>t, <2>1, WriteRowCore
  <2>3. QED
    BY <2>1, <2>2 DEF RowWritten
<1>4. CASE Reschedule
  <2>1. /\ Job.id \in JobIds /\ pc = "dispose" /\ ~OneShot(Job.row)
        /\ jobs' = RescheduleRow(jobs, Job.id, Job.row.schedule, ok, now)
    BY <1>4, JobTyped DEF Reschedule
  <2>2. CASE jobs[Job.id] = NoJob \/ j # Job.id
    <3>1. jobs'[j] = jobs[j]
      BY <1>t, <2>1, <2>2 DEF RescheduleRow
    <3>2. QED
      BY <1>0, <3>1
  <2>3. CASE jobs[Job.id] # NoJob /\ j = Job.id
    <3>1. jobs[j] \in Row
      BY <1>t, <2>3
    <3>2. jobs'[j] = [jobs[j] EXCEPT !.nextRun = RescheduleTime(Job.row.schedule, now),
                                     !.lastStatus = IF ok THEN "ok" ELSE "error"]
      BY <1>t, <2>1, <2>3, <3>1 DEF RescheduleRow, Row
    <3>3. /\ jobs'[j].schedule = jobs[j].schedule
          /\ jobs'[j].deleteAfterRun = jobs[j].deleteAfterRun
          /\ jobs'[j].nextRun = RescheduleTime(Job.row.schedule, now)
      BY <3>1, <3>2 DEF Row
    <3>4. QED
      BY <2>1, <2>3, <3>3 DEF RowWritten
  <2>4. QED
    BY <2>2, <2>3
<1>5. ASSUME NEW c \in Clients, Client(c) PROVE RowWritten(j)
  <2>1. ASSUME NEW s \in CliSchedules, NEW cmd \in Commands \cup {NoCommand}, NEW del \in BOOLEAN,
               Insert(s, cmd, del)
        PROVE  RowWritten(j)
    <3>1. PICK k \in JobIds \ used : jobs' = [jobs EXCEPT ![k] = NewRow(s, cmd, del, now)]
      BY <2>1 DEF Insert, InsertJob
    <3>2. CASE j # k
      <4>1. jobs'[j] = jobs[j]
        BY <1>t, <3>1, <3>2
      <4>2. QED
        BY <1>0, <4>1
    <3>3. CASE j = k
      <4>1. jobs'[j] = NewRow(s, cmd, del, now)
        BY <1>t, <3>1, <3>3
      <4>2. ValidSchedule(s, now) /\ s \in Schedule
        BY <2>1, CliSchedulesType DEF Insert
      <4>3. QED
        BY <2>1, <3>3, <4>1, <4>2 DEF RowWritten
    <3>4. QED
      BY <3>2, <3>3
  <2>2. CASE AddShell(c)
    <3>1. PICK s \in CliSchedules, cmd \in Commands \ CliForbids : Insert(s, cmd, s.kind = "at")
      BY <2>2 DEF AddShell
    <3>2. (s.kind = "at") \in BOOLEAN /\ cmd \in Commands \cup {NoCommand}
      OBVIOUS
    <3>3. QED
      BY <2>1, <3>1, <3>2
  <2>3. CASE AddAgent(c)
    <3>1. PICK s \in CliSchedules, del \in AgentDeleteFlags : Insert(s, NoCommand, del)
      BY <2>3 DEF AddAgent
    <3>2. del \in BOOLEAN /\ NoCommand \in Commands \cup {NoCommand}
      BY ClientAssumption
    <3>3. QED
      BY <2>1, <3>1, <3>2
  <2>4. CASE Remove(c)
    <3>1. jobs'[j] = jobs[j]
      BY <2>4, <1>t DEF Remove, DeleteJob
    <3>2. QED
      BY <1>0, <3>1
  <2>5. CASE UpdateWrite(c)
    <3>1. cli[c] \in Merged
      BY <2>5 DEF UpdateWrite, TInv, TypeOK, AtRest, Patched
    <3>2. /\ cli[c].id \in JobIds /\ cli[c].row \in Row /\ cli[c].stage = "merged"
          /\ jobs' = WriteRow(jobs, cli[c].id, cli[c].row)
      BY <2>5, <3>1 DEF UpdateWrite, Merged
    <3>3. \/ jobs[j] # NoJob /\ Core(jobs'[j]) = Core(jobs[j])
          \/ j = cli[c].id /\ jobs[j] # NoJob /\ Core(jobs'[j]) = Core(cli[c].row)
      BY <1>t, <3>2, WriteRowCore
    <3>4. QED
      BY <3>2, <3>3 DEF RowWritten
  <2>6. CASE \/ Pause(c) \/ Resume(c) \/ UpdateCommand(c) \/ UpdateSchedule(c) \/ UpdateRead(c)
             \/ UpdateFails(c)
    <3>1. UNCHANGED jobs
      BY <2>6 DEF Pause, Resume, UpdateCommand, ReadForUpdate, UpdateSchedule, UpdateRead,
         UpdateFails, store
    <3>2. QED
      BY <1>0, <3>1
  <2>7. QED
    BY <1>5, <2>2, <2>3, <2>4, <2>5, <2>6 DEF Client
<1>6. QED
  BY <1>1, <1>2, <1>3, <1>4, <1>5 DEF Next, SchedulerStep

\* Where the row that an update is about to write has come from.
MergedFrom(c) ==
    LET j == cli'[c].id
        row == cli'[c].row
    IN  \/ j \in Stored(jobs) /\ Core(row) = Core(jobs[j])
        \/ /\ cli[c].stage = "patched" /\ row.schedule = cli[c].schedule
           /\ cli[c].id = j /\ j \in Stored(jobs)
           /\ row.deleteAfterRun = jobs[j].deleteAfterRun
           /\ row.schedule \in Schedule /\ row.nextRun \in NextRun(row.schedule, now)

LEMMA MergedTaken ==
    ASSUME TInv, [Next]_vars, NEW c \in Clients, cli'[c].stage = "merged"
    PROVE  cli'[c] = cli[c] \/ MergedFrom(c)
<1>t. /\ jobs \in [JobIds -> Row \cup {NoJob}]
      /\ cli \in [Clients -> {AtRest} \cup Patched \cup Merged]
  BY DEF TInv, TypeOK
<1>1. CASE SchedulerStep \/ Failure \/ Crash \/ Restart \/ Tick \/ UNCHANGED vars
  BY <1>1 DEF SchedulerStep, Failure, Poll, ExecuteRefused, ExecuteSucceeds, ExecuteFails,
     RecordInsert, RecordPrune, RemoveOneShot, DisableRead, DisableWrite, Reschedule,
     PollFails, RecordFails, PruneFails, DisposeFails, Crash, Restart, Tick, vars
<1>2. ASSUME NEW d \in Clients, Client(d) PROVE cli'[c] = cli[c] \/ MergedFrom(c)
  <2>1. CASE AddShell(d) \/ AddAgent(d) \/ Remove(d)
    BY <2>1 DEF AddShell, AddAgent, Insert, Remove
  <2>r. ASSUME NEW j \in Stored(jobs), NEW row, ReadForUpdate(d, j, row),
               Core(row) = Core(jobs[j])
        PROVE  cli'[c] = cli[c] \/ MergedFrom(c)
    <3>1. cli' = [cli EXCEPT ![d] = [stage |-> "merged", id |-> j, row |-> row]]
      BY <2>r DEF ReadForUpdate
    <3>2. CASE c # d
      BY <1>t, <3>1, <3>2
    <3>3. CASE c = d
      <4>1. cli'[c] = [stage |-> "merged", id |-> j, row |-> row]
        BY <1>t, <3>1, <3>3
      <4>2. QED
        BY <2>r, <4>1 DEF MergedFrom
    <3>4. QED
      BY <3>2, <3>3
  <2>j. \A j \in Stored(jobs) : jobs[j] \in Row
    BY <1>t DEF Stored
  <2>2. CASE Pause(d)
    <3>1. PICK j \in Stored(jobs) : ReadForUpdate(d, j, [jobs[j] EXCEPT !.enabled = FALSE])
      BY <2>2 DEF Pause
    <3>2. Core([jobs[j] EXCEPT !.enabled = FALSE]) = Core(jobs[j])
      BY <2>j DEF Core, Row
    <3>3. QED
      BY <2>r, <3>1, <3>2
  <2>3. CASE Resume(d)
    <3>1. PICK j \in Stored(jobs) : ReadForUpdate(d, j, [jobs[j] EXCEPT !.enabled = TRUE])
      BY <2>3 DEF Resume
    <3>2. Core([jobs[j] EXCEPT !.enabled = TRUE]) = Core(jobs[j])
      BY <2>j DEF Core, Row
    <3>3. QED
      BY <2>r, <3>1, <3>2
  <2>4. CASE UpdateCommand(d)
    <3>1. PICK j \in Stored(jobs), cmd \in CommandPatches :
             ReadForUpdate(d, j, WithCommand(jobs[j], cmd))
      BY <2>4 DEF UpdateCommand
    <3>2. Core(WithCommand(jobs[j], cmd)) = Core(jobs[j])
      BY <2>j DEF Core, WithCommand, Row
    <3>3. QED
      BY <2>r, <3>1, <3>2
  <2>5. CASE UpdateSchedule(d)
    <3>1. PICK j \in Stored(jobs), e \in CronExprs, cmd \in CommandPatches :
             cli' = [cli EXCEPT ![d] = [stage |-> "patched", id |-> j, command |-> cmd,
                                        schedule |-> [kind |-> "cron", expr |-> e]]]
      BY <2>5 DEF UpdateSchedule
    <3>2. c # d
      BY <1>t, <3>1
    <3>3. QED
      BY <1>t, <3>1, <3>2
  <2>6. CASE UpdateRead(d)
    <3>0. cli[d] \in Patched
      <4>1. cli[d].stage = "patched"
        BY <2>6 DEF UpdateRead
      <4>2. cli[d] \in {AtRest} \cup Patched \cup Merged
        BY <1>t
      <4>3. cli[d] # AtRest
        BY <4>1 DEF AtRest
      <4>4. cli[d] \notin Merged
        BY <4>1 DEF Merged
      <4>5. QED
        BY <4>2, <4>3, <4>4
    <3> DEFINE j == cli[d].id
               s == cli[d].schedule
    <3>1. j \in JobIds /\ s \in Schedule
      BY <3>0 DEF Patched
    <3>2. CASE c # d
      BY <1>t, <2>6, <3>2 DEF UpdateRead
    <3>3. CASE c = d /\ (jobs[j] = NoJob \/ ~ValidSchedule(s, now))
      <4>1. cli'[c] = AtRest
        BY <1>t, <2>6, <3>3 DEF UpdateRead
      <4>2. QED
        BY <4>1 DEF AtRest
    <3>4. CASE c = d /\ ~(jobs[j] = NoJob \/ ~ValidSchedule(s, now))
      <4>1. PICK n \in NextRun(s, now) :
               cli' = [cli EXCEPT ![d] = [stage |-> "merged", id |-> j,
                         row |-> [WithCommand(jobs[j], cli[d].command)
                                    EXCEPT !.schedule = s, !.nextRun = n]]]
        BY <2>6, <3>4 DEF UpdateRead
      <4>2. /\ cli'[c].row = [WithCommand(jobs[j], cli[d].command)
                                EXCEPT !.schedule = s, !.nextRun = n]
            /\ cli'[c].id = j /\ j \in Stored(jobs)
        BY <1>t, <3>1, <3>4, <4>1 DEF Stored
      <4>3. WithCommand(jobs[j], cli[d].command) \in Row
        BY <1>t, <3>0, <3>1, <3>4, WithCommandType DEF Patched
      <4>4. cli'[c].row.schedule = s /\ cli'[c].row.nextRun = n
        BY <4>2, <4>3 DEF Row
      <4>5. cli'[c].row.deleteAfterRun = jobs[j].deleteAfterRun
        <5>1. WithCommand(jobs[j], cli[d].command).deleteAfterRun = jobs[j].deleteAfterRun
          BY <2>j, <4>2 DEF WithCommand, Row
        <5>2. QED
          BY <4>2, <4>3, <5>1 DEF Row
      <4>6. QED
        BY <2>6, <3>1, <3>4, <4>2, <4>4, <4>5 DEF MergedFrom, UpdateRead
    <3>5. QED
      BY <3>2, <3>3, <3>4
  <2>7. CASE UpdateWrite(d) \/ UpdateFails(d)
    <3>1. cli' = [cli EXCEPT ![d] = AtRest]
      BY <2>7 DEF UpdateWrite, UpdateFails
    <3>2. c # d
      BY <1>t, <3>1 DEF AtRest
    <3>3. QED
      BY <1>t, <3>1, <3>2
  <2>8. QED
    BY <1>2, <2>1, <2>2, <2>3, <2>4, <2>5, <2>6, <2>7 DEF Client
<1>3. QED
  BY <1>1, <1>2 DEF Next

LEMMA CopyTaken ==
    ASSUME TInv, [Next]_vars, pc' = "disable"
    PROVE  /\ UNCHANGED due
           /\ \/ pc = "disable" /\ UNCHANGED copy
              \/ /\ Job.id \in JobIds /\ jobs[Job.id] \in Row
                 /\ copy' = [jobs[Job.id] EXCEPT !.enabled = FALSE]
<1>1. CASE Poll \/ RemoveOneShot \/ DisableWrite \/ Reschedule \/ DisposeFails
  BY <1>1 DEF Poll, RemoveOneShot, DisableWrite, Reschedule, DisposeFails, Work
<1>2. CASE DisableRead
  <2>1. jobs[Job.id] # NoJob /\ UNCHANGED due /\ copy' = [jobs[Job.id] EXCEPT !.enabled = FALSE]
    BY <1>2 DEF DisableRead, Work
  <2>2. Job.id \in JobIds
    BY <1>2, JobTyped DEF DisableRead
  <2>3. QED
    BY <2>1, <2>2 DEF TInv, TypeOK
<1>3. CASE \/ ExecuteRefused \/ ExecuteSucceeds \/ ExecuteFails \/ RecordInsert \/ RecordPrune
           \/ PollFails \/ RecordFails \/ PruneFails \/ Crash \/ Restart \/ Tick \/ UNCHANGED vars
  BY <1>3 DEF ExecuteRefused, ExecuteSucceeds, ExecuteFails, RecordInsert, RecordPrune, PollFails,
     RecordFails, PruneFails, Crash, Restart, Tick, vars, sched
<1>4. ASSUME NEW c \in Clients, Client(c) PROVE UNCHANGED sched
  BY <1>4 DEF Client, AddShell, AddAgent, Insert, Remove, Pause, Resume, UpdateCommand,
     ReadForUpdate, UpdateSchedule, UpdateRead, UpdateWrite, UpdateFails
<1>5. QED
  BY <1>1, <1>2, <1>3, <1>4 DEF Next, SchedulerStep, Failure, sched

\* A job whose timing changed while a copy of it is left is one of raced.
LEMMA NotRaced ==
    ASSUME [HNext]_<<vars, history>>, NEW j \in JobIds, j \notin raced'
    PROVE  /\ j \notin raced
           /\ jobs[j] # NoJob /\ jobs'[j] # NoJob /\ CopyInUse(j) =>
                 Timing(jobs'[j]) = Timing(jobs[j])
<1>1. CASE HNext
  <2>1. raced' = raced \cup {k \in JobIds : Retimed(k) /\ CopyInUse(k)}
    BY <1>1 DEF HNext, Remember
  <2>2. QED
    BY <2>1 DEF Retimed
<1>2. CASE UNCHANGED <<vars, history>>
  BY <1>2 DEF vars, history
<1>3. QED
  BY <1>1, <1>2

LEMMA NextRowsFit ==
    TInv /\ Known /\ TimingInv /\ [HNext]_<<vars, history>> => RowsFit'
<1> SUFFICES ASSUME TInv, Known, TimingInv, [HNext]_<<vars, history>>,
                    NEW j \in JobIds, jobs'[j] # NoJob, j \notin raced'
             PROVE  FitsBy(now', jobs'[j])
  BY DEF RowsFit, Stored, Fits
<1>1. [Next]_vars /\ TypeOK
  BY DEF HNext, vars, TInv
<1>2. j \notin raced
  BY NotRaced
<1>3. ASSUME NEW row, FitsBy(now, row), Core(jobs'[j]) = Core(row) PROVE FitsBy(now', jobs'[j])
  BY <1>1, <1>3, FitsStays DEF Core
<1>4. CASE jobs[j] # NoJob /\ Core(jobs'[j]) = Core(jobs[j])
  BY <1>2, <1>3, <1>4 DEF TimingInv, RowsFit, Stored, Fits
<1>5. CASE /\ pc = "dispose" /\ Job.id = j /\ jobs[j] # NoJob /\ ~OneShot(Job.row)
           /\ jobs'[j].schedule = jobs[j].schedule
           /\ jobs'[j].deleteAfterRun = jobs[j].deleteAfterRun
           /\ jobs'[j].nextRun = RescheduleTime(Job.row.schedule, now)
  <2>1. PICK i \in DOMAIN due : due[i] = Job
    BY <1>5, CurrentJob DEF TInv, Busy
  <2>2. Job.row.schedule = jobs[j].schedule
    BY <1>2, <1>5, <2>1 DEF TimingInv, SnapshotsFit, Timing
  <2>3. FitsBy(now, jobs'[j])
    BY <1>1, <1>5, <2>2, FitsNow
  <2>4. QED
    BY <1>3, <2>3
<1>6. CASE \E c \in Clients : /\ cli[c].stage = "merged" /\ cli[c].id = j /\ jobs[j] # NoJob
                              /\ Core(jobs'[j]) = Core(cli[c].row)
  BY <1>2, <1>3, <1>6 DEF TimingInv, MergedFit, Fits
<1>7. CASE /\ pc = "disable" /\ Job.id = j /\ jobs[j] # NoJob
           /\ Core(jobs'[j]) = Core(copy)
  BY <1>2, <1>3, <1>7 DEF TimingInv, CopyFits, Fits
<1>8. CASE \E s \in Schedule, cmd \in Commands \cup {NoCommand}, del \in BOOLEAN :
              j \notin used /\ ValidSchedule(s, now) /\ jobs'[j] = NewRow(s, cmd, del, now)
  <2>1. FitsBy(now, jobs'[j])
    BY <1>1, <1>8, NewRowFits
  <2>2. QED
    BY <1>3, <2>1
<1>9. RowWritten(j)
  BY <1>1, RowWrittenTaken
<1>10. QED
  BY <1>4, <1>5, <1>6, <1>7, <1>8, <1>9 DEF RowWritten

LEMMA NextMergedFit ==
    TInv /\ Known /\ TimingInv /\ [HNext]_<<vars, history>> => MergedFit'
<1> SUFFICES ASSUME TInv, Known, TimingInv, [HNext]_<<vars, history>>, NEW c \in Clients,
                    cli'[c].stage = "merged", cli'[c].id \notin raced'
             PROVE  FitsBy(now', cli'[c].row)
  BY DEF MergedFit, Fits
<1>1. [Next]_vars /\ TypeOK
  BY DEF HNext, vars, TInv
<1>2. cli'[c].id \in JobIds
  <2>1. cli'[c] \in {AtRest} \cup Patched \cup Merged
    BY <1>1, NextTInv DEF TInv, TypeOK
  <2>2. QED
    BY <2>1 DEF AtRest, Patched, Merged
<1>3. cli'[c].id \notin raced
  BY <1>2, NotRaced
<1>4. ASSUME NEW row, FitsBy(now, row), Core(cli'[c].row) = Core(row)
      PROVE  FitsBy(now', cli'[c].row)
  BY <1>1, <1>4, FitsStays DEF Core
<1>5. CASE cli'[c] = cli[c]
  BY <1>3, <1>4, <1>5 DEF TimingInv, MergedFit, Fits
<1>6. CASE cli'[c].id \in Stored(jobs) /\ Core(cli'[c].row) = Core(jobs[cli'[c].id])
  BY <1>3, <1>4, <1>6 DEF TimingInv, RowsFit, Fits
<1>7. CASE /\ cli[c].stage = "patched" /\ cli'[c].row.schedule = cli[c].schedule
           /\ cli'[c].row.schedule \in Schedule
           /\ cli'[c].row.nextRun \in NextRun(cli'[c].row.schedule, now)
  <2>1. cli'[c].row.nextRun = RescheduleTime(cli'[c].row.schedule, now)
    BY <1>1, <1>7, NextRunFits
  <2>2. FitsBy(now, cli'[c].row)
    BY <1>1, <2>1, FitsNow
  <2>3. QED
    BY <1>4, <2>2
<1>8. QED
  BY <1>1, <1>5, <1>6, <1>7, MergedTaken DEF MergedFrom

LEMMA NextCopyFits ==
    TInv /\ Known /\ TimingInv /\ [HNext]_<<vars, history>> => CopyFits'
<1> SUFFICES ASSUME TInv, Known, TimingInv, [HNext]_<<vars, history>>,
                    pc' = "disable", Job'.id \notin raced'
             PROVE  FitsBy(now', copy')
  BY DEF CopyFits, Fits
<1>1. [Next]_vars /\ TypeOK /\ TInv'
  BY NextTInv DEF HNext, vars, TInv
<1>2. UNCHANGED due /\ Job' = Job
  BY <1>1, CopyTaken DEF Job
<1>3. Job.id \in JobIds
  <2>1. due # << >> /\ due \in Seq(Snapshot)
    BY <1>1, <1>2 DEF TInv, TypeOK, Busy
  <2>2. Head(due) \in Snapshot
    BY <2>1
  <2>3. QED
    BY <2>2 DEF Job, Snapshot
<1>4. Job.id \notin raced
  BY <1>2, <1>3, NotRaced
<1>5. CASE pc = "disable" /\ UNCHANGED copy
  BY <1>1, <1>4, <1>5, FitsStays DEF TimingInv, CopyFits, Fits
<1>6. CASE jobs[Job.id] \in Row /\ copy' = [jobs[Job.id] EXCEPT !.enabled = FALSE]
  <2>1. copy'.schedule = jobs[Job.id].schedule /\ copy'.nextRun = jobs[Job.id].nextRun
    BY <1>6 DEF Row
  <2>2. jobs[Job.id] # NoJob
    BY <1>6, NoJobAssumption
  <2>3. FitsBy(now, jobs[Job.id])
    BY <1>3, <1>4, <2>2 DEF TimingInv, RowsFit, Stored, Fits
  <2>4. QED
    BY <1>1, <2>1, <2>3, FitsStays
<1>7. QED
  BY <1>1, <1>5, <1>6, CopyTaken

LEMMA NextSnapshotsFit ==
    TInv /\ Known /\ TimingInv /\ [HNext]_<<vars, history>> => SnapshotsFit'
<1> SUFFICES ASSUME TInv, Known, TimingInv, [HNext]_<<vars, history>>, NEW i \in DOMAIN due',
                    due'[i].id \notin raced', jobs'[due'[i].id] # NoJob
             PROVE  Timing(due'[i].row) = Timing(jobs'[due'[i].id])
  BY DEF SnapshotsFit
<1> DEFINE j == due'[i].id
<1>1. [Next]_vars
  BY DEF HNext, vars
<1>2. j \in JobIds
  <2>1. due' \in Seq(Snapshot)
    BY <1>1, NextTInv DEF TInv, TypeOK
  <2>2. due'[i] \in Snapshot
    BY <2>1
  <2>3. QED
    BY <2>2 DEF Snapshot
<1>3. CopyInUse(j)
  BY DEF CopyInUse
<1>4. CASE Poll
  <2>1. due'[i].row = jobs[j] /\ UNCHANGED jobs
    BY <1>4, PollTakes DEF Poll, store
  <2>2. QED
    BY <2>1
<1>5. ASSUME NEW k \in DOMAIN due, due'[i] = due[k]
      PROVE  Timing(due'[i].row) = Timing(jobs'[j])
  <2>1. j \in used
    BY <1>5 DEF Known
  <2>2. jobs[j] # NoJob
    <3>1. CASE UNCHANGED vars
      BY <3>1 DEF vars
    <3>2. CASE ~UNCHANGED vars
      BY <1>1, <2>1, <3>2, NextRemoved
    <3>3. QED
      BY <3>1, <3>2
  <2>3. j \notin raced /\ Timing(jobs'[j]) = Timing(jobs[j])
    BY <1>2, <1>3, <2>2, NotRaced
  <2>4. Timing(due[k].row) = Timing(jobs[j])
    BY <1>5, <2>2, <2>3 DEF TimingInv, SnapshotsFit
  <2>5. QED
    BY <1>5, <2>3, <2>4
<1>6. CASE UNCHANGED due
  BY <1>5, <1>6
<1>7. CASE due # << >> /\ due' = Tail(due)
  BY <1>5, <1>7, CurrentJob
<1>8. CASE due' = << >>
  BY <1>8
<1>9. QED
  BY <1>1, <1>4, <1>6, <1>7, <1>8, DueStepTaken DEF DueStep

\* For any processes and failures: the time a job is stored with is one its stored
\* schedule gives, unless an update of its timing ran beside another copy of it.
THEOREM StoredTimesFit == HSpec => []TimingFits
<1>1. HInit => TInv /\ Known /\ TimingInv
  <2> SUFFICES ASSUME HInit PROVE TInv /\ Known /\ TimingInv
    OBVIOUS
  <2>1. /\ Stored(jobs) = {} /\ due = << >> /\ pc = "poll"
        /\ \A c \in Clients : cli[c].stage = "rest"
    BY DEF HInit, Init, Stored, AtRest
  <2>2. QED
    BY <2>1, InitTInv, InitKnown DEF HInit, TimingInv, RowsFit, MergedFit, CopyFits, SnapshotsFit
<1>2. [HNext]_<<vars, history>> => [Next]_vars
  BY DEF HNext, vars
<1>3. TInv /\ Known /\ TimingInv /\ [HNext]_<<vars, history>> => (TInv /\ Known /\ TimingInv)'
  BY <1>2, NextTInv, NextKnown, NextRowsFit, NextMergedFit, NextCopyFits, NextSnapshotsFit
  DEF TimingInv
<1>4. TimingInv => TimingFits
  BY DEF TimingInv, RowsFit, Fits, FitsBy, TimingFits
<1>5. QED
  BY <1>1, <1>3, <1>4, PTL DEF HSpec

-----------------------------------------------------------------------------
(* Once per due time, and no overtaking: what the steps do *)

\* The execution of j is over and j is still in the scheduler's hand.
Ran(j) == pc \in {"record", "prune", "dispose", "disable"} /\ Job.id = j

\* The scheduler lets go of j.
Disposed(j) ==
    /\ Job.id = j
    /\ \/ RemoveOneShot \/ DisableWrite \/ Reschedule
       \/ DisableRead /\ jobs[j] = NoJob

\* All copies of a row agree with the stored one in what kind of schedule it has and in
\* whether it is deleted after its run; what is in the list was due; a copy that
\* disables is disabled.
SameKind(r, q) == r.schedule.kind = q.schedule.kind /\ r.deleteAfterRun = q.deleteAfterRun

ClientsKnown == \A c \in Clients : cli[c].stage # "rest" => cli[c].id \in used
MergedKind ==
    \A c \in Clients :
        cli[c].stage = "merged" /\ jobs[cli[c].id] # NoJob =>
            SameKind(cli[c].row, jobs[cli[c].id])
PatchedKind ==
    \A c \in Clients :
        cli[c].stage = "patched" =>
            /\ cli[c].schedule.kind = "cron"
            /\ jobs[cli[c].id] # NoJob => jobs[cli[c].id].schedule.kind = "cron"
CopyKind ==
    pc = "disable" =>
        ~copy.enabled /\ (jobs[Job.id] # NoJob => SameKind(copy, jobs[Job.id]))
DueKind ==
    \A i \in DOMAIN due :
        jobs[due[i].id] # NoJob => SameKind(due[i].row, jobs[due[i].id])
ListIsDue  == \A i \in DOMAIN due : due[i].row.nextRun <= now
ListIsDone == pc \in {"poll", "down"} => due = << >>

ListInv ==
    /\ ClientsKnown /\ MergedKind /\ PatchedKind /\ CopyKind /\ DueKind
    /\ ListIsDue /\ ListIsDone

\* What a step leaves of the kind of a row.
LEMMA KindStays ==
    ASSUME TInv, Known, ListInv, [Next]_vars, NEW j \in JobIds, j \in used, jobs'[j] # NoJob
    PROVE  jobs[j] # NoJob /\ SameKind(jobs'[j], jobs[j]) /\ (Kept(jobs'[j]) <=> Kept(jobs[j]))
<1>0. ASSUME NEW row, SameKind(row, jobs[j]), Core(jobs'[j]) = Core(row)
      PROVE  SameKind(jobs'[j], jobs[j])
  BY <1>0 DEF SameKind, Core
<1>1. jobs[j] # NoJob /\ SameKind(jobs'[j], jobs[j])
  <2>1. CASE jobs[j] # NoJob /\ Core(jobs'[j]) = Core(jobs[j])
    BY <2>1 DEF SameKind, Core
  <2>2. CASE /\ jobs[j] # NoJob /\ jobs'[j].schedule = jobs[j].schedule
             /\ jobs'[j].deleteAfterRun = jobs[j].deleteAfterRun
    BY <2>2 DEF SameKind
  <2>3. CASE \E c \in Clients : /\ cli[c].stage = "merged" /\ cli[c].id = j /\ jobs[j] # NoJob
                                /\ Core(jobs'[j]) = Core(cli[c].row)
    BY <1>0, <2>3 DEF ListInv, MergedKind
  <2>4. CASE /\ pc = "disable" /\ Job.id = j /\ jobs[j] # NoJob
             /\ Core(jobs'[j]) = Core(copy)
    BY <1>0, <2>4 DEF ListInv, CopyKind
  <2>5. RowWritten(j)
    BY RowWrittenTaken
  <2>6. QED
    BY <2>1, <2>2, <2>3, <2>4, <2>5 DEF RowWritten
<1>2. QED
  BY <1>1 DEF SameKind, Kept

LEMMA PatchedTaken ==
    ASSUME TInv, [Next]_vars, NEW c \in Clients, cli'[c].stage = "patched"
    PROVE  \/ cli'[c] = cli[c]
           \/ /\ cli'[c].schedule.kind = "cron" /\ cli'[c].id \in Stored(jobs)
              /\ jobs[cli'[c].id].schedule.kind = "cron"
<1>t. cli \in [Clients -> {AtRest} \cup Patched \cup Merged]
  BY DEF TInv, TypeOK
<1>1. CASE SchedulerStep \/ Failure \/ Crash \/ Restart \/ Tick \/ UNCHANGED vars
  BY <1>1 DEF SchedulerStep, Failure, Poll, ExecuteRefused, ExecuteSucceeds, ExecuteFails,
     RecordInsert, RecordPrune, RemoveOneShot, DisableRead, DisableWrite, Reschedule,
     PollFails, RecordFails, PruneFails, DisposeFails, Crash, Restart, Tick, vars
<1>2. ASSUME NEW d \in Clients, Client(d), cli'[c] # cli[c]
      PROVE  /\ cli'[c].schedule.kind = "cron" /\ cli'[c].id \in Stored(jobs)
             /\ jobs[cli'[c].id].schedule.kind = "cron"
  <2>0. ASSUME NEW new, cli' = [cli EXCEPT ![d] = new] PROVE cli'[c] = new
    BY <1>t, <1>2, <2>0
  <2>1. CASE AddShell(d) \/ AddAgent(d) \/ Remove(d)
    BY <1>2, <2>1 DEF AddShell, AddAgent, Insert, Remove
  <2>2. ASSUME NEW j, NEW row, ReadForUpdate(d, j, row) PROVE FALSE
    <3>1. cli'[c] = [stage |-> "merged", id |-> j, row |-> row]
      BY <2>0, <2>2 DEF ReadForUpdate
    <3>2. QED
      BY <3>1
  <2>3. CASE Pause(d) \/ Resume(d) \/ UpdateCommand(d)
    BY <2>2, <2>3 DEF Pause, Resume, UpdateCommand
  <2>4. CASE UpdateSchedule(d)
    <3>1. PICK j \in Stored(jobs), e \in CronExprs, cmd \in CommandPatches :
             /\ jobs[j].schedule.kind = "cron"
             /\ cli' = [cli EXCEPT ![d] = [stage |-> "patched", id |-> j, command |-> cmd,
                                           schedule |-> [kind |-> "cron", expr |-> e]]]
      BY <2>4 DEF UpdateSchedule
    <3>2. cli'[c] = [stage |-> "patched", id |-> j, command |-> cmd,
                     schedule |-> [kind |-> "cron", expr |-> e]]
      BY <2>0, <3>1
    <3>3. QED
      BY <3>1, <3>2
  <2>5. CASE UpdateRead(d)
    <3>1. \/ cli'[c] = AtRest
          \/ \E n \in NextRun(cli[d].schedule, now) :
               cli'[c] = [stage |-> "merged", id |-> cli[d].id,
                          row |-> [WithCommand(jobs[cli[d].id], cli[d].command)
                                     EXCEPT !.schedule = cli[d].schedule, !.nextRun = n]]
      BY <2>0, <2>5 DEF UpdateRead
    <3>2. cli'[c].stage \in {"rest", "merged"}
      <4>1. CASE cli'[c] = AtRest
        BY <4>1 DEF AtRest
      <4>2. ASSUME NEW id, NEW row, cli'[c] = [stage |-> "merged", id |-> id, row |-> row]
            PROVE  cli'[c].stage = "merged"
        BY <4>2
      <4>3. QED
        BY <3>1, <4>1, <4>2
    <3>3. QED
      BY <3>2
  <2>6. CASE UpdateWrite(d) \/ UpdateFails(d)
    <3>1. cli'[c] = AtRest
      BY <2>0, <2>6 DEF UpdateWrite, UpdateFails
    <3>2. QED
      BY <3>1 DEF AtRest
  <2>7. QED
    BY <1>2, <2>1, <2>3, <2>4, <2>5, <2>6 DEF Client
<1>3. QED
  BY <1>1, <1>2 DEF Next

LEMMA NextListInv ==
    ASSUME TInv, Known, ListInv, [Next]_vars
    PROVE  ListInv'
<1>t. now \in Nat /\ now' \in Nat /\ now' >= now /\ TInv' /\ TypeOK
  BY NowGrows, NextTInv DEF TInv
<1>u. used \subseteq used' /\ used \subseteq JobIds /\ Stored(jobs) \subseteq used
  BY UsedGrows DEF TInv, TypeOK, Known
<1>s. ASSUME NEW r, NEW j \in used, jobs'[j] # NoJob, jobs[j] # NoJob => SameKind(r, jobs[j])
      PROVE  SameKind(r, jobs'[j])
  <2>1. jobs[j] # NoJob /\ SameKind(jobs'[j], jobs[j])
    BY <1>u, <1>s, KindStays
  <2>2. QED
    BY <1>s, <2>1 DEF SameKind
<1>m. ASSUME NEW c \in Clients, cli'[c].stage = "merged"
      PROVE  /\ cli'[c].id \in used
             /\ jobs[cli'[c].id] # NoJob => SameKind(cli'[c].row, jobs[cli'[c].id])
  <2>1. CASE cli'[c] = cli[c]
    BY <1>m, <2>1 DEF ListInv, ClientsKnown, MergedKind
  <2>2. CASE cli'[c].id \in Stored(jobs) /\ Core(cli'[c].row) = Core(jobs[cli'[c].id])
    BY <1>u, <2>2 DEF SameKind, Core
  <2>3. CASE /\ cli[c].stage = "patched" /\ cli'[c].row.schedule = cli[c].schedule
             /\ cli[c].id = cli'[c].id /\ cli'[c].id \in Stored(jobs)
             /\ cli'[c].row.deleteAfterRun = jobs[cli'[c].id].deleteAfterRun
    BY <1>u, <2>3 DEF ListInv, PatchedKind, SameKind, Stored
  <2>4. QED
    BY <1>m, <2>1, <2>2, <2>3, MergedTaken DEF MergedFrom
<1>p. ASSUME NEW c \in Clients, cli'[c].stage = "patched"
      PROVE  /\ cli'[c].id \in used /\ cli'[c].schedule.kind = "cron"
             /\ jobs[cli'[c].id] # NoJob => jobs[cli'[c].id].schedule.kind = "cron"
  <2>1. CASE cli'[c] = cli[c]
    BY <1>p, <2>1 DEF ListInv, ClientsKnown, PatchedKind
  <2>2. QED
    BY <1>p, <1>u, <2>1, PatchedTaken
<1>1. ClientsKnown'
  <2> SUFFICES ASSUME NEW c \in Clients, cli'[c].stage # "rest" PROVE cli'[c].id \in used'
    BY DEF ClientsKnown
  <2>1. cli'[c].stage \in {"patched", "merged"}
    <3>1. cli'[c] \in {AtRest} \cup Patched \cup Merged
      BY <1>t DEF TInv, TypeOK
    <3>2. QED
      BY <3>1 DEF AtRest, Patched, Merged
  <2>2. QED
    BY <1>m, <1>p, <1>u, <2>1
<1>2. MergedKind'
  <2> SUFFICES ASSUME NEW c \in Clients, cli'[c].stage = "merged", jobs'[cli'[c].id] # NoJob
               PROVE  SameKind(cli'[c].row, jobs'[cli'[c].id])
    BY DEF MergedKind
  <2>1. QED
    BY <1>m, <1>s
<1>3. PatchedKind'
  <2> SUFFICES ASSUME NEW c \in Clients, cli'[c].stage = "patched"
               PROVE  /\ cli'[c].schedule.kind = "cron"
                      /\ jobs'[cli'[c].id] # NoJob => jobs'[cli'[c].id].schedule.kind = "cron"
    BY DEF PatchedKind
  <2>1. ASSUME jobs'[cli'[c].id] # NoJob PROVE jobs'[cli'[c].id].schedule.kind = "cron"
    <3>1. cli'[c].id \in used /\ cli'[c].id \in JobIds
      BY <1>p, <1>u
    <3>2. jobs[cli'[c].id] # NoJob /\ SameKind(jobs'[cli'[c].id], jobs[cli'[c].id])
      BY <2>1, <3>1, KindStays
    <3>3. QED
      BY <1>p, <3>2 DEF SameKind
  <2>2. QED
    BY <1>p, <2>1
<1>4. CopyKind'
  <2> SUFFICES ASSUME pc' = "disable"
               PROVE  /\ ~copy'.enabled
                      /\ jobs'[Job'.id] # NoJob => SameKind(copy', jobs'[Job'.id])
    BY DEF CopyKind
  <2>1. Job' = Job /\ Job.id \in used
    <3>1. UNCHANGED due
      BY CopyTaken
    <3>2. due # << >>
      BY <1>t, <3>1 DEF TInv, Busy
    <3>3. QED
      BY <3>1, <3>2, CurrentJob DEF Job
  <2>2. CASE pc = "disable" /\ UNCHANGED copy
    BY <1>s, <2>1, <2>2 DEF ListInv, CopyKind
  <2>3. CASE /\ Job.id \in JobIds /\ jobs[Job.id] \in Row
             /\ copy' = [jobs[Job.id] EXCEPT !.enabled = FALSE]
    <3>1. ~copy'.enabled /\ SameKind(copy', jobs[Job.id])
      BY <2>3 DEF Row, SameKind
    <3>2. QED
      BY <1>s, <2>1, <3>1
  <2>4. QED
    BY <2>2, <2>3, CopyTaken
<1>8. DueKind'
  <2> SUFFICES ASSUME NEW i \in DOMAIN due', jobs'[due'[i].id] # NoJob
               PROVE  SameKind(due'[i].row, jobs'[due'[i].id])
    BY DEF DueKind
  <2>1. CASE Poll
    <3>1. due'[i].row = jobs[due'[i].id] /\ UNCHANGED jobs
      BY <2>1, PollTakes DEF Poll, store
    <3>2. QED
      BY <3>1 DEF SameKind
  <2>2. ASSUME NEW k \in DOMAIN due, due'[i] = due[k]
        PROVE  SameKind(due'[i].row, jobs'[due'[i].id])
    BY <1>s, <2>2 DEF ListInv, DueKind, Known
  <2>3. CASE UNCHANGED due
    BY <2>2, <2>3
  <2>4. CASE due # << >> /\ due' = Tail(due)
    BY <2>2, <2>4, CurrentJob
  <2>5. CASE due' = << >>
    BY <2>5
  <2>6. QED
    BY <2>1, <2>3, <2>4, <2>5, DueStepTaken DEF DueStep
<1>5. ListIsDue'
  <2> SUFFICES ASSUME NEW i \in DOMAIN due'
               PROVE  due'[i].row.nextRun <= now'
    BY DEF ListIsDue
  <2>1. CASE Poll
    <3>1. /\ due'[i].id \in Stored(jobs) /\ due'[i].id \in DueSet(jobs, now)
          /\ due'[i].row = jobs[due'[i].id]
      BY <2>1, PollTakes
    <3>2. UNCHANGED now
      BY <2>1 DEF Poll
    <3>3. QED
      BY <3>1, <3>2 DEF DueSet
  <2>2. ASSUME NEW k \in DOMAIN due, due'[i] = due[k]
        PROVE  due'[i].row.nextRun <= now'
    <3>1. due[k].row.nextRun \in Nat
      <4>1. due[k] \in Snapshot
        BY <1>t DEF TypeOK
      <4>2. QED
        BY <4>1 DEF Snapshot, Row
    <3>2. QED
      BY <1>t, <2>2, <3>1 DEF ListInv, ListIsDue
  <2>3. CASE UNCHANGED due
    BY <2>2, <2>3
  <2>4. CASE due # << >> /\ due' = Tail(due)
    BY <2>2, <2>4, CurrentJob
  <2>5. CASE due' = << >>
    BY <2>5
  <2>6. QED
    BY <2>1, <2>3, <2>4, <2>5, DueStepTaken DEF DueStep
<1>6. ListIsDone'
  <2> SUFFICES ASSUME pc' \in {"poll", "down"} PROVE due' = << >>
    BY DEF ListIsDone
  <2>1. ASSUME NEW q, Work(q) PROVE due' = << >>
    BY <2>1 DEF Work
  <2>2. CASE UNCHANGED sched
    BY <2>2 DEF ListInv, ListIsDone, sched
  <2>3. CASE Poll \/ RemoveOneShot \/ DisableRead \/ DisableWrite \/ Reschedule \/ DisposeFails
    BY <2>1, <2>3 DEF Poll, RemoveOneShot, DisableRead, DisableWrite, Reschedule, DisposeFails
  <2>4. CASE ExecuteRefused \/ ExecuteSucceeds \/ ExecuteFails \/ RecordInsert \/ RecordPrune
             \/ RecordFails \/ PruneFails
    BY <2>4 DEF ExecuteRefused, ExecuteSucceeds, ExecuteFails, RecordInsert, RecordPrune,
       RecordFails, PruneFails
  <2>5. CASE Crash \/ Restart
    BY <2>5 DEF Crash, Restart, ListInv, ListIsDone
  <2>6. CASE PollFails \/ Tick \/ UNCHANGED vars
    BY <2>2, <2>6 DEF PollFails, Tick, vars, sched
  <2>7. ASSUME NEW c \in Clients, Client(c) PROVE UNCHANGED sched
    BY <2>7 DEF Client, AddShell, AddAgent, Insert, Remove, Pause, Resume, UpdateCommand,
       ReadForUpdate, UpdateSchedule, UpdateRead, UpdateWrite, UpdateFails
  <2>8. QED
    BY <2>2, <2>3, <2>4, <2>5, <2>6, <2>7 DEF Next, SchedulerStep, Failure
<1>7. QED
  BY <1>1, <1>2, <1>3, <1>4, <1>5, <1>6, <1>8 DEF ListInv

\* What is left of a list is not its head, and all the rest is left.
LEMMA TailHas ==
    ASSUME NEW q \in Seq(Snapshot), q # << >>, NEW i \in DOMAIN q
    PROVE  q[i] = Head(q) \/ \E k \in DOMAIN Tail(q) : Tail(q)[k] = q[i]
<1>1. Len(q) \in Nat \ {0} /\ DOMAIN q = 1..Len(q) /\ Head(q) = q[1]
  OBVIOUS
<1>2. Len(Tail(q)) = Len(q) - 1 /\ Tail(q) \in Seq(Snapshot)
  OBVIOUS
<1>3. DOMAIN Tail(q) = 1..(Len(q) - 1)
  BY <1>1, <1>2
<1>4. CASE i = 1
  BY <1>1, <1>4
<1>5. CASE i # 1
  <2>1. i - 1 \in 1..(Len(q) - 1)
    BY <1>1, <1>5
  <2>2. Tail(q)[i - 1] = q[i]
    BY <1>1, <2>1
  <2>3. QED
    BY <1>3, <2>1, <2>2
<1>6. QED
  BY <1>4, <1>5

LEMMA RanListed ==
    ASSUME TInv, Known, NEW j, Ran(j)
    PROVE  Listed(j)
BY HeldListed DEF Ran

\* The scheduler lets go of a job by disposing of it, or a failure makes it.
LEMMA LetGo ==
    ASSUME TInv, Known, ListInv, [Next]_vars, NEW j \in JobIds,
           \/ Ran(j) /\ ~Ran(j)'
           \/ Listed(j) /\ ~Listed(j)'
    PROVE  Disposed(j) \/ Dropped(j)
<1>t. faults \in Nat /\ crashes \in Nat /\ due \in Seq(Snapshot)
  BY ClientAssumption DEF TInv, TypeOK
<1>1. CASE UNCHANGED sched
  BY <1>1 DEF sched, Ran, Listed, Job
<1>2. CASE Failure \/ Crash
  <2>1. CASE Ran(j) /\ ~Ran(j)'
    <3>1. pc \notin {"down", "poll"} /\ Job.id = j
      BY <2>1 DEF Ran
    <3>2. CASE pc' \in {"prune", "dispose"} /\ UNCHANGED due
      BY <2>1, <3>1, <3>2 DEF Ran, Job
    <3>3. QED
      BY <1>2, <3>1, <3>2, FailureDrops
  <2>2. CASE Listed(j) /\ ~Listed(j)'
    <3>1. faults' # faults \/ crashes' # crashes
      BY <1>t, <1>2 DEF Failure, PollFails, RecordFails, PruneFails, DisposeFails, LockFails, Crash
    <3>2. QED
      BY <2>2, <3>1 DEF Dropped
  <2>3. QED
    BY <2>1, <2>2
<1>3. CASE Poll \/ Restart
  BY <1>3 DEF Poll, Restart, ListInv, ListIsDone, Ran, Listed
<1>4. CASE ExecuteRefused \/ ExecuteSucceeds \/ ExecuteFails
  BY <1>4 DEF ExecuteRefused, ExecuteSucceeds, ExecuteFails, Ran, Listed
<1>5. CASE RecordInsert \/ RecordPrune
  BY <1>5 DEF RecordInsert, RecordPrune, Ran, Listed, Job
<1>6. CASE DisableRead /\ jobs[Job.id] # NoJob
  BY <1>6 DEF DisableRead, Ran, Listed, Job
<1>7. CASE RemoveOneShot \/ DisableWrite \/ Reschedule \/ (DisableRead /\ jobs[Job.id] = NoJob)
  <2>1. due # << >> /\ due' = Tail(due)
    BY <1>7 DEF RemoveOneShot, DisableWrite, Reschedule, DisableRead, Work, TInv, Busy
  <2>2. Job.id = j
    <3>1. CASE Ran(j)
      BY <3>1 DEF Ran
    <3>2. CASE Listed(j) /\ ~Listed(j)'
      <4>1. PICK i \in DOMAIN due : due[i].id = j
        BY <3>2 DEF Listed
      <4>2. ~ \E k \in DOMAIN Tail(due) : Tail(due)[k] = due[i]
        BY <2>1, <3>2, <4>1 DEF Listed
      <4>3. QED
        BY <1>t, <2>1, <4>1, <4>2, TailHas DEF Job
    <3>3. QED
      BY <3>1, <3>2
  <2>3. QED
    BY <1>7, <2>2 DEF Disposed
<1>8. CASE Tick \/ UNCHANGED vars
  BY <1>1, <1>8 DEF Tick, vars, sched
<1>9. ASSUME NEW c \in Clients, Client(c) PROVE UNCHANGED sched
  BY <1>9 DEF Client, AddShell, AddAgent, Insert, Remove, Pause, Resume, UpdateCommand,
     ReadForUpdate, UpdateSchedule, UpdateRead, UpdateWrite, UpdateFails
<1>10. QED
  BY <1>1, <1>2, <1>3, <1>4, <1>5, <1>6, <1>7, <1>8, <1>9 DEF Next, SchedulerStep

\* A schedule that recurs has its next run in the future.
LEMMA NextRunLater ==
    ASSUME NEW s \in Schedule, s.kind # "at", NEW u \in Time, NEW n \in NextRun(s, u)
    PROVE  n \in Nat /\ n > u
<1>0. u \in Nat
  BY BoundsAssumption DEF Time
<1>1. CASE s \in [kind : {"cron"}, expr : CronExprs]
  BY <1>1, CronNextAssumption DEF NextRun
<1>2. CASE s \in [kind : {"every"}, every : Nat]
  BY <1>0, <1>2 DEF NextRun
<1>3. CASE s \in [kind : {"at"}, at : Nat]
  BY <1>3
<1>4. QED
  BY <1>1, <1>2, <1>3 DEF Schedule

LEMMA RescheduleLater ==
    ASSUME NEW s \in Schedule, s.kind # "at", NEW u \in Time
    PROVE  RescheduleTime(s, u) > u
<1>1. u \in Nat /\ Fallback \in Nat \ {0}
  BY BoundsAssumption DEF Time
<1>2. CASE NextRun(s, u) = {}
  BY <1>1, <1>2 DEF RescheduleTime
<1>3. CASE NextRun(s, u) # {}
  <2>1. (CHOOSE n \in NextRun(s, u) : TRUE) \in NextRun(s, u)
    BY <1>3
  <2>2. QED
    BY <1>3, <2>1, NextRunLater DEF RescheduleTime
<1>4. QED
  BY <1>2, <1>3

\* A job disposed of is gone, disabled, kept or due at a later time, and the list is
\* without it.
LEMMA DisposedRow ==
    ASSUME TInv, Known, ListInv, NEW j \in JobIds, Disposed(j)
    PROVE  /\ \A i \in DOMAIN due' : due'[i].id # j
           /\ \/ jobs'[j] = NoJob
              \/ ~jobs'[j].enabled
              \/ jobs[j] # NoJob /\ (Kept(jobs'[j]) \/ jobs'[j].nextRun > now)
<1>t. jobs \in [JobIds -> Row \cup {NoJob}] /\ now \in Time /\ ok \in BOOLEAN
  BY DEF TInv, TypeOK
<1>0. Job.id = j /\ due # << >> /\ pc \in {"dispose", "disable"}
  BY DEF Disposed, RemoveOneShot, DisableWrite, Reschedule, DisableRead, TInv, Busy
<1>1. due' = Tail(due)
  BY <1>0 DEF Disposed, RemoveOneShot, DisableWrite, Reschedule, DisableRead, Work
<1>2. \A i \in DOMAIN due' : due'[i].id # j
  BY <1>0, <1>1, CurrentJob
<1>3. CASE RemoveOneShot
  BY <1>0, <1>2, <1>3, <1>t DEF RemoveOneShot, DeleteJob
<1>4. CASE DisableRead /\ jobs[j] = NoJob
  BY <1>2, <1>4 DEF DisableRead, store
<1>5. CASE DisableWrite
  <2>1. jobs' = WriteRow(jobs, j, copy) /\ copy \in Row /\ ~copy.enabled
    BY <1>0, <1>5 DEF DisableWrite, TInv, Busy, ListInv, CopyKind
  <2>2. CASE jobs[j] = NoJob
    BY <1>2, <2>1, <2>2 DEF WriteRow
  <2>3. CASE jobs[j] # NoJob
    <3>1. jobs'[j] = [copy EXCEPT !.lastStatus = jobs[j].lastStatus]
      BY <1>t, <2>1, <2>3 DEF WriteRow
    <3>2. ~jobs'[j].enabled
      BY <2>1, <3>1 DEF Row
    <3>3. QED
      BY <1>2, <3>2
  <2>4. QED
    BY <2>2, <2>3
<1>6. CASE Reschedule
  <2>1. jobs' = RescheduleRow(jobs, j, Job.row.schedule, ok, now) /\ ~OneShot(Job.row)
    BY <1>0, <1>6 DEF Reschedule
  <2>2. Job.row.schedule \in Schedule
    BY <1>6, JobTyped DEF Reschedule
  <2>4. CASE jobs[j] = NoJob
    BY <1>2, <2>1, <2>4 DEF RescheduleRow
  <2>5. CASE jobs[j] # NoJob
    <3>1. jobs[j] \in Row
      BY <1>t, <2>5
    <3>2. jobs'[j] = [jobs[j] EXCEPT !.nextRun = RescheduleTime(Job.row.schedule, now),
                                     !.lastStatus = IF ok THEN "ok" ELSE "error"]
      BY <1>t, <2>1, <2>5, <3>1 DEF RescheduleRow, Row
    <3>3. /\ jobs'[j].nextRun = RescheduleTime(Job.row.schedule, now)
          /\ SameKind(jobs'[j], jobs[j])
      BY <3>1, <3>2 DEF Row, SameKind
    <3>4. SameKind(Job.row, jobs[j])
      BY <1>0, <2>5, CurrentJob DEF ListInv, DueKind
    <3>5. CASE Job.row.schedule.kind = "at"
      BY <1>2, <2>1, <2>5, <3>3, <3>4, <3>5 DEF OneShot, SameKind, Kept
    <3>6. CASE Job.row.schedule.kind # "at"
      BY <1>t, <1>2, <2>2, <2>5, <3>3, <3>6, RescheduleLater
    <3>7. QED
      BY <3>5, <3>6
  <2>6. QED
    BY <2>4, <2>5
<1>7. QED
  BY <1>3, <1>4, <1>5, <1>6 DEF Disposed

\* A copy that is left when its job moves on makes a race.
LEMMA NoOldCopy ==
    ASSUME TInv, Known, ListInv, TimingInv, [HNext]_<<vars, history>>, NEW j \in JobIds,
           j \notin raced', Disposed(j), jobs'[j] # NoJob, jobs'[j].enabled, ~Kept(jobs'[j])
    PROVE  ~CopyInUse(j)
<1>1. jobs[j] # NoJob /\ jobs'[j].nextRun > now
  BY DisposedRow
<1>2. due # << >> /\ Job.id = j
  BY DEF Disposed, RemoveOneShot, DisableWrite, Reschedule, DisableRead, TInv, Busy
<1>3. PICK i \in DOMAIN due : due[i] = Job
  BY <1>2, CurrentJob
<1>4. j \notin raced
  BY NotRaced
<1>5. jobs[j].nextRun = Job.row.nextRun
  BY <1>1, <1>2, <1>3, <1>4 DEF TimingInv, SnapshotsFit, Timing
<1>6. Job.row.nextRun <= now
  BY <1>3 DEF ListInv, ListIsDue
<1>7. now \in Nat /\ Job.row.nextRun \in Nat
  <2>1. Job \in Snapshot
    BY <1>3 DEF TInv, TypeOK
  <2>2. QED
    BY <2>1, BoundsAssumption DEF Snapshot, Row, TInv, TypeOK, Time
<1>8. Timing(jobs'[j]) # Timing(jobs[j])
  BY <1>1, <1>5, <1>6, <1>7 DEF Timing
<1>9. QED
  BY <1>1, <1>8, NotRaced

-----------------------------------------------------------------------------
(* Once per due time *)

Ahead(F, n) == \A f \in F : f < n

\* The times a job has been run for lie behind, and none was before it was added.
FiredPast ==
    \A j \in JobIds : /\ j \notin used => fired[j] = {}
                      /\ \A f \in fired[j] : f \in Nat /\ f <= now

\* The next time of an enabled job that is not in hand, of a snapshot that is not yet
\* run, and of a row that is about to be written back, has not been run for.
AheadRows ==
    \A j \in Stored(jobs) \ raced :
        jobs[j].enabled /\ ~Kept(jobs[j]) /\ ~Ran(j) => Ahead(fired[j], jobs[j].nextRun)
AheadDue ==
    \A i \in DOMAIN due :
        LET j == due[i].id
        IN  j \notin raced /\ ~Kept(due[i].row) /\ ~Ran(j) =>
                Ahead(fired[j], due[i].row.nextRun)
AheadMerged ==
    \A c \in Clients :
        LET j == cli[c].id
        IN  /\ cli[c].stage = "merged" /\ j \notin raced
            /\ jobs[j] # NoJob /\ jobs[j].enabled /\ ~Kept(jobs[j]) /\ ~Ran(j)
            => Ahead(fired[j], cli[c].row.nextRun)

OnceDueInv == refired \subseteq raced /\ AheadRows /\ AheadDue /\ AheadMerged

\* The jobs whose run in this step is for a time they have been run for.
Again == {j \in JobIds : /\ Finished /\ Job.id = j /\ ~Kept(Job.row)
                         /\ Job.row.nextRun \in fired[j]}

\* What a step adds to the memory.
LEMMA RefiredStep ==
    [HNext]_<<vars, history>> => refired' \subseteq refired \cup Again /\ raced \subseteq raced'
BY DEF HNext, Remember, vars, history, Again

Forgotten(j) == Resumed(j) \/ Unsettled(j)

LEMMA FiredStep ==
    ASSUME [HNext]_<<vars, history>>, NEW j \in JobIds
    PROVE  /\ Forgotten(j) => fired'[j] = {}
           /\ ~Forgotten(j) /\ Finished /\ Job.id = j =>
                 fired'[j] = fired[j] \cup {Job.row.nextRun}
           /\ ~Forgotten(j) /\ ~(Finished /\ Job.id = j) => fired'[j] = fired[j]
<1>1. CASE HNext
  <2>1. fired' = [k \in JobIds |->
                    CASE Resumed(k) \/ Unsettled(k) -> {}
                      [] Finished /\ Job.id = k     -> fired[k] \cup {Job.row.nextRun}
                      [] OTHER                      -> fired[k]]
    BY <1>1 DEF HNext, Remember
  <2>2. Finished => ~Forgotten(j)
    <3>1. Finished => pc = "execute" /\ UNCHANGED jobs
      BY <1>1, FinishKeeps DEF HNext, Finished
    <3>2. QED
      BY <3>1 DEF Forgotten, Resumed, Unsettled
  <2>3. QED
    BY <2>1, <2>2 DEF Forgotten
<1>2. CASE UNCHANGED <<vars, history>>
  <2>1. fired' = fired /\ jobs' = jobs /\ pc' = pc /\ faults' = faults /\ crashes' = crashes
    BY <1>2 DEF vars, history
  <2>2. ~Forgotten(j) /\ ~Finished
    BY <2>1 DEF Forgotten, Resumed, Unsettled, Dropped, Finished
  <2>3. QED
    BY <2>1, <2>2
<1>3. QED
  BY <1>1, <1>2

\* The current job's time is not after now.
LEMMA JobIsDue ==
    ASSUME TInv, Known, ListInv, due # << >>
    PROVE  Job.row.nextRun \in Nat /\ Job.row.nextRun <= now /\ Job.id \in used
<1>1. PICK i \in DOMAIN due : due[i] = Job
  BY CurrentJob
<1>2. Job \in Snapshot
  BY <1>1 DEF TInv, TypeOK
<1>3. QED
  BY <1>1, <1>2, CurrentJob DEF ListInv, ListIsDue, Snapshot, Row

\* The execution that ends leaves its job in hand.
LEMMA FinishedRan ==
    ASSUME TInv, [Next]_vars, Finished
    PROVE  due # << >> /\ pc = "execute" /\ Ran(Job.id)' /\ Job' = Job
<1>1. pc = "execute" /\ pc' = "record" /\ UNCHANGED due
  BY FinishKeeps DEF Finished
<1>2. QED
  BY <1>1 DEF Ran, Job, TInv, Busy

LEMMA NextFiredPast ==
    TInv /\ Known /\ ListInv /\ FiredPast /\ [HNext]_<<vars, history>> => FiredPast'
<1> SUFFICES ASSUME TInv, Known, ListInv, FiredPast, [HNext]_<<vars, history>>, NEW j \in JobIds
             PROVE  /\ j \notin used' => fired'[j] = {}
                    /\ \A f \in fired'[j] : f \in Nat /\ f <= now'
  BY DEF FiredPast
<1>1. [Next]_vars /\ TypeOK
  BY DEF HNext, vars, TInv
<1>2. now \in Nat /\ now' \in Nat /\ now' >= now /\ used \subseteq used'
  BY <1>1, NowGrows, UsedGrows
<1>3. /\ j \notin used' => fired[j] = {}
      /\ \A f \in fired[j] : f \in Nat /\ f <= now'
  BY <1>2 DEF FiredPast
<1>4. CASE Forgotten(j)
  BY <1>4, FiredStep
<1>5. CASE ~Forgotten(j) /\ Finished /\ Job.id = j
  <2>1. fired'[j] = fired[j] \cup {Job.row.nextRun}
    BY <1>5, FiredStep
  <2>2. Job.row.nextRun \in Nat /\ Job.row.nextRun <= now' /\ j \in used'
    BY <1>1, <1>2, <1>5, FinishedRan, JobIsDue
  <2>3. QED
    BY <1>3, <2>1, <2>2
<1>6. CASE ~Forgotten(j) /\ ~(Finished /\ Job.id = j)
  BY <1>3, <1>6, FiredStep
<1>7. QED
  BY <1>4, <1>5, <1>6

\* What is ahead stays ahead until the job is run.
LEMMA AheadKept ==
    ASSUME TInv, [HNext]_<<vars, history>>, NEW j \in JobIds, NEW n,
           Ahead(fired[j], n), ~Ran(j)'
    PROVE  Ahead(fired'[j], n)
<1>1. [Next]_vars
  BY DEF HNext, vars
<1>2. ~(Finished /\ Job.id = j)
  BY <1>1, FinishedRan
<1>3. fired'[j] = {} \/ fired'[j] = fired[j]
  BY <1>2, FiredStep
<1>4. QED
  BY <1>3 DEF Ahead

\* What comes after now is ahead.
LEMMA LaterAhead ==
    ASSUME TInv, FiredPast, NEW j \in JobIds, NEW n \in Nat, n > now
    PROVE  Ahead(fired[j], n)
<1>1. now \in Nat
  BY BoundsAssumption DEF TInv, TypeOK, Time
<1>2. QED
  BY <1>1 DEF FiredPast, Ahead

OnceBase == TInv /\ Known /\ ListInv /\ TimingInv /\ FiredPast

LEMMA NextAheadRows ==
    ASSUME OnceBase, [HNext]_<<vars, history>>, AheadRows, AheadMerged
    PROVE  AheadRows'
<1> SUFFICES ASSUME NEW j \in JobIds, jobs'[j] # NoJob, j \notin raced',
                    jobs'[j].enabled, ~Kept(jobs'[j]), ~Ran(j)'
             PROVE  Ahead(fired'[j], jobs'[j].nextRun)
  BY DEF AheadRows, Stored
<1> USE DEF OnceBase
<1>1. [Next]_vars /\ j \notin raced
  BY NotRaced DEF HNext, vars
<1>2. jobs'[j].nextRun \in Nat
  <2>1. jobs'[j] \in Row
    BY <1>1, NextTInv DEF TInv, TypeOK
  <2>2. QED
    BY <2>1 DEF Row
<1>k. jobs[j] # NoJob => ~Kept(jobs[j])
  BY <1>1, KindStays DEF Known, Stored
<1>3. CASE Forgotten(j)
  BY <1>3, FiredStep DEF Ahead
<1>4. CASE ~Forgotten(j) /\ Ran(j)
  <2>1. Disposed(j)
    BY <1>1, <1>4, LetGo DEF Forgotten, Unsettled, Ran
  <2>2. jobs'[j].nextRun > now
    BY <2>1, DisposedRow
  <2>3. QED
    BY <1>2, <2>2, LaterAhead, AheadKept
<1>5. CASE ~Forgotten(j) /\ ~Ran(j)
  <2>0. jobs[j] # NoJob => jobs[j].enabled
    BY <1>5 DEF Forgotten, Resumed
  <2>1. CASE jobs[j] # NoJob /\ Core(jobs'[j]) = Core(jobs[j])
    <3>1. Ahead(fired[j], jobs[j].nextRun)
      BY <1>1, <1>k, <1>5, <2>0, <2>1 DEF AheadRows, Stored
    <3>2. QED
      BY <2>1, <3>1, AheadKept DEF Core
  <2>2. CASE \E c \in Clients : /\ cli[c].stage = "merged" /\ cli[c].id = j /\ jobs[j] # NoJob
                                /\ Core(jobs'[j]) = Core(cli[c].row)
    <3>1. PICK c \in Clients : /\ cli[c].stage = "merged" /\ cli[c].id = j /\ jobs[j] # NoJob
                               /\ Core(jobs'[j]) = Core(cli[c].row)
      BY <2>2
    <3>2. Ahead(fired[j], cli[c].row.nextRun)
      BY <1>1, <1>k, <1>5, <2>0, <3>1 DEF AheadMerged
    <3>3. QED
      BY <3>1, <3>2, AheadKept DEF Core
  <2>3. CASE j \notin used
    BY <2>3, AheadKept DEF FiredPast, Ahead
  <2>4. CASE pc \in {"dispose", "disable"} /\ Job.id = j
    BY <1>5, <2>4 DEF Ran
  <2>5. RowWritten(j)
    BY <1>1, RowWrittenTaken
  <2>6. QED
    BY <2>1, <2>2, <2>3, <2>4, <2>5 DEF RowWritten
<1>6. QED
  BY <1>3, <1>4, <1>5

LEMMA NextAheadDue ==
    ASSUME OnceBase, [HNext]_<<vars, history>>, AheadRows, AheadDue
    PROVE  AheadDue'
<1> USE DEF OnceBase
<1> SUFFICES ASSUME NEW i \in DOMAIN due', NEW j, j = due'[i].id, j \notin raced',
                    ~Kept(due'[i].row), ~Ran(j)'
             PROVE  Ahead(fired'[j], due'[i].row.nextRun)
  BY DEF AheadDue
<1>1. [Next]_vars
  BY DEF HNext, vars
<1>2. j \in JobIds
  <2>1. due' \in Seq(Snapshot)
    BY <1>1, NextTInv DEF TInv, TypeOK
  <2>2. due'[i] \in Snapshot
    BY <2>1
  <2>3. QED
    BY <2>2 DEF Snapshot
<1>3. j \notin raced
  BY <1>2, NotRaced
<1>4. CASE Poll
  <2>1. j \in Stored(jobs) /\ j \in DueSet(jobs, now) /\ due'[i].row = jobs[j]
    BY <1>4, PollTakes
  <2>2. ~Ran(j) /\ jobs[j].enabled
    BY <1>4, <2>1 DEF Poll, Ran, DueSet
  <2>3. QED
    BY <1>2, <1>3, <2>1, <2>2, AheadKept DEF AheadRows
<1>5. ASSUME NEW k \in DOMAIN due, due'[i] = due[k]
      PROVE  Ahead(fired'[j], due'[i].row.nextRun)
  <2>1. ~Ran(j)
    <3>1. SUFFICES ASSUME Ran(j) PROVE FALSE
      OBVIOUS
    <3>2. Disposed(j) \/ Dropped(j)
      BY <1>1, <1>2, <3>1, LetGo
    <3>3. Listed(j)'
      BY DEF Listed
    <3>4. QED
      BY <1>2, <3>2, <3>3, DisposedRow DEF Dropped
  <2>2. Ahead(fired[j], due[k].row.nextRun)
    BY <1>3, <1>5, <2>1 DEF AheadDue
  <2>3. QED
    BY <1>2, <1>5, <2>2, AheadKept
<1>6. CASE UNCHANGED due
  BY <1>5, <1>6
<1>7. CASE due # << >> /\ due' = Tail(due)
  BY <1>5, <1>7, CurrentJob
<1>8. CASE due' = << >>
  BY <1>8
<1>9. QED
  BY <1>1, <1>4, <1>6, <1>7, <1>8, DueStepTaken DEF DueStep

LEMMA NextAheadMerged ==
    ASSUME OnceBase, [HNext]_<<vars, history>>, AheadRows, AheadMerged
    PROVE  AheadMerged'
<1> USE DEF OnceBase
<1> SUFFICES ASSUME NEW c \in Clients, NEW j, j = cli'[c].id, cli'[c].stage = "merged",
                    j \notin raced', jobs'[j] # NoJob, jobs'[j].enabled, ~Kept(jobs'[j]),
                    ~Ran(j)'
             PROVE  Ahead(fired'[j], cli'[c].row.nextRun)
  BY DEF AheadMerged
<1>1. [Next]_vars
  BY DEF HNext, vars
<1>2. j \in JobIds /\ cli'[c].row \in Row
  <2>1. cli'[c] \in {AtRest} \cup Patched \cup Merged
    BY <1>1, NextTInv DEF TInv, TypeOK
  <2>2. QED
    BY <2>1 DEF AtRest, Patched, Merged
<1>3. j \notin raced /\ (jobs[j] # NoJob => ~Kept(jobs[j]))
  BY <1>1, <1>2, NotRaced, KindStays DEF Known, Stored
<1>4. CASE Forgotten(j)
  BY <1>2, <1>4, FiredStep DEF Ahead
<1>5. CASE jobs[j] = NoJob
  <2>1. j \notin used
    BY <1>1, <1>2, <1>5, RowWrittenTaken DEF RowWritten
  <2>2. Ahead(fired[j], cli'[c].row.nextRun)
    BY <1>2, <2>1 DEF FiredPast, Ahead
  <2>3. QED
    BY <1>2, <2>2, AheadKept
<1>6. CASE ~Forgotten(j) /\ Ran(j)
  <2>1. Disposed(j)
    BY <1>1, <1>2, <1>6, LetGo DEF Forgotten, Unsettled, Ran
  <2>2. ~CopyInUse(j)
    BY <1>2, <2>1, NoOldCopy
  <2>3. QED
    BY <2>2 DEF CopyInUse
<1>7. CASE ~Forgotten(j) /\ jobs[j] # NoJob /\ ~Ran(j)
  <2>0. jobs[j].enabled
    BY <1>7 DEF Forgotten, Resumed
  <2>1. CASE cli'[c] = cli[c]
    <3>1. Ahead(fired[j], cli[c].row.nextRun)
      BY <1>3, <1>7, <2>0, <2>1 DEF AheadMerged
    <3>2. QED
      BY <1>2, <2>1, <3>1, AheadKept
  <2>2. CASE j \in Stored(jobs) /\ Core(cli'[c].row) = Core(jobs[j])
    <3>1. Ahead(fired[j], jobs[j].nextRun)
      BY <1>3, <1>7, <2>0, <2>2 DEF AheadRows
    <3>2. QED
      BY <1>2, <2>2, <3>1, AheadKept DEF Core
  <2>3. CASE /\ cli[c].stage = "patched" /\ cli'[c].row.schedule = cli[c].schedule
             /\ cli'[c].row.schedule \in Schedule
             /\ cli'[c].row.nextRun \in NextRun(cli'[c].row.schedule, now)
    <3>1. cli'[c].row.schedule.kind = "cron"
      BY <2>3 DEF ListInv, PatchedKind
    <3>2. cli'[c].row.nextRun \in Nat /\ cli'[c].row.nextRun > now
      BY <2>3, <3>1, NextRunLater DEF TInv, TypeOK
    <3>3. QED
      BY <1>2, <3>2, LaterAhead, AheadKept
  <2>4. QED
    BY <1>1, <2>1, <2>2, <2>3, MergedTaken DEF MergedFrom
<1>8. QED
  BY <1>4, <1>5, <1>6, <1>7

LEMMA NextOnceDue ==
    OnceBase /\ OnceDueInv /\ [HNext]_<<vars, history>> => OnceDueInv'
<1> SUFFICES ASSUME OnceBase, OnceDueInv, [HNext]_<<vars, history>>
             PROVE  refired' \subseteq raced' /\ AheadRows' /\ AheadDue' /\ AheadMerged'
  BY DEF OnceDueInv
<1>1. [Next]_vars
  BY DEF HNext, vars
<1>2. refired \subseteq raced /\ AheadRows /\ AheadDue /\ AheadMerged
  BY DEF OnceDueInv
<1>3. ASSUME NEW j \in Again PROVE j \in raced
  <2>1. Finished /\ Job.id = j /\ ~Kept(Job.row) /\ Job.row.nextRun \in fired[j]
    BY DEF Again
  <2>2. due # << >> /\ pc = "execute"
    BY <1>1, <2>1, FinishedRan DEF OnceBase
  <2>3. PICK i \in DOMAIN due : due[i] = Job
    BY <2>2, CurrentJob DEF OnceBase
  <2>4. ~Ran(j)
    BY <2>2 DEF Ran
  <2>5. Job.row.nextRun \in Nat
    BY <2>2, JobIsDue DEF OnceBase
  <2>6. ~Ahead(fired[j], Job.row.nextRun)
    BY <2>1, <2>5 DEF Ahead
  <2>7. QED
    BY <1>2, <2>1, <2>3, <2>4, <2>6 DEF AheadDue
<1>4. refired' \subseteq raced'
  BY <1>2, <1>3, RefiredStep
<1>5. QED
  BY <1>2, <1>4, NextAheadRows, NextAheadDue, NextAheadMerged

LEMMA InitHistory ==
    HInit => TInv /\ Known /\ ListInv /\ TimingInv
<1> SUFFICES ASSUME HInit PROVE TInv /\ Known /\ ListInv /\ TimingInv
  OBVIOUS
<1>1. /\ Stored(jobs) = {} /\ due = << >> /\ pc = "poll"
      /\ \A c \in Clients : cli[c].stage = "rest"
  BY DEF HInit, Init, Stored, AtRest
<1>2. ListInv
  BY <1>1 DEF ListInv, ClientsKnown, MergedKind, PatchedKind, CopyKind, DueKind, ListIsDue,
     ListIsDone
<1>3. TimingInv
  BY <1>1 DEF TimingInv, RowsFit, MergedFit, CopyFits, SnapshotsFit
<1>4. QED
  BY <1>2, <1>3, InitTInv, InitKnown DEF HInit

\* A job is run at most once for each time it was due, but for an "at" job that is kept: for
\* any number of jobs, command lines, edits, lock failures and crashes, unless the
\* rescheduling or removal after its run was itself lost to one of them, or its timing was
\* changed beside another copy of the row.
THEOREM RunsOncePerDueTime ==
    HSpec => []OncePerDueTime
<1>1. HInit => OnceBase /\ OnceDueInv
  BY InitHistory DEF OnceBase, FiredPast, OnceDueInv, HInit, Init, HistoryInit, AheadRows,
     AheadDue, AheadMerged, Stored, AtRest
<1>2. [HNext]_<<vars, history>> => [Next]_vars
  BY DEF HNext, vars
<1>3. OnceBase /\ OnceDueInv /\ [HNext]_<<vars, history>> => (OnceBase /\ OnceDueInv)'
  BY <1>2, NextTInv, NextKnown, NextListInv, NextRowsFit, NextMergedFit, NextCopyFits,
     NextSnapshotsFit, NextFiredPast, NextOnceDue DEF OnceBase, TimingInv
<1>4. OnceDueInv => OncePerDueTime
  BY DEF OnceDueInv, OncePerDueTime
<1>5. QED
  BY <1>1, <1>3, <1>4, PTL DEF HSpec

-----------------------------------------------------------------------------
(* No overtaking *)

\* Of a pair <<j, k>> that is remembered, j is due, and k is still to be worked on, or
\* will not be selected before j: it is gone, disabled or due after j, and so is the
\* row that an update is about to write.
PassedDue == \A p \in passed : p[1] \in DueSet(jobs, now) /\ p[2] \in used
RowsBehind ==
    \A p \in passed :
        /\ p[2] \notin raced /\ ~Listed(p[2])
        /\ jobs[p[2]] # NoJob /\ jobs[p[2]].enabled /\ ~Kept(jobs[p[2]])
        => jobs[p[2]].nextRun > jobs[p[1]].nextRun
MergedBehind ==
    \A p \in passed, c \in Clients :
        /\ cli[c].stage = "merged" /\ cli[c].id = p[2]
        /\ p[2] \notin raced /\ ~Listed(p[2])
        /\ jobs[p[2]] # NoJob /\ jobs[p[2]].enabled /\ ~Kept(jobs[p[2]])
        => cli[c].row.nextRun > jobs[p[1]].nextRun

BehindInv == PassedDue /\ overtaken \subseteq raced /\ RowsBehind /\ MergedBehind

OvertakeBase == TInv /\ Known /\ ListInv /\ TimingInv

\* What is remembered of a step.
LEMMA PassedStep ==
    ASSUME PassedDue, [HNext]_<<vars, history>>, NEW p \in passed'
    PROVE  \/ p \in JobIds \X JobIds /\ p[1] \in DueSet(jobs', now') /\ Selected(p[2])
           \/ /\ p \in passed /\ p[1] \in DueSet(jobs', now')
              /\ ~Retimed(p[1]) /\ ~Resumed(p[2]) /\ ~Dropped(p[2])
<1>1. CASE HNext
  BY <1>1 DEF HNext, Remember, Passes
<1>2. CASE UNCHANGED <<vars, history>>
  <2>1. /\ p \in passed /\ jobs' = jobs /\ now' = now
        /\ faults' = faults /\ crashes' = crashes
    BY <1>2 DEF vars, history
  <2>2. ~Retimed(p[1]) /\ ~Resumed(p[2]) /\ ~Dropped(p[2])
    BY <2>1 DEF Retimed, Resumed, Dropped
  <2>3. p[1] \in DueSet(jobs', now')
    BY <2>1 DEF PassedDue
  <2>4. QED
    BY <2>1, <2>2, <2>3
<1>3. QED
  BY <1>1, <1>2

\* The jobs that are overtaken in this step.
Overtakes == {p[2] : p \in {q \in passed \cap Passes : ~Kept(jobs[q[2]])}}

LEMMA OvertakenStep ==
    [HNext]_<<vars, history>> => overtaken' \subseteq overtaken \cup Overtakes
BY DEF HNext, Remember, vars, history, Overtakes

\* A job that waits is due and keeps its time.
LEMMA WaiterStays ==
    ASSUME TInv, PassedDue, [HNext]_<<vars, history>>, NEW p \in passed,
           p[1] \in DueSet(jobs', now'), ~Retimed(p[1])
    PROVE  /\ p[1] \in JobIds /\ jobs[p[1]].nextRun \in Nat /\ jobs[p[1]].nextRun <= now
           /\ jobs'[p[1]].nextRun = jobs[p[1]].nextRun
<1> DEFINE j == p[1]
<1>1. /\ j \in JobIds /\ jobs[j] # NoJob /\ jobs[j].nextRun <= now
      /\ jobs'[j] # NoJob
  BY DEF PassedDue, DueSet, Stored
<1>2. jobs[j] \in Row
  BY <1>1 DEF TInv, TypeOK
<1>3. Timing(jobs'[j]) = Timing(jobs[j])
  BY <1>1 DEF Retimed
<1>4. QED
  BY <1>1, <1>2, <1>3 DEF Timing, Row

LEMMA SelectedListed ==
    ASSUME NEW j, Selected(j)
    PROVE  Listed(j)'
BY DEF Selected, Listed

\* The pairs that matter after a step were there before, both jobs with a row, the
\* second enabled all along.
LEMMA PairBefore ==
    ASSUME OvertakeBase, PassedDue, [HNext]_<<vars, history>>, NEW p \in passed',
           p[2] \notin raced', ~Listed(p[2])', jobs'[p[2]] # NoJob, jobs'[p[2]].enabled,
           ~Kept(jobs'[p[2]])
    PROVE  /\ p \in passed /\ p[2] \in JobIds /\ p[2] \in used /\ p[2] \notin raced
           /\ jobs[p[2]] # NoJob /\ jobs[p[2]].enabled /\ ~Kept(jobs[p[2]])
           /\ p[1] \in DueSet(jobs', now') /\ ~Retimed(p[1]) /\ ~Dropped(p[2])
<1> DEFINE k == p[2]
<1>1. /\ p \in passed /\ p[1] \in DueSet(jobs', now')
      /\ ~Retimed(p[1]) /\ ~Resumed(k) /\ ~Dropped(k)
  BY PassedStep, SelectedListed
<1>2. k \in used /\ k \in JobIds
  BY <1>1 DEF PassedDue, OvertakeBase, TInv, TypeOK
<1>3. k \notin raced
  BY <1>2, NotRaced
<1>4. jobs[k] # NoJob /\ ~Kept(jobs[k])
  <2>1. [Next]_vars
    BY DEF HNext, vars
  <2>2. QED
    BY <1>2, <2>1, KindStays DEF OvertakeBase
<1>5. jobs[k].enabled
  BY <1>1, <1>4 DEF Resumed
<1>6. QED
  BY <1>1, <1>2, <1>3, <1>4, <1>5

LEMMA NextRowsBehind ==
    ASSUME OvertakeBase, PassedDue, RowsBehind, MergedBehind,
           [HNext]_<<vars, history>>
    PROVE  RowsBehind'
<1> SUFFICES ASSUME NEW p \in passed', p[2] \notin raced', ~Listed(p[2])',
                    jobs'[p[2]] # NoJob, jobs'[p[2]].enabled, ~Kept(jobs'[p[2]])
             PROVE  jobs'[p[2]].nextRun > jobs'[p[1]].nextRun
  BY DEF RowsBehind
<1> USE DEF OvertakeBase
<1> DEFINE j == p[1]
           k == p[2]
<1>1. [Next]_vars
  BY DEF HNext, vars
<1>2. /\ p \in passed /\ k \in JobIds /\ k \in used /\ k \notin raced
      /\ jobs[k] # NoJob /\ jobs[k].enabled /\ ~Kept(jobs[k])
      /\ j \in DueSet(jobs', now') /\ ~Retimed(j) /\ ~Dropped(k)
  BY PairBefore
<1>3. /\ jobs[j].nextRun \in Nat /\ jobs[j].nextRun <= now
      /\ jobs'[j].nextRun = jobs[j].nextRun
  BY <1>2, WaiterStays
<1>4. now \in Nat /\ jobs'[k].nextRun \in Nat
  <2>1. jobs'[k] \in Row
    BY <1>1, <1>2, NextTInv DEF TInv, TypeOK
  <2>2. QED
    BY <1>1, <2>1, NowGrows DEF TInv, Row
<1>5. CASE Listed(k)
  <2>1. jobs'[k].nextRun > now
    BY <1>1, <1>2, <1>5, LetGo, DisposedRow
  <2>2. QED
    BY <1>3, <1>4, <2>1
<1>6. CASE ~Listed(k)
  <2>1. jobs[k].nextRun > jobs[j].nextRun
    BY <1>2, <1>6 DEF RowsBehind
  <2>2. CASE Core(jobs'[k]) = Core(jobs[k])
    BY <1>3, <2>1, <2>2 DEF Core
  <2>3. CASE \E c \in Clients : /\ cli[c].stage = "merged" /\ cli[c].id = k
                                /\ Core(jobs'[k]) = Core(cli[c].row)
    <3>1. PICK c \in Clients : /\ cli[c].stage = "merged" /\ cli[c].id = k
                               /\ Core(jobs'[k]) = Core(cli[c].row)
      BY <2>3
    <3>2. cli[c].row.nextRun > jobs[j].nextRun
      BY <1>2, <1>6, <3>1 DEF MergedBehind
    <3>3. QED
      BY <1>3, <3>1, <3>2 DEF Core
  <2>4. CASE pc \in {"dispose", "disable"} /\ Job.id = k
    <3>1. Ran(k)
      BY <2>4 DEF Ran
    <3>2. QED
      BY <1>6, <3>1, RanListed
  <2>5. RowWritten(k)
    BY <1>1, <1>2, RowWrittenTaken
  <2>6. QED
    BY <1>2, <2>2, <2>3, <2>4, <2>5 DEF RowWritten
<1>7. QED
  BY <1>5, <1>6

LEMMA NextMergedBehind ==
    ASSUME OvertakeBase, PassedDue, RowsBehind, MergedBehind,
           [HNext]_<<vars, history>>
    PROVE  MergedBehind'
<1> SUFFICES ASSUME NEW p \in passed', NEW c \in Clients,
                    cli'[c].stage = "merged", cli'[c].id = p[2],
                    p[2] \notin raced', ~Listed(p[2])',
                    jobs'[p[2]] # NoJob, jobs'[p[2]].enabled, ~Kept(jobs'[p[2]])
             PROVE  cli'[c].row.nextRun > jobs'[p[1]].nextRun
  BY DEF MergedBehind
<1> USE DEF OvertakeBase
<1> DEFINE j == p[1]
           k == p[2]
<1>1. [Next]_vars
  BY DEF HNext, vars
<1>2. /\ p \in passed /\ k \in JobIds /\ k \in used /\ k \notin raced
      /\ jobs[k] # NoJob /\ jobs[k].enabled /\ ~Kept(jobs[k])
      /\ j \in DueSet(jobs', now') /\ ~Retimed(j) /\ ~Dropped(k)
  BY PairBefore
<1>3. /\ jobs[j].nextRun \in Nat /\ jobs[j].nextRun <= now
      /\ jobs'[j].nextRun = jobs[j].nextRun
  BY <1>2, WaiterStays
<1>4. now \in Nat
  BY <1>1, NowGrows DEF TInv
<1>5. ~Listed(k)
  <2>1. SUFFICES ASSUME Listed(k) PROVE FALSE
    OBVIOUS
  <2>2. Disposed(k)
    BY <1>1, <1>2, <2>1, LetGo
  <2>3. ~CopyInUse(k)
    BY <1>2, <2>2, NoOldCopy
  <2>4. QED
    BY <2>3 DEF CopyInUse
<1>6. CASE cli'[c] = cli[c]
  <2>1. cli[c].row.nextRun > jobs[j].nextRun
    BY <1>2, <1>5, <1>6 DEF MergedBehind
  <2>2. QED
    BY <1>3, <1>6, <2>1
<1>7. CASE k \in Stored(jobs) /\ Core(cli'[c].row) = Core(jobs[k])
  <2>1. jobs[k].nextRun > jobs[j].nextRun
    BY <1>2, <1>5 DEF RowsBehind
  <2>2. QED
    BY <1>3, <1>7, <2>1 DEF Core
<1>8. CASE /\ cli[c].stage = "patched" /\ cli'[c].row.schedule = cli[c].schedule
           /\ cli'[c].row.schedule \in Schedule
           /\ cli'[c].row.nextRun \in NextRun(cli'[c].row.schedule, now)
  <2>1. cli'[c].row.schedule.kind = "cron"
    BY <1>8 DEF ListInv, PatchedKind
  <2>2. cli'[c].row.nextRun \in Nat /\ cli'[c].row.nextRun > now
    BY <1>8, <2>1, NextRunLater DEF TInv, TypeOK
  <2>3. QED
    BY <1>3, <1>4, <2>2
<1>9. QED
  BY <1>1, <1>6, <1>7, <1>8, MergedTaken DEF MergedFrom

LEMMA NextPassedDue ==
    ASSUME OvertakeBase, PassedDue, [HNext]_<<vars, history>>
    PROVE  PassedDue'
<1> SUFFICES ASSUME NEW p \in passed'
             PROVE  p[1] \in DueSet(jobs', now') /\ p[2] \in used'
  BY DEF PassedDue
<1>1. [Next]_vars
  BY DEF HNext, vars
<1>2. Known' /\ used \subseteq used'
  BY <1>1, NextKnown, UsedGrows DEF OvertakeBase
<1>3. CASE p[1] \in DueSet(jobs', now') /\ Selected(p[2])
  BY <1>2, <1>3, SelectedListed DEF Listed, Known
<1>4. CASE p \in passed /\ p[1] \in DueSet(jobs', now')
  BY <1>2, <1>4 DEF PassedDue
<1>5. QED
  BY <1>3, <1>4, PassedStep

\* Who is selected first does not come after who is not selected.
LEMMA NobodyOvertakes ==
    ASSUME OvertakeBase, RowsBehind, [Next]_vars, NEW k \in Overtakes
    PROVE  k \in raced
<1> USE DEF OvertakeBase
<1>1. PICK p \in passed \cap Passes : k = p[2] /\ ~Kept(jobs[k])
  BY DEF Overtakes
<1> DEFINE j == p[1]
<1>2. j \in DueSet(jobs, now) /\ ~Selected(j) /\ Selected(k)
  BY <1>1 DEF Passes
<1>3. pc = "poll" /\ due = << >> /\ Listed(k)' /\ ~Listed(j)'
  BY <1>2 DEF Selected, Listed, ListInv, ListIsDone
<1>4. Poll
  <2>1. due' # << >>
    BY <1>3 DEF Listed
  <2>2. QED
    BY <1>3, <2>1, DueStepTaken DEF DueStep
<1>5. PICK i \in DOMAIN due' : due'[i].id = k
  BY <1>3 DEF Listed
<1>6. k \in Stored(jobs) /\ k \in DueSet(jobs, now)
  BY <1>4, <1>5, PollTakes
<1>7. jobs[k].nextRun <= jobs[j].nextRun
  BY <1>2, <1>3, <1>4, <1>5, PollTakes DEF Listed
<1>8. jobs[k].nextRun \in Nat /\ jobs[j].nextRun \in Nat
  <2>1. jobs[k] \in Row /\ jobs[j] \in Row
    BY <1>2, <1>6 DEF DueSet, Stored, TInv, TypeOK
  <2>2. QED
    BY <2>1 DEF Row
<1>9. ~Listed(k) /\ jobs[k] # NoJob /\ jobs[k].enabled
  BY <1>3, <1>6 DEF Listed, Stored, DueSet
<1>10. QED
  BY <1>1, <1>7, <1>8, <1>9 DEF RowsBehind

LEMMA NextBehind ==
    OvertakeBase /\ BehindInv /\ [HNext]_<<vars, history>> => BehindInv'
<1> SUFFICES ASSUME OvertakeBase, BehindInv, [HNext]_<<vars, history>> PROVE BehindInv'
  OBVIOUS
<1>1. [Next]_vars
  BY DEF HNext, vars
<1>2. PassedDue'
  BY NextPassedDue DEF BehindInv
<1>3. overtaken' \subseteq raced'
  BY <1>1, NobodyOvertakes, OvertakenStep, RefiredStep DEF BehindInv
<1>4. RowsBehind' /\ MergedBehind'
  BY NextRowsBehind, NextMergedBehind DEF BehindInv
<1>5. QED
  BY <1>2, <1>3, <1>4 DEF BehindInv

\* Whatever max_tasks is, no job but a kept "at" job is selected a second time ahead of one
\* and the same due job, since its next time lies after now; once more only after a failure
\* or crash kept the scheduler from moving it on.
THEOREM NoneIsOvertakenTwice ==
    HSpec => []BoundedOvertaking
<1>1. HInit => OvertakeBase /\ BehindInv
  BY InitHistory DEF OvertakeBase, BehindInv, HInit, HistoryInit, PassedDue, RowsBehind,
     MergedBehind
<1>2. [HNext]_<<vars, history>> => [Next]_vars
  BY DEF HNext, vars
<1>3. OvertakeBase /\ BehindInv /\ [HNext]_<<vars, history>> => (OvertakeBase /\ BehindInv)'
  BY <1>2, NextTInv, NextKnown, NextListInv, NextRowsFit, NextMergedFit, NextCopyFits,
     NextSnapshotsFit, NextBehind DEF OvertakeBase, TimingInv
<1>4. BehindInv => BoundedOvertaking
  BY DEF BehindInv, BoundedOvertaking
<1>5. QED
  BY <1>1, <1>3, <1>4, PTL DEF HSpec
=============================================================================
