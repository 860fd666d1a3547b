# A TLA+ model of ZeroClaw++

ZeroClaw++ (`src/`) is a C++17 agent runtime: an agent loop over LLM providers
and tools, a gateway, channels, a daemon that supervises them, a cron scheduler,
and the security machinery around tool calls. This directory holds TLA+ modules
that model parts of it, TLC configurations that check them on small instances,
and TLAPS proofs. The repository has no tests of its own; the source, its
comments and `src/README.md` are the reference. Paths below are relative to
`src/src/` unless they say otherwise.

## The system

| component | state | operations | interacts with | hard because |
|---|---|---|---|---|
| cron store (`cron/store.cpp`) | tables `cron_jobs`, `cron_runs` in `cron/jobs.db` | add, get, update, remove, due, reschedule, record | scheduler, command line (two processes, SQLite locks) | every function is several autocommit statements; no busy timeout |
| cron scheduler (`cron/scheduler.cpp`) | the snapshots of one poll | poll, execute with retries, record, dispose | store, shell | works on copies that go stale; swallows failures; crashes |
| cron command line (`cron/cron.cpp`) | a row read and not yet written | add, add-at, add-every, once, remove, pause, resume, update | store | read and write are two transactions |
| cron expressions (`cron/schedule.cpp`) | broken-down time, loop counter | parse fields, next run | store, command line | jumps over months, days, hours; two day fields |
| daemon (`daemon/daemon.cpp`) | supervisors, state writer, flags | start, abort, stop, run, shutdown | health, gateway, channels, heartbeat, scheduler | threads, condition variables, joins on components that never return |
| health (`health/health.cpp`) | registry of component records | mark ok, mark error, bump restart, snapshot | daemon, doctor | absent values in snapshots |
| auth (`auth/auth.cpp`, `auth/profiles.cpp`) | profile file, per-instance mutex and backoffs | load, store, remove, activate, refresh | providers, OAuth servers, a second process | every operation is a load and a later save; refresh tokens are used once; a lock file that locks nothing |
| heartbeat (`heartbeat/engine.cpp`) | run flag, task file | run, stop, tick | daemon | stop against a waiting loop |
| emergency stop (`security/estop.cpp`), OTP (`security/otp.cpp`) | stop levels, state file, codes accepted before | engage, resume, load | a command line of every process | state changed before it is persisted; a cache of codes |
| pairing (`security/pairing.cpp`) | code, tokens, failed attempts | pair, authenticate | gateway | lockout table and its sweep, concurrent attempts |
| policy (`security/policy.*`), approval (`approval/`) | action tracker, session allowlist | command and path checks, rate limit, decide | tools, agent | check and act are two steps |
| gateway (`gateway/`) | rate-limit windows, idempotency keys | allow, record, serve | agent, pairing | bounded tables with eviction |
| cost (`cost/tracker.hpp`) | usage log, cached totals | check budget, record usage, summary | agent | check and act; period rollover |
| agent (`agent/`) | history, tool results | turn, trim, compact | provider, tools, memory | tool call and result must stay paired |
| memory (`memory/`) | entries per backend, response cache | store, recall, forget, prune, evict | agent | embedding outside the lock, hygiene deletes, cache eviction |
| SOP (`sop/engine.cpp`) | the steps of one run | execute, confirm, skip, fail | a callback that confirms | what a refused or failed step means for the rest |
| providers (`providers/`) | none between calls | chat with retries and fallback | agent | retry, fallback order |
| hooks, channels, observability | handlers, listeners, metrics | dispatch | agent, daemon | ordering, exceptions that are swallowed |
| config, tools, http, doctor, onboard, integrations, hardware, peripherals, runtime, tunnel, service, skills, skillforge, rag, util | little or none | parsing, single calls to OS and network, printing | | not modelled |

What makes each correct:

- Cron store: a run belongs to a job, the history stays within its bound, a removed
  job stays removed, whatever two processes do.
- Cron scheduler: every due job is served, once per due time, in the order of the
  due times; a one-shot runs once; an execution ends.
- Cron command line: an update changes what it was asked to and nothing else.
- Cron expressions: the next run matches, lies after the start, and nothing that
  matches lies between.
- Daemon: no thread is left after a stop; an aborted component is not launched again;
  `shutdown` returns. Health: a component that ended shows as down.
- Auth: an active profile exists; a token handed out is good for longer than the skew;
  a rotated refresh token is not lost; an operation changes its own profile only.
- Heartbeat: `stop` ends the loop; a tick runs every task of its file.
- Emergency stop: a stop that was engaged holds, across restarts, until an authorised
  resume; a code authorises for a bounded time only.
- Pairing: one code pairs once; a locked-out client stays so for the whole time.
- Policy, approval: no more actions in a window than allowed; "always" for one tool
  lets no other through.
- Gateway: no more than the limit in any window; one key is served once.
- Cost: no request goes over a budget that had been checked; totals are those of the log.
- Agent: history sent to a provider starts with the system prompt and keeps a call with
  its result; a turn ends.
- Memory: what is recalled was stored and not forgotten; the purge deletes nothing young.
- SOP: steps run in order, none after a failure. A refused step is skipped and the run
  still ends as completed.
- Providers: each provider is tried in order, each a bounded number of times.
- Hooks: in order of priority, a cancelled event goes no further.

`PROJECT.json` lists the components with their status, and under `hazards` what
in this code a test would hardly reach, each at its line.

## The plan

Order, most important first; each entry is one component module, an MC module or
`.cfg` files, and, where a theorem is worth it, a `_proofs` module.

1. **Cron** (done): `CronStore`, `CronScheduler`, `CronHistory`; `NextMatch`, what a search
   for the next run promises, and `CronSearch`, which implements it.
   It is the only part of the program with persistent state shared by two
   processes, failures that are swallowed and crash recovery.
2. **Daemon** (done): `Health`, `Daemon`: supervisors, backoff, condition variables,
   state writer, start and shutdown. Liveness of shutdown.
3. **Auth** (done): `AuthProfiles`, `AuthService`: the profile file and the refresh of
   access tokens by threads and processes.
4. **Security state** (done): `StopSwitch`, `Estop`, `Otp`: an abstract switch that only a
   resume opens, implemented by the emergency stop. `Pairing`; `ActionBudget`, the part of
   the policy that has state.
5. **Limits** (done): `Gateway`, the rate limiter and the idempotency store; `CostTracker`.
6. **Agent** (done): `Agent`, the turn, its history and the retries of the reliable
   provider. `Services` puts 4 to 6 beside each other.

Considered and left out: approval, the heartbeat's own loop, the SOP engine, memory and its
response cache, hooks and channels (the reasons are under "Not modelled"). An abstract
specification of cron, "each due time is served", was planned as a refinement. It is
stated directly instead, as `OncePerDueTime` (at most once, proved) and `DueJobServed`
(at least once, checked): the exceptions that lock failures and stale copies make would
have made up most of the abstract module.

Theorems: the types and every safety property of each component, as the runs check them; the
refinements of the emergency stop and of the cron search; that the services
together do what each does alone. Liveness is left to the runs.

## Cron

### Modules

`CronStore` holds the two tables and one operator per SQL statement, from the
tables before to the tables after. Functions of the store open a connection and
run their statements without a transaction, so a statement is the unit of
atomicity. A row keeps `schedule`, `command`, `enabled`, `delete_after_run`,
`next_run` and `last_status`; name, prompt, model, delivery, time zone and the
other columns are carried along by the code and decide nothing (the time zone
is stored and never used: the search computes in UTC). An agent job has the
empty command. Ties of `ORDER BY next_run` come in any order.

`CronScheduler` is the state machine. `pc` and `due` are the scheduler thread:
`Poll` takes the snapshots, then each job goes through `execute`, `record`,
`prune`, `dispose` (and `disable`). `ExecuteRefused`, `ExecuteSucceeds` and
`ExecuteFails` are the outcomes of one attempt. Every statement has a twin that
fails (`PollFails`, `RecordFails`, `PruneFails`, `DisposeFails`, `UpdateFails`):
the store sets no busy timeout, so a lock held by the other process is an error,
which the code reports, logs or swallows. `Crash` drops the thread's state and
`Restart` starts over. `cli[c]` is a command line in the middle of an update:
`UpdateSchedule` (handle_command's own read), `UpdateRead` (update_job's read
and merge), `UpdateWrite` (all columns back). Additions and removals are one
statement. Operations that fail without effect (an unknown id, an addition that
meets a lock) change nothing and are left out.

`CronHistory` extends it with variables that remember what was run
(`fired`, `won`), what was run again (`refired`, `rewon`), which rows were
changed while a copy of them was in use (`raced`), and who went ahead of whom
(`passed`, `overtaken`).

`NextMatch` is what a search promises: the answer is the first wanted minute from a
given one on, and none of the next `Patience` minutes is wanted when it gives up.
`CronSearch` is `next_run_from_cron_fields`, one action per branch of its loop; all of
its jumps are stutters of `NextMatch`.
The calendar (`gmtime_r`, `timegm`) is a parameter with the assumption that
months, days and hours are intervals of minutes. `MCCronSearch` gives a small
one: hours of 3 minutes, days of 2 hours, weeks of 3 days, months of 2 and 3
days. `CronScheduler` relies on its result through `CronNextAssumption`: the next
run lies after the time searched from.

### What the runs show

| run | shows |
|---|---|
| `CronSafety` | two command lines against the scheduler, agent jobs kept and not, a lock failure anywhere, two due jobs and `max_tasks` 1: types, no run without its job, a removed job stays removed, a job runs once per due time, a one-shot succeeds once, none is overtaken twice by the same job, the stored time fits the stored schedule. The exceptions are part of the properties and are all there are: the `raced` rows (a stale copy of `update_job` or of the scheduler was in use), the kept `at` jobs, and the job whose run or removal a failure took with it |
| `CronLive` | a lock failure and a crash anywhere: every due job is served, every execution ends, the history exceeds `max_run_history` only by prunes that were lost |
| `CronSearch` | the search over 1200 combinations of field shapes and 48 start times: implements `NextMatch`, skips nothing, gives up only after its bound |
| `CronHang` | finding: the timeout of a command is never looked at while the command is silent |

A one-shot whose removal is lost to a lock, or to a crash after its run, runs again:
`OneShotOnce` lets it, once for each such loss. The search never returns `from` itself,
although the comment at `cron/schedule.cpp:78` says it may: `FindsNextMatch` starts at
`First`, the first whole minute after `from`.

Bounds. `MaxTime` 2 lets a job fire, be moved on and fire again; `MaxEdits`
2 or 3 is an addition with an update and a removal around it; `MaxFaults` and, in `CronLive`,
`MaxCrashes` 1 put one failure at any statement. The properties of `CronSafety` also hold on
larger instances that take longer than a run should: a failure and a crash together, with
one command line, two expressions and three edits (4.9 million states), and with two
command lines and one expression (2.8 million); `MaxRunHistory` 1 makes the prune bite at the
second run; `MaxTasks` 1 with two jobs makes the limit bite. `Retries`
0 or 1. In `CronSearch` `MaxIterations` 8 is reached by expressions that match
nothing; `Last` lies far enough that no search meets the end of the calendar
first.

Fairness (`CronLive`, `CronHang`). The scheduler thread is never stopped
(`DaemonRunner` supervises it and its loop has no exit), so some step of it is
taken when one is enabled; a killed daemon is started again; a command line
finishes the update it began. Nothing is assumed of the commands but that they
end (`Hanging` is empty in `CronLive`; with a command that does not end the
execution does not end either, `CronHang`). Clock ticks and failures are not
fair.

Simplifications. One daemon per workspace; a clock that does not go back; ids
are never reused (UUIDs). A row that another program wrote and that cannot be
parsed is not modelled. An agent job with an `at` schedule that is kept is rescheduled to
the same past time for ever, and is due at every poll (a hazard in `PROJECT.json`); only
a caller of the library can make one. `CronSafety` has such jobs, `CronLive` does not.

### What is proved

`CronScheduler_proofs`: for any number of jobs, command lines, retries, lock
failures and crashes,
`TypeCorrect`, `NoOrphanRuns`, `HistoryStaysBounded`, `RemovalIsFinal`.
The inductive invariant of these is `TypeOK`, with `Busy` (in the middle of a job there is
a current job, and a copy while it is being disabled: needed because the actions
take the head of `due`), with `RunsBelongToJobs` and `HistoryBounded` themselves.
`TablesStepTaken` sorts the steps by what they do to the tables (rows kept, one
inserted under a fresh id, one deleted with its runs, a run inserted, runs
pruned), and the three properties follow from that and from lemmas about the
store's operators. Assumptions: finitely many ids, the absent row is no row, and
`CronNextAssumption`.

The four properties of `CronHistory` are theorems too. The invariant of each says what the
rows, the snapshots and the rows about to be written may hold, through failures and crashes:

- `OneShotsSucceedOnce`: a one-shot that has succeeded, and whose removal was not lost, is
  gone or is the job in hand (`OnceInv`; `HandLetsGo` goes through the ways it leaves the
  hand). This needs `Known`: an id is handed out before it is stored or
  selected, and the snapshots of one poll are of distinct jobs.
- `StoredTimesFit`: a row, a row about to be written and a snapshot have a next run that
  fits their schedule (`TimingInv`), unless the row is one of the `raced`.
- `RunsOncePerDueTime`: what a job was run for lies before the next run of its row, of
  its snapshots and of a row about to be written (`OnceDueInv`), unless the row is `raced`. It
  rests on `ListInv`: what is on the list was due, and all copies of a row agree with it in
  whether it recurs and whether it is deleted after its run.
- `NoneIsOvertakenTwice`: if k went before j while j was due, then k is on the list, gone,
  disabled, or due after j, until j is served (`BehindInv`).

The last two leave out the kept `at` jobs (`Kept`, in the properties themselves), for which
`RescheduleLater` does not hold. A failure takes at most the job in hand off the list
(`FailureDrops`), and the history forgets of it what was not disposed of, so the
invariants survive it. All assume also that the next run of a schedule is
determined (`CronNextOne`).

`CronSearch_proofs`: `SearchSkipsNothing`, `SearchGivesUpLate` and `SearchKeepsPromise`, the
refinement, for every calendar that satisfies `Calendar`, every expression and every
start. The invariant adds `Reached` (how far `iter` iterations have come at least:
each goes forward by a minute or more) and `ResultMatches`. Under it every step of
the search is a step of `NextMatch` or a stutter (`PromiseSteps`): what is found is the only
match up to it, since nothing was skipped before (`FoundIsNext`), and a search that gives
up has passed `MaxIterations` minutes without one (`NoneWanted`). `TypeCorrect` says that the
broken-down time stays within the calendar.

Only model-checked: the liveness properties `DueJobServed` and `ExecutionEnds`
(fairness is out of the prover's reach).

## Daemon

### Modules

`Health` holds the registry's operations. Each takes the registry's mutex once, so
each is one step. Of an entry's times and error text only their presence is kept,
and `SnapshotFatal` says when `snapshot_json` meets an absent one.

`Daemon` is the threads of `daemon/daemon.cpp`. `runner` walks through
`run_internal`: the state writer (`CreateWriter`, `FlagWriter`, `StartWriter`), the
components in order (`Push`, `StartSupervisor`), the main loop, then `AbortAll`,
`JoinSupervisors` and the writer's stop. An exception (no thread, no directory) ends
it at `Fail` and leaves what was started. `caller` walks through `shutdown`, which
may be called at any moment; nothing locks `supervisors_` or the writer's
`std::thread`, so `CallerAborts` during the start reaches any part of the vector or
crashes, and both threads may join the writer's. `sup[c]` walks through
`supervisor_loop`. A wait may end at any time, which covers both a timeout and a
notification; that also covers one that is missed, since no `notify_all` here is
made under the mutex of its wait. A component returns, fails, or never returns; the
heartbeat marks its own health from its own thread. `start` clears `aborted_`, so an
abort between `push_back` and `start` is forgotten (`Forgot`: `told` has it, `aborted` has
not) until `AbortAll` makes up for it. `late` counts the launches of a component after it
was told to end, whether or not it still knows; an abort of one that forgot counts anew.

The program itself never calls `shutdown` while it runs (`main.cpp:206` waits on the
future); it is the class's interface, and the destructor's.

### What the runs show

| run | shows |
|---|---|
| `Daemon` | a gateway and a heartbeat, channels disabled, shutdown and failures at any moment: no supervisor is left after a clean stop, an ended component is shown as down; a component that was told to end is launched at most once more, or, if `start` made it forget, at most once more after the runner's own abort (`LaunchedOnceAfterAbort`); `shutdown` returns unless a component never does (the gateway, for one, listens for ever) or a race kills the process |
| `DaemonFlush` | finding: the first flush of the state writer ends the process, since the entry of a component marked ok has no `last_error` |

Every flush within reach of the code is fatal until every component has had both an
ok and an error; the run therefore also follows the behaviours in which the
flush has not come yet (it comes after five seconds).

Bounds. Two enabled components and a disabled one show every order of start, abort
and join; `MaxBackoff` 3 with `InitialBackoff` 1 cuts the second doubling; restart
counts saturate at `MaxRestarts` 1 (nothing reads them).

Fairness (`Daemon`). Each thread that can go on does (weak fairness per
supervisor, of the runner, the caller and the writer): they are operating system
threads. Nothing is assumed of a component's return.

### What is proved

`Daemon_proofs`, for any components in any order, any backoff bounds and any of the
caller's interleavings: `TypeCorrect`, `StopJoinsAll`, `AbortIsHeeded`, `DownIsShown`.
None of the three properties is inductive. `IInv` adds `Placed` (a supervisor exists
only from its turn on and is in `supervisors_` while the runner needs it), `Created`
(one without a thread is the one being started, or was left by a failure; without
it the join could pass one that starts later), `Joined` (the state from the join
on) and `LateOnce` (a supervisor that knows of its abort has at most the launch it had
looked at the flag for; `start` clears the flag only before the first launch). Assumption: the components are distinct and
none is the daemon's own name. `ShutdownReturns` is only model-checked.

## Auth

### Modules

`AuthProfiles` is the profile file as data: one operator per change an operation of
`AuthProfilesStore` makes between its load and its save, and `Selected`, the profile a
request means. An access token is the time until which its provider honours it; the
file's `expires` starts as the same time and may part from it, since a time is written
in UTC and read as local time (`Shift`, the distance from UTC). A token whose provider
sent no positive `expires_in` has no `expires` (`dated` is false). A refresh token is a
number in order of issue, 0 for none.

`AuthService` is the state machine. An actor is a thread that calls an instance of the
class, in its own process or another's. `StoreTokens`, `StoreToken`, `RemoveProfile`,
`ClearActive`, `CheckActive` with `SetActive` load the file and change their `copy`;
`Save` puts it in place, `SaveTruncated` puts half of it in place (the stream is not
checked before the rename), `SaveFails` does not get that far. What a load may find is
`Loads`: the file, no profiles at all if the file exists and cannot be opened, and nothing
but an exception if it cannot be parsed (`Finds` counts that as no profiles, for an
operation that looks for one). A refresh takes the
instance's mutex in `FirstLook`, loads again in `Reload`, asks the provider
(`RefreshSucceeds`, with a time of expiry or without, `RefreshFails`), loads once more in
`Update` and saves. `Crash` kills
a process. The provider is external: it keeps a refresh token valid or rotates it and
then refuses the old one.

`AuthHistory` adds `stranded`, the refresh tokens that were rotated and whose successor was
lost, because the answer did not arrive (`RefreshFails`) or was not saved (`Interrupted`:
the save failed, the process ended, or the load before the save found no profile).

Simplifications. The lock file has no state: `acquire_lock` opens it for truncation,
which succeeds whether or not it is there, so it never excludes anyone (the violation
`AuthLostUpdate` shows what follows). The last resort of
the selection is any profile of the provider, not the first by name.
`get_profile` and `get_provider_bearer_token` only read and have no action. Two savers
whose temporary files have the same name (a hash of the thread's id) are not modelled.

### What the runs show

| run | shows |
|---|---|
| `AuthSafety` | two processes, every operation, failing saves, crashes, east of Greenwich: types, an active profile exists, answers are fresh |
| `AuthRefresh` | three threads of one process refresh two profiles: with failing saves, lost answers and ends of the process: no rotated token is lost but by a failure of its own refresh, and no refresh changes the other profile, since the mutex is held from the first look to the save |
| `AuthLostUpdate` | finding: two threads, and a save undoes what the other stored |
| `AuthDrift` | finding: west of Greenwich an expired token is returned as good |

Bounds. `MaxOps` 3 or 4 operations: a store, a second actor's store or removal, and a
refresh between them. `MaxTime` 2, and 1 in `AuthRefresh`, with `Life` and `Skew` as in
each `.cfg` lets a token be fresh, inside the skew and, but there, expired. `Shift` is one unit either way: only its sign
matters to the properties. The runs stop at the bounds, hence `CHECK_DEADLOCK FALSE`.
No fairness is assumed and no liveness stated: a caller of the class need not call again.

Exceptions. A token without a time of expiry is never expiring (`auth/profiles.cpp:55`), so
it is never refreshed and is returned for ever: `AnswersAreFresh` claims nothing of it,
and without that condition `AuthSafety` fails. A store or a `clear_active_profile` whose
load could not open the file saves the one change over all that was in it;
`WritesOnlyItsOwn` is claimed of refreshes alone, which save only a profile they have
found.

### What is proved

`AuthService_proofs`, for any actors, instances, files, failures and crashes:
`TypeCorrect`; `ActiveAlwaysExists`, `ActiveExists` with the same of every `copy` that will
be saved (`DataStep` shows that each copy is the file, or no profiles, as one operation
changes it); and `AnswersStayFresh` under `Shift <= 0`, from `Modest`: no file, copy or
profile in hand with a time of expiry promises more than its provider does. `AuthDrift` shows that the assumption is needed.
`WritesStayApart` and `RotationsAreKept` are the two properties of `AuthRefresh`, for any
number of threads, profiles and failures, in the case in which they hold (`Alone`): one
instance, and refreshes only, since the other operations do not take the mutex. The first
takes `Shift = 0`, the second that no two profiles start with the same refresh token. The
invariant is about the holder of the mutex (`SerialInv`, `TokenInv`): what it has loaded is
what the file holds, the token it has sent is the file's until the save, and the one it
was given is good and no other profile's. A profile that is found, in a load that may find
none, is the file's (`FoundThere`). Threads outside the mutex have no copy to save.
So a failure leaves a spent token in the file only where the profile's own refresh was
in hand, and that one is `stranded`.

## Emergency stop and one-time passwords

### Modules

`StopSwitch` is the promise: the levels a start would find in force, `held`, fall only by
their own resume, once every running manager knows of them (`Kept`). `lifted` are the levels
that go with the next save of some manager: their resume was authorised and not saved, or
another manager engaged them (not with a `Single` one). `call` is the request served last: without it a level that
is dropped by a start could pass for a resume.

`Estop` is `EstopManager`, one per process (`loaded`, `mem`). `Engage`, `Resume` and
`LoadClosed` change the memory and then write all of it, with three outcomes
(`PersistState`): stored; cut short and renamed into place, since the stream is not
checked; not stored, an exception after the change. `EngageInvalid` is a list with an
invalid name in it: those before it are in memory and not written. A file that cannot
be parsed stops everything (`LoadClosed`). A resume is checked by the process's validator.

`Otp` is `OtpValidator`: the secret, read or made and written (`ReadSecret`, `MakeSecret`,
`WriteSecret`), and `validate`. Nobody looks at the write of the secret (`Written`): it may
not happen, leave an empty or undecodable file (`Garbled`: every later start throws), or
cut the secret short so that its beginning passes for a secret (`CutShort`). `shown` are
the secrets whose uri was returned, `unshown` those a process wrote and did not live to
show. The key file that `SecretStore` decrypts with is taken to stay as it is. A code stands for the counter it was computed for; the
cache of accepted codes has its expiry. `Otp` has no `Next`: `Estop` joins its actions.

Nothing in the program calls either class yet; they are modelled by their interface.

### What the runs show

| run | shows |
|---|---|
| `Estop` | one process, writes that fail or are cut short, wrong codes, ends at any moment: `KeepsStopped` (it implements `StopSwitch`), `CodeLifetime`, `SecretWasShown` |

`SecretWasShown`: the secret of a validator that is up was shown to a user, and with one
process it is the one shown last. Its two exceptions are what the code really does: it takes
a secret that its own write cut short, and one that a process wrote and did not live to
show. Without either the run fails.

Bounds. One tool beside the two fixed levels (domains are treated the same, a list of them
adds nothing but time); `MaxTime` 9 with `Step` 2 and
`CacheValid` 1 outlasts the life of the code, and reaches its window from before; `MaxSecrets` 2 is a secret made again
after an end. No fairness is assumed: nothing has to happen. `KeepsStopped` also holds of two
processes (with `RequireOtp` false and the clock and the secrets left out, 41,515 states;
with them the instance is too large for a run), which the theorem says of any number.

With two processes the one that loaded first writes its own memory over what the other
engaged, so an engaged level is in force for certain only when all have loaded or
engaged it; nothing in the program keeps a second manager away. A damaged file is stood in for by `kill_all` alone: who then
resumes `kill_all` has resumed all that was in it (`Damaged`). If the secret's file is cut
short no validator can be made again and, with `require_otp_to_resume`, nothing resumed.

### What is proved

`Estop_proofs`: `TypeCorrect`, `CodesExpire` and `StopsAreKept` for any processes,
and `SecretsAreShown`, whatever becomes of the writes (of several processes it says that
each one's secret was shown, but not that it is the last one: two may make one at the
same time). `CodesExpire` rests on `CacheBounded`, the lifetime of a cache
entry: true when the window lets a code in (`WindowBounds`, by division with remainder),
kept by a hit, which does not touch the entry. `StopsAreKept` maps every step to one of
`StopSwitch` or a stutter, with `Persisted` for the three outcomes of a write; what is in
force and not `lifted` is in the memory of every manager (`KeptSays`), so whoever saves
writes it again (`SavedKeeps`).

## Services

### Modules

The objects in memory that the threads of one process share: each is behind its own mutex,
and each decides in one call what it counts or uses in another. `Callers` is the threads and
the clock. No object reaches another, so `Services` lets a behaviour exercise one of them,
its `subject`: the states to check are then the sum of theirs and not their product.

`Gateway` is `SlidingWindowRateLimiter` and `IdempotencyStore`. A call reads the clock
(`ReadClock`) before it takes the mutex, so the reading that decides may be older than the
table. `Allow`, `Refuse`, `RecordNew` and `Duplicate` are whole calls with their sweep and
eviction. `lag` remembers the oldest reading that decided a call.

`Pairing` is `try_pair` in its three critical sections: the lockout (`CheckLockout`), the
code (`MatchCode`, `MissCode`), the count of the failure (`CountFailure`, with the sweep of
the table and the reset of an expired lock). `misses` and `epoch` number each
client's failures since its count last began anew.

`ActionBudget` is the action tracker as the shell and file_read tools use it:
`is_rate_limited`, then the validation (`Disallowed`), then `record_action`, which
counts the action whether or not it fits (`Act`, `Exhausted`).

`CostTracker` is `check_budget` (`WithinBudget`, `LookAtTotals`), a usage dated when it is made
(`Use`), and `record_usage`: the line, the cache brought up to date, the cost added
(`Record`). Of the log it keeps what a read of it adds up to, per day and per month. A line may be lost, the file may not open (`RecordThrows`), or not be read again
(`RecordUnread`). The clock counts days.

`Agent` is `Agent::turn` and its history as a sequence of message kinds, with the retries of
`ReliableProvider` for the provider. Provider, tools and memory may throw, which ends
the turn where it is.

Who uses them: the tools use the action tracker and `main` the agent. The
gateway's two classes and `CostTracker` have no caller yet, of
`PairingGuard` none but the authentication of a request, and nothing calls the factory of
`ReliableProvider`; these are modelled by their interface. `enforce_tool_operation`
(`security/policy.cpp:697-719`) only records, without the check of `is_rate_limited`, and
nobody calls it: with a caller `AttemptsBounded` would not hold.

### What the run shows

| run | shows |
|---|---|
| `Services` | each service alone, two threads, any interleaving and any delay between the halves of a call: the limits hold up to a slack that is named, and the slack is as small as the code makes it |

- `WithinLimit`, `FreshOnce`: the window and the lifetime of a key are shorter by the age of
  the oldest reading that decided a call (`lag`), and an evicted key starts afresh.
- `GuessesBounded`: a locked client gets one more guess per other thread that was past the
  lockout's check. `LockHolds`: no sweep and no other failure lifts a lock early. The
  table is not bounded by `MAX_TRACKED_CLIENTS`: entries without a lock
  survive the sweep.
- `ActionsWithinBudget`: the count at the record, not the check, is what bounds the actions.
  `AttemptsBounded`: refused actions keep later ones out, but only so many.
- `OverspendBounded`: a day's lines exceed its limit by one usage per thread at most.
  `TotalsCoverLog`: the cached totals of day and month miss no line that can be read, and
  exceed the log by one usage at most, the first after midnight, which is counted
  twice when it brought the cache up to date (`cost/tracker.hpp:287-309`).
- `HistoryPaired`: a result is separated from its call only where a trim has cut the
  history between the two, or a tool has thrown. `CurrentUserKept`: with room for a turn's
  iterations no trim drops the message that is to be answered. `TurnEnds`.

Bounds. Two threads make every race of the halves of two calls; three keys against `MaxKeys`
2 make the eviction bite; `MaxTime` 4 outlasts every window and lifetime (2) twice, and
`SweepEvery` 3 comes between. `MaxAttempts` 2 with `MaxTracked` 1 makes the lock and the
sweep bite. `MaxActions` 2, `DailyLimit` 1 and `MonthlyLimit` 3 with costs of 1 and 2 are
passed by two threads at once, and `MonthLength` 2 lets a month end. `MaxHistory` 7 is
exactly the room of `MaxIterations` 3. The bounds on entries, failures, records and usages
are beyond what the limits let through. Each slack is needed: without `lag`, or with
`GuessesBounded`, `AttemptsBounded` or `OverspendBounded` less by one, or without `MaxCost` in
either part of `TotalsCoverLog`, the run fails. The clock and the bounds stop the run,
hence `CHECK_DEADLOCK FALSE`.

Fairness: a turn that asks the provider goes on (`AgentGoesOn`), since its requests have
timeouts (`http/http_client.cpp:178-180`). A tool need not return: the shell tool, like the
scheduler, looks at its timeout only after `fgets` has returned and then waits in `pclose`
(`tools/shell.cpp:126-147`), so a silent command that does not end holds the turn for ever.
`TurnEnds` has this one exception, which the run contains: a turn ends unless it stays in
its tools. Nothing else has to happen.

### What is proved

For any number of threads, keys, clients, actions and delays, of each service's own
specification:

- `Limits_proofs`, the gateway: `LimiterTypeCorrect`, `LimitHolds`, `NewOnlyOnce`. What was
  granted is still in the table or a window old by the clock (`GrantsAreTracked`,
  `FreshAreSeen`), since a call removes only what is too old for its reading, which is not
  later than the clock; and a call counts from a reading at most `lag` behind the clock.
- The budget: `BudgetHolds` (what was carried out is recorded or an hour old),
  `AttemptsHold` (the attempts of the hour and the threads on their way grow together only
  by a check, which had room).
- Pairing: `PairingTypeCorrect`, `LocksHold`, `GuessesHold` (when the lock
  comes the threads that count after it have passed the check already; the failures of
  a stretch as long as the lockout are of one run of the count, numbered apart, and map
  injectively to the numbers up to the bound).
- The costs: `CostTypeCorrect`, `TotalsHold`, `OverspendHolds`, from `CostInv`: nothing is dated
  after today (`CostParts`), so a day that begins has no lines; the totals cover the log,
  and a cache that is rebuilt covers it without slack; the lines of a day and one usage
  for each thread that may still add to it (`Adding`) stay within the bound, since a
  thread joins these only by a check, which read a total that misses no line.
- `Agent_proofs`: `AgentTypeCorrect`, `HistoryStaysPaired`, `UserStays`. A trim drops a front
  of the history, and an iteration adds three messages at most.
- `Services_proofs`: all of it holds of `Services`. A step of one service is for another the
  clock's step or no step (`EachSteps`), so a behaviour of them together is one of each
  (`EachAlone`, `GatewayAlone`), and has its properties (`ServicesTypeCorrect`,
  `GatewayHolds`, `ServicesHold`).

Only model-checked: `TurnEnds` (liveness).

## Not modelled

Most lines of the repository are vendored (SQLite, OpenSSL's headers, json, httplib, CLI11)
and are not its logic. Of its own code, the components with status `not_modelled` in
`PROJECT.json` are left out for these reasons:

- Approval: a set of names that grows under one mutex; nothing calls it.
- Heartbeat: the daemon uses `collect_tasks` alone, which reads a file. Nothing calls the
  engine's `run` and `stop`; `Daemon` has it as a component.
- SOP engine: one loop over the steps of one run, sequential, whose steps are stubs.
- Memory: each operation is one or two statements under one mutex, or a call of a
  service; what they return is SQLite's work. Nothing calls the response cache.
- Hooks: nothing calls the runner. Channels: polling, conversion and printing; the dispatch
  is a call of the agent. Observability: counters and log lines.
- Configuration, tools, HTTP client, diagnostics, onboarding, integrations, hardware,
  runtime, tunnel, service, skills, RAG: parsing, single calls to the operating
  system or the network, static tables, stubs and wrappers.

Of the parts modelled in part: the policy's checks of commands and paths, and the parsing of
tool calls, are string analysis without state; the gateway's start configures the
HTTP library; `agent/loop_.cpp` builds an agent and feeds it lines; the other providers
build requests and parse answers.
