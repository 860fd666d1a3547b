------------------------------- MODULE Daemon -------------------------------
(***************************************************************************)
(* The daemon (src/src/daemon/daemon.cpp): DaemonRunner's own thread, one  *)
(* thread per ComponentSupervisor, the StateWriter's thread, and the       *)
(* caller that may call shutdown at any time.  They share atomic flags,    *)
(* the health registry, and, without a lock, the vector of supervisors     *)
(* and the state writer's std::thread.                                     *)
(*                                                                         *)
(* Waiting is without time: a wait_for may time out at any moment, which   *)
(* covers a notification that comes and one that is missed.  A component   *)
(* returns, with success or failure, or never does.                        *)
(***************************************************************************)
EXTENDS Health, Sequences, FiniteSets

CONSTANTS
    Order,           \* the components in the order run_internal starts them
    Enabled,         \* those the configuration enables
    Reported,        \* those marked ok when they are not enabled
    SelfReporting,   \* those that mark their own health while they run (heartbeat)
    DaemonName,      \* the registry's name of the daemon itself
    InitialBackoff, MaxBackoff,
    MayShutdown,     \* whether the caller may call shutdown
    MayFail          \* whether starting a thread or creating a directory may throw

Components == {Order[i] : i \in 1..Len(Order)}

ASSUME DaemonAssumption ==
    /\ Order \in Seq(Names \ {DaemonName})
    /\ \A i, k \in 1..Len(Order) : Order[i] = Order[k] => i = k
    /\ DaemonName \in Names
    /\ InitialBackoff \in Nat \ {0}
    /\ MaxBackoff \in Nat /\ MaxBackoff >= InitialBackoff
    /\ MayShutdown \in BOOLEAN /\ MayFail \in BOOLEAN

VARIABLES
    alive,     \* the process
    reg,       \* the health registry
    runner,    \* where run_internal is
    next,      \* the position in Order it has come to
    result,    \* what its promise holds
    stopping,  \* shutdown_requested_ and ~running_
    caller,    \* where shutdown is
    pushed,    \* the components whose supervisors are in supervisors_
    sup,       \* per component: where its supervisor's thread is
    aborted,   \* per component: aborted_
    backoff,   \* per component: backoff
    told,      \* history: the components abort() was called for
    late,      \* history, per component: launches after an abort, see Abort
    writer,    \* where the state writer's thread is
    writerRunning \* running_ of the state writer

rvars == <<runner, next, result>>
svars == <<sup, aborted, backoff, told, late>>
wvars == <<writer, writerRunning>>
vars  == <<alive, reg, rvars, stopping, caller, pushed, svars, wvars>>

SupervisorStates == {"none", "created", "check", "launch", "running", "bump", "waiting", "ended"}

\* The process, the runner and its caller
FlowType ==
    /\ alive \in BOOLEAN
    /\ reg \in Registry
    /\ runner \in {"create writer", "flag writer", "start writer", "push", "start", "loop",
                   "abort", "join", "stop writer", "join writer", "done"}
    /\ next \in 1..Len(Order) + 1
    /\ result \in {"none", "ok", "failed"}
    /\ stopping \in BOOLEAN
    /\ caller \in {"idle", "abort", "stop writer", "join writer", "join runner",
                   "finished", "threw"}

\* The threads they start
ThreadsType ==
    /\ pushed \subseteq Components
    /\ sup \in [Components -> SupervisorStates]
    /\ aborted \in [Components -> BOOLEAN]
    /\ backoff \in [Components -> InitialBackoff..MaxBackoff]
    /\ told \subseteq Components
    /\ late \in [Components -> {0, 1, 2}]
    /\ writer \in {"none", "created", "waiting", "ended", "joined"}
    /\ writerRunning \in BOOLEAN

TypeOK == FlowType /\ ThreadsType

Init ==
    /\ alive = TRUE
    /\ reg = [c \in Names |-> NoEntry]
    /\ runner = "create writer" /\ next = 1 /\ result = "none"
    /\ stopping = FALSE
    /\ caller = "idle"
    /\ pushed = {}
    /\ sup = [c \in Components |-> "none"]
    /\ aborted = [c \in Components |-> FALSE]
    /\ backoff = [c \in Components |-> InitialBackoff]
    /\ told = {}
    /\ late = [c \in Components |-> 0]
    /\ writer = "none" /\ writerRunning = FALSE

-----------------------------------------------------------------------------
(* ComponentSupervisor::abort, of several supervisors.  start() sets its flag back,
   so a supervisor may have been told to end and have forgotten it. *)

Forgot(c) == c \in told /\ ~aborted[c]

\* Launches are counted from the last abort that was not forgotten when it came.
Abort(S) ==
    /\ aborted' = [c \in Components |-> aborted[c] \/ c \in S]
    /\ told' = told \cup S
    /\ late' = [c \in Components |-> IF c \in S /\ Forgot(c) THEN 0 ELSE late[c]]

-----------------------------------------------------------------------------
(* DaemonRunner::run_internal *)

\* An exception ends run_internal; what was started goes on.
Fail ==
    /\ runner' = "done" /\ result' = "failed"
    /\ UNCHANGED <<next, pushed, svars>>

CreateWriter ==
    /\ runner = "create writer"
    /\ reg' = MarkOk(reg, DaemonName)
    /\ writer' = "created"
    /\ runner' = "flag writer"
    /\ UNCHANGED <<alive, next, result, stopping, caller, pushed, svars, writerRunning>>

\* StateWriter::start sets running_, also when a stop has already cleared it...
FlagWriter ==
    /\ runner = "flag writer"
    /\ writerRunning' = TRUE
    /\ runner' = "start writer"
    /\ UNCHANGED <<alive, reg, next, result, stopping, caller, pushed, svars, writer>>

\* ... and then creates the directory and the thread.
StartWriter ==
    /\ runner = "start writer"
    /\ \/ /\ writer' = "waiting"
          /\ runner' = "push"
          /\ UNCHANGED <<next, result, pushed, svars>>
       \/ MayFail /\ Fail /\ UNCHANGED writer
    /\ UNCHANGED <<alive, reg, stopping, caller, writerRunning>>

\* push_back of a supervisor that is not started yet
Push ==
    /\ runner = "push" /\ next <= Len(Order)
    /\ LET c == Order[next] IN
          IF c \in Enabled
          THEN /\ pushed' = pushed \cup {c}
               /\ sup' = [sup EXCEPT ![c] = "created"]
               /\ runner' = "start"
               /\ UNCHANGED <<reg, next>>
          ELSE /\ reg' = IF c \in Reported THEN MarkOk(reg, c) ELSE reg
               /\ next' = next + 1
               /\ UNCHANGED <<pushed, sup, runner>>
    /\ UNCHANGED <<alive, result, stopping, caller, aborted, backoff, told, late, wvars>>

\* ComponentSupervisor::start
StartSupervisor ==
    /\ runner = "start"
    /\ LET c == Order[next] IN
       \/ /\ aborted' = [aborted EXCEPT ![c] = FALSE]
          /\ sup' = [sup EXCEPT ![c] = "check"]
          /\ next' = next + 1
          /\ runner' = "push"
          /\ UNCHANGED <<result, pushed, backoff, told, late>>
       \/ MayFail /\ Fail
    /\ UNCHANGED <<alive, reg, stopping, caller, wvars>>

Started ==
    /\ runner = "push" /\ next > Len(Order)
    /\ runner' = "loop"
    /\ UNCHANGED <<alive, reg, next, result, stopping, caller, pushed, svars, wvars>>

\* The 100 ms loop ends, and "daemon" is marked as shut down.
LeaveLoop ==
    /\ runner = "loop" /\ stopping
    /\ reg' = MarkError(reg, DaemonName)
    /\ runner' = "abort"
    /\ UNCHANGED <<alive, next, result, stopping, caller, pushed, svars, wvars>>

\* Mutant: the runner relies on the caller's aborts.
AbortAllNot ==
    /\ runner = "abort"
    /\ runner' = "join"
    /\ UNCHANGED <<alive, reg, next, result, stopping, caller, pushed, svars, wvars>>

AbortAll ==
    /\ runner = "abort"
    /\ Abort(pushed)
    /\ runner' = "join"
    /\ UNCHANGED <<alive, reg, next, result, stopping, caller, pushed, sup, backoff, wvars>>

AllEnded == \A c \in pushed : sup[c] \in {"created", "ended"}

\* Mutant: the threads of the supervisors are not joined.
JoinSupervisorsNot ==
    /\ runner = "join"
    /\ runner' = "stop writer"
    /\ UNCHANGED <<alive, reg, next, result, stopping, caller, pushed, svars, wvars>>

JoinSupervisors ==
    /\ runner = "join" /\ AllEnded
    /\ runner' = "stop writer"
    /\ UNCHANGED <<alive, reg, next, result, stopping, caller, pushed, svars, wvars>>

\* thread_.joinable() of the state writer
Joinable == writer \in {"waiting", "ended"}

\* StateWriter::stop, up to the look at joinable()
RunnerStopsWriter ==
    /\ runner = "stop writer"
    /\ writerRunning' = FALSE
    /\ IF Joinable
       THEN runner' = "join writer" /\ UNCHANGED result
       ELSE runner' = "done" /\ result' = "ok"
    /\ UNCHANGED <<alive, reg, next, stopping, caller, pushed, svars, writer>>

\* A join of a thread the other one has joined in between may throw.
RunnerJoinsWriter ==
    /\ runner = "join writer"
    /\ writer \in {"ended", "joined"}
    /\ writer' = "joined"
    /\ runner' = "done"
    /\ result' \in {"ok"} \cup (IF writer = "joined" THEN {"failed"} ELSE {})
    /\ UNCHANGED <<alive, reg, next, stopping, caller, pushed, svars, writerRunning>>

Runner ==
    \/ CreateWriter \/ FlagWriter \/ StartWriter \/ Push \/ StartSupervisor \/ Started \/ LeaveLoop
    \/ AbortAll \/ JoinSupervisors \/ RunnerStopsWriter \/ RunnerJoinsWriter

-----------------------------------------------------------------------------
(* DaemonRunner::shutdown *)

Shutdown ==
    /\ MayShutdown /\ caller = "idle"
    /\ stopping' = TRUE
    /\ caller' = "abort"
    /\ UNCHANGED <<alive, reg, rvars, pushed, svars, wvars>>

\* While run_internal still pushes, this loop over supervisors_ is a data race: it
\* reaches any of them, or the process crashes.
CallerAborts ==
    /\ caller = "abort"
    /\ \E reached \in IF runner \in {"push", "start"} THEN SUBSET pushed ELSE {pushed} :
          Abort(reached)
    /\ alive' \in {TRUE} \cup (IF runner \in {"push", "start"} THEN {FALSE} ELSE {})
    /\ caller' = "stop writer"
    /\ UNCHANGED <<reg, rvars, stopping, pushed, sup, backoff, wvars>>

\* The state writer may not have been created or started yet; its thread_, while it
\* is being started, is read in a race that may crash.
CallerStopsWriter ==
    /\ caller = "stop writer"
    /\ writerRunning' = (writerRunning /\ writer = "none")
    /\ caller' = IF Joinable THEN "join writer" ELSE "join runner"
    /\ alive' \in {TRUE} \cup (IF runner = "start writer" THEN {FALSE} ELSE {})
    /\ UNCHANGED <<reg, rvars, stopping, pushed, svars, writer>>

CallerJoinsWriter ==
    /\ caller = "join writer"
    /\ writer \in {"ended", "joined"}
    /\ writer' = "joined"
    /\ caller' \in {"join runner"} \cup (IF writer = "joined" THEN {"threw"} ELSE {})
    /\ UNCHANGED <<alive, reg, rvars, stopping, pushed, svars, writerRunning>>

\* The runner's thread is joined, then the supervisors are stopped once more and
\* joined: they need not have been when run_internal ended by an exception.
CallerAbortsAgain ==
    /\ caller = "join runner" /\ runner = "done"
    /\ \E c \in pushed : ~aborted[c]
    /\ Abort(pushed)
    /\ UNCHANGED <<alive, reg, rvars, stopping, caller, pushed, sup, backoff, wvars>>

CallerFinishes ==
    /\ caller = "join runner" /\ runner = "done"
    /\ \A c \in pushed : aborted[c]
    /\ AllEnded
    /\ caller' = "finished"
    /\ pushed' = {}
    /\ UNCHANGED <<alive, reg, rvars, stopping, svars, wvars>>

Caller == CallerAborts \/ CallerStopsWriter \/ CallerJoinsWriter
          \/ CallerAbortsAgain \/ CallerFinishes

-----------------------------------------------------------------------------
(* ComponentSupervisor::supervisor_loop *)

\* Mutant: the loop's condition without aborted_.
CheckAlways(c) ==
    /\ sup[c] = "check"
    /\ sup' = [sup EXCEPT ![c] = "launch"]
    /\ UNCHANGED <<alive, reg, rvars, stopping, caller, pushed, aborted, backoff, told, late,
                   wvars>>

Check(c) ==
    /\ sup[c] = "check"
    /\ sup' = [sup EXCEPT ![c] = IF aborted[c] THEN "ended" ELSE "launch"]
    /\ UNCHANGED <<alive, reg, rvars, stopping, caller, pushed, aborted, backoff, told, late,
                   wvars>>

Launch(c) ==
    /\ sup[c] = "launch"
    /\ reg' = MarkOk(reg, c)
    /\ sup' = [sup EXCEPT ![c] = "running"]
    /\ late' = [late EXCEPT ![c] = IF c \in told /\ @ < 2 THEN @ + 1 ELSE @]
    /\ UNCHANGED <<alive, rvars, stopping, caller, pushed, aborted, backoff, told, wvars>>

\* std::async cannot start a thread: nothing catches it in the supervisor's thread.
LaunchFails(c) ==
    /\ MayFail
    /\ sup[c] = "launch"
    /\ reg' = MarkOk(reg, c)
    /\ alive' = FALSE
    /\ UNCHANGED <<rvars, stopping, caller, pushed, svars, wvars>>

\* heartbeat marks its own health after each task
MarksItself(c) ==
    /\ sup[c] = "running" /\ c \in SelfReporting
    /\ reg' \in {MarkOk(reg, c), MarkError(reg, c)}
    /\ UNCHANGED <<alive, rvars, stopping, caller, pushed, svars, wvars>>

\* Mutant: a component that succeeded is not reported.
ReturnsUnreported(c) ==
    /\ sup[c] = "running"
    /\ \E success \in BOOLEAN :
          /\ reg' = IF success THEN reg ELSE MarkError(reg, c)
          /\ backoff' = [backoff EXCEPT ![c] = IF success THEN InitialBackoff ELSE @]
    /\ sup' = [sup EXCEPT ![c] = "bump"]
    /\ UNCHANGED <<alive, rvars, stopping, caller, pushed, aborted, told, late, wvars>>

Returns(c) ==
    /\ sup[c] = "running"
    /\ reg' = MarkError(reg, c)
    /\ \E success \in BOOLEAN :
          backoff' = [backoff EXCEPT ![c] = IF success THEN InitialBackoff ELSE @]
    /\ sup' = [sup EXCEPT ![c] = "bump"]
    /\ UNCHANGED <<alive, rvars, stopping, caller, pushed, aborted, told, late, wvars>>

Bump(c) ==
    /\ sup[c] = "bump"
    /\ reg' = BumpRestart(reg, c)
    /\ sup' = [sup EXCEPT ![c] = "waiting"]
    /\ UNCHANGED <<alive, rvars, stopping, caller, pushed, aborted, backoff, told, late, wvars>>

\* Mutant: the backoff is not bounded.
WakeUnbounded(c) ==
    /\ sup[c] = "waiting"
    /\ backoff' = [backoff EXCEPT ![c] = 2 * @]
    /\ sup' = [sup EXCEPT ![c] = "check"]
    /\ UNCHANGED <<alive, reg, rvars, stopping, caller, pushed, aborted, told, late, wvars>>

\* The wait ends, by notification or timeout, and the backoff doubles.
Wake(c) ==
    /\ sup[c] = "waiting"
    /\ backoff' = [backoff EXCEPT ![c] = IF 2 * @ < MaxBackoff THEN 2 * @ ELSE MaxBackoff]
    /\ sup' = [sup EXCEPT ![c] = "check"]
    /\ UNCHANGED <<alive, reg, rvars, stopping, caller, pushed, aborted, told, late, wvars>>

SupervisorStep(c) == Check(c) \/ Launch(c) \/ Bump(c) \/ Wake(c)
Supervisor(c) == SupervisorStep(c) \/ LaunchFails(c) \/ MarksItself(c) \/ Returns(c)

-----------------------------------------------------------------------------
(* StateWriter::writer_loop *)

WriterEnds ==
    /\ writer = "waiting" /\ ~writerRunning
    /\ writer' = "ended"
    /\ UNCHANGED <<alive, reg, rvars, stopping, caller, pushed, svars, writerRunning>>

\* Every five seconds; the file it writes is left out.
Flush ==
    /\ writer = "waiting" /\ writerRunning
    /\ alive' = ~SnapshotFatal(reg)
    /\ UNCHANGED <<reg, rvars, stopping, caller, pushed, svars, wvars>>

-----------------------------------------------------------------------------

Next ==
    /\ alive
    /\ \/ Runner \/ Shutdown \/ Caller
       \/ \E c \in Components : Supervisor(c)
       \/ WriterEnds \/ Flush

Spec == Init /\ [][Next]_vars

\* Every thread that can go on does.  A component need not return, the caller need
\* not call shutdown, and no flush is relied on.
Fairness ==
    /\ WF_vars(alive /\ Runner)
    /\ WF_vars(alive /\ Caller)
    /\ \A c \in Components : WF_vars(alive /\ SupervisorStep(c))
    /\ WF_vars(alive /\ WriterEnds)

FairSpec == Spec /\ Fairness

-----------------------------------------------------------------------------
(* Properties *)

\* When the promise says the daemon has stopped, no supervisor's thread is left.
StoppedMeansEnded ==
    result = "ok" => \A c \in Components : sup[c] \in {"none", "ended"}

\* A component whose run has ended is not shown as healthy until it is launched
\* again, whatever it reported of itself.
EndedShownDown ==
    \A c \in Components :
        sup[c] \in {"bump", "waiting"} => reg[c].status = "error"

\* From the runner's own abort of all of them to the end of its thread
AbortedAll == runner \in {"join", "stop writer", "join writer"} \/ result = "ok"

\* A supervisor that abort() was called for launches its component at most once
\* more.  The one exception: shutdown's abort came before start() set the flag back.
\* Such a component goes on being launched, but no longer than until the runner's
\* own abort; from there on at most once more.
LaunchedOnceAfterAbort ==
    \A c \in Components : late[c] > 1 => Forgot(c) /\ ~AbortedAll

\* shutdown returns, unless a component never returns (or a race kills it): the
\* abort that start() undoes and the join of both threads included.
ShutdownReturns ==
    \/ caller = "abort" ~> (caller \in {"finished", "threw"} \/ ~alive)
    \/ \E c \in Components : <>[](sup[c] = "running")

\* "Start the long-running autonomous daemon" (main.cpp:57): nobody shuts it down,
\* and it runs.
StaysUp == alive
=============================================================================
