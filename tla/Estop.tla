------------------------------- MODULE Estop --------------------------------
(***************************************************************************)
(* EstopManager (src/src/security/estop.cpp), one per process, over one    *)
(* state file.  A manager reads the file when it is loaded and never       *)
(* again; every engage and resume changes its memory and then writes all   *)
(* of it (persist_state).                                                  *)
(***************************************************************************)
EXTENDS Otp

CONSTANTS
    Domains, Tools,  \* what DomainBlock and ToolFreeze name
    RequireOtp,      \* require_otp_to_resume
    MayFail          \* whether persist_state may fail

ASSUME EstopAssumption == {"kill_all", "network_kill"} \cap (Domains \cup Tools) = {}

VARIABLES
    stateFile,  \* the levels in the state file, {} without one
    readable,   \* whether it can be parsed
    loaded,     \* the processes that have a manager
    mem,        \* per process: state_
    call        \* the last request a manager served

evars == <<stateFile, readable, loaded, mem, call>>
vars  == <<ovars, evars>>

KillAll == "kill_all"
Levels == {KillAll, "network_kill"} \cup Domains \cup Tools

\* What one engage or resume is about
Selections == {{KillAll}, {"network_kill"}} \cup (SUBSET Domains) \cup (SUBSET Tools)

Requests == [op : {"none", "start", "engage", "resume"}, levels : SUBSET Levels]

TypeOK ==
    /\ OtpType
    /\ stateFile \subseteq Levels
    /\ readable \in BOOLEAN
    /\ loaded \subseteq Processes
    /\ mem \in [Processes -> SUBSET Levels]
    /\ call \in Requests

Init ==
    /\ OtpInit
    /\ stateFile = {} /\ readable = TRUE
    /\ loaded = {}
    /\ mem = [p \in Processes |-> {}]
    /\ call = [op |-> "none", levels |-> {}]

Serve(op, S) == call' = [op |-> op, levels |-> S]

-----------------------------------------------------------------------------
(* persist_state, of the memory after the change *)

Stored(p) == stateFile' = mem'[p] /\ readable' = TRUE

\* The write is cut short, nobody looks, and the rename puts its result in place.
Truncated == MayFail /\ stateFile' = {} /\ readable' = FALSE

\* The file cannot be opened or renamed: an exception after the change in memory.
NotStored == MayFail /\ UNCHANGED <<stateFile, readable>>

PersistState(p) == Stored(p) \/ Truncated \/ NotStored

-----------------------------------------------------------------------------
(* load *)

Load(p) ==
    /\ p \notin loaded /\ readable
    /\ loaded' = loaded \cup {p}
    /\ mem' = [mem EXCEPT ![p] = stateFile]
    /\ Serve("start", {})
    /\ UNCHANGED <<ovars, stateFile, readable>>

\* load as it would be if it took a file it cannot parse for no file.
LoadOpen(p) ==
    /\ p \notin loaded /\ ~readable
    /\ loaded' = loaded \cup {p}
    /\ mem' = [mem EXCEPT ![p] = {}]
    /\ PersistState(p)
    /\ Serve("start", {})
    /\ UNCHANGED ovars

\* A file that cannot be parsed: fail_closed, and an attempt to store that.
LoadClosed(p) ==
    /\ p \notin loaded /\ ~readable
    /\ loaded' = loaded \cup {p}
    /\ mem' = [mem EXCEPT ![p] = {KillAll}]
    /\ PersistState(p)
    /\ Serve("start", {})
    /\ UNCHANGED ovars

-----------------------------------------------------------------------------
(* engage *)

Engage(p, S) ==
    /\ p \in loaded
    /\ mem' = [mem EXCEPT ![p] = @ \cup S]
    /\ PersistState(p)
    /\ Serve("engage", S)
    /\ UNCHANGED <<ovars, loaded>>

\* A domain pattern or a tool name is invalid: those before it are in memory by then.
EngageInvalid(p, S) ==
    /\ p \in loaded
    /\ S \subseteq Domains \/ S \subseteq Tools
    /\ mem' = [mem EXCEPT ![p] = @ \cup S]
    /\ Serve("engage", S)
    /\ UNCHANGED <<ovars, stateFile, readable, loaded>>

-----------------------------------------------------------------------------
(* resume *)

\* ensure_resume_is_authorized lets the request pass.
Authorised(p) ==
    IF RequireOtp
    THEN /\ otp[p] = "up"
         /\ \E c \in Counters : Accepts(p, c) /\ cache' = [cache EXCEPT ![p] = CacheAfter(p, c)]
    ELSE UNCHANGED cache

Resume(p, S) ==
    /\ p \in loaded
    /\ Authorised(p)
    /\ mem' = [mem EXCEPT ![p] = @ \ S]
    /\ PersistState(p)
    /\ Serve("resume", S)
    /\ UNCHANGED <<clock, secretFile, made, otp, secret, hvars, loaded>>

\* A tool name is invalid: the code is used, nothing is changed.
ResumeInvalid(p) ==
    /\ p \in loaded
    /\ Authorised(p)
    /\ UNCHANGED <<clock, secretFile, made, otp, secret, hvars, evars>>

\* A wrong code; without a code or a validator nothing happens at all.
ResumeRefused(p) ==
    /\ p \in loaded
    /\ RequireOtp /\ otp[p] = "up"
    /\ cache' = [cache EXCEPT ![p] = Swept(p)]
    /\ UNCHANGED <<clock, secretFile, made, otp, secret, hvars, evars>>

-----------------------------------------------------------------------------

\* The process ends or is killed.
Exit(p) ==
    /\ p \in loaded \/ otp[p] # "none"
    /\ OtpEnds(p)
    /\ loaded' = loaded \ {p}
    /\ mem' = [mem EXCEPT ![p] = {}]
    /\ UNCHANGED <<stateFile, readable, call>>

Manager(p) ==
    \/ Load(p) \/ LoadClosed(p)
    \/ \E S \in Selections : Engage(p, S) \/ EngageInvalid(p, S) \/ Resume(p, S)
    \/ ResumeInvalid(p) \/ ResumeRefused(p)

Validator(p) == ReadSecret(p) \/ MakeSecret(p) \/ WriteSecret(p)

Next ==
    \/ \E p \in Processes : Manager(p) \/ (Validator(p) /\ UNCHANGED evars) \/ Exit(p)
    \/ Tick /\ UNCHANGED evars

Spec == Init /\ [][Next]_vars

-----------------------------------------------------------------------------
(* Properties *)

\* The levels a start would find in force
Held == IF readable THEN stateFile ELSE {KillAll}

\* Those that the next save of some manager would drop
Lifted == UNION {Held \ mem[p] : p \in loaded}

Switch == INSTANCE StopSwitch WITH
    held <- Held, lifted <- Lifted

\* A level that was engaged and stored stays in force, through restarts, failed writes
\* and files cut short, until its own resume: the managers are a StopSwitch.  With several
\* processes that is so once every running manager knows of the level; one that loaded
\* the file before drops it with its next save (estop.cpp:275).
KeepsStopped == Switch!Spec
=============================================================================
