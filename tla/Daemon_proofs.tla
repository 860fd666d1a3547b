---------------------------- MODULE Daemon_proofs ----------------------------
(***************************************************************************)
(* The daemon's safety for any components, whatever they return and        *)
(* whenever the caller shuts it down: type correctness, no supervisor's    *)
(* thread after a clean stop, one launch at most after a heeded abort, no  *)
(* component shown as healthy once its run has ended.                      *)
(***************************************************************************)
EXTENDS Daemon, TLAPS

-----------------------------------------------------------------------------
(* The registry *)

\* An update leaves a registry, changes the entry of its component only, and leaves
\* the status it says.
LEMMA RegistryUpdates ==
    ASSUME NEW r \in Registry, NEW n \in Names
    PROVE  /\ MarkOk(r, n) \in Registry
           /\ MarkError(r, n) \in Registry
           /\ BumpRestart(r, n) \in Registry
           /\ \A k \in Names \ {n} : /\ MarkOk(r, n)[k] = r[k]
                                     /\ MarkError(r, n)[k] = r[k]
                                     /\ BumpRestart(r, n)[k] = r[k]
           /\ MarkError(r, n)[n].status = "error"
           /\ BumpRestart(r, n)[n].status = Current(r, n).status
<1> USE RestartsAssumption
<1>1. Current(r, n) \in Entry
  BY DEF Current, Registry, Starting, Entry
<1> DEFINE e == Current(r, n)
           o == [e EXCEPT !.status = "ok", !.lastOk = TRUE, !.lastError = FALSE]
           x == [e EXCEPT !.status = "error", !.lastError = TRUE]
           b == [e EXCEPT !.restarts = IF e.restarts < MaxRestarts
                                       THEN e.restarts + 1 ELSE e.restarts]
<1>2. e \in Entry => o \in Entry
  <2> HIDE DEF e
  <2>1. QED
    BY DEF Entry
<1>3. e \in Entry => x \in Entry /\ x.status = "error"
  <2> HIDE DEF e
  <2>1. QED
    BY DEF Entry
<1>4. e \in Entry => b \in Entry /\ b.status = e.status
  <2> HIDE DEF e
  <2>1. SUFFICES ASSUME e \in Entry PROVE b \in Entry /\ b.status = e.status
    OBVIOUS
  <2> DEFINE m == IF e.restarts < MaxRestarts THEN e.restarts + 1 ELSE e.restarts
  <2>2. m \in 0..MaxRestarts
    BY <2>1 DEF Entry
  <2> HIDE DEF m
  <2>3. [e EXCEPT !.restarts = m] \in Entry /\ [e EXCEPT !.restarts = m].status = e.status
    BY <2>1, <2>2 DEF Entry
  <2>4. QED
    BY <2>3 DEF m
<1>5. /\ MarkOk(r, n) = [r EXCEPT ![n] = o]
      /\ MarkError(r, n) = [r EXCEPT ![n] = x]
      /\ BumpRestart(r, n) = [r EXCEPT ![n] = b]
  BY DEF MarkOk, MarkError, BumpRestart
<1> HIDE DEF e, o, x, b
<1>6. o \in Entry /\ x \in Entry /\ b \in Entry
  BY <1>1, <1>2, <1>3, <1>4 DEF e
<1>7. x.status = "error" /\ b.status = Current(r, n).status
  BY <1>1, <1>3, <1>4 DEF e
<1>8. MarkOk(r, n) \in Registry /\ \A k \in Names \ {n} : MarkOk(r, n)[k] = r[k]
  BY <1>5, <1>6 DEF Registry
<1>9. /\ MarkError(r, n) \in Registry
      /\ \A k \in Names \ {n} : MarkError(r, n)[k] = r[k]
      /\ MarkError(r, n)[n].status = "error"
  BY <1>5, <1>6, <1>7 DEF Registry
<1>10. BumpRestart(r, n) \in Registry /\ \A k \in Names \ {n} : BumpRestart(r, n)[k] = r[k]
  BY <1>5, <1>6 DEF Registry
<1>11. BumpRestart(r, n)[n] = b
  BY <1>5 DEF Registry
<1>12. QED
  BY <1>7, <1>8, <1>9, <1>10, <1>11

-----------------------------------------------------------------------------
(* Type correctness *)

\* The components are names, other than the daemon's own.
LEMMA ComponentsAreNames ==
    /\ Components \subseteq Names \ {DaemonName}
    /\ \A i \in 1..Len(Order) : Order[i] \in Components
    /\ Len(Order) \in Nat
BY DaemonAssumption DEF Components

\* A position up to the last has a component.
LEMMA AtComponent ==
    ASSUME NEW i \in 1..Len(Order) + 1, i <= Len(Order)
    PROVE  Order[i] \in Components /\ Order[i] \in Names /\ i + 1 \in 1..Len(Order) + 1
<1>1. i \in 1..Len(Order) /\ i + 1 \in 1..Len(Order) + 1
  BY ComponentsAreNames
<1>2. QED
  BY <1>1, ComponentsAreNames

\* A backoff that doubles stays within its bounds.
LEMMA BackoffBounds ==
    /\ InitialBackoff \in InitialBackoff..MaxBackoff
    /\ \A b \in InitialBackoff..MaxBackoff :
          (IF 2 * b < MaxBackoff THEN 2 * b ELSE MaxBackoff) \in InitialBackoff..MaxBackoff
BY DaemonAssumption

\* The runner is at a component only while there is one.
StartsOne == runner = "start" => next <= Len(Order)

LEMMA TypeInit == Init => TypeOK /\ StartsOne
<1> SUFFICES ASSUME Init PROVE TypeOK /\ StartsOne
  OBVIOUS
<1>1. reg \in Registry
  BY DEF Init, Registry
<1>2. 1 \in 1..Len(Order) + 1
  BY ComponentsAreNames
<1>3. FlowType /\ StartsOne
  BY <1>1, <1>2 DEF Init, FlowType, StartsOne
<1>4. InitialBackoff \in InitialBackoff..MaxBackoff
  BY BackoffBounds
<1>5. ThreadsType
  <2>1. sup \in [Components -> SupervisorStates] /\ aborted \in [Components -> BOOLEAN]
    BY DEF Init, SupervisorStates
  <2>2. backoff \in [Components -> InitialBackoff..MaxBackoff]
    BY <1>4 DEF Init
  <2>3. late \in [Components -> {0, 1, 2}]
    BY DEF Init
  <2>4. QED
    BY <2>1, <2>2, <2>3 DEF Init, ThreadsType
<1>6. QED
  BY <1>3, <1>5 DEF TypeOK

LEMMA TypeRunnerFlow ==
    ASSUME TypeOK, StartsOne, Runner PROVE FlowType' /\ StartsOne'
<1> USE DEF TypeOK, FlowType, ThreadsType, StartsOne, SupervisorStates, svars, wvars, Fail
<1>0. MarkOk(reg, DaemonName) \in Registry /\ MarkError(reg, DaemonName) \in Registry
  BY DaemonAssumption, RegistryUpdates
<1>1. CASE CreateWriter
  BY <1>0, <1>1 DEF CreateWriter
<1>2. CASE FlagWriter
  BY <1>2 DEF FlagWriter
<1>3. CASE StartWriter
  BY ComponentsAreNames, <1>3 DEF StartWriter
<1>4. CASE Push
  <2>1. /\ Order[next] \in Components
        /\ Order[next] \in Names
        /\ next + 1 \in 1..Len(Order) + 1
    BY <1>4, AtComponent DEF Push
  <2>2. MarkOk(reg, Order[next]) \in Registry
    BY <2>1, RegistryUpdates
  <2>3. QED
    BY <1>4, <2>1, <2>2 DEF Push
<1>5. CASE StartSupervisor
  <2>1. Order[next] \in Components /\ next + 1 \in 1..Len(Order) + 1
    BY <1>5, AtComponent DEF StartSupervisor
  <2>2. QED
    BY <1>5, <2>1 DEF StartSupervisor
<1>6. CASE Started
  BY <1>6 DEF Started
<1>7. CASE LeaveLoop
  BY <1>0, <1>7 DEF LeaveLoop
<1>8. CASE AbortAll
  BY <1>8 DEF AbortAll
<1>9. CASE JoinSupervisors
  BY <1>9 DEF JoinSupervisors
<1>10. CASE RunnerStopsWriter
  BY <1>10 DEF RunnerStopsWriter
<1>11. CASE RunnerJoinsWriter
  BY <1>11 DEF RunnerJoinsWriter
<1>12. QED
  BY <1>1, <1>2, <1>3, <1>4, <1>5, <1>6, <1>7, <1>8, <1>9, <1>10, <1>11 DEF Runner

LEMMA TypeRunnerThreads ==
    ASSUME TypeOK, StartsOne, Runner PROVE ThreadsType'
<1> USE DEF TypeOK, FlowType, ThreadsType, StartsOne, SupervisorStates, svars, wvars, Fail
<1>0. MarkOk(reg, DaemonName) \in Registry /\ MarkError(reg, DaemonName) \in Registry
  BY DaemonAssumption, RegistryUpdates
<1>1. CASE CreateWriter
  BY <1>0, <1>1 DEF CreateWriter
<1>2. CASE FlagWriter
  BY <1>2 DEF FlagWriter
<1>3. CASE StartWriter
  BY ComponentsAreNames, <1>3 DEF StartWriter
<1>4. CASE Push
  <2>1. /\ Order[next] \in Components
        /\ Order[next] \in Names
        /\ next + 1 \in 1..Len(Order) + 1
    BY <1>4, AtComponent DEF Push
  <2>2. MarkOk(reg, Order[next]) \in Registry
    BY <2>1, RegistryUpdates
  <2>3. QED
    BY <1>4, <2>1, <2>2 DEF Push
<1>5. CASE StartSupervisor
  <2>1. Order[next] \in Components /\ next + 1 \in 1..Len(Order) + 1
    BY <1>5, AtComponent DEF StartSupervisor
  <2>2. QED
    BY <1>5, <2>1 DEF StartSupervisor
<1>6. CASE Started
  BY <1>6 DEF Started
<1>7. CASE LeaveLoop
  BY <1>0, <1>7 DEF LeaveLoop
<1>8. CASE AbortAll
  BY <1>8 DEF AbortAll, Abort
<1>9. CASE JoinSupervisors
  BY <1>9 DEF JoinSupervisors
<1>10. CASE RunnerStopsWriter
  BY <1>10 DEF RunnerStopsWriter
<1>11. CASE RunnerJoinsWriter
  BY <1>11 DEF RunnerJoinsWriter
<1>12. QED
  BY <1>1, <1>2, <1>3, <1>4, <1>5, <1>6, <1>7, <1>8, <1>9, <1>10, <1>11 DEF Runner

LEMMA TypeCallerFlow ==
    ASSUME TypeOK, StartsOne, Shutdown \/ Caller PROVE FlowType' /\ StartsOne'
<1> USE DEF TypeOK, FlowType, ThreadsType, StartsOne, SupervisorStates, rvars, svars, wvars
<1>1. CASE Shutdown
  BY <1>1 DEF Shutdown
<1>2. CASE CallerAborts
  <2>1. /\ caller' = "stop writer"
        /\ UNCHANGED <<reg, runner, next, result, stopping>>
        /\ alive' \in {TRUE} \cup (IF runner \in {"push", "start"} THEN {FALSE} ELSE {})
    BY <1>2, Zenon DEF CallerAborts, rvars
  <2>2. QED
    BY <2>1
<1>3. CASE CallerStopsWriter
  BY <1>3 DEF CallerStopsWriter
<1>4. CASE CallerJoinsWriter
  BY <1>4 DEF CallerJoinsWriter
<1>5. CASE CallerAbortsAgain
  BY <1>5 DEF CallerAbortsAgain
<1>6. CASE CallerFinishes
  BY <1>6 DEF CallerFinishes
<1>7. QED
  BY <1>1, <1>2, <1>3, <1>4, <1>5, <1>6 DEF Caller

\* Whatever shutdown's loop reaches are components.
LEMMA CallerReaches ==
    ASSUME ThreadsType, CallerAborts PROVE \E S \in SUBSET Components : Abort(S)
<1>1. SUBSET pushed \subseteq SUBSET Components /\ {pushed} \subseteq SUBSET Components
  BY DEF ThreadsType
<1>2. QED
  BY <1>1 DEF CallerAborts

\* An abort leaves the flags and the counts well typed.
LEMMA AbortTypes ==
    ASSUME ThreadsType, NEW S \in SUBSET Components, Abort(S)
    PROVE  /\ aborted' \in [Components -> BOOLEAN]
           /\ told' \subseteq Components
           /\ late' \in [Components -> {0, 1, 2}]
BY DEF ThreadsType, Abort

LEMMA TypeCallerThreads ==
    ASSUME TypeOK, StartsOne, Shutdown \/ Caller PROVE ThreadsType'
<1> USE DEF TypeOK, FlowType, ThreadsType, StartsOne, SupervisorStates, rvars, svars, wvars
<1>1. CASE Shutdown
  BY <1>1 DEF Shutdown
<1>2. CASE CallerAborts
  <2>1. PICK S \in SUBSET Components : Abort(S)
    BY <1>2, CallerReaches
  <2>2. UNCHANGED <<pushed, sup, backoff, writer, writerRunning>>
    BY <1>2 DEF CallerAborts
  <2>3. QED
    BY <2>1, <2>2, AbortTypes
<1>3. CASE CallerStopsWriter
  BY <1>3 DEF CallerStopsWriter
<1>4. CASE CallerJoinsWriter
  BY <1>4 DEF CallerJoinsWriter
<1>5. CASE CallerAbortsAgain
  BY <1>5 DEF CallerAbortsAgain, Abort
<1>6. CASE CallerFinishes
  BY <1>6 DEF CallerFinishes
<1>7. QED
  BY <1>1, <1>2, <1>3, <1>4, <1>5, <1>6 DEF Caller

LEMMA TypeSupervisorFlow ==
    ASSUME TypeOK, StartsOne, NEW c \in Components, Supervisor(c) PROVE FlowType' /\ StartsOne'
<1> USE DEF TypeOK, FlowType, ThreadsType, StartsOne, SupervisorStates, rvars, svars, wvars
<1>0. /\ MarkOk(reg, c) \in Registry
      /\ MarkError(reg, c) \in Registry
      /\ BumpRestart(reg, c) \in Registry
  BY ComponentsAreNames, RegistryUpdates
<1>1. CASE Check(c)
  BY <1>1 DEF Check
<1>2. CASE Launch(c)
  BY <1>0, <1>2 DEF Launch
<1>3. CASE LaunchFails(c)
  BY <1>0, <1>3 DEF LaunchFails
<1>4. CASE MarksItself(c)
  BY <1>0, <1>4 DEF MarksItself
<1>5. CASE Returns(c)
  BY <1>0, BackoffBounds, <1>5 DEF Returns
<1>6. CASE Bump(c)
  BY <1>0, <1>6 DEF Bump
<1>7. CASE Wake(c)
  BY BackoffBounds, <1>7 DEF Wake
<1>8. QED
  BY <1>1, <1>2, <1>3, <1>4, <1>5, <1>6, <1>7 DEF Supervisor, SupervisorStep

\* One more launch is still counted.
LEMMA OneMore == \A n \in {0, 1, 2} : n < 2 => n + 1 \in {0, 1, 2}
OBVIOUS

LEMMA TypeSupervisorThreads ==
    ASSUME TypeOK, StartsOne, NEW c \in Components, Supervisor(c) PROVE ThreadsType'
<1> USE DEF TypeOK, FlowType, ThreadsType, StartsOne, SupervisorStates, rvars, svars, wvars
<1>0. /\ MarkOk(reg, c) \in Registry
      /\ MarkError(reg, c) \in Registry
      /\ BumpRestart(reg, c) \in Registry
  BY ComponentsAreNames, RegistryUpdates
<1>1. CASE Check(c)
  BY <1>1 DEF Check
<1>2. CASE Launch(c)
  <2>1. \A n \in {0, 1, 2} : n < 2 => n + 1 \in {0, 1, 2}
    BY OneMore
  <2>2. CASE c \in told /\ late[c] < 2
    BY <1>2, <2>1, <2>2 DEF Launch
  <2>3. CASE ~(c \in told /\ late[c] < 2)
    BY <1>2, <2>3 DEF Launch
  <2>4. QED
    BY <2>2, <2>3
<1>3. CASE LaunchFails(c)
  BY <1>0, <1>3 DEF LaunchFails
<1>4. CASE MarksItself(c)
  BY <1>0, <1>4 DEF MarksItself
<1>5. CASE Returns(c)
  BY <1>0, BackoffBounds, <1>5 DEF Returns
<1>6. CASE Bump(c)
  BY <1>0, <1>6 DEF Bump
<1>7. CASE Wake(c)
  BY BackoffBounds, <1>7 DEF Wake
<1>8. QED
  BY <1>1, <1>2, <1>3, <1>4, <1>5, <1>6, <1>7 DEF Supervisor, SupervisorStep

LEMMA TypeStep == TypeOK /\ StartsOne /\ [Next]_vars => TypeOK' /\ StartsOne'
<1> SUFFICES ASSUME TypeOK, StartsOne, [Next]_vars PROVE TypeOK' /\ StartsOne'
  OBVIOUS
<1>1. CASE WriterEnds \/ Flush \/ UNCHANGED vars
  <2> USE <1>1 DEF WriterEnds, Flush, TypeOK, StartsOne, vars, rvars, svars, wvars
  <2>1. FlowType' /\ StartsOne'
    BY DEF FlowType
  <2>2. ThreadsType'
    BY DEF ThreadsType, SupervisorStates
  <2>3. QED
    BY <2>1, <2>2
<1>2. CASE Runner
  BY <1>2, TypeRunnerFlow, TypeRunnerThreads DEF TypeOK
<1>3. CASE Shutdown \/ Caller
  BY <1>3, TypeCallerFlow, TypeCallerThreads DEF TypeOK
<1>4. CASE \E c \in Components : Supervisor(c)
  BY <1>4, TypeSupervisorFlow, TypeSupervisorThreads DEF TypeOK
<1>5. QED
  BY <1>1, <1>2, <1>3, <1>4 DEF Next

-----------------------------------------------------------------------------
(* Where the supervisors are, by where the runner is *)

\* Only enabled components have supervisors, none of them before its turn, and
\* every one is in supervisors_ as long as the runner needs it.
Placed ==
    /\ \A c \in Components : sup[c] # "none" => c \in Enabled
    /\ \A c \in Components : sup[c] # "none" => c \in pushed \/ runner = "done"
    /\ runner \in {"create writer", "flag writer", "start writer", "push"} =>
          \A i \in 1..Len(Order) : i >= next => sup[Order[i]] = "none"
    /\ runner = "start" =>
          \A i \in 1..Len(Order) : i > next => sup[Order[i]] = "none"

\* A supervisor without a thread is the one being started, or was left by a failure.
Created ==
    /\ runner = "start" => sup[Order[next]] = "created"
    /\ \A c \in Components :
          sup[c] = "created" => (runner = "start" /\ c = Order[next]) \/ result = "failed"
    /\ result # "none" => runner = "done"

\* From the join on no supervisor's thread is left.
Joined ==
    runner \in {"stop writer", "join writer"} \/ result = "ok" =>
       \A c \in Components : sup[c] \in {"none", "ended"}

\* A launch after an abort that is not forgotten leaves a supervisor that will not
\* launch again, and once the runner has aborted them all none has forgotten it.
LateOnce ==
    /\ \A c \in Components :
          /\ sup[c] \in {"none", "created"} => late[c] = 0
          /\ late[c] # 0 => c \in told
          /\ late[c] # 0 /\ aborted[c] => late[c] = 1 /\ sup[c] # "launch"
    /\ AbortedAll => \A c \in Components : sup[c] # "none" => aborted[c]

IInv == TypeOK /\ StartsOne /\ Placed /\ Created /\ Joined /\ LateOnce /\ EndedShownDown

-----------------------------------------------------------------------------
(* Every step keeps them *)

\* The components are distinct.
LEMMA LaterIsOther == \A i, k \in 1..Len(Order) : i > k => Order[i] # Order[k]
<1>1. \A i, k \in 1..Len(Order) : Order[i] = Order[k] => i = k
  BY DaemonAssumption
<1>2. QED
  BY <1>1, ComponentsAreNames

\* What comes from the next position on comes after this one.
LEMMA PositionsAfter ==
    \A k \in 1..Len(Order) + 1 : \A i \in 1..Len(Order) : i >= k + 1 => i > k
BY ComponentsAreNames

\* An update of one component's entry keeps those of the others.
LEMMA OthersKept ==
    ASSUME NEW r \in Registry, NEW n \in Components, NEW d \in Components, d # n
    PROVE  MarkOk(r, n)[d] = r[d] /\ MarkError(r, n)[d] = r[d] /\ BumpRestart(r, n)[d] = r[d]
<1>1. n \in Names /\ d \in Names \ {n}
  BY ComponentsAreNames
<1>2. QED
  BY <1>1, RegistryUpdates

\* A supervisor comes into being at its component's turn.
LEMMA PlacedStep ==
    ASSUME TypeOK, StartsOne, Created, Placed, [Next]_vars PROVE Placed'
<1> USE ComponentsAreNames DEF Placed, SupervisorStates, Fail, rvars, svars, wvars
<1>0. sup \in [Components -> SupervisorStates] /\ next \in 1..Len(Order) + 1
  BY DEF TypeOK, ThreadsType, FlowType
<1>1. CASE CreateWriter
  BY <1>0, <1>1 DEF CreateWriter
<1>2. CASE FlagWriter
  BY <1>0, <1>2 DEF FlagWriter
<1>3. CASE StartWriter
  BY <1>0, <1>3 DEF StartWriter
<1>4. CASE Push
  <2>1. /\ Order[next] \in Components /\ next \in 1..Len(Order)
        /\ \A i \in 1..Len(Order) : i > next => Order[i] # Order[next]
    BY <1>0, <1>4, AtComponent, LaterIsOther DEF Push
  <2>2. CASE Order[next] \in Enabled
    BY <1>0, <1>4, <2>1, <2>2 DEF Push
  <2>3. CASE Order[next] \notin Enabled
    BY <1>0, <1>4, <2>1, <2>3 DEF Push
  <2>4. QED
    BY <2>2, <2>3
<1>5. CASE StartSupervisor
  <2>1. /\ Order[next] \in Components /\ next \in 1..Len(Order)
        /\ \A i \in 1..Len(Order) : i > next => Order[i] # Order[next]
    BY <1>0, <1>5, AtComponent, LaterIsOther DEF StartSupervisor, StartsOne
  <2>2. CASE runner' = "push"
    <3>1. /\ sup' = [sup EXCEPT ![Order[next]] = "check"]
          /\ aborted' = [aborted EXCEPT ![Order[next]] = FALSE]
          /\ next' = next + 1
          /\ UNCHANGED <<pushed, result, late>>
      BY <1>5, <2>2 DEF StartSupervisor
    <3>2. \A i \in 1..Len(Order) : i >= next' => i > next
      BY <1>0, <3>1, PositionsAfter
    <3>3. /\ runner = "start"
          /\ sup[Order[next]] = "created"
      BY <1>5 DEF StartSupervisor, Created
    <3>4. \A i \in 1..Len(Order) : i >= next' => sup'[Order[i]] = "none"
      BY <1>0, <2>1, <3>1, <3>2, <3>3
    <3>5. \A d \in Components : sup'[d] # "none" => sup[d] # "none"
      BY <1>0, <2>1, <3>1, <3>3
    <3>6. QED
      BY <2>2, <3>1, <3>3, <3>4, <3>5
  <2>3. CASE runner' = "done"
    BY <1>0, <1>5, <2>1, <2>3 DEF StartSupervisor
  <2>4. QED
    BY <1>5, <2>2, <2>3 DEF StartSupervisor
<1>6. CASE Started
  BY <1>0, <1>6 DEF Started
<1>7. CASE LeaveLoop
  BY <1>0, <1>7 DEF LeaveLoop
<1>8. CASE AbortAll
  BY <1>0, <1>8 DEF AbortAll
<1>9. CASE JoinSupervisors
  BY <1>0, <1>9 DEF JoinSupervisors
<1>10. CASE RunnerStopsWriter
  BY <1>0, <1>10 DEF RunnerStopsWriter
<1>11. CASE RunnerJoinsWriter
  BY <1>0, <1>11 DEF RunnerJoinsWriter
<1>12. CASE Shutdown
  BY <1>0, <1>12 DEF Shutdown
<1>13. CASE CallerAborts
  BY <1>0, <1>13 DEF CallerAborts
<1>14. CASE CallerStopsWriter
  BY <1>0, <1>14 DEF CallerStopsWriter
<1>15. CASE CallerJoinsWriter
  BY <1>0, <1>15 DEF CallerJoinsWriter
<1>16. CASE CallerAbortsAgain
  BY <1>0, <1>16 DEF CallerAbortsAgain
<1>17. CASE CallerFinishes
  BY <1>0, <1>17 DEF CallerFinishes
<1>18. ASSUME NEW c \in Components, Check(c) PROVE Placed'
  BY <1>0, <1>18 DEF Check
<1>19. ASSUME NEW c \in Components, Launch(c) PROVE Placed'
  BY <1>0, <1>19 DEF Launch
<1>20. ASSUME NEW c \in Components, LaunchFails(c) PROVE Placed'
  BY <1>0, <1>20 DEF LaunchFails
<1>21. ASSUME NEW c \in Components, MarksItself(c) PROVE Placed'
  BY <1>0, <1>21 DEF MarksItself
<1>22. ASSUME NEW c \in Components, Returns(c) PROVE Placed'
  BY <1>0, <1>22 DEF Returns
<1>23. ASSUME NEW c \in Components, Bump(c) PROVE Placed'
  BY <1>0, <1>23 DEF Bump
<1>24. ASSUME NEW c \in Components, Wake(c) PROVE Placed'
  BY <1>0, <1>24 DEF Wake
<1>25. CASE WriterEnds \/ Flush \/ UNCHANGED vars
  BY <1>25 DEF WriterEnds, Flush, vars
<1>26. QED
  BY <1>1, <1>2, <1>3, <1>4, <1>5, <1>6, <1>7, <1>8, <1>9, <1>10,
     <1>11, <1>12, <1>13, <1>14, <1>15, <1>16, <1>17, <1>18, <1>19, <1>20,
     <1>21, <1>22, <1>23, <1>24, <1>25
  DEF Next, Runner, Caller, Supervisor, SupervisorStep

\* Only start makes a thread of a supervisor, or it fails.
LEMMA CreatedStep ==
    ASSUME TypeOK, StartsOne, Placed, Created, [Next]_vars PROVE Created'
<1> USE ComponentsAreNames DEF Created, SupervisorStates, Fail, rvars, svars, wvars
<1>0. sup \in [Components -> SupervisorStates] /\ next \in 1..Len(Order) + 1
  BY DEF TypeOK, ThreadsType, FlowType
<1>1. CASE CreateWriter
  BY <1>0, <1>1 DEF CreateWriter
<1>2. CASE FlagWriter
  BY <1>0, <1>2 DEF FlagWriter
<1>3. CASE StartWriter
  BY <1>0, <1>3 DEF StartWriter
<1>4. CASE Push
  <2>1. /\ Order[next] \in Components /\ next \in 1..Len(Order)
        /\ \A i \in 1..Len(Order) : i > next => Order[i] # Order[next]
    BY <1>0, <1>4, AtComponent, LaterIsOther DEF Push
  <2>2. CASE Order[next] \in Enabled
    BY <1>0, <1>4, <2>1, <2>2 DEF Push
  <2>3. CASE Order[next] \notin Enabled
    BY <1>0, <1>4, <2>1, <2>3 DEF Push
  <2>4. QED
    BY <2>2, <2>3
<1>5. CASE StartSupervisor
  <2>1. /\ Order[next] \in Components /\ next \in 1..Len(Order)
        /\ \A i \in 1..Len(Order) : i > next => Order[i] # Order[next]
    BY <1>0, <1>5, AtComponent, LaterIsOther DEF StartSupervisor, StartsOne
  <2>2. CASE runner' = "push"
    <3>1. /\ sup' = [sup EXCEPT ![Order[next]] = "check"]
          /\ aborted' = [aborted EXCEPT ![Order[next]] = FALSE]
          /\ next' = next + 1
          /\ UNCHANGED <<pushed, result, late>>
      BY <1>5, <2>2 DEF StartSupervisor
    <3>2. \A i \in 1..Len(Order) : i >= next' => i > next
      BY <1>0, <3>1, PositionsAfter
    <3>3. QED
      BY <1>0, <1>5, <2>1, <2>2, <3>1, <3>2 DEF StartSupervisor
  <2>3. CASE runner' = "done"
    BY <1>0, <1>5, <2>1, <2>3 DEF StartSupervisor
  <2>4. QED
    BY <1>5, <2>2, <2>3 DEF StartSupervisor
<1>6. CASE Started
  BY <1>0, <1>6 DEF Started
<1>7. CASE LeaveLoop
  BY <1>0, <1>7 DEF LeaveLoop
<1>8. CASE AbortAll
  BY <1>0, <1>8 DEF AbortAll
<1>9. CASE JoinSupervisors
  BY <1>0, <1>9 DEF JoinSupervisors
<1>10. CASE RunnerStopsWriter
  BY <1>0, <1>10 DEF RunnerStopsWriter
<1>11. CASE RunnerJoinsWriter
  BY <1>0, <1>11 DEF RunnerJoinsWriter
<1>12. CASE Shutdown
  BY <1>0, <1>12 DEF Shutdown
<1>13. CASE CallerAborts
  BY <1>0, <1>13 DEF CallerAborts
<1>14. CASE CallerStopsWriter
  BY <1>0, <1>14 DEF CallerStopsWriter
<1>15. CASE CallerJoinsWriter
  BY <1>0, <1>15 DEF CallerJoinsWriter
<1>16. CASE CallerAbortsAgain
  BY <1>0, <1>16 DEF CallerAbortsAgain
<1>17. CASE CallerFinishes
  BY <1>0, <1>17 DEF CallerFinishes
<1>18. ASSUME NEW c \in Components, Check(c) PROVE Created'
  BY <1>0, <1>18 DEF Check
<1>19. ASSUME NEW c \in Components, Launch(c) PROVE Created'
  BY <1>0, <1>19 DEF Launch
<1>20. ASSUME NEW c \in Components, LaunchFails(c) PROVE Created'
  BY <1>0, <1>20 DEF LaunchFails
<1>21. ASSUME NEW c \in Components, MarksItself(c) PROVE Created'
  BY <1>0, <1>21 DEF MarksItself
<1>22. ASSUME NEW c \in Components, Returns(c) PROVE Created'
  BY <1>0, <1>22 DEF Returns
<1>23. ASSUME NEW c \in Components, Bump(c) PROVE Created'
  BY <1>0, <1>23 DEF Bump
<1>24. ASSUME NEW c \in Components, Wake(c) PROVE Created'
  BY <1>0, <1>24 DEF Wake
<1>25. CASE WriterEnds \/ Flush \/ UNCHANGED vars
  BY <1>25 DEF WriterEnds, Flush, vars
<1>26. QED
  BY <1>1, <1>2, <1>3, <1>4, <1>5, <1>6, <1>7, <1>8, <1>9, <1>10,
     <1>11, <1>12, <1>13, <1>14, <1>15, <1>16, <1>17, <1>18, <1>19, <1>20,
     <1>21, <1>22, <1>23, <1>24, <1>25
  DEF Next, Runner, Caller, Supervisor, SupervisorStep

\* The join waits for every supervisor there is.
LEMMA JoinedStep ==
    ASSUME TypeOK, Placed, Created, Joined, [Next]_vars PROVE Joined'
<1> USE ComponentsAreNames DEF Joined, SupervisorStates, Fail, rvars, svars, wvars
<1>0. sup \in [Components -> SupervisorStates] /\ next \in 1..Len(Order) + 1
  BY DEF TypeOK, ThreadsType, FlowType
<1>1. CASE CreateWriter
  BY <1>0, <1>1 DEF CreateWriter
<1>2. CASE FlagWriter
  BY <1>0, <1>2 DEF FlagWriter
<1>3. CASE StartWriter
  BY <1>0, <1>3 DEF StartWriter
<1>4. CASE Push
  BY <1>4 DEF Push, Created
<1>5. CASE StartSupervisor
  BY <1>5 DEF StartSupervisor, Created
<1>6. CASE Started
  BY <1>0, <1>6 DEF Started
<1>7. CASE LeaveLoop
  BY <1>0, <1>7 DEF LeaveLoop
<1>8. CASE AbortAll
  BY <1>0, <1>8 DEF AbortAll
<1>9. CASE JoinSupervisors
  <2>1. \A c \in Components : sup[c] # "none" => c \in pushed /\ sup[c] # "created"
    BY <1>9 DEF JoinSupervisors, Placed, Created
  <2>2. QED
    BY <1>0, <1>9, <2>1 DEF JoinSupervisors, AllEnded
<1>10. CASE RunnerStopsWriter
  BY <1>0, <1>10 DEF RunnerStopsWriter
<1>11. CASE RunnerJoinsWriter
  BY <1>0, <1>11 DEF RunnerJoinsWriter
<1>12. CASE Shutdown
  BY <1>0, <1>12 DEF Shutdown
<1>13. CASE CallerAborts
  BY <1>0, <1>13 DEF CallerAborts
<1>14. CASE CallerStopsWriter
  BY <1>0, <1>14 DEF CallerStopsWriter
<1>15. CASE CallerJoinsWriter
  BY <1>0, <1>15 DEF CallerJoinsWriter
<1>16. CASE CallerAbortsAgain
  BY <1>0, <1>16 DEF CallerAbortsAgain
<1>17. CASE CallerFinishes
  BY <1>0, <1>17 DEF CallerFinishes
<1>18. ASSUME NEW c \in Components, Check(c) PROVE Joined'
  BY <1>0, <1>18 DEF Check
<1>19. ASSUME NEW c \in Components, Launch(c) PROVE Joined'
  BY <1>0, <1>19 DEF Launch
<1>20. ASSUME NEW c \in Components, LaunchFails(c) PROVE Joined'
  BY <1>0, <1>20 DEF LaunchFails
<1>21. ASSUME NEW c \in Components, MarksItself(c) PROVE Joined'
  BY <1>0, <1>21 DEF MarksItself
<1>22. ASSUME NEW c \in Components, Returns(c) PROVE Joined'
  BY <1>0, <1>22 DEF Returns
<1>23. ASSUME NEW c \in Components, Bump(c) PROVE Joined'
  BY <1>0, <1>23 DEF Bump
<1>24. ASSUME NEW c \in Components, Wake(c) PROVE Joined'
  BY <1>0, <1>24 DEF Wake
<1>25. CASE WriterEnds \/ Flush \/ UNCHANGED vars
  BY <1>25 DEF WriterEnds, Flush, vars
<1>26. QED
  BY <1>1, <1>2, <1>3, <1>4, <1>5, <1>6, <1>7, <1>8, <1>9, <1>10,
     <1>11, <1>12, <1>13, <1>14, <1>15, <1>16, <1>17, <1>18, <1>19, <1>20,
     <1>21, <1>22, <1>23, <1>24, <1>25
  DEF Next, Runner, Caller, Supervisor, SupervisorStep

\* The first launch that is counted makes it one.
LEMMA LateCount ==
    ASSUME NEW c \in Components, late \in [Components -> {0, 1, 2}], Launch(c), late[c] = 0
    PROVE  late'[c] \in {0, 1}
<1>1. late' = [late EXCEPT ![c] = IF c \in told /\ late[c] < 2 THEN late[c] + 1 ELSE late[c]]
  BY DEF Launch
<1>2. late'[c] = IF c \in told /\ late[c] < 2 THEN late[c] + 1 ELSE late[c]
  BY <1>1
<1>3. CASE c \in told /\ late[c] < 2
  BY <1>2, <1>3
<1>4. CASE ~(c \in told /\ late[c] < 2)
  BY <1>2, <1>4
<1>5. QED
  BY <1>3, <1>4

\* An abort that is seen ends the supervisor, and no start undoes it later.
LEMMA LateStep ==
    ASSUME TypeOK, StartsOne, Created, Placed, LateOnce, [Next]_vars PROVE LateOnce'
<1> USE ComponentsAreNames DEF LateOnce, AbortedAll, SupervisorStates, Fail, rvars, svars, wvars
<1>0. sup \in [Components -> SupervisorStates] /\ next \in 1..Len(Order) + 1
  BY DEF TypeOK, ThreadsType, FlowType
<1>p. /\ pushed \in SUBSET Components
      /\ aborted \in [Components -> BOOLEAN]
      /\ late \in [Components -> {0, 1, 2}]
  BY DEF TypeOK, ThreadsType
<1>a. ASSUME NEW S \in SUBSET Components, Abort(S), UNCHANGED sup
      PROVE  /\ \A c \in Components : aborted[c] => aborted'[c]
             /\ \A c \in Components :
                   /\ sup'[c] \in {"none", "created"} => late'[c] = 0
                   /\ late'[c] # 0 => c \in told'
                   /\ late'[c] # 0 /\ aborted'[c] => late'[c] = 1 /\ sup'[c] # "launch"
  BY <1>0, <1>p, <1>a DEF Abort, Forgot
<1>1. CASE CreateWriter
  BY <1>0, <1>1 DEF CreateWriter
<1>2. CASE FlagWriter
  BY <1>0, <1>2 DEF FlagWriter
<1>3. CASE StartWriter
  BY <1>0, <1>3 DEF StartWriter
<1>4. CASE Push
  <2>1. /\ Order[next] \in Components /\ next \in 1..Len(Order)
        /\ \A i \in 1..Len(Order) : i > next => Order[i] # Order[next]
    BY <1>0, <1>4, AtComponent, LaterIsOther DEF Push
  <2>e. sup[Order[next]] = "none"
    BY <1>4, <2>1 DEF Push, Placed
  <2>2. CASE Order[next] \in Enabled
    <3>1. /\ sup' = [sup EXCEPT ![Order[next]] = "created"]
          /\ UNCHANGED <<aborted, late, told>>
      BY <1>4, <2>2 DEF Push
    <3>2. ~AbortedAll'
      BY <1>4, <2>2 DEF Push, Created
    <3>3. late[Order[next]] = 0
      BY <2>1, <2>e
    <3>4. \A d \in Components : d # Order[next] => sup'[d] = sup[d]
      BY <1>0, <3>1
    <3>5. sup'[Order[next]] = "created"
      BY <1>0, <2>1, <3>1
    <3>6. QED
      BY <3>1, <3>2, <3>3, <3>4, <3>5
  <2>3. CASE Order[next] \notin Enabled
    BY <1>0, <1>4, <2>1, <2>3 DEF Push
  <2>4. QED
    BY <2>2, <2>3
<1>5. CASE StartSupervisor
  <2>1. /\ Order[next] \in Components /\ next \in 1..Len(Order)
        /\ \A i \in 1..Len(Order) : i > next => Order[i] # Order[next]
    BY <1>0, <1>5, AtComponent, LaterIsOther DEF StartSupervisor, StartsOne
  <2>2. CASE runner' = "push"
    <3>1. /\ sup' = [sup EXCEPT ![Order[next]] = "check"]
          /\ aborted' = [aborted EXCEPT ![Order[next]] = FALSE]
          /\ UNCHANGED <<late, told, result>>
      BY <1>5, <2>2 DEF StartSupervisor
    <3>2. sup[Order[next]] = "created"
      BY <1>5 DEF StartSupervisor, Created
    <3>3. late'[Order[next]] = 0
      BY <2>1, <3>1, <3>2
    <3>4. sup'[Order[next]] = "check"
      BY <1>0, <2>1, <3>1
    <3>5. aborted \in [Components -> BOOLEAN]
      BY DEF TypeOK, ThreadsType
    <3>6. \A d \in Components : d # Order[next] =>
             sup'[d] = sup[d] /\ aborted'[d] = aborted[d] /\ late'[d] = late[d]
      BY <1>0, <3>1, <3>5
    <3>7. ~AbortedAll'
      BY <1>5, <2>2, <3>1 DEF StartSupervisor, Created
    <3>8. QED
      BY <3>1, <3>3, <3>4, <3>6, <3>7
  <2>3. CASE runner' = "done"
    BY <1>0, <1>5, <2>1, <2>3 DEF StartSupervisor
  <2>4. QED
    BY <1>5, <2>2, <2>3 DEF StartSupervisor
<1>6. CASE Started
  BY <1>0, <1>6 DEF Started
<1>7. CASE LeaveLoop
  BY <1>0, <1>7 DEF LeaveLoop
<1>8. CASE AbortAll
  <2>1. \A c \in Components : sup[c] # "none" => aborted'[c]
    BY <1>8 DEF AbortAll, Abort, Placed
  <2>2. QED
    BY <1>8, <1>p, <1>a, <2>1 DEF AbortAll
<1>9. CASE JoinSupervisors
  BY <1>0, <1>9 DEF JoinSupervisors
<1>10. CASE RunnerStopsWriter
  BY <1>0, <1>10 DEF RunnerStopsWriter
<1>11. CASE RunnerJoinsWriter
  BY <1>0, <1>11 DEF RunnerJoinsWriter
<1>12. CASE Shutdown
  BY <1>0, <1>12 DEF Shutdown
<1>13. CASE CallerAborts
  <2>1. \E reached \in SUBSET Components : Abort(reached)
    BY <1>13, CallerReaches DEF TypeOK
  <2>2. QED
    BY <1>13, <1>a, <2>1 DEF CallerAborts
<1>14. CASE CallerStopsWriter
  BY <1>0, <1>14 DEF CallerStopsWriter
<1>15. CASE CallerJoinsWriter
  BY <1>0, <1>15 DEF CallerJoinsWriter
<1>16. CASE CallerAbortsAgain
  BY <1>16, <1>p, <1>a DEF CallerAbortsAgain
<1>17. CASE CallerFinishes
  BY <1>0, <1>17 DEF CallerFinishes
<1>18. ASSUME NEW c \in Components, Check(c) PROVE LateOnce'
  BY <1>0, <1>18 DEF Check
<1>19. ASSUME NEW c \in Components, Launch(c) PROVE LateOnce'
  <2>1. /\ sup[c] = "launch"
        /\ sup' = [sup EXCEPT ![c] = "running"]
        /\ UNCHANGED <<aborted, told, runner, result>>
    BY <1>19 DEF Launch
  <2>2. \A d \in Components : d # c => sup'[d] = sup[d] /\ late'[d] = late[d]
    BY <1>0, <1>p, <1>19 DEF Launch
  <2>3. sup'[c] = "running" /\ sup[c] # "none"
    BY <1>0, <2>1
  <2>4. late'[c] # 0 => c \in told
    BY <1>p, <1>19 DEF Launch
  <2>5. aborted[c] /\ late'[c] # 0 => late'[c] = 1
    <3>1. aborted[c] => late[c] = 0
      BY <2>1
    <3>2. QED
      BY <1>p, <1>19, <3>1, LateCount
  <2>6. QED
    BY <2>1, <2>2, <2>3, <2>4, <2>5
<1>20. ASSUME NEW c \in Components, LaunchFails(c) PROVE LateOnce'
  BY <1>0, <1>20 DEF LaunchFails
<1>21. ASSUME NEW c \in Components, MarksItself(c) PROVE LateOnce'
  BY <1>0, <1>21 DEF MarksItself
<1>22. ASSUME NEW c \in Components, Returns(c) PROVE LateOnce'
  BY <1>0, <1>22 DEF Returns
<1>23. ASSUME NEW c \in Components, Bump(c) PROVE LateOnce'
  BY <1>0, <1>23 DEF Bump
<1>24. ASSUME NEW c \in Components, Wake(c) PROVE LateOnce'
  BY <1>0, <1>24 DEF Wake
<1>25. CASE WriterEnds \/ Flush \/ UNCHANGED vars
  BY <1>25 DEF WriterEnds, Flush, vars
<1>26. QED
  BY <1>1, <1>2, <1>3, <1>4, <1>5, <1>6, <1>7, <1>8, <1>9, <1>10,
     <1>11, <1>12, <1>13, <1>14, <1>15, <1>16, <1>17, <1>18, <1>19, <1>20,
     <1>21, <1>22, <1>23, <1>24, <1>25
  DEF Next, Runner, Caller, Supervisor, SupervisorStep

\* Nothing but a launch marks a component whose run has ended as healthy.
LEMMA DownStep ==
    ASSUME TypeOK, Placed, EndedShownDown, [Next]_vars PROVE EndedShownDown'
<1> USE ComponentsAreNames DEF EndedShownDown, SupervisorStates, Fail, rvars, svars, wvars
<1>0. sup \in [Components -> SupervisorStates] /\ next \in 1..Len(Order) + 1
  BY DEF TypeOK, ThreadsType, FlowType
<1>r. reg \in Registry /\ \A d \in Components : d \in Names
  BY DEF TypeOK, FlowType
<1>1. CASE CreateWriter
  <2>1. \A d \in Components : reg'[d] = reg[d]
    BY <1>r, <1>1, DaemonAssumption, RegistryUpdates DEF CreateWriter
  <2>2. QED
    BY <1>0, <1>1, <2>1 DEF CreateWriter
<1>2. CASE FlagWriter
  BY <1>0, <1>2 DEF FlagWriter
<1>3. CASE StartWriter
  BY <1>0, <1>3 DEF StartWriter
<1>4. CASE Push
  <2>1. /\ Order[next] \in Components /\ next \in 1..Len(Order)
        /\ \A i \in 1..Len(Order) : i > next => Order[i] # Order[next]
    BY <1>0, <1>4, AtComponent, LaterIsOther DEF Push
  <2>2. CASE Order[next] \in Enabled
    BY <1>0, <1>4, <2>1, <2>2 DEF Push
  <2>3. CASE Order[next] \notin Enabled
    <3>1. sup[Order[next]] = "none"
      BY <2>1, <2>3 DEF Placed
    <3>2. \A d \in Components : d # Order[next] => reg'[d] = reg[d]
      BY <1>r, <1>4, <2>1, <2>3, OthersKept DEF Push
    <3>3. QED
      BY <1>0, <1>4, <2>1, <2>3, <3>1, <3>2 DEF Push
  <2>4. QED
    BY <2>2, <2>3
<1>5. CASE StartSupervisor
  BY <1>0, <1>5 DEF StartSupervisor
<1>6. CASE Started
  BY <1>0, <1>6 DEF Started
<1>7. CASE LeaveLoop
  <2>1. \A d \in Components : reg'[d] = reg[d]
    BY <1>r, <1>7, DaemonAssumption, RegistryUpdates DEF LeaveLoop
  <2>2. QED
    BY <1>0, <1>7, <2>1 DEF LeaveLoop
<1>8. CASE AbortAll
  BY <1>0, <1>8 DEF AbortAll
<1>9. CASE JoinSupervisors
  BY <1>0, <1>9 DEF JoinSupervisors
<1>10. CASE RunnerStopsWriter
  BY <1>0, <1>10 DEF RunnerStopsWriter
<1>11. CASE RunnerJoinsWriter
  BY <1>0, <1>11 DEF RunnerJoinsWriter
<1>12. CASE Shutdown
  BY <1>0, <1>12 DEF Shutdown
<1>13. CASE CallerAborts
  BY <1>0, <1>13 DEF CallerAborts
<1>14. CASE CallerStopsWriter
  BY <1>0, <1>14 DEF CallerStopsWriter
<1>15. CASE CallerJoinsWriter
  BY <1>0, <1>15 DEF CallerJoinsWriter
<1>16. CASE CallerAbortsAgain
  BY <1>0, <1>16 DEF CallerAbortsAgain
<1>17. CASE CallerFinishes
  BY <1>0, <1>17 DEF CallerFinishes
<1>18. ASSUME NEW c \in Components, Check(c) PROVE EndedShownDown'
  BY <1>0, <1>18 DEF Check
<1>19. ASSUME NEW c \in Components, Launch(c) PROVE EndedShownDown'
  <2>1. \A d \in Components : d # c => reg'[d] = reg[d]
    BY <1>r, <1>19, OthersKept DEF Launch
  <2>2. sup'[c] = "running"
    BY <1>0, <1>19 DEF Launch
  <2>3. QED
    BY <1>0, <1>19, <2>1, <2>2 DEF Launch
<1>20. ASSUME NEW c \in Components, LaunchFails(c) PROVE EndedShownDown'
  <2>1. \A d \in Components : d # c => reg'[d] = reg[d]
    BY <1>r, <1>20, OthersKept DEF LaunchFails
  <2>2. sup'[c] = "launch"
    BY <1>0, <1>20 DEF LaunchFails
  <2>3. QED
    BY <1>0, <1>20, <2>1, <2>2 DEF LaunchFails
<1>21. ASSUME NEW c \in Components, MarksItself(c) PROVE EndedShownDown'
  <2>1. \A d \in Components : d # c => reg'[d] = reg[d]
    BY <1>r, <1>21, OthersKept DEF MarksItself
  <2>2. sup'[c] = "running"
    BY <1>0, <1>21 DEF MarksItself
  <2>3. QED
    BY <1>0, <1>21, <2>1, <2>2 DEF MarksItself
<1>22. ASSUME NEW c \in Components, Returns(c) PROVE EndedShownDown'
  <2>1. \A d \in Components : d # c => reg'[d] = reg[d]
    BY <1>r, <1>22, OthersKept DEF Returns
  <2>2. reg'[c].status = "error"
    BY <1>r, <1>22, RegistryUpdates DEF Returns
  <2>3. QED
    BY <1>0, <1>22, <2>1, <2>2 DEF Returns
<1>23. ASSUME NEW c \in Components, Bump(c) PROVE EndedShownDown'
  <2>1. \A d \in Components : d # c => reg'[d] = reg[d]
    BY <1>r, <1>23, OthersKept DEF Bump
  <2>2. reg[c].status = "error"
    BY <1>0, <1>23 DEF Bump
  <2>3. Current(reg, c) = reg[c]
    BY <2>2 DEF Current, NoEntry
  <2>4. reg'[c].status = "error"
    BY <1>r, <1>23, <2>2, <2>3, RegistryUpdates DEF Bump
  <2>5. QED
    BY <1>0, <1>23, <2>1, <2>4 DEF Bump
<1>24. ASSUME NEW c \in Components, Wake(c) PROVE EndedShownDown'
  BY <1>0, <1>24 DEF Wake
<1>25. CASE WriterEnds \/ Flush \/ UNCHANGED vars
  BY <1>25 DEF WriterEnds, Flush, vars
<1>26. QED
  BY <1>1, <1>2, <1>3, <1>4, <1>5, <1>6, <1>7, <1>8, <1>9, <1>10,
     <1>11, <1>12, <1>13, <1>14, <1>15, <1>16, <1>17, <1>18, <1>19, <1>20,
     <1>21, <1>22, <1>23, <1>24, <1>25
  DEF Next, Runner, Caller, Supervisor, SupervisorStep

-----------------------------------------------------------------------------
(* The theorems *)

LEMMA InvInit == Init => IInv
<1> SUFFICES ASSUME Init PROVE IInv
  OBVIOUS
<1>1. TypeOK /\ StartsOne
  BY TypeInit
<1>2. \A i \in 1..Len(Order) : Order[i] \in Components
  BY ComponentsAreNames
<1>3. Placed /\ Created /\ Joined /\ LateOnce /\ EndedShownDown
  BY <1>2 DEF Init, Placed, Created, Joined, LateOnce, AbortedAll, EndedShownDown
<1>4. QED
  BY <1>1, <1>3 DEF IInv

LEMMA InvStep == IInv /\ [Next]_vars => IInv'
BY TypeStep, PlacedStep, CreatedStep, JoinedStep, LateStep, DownStep DEF IInv

LEMMA Invariant == Spec => []IInv
BY InvInit, InvStep, PTL DEF Spec

\* The daemon's state is well typed: every backoff within its bounds, every thread
\* at a place of its function.
THEOREM TypeCorrect == Spec => []TypeOK
<1>1. IInv => TypeOK
  BY DEF IInv
<1>2. QED
  BY <1>1, Invariant, PTL

\* A daemon whose promise says it has stopped has no supervisor's thread left,
\* whatever its components return and whenever shutdown came.
THEOREM StopJoinsAll == Spec => []StoppedMeansEnded
<1>1. IInv => StoppedMeansEnded
  BY DEF IInv, Joined, StoppedMeansEnded
<1>2. QED
  BY <1>1, Invariant, PTL

\* A supervisor that abort() was called for launches its component at most once more:
\* from that abort on, or, when start() set the flag back after it, from the runner's
\* own abort of all of them.
THEOREM AbortIsHeeded == Spec => []LaunchedOnceAfterAbort
<1>1. IInv => LaunchedOnceAfterAbort
  <2>1. SUFFICES ASSUME IInv, NEW c \in Components, late[c] > 1
                 PROVE  Forgot(c) /\ ~AbortedAll
    BY DEF LaunchedOnceAfterAbort
  <2>2. late[c] # 0 /\ late[c] # 1
    BY <2>1
  <2>3. c \in told /\ ~aborted[c] /\ sup[c] # "none"
    BY <2>1, <2>2 DEF IInv, LateOnce
  <2>4. QED
    BY <2>1, <2>3 DEF IInv, LateOnce, Forgot
<1>2. QED
  BY <1>1, Invariant, PTL

\* A component whose run has ended is shown as down until it is launched again.
THEOREM DownIsShown == Spec => []EndedShownDown
<1>1. IInv => EndedShownDown
  BY DEF IInv
<1>2. QED
  BY <1>1, Invariant, PTL
=============================================================================
