--------------------------- MODULE Services_proofs --------------------------
(***************************************************************************)
(* The services together do what each does alone.  They share the clock    *)
(* and nothing else: a step of one is for another the clock's step or no   *)
(* step at all.  So a behaviour of all of them is one of each, and has     *)
(* what the proofs of each say.                                            *)
(***************************************************************************)
EXTENDS Services, Limits_proofs, Agent_proofs

-----------------------------------------------------------------------------
(* A step of one, seen by another *)

\* Every step of a service moves the clock on and does nothing else, or leaves it.
LEMMA LimiterClock == LimiterNext => TickGateway \/ now' = now
BY DEF LimiterNext, ReadClock, Allow, Refuse, Decided

LEMMA IdempotencyClock == IdempotencyNext => TickGateway \/ now' = now
BY DEF IdempotencyNext, ReadClock, RecordNew, Duplicate, Decided

LEMMA PairingClock == PairingNext => TickPairing \/ now' = now
BY DEF PairingNext, CheckLockout, MatchCode, MissCode, CountFailure

LEMMA BudgetClock == BudgetNext => TickBudget \/ now' = now
BY DEF BudgetNext, PassCheck, TurnedAway, Disallowed, Act, Exhausted, Recorded

LEMMA CostClock == CostNext => TickCost \/ now' = now
BY DEF CostNext, LookAtTotals, RestartTracker, WithinBudget, Use, Record, RecordUnread,
       RecordThrows

\* What a step does to the clock, and to the services it is not a step of
LEMMA OneMoves ==
    ASSUME [Next]_servicesVars
    PROVE  /\ subject' = subject
           /\ Tick \/ now' = now
           /\ \/ subject \in {"limiter", "idempotency"}
              \/ UNCHANGED gatewayOwn
           /\ subject = "pairing" \/ UNCHANGED pairingOwn
           /\ subject = "budget" \/ UNCHANGED budgetOwn
           /\ subject = "cost" \/ UNCHANGED costOwn
           /\ subject = "agent" \/ UNCHANGED agentVars
<1>1. CASE LimiterStep
  BY <1>1, LimiterClock DEF LimiterStep, TickGateway
<1>2. CASE IdempotencyStep
  BY <1>2, IdempotencyClock DEF IdempotencyStep, TickGateway
<1>3. CASE PairingStep
  BY <1>3, PairingClock DEF PairingStep, TickPairing
<1>4. CASE BudgetStep
  BY <1>4, BudgetClock DEF BudgetStep, TickBudget
<1>5. CASE CostStep
  BY <1>5, CostClock DEF CostStep, TickCost
<1>6. CASE AgentStep
  BY <1>6 DEF AgentStep
<1>7. CASE UNCHANGED servicesVars
  BY <1>7 DEF servicesVars
<1>8. QED
  BY <1>1, <1>2, <1>3, <1>4, <1>5, <1>6, <1>7 DEF Next

\* A step of the subject is one that its service takes.
LEMMA SubjectMoves ==
    ASSUME [Next]_servicesVars, ~UNCHANGED servicesVars
    PROVE  /\ subject = "limiter" => LimiterNext
           /\ subject = "idempotency" => IdempotencyNext
           /\ subject = "pairing" => PairingNext
           /\ subject = "budget" => BudgetNext
           /\ subject = "cost" => CostNext
           /\ subject = "agent" => AgentNext
BY DEF Next, LimiterStep, IdempotencyStep, PairingStep, BudgetStep, CostStep, AgentStep

\* Each step of all of them is a step of each, or no step of it.
LEMMA EachSteps ==
    ASSUME [Next]_servicesVars
    PROVE  /\ [PairingNext]_pairingVars
           /\ [BudgetNext]_budgetVars
           /\ [CostNext]_costVars
           /\ [AgentNext]_agentVars
           /\ subject # "idempotency" => [LimiterNext]_gatewayVars
           /\ subject # "limiter" => [IdempotencyNext]_gatewayVars
<1>1. CASE UNCHANGED servicesVars
  BY <1>1 DEF servicesVars, pairingVars, budgetVars, costVars, gatewayVars,
              pairingOwn, budgetOwn, costOwn, gatewayOwn
<1>2. CASE ~UNCHANGED servicesVars
  <2>1. [PairingNext]_pairingVars
    BY <1>2, OneMoves, SubjectMoves DEF PairingNext, TickPairing, pairingVars, pairingOwn
  <2>2. [BudgetNext]_budgetVars
    BY <1>2, OneMoves, SubjectMoves DEF BudgetNext, TickBudget, budgetVars, budgetOwn
  <2>3. [CostNext]_costVars
    BY <1>2, OneMoves, SubjectMoves DEF CostNext, TickCost, costVars, costOwn
  <2>4. [AgentNext]_agentVars
    BY <1>2, OneMoves, SubjectMoves
  <2>5. ASSUME subject # "idempotency" PROVE [LimiterNext]_gatewayVars
    BY <1>2, <2>5, OneMoves, SubjectMoves DEF LimiterNext, TickGateway, gatewayVars, gatewayOwn
  <2>6. ASSUME subject # "limiter" PROVE [IdempotencyNext]_gatewayVars
    BY <1>2, <2>6, OneMoves, SubjectMoves
       DEF IdempotencyNext, TickGateway, gatewayVars, gatewayOwn
  <2>7. QED
    BY <2>1, <2>2, <2>3, <2>4, <2>5, <2>6
<1>3. QED
  BY <1>1, <1>2

-----------------------------------------------------------------------------
(* The specifications of each *)

\* Whatever the behaviour is about, the pairing guard, the budget, the tracker and the
\* agent go through one of their own behaviours in it.
THEOREM EachAlone == Spec => PairingSpec /\ BudgetSpec /\ CostSpec /\ AgentSpec
<1>1. Init => PairingInit /\ BudgetInit /\ CostInit /\ AgentInit
  BY DEF Init
<1>2. [Next]_servicesVars => /\ [PairingNext]_pairingVars
                             /\ [BudgetNext]_budgetVars
                             /\ [CostNext]_costVars
                             /\ [AgentNext]_agentVars
  BY EachSteps
<1>3. QED
  BY <1>1, <1>2, PTL DEF Spec, PairingSpec, BudgetSpec, CostSpec, AgentSpec

\* So do the two objects of the gateway, which are two uses of one table's form.
THEOREM GatewayAlone ==
    Spec => /\ subject # "idempotency" => LimiterSpec
            /\ subject # "limiter" => IdempotencySpec
<1> DEFINE NotKeys == subject # "idempotency"
           NotLimiter == subject # "limiter"
<1>1. Init => GatewayInit
  BY DEF Init
<1>2. NotKeys /\ [Next]_servicesVars => NotKeys' /\ [LimiterNext]_gatewayVars
  BY EachSteps, OneMoves
<1>3. NotLimiter /\ [Next]_servicesVars => NotLimiter' /\ [IdempotencyNext]_gatewayVars
  BY EachSteps, OneMoves
<1> HIDE DEF NotKeys, NotLimiter
<1>4. Spec => /\ NotKeys => LimiterSpec
              /\ NotLimiter => IdempotencySpec
  BY <1>1, <1>2, <1>3, PTL DEF Spec, LimiterSpec, IdempotencySpec
<1>5. QED
  BY <1>4 DEF NotKeys, NotLimiter

-----------------------------------------------------------------------------
(* What follows for them together *)

\* The object that is not used has nothing in its history.
LEMMA NothingGranted == IdempotencySpec => [](granted = {})
<1>1. GatewayInit => granted = {}
  BY DEF GatewayInit
<1>2. granted = {} /\ [IdempotencyNext]_gatewayVars => (granted = {})'
  BY DEF IdempotencyNext, TickGateway, ReadClock, RecordNew, Duplicate, gatewayVars, limiter
<1>3. QED
  BY <1>1, <1>2, PTL DEF IdempotencySpec

LEMMA NothingFresh == LimiterSpec => [](fresh = {})
<1>1. GatewayInit => fresh = {}
  BY DEF GatewayInit
<1>2. fresh = {} /\ [LimiterNext]_gatewayVars => (fresh = {})'
  BY DEF LimiterNext, TickGateway, ReadClock, Allow, Refuse, gatewayVars, store
<1>3. QED
  BY <1>1, <1>2, PTL DEF LimiterSpec

LEMMA SubjectStays == Spec => [](subject \in Subjects)
<1>1. Init => subject \in Subjects
  BY DEF Init
<1>2. subject \in Subjects /\ [Next]_servicesVars => (subject \in Subjects)'
  BY OneMoves
<1>3. QED
  BY <1>1, <1>2, PTL DEF Spec

\* Every state of the services has its type, whichever of them the behaviour is about.
THEOREM ServicesTypeCorrect == Spec => []ServicesTypeOK
<1> DEFINE NotKeys == subject # "idempotency"
           NotLimiter == subject # "limiter"
<1>1. NotKeys \/ NotLimiter
  OBVIOUS
<1> HIDE DEF NotKeys, NotLimiter
<1>2. Spec => (NotKeys => LimiterSpec) /\ (NotLimiter => IdempotencySpec)
  BY GatewayAlone DEF NotKeys, NotLimiter
<1>3. (subject \in Subjects /\ GatewayTypeOK /\ PairingTypeOK /\ BudgetTypeOK
          /\ CostTypeOK /\ AgentTypeOK)
      => ServicesTypeOK
  BY DEF ServicesTypeOK
<1>4. QED
  BY <1>1, <1>2, <1>3, EachAlone, SubjectStays, LimiterTypeCorrect, StoreTypeCorrect,
     PairingTypeCorrect, BudgetTypeCorrect, CostTypeCorrect, AgentTypeCorrect, PTL

\* The bounds of the gateway hold with the other services beside it.
THEOREM GatewayHolds == Spec => [](WithinLimit /\ FreshOnce)
<1> DEFINE NotKeys == subject # "idempotency"
           NotLimiter == subject # "limiter"
<1>1. NotKeys \/ NotLimiter
  OBVIOUS
<1> HIDE DEF NotKeys, NotLimiter
<1>2. Spec => (NotKeys => LimiterSpec) /\ (NotLimiter => IdempotencySpec)
  BY GatewayAlone DEF NotKeys, NotLimiter
<1>3. granted = {} => WithinLimit
  BY DEF WithinLimit
<1>4. fresh = {} => FreshOnce
  BY DEF FreshOnce
<1>5. QED
  BY <1>1, <1>2, <1>3, <1>4, NothingGranted, NothingFresh, LimitHolds, NewOnlyOnce, PTL

\* So do the bounds of the others.
THEOREM ServicesHold ==
    Spec => /\ [](GuessesBounded /\ ActionsWithinBudget /\ AttemptsBounded
                    /\ TotalsCoverLog /\ OverspendBounded /\ HistoryPaired /\ CurrentUserKept)
            /\ LockHolds
BY EachAlone, GuessesHold, BudgetHolds, AttemptsHold, TotalsHold, OverspendHolds,
   HistoryStaysPaired, UserStays, LocksHold, PTL
=============================================================================
