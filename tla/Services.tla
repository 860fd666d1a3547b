------------------------------ MODULE Services ------------------------------
(***************************************************************************)
(* The services of one process that share nothing but its threads and its  *)
(* clock: the gateway's rate limiter and its idempotency keys, the pairing *)
(* guard, the budget of actions, the cost tracker, and an agent's turns.   *)
(* No object of one is reached from another, so what they do together is   *)
(* what each does alone, and a behaviour exercises one of them, chosen at  *)
(* the start: the states to check are the sum of theirs and not their      *)
(* product.                                                                *)
(***************************************************************************)
EXTENDS Gateway, Pairing, ActionBudget, CostTracker, Agent

VARIABLE subject   \* the service this behaviour is about

Subjects == {"limiter", "idempotency", "pairing", "budget", "cost", "agent"}

\* Each service's variables but the clock
gatewayOwn == <<reading, serial, lag, limiter, store>>
pairingOwn == <<code, tokens, failed, trying, misses, epoch>>
budgetOwn  == <<actions, cleared, records, ran>>
costOwn    == <<log, monthLog, cache, usage, usages>>

servicesVars == <<subject, now, gatewayOwn, pairingOwn, budgetOwn, costOwn, agentVars>>

ServicesTypeOK ==
    /\ subject \in Subjects
    /\ GatewayTypeOK
    /\ PairingTypeOK
    /\ BudgetTypeOK
    /\ CostTypeOK
    /\ AgentTypeOK

Init ==
    /\ subject \in Subjects
    /\ GatewayInit /\ PairingInit /\ BudgetInit /\ CostInit /\ AgentInit
    /\ code \/ subject = "pairing"   \* one start for those that do not read the code

LimiterStep ==
    /\ subject = "limiter" /\ LimiterNext
    /\ UNCHANGED <<subject, pairingOwn, budgetOwn, costOwn, agentVars>>

IdempotencyStep ==
    /\ subject = "idempotency" /\ IdempotencyNext
    /\ UNCHANGED <<subject, pairingOwn, budgetOwn, costOwn, agentVars>>

PairingStep ==
    /\ subject = "pairing" /\ PairingNext
    /\ UNCHANGED <<subject, gatewayOwn, budgetOwn, costOwn, agentVars>>

BudgetStep ==
    /\ subject = "budget" /\ BudgetNext
    /\ UNCHANGED <<subject, gatewayOwn, pairingOwn, costOwn, agentVars>>

CostStep ==
    /\ subject = "cost" /\ CostNext
    /\ UNCHANGED <<subject, gatewayOwn, pairingOwn, budgetOwn, agentVars>>

AgentStep ==
    /\ subject = "agent" /\ AgentNext
    /\ UNCHANGED <<subject, now, gatewayOwn, pairingOwn, budgetOwn, costOwn>>

AgentGoesOn ==
    /\ subject = "agent" /\ ProviderStep
    /\ UNCHANGED <<subject, now, gatewayOwn, pairingOwn, budgetOwn, costOwn>>

Next ==
    \/ LimiterStep \/ IdempotencyStep \/ PairingStep
    \/ BudgetStep \/ CostStep \/ AgentStep

Spec == Init /\ [][Next]_servicesVars

\* A turn that asks the provider goes on: its requests have timeouts
\* (http_client.cpp:178-180).  A tool need not return.
FairSpec == Spec /\ WF_servicesVars(AgentGoesOn)
=============================================================================
