---------------------------- MODULE ActionBudget ----------------------------
(***************************************************************************)
(* The budget of actions per hour that tools share (ActionTracker of       *)
(* src/src/security/policy.hpp, SecurityPolicy::is_rate_limited and        *)
(* record_action), as the shell and file_read tools use it: a check of the *)
(* rate, the validation of the command or path, then the record of the     *)
(* action, which counts it whether or not it fits.                         *)
(***************************************************************************)
EXTENDS Callers

CONSTANTS
    MaxActions,   \* max_actions_per_hour
    Hour,
    MaxRecords    \* bound: no call begins after so many records

ASSUME BudgetAssumption ==
    /\ MaxActions \in Nat /\ Hour \in Nat \ {0} /\ MaxRecords \in Nat

VARIABLES
    actions,   \* actions_: a set of [at, no], no the order of insertion
    cleared,   \* the threads whose tool has passed the check of the rate
    records,   \* the actions recorded so far
    ran        \* history: those that were carried out

budgetVars == <<now, actions, cleared, records, ran>>

BudgetTypeOK ==
    /\ now \in Times
    /\ records \in Nat
    /\ cleared \subseteq Callers
    /\ \A T \in {actions, ran} :
          /\ T \subseteq [at : Times, no : Nat]
          /\ \A a \in T : a.at <= now /\ a.no < records
    /\ IsFiniteSet(actions)

BudgetInit == now = 0 /\ actions = {} /\ cleared = {} /\ records = 0 /\ ran = {}

\* Both count and record drop what is an hour old.
Recent == {a \in actions : a.at > now - Hour}

\* The tools without the check of the rate.
PassUnchecked(c) ==
    /\ c \notin cleared
    /\ records < MaxRecords
    /\ actions' = Recent
    /\ cleared' = cleared \cup {c}
    /\ UNCHANGED <<now, records, ran>>

\* is_rate_limited
PassCheck(c) ==
    /\ c \notin cleared
    /\ records < MaxRecords
    /\ Cardinality(Recent) < MaxActions
    /\ actions' = Recent
    /\ cleared' = cleared \cup {c}
    /\ UNCHANGED <<now, records, ran>>

TurnedAway(c) ==
    /\ c \notin cleared
    /\ Cardinality(Recent) >= MaxActions
    /\ actions' = Recent
    /\ UNCHANGED <<now, cleared, records, ran>>

\* The policy does not allow the command or the path: nothing is recorded.
Disallowed(c) ==
    /\ c \in cleared
    /\ cleared' = cleared \ {c}
    /\ UNCHANGED <<now, actions, records, ran>>

Recorded(c) ==
    /\ c \in cleared
    /\ cleared' = cleared \ {c}
    /\ actions' = Recent \cup {[at |-> now, no |-> records]}
    /\ records' = records + 1
    /\ now' = now

\* The tool if it did not look at what record_action returns.
ActAnyway(c) ==
    /\ Recorded(c)
    /\ ran' = ran \cup {[at |-> now, no |-> records]}

\* record_action, and the tool goes on or gives up.
Act(c) ==
    /\ Recorded(c)
    /\ Cardinality(Recent) + 1 <= MaxActions
    /\ ran' = ran \cup {[at |-> now, no |-> records]}

Exhausted(c) ==
    /\ Recorded(c)
    /\ Cardinality(Recent) + 1 > MaxActions
    /\ ran' = ran

TickBudget == Tick /\ UNCHANGED <<actions, cleared, records, ran>>

BudgetNext ==
    \/ TickBudget
    \/ \E c \in Callers : \/ PassCheck(c) \/ TurnedAway(c) \/ Disallowed(c)
                          \/ Act(c) \/ Exhausted(c)

BudgetSpec == BudgetInit /\ [][BudgetNext]_budgetVars

-----------------------------------------------------------------------------
(* Properties *)

\* In any hour at most MaxActions actions are carried out, however the checks and the
\* records of several tools interleave (shell.cpp:71 and 88, policy.hpp:75).
ActionsWithinBudget ==
    \A r \in ran :
        Cardinality({x \in ran : x.at <= r.at /\ x.at > r.at - Hour}) <= MaxActions

\* An action that is refused is counted all the same and keeps later ones out for an
\* hour, but only those of the tools that had passed the check: the hour holds at most
\* one less than the budget and one for each thread, the ones still on their way
\* included (policy.cpp:721-728).
AttemptsBounded ==
    Cardinality(Recent) + Cardinality(cleared) <= MaxActions - 1 + Cardinality(Callers)
=============================================================================
