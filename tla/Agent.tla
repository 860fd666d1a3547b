-------------------------------- MODULE Agent -------------------------------
(***************************************************************************)
(* An agent's turns (src/src/agent/agent.cpp): the history it keeps, the   *)
(* loop of provider calls and tool calls, and the retries of the provider  *)
(* (ReliableProvider, src/src/providers/other_providers.cpp).  The system  *)
(* prompt is put in front of an empty history and kept by every trim, so   *)
(* it is a flag beside the other messages: the user's, the assistant's     *)
(* text, its tool calls, and their results.  The provider, the tools and   *)
(* the memory may throw, which ends the turn where it is.                  *)
(***************************************************************************)
EXTENDS Integers, Sequences

CONSTANTS
    MaxHistory,      \* max_history_messages
    MaxIterations,   \* max_tool_iterations
    MaxRetries,      \* max_retries of the ReliableProvider
    MaxTurns         \* bound: turns begun

ASSUME AgentAssumption ==
    /\ MaxHistory \in Nat /\ MaxIterations \in Nat \ {0}
    /\ MaxRetries \in Nat /\ MaxTurns \in Nat

VARIABLES
    primed,     \* history_ begins with the system prompt
    talk,       \* its other messages
    phase,      \* "idle", "asking" the provider, or running "tools"
    iter,       \* the loop's counter
    attempt,    \* the provider's
    turns,      \* turns begun
    since,      \* history: messages of this turn, from the user's on
    failures,   \* history: turns that ended by an exception since the last trim
    toolThrew,  \* history: a tool has thrown since the history was cleared
    dropped     \* history: a trim has dropped a message since then

agentVars == <<primed, talk, phase, iter, attempt, turns, since, failures, toolThrew, dropped>>

Messages == {"user", "text", "calls", "results"}

\* A turn that ends by an exception leaves its messages untrimmed; nothing else lets the
\* history outgrow its limit by more than one iteration's messages (agent.cpp:174-204).
AgentTypeOK ==
    /\ primed \in BOOLEAN /\ toolThrew \in BOOLEAN /\ dropped \in BOOLEAN
    /\ talk \in Seq(Messages)
    /\ phase \in {"idle", "asking", "tools"}
    /\ iter \in 0..(MaxIterations - 1) /\ attempt \in 0..MaxRetries
    /\ turns \in Nat /\ since \in Nat /\ failures \in Nat
    /\ Len(talk) <= MaxHistory + 3 * failures + (IF phase = "idle" THEN 0 ELSE 3)

AgentInit ==
    /\ primed = FALSE /\ talk = <<>>
    /\ phase = "idle" /\ iter = 0 /\ attempt = 0 /\ turns = 0 /\ since = 0
    /\ failures = 0 /\ toolThrew = FALSE /\ dropped = FALSE

\* The trim if it dropped the newest messages, and if it kept one too few.
TrimmedBack(t) == IF Len(t) <= MaxHistory THEN t ELSE SubSeq(t, 1, MaxHistory)
TrimmedShort(t) ==
    IF Len(t) < MaxHistory THEN t ELSE SubSeq(t, Len(t) - MaxHistory + 2, Len(t))

\* trim_history
Trimmed(t) ==
    IF Len(t) <= MaxHistory THEN t ELSE SubSeq(t, Len(t) - MaxHistory + 1, Len(t))

EndTurn == phase' = "idle" /\ iter' = 0 /\ attempt' = 0 /\ since' = 0

\* The system prompt, then the memory, then the user's message.
StartTurn ==
    /\ phase = "idle" /\ turns < MaxTurns
    /\ turns' = turns + 1
    /\ primed' = TRUE
    /\ talk' = Append(talk, "user")
    /\ phase' = "asking" /\ since' = 1
    /\ UNCHANGED <<iter, attempt, failures, toolThrew, dropped>>

\* Storing or recalling throws before the message is in the history.
MemoryThrows ==
    /\ phase = "idle" /\ turns < MaxTurns
    /\ turns' = turns + 1
    /\ primed' = TRUE
    /\ UNCHANGED <<talk, phase, iter, attempt, since, failures, toolThrew, dropped>>

\* The provider throws and is asked again.
RetryProvider ==
    /\ phase = "asking" /\ attempt < MaxRetries
    /\ attempt' = attempt + 1
    /\ UNCHANGED <<primed, talk, phase, iter, turns, since, failures, toolThrew, dropped>>

\* The retries if the last failure began them again.
ProviderRestarts ==
    /\ phase = "asking" /\ attempt = MaxRetries
    /\ attempt' = 0
    /\ UNCHANGED <<primed, talk, phase, iter, turns, since, failures, toolThrew, dropped>>

\* It throws once too often: the turn ends without a trim.
ProviderThrows ==
    /\ phase = "asking" /\ attempt = MaxRetries
    /\ EndTurn
    /\ failures' = failures + 1
    /\ UNCHANGED <<primed, talk, turns, toolThrew, dropped>>

NoteTrim(t) == dropped' = (dropped \/ Len(t) > MaxHistory) /\ failures' = 0

\* No call in the answer: it is the turn's result.
FinalAnswer ==
    LET t == Append(talk, "text") IN
    /\ phase = "asking"
    /\ talk' = Trimmed(t) /\ NoteTrim(t)
    /\ EndTurn
    /\ UNCHANGED <<primed, turns, toolThrew>>

\* The text before the calls, if any, and the calls.
AnswerWithCalls ==
    /\ phase = "asking"
    /\ \E said \in {<<"calls">>, <<"text", "calls">>} :
          talk' = talk \o said /\ since' = since + Len(said)
    /\ phase' = "tools" /\ attempt' = 0
    /\ UNCHANGED <<primed, iter, turns, failures, toolThrew, dropped>>

\* All tools return; the last iteration returns the error message instead of asking again.
ToolsReturn ==
    LET t == Append(talk, "results") IN
    /\ phase = "tools"
    /\ talk' = Trimmed(t) /\ NoteTrim(t)
    /\ IF iter + 1 < MaxIterations
       THEN /\ iter' = iter + 1 /\ phase' = "asking"
            /\ since' = since + 1 /\ attempt' = attempt
       ELSE EndTurn
    /\ UNCHANGED <<primed, turns, toolThrew>>

\* A tool throws: the calls stay in the history without results.
ToolThrows ==
    /\ phase = "tools"
    /\ EndTurn
    /\ failures' = failures + 1 /\ toolThrew' = TRUE
    /\ UNCHANGED <<primed, talk, turns, dropped>>

ClearHistory ==
    /\ phase = "idle"
    /\ primed' = FALSE /\ talk' = <<>>
    /\ failures' = 0 /\ toolThrew' = FALSE /\ dropped' = FALSE
    /\ UNCHANGED <<phase, iter, attempt, turns, since>>

\* What a turn does once it has begun: what follows the provider's answer or failure,
\* and what follows the tools', if they ever return.
ProviderStep == RetryProvider \/ ProviderThrows \/ FinalAnswer \/ AnswerWithCalls
ToolStep == ToolsReturn \/ ToolThrows

AgentNext == StartTurn \/ MemoryThrows \/ ClearHistory \/ ProviderStep \/ ToolStep

AgentSpec == AgentInit /\ [][AgentNext]_agentVars

-----------------------------------------------------------------------------
(* Properties *)

\* Results follow their calls, except in front of a history a trim has cut between the
\* two; calls are followed by their results, except those whose tools are running and
\* those of a turn that a tool ended by an exception (agent.cpp:46-72, 188-204).
HistoryPaired ==
    \A i \in 1..Len(talk) :
        /\ talk[i] = "results" =>
              IF i = 1 THEN dropped ELSE talk[i - 1] = "calls"
        /\ talk[i] = "calls" =>
              \/ toolThrew
              \/ IF i = Len(talk) THEN phase = "tools" ELSE talk[i + 1] = "results"

\* As long as the limit of messages leaves room for the iterations of one turn, the trims
\* during the turn never drop the message the user is to be answered (agent.cpp:46-72,
\* 163-204; the defaults of agent.hpp:35-36 leave it).
CurrentUserKept ==
    MaxHistory >= 1 + 3 * (MaxIterations - 1) /\ phase # "idle" =>
        since <= Len(talk) /\ talk[Len(talk) - since + 1] = "user"

\* Every turn ends, since the answers, the iterations and the retries are bounded, unless
\* one of its tools never returns: the shell tool looks at its timeout only after fgets
\* has returned and then waits in pclose (shell.cpp:126-147).
TurnEnds == (phase # "idle" ~> phase = "idle") \/ <>[](phase = "tools")
=============================================================================
