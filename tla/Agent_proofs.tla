---------------------------- MODULE Agent_proofs ----------------------------
(***************************************************************************)
(* An agent's history, for any limits of the messages, the iterations and  *)
(* the retries.  The history is a sequence that only grows at its end and  *)
(* is only cut at its front, and the argument follows its last messages:   *)
(* calls are last exactly while their tools run, and the messages of the   *)
(* turn are at most three for each iteration and one.                      *)
(***************************************************************************)
EXTENDS Agent, SequenceTheorems, TLAPS

-----------------------------------------------------------------------------
(* Sequences of messages *)

\* One message more
LEMMA MessageMore ==
    ASSUME NEW s \in Seq(Messages), NEW m \in Messages
    PROVE  /\ Append(s, m) \in Seq(Messages)
           /\ Len(Append(s, m)) = Len(s) + 1
           /\ \A i \in 1..Len(s) : Append(s, m)[i] = s[i]
           /\ Append(s, m)[Len(s) + 1] = m
           /\ Len(s) \in Nat
OBVIOUS

\* What an answer with calls adds
Answers == {<<"calls">>, <<"text", "calls">>}

\* An answer with calls, with and without a text before them
LEMMA CallsMore ==
    ASSUME NEW s \in Seq(Messages), NEW said \in Answers,
           NEW u, u = s \o said
    PROVE  /\ u \in Seq(Messages)
           /\ Len(s) \in Nat /\ Len(u) \in Nat /\ Len(u) > Len(s)
           /\ Len(u) = Len(s) + Len(said)
           /\ \A i \in 1..Len(s) : u[i] = s[i]
           /\ u[Len(u)] = "calls"
           /\ \/ Len(u) = Len(s) + 1
              \/ Len(u) = Len(s) + 2 /\ u[Len(s) + 1] = "text"
<1>1. CASE said = <<"calls">>
  BY <1>1 DEF Messages
<1>2. CASE said = <<"text", "calls">>
  BY <1>2 DEF Messages
<1>3. QED
  BY <1>1, <1>2 DEF Answers

\* The trim keeps the last messages.
LEMMA TrimSays ==
    ASSUME NEW t \in Seq(Messages)
    PROVE  /\ Trimmed(t) \in Seq(Messages)
           /\ Len(Trimmed(t)) = IF Len(t) <= MaxHistory THEN Len(t) ELSE MaxHistory
           /\ \A i \in 1..Len(Trimmed(t)) :
                 Trimmed(t)[i] = t[Len(t) - Len(Trimmed(t)) + i]
           /\ Len(t) \in Nat
<1>1. CASE Len(t) <= MaxHistory
  BY <1>1 DEF Trimmed
<1>2. CASE ~(Len(t) <= MaxHistory)
  <2>1. Trimmed(t) = SubSeq(t, Len(t) - MaxHistory + 1, Len(t))
    BY <1>2 DEF Trimmed
  <2>2. /\ Len(t) \in Nat /\ Len(t) - MaxHistory + 1 \in 1..(Len(t) + 1)
        /\ Len(t) - (Len(t) - MaxHistory + 1) + 1 = MaxHistory
    BY <1>2, AgentAssumption
  <2>3. /\ SubSeq(t, Len(t) - MaxHistory + 1, Len(t)) \in Seq(Messages)
        /\ Len(SubSeq(t, Len(t) - MaxHistory + 1, Len(t))) = MaxHistory
        /\ \A i \in 1..MaxHistory :
              SubSeq(t, Len(t) - MaxHistory + 1, Len(t))[i] = t[Len(t) - MaxHistory + i]
    BY <2>2, AgentAssumption
  <2>4. QED
    BY <1>2, <2>1, <2>2, <2>3, AgentAssumption
<1>3. QED
  BY <1>1, <1>2

-----------------------------------------------------------------------------
(* Types *)

\* While the provider is asked there is room for the calls.
AskingShort == phase = "asking" => Len(talk) <= MaxHistory + 3 * failures + 1

TypeInv == AgentTypeOK /\ AskingShort

LEMMA TypeInductive == TypeInv /\ [AgentNext]_agentVars => TypeInv'
<1> SUFFICES ASSUME TypeInv, [AgentNext]_agentVars
             PROVE  TypeInv'
  OBVIOUS
<1>1. /\ talk \in Seq(Messages) /\ Len(talk) \in Nat
      /\ primed \in BOOLEAN /\ toolThrew \in BOOLEAN /\ dropped \in BOOLEAN
      /\ phase \in {"idle", "asking", "tools"}
      /\ iter \in 0..(MaxIterations - 1) /\ attempt \in 0..MaxRetries
      /\ turns \in Nat /\ since \in Nat /\ failures \in Nat
      /\ Len(talk) <= MaxHistory + 3 * failures + (IF phase = "idle" THEN 0 ELSE 3)
      /\ phase = "asking" => Len(talk) <= MaxHistory + 3 * failures + 1
  BY DEF TypeInv, AgentTypeOK, AskingShort
<1>2. /\ MaxHistory \in Nat /\ MaxIterations \in Nat \ {0} /\ MaxRetries \in Nat
      /\ 0 \in 0..(MaxIterations - 1) /\ 0 \in 0..MaxRetries
  BY AgentAssumption
<1>3. ASSUME NEW m \in Messages
      PROVE  /\ Append(talk, m) \in Seq(Messages)
             /\ Len(Append(talk, m)) = Len(talk) + 1
             /\ Trimmed(Append(talk, m)) \in Seq(Messages)
             /\ Len(Trimmed(Append(talk, m))) <= MaxHistory
             /\ Len(Trimmed(Append(talk, m))) \in Nat
  <2>1. PICK t \in Seq(Messages) : t = Append(talk, m) /\ Len(t) = Len(talk) + 1
    BY <1>1, MessageMore
  <2>2. Trimmed(t) \in Seq(Messages) /\ Len(Trimmed(t)) <= MaxHistory /\ Len(Trimmed(t)) \in Nat
    BY <1>2, TrimSays
  <2>3. QED
    BY <2>1, <2>2
<1>4. CASE StartTurn
  BY <1>1, <1>2, <1>3, <1>4 DEF StartTurn, TypeInv, AgentTypeOK, AskingShort, Messages
<1>5. CASE MemoryThrows \/ RetryProvider \/ UNCHANGED agentVars
  <2>1. /\ UNCHANGED <<talk, phase, iter, since, failures, toolThrew, dropped>>
    BY <1>5 DEF MemoryThrows, RetryProvider, agentVars
  <2>2. primed' \in BOOLEAN
    BY <1>1, <1>5, Zenon DEF MemoryThrows, RetryProvider, agentVars
  <2>3. attempt' \in 0..MaxRetries /\ turns' \in Nat
    BY <1>1, <1>2, <1>5 DEF MemoryThrows, RetryProvider, agentVars
  <2>4. QED
    BY <1>1, <2>1, <2>2, <2>3 DEF TypeInv, AgentTypeOK, AskingShort
<1>11. CASE ProviderThrows \/ ToolThrows
  <2>1. /\ UNCHANGED <<primed, talk, turns, dropped>>
        /\ phase' = "idle" /\ iter' = 0 /\ attempt' = 0 /\ since' = 0
        /\ failures' = failures + 1 /\ toolThrew' \in BOOLEAN
    BY <1>1, <1>11 DEF ProviderThrows, ToolThrows, EndTurn
  <2>2. QED
    BY <1>1, <1>2, <2>1 DEF TypeInv, AgentTypeOK, AskingShort
<1>6. CASE ClearHistory
  <2>1. talk' \in Seq(Messages) /\ Len(talk') = 0
    BY <1>6 DEF ClearHistory
  <2>2. /\ phase' = "idle" /\ UNCHANGED <<iter, attempt, turns, since>>
        /\ failures' = 0
    BY <1>6 DEF ClearHistory
  <2>3. primed' \in BOOLEAN /\ toolThrew' \in BOOLEAN /\ dropped' \in BOOLEAN
    BY <1>6, Zenon DEF ClearHistory
  <2>4. QED
    BY <1>1, <1>2, <2>1, <2>2, <2>3 DEF TypeInv, AgentTypeOK, AskingShort
<1>7. CASE FinalAnswer
  <2>1. talk' = Trimmed(Append(talk, "text")) /\ "text" \in Messages
    BY <1>7 DEF FinalAnswer, Messages
  <2>2. talk' \in Seq(Messages) /\ Len(talk') <= MaxHistory /\ Len(talk') \in Nat
    BY <1>3, <2>1
  <2>3. /\ phase' = "idle" /\ iter' = 0 /\ attempt' = 0 /\ since' = 0
        /\ failures' = 0 /\ dropped' \in BOOLEAN
        /\ UNCHANGED <<primed, turns, toolThrew>>
    BY <1>1, <1>7 DEF FinalAnswer, EndTurn, NoteTrim
  <2>4. QED
    BY <1>1, <1>2, <2>2, <2>3 DEF TypeInv, AgentTypeOK, AskingShort
<1>8. CASE AnswerWithCalls
  <2>1. PICK said \in Answers :
           talk' = talk \o said /\ since' = since + Len(said)
    BY <1>8 DEF AnswerWithCalls, Answers
  <2>2. PICK u : u = talk \o said
    OBVIOUS
  <2>3. /\ u \in Seq(Messages) /\ Len(u) = Len(talk) + Len(said) /\ Len(u) \in Nat
        /\ Len(u) = Len(talk) + 1 \/ Len(u) = Len(talk) + 2
    BY <1>1, <2>1, <2>2, CallsMore
  <2>4. since' = since + (Len(u) - Len(talk)) /\ since' \in Nat
    BY <1>1, <2>1, <2>3
  <2>5. QED
    BY <1>1, <1>2, <1>8, <2>1, <2>2, <2>3, <2>4 DEF AnswerWithCalls, TypeInv, AgentTypeOK, AskingShort
<1>9. CASE ToolsReturn
  <2>1. talk' = Trimmed(Append(talk, "results")) /\ "results" \in Messages
    BY <1>9 DEF ToolsReturn, Messages
  <2>2. talk' \in Seq(Messages) /\ Len(talk') <= MaxHistory /\ Len(talk') \in Nat
    BY <1>3, <2>1
  <2>3. /\ failures' = 0 /\ dropped' \in BOOLEAN
        /\ UNCHANGED <<primed, turns, toolThrew>>
        /\ \/ iter' = iter + 1 /\ iter + 1 < MaxIterations /\ phase' = "asking"
              /\ since' = since + 1 /\ attempt' = attempt
           \/ phase' = "idle" /\ iter' = 0 /\ attempt' = 0 /\ since' = 0
    BY <1>1, <1>9 DEF ToolsReturn, EndTurn, NoteTrim
  <2>4. QED
    BY <1>1, <1>2, <2>2, <2>3 DEF TypeInv, AgentTypeOK, AskingShort
<1>10. QED
  BY <1>4, <1>5, <1>11, <1>6, <1>7, <1>8, <1>9 DEF AgentNext, ProviderStep, ToolStep

LEMMA TypeStarts == AgentInit => TypeInv
<1> SUFFICES ASSUME AgentInit PROVE TypeInv
  OBVIOUS
<1>1. talk \in Seq(Messages) /\ Len(talk) = 0
  BY DEF AgentInit
<1>2. /\ phase = "idle" /\ iter = 0 /\ attempt = 0 /\ turns = 0 /\ since = 0
      /\ failures = 0
  BY DEF AgentInit
<1>3. primed \in BOOLEAN /\ toolThrew \in BOOLEAN /\ dropped \in BOOLEAN
  BY Zenon DEF AgentInit
<1>4. QED
  BY <1>1, <1>2, <1>3, AgentAssumption DEF TypeInv, AgentTypeOK, AskingShort

\* The agent's state has its type, and its history outgrows the limit by three messages
\* for each turn that an exception ended, and by three in a turn, at most.
THEOREM AgentTypeCorrect == AgentSpec => []AgentTypeOK
<1>1. TypeInv => AgentTypeOK
  BY DEF TypeInv
<1>2. QED
  BY <1>1, TypeStarts, TypeInductive, PTL DEF AgentSpec

-----------------------------------------------------------------------------
(* Calls and their results *)

\* Calls are last while their tools run.
CallsLast == phase = "tools" => Len(talk) >= 1 /\ talk[Len(talk)] = "calls"

TalkInv == TypeInv /\ CallsLast /\ HistoryPaired

\* What HistoryPaired says of a history
Paired(t, p, threw, cut) ==
    \A i \in 1..Len(t) :
        /\ t[i] = "results" => IF i = 1 THEN cut ELSE t[i - 1] = "calls"
        /\ t[i] = "calls" =>
              \/ threw
              \/ IF i = Len(t) THEN p = "tools" ELSE t[i + 1] = "results"

LEMMA PairedSays == HistoryPaired <=> Paired(talk, phase, toolThrew, dropped)
BY DEF HistoryPaired, Paired

\* The front of a history may be cut off.
LEMMA PairedCut ==
    ASSUME NEW t \in Seq(Messages), NEW p, NEW threw, NEW cut,
           Paired(t, p, threw, cut)
    PROVE  Paired(Trimmed(t), p, threw, cut \/ Len(t) > MaxHistory)
<1> DEFINE s == Trimmed(t)
           k == Len(t) - Len(s)
<1>1. /\ Len(t) \in Nat /\ Len(s) \in Nat /\ k \in Nat
      /\ k = 0 \/ Len(t) > MaxHistory
      /\ \A i \in 1..Len(s) : s[i] = t[k + i] /\ k + i \in 1..Len(t)
      /\ Len(t) = k + Len(s)
  BY TrimSays, AgentAssumption
<1> HIDE DEF s, k
<1>2. ASSUME NEW i \in 1..Len(s), s[i] = "results"
      PROVE  IF i = 1 THEN cut \/ Len(t) > MaxHistory ELSE s[i - 1] = "calls"
  <2>1. t[k + i] = "results" /\ k + i \in 1..Len(t)
    BY <1>1, <1>2
  <2>2. IF k + i = 1 THEN cut ELSE t[(k + i) - 1] = "calls"
    <3>1. PICK j \in 1..Len(t) : j = k + i
      BY <2>1
    <3>2. IF j = 1 THEN cut ELSE t[j - 1] = "calls"
      BY <2>1, <3>1 DEF Paired
    <3>3. QED
      BY <3>1, <3>2
  <2>3. CASE i = 1
    BY <1>1, <2>2, <2>3
  <2>4. CASE i # 1
    <3>1. i - 1 \in 1..Len(s) /\ k + (i - 1) = k + i - 1 /\ k + i # 1
      BY <1>1, <2>4
    <3>2. QED
      BY <1>1, <2>2, <2>4, <3>1
  <2>5. QED
    BY <2>3, <2>4
<1>3. ASSUME NEW i \in 1..Len(s), s[i] = "calls"
      PROVE  \/ threw
             \/ IF i = Len(s) THEN p = "tools" ELSE s[i + 1] = "results"
  <2>1. t[k + i] = "calls" /\ k + i \in 1..Len(t)
    BY <1>1, <1>3
  <2>2. threw \/ IF k + i = Len(t) THEN p = "tools" ELSE t[k + i + 1] = "results"
    BY <2>1 DEF Paired
  <2>3. CASE i = Len(s)
    BY <1>1, <2>2, <2>3
  <2>4. CASE i # Len(s)
    <3>1. i + 1 \in 1..Len(s) /\ k + (i + 1) = k + i + 1 /\ k + i # Len(t)
      BY <1>1, <2>4
    <3>2. QED
      BY <1>1, <2>2, <2>4, <3>1
  <2>5. QED
    BY <2>3, <2>4
<1>4. QED
  BY <1>2, <1>3 DEF Paired, s

\* A message that is neither calls nor results may follow when no tools run.
LEMMA PairedGrows ==
    ASSUME NEW t \in Seq(Messages), NEW p, p # "tools", NEW threw, NEW cut,
           Paired(t, p, threw, cut), NEW m \in {"user", "text"}, NEW q
    PROVE  Paired(Append(t, m), q, threw, cut)
<1>1. /\ Len(Append(t, m)) = Len(t) + 1
      /\ \A i \in 1..Len(t) : Append(t, m)[i] = t[i]
      /\ Append(t, m)[Len(t) + 1] = m
      /\ Len(t) \in Nat
      /\ m # "results" /\ m # "calls"
  BY MessageMore DEF Messages
<1>2. PICK u : u = Append(t, m)
  OBVIOUS
<1>3. ASSUME NEW i \in 1..Len(u)
      PROVE  /\ u[i] = "results" => IF i = 1 THEN cut ELSE u[i - 1] = "calls"
             /\ u[i] = "calls" =>
                   \/ threw
                   \/ IF i = Len(u) THEN q = "tools" ELSE u[i + 1] = "results"
  <2>1. CASE i = Len(t) + 1
    BY <1>1, <1>2, <2>1
  <2>2. CASE i # Len(t) + 1
    <3>1. /\ i \in 1..Len(t) /\ u[i] = t[i]
          /\ i # 1 => i - 1 \in 1..Len(t) /\ u[i - 1] = t[i - 1]
          /\ i # Len(t) => i + 1 \in 1..Len(t) /\ u[i + 1] = t[i + 1]
      BY <1>1, <1>2, <2>2
    <3>2. /\ t[i] = "results" => IF i = 1 THEN cut ELSE t[i - 1] = "calls"
          /\ t[i] = "calls" => threw \/ (i # Len(t) /\ t[i + 1] = "results")
      BY <3>1 DEF Paired
    <3>3. i # Len(u)
      BY <1>1, <1>2, <2>2
    <3>4. QED
      BY <3>1, <3>2, <3>3
  <2>3. QED
    BY <2>1, <2>2
<1>4. QED
  BY <1>2, <1>3 DEF Paired

\* Calls may follow, their tools running.
LEMMA PairedCalls ==
    ASSUME NEW t \in Seq(Messages), NEW p, p # "tools", NEW threw, NEW cut,
           Paired(t, p, threw, cut), NEW said \in Answers
    PROVE  Paired(t \o said, "tools", threw, cut)
<1>1. PICK u : u = t \o said
  OBVIOUS
<1>2. /\ Len(t) \in Nat /\ Len(u) \in Nat /\ Len(u) > Len(t)
      /\ \A i \in 1..Len(t) : u[i] = t[i]
      /\ u[Len(u)] = "calls"
      /\ \/ Len(u) = Len(t) + 1
         \/ Len(u) = Len(t) + 2 /\ u[Len(t) + 1] = "text"
  BY <1>1, CallsMore
<1>3. ASSUME NEW i \in 1..Len(u)
      PROVE  /\ u[i] = "results" => IF i = 1 THEN cut ELSE u[i - 1] = "calls"
             /\ u[i] = "calls" =>
                   \/ threw
                   \/ IF i = Len(u) THEN TRUE ELSE u[i + 1] = "results"
  <2>1. CASE i = Len(u)
    BY <1>2, <2>1
  <2>2. CASE i = Len(t) + 1 /\ Len(u) = Len(t) + 2
    BY <1>2, <2>2
  <2>3. CASE i \in 1..Len(t)
    <3>1. /\ u[i] = t[i]
          /\ i # 1 => i - 1 \in 1..Len(t) /\ u[i - 1] = t[i - 1]
          /\ i # Len(t) => i + 1 \in 1..Len(t) /\ u[i + 1] = t[i + 1]
      BY <1>2, <2>3
    <3>2. /\ t[i] = "results" => IF i = 1 THEN cut ELSE t[i - 1] = "calls"
          /\ t[i] = "calls" => threw \/ (i # Len(t) /\ t[i + 1] = "results")
      BY <2>3 DEF Paired
    <3>3. i # Len(u)
      BY <1>2, <2>3
    <3>4. QED
      BY <3>1, <3>2, <3>3
  <2>4. QED
    BY <1>2, <2>1, <2>2, <2>3
<1>4. QED
  BY <1>1, <1>3 DEF Paired

\* The results follow the calls whose tools ran.
LEMMA PairedResults ==
    ASSUME NEW t \in Seq(Messages), NEW threw, NEW cut, Paired(t, "tools", threw, cut),
           Len(t) >= 1, t[Len(t)] = "calls", NEW q
    PROVE  Paired(Append(t, "results"), q, threw, cut)
<1>1. PICK u : u = Append(t, "results")
  OBVIOUS
<1>2. /\ Len(u) = Len(t) + 1 /\ Len(t) \in Nat
      /\ \A i \in 1..Len(t) : u[i] = t[i]
      /\ u[Len(t) + 1] = "results"
  BY <1>1, MessageMore DEF Messages
<1>3. ASSUME NEW i \in 1..Len(u)
      PROVE  /\ u[i] = "results" => IF i = 1 THEN cut ELSE u[i - 1] = "calls"
             /\ u[i] = "calls" =>
                   \/ threw
                   \/ IF i = Len(u) THEN q = "tools" ELSE u[i + 1] = "results"
  <2>1. CASE i = Len(u)
    BY <1>2, <2>1
  <2>2. CASE i \in 1..Len(t)
    <3>1. /\ u[i] = t[i] /\ i # Len(u)
          /\ i # 1 => i - 1 \in 1..Len(t) /\ u[i - 1] = t[i - 1]
          /\ i # Len(t) => i + 1 \in 1..Len(t) /\ u[i + 1] = t[i + 1]
      BY <1>2, <2>2
    <3>2. /\ t[i] = "results" => IF i = 1 THEN cut ELSE t[i - 1] = "calls"
          /\ t[i] = "calls" => \/ threw
                               \/ i = Len(t)
                               \/ t[i + 1] = "results"
      BY <2>2 DEF Paired
    <3>3. QED
      BY <1>2, <3>1, <3>2
  <2>3. QED
    BY <1>2, <2>1, <2>2
<1>4. QED
  BY <1>1, <1>3 DEF Paired

LEMMA TalkInductive == TalkInv /\ [AgentNext]_agentVars => TalkInv'
<1> SUFFICES ASSUME TalkInv, [AgentNext]_agentVars
             PROVE  CallsLast' /\ Paired(talk, phase, toolThrew, dropped)'
  BY TypeInductive, PairedSays DEF TalkInv, HistoryPaired, Paired
<1>1. /\ talk \in Seq(Messages) /\ Len(talk) \in Nat
      /\ phase \in {"idle", "asking", "tools"}
      /\ Paired(talk, phase, toolThrew, dropped)
      /\ phase = "tools" => Len(talk) >= 1 /\ talk[Len(talk)] = "calls"
  BY PairedSays DEF TalkInv, TypeInv, AgentTypeOK, CallsLast
<1>2. CASE StartTurn
  <2>1. phase = "idle" /\ talk' = Append(talk, "user") /\ phase' = "asking"
        /\ toolThrew' = toolThrew /\ dropped' = dropped
    BY <1>2 DEF StartTurn
  <2>2. Paired(Append(talk, "user"), "asking", toolThrew, dropped)
    BY <1>1, <2>1, PairedGrows
  <2>3. QED
    BY <2>1, <2>2 DEF CallsLast, Paired
<1>3. CASE MemoryThrows \/ RetryProvider \/ UNCHANGED agentVars
  <2>1. UNCHANGED <<talk, phase, toolThrew, dropped>>
    BY <1>3 DEF MemoryThrows, RetryProvider, agentVars
  <2>2. QED
    BY <1>1, <2>1 DEF CallsLast, Paired
<1>4. CASE ProviderThrows
  <2>1. /\ phase = "asking" /\ phase' = "idle" /\ talk' = talk
        /\ toolThrew' = toolThrew /\ dropped' = dropped
    BY <1>4 DEF ProviderThrows, EndTurn
  <2>2. QED
    BY <1>1, <2>1 DEF CallsLast, Paired
<1>5. CASE ToolThrows
  <2>1. /\ phase' = "idle" /\ talk' = talk /\ toolThrew' /\ dropped' = dropped
    BY <1>5 DEF ToolThrows, EndTurn
  <2>2. QED
    BY <1>1, <2>1 DEF CallsLast, Paired
<1>6. CASE ClearHistory
  <2>1. phase' = "idle" /\ Len(talk') = 0
    BY <1>6 DEF ClearHistory
  <2>2. QED
    BY <2>1 DEF CallsLast, Paired
<1>7. CASE FinalAnswer
  <2>1. PICK t : t = Append(talk, "text")
    OBVIOUS
  <2>2. /\ phase = "asking" /\ phase' = "idle" /\ talk' = Trimmed(t)
        /\ toolThrew' = toolThrew /\ dropped' = (dropped \/ Len(t) > MaxHistory)
    BY <1>7, <2>1 DEF FinalAnswer, EndTurn, NoteTrim
  <2>3. t \in Seq(Messages) /\ Paired(t, "idle", toolThrew, dropped)
    BY <1>1, <2>1, <2>2, PairedGrows, MessageMore DEF Messages
  <2>4. Paired(Trimmed(t), "idle", toolThrew, dropped \/ Len(t) > MaxHistory)
    BY <2>3, PairedCut
  <2>5. QED
    BY <2>2, <2>4 DEF CallsLast, Paired
<1>8. CASE AnswerWithCalls
  <2>1. PICK said \in Answers : talk' = talk \o said
    BY <1>8 DEF AnswerWithCalls, Answers
  <2>2. /\ phase = "asking" /\ phase' = "tools"
        /\ toolThrew' = toolThrew /\ dropped' = dropped
    BY <1>8 DEF AnswerWithCalls, Answers
  <2>3. Paired(talk \o said, "tools", toolThrew, dropped)
    BY <1>1, <2>2, PairedCalls
  <2>4. Len(talk') >= 1 /\ talk'[Len(talk')] = "calls"
    <3>1. PICK u : u = talk \o said
      OBVIOUS
    <3>2. Len(u) >= 1 /\ u[Len(u)] = "calls"
      BY <1>1, <3>1, CallsMore
    <3>3. QED
      BY <2>1, <3>1, <3>2
  <2>5. QED
    BY <2>1, <2>2, <2>3, <2>4 DEF CallsLast, Paired
<1>9. CASE ToolsReturn
  <2>1. PICK t : t = Append(talk, "results")
    OBVIOUS
  <2>2. /\ phase = "tools" /\ phase' \in {"idle", "asking"} /\ talk' = Trimmed(t)
        /\ toolThrew' = toolThrew /\ dropped' = (dropped \/ Len(t) > MaxHistory)
    BY <1>9, <2>1 DEF ToolsReturn, EndTurn, NoteTrim
  <2>3. PICK q : q = phase'
    OBVIOUS
  <2>4. t \in Seq(Messages) /\ Paired(t, q, toolThrew, dropped)
    BY <1>1, <2>1, <2>2, PairedResults, MessageMore DEF Messages
  <2>5. Paired(Trimmed(t), q, toolThrew, dropped \/ Len(t) > MaxHistory)
    BY <2>4, PairedCut
  <2>6. QED
    BY <2>2, <2>3, <2>5 DEF CallsLast, Paired
<1>10. QED
  BY <1>2, <1>3, <1>4, <1>5, <1>6, <1>7, <1>8, <1>9 DEF AgentNext, ProviderStep, ToolStep

\* Results follow their calls and calls are followed by their results, but for the cut of
\* a trim and the turns a tool ended.
THEOREM HistoryStaysPaired == AgentSpec => []HistoryPaired
<1>1. AgentInit => TalkInv
  <2> SUFFICES ASSUME AgentInit PROVE CallsLast /\ HistoryPaired
    BY TypeStarts DEF TalkInv
  <2>1. phase = "idle" /\ Len(talk) = 0
    BY DEF AgentInit
  <2>2. QED
    BY <2>1 DEF CallsLast, HistoryPaired
<1>2. TalkInv => HistoryPaired
  BY DEF TalkInv
<1>3. QED
  BY <1>1, <1>2, TalkInductive, PTL DEF AgentSpec

-----------------------------------------------------------------------------
(* The message to be answered *)

\* A turn adds its user's message, and in each iteration three at most.
SinceBounded ==
    phase # "idle" =>
        /\ since >= 1
        /\ since <= 1 + 3 * iter + (IF phase = "tools" THEN 2 ELSE 0)

UserInv == TypeInv /\ SinceBounded /\ CurrentUserKept

\* The message from the end that a history of messages must keep
UserAt(t, n) == n <= Len(t) /\ t[Len(t) - n + 1] = "user"

\* The trim keeps it when it keeps as many.
LEMMA UserSurvivesTrim ==
    ASSUME NEW t \in Seq(Messages), NEW n \in Nat \ {0}, n <= MaxHistory, UserAt(t, n)
    PROVE  UserAt(Trimmed(t), n)
<1>1. /\ Len(t) \in Nat
      /\ Len(Trimmed(t)) = IF Len(t) <= MaxHistory THEN Len(t) ELSE MaxHistory
      /\ \A i \in 1..Len(Trimmed(t)) :
            Trimmed(t)[i] = t[Len(t) - Len(Trimmed(t)) + i]
  BY TrimSays
<1>2. PICK s : s = Trimmed(t)
  OBVIOUS
<1>3. Len(s) \in Nat /\ n <= Len(s) /\ Len(s) - n + 1 \in 1..Len(s)
  BY <1>1, <1>2, AgentAssumption DEF UserAt
<1>4. s[Len(s) - n + 1] = t[Len(t) - Len(s) + (Len(s) - n + 1)]
  BY <1>1, <1>2, <1>3
<1>5. Len(t) - Len(s) + (Len(s) - n + 1) = Len(t) - n + 1
  BY <1>1, <1>3
<1>6. QED
  BY <1>2, <1>3, <1>4, <1>5 DEF UserAt

LEMMA SinceInductive ==
    ASSUME TypeInv, SinceBounded, [AgentNext]_agentVars
    PROVE  SinceBounded'
<1>1. /\ talk \in Seq(Messages) /\ iter \in Nat /\ since \in Nat
      /\ phase \in {"idle", "asking", "tools"}
      /\ phase # "idle" => since >= 1
      /\ phase # "idle" => since <= 1 + 3 * iter + (IF phase = "tools" THEN 2 ELSE 0)
  BY AgentAssumption DEF TypeInv, AgentTypeOK, SinceBounded
<1>2. CASE AnswerWithCalls
  <2>1. PICK n \in {1, 2} : since' = since + n
    <3>1. PICK said \in Answers : since' = since + Len(said)
      BY <1>2 DEF AnswerWithCalls, Answers
    <3>2. Len(said) = 1 \/ Len(said) = 2
      BY DEF Answers
    <3>3. QED
      BY <3>1, <3>2
  <2>2. phase = "asking" /\ phase' = "tools" /\ iter' = iter
    BY <1>2 DEF AnswerWithCalls
  <2>3. QED
    BY <1>1, <2>1, <2>2 DEF SinceBounded
<1>3. CASE ToolsReturn
  <2>1. /\ phase = "tools"
        /\ \/ phase' = "idle"
           \/ phase' = "asking" /\ iter' = iter + 1 /\ since' = since + 1
    BY <1>3 DEF ToolsReturn, EndTurn
  <2>2. QED
    BY <1>1, <2>1 DEF SinceBounded
<1>4. CASE StartTurn
  BY <1>1, <1>4 DEF StartTurn, SinceBounded
<1>5. CASE MemoryThrows \/ RetryProvider \/ UNCHANGED agentVars
  BY <1>1, <1>5 DEF MemoryThrows, RetryProvider, agentVars, SinceBounded
<1>6. CASE ProviderThrows \/ ToolThrows \/ FinalAnswer \/ ClearHistory
  BY <1>6 DEF ProviderThrows, ToolThrows, FinalAnswer, EndTurn, ClearHistory, SinceBounded
<1>7. QED
  BY <1>2, <1>3, <1>4, <1>5, <1>6 DEF AgentNext, ProviderStep, ToolStep

LEMMA UserInductive == UserInv /\ [AgentNext]_agentVars => UserInv'
<1> SUFFICES ASSUME UserInv, [AgentNext]_agentVars,
                    MaxHistory >= 1 + 3 * (MaxIterations - 1), phase' # "idle"
             PROVE  UserAt(talk', since')
  BY TypeInductive, SinceInductive DEF UserInv, CurrentUserKept, UserAt
<1>1. /\ talk \in Seq(Messages) /\ Len(talk) \in Nat
      /\ phase \in {"idle", "asking", "tools"}
      /\ iter \in Nat /\ iter <= MaxIterations - 1 /\ since \in Nat
      /\ MaxHistory \in Nat /\ MaxIterations \in Nat \ {0}
      /\ phase # "idle" => since >= 1 /\ UserAt(talk, since)
      /\ phase # "idle" => since <= 1 + 3 * iter + (IF phase = "tools" THEN 2 ELSE 0)
  BY AgentAssumption
     DEF UserInv, TypeInv, AgentTypeOK, SinceBounded, CurrentUserKept, UserAt
<1>2. CASE StartTurn
  <2>1. /\ phase = "idle" /\ phase' = "asking" /\ since' = 1 /\ iter' = iter
        /\ talk' = Append(talk, "user")
    BY <1>2 DEF StartTurn
  <2>2. Len(talk') = Len(talk) + 1 /\ talk'[Len(talk) + 1] = "user"
    BY <1>1, <2>1, MessageMore DEF Messages
  <2>3. Len(talk') - since' + 1 = Len(talk) + 1
    BY <1>1, <2>1, <2>2
  <2>4. QED
    BY <1>1, <2>1, <2>2, <2>3 DEF UserAt
<1>3. CASE MemoryThrows \/ RetryProvider \/ UNCHANGED agentVars
  <2>1. UNCHANGED <<talk, phase, iter, since>>
    BY <1>3 DEF MemoryThrows, RetryProvider, agentVars
  <2>2. QED
    BY <1>1, <2>1
<1>4. CASE ProviderThrows \/ ToolThrows \/ FinalAnswer \/ ClearHistory
  <2>1. phase' = "idle"
    BY <1>4 DEF ProviderThrows, ToolThrows, FinalAnswer, EndTurn, ClearHistory
  <2>2. QED
    BY <2>1
<1>5. CASE AnswerWithCalls
  <2>1. PICK said \in Answers :
           talk' = talk \o said /\ since' = since + Len(said)
    BY <1>5 DEF AnswerWithCalls, Answers
  <2>2. phase = "asking" /\ phase' = "tools" /\ iter' = iter
    BY <1>5 DEF AnswerWithCalls
  <2>3. PICK u : u = talk \o said
    OBVIOUS
  <2>4. PICK n \in {1, 2} : /\ n = Len(said) /\ Len(u) = Len(talk) + n
                            /\ \A i \in 1..Len(talk) : u[i] = talk[i]
    <3>1. Len(said) = 1 \/ Len(said) = 2
      BY <2>1 DEF Answers
    <3>2. Len(u) = Len(talk) + Len(said) /\ \A i \in 1..Len(talk) : u[i] = talk[i]
      BY <1>1, <2>1, <2>3, CallsMore
    <3>3. QED
      BY <3>1, <3>2
  <2>5. since >= 1 /\ since <= Len(talk) /\ talk[Len(talk) - since + 1] = "user"
    BY <1>1, <2>2 DEF UserAt
  <2>6. /\ Len(u) - (since + n) + 1 = Len(talk) - since + 1
        /\ Len(talk) - since + 1 \in 1..Len(talk)
    BY <1>1, <2>4, <2>5
  <2>7. u[Len(u) - (since + n) + 1] = "user" /\ since + n <= Len(u)
    BY <1>1, <2>4, <2>5, <2>6
  <2>8. QED
    BY <2>1, <2>3, <2>4, <2>7 DEF UserAt
<1>6. CASE ToolsReturn
  <2>1. PICK t : t = Append(talk, "results")
    OBVIOUS
  <2>2. /\ phase = "tools" /\ phase' = "asking" /\ talk' = Trimmed(t)
        /\ iter' = iter + 1 /\ iter + 1 < MaxIterations /\ since' = since + 1
    BY <1>6, <2>1 DEF ToolsReturn, EndTurn
  <2>3. /\ t \in Seq(Messages) /\ Len(t) = Len(talk) + 1
        /\ \A i \in 1..Len(talk) : t[i] = talk[i]
    BY <1>1, <2>1, MessageMore DEF Messages
  <2>4. /\ since >= 1 /\ since <= Len(talk) /\ talk[Len(talk) - since + 1] = "user"
        /\ since <= 1 + 3 * iter + 2
    BY <1>1, <2>2 DEF UserAt
  <2>5. /\ Len(t) - (since + 1) + 1 = Len(talk) - since + 1
        /\ Len(talk) - since + 1 \in 1..Len(talk)
    BY <1>1, <2>3, <2>4
  <2>6. UserAt(t, since + 1)
    BY <1>1, <2>3, <2>4, <2>5 DEF UserAt
  <2>7. since + 1 \in Nat \ {0} /\ since + 1 <= 1 + 3 * (iter + 1)
        /\ since + 1 <= MaxHistory
    BY <1>1, <2>2, <2>4
  <2>8. UserAt(Trimmed(t), since + 1)
    BY <2>3, <2>6, <2>7, UserSurvivesTrim
  <2>9. QED
    BY <2>2, <2>8
<1>7. QED
  BY <1>2, <1>3, <1>4, <1>5, <1>6 DEF AgentNext, ProviderStep, ToolStep

\* As long as the limit leaves room for the iterations of one turn, no trim drops the
\* message that is to be answered.
THEOREM UserStays == AgentSpec => []CurrentUserKept
<1>1. AgentInit => UserInv
  <2>1. AgentInit => phase = "idle"
    BY DEF AgentInit
  <2>2. QED
    BY <2>1, TypeStarts DEF UserInv, SinceBounded, CurrentUserKept
<1>2. UserInv => CurrentUserKept
  BY DEF UserInv
<1>3. QED
  BY <1>1, <1>2, UserInductive, PTL DEF AgentSpec
=============================================================================
