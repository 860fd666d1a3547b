------------------------------- MODULE MCAuth -------------------------------
(* Instances of AuthService for TLC. *)
EXTENDS AuthService

MCProviderOf == [id \in Ids |-> IF id = "gemini:default" THEN "gemini" ELSE "openai-codex"]

MCDefaultId == [p \in Providers |->
    IF p = "gemini" THEN "gemini:default" ELSE "openai-codex:default"]

\* Two threads of one process, or one thread each of two
OneProcess == [a \in Actors |-> "daemon"]
TwoProcesses == [a \in Actors |-> IF a = "a1" THEN "daemon" ELSE "cli"]

NoFile == {DefaultData}

East == -1
West == 1
=============================================================================
