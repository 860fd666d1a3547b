--------------------------- MODULE MCAuthHistory ---------------------------
(* Constants of AuthHistory for TLC, as in MCAuth. *)
EXTENDS MCAuth, AuthHistory

\* Every profile logged in, the default of the first provider active
LoggedIn ==
    {[profiles |-> [id \in Ids |-> OAuth(IF id = "gemini:default" THEN 1 ELSE 2, Life, TRUE)],
      active |-> [p \in Providers |-> MCDefaultId[p]]]}
=============================================================================
