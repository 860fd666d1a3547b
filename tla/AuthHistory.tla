---------------------------- MODULE AuthHistory ----------------------------
(***************************************************************************)
(* AuthService with a history variable that remembers which rotated        *)
(* refresh tokens a failure has lost, so that "no other is lost" can be    *)
(* said.  The successor of a spent token is in one place only, the thread  *)
(* that was given it, from the provider's answer to the save.              *)
(***************************************************************************)
EXTENDS AuthService

VARIABLE stranded   \* spent refresh tokens whose successor no thread got or could save

\* A failure ends the refresh of a between the provider's answer and the save: the load
\* of update_profile, the save, or the process.
Interrupted(a) ==
    \/ Update(a) /\ pc'[a] = "idle"
    \/ pc[a] \in {"update", "write"} /\ (SaveTruncated(a) \/ SaveFails(a) \/ Crash(InstanceOf[a]))

\* The provider's answer did not arrive, or it arrived and was not saved.
Remember ==
    stranded' = stranded \cup
        {t \in spent' : \E a \in Actors :
            \/ t \notin spent /\ RefreshFails(a)
            \/ t = presented[a] /\ Interrupted(a)}

HInit == Init /\ stranded = {}
HNext == Next /\ Remember
HSpec == HInit /\ [][HNext]_<<vars, stranded>>

-----------------------------------------------------------------------------
(* Properties *)

\* A rotated refresh token is lost by a failure of its own refresh and by nothing else:
\* one in the file that its provider no longer accepts belongs to a refresh that has its
\* successor and is about to save it, or is one whose refresh failed after the provider
\* had rotated it (auth.cpp:264-288).
RotationNotLost ==
    readable => \A id \in Ids :
        file.profiles[id].refresh \in spent \ stranded =>
            \E a \in Actors : pc[a] \in {"update", "write"} /\ target[a] = id
=============================================================================
