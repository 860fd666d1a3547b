----------------------------- MODULE NextMatch ------------------------------
(***************************************************************************)
(* What a search for the next time of a schedule promises: it answers with *)
(* the first wanted minute from a given one on, or gives up when none of   *)
(* the next Patience minutes is wanted.  CronSearch implements it.         *)
(***************************************************************************)
EXTENDS Integers

CONSTANTS
    Wanted,    \* the minutes that each query wants
    Patience   \* how far a search looks at least

VARIABLES query, first, phase, answer

nvars == <<query, first, phase, answer>>

NoAnswer == -1

Init ==
    /\ query \in DOMAIN Wanted /\ first \in Nat
    /\ phase = "search" /\ answer = NoAnswer

\* Of the minutes up to the answer, the answer alone is wanted.
Answer ==
    /\ phase = "search" /\ phase' = "found"
    /\ Wanted[query] \cap first..answer' = {answer'}
    /\ UNCHANGED <<query, first>>

GiveUp ==
    /\ phase = "search" /\ phase' = "gave up"
    /\ Wanted[query] \cap first..first + Patience - 1 = {}
    /\ UNCHANGED <<query, first, answer>>

Next == Answer \/ GiveUp

Spec == Init /\ [][Next]_nvars
=============================================================================
