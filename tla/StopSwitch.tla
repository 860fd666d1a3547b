----------------------------- MODULE StopSwitch -----------------------------
(***************************************************************************)
(* What the emergency stop promises: levels that are engaged stay in force *)
(* through restarts and failed writes until their own resume, once every   *)
(* manager that is running knows of them.  Estop implements it.            *)
(***************************************************************************)

CONSTANTS
    Levels, KillAll,
    Single   \* whether there is never more than one manager

VARIABLES
    held,   \* the levels a start would find in force
    lifted, \* those of them that the next save of some manager drops: their resume was
            \* authorised and not saved, or another manager engaged them
    call    \* the request served last

svars == <<held, lifted, call>>

Requests == [op : {"none", "start", "engage", "resume"}, levels : SUBSET Levels]

Init == held = {} /\ lifted = {} /\ call = [op |-> "none", levels |-> {}]

Serve(op, S) == call' = [op |-> op, levels |-> S]

\* The levels in force that every manager knows of
Kept == held \ lifted

\* A manager saves its state.  What all knew of and is not resumed, S, they still know
\* of; the rest another one drops.
Saved(S) ==
    /\ S \subseteq held'
    /\ lifted' \cap S = {}
    /\ Single => lifted' = {}

\* The save is not carried out and the caller hears of it.
Unsaved == held' = held

\* The saved state is damaged: until it is saved again a start finds everything
\* stopped, and a manager that has not everything stopped may save its own state.
Damaged == held' = {KillAll} /\ lifted' \subseteq {KillAll}

\* The caller of an engage that was not saved knows of the levels S; others may not.
Engage(S) ==
    /\ Serve("engage", S)
    /\ \/ Saved(Kept) /\ S \subseteq held'
       \/ /\ Unsaved
          /\ lifted \ S \subseteq lifted' /\ lifted' \subseteq lifted
          /\ Single => lifted' = lifted \ S
       \/ Damaged

Resume(S) ==
    /\ Serve("resume", S)
    /\ \/ Saved(Kept \ S) /\ held' \cap S = {}
       \/ Unsaved /\ lifted' = held \cap (lifted \cup S)
       \/ Damaged

\* A start lifts nothing.
Start == Serve("start", {}) /\ Unsaved /\ UNCHANGED lifted

\* An end forgets the resume that was not saved, and what its manager did not know of.
End ==
    /\ Unsaved /\ UNCHANGED call
    /\ lifted' \subseteq lifted
    /\ Single => lifted' = {}

Next ==
    \/ \E S \in SUBSET Levels : Engage(S) \/ Resume(S)
    \/ Start
    \/ End

Spec == Init /\ [][Next]_svars
=============================================================================
