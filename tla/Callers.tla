------------------------------ MODULE Callers -------------------------------
(***************************************************************************)
(* The threads that call the process's shared services (the HTTP server's  *)
(* workers, the agents' tools) and the clock that all of them read.  What  *)
(* a service keeps is behind its own mutex; between two calls, and between *)
(* the two halves of one, any other thread may run and time may pass.      *)
(***************************************************************************)
EXTENDS Integers, FiniteSets

CONSTANTS
    Callers,   \* the threads
    MaxTime    \* bound: the clock stops there

ASSUME CallersAssumption ==
    /\ IsFiniteSet(Callers) /\ Callers # {}
    /\ MaxTime \in Nat

VARIABLE now   \* the clock, in the unit of the service that reads it

Times == 0..MaxTime

Tick ==
    /\ now < MaxTime
    /\ now' = now + 1
=============================================================================
