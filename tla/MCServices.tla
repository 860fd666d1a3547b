------------------------------ MODULE MCServices ----------------------------
(* An instance of Services for TLC. *)
EXTENDS Services

CONSTANTS c1, c2, a, b, d

MCCallers == {c1, c2}
MCKeys == {a, b, d}
MCClients == {a, b}
=============================================================================
