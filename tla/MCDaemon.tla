------------------------------ MODULE MCDaemon ------------------------------
(* Instances of Daemon for TLC. *)
EXTENDS Daemon

MCNames == {"daemon", "gateway", "channels", "heartbeat"}

\* run_internal's order; the scheduler, the fourth, is one more component like the
\* gateway.  The runs leave the channels disabled.
MCOrder == <<"gateway", "channels", "heartbeat">>
=============================================================================
