------------------------------- MODULE Health -------------------------------
(***************************************************************************)
(* The health registry (src/src/health/health.cpp): one entry per          *)
(* component, every operation under the registry's lock, so that each is   *)
(* one step.  Of the times and the error text only their presence is kept. *)
(***************************************************************************)
EXTENDS Naturals

CONSTANTS
    Names,        \* component names
    MaxRestarts   \* bound: restart_count saturates here

ASSUME RestartsAssumption == MaxRestarts \in Nat

Entry == [status    : {"starting", "ok", "error"},
          lastOk    : BOOLEAN,
          lastError : BOOLEAN,
          restarts  : 0..MaxRestarts]

NoEntry == [status |-> "absent"]
Registry == [Names -> Entry \cup {NoEntry}]

Starting == [status |-> "starting", lastOk |-> FALSE, lastError |-> FALSE, restarts |-> 0]

\* upsert_component: the entry an update starts from.
Current(reg, c) == IF reg[c] = NoEntry THEN Starting ELSE reg[c]

MarkOk(reg, c) ==
    [reg EXCEPT ![c] = [Current(reg, c) EXCEPT !.status = "ok", !.lastOk = TRUE,
                                               !.lastError = FALSE]]

MarkError(reg, c) ==
    [reg EXCEPT ![c] = [Current(reg, c) EXCEPT !.status = "error", !.lastError = TRUE]]

BumpRestart(reg, c) ==
    LET e == Current(reg, c)
    IN  [reg EXCEPT ![c] = [e EXCEPT !.restarts =
                              IF e.restarts < MaxRestarts THEN e.restarts + 1 ELSE e.restarts]]

\* snapshot_json makes a std::string of nullptr for a last_ok or last_error that is
\* absent; strlen(nullptr) or the exception nothing catches ends the process.
SnapshotFatal(reg) ==
    \E c \in Names : reg[c] # NoEntry /\ ~(reg[c].lastOk /\ reg[c].lastError)
=============================================================================
