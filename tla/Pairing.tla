------------------------------- MODULE Pairing ------------------------------
(***************************************************************************)
(* PairingGuard (src/src/security/pairing.cpp): one code, good for one     *)
(* token, and a lockout of the clients that guess wrong.  try_pair takes   *)
(* attempts_mutex_ to look at the lockout, code_mutex_ to compare the      *)
(* code, and attempts_mutex_ again to count a failure: between the three   *)
(* other threads run, of the same client too.  What a success changes is   *)
(* one step, since the code it consumes is read only under code_mutex_,    *)
(* held throughout, and a failure that is counted between the erasure of   *)
(* the client's entry and the end of that section is as one after it.      *)
(***************************************************************************)
EXTENDS Callers

CONSTANTS
    Clients,
    Nobody,        \* no client
    MaxAttempts,   \* MAX_PAIR_ATTEMPTS
    Lockout,       \* PAIR_LOCKOUT_SECS
    MaxTracked,    \* MAX_TRACKED_CLIENTS
    MaxMisses      \* bound: no attempt begins after so many failures

ASSUME PairingAssumption ==
    /\ Nobody \notin Clients
    /\ MaxAttempts \in Nat \ {0} /\ Lockout \in Nat \ {0}
    /\ MaxTracked \in Nat /\ MaxMisses \in Nat

VARIABLES
    code,      \* pairing_code_ is there
    tokens,    \* the tokens handed out for it
    failed,    \* failed_attempts_: a count of 0 is no entry
    trying,    \* per thread: where in try_pair, and for which client
    misses,    \* history: the failures of each client since its last success
    epoch      \* history: how often a client's count began anew

pairingVars == <<now, code, tokens, failed, trying, misses, epoch>>

NotLocked == -1
NoEntry == [count |-> 0, lockedAt |-> NotLocked]
NotTrying == [step |-> "idle", client |-> Nobody]

\* One code is good for one token at most, whoever matches it at the same time: tokens
\* is 0 as long as the code is there, and never more than 1.
PairingTypeOK ==
    /\ now \in Times
    /\ code \in BOOLEAN /\ tokens \in 0..1
    /\ code => tokens = 0
    /\ failed \in [Clients -> [count : Nat, lockedAt : Times \cup {NotLocked}]]
    /\ \A cl \in Clients : failed[cl].lockedAt <= now
    /\ trying \in [Callers -> [step : {"checked", "missed"}, client : Clients]
                                  \cup {NotTrying}]
    /\ misses \subseteq [client : Clients, epoch : Nat, at : Times, no : Nat]
    /\ epoch \in [Clients -> Nat]

\* The code is generated when pairing is required and no token is known.
PairingInit ==
    /\ now = 0
    /\ code \in BOOLEAN /\ tokens = 0
    /\ failed = [cl \in Clients |-> NoEntry]
    /\ trying = [c \in Callers |-> NotTrying]
    /\ misses = {} /\ epoch = [cl \in Clients |-> 0]

Locked(cl) == failed[cl].lockedAt # NotLocked
Expired(cl) == Locked(cl) /\ now - failed[cl].lockedAt >= Lockout
Barred(cl) == failed[cl].count >= MaxAttempts /\ Locked(cl) /\ ~Expired(cl)

\* The lockout is looked at; a barred client is told so and nothing changes.
CheckLockout(c, cl) ==
    /\ trying[c] = NotTrying
    /\ Cardinality(misses) < MaxMisses
    /\ ~Barred(cl)
    /\ trying' = [trying EXCEPT ![c] = [step |-> "checked", client |-> cl]]
    /\ UNCHANGED <<now, code, tokens, failed, misses, epoch>>

\* The match if the code stayed good.
MatchCodeKept(c) ==
    LET cl == trying[c].client IN
    /\ trying[c].step = "checked"
    /\ code
    /\ failed' = [failed EXCEPT ![cl] = NoEntry]
    /\ tokens' = tokens + 1
    /\ trying' = [trying EXCEPT ![c] = NotTrying]
    /\ misses' = {m \in misses : m.client # cl}
    /\ epoch' = [epoch EXCEPT ![cl] = @ + 1]
    /\ UNCHANGED <<now, code>>

\* The right code: the client's failures are forgotten, a token is made, the code is gone.
MatchCode(c) ==
    LET cl == trying[c].client IN
    /\ trying[c].step = "checked"
    /\ code
    /\ failed' = [failed EXCEPT ![cl] = NoEntry]
    /\ tokens' = tokens + 1
    /\ code' = FALSE
    /\ trying' = [trying EXCEPT ![c] = NotTrying]
    /\ misses' = {m \in misses : m.client # cl}
    /\ epoch' = [epoch EXCEPT ![cl] = @ + 1]
    /\ now' = now

\* A wrong code, or the right one after it is gone.
MissCode(c) ==
    /\ trying[c].step = "checked"
    /\ trying' = [trying EXCEPT ![c].step = "missed"]
    /\ UNCHANGED <<now, code, tokens, failed, misses, epoch>>

Tracked == {cl \in Clients : failed[cl].count > 0}

\* The sweep if it dropped every locked entry.
SweptIfLocked(cl) == Cardinality(Tracked) >= MaxTracked /\ Locked(cl)

\* The expired entries that go when the table is at its limit.
SweptAway(cl) == Cardinality(Tracked) >= MaxTracked /\ Expired(cl)

\* The failing client's own expired lock is reset even without a sweep.
Anew(cl, failing) == SweptAway(cl) \/ (cl = failing /\ Expired(cl))

\* The count if the lock came one failure late.
CountLate(entry) ==
    [count |-> entry.count + 1,
     lockedAt |-> IF entry.count + 1 > MaxAttempts THEN now ELSE entry.lockedAt]

CountAgain(entry) ==
    [count |-> entry.count + 1,
     lockedAt |-> IF entry.count + 1 >= MaxAttempts THEN now ELSE entry.lockedAt]

CountFailure(c) ==
    LET cl == trying[c].client
        kept == [x \in Clients |-> IF Anew(x, cl) THEN NoEntry ELSE failed[x]]
    IN
    /\ trying[c].step = "missed"
    /\ failed' = [kept EXCEPT ![cl] = CountAgain(kept[cl])]
    /\ trying' = [trying EXCEPT ![c] = NotTrying]
    /\ epoch' = [x \in Clients |-> IF Anew(x, cl) THEN epoch[x] + 1 ELSE epoch[x]]
    /\ misses' = misses \cup {[client |-> cl, epoch |-> epoch'[cl],
                               at |-> now, no |-> kept[cl].count + 1]}
    /\ UNCHANGED <<now, code, tokens>>

TickPairing == Tick /\ UNCHANGED <<code, tokens, failed, trying, misses, epoch>>

PairingNext ==
    \/ TickPairing
    \/ \E c \in Callers, cl \in Clients : CheckLockout(c, cl)
    \/ \E c \in Callers : MatchCode(c) \/ MissCode(c) \/ CountFailure(c)

PairingSpec == PairingInit /\ [][PairingNext]_pairingVars

-----------------------------------------------------------------------------
(* Properties *)

\* In any stretch as long as the lockout, the failures of one client are at most
\* MaxAttempts and one more for every other thread that was past the lockout's check when
\* the lock came (pairing.cpp:178-194 and 231-263 are two sections).
GuessesBounded ==
    \A m \in misses :
        Cardinality({x \in misses : /\ x.client = m.client
                                    /\ x.at <= m.at
                                    /\ x.at > m.at - Lockout})
            <= MaxAttempts + Cardinality(Callers) - 1

\* A lock that has not expired ends by the client's own success only: no sweep and no
\* other failure lifts it or brings its end forward (pairing.cpp:211-215, 234-262).
LockHolds ==
    [][\A cl \in Clients :
          Barred(cl) => \/ failed'[cl].count >= MaxAttempts
                           /\ failed'[cl].lockedAt >= failed[cl].lockedAt
                        \/ code /\ ~code' /\ failed'[cl] = NoEntry]_pairingVars
=============================================================================
