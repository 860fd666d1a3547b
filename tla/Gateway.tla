------------------------------- MODULE Gateway ------------------------------
(***************************************************************************)
(* What the gateway keeps about its clients (src/src/gateway/gateway.cpp): *)
(* the sliding window of SlidingWindowRateLimiter and the keys of          *)
(* IdempotencyStore.  Both read the clock BEFORE they take their mutex, so *)
(* a call may be decided by a reading that is older than the table it      *)
(* finds.  The two are separate objects with separate specifications, and  *)
(* share here only the form of a call.                                     *)
(*                                                                         *)
(* A table is a set of entries [key, at, no]: the reading that made the    *)
(* entry and its place among those of its key.  A key that is in           *)
(* requests_ always has a timestamp, since the entry that allow creates is *)
(* either full or pushed to.                                               *)
(***************************************************************************)
EXTENDS Callers

CONSTANTS
    Keys,        \* the clients, or the idempotency keys
    Limit,       \* limit_per_window_
    Window,      \* window_
    SweepEvery,  \* RATE_LIMITER_SWEEP_INTERVAL_SECS
    Ttl,         \* ttl_
    MaxKeys,     \* max_keys_, of either object
    MaxEntries   \* bound: no call begins after so many entries were made

\* limit_per_window = 0 switches the limiter off and leaves no state.
ASSUME GatewayAssumption ==
    /\ Limit \in Nat \ {0} /\ MaxKeys \in Nat \ {0}
    /\ Window \in Nat \ {0} /\ SweepEvery \in Nat /\ Ttl \in Nat
    /\ MaxEntries \in Nat

VARIABLES
    reading,    \* per thread: the time it has read for its call, or NoReading
    requests,   \* the limiter's table
    lastSweep,  \* last_sweep_
    seen,       \* the store's table
    serial,     \* entries made so far
    granted,    \* history: the requests allowed, of a key since its last eviction
    fresh,      \* history: the keys called new, of a key since its last eviction
    lag         \* history: the oldest reading that decided a call was so old

limiter == <<requests, lastSweep, granted>>
store   == <<seen, fresh>>
gatewayVars == <<now, reading, serial, lag, limiter, store>>

NoReading == -1
Entries == [key : Keys, at : Times, no : Nat]

GatewayTypeOK ==
    /\ now \in Times
    /\ reading \in [Callers -> Times \cup {NoReading}]
    /\ \A c \in Callers : reading[c] <= now
    /\ serial \in Nat /\ lag \in Nat
    /\ lastSweep \in Times
    /\ \A T \in {requests, seen, granted, fresh} :
          /\ T \subseteq Entries /\ IsFiniteSet(T)
          /\ \A e \in T : e.at <= now

GatewayInit ==
    /\ now = 0 /\ serial = 0 /\ lag = 0
    /\ reading = [c \in Callers |-> NoReading]
    /\ requests = {} /\ lastSweep = 0 /\ granted = {}
    /\ seen = {} /\ fresh = {}

-----------------------------------------------------------------------------
(* Tables *)

KeysOf(T) == {e.key : e \in T}
Of(T, key) == {e \in T : e.key = key}
Without(T, key) == {e \in T : e.key # key}

Younger(T, at, age) == {e \in T : e.at > at - age}

Full(T, key) == key \notin KeysOf(T) /\ Cardinality(KeysOf(T)) >= MaxKeys

\* The last entry of its key: timestamps.back().
IsBack(T, e) == \A x \in T : x.key = e.key => x.no <= e.no

\* The keys whose last entry is the oldest, and older than the reading.
Oldest(T, at) ==
    {e.key : e \in {b \in T : /\ IsBack(T, b)
                              /\ b.at < at
                              /\ \A x \in T : IsBack(T, x) => b.at <= x.at}}

\* One of the oldest goes; with none older than the reading nothing is evicted and
\* the table grows past max_keys_.
Evictions(T, at) ==
    IF Oldest(T, at) = {} THEN {T} ELSE {Without(T, k) : k \in Oldest(T, at)}

Roomy(T, key, at) == IF Full(T, key) THEN Evictions(T, at) ELSE {T}

\* What a history keeps when the table T loses the keys that U lacks.
Retained(history, T, U) == {e \in history : e.key \notin KeysOf(T) \ KeysOf(U)}

-----------------------------------------------------------------------------
(* Calls *)

ReadClock(c) ==
    /\ reading[c] = NoReading
    /\ serial < MaxEntries
    /\ reading' = [reading EXCEPT ![c] = now]
    /\ UNCHANGED <<now, serial, lag, limiter, store>>

Decided(c) ==
    /\ reading[c] # NoReading
    /\ reading' = [reading EXCEPT ![c] = NoReading]
    /\ lag' = IF now - reading[c] > lag THEN now - reading[c] ELSE lag
    /\ now' = now

\* no counts on from what the key's history holds.
Entry(c, key, history) ==
    [key |-> key, at |-> reading[c], no |-> Cardinality(Of(history, key))]

(* SlidingWindowRateLimiter::allow *)

SweepDue(at) == at - lastSweep >= SweepEvery
\* The sweep if it cleared the table.
SweptBare(at) == IF SweepDue(at) THEN {} ELSE requests

Swept(at) == IF SweepDue(at) THEN Younger(requests, at, Window) ELSE requests
Pruned(key, at) ==
    IF Full(Swept(at), key) THEN Younger(Swept(at), at, Window) ELSE Swept(at)

NoteSweep(key, at) ==
    lastSweep' = IF SweepDue(at) \/ Full(Swept(at), key) THEN at ELSE lastSweep

Own(T, key, at) == Younger(Of(T, key), at, Window)

Allow(c, key) ==
    /\ Decided(c)
    /\ NoteSweep(key, reading[c])
    /\ \E T \in Roomy(Pruned(key, reading[c]), key, reading[c]) :
          /\ Cardinality(Own(T, key, reading[c])) < Limit
          /\ requests' = Without(T, key) \cup Own(T, key, reading[c])
                          \cup {Entry(c, key, granted)}
          /\ granted' = Retained(granted, Pruned(key, reading[c]), T)
                          \cup {Entry(c, key, granted)}
    /\ serial' = serial + 1
    /\ UNCHANGED store

Refuse(c, key) ==
    /\ Decided(c)
    /\ NoteSweep(key, reading[c])
    /\ Cardinality(Own(Pruned(key, reading[c]), key, reading[c])) >= Limit
    /\ requests' = Without(Pruned(key, reading[c]), key)
                       \cup Own(Pruned(key, reading[c]), key, reading[c])
    /\ UNCHANGED <<serial, granted, store>>

(* IdempotencyStore::record_if_new *)

\* The store if a key expired one unit early.
UnexpiredEarly(at) == Younger(seen, at, Ttl - 1)

Unexpired(at) == Younger(seen, at, Ttl)

RecordNew(c, key) ==
    /\ Decided(c)
    /\ key \notin KeysOf(Unexpired(reading[c]))
    /\ \E T \in Roomy(Unexpired(reading[c]), key, reading[c]) :
          /\ seen' = T \cup {Entry(c, key, fresh)}
          /\ fresh' = Retained(fresh, Unexpired(reading[c]), T)
                        \cup {Entry(c, key, fresh)}
    /\ serial' = serial + 1
    /\ UNCHANGED limiter

Duplicate(c, key) ==
    /\ Decided(c)
    /\ key \in KeysOf(Unexpired(reading[c]))
    /\ seen' = Unexpired(reading[c])
    /\ UNCHANGED <<serial, fresh, limiter>>

TickGateway == Tick /\ UNCHANGED <<reading, serial, lag, limiter, store>>

LimiterNext ==
    \/ TickGateway
    \/ \E c \in Callers : ReadClock(c)
    \/ \E c \in Callers, key \in Keys : Allow(c, key) \/ Refuse(c, key)

IdempotencyNext ==
    \/ TickGateway
    \/ \E c \in Callers : ReadClock(c)
    \/ \E c \in Callers, key \in Keys : RecordNew(c, key) \/ Duplicate(c, key)

LimiterSpec == GatewayInit /\ [][LimiterNext]_gatewayVars
IdempotencySpec == GatewayInit /\ [][IdempotencyNext]_gatewayVars

-----------------------------------------------------------------------------
(* Properties *)

\* Of the requests of one client that is not evicted, at most Limit are allowed in any
\* stretch of time as long as the window less the age of the oldest reading a call was
\* decided by: a call decided late finds a table from which a later reading has already
\* removed what still counted at its own (gateway.cpp:86-95, 117-119).
WithinLimit ==
    \A g \in granted :
        Cardinality({x \in granted : /\ x.key = g.key
                                     /\ x.at <= g.at
                                     /\ x.at > g.at - (Window - lag)}) <= Limit

\* Two requests with one idempotency key that is not evicted are both called new only
\* when their readings are the key's lifetime apart, less the same age
\* (gateway.cpp:148-162).
FreshOnce ==
    \A x, y \in fresh :
        x.key = y.key /\ x.no < y.no => y.at - x.at >= Ttl - lag
=============================================================================
