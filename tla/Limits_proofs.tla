---------------------------- MODULE Limits_proofs ---------------------------
(***************************************************************************)
(* The bounds of the rate limiter and the idempotency store, the action    *)
(* budget, the pairing guard and the cost tracker, for any threads, keys,  *)
(* clients and limits.  Each of them looks in one critical section, or at  *)
(* one reading of the clock, and counts at another, and the bounds say     *)
(* what the gap costs: the age of the reading for the gateway's tables,    *)
(* nothing for the actions that are carried out, and one per thread that   *)
(* was in the gap for the attempts, the guesses and the usages.            *)
(***************************************************************************)
EXTENDS Gateway, ActionBudget, Pairing, CostTracker, FiniteSetTheorems, TLAPS

USE DEF Times

\* The threads are finitely many, and there is one.
LEMMA CallersCounted ==
    /\ IsFiniteSet(Callers)
    /\ Cardinality(Callers) \in Nat \ {0}
<1>1. IsFiniteSet(Callers) /\ Callers # {}
  BY CallersAssumption
<1>2. QED
  BY <1>1, FS_CardinalityType, FS_EmptySet

\* One element more
LEMMA OneMore ==
    ASSUME NEW S, IsFiniteSet(S), NEW x
    PROVE  /\ IsFiniteSet(S \cup {x})
           /\ Cardinality(S) \in Nat /\ Cardinality(S \cup {x}) \in Nat
           /\ Cardinality(S \cup {x}) <= Cardinality(S) + 1
<1>1. Cardinality(S) \in Nat
  BY FS_CardinalityType
<1>2. QED
  BY <1>1, FS_AddElement

-----------------------------------------------------------------------------
(* The rate limiter and the idempotency store.  Both arguments have one     *)
(* shape: an entry that a history still holds is in the table, or it was    *)
(* dropped by a reading of the clock that it was too old for, and a         *)
(* decision is at most lag older than any of those readings.                *)

(* Tables *)

\* Dropping the old entries only removes entries, and only old ones.
LEMMA YoungerDrops ==
    ASSUME NEW T, NEW at, NEW age
    PROVE  /\ Younger(T, at, age) \subseteq T
           /\ \A e \in T : e.at > at - age => e \in Younger(T, at, age)
BY DEF Younger

\* Making room removes no entry but those of a key that is gone altogether.
LEMMA RoomyEvicts ==
    ASSUME NEW T, NEW key, NEW at, NEW U \in Roomy(T, key, at)
    PROVE  /\ U \subseteq T
           /\ \A e \in T \ U : e.key \in KeysOf(T) \ KeysOf(U)
<1>1. CASE U = T
  BY <1>1
<1>2. CASE U # T
  <2>1. PICK k : U = Without(T, k)
    BY <1>2 DEF Roomy, Evictions
  <2>2. QED
    BY <2>1 DEF Without, KeysOf
<1>3. QED
  BY <1>1, <1>2

\* A history keeps what the table keeps.
LEMMA RetainedStays ==
    ASSUME NEW T, NEW key, NEW at, NEW U \in Roomy(T, key, at), NEW history,
           NEW e \in Retained(history, T, U), e \in T
    PROVE  e \in U
BY RoomyEvicts DEF Retained

\* The table a call finds after the sweeps.
LEMMA PrunedDrops ==
    ASSUME NEW key, NEW at
    PROVE  /\ Pruned(key, at) \subseteq requests
           /\ \A e \in requests : e.at > at - Window => e \in Pruned(key, at)
<1>1. /\ Swept(at) \subseteq requests
      /\ \A e \in requests : e.at > at - Window => e \in Swept(at)
  BY YoungerDrops DEF Swept
<1>2. QED
  BY <1>1, YoungerDrops DEF Pruned

-----------------------------------------------------------------------------
(* Types *)

\* A new entry has the form of an entry.
LEMMA NewEntry ==
    ASSUME GatewayTypeOK, NEW c \in Callers, NEW key \in Keys, reading[c] # NoReading,
           NEW history \in {granted, fresh}
    PROVE  /\ Entry(c, key, history) \in Entries
           /\ Entry(c, key, history).at = reading[c] /\ reading[c] <= now
           /\ reading[c] \in Times
           /\ Entry(c, key, history).key = key
<1>1. IsFiniteSet(history)
  BY DEF GatewayTypeOK
<1>2. Of(history, key) \subseteq history
  BY DEF Of
<1>3. Cardinality(Of(history, key)) \in Nat
  BY <1>1, <1>2, FS_Subset, FS_CardinalityType
<1>4. reading[c] \in Times /\ reading[c] <= now
  BY DEF GatewayTypeOK
<1>5. QED
  BY <1>3, <1>4 DEF Entry, Entries

\* What a table must be.
Table(T) == T \subseteq Entries /\ IsFiniteSet(T) /\ \A e \in T : e.at <= now

LEMMA TableParts ==
    ASSUME NEW T, Table(T), NEW U, U \subseteq T
    PROVE  Table(U)
BY FS_Subset DEF Table

LEMMA TableGrows ==
    ASSUME NEW T, Table(T), NEW e \in Entries, e.at <= now
    PROVE  Table(T \cup {e})
BY FS_AddElement DEF Table

LEMMA TypeByTables ==
    GatewayTypeOK <=>
        /\ now \in Times
        /\ reading \in [Callers -> Times \cup {NoReading}]
        /\ \A c \in Callers : reading[c] <= now
        /\ serial \in Nat /\ lag \in Nat /\ lastSweep \in Times
        /\ Table(requests) /\ Table(seen) /\ Table(granted) /\ Table(fresh)
BY DEF GatewayTypeOK, Table

\* The step that decides a call
LEMMA DecidedTypes ==
    ASSUME GatewayTypeOK, NEW c \in Callers, Decided(c)
    PROVE  /\ now' \in Times /\ now' = now /\ lag' \in Nat
           /\ reading' \in [Callers -> Times \cup {NoReading}]
           /\ \A d \in Callers : reading'[d] <= now'
           /\ reading[c] # NoReading /\ reading[c] \in Times
           /\ lag <= lag' /\ now - reading[c] <= lag'
BY DEF GatewayTypeOK, Decided, NoReading

LEMMA SweepTypes ==
    ASSUME GatewayTypeOK, NEW key, NEW at \in Times, NoteSweep(key, at)
    PROVE  lastSweep' \in Times
BY DEF GatewayTypeOK, NoteSweep

\* The clock and a reading of it
LEMMA ClockTypes ==
    ASSUME GatewayTypeOK, TickGateway \/ (\E c \in Callers : ReadClock(c))
    PROVE  GatewayTypeOK'
<1>1. CASE TickGateway
  <2>1. /\ now \in Times /\ now' = now + 1 /\ now' \in Times
        /\ UNCHANGED <<reading, serial, lag, limiter, store>>
    BY <1>1, CallersAssumption DEF TickGateway, Tick, GatewayTypeOK
  <2>2. ASSUME NEW T, Table(T) PROVE \A e \in T : e.at <= now'
    BY <2>1, <2>2, CallersAssumption DEF Table, Entries
  <2>3. \A d \in Callers : reading[d] <= now'
    BY <2>1, CallersAssumption DEF GatewayTypeOK, NoReading
  <2>4. /\ Table(requests) /\ Table(seen) /\ Table(granted) /\ Table(fresh)
        /\ reading \in [Callers -> Times \cup {NoReading}]
        /\ serial \in Nat /\ lag \in Nat /\ lastSweep \in Times
    BY TypeByTables
  <2>5. QED
    BY <2>1, <2>2, <2>3, <2>4 DEF GatewayTypeOK, Table, limiter, store
<1>2. ASSUME NEW c \in Callers, ReadClock(c) PROVE GatewayTypeOK'
  BY <1>2 DEF ReadClock, GatewayTypeOK, limiter, store
<1>3. QED
  BY <1>1, <1>2

LEMMA AllowTypes ==
    ASSUME GatewayTypeOK, NEW c \in Callers, NEW key \in Keys, Allow(c, key)
    PROVE  GatewayTypeOK'
<1> DEFINE at == reading[c]
           e == Entry(c, key, granted)
<1>1. PICK T \in Roomy(Pruned(key, at), key, at) :
          /\ requests' = Without(T, key) \cup Own(T, key, at) \cup {e}
          /\ granted' = Retained(granted, Pruned(key, at), T) \cup {e}
  BY DEF Allow
<1>2. Decided(c) /\ NoteSweep(key, at) /\ serial' = serial + 1 /\ UNCHANGED store
  BY DEF Allow
<1>3. e \in Entries /\ e.at <= now /\ at \in Times
  BY <1>2, NewEntry, DecidedTypes
<1>4. Table(requests) /\ Table(granted) /\ Table(seen) /\ Table(fresh) /\ serial \in Nat
  BY TypeByTables
<1>5. T \subseteq requests
  BY RoomyEvicts, PrunedDrops
<1>6. Without(T, key) \cup Own(T, key, at) \subseteq requests
  BY <1>5 DEF Without, Own, Younger, Of
<1>7. Table(requests')
  <2>1. Table(Without(T, key) \cup Own(T, key, at))
    BY <1>4, <1>6, TableParts
  <2>2. QED
    BY <1>1, <1>3, <2>1, TableGrows
<1>8. Table(granted')
  <2>1. Retained(granted, Pruned(key, at), T) \subseteq granted
    BY DEF Retained
  <2>2. QED
    BY <1>1, <1>3, <1>4, <2>1, TableParts, TableGrows
<1>9. now' = now /\ seen' = seen /\ fresh' = fresh
  BY <1>2 DEF Decided, store
<1>10. QED
  BY <1>2, <1>3, <1>4, <1>7, <1>8, <1>9, DecidedTypes, SweepTypes, TypeByTables
     DEF GatewayTypeOK, Table

LEMMA RefuseTypes ==
    ASSUME GatewayTypeOK, NEW c \in Callers, NEW key \in Keys, Refuse(c, key)
    PROVE  GatewayTypeOK'
<1> DEFINE at == reading[c]
           P == Pruned(key, at)
<1>1. /\ Decided(c) /\ NoteSweep(key, at)
      /\ requests' = Without(P, key) \cup Own(P, key, at)
      /\ UNCHANGED <<serial, granted, store>>
  BY DEF Refuse
<1>2. Table(requests)
  BY TypeByTables
<1>3. P \subseteq requests
  BY PrunedDrops
<1>4. Without(P, key) \cup Own(P, key, at) \subseteq requests
  BY <1>3 DEF Without, Own, Younger, Of
<1>5. Table(requests')
  BY <1>1, <1>2, <1>4, TableParts
<1>6. now' = now /\ seen' = seen /\ fresh' = fresh /\ granted' = granted /\ at \in Times
  BY <1>1, DecidedTypes DEF Decided, store
<1>7. QED
  BY <1>1, <1>5, <1>6, DecidedTypes, SweepTypes, TypeByTables DEF GatewayTypeOK, Table

LEMMA RecordNewTypes ==
    ASSUME GatewayTypeOK, NEW c \in Callers, NEW key \in Keys, RecordNew(c, key)
    PROVE  GatewayTypeOK'
<1> DEFINE at == reading[c]
           e == Entry(c, key, fresh)
<1>1. PICK T \in Roomy(Unexpired(at), key, at) :
          /\ seen' = T \cup {e}
          /\ fresh' = Retained(fresh, Unexpired(at), T) \cup {e}
  BY DEF RecordNew
<1>2. Decided(c) /\ serial' = serial + 1 /\ UNCHANGED limiter
  BY DEF RecordNew
<1>3. e \in Entries /\ e.at <= now
  BY <1>2, NewEntry, DecidedTypes
<1>4. Table(requests) /\ Table(granted) /\ Table(seen) /\ Table(fresh)
  BY TypeByTables
<1>5. T \subseteq seen
  BY RoomyEvicts, YoungerDrops DEF Unexpired
<1>6. Table(seen')
  BY <1>1, <1>3, <1>4, <1>5, TableParts, TableGrows
<1>7. Table(fresh')
  <2>1. Retained(fresh, Unexpired(at), T) \subseteq fresh
    BY DEF Retained
  <2>2. QED
    BY <1>1, <1>3, <1>4, <2>1, TableParts, TableGrows
<1>8. /\ now' = now /\ requests' = requests /\ lastSweep' = lastSweep
      /\ granted' = granted /\ serial' \in Nat
  BY <1>2 DEF Decided, limiter, GatewayTypeOK
<1>9. QED
  BY <1>2, <1>6, <1>7, <1>8, DecidedTypes DEF GatewayTypeOK, Table

LEMMA DuplicateTypes ==
    ASSUME GatewayTypeOK, NEW c \in Callers, NEW key \in Keys, Duplicate(c, key)
    PROVE  GatewayTypeOK'
<1>1. /\ Decided(c) /\ seen' = Unexpired(reading[c])
      /\ UNCHANGED <<serial, fresh, limiter>>
  BY DEF Duplicate
<1>2. Table(seen')
  BY <1>1, YoungerDrops, TypeByTables, TableParts DEF Unexpired
<1>3. now' = now /\ requests' = requests /\ lastSweep' = lastSweep /\ granted' = granted
  BY <1>1 DEF Decided, limiter
<1>4. QED
  BY <1>1, <1>2, <1>3, DecidedTypes DEF GatewayTypeOK, Table

LEMMA GatewayStarts == GatewayInit => GatewayTypeOK
BY FS_EmptySet, CallersAssumption DEF GatewayInit, GatewayTypeOK, NoReading

LEMMA GatewayStutters == GatewayTypeOK /\ UNCHANGED gatewayVars => GatewayTypeOK'
BY DEF GatewayTypeOK, gatewayVars, limiter, store

\* The types of the limiter, for any number of threads, keys and requests.
THEOREM LimiterTypeCorrect == LimiterSpec => []GatewayTypeOK
<1>1. GatewayTypeOK /\ [LimiterNext]_gatewayVars => GatewayTypeOK'
  <2> SUFFICES ASSUME GatewayTypeOK, [LimiterNext]_gatewayVars PROVE GatewayTypeOK'
    OBVIOUS
  <2>1. CASE TickGateway \/ (\E c \in Callers : ReadClock(c))
    BY <2>1, ClockTypes
  <2>2. ASSUME NEW c \in Callers, NEW key \in Keys, Allow(c, key) PROVE GatewayTypeOK'
    BY <2>2, AllowTypes
  <2>3. ASSUME NEW c \in Callers, NEW key \in Keys, Refuse(c, key) PROVE GatewayTypeOK'
    BY <2>3, RefuseTypes
  <2>4. CASE UNCHANGED gatewayVars
    BY <2>4, GatewayStutters
  <2>5. QED
    BY <2>1, <2>2, <2>3, <2>4 DEF LimiterNext
<1>2. QED
  BY <1>1, GatewayStarts, PTL DEF LimiterSpec

\* The types of the store, for any number of threads, keys and requests.
THEOREM StoreTypeCorrect == IdempotencySpec => []GatewayTypeOK
<1>1. GatewayTypeOK /\ [IdempotencyNext]_gatewayVars => GatewayTypeOK'
  <2> SUFFICES ASSUME GatewayTypeOK, [IdempotencyNext]_gatewayVars PROVE GatewayTypeOK'
    OBVIOUS
  <2>1. CASE TickGateway \/ (\E c \in Callers : ReadClock(c))
    BY <2>1, ClockTypes
  <2>2. ASSUME NEW c \in Callers, NEW key \in Keys, RecordNew(c, key) PROVE GatewayTypeOK'
    BY <2>2, RecordNewTypes
  <2>3. ASSUME NEW c \in Callers, NEW key \in Keys, Duplicate(c, key) PROVE GatewayTypeOK'
    BY <2>3, DuplicateTypes
  <2>4. CASE UNCHANGED gatewayVars
    BY <2>4, GatewayStutters
  <2>5. QED
    BY <2>1, <2>2, <2>3, <2>4 DEF IdempotencyNext
<1>2. QED
  BY <1>1, GatewayStarts, PTL DEF IdempotencySpec

-----------------------------------------------------------------------------
(* The limiter *)

\* A stretch of time with an end in it is not empty, and one without is.
LEMMA Stretch ==
    ASSUME NEW t \in Int, NEW span \in Int
    PROVE  /\ ~(t > t - span) => span <= 0
           /\ span <= 0 => \A x \in Int : ~(x <= t /\ x > t - span)
OBVIOUS

\* What was allowed is in the table, or a reading has found it too old.
GrantsAreTracked == \A x \in granted : x \in requests \/ x.at <= now - Window

\* The table's own entries that a decision at the time at counts
LEMMA OwnCounts ==
    ASSUME NEW T, NEW key, NEW at, NEW x \in T, x.key = key, x.at > at - Window
    PROVE  x \in Own(T, key, at)
BY DEF Own, Of, Younger

\* A reading that decides a call is not later than now.
LEMMA GrantStaysTracked ==
    ASSUME GatewayTypeOK, GrantsAreTracked, NEW c \in Callers, NEW key \in Keys,
           reading[c] # NoReading,
           NEW T \in Roomy(Pruned(key, reading[c]), key, reading[c]),
           NEW x \in Retained(granted, Pruned(key, reading[c]), T)
    PROVE  \/ x \in Without(T, key) \cup Own(T, key, reading[c])
           \/ x.at <= now - Window
<1> DEFINE at == reading[c]
<1>1. x \in granted /\ x.at \in Times
  BY DEF Retained, GatewayTypeOK, Entries
<1>2. at \in Times /\ at <= now /\ now \in Times
  BY DEF GatewayTypeOK
<1>3. CASE x.at <= at - Window
  BY <1>1, <1>2, <1>3, GatewayAssumption
<1>4. CASE x.at > at - Window /\ x \in requests
  <2>1. x \in Pruned(key, at)
    BY <1>4, PrunedDrops
  <2>2. x \in T
    BY <2>1, RetainedStays
  <2>3. QED
    BY <1>4, <2>2, OwnCounts DEF Without
<1>5. QED
  BY <1>1, <1>2, <1>3, <1>4, GatewayAssumption DEF GrantsAreTracked

\* What one client was allowed from one span of time before t up to t
Recently(key, t, span) == {x \in granted : x.key = key /\ x.at <= t /\ x.at > t - span}

LEMMA WithinLimitSays ==
    WithinLimit <=> \A g \in granted : Cardinality(Recently(g.key, g.at, Window - lag)) <= Limit
BY DEF WithinLimit, Recently

\* A stretch that holds the new grant holds, of the others, only what the call counted.
LEMMA CountedByCall ==
    ASSUME GatewayTypeOK, GrantsAreTracked, NEW c \in Callers, NEW key \in Keys,
           Decided(c),
           NEW T \in Roomy(Pruned(key, reading[c]), key, reading[c]),
           NEW t \in Times, reading[c] <= t,
           NEW x \in Retained(granted, Pruned(key, reading[c]), T),
           x.key = key, x.at > t - (Window - lag')
    PROVE  x \in Own(T, key, reading[c])
<1> DEFINE at == reading[c]
<1>1. x \in granted /\ x.at \in Times /\ at \in Times /\ now \in Times
  BY DecidedTypes DEF Retained, GatewayTypeOK, Entries
<1>2. now - at <= lag' /\ lag' \in Nat
  BY DecidedTypes
<1>3. x.at > now - Window /\ x.at > at - Window
  BY <1>1, <1>2, GatewayAssumption, CallersAssumption
<1>4. x \in requests
  BY <1>1, <1>3, GatewayAssumption, CallersAssumption DEF GrantsAreTracked
<1>5. x \in T
  BY <1>3, <1>4, PrunedDrops, RetainedStays
<1>6. QED
  BY <1>3, <1>5, OwnCounts

\* A call that is allowed keeps the limit.
LEMMA AllowWithin ==
    ASSUME GatewayTypeOK, GrantsAreTracked, WithinLimit,
           NEW c \in Callers, NEW key \in Keys, Allow(c, key)
    PROVE  WithinLimit'
<1> DEFINE at == reading[c]
           e == Entry(c, key, granted)
<1>1. PICK T \in Roomy(Pruned(key, at), key, at) :
          /\ Cardinality(Own(T, key, at)) < Limit
          /\ granted' = Retained(granted, Pruned(key, at), T) \cup {e}
  BY DEF Allow
<1>2. Decided(c)
  BY DEF Allow
<1> DEFINE kept == Retained(granted, Pruned(key, at), T)
<1>3. kept \subseteq granted /\ IsFiniteSet(granted) /\ granted \subseteq Entries
  BY DEF Retained, GatewayTypeOK
<1>4. e.key = key /\ e.at = at /\ at \in Times
  BY <1>2, NewEntry, DecidedTypes
<1>5. lag \in Nat /\ lag' \in Nat /\ lag <= lag'
  BY <1>2, DecidedTypes DEF GatewayTypeOK
<1>6. SUFFICES ASSUME NEW g \in granted'
               PROVE  Cardinality({x \in granted' : /\ x.key = g.key /\ x.at <= g.at
                                                    /\ x.at > g.at - (Window - lag')}) <= Limit
  BY DEF WithinLimit
<1> DEFINE W == {x \in granted' : /\ x.key = g.key /\ x.at <= g.at
                                  /\ x.at > g.at - (Window - lag')}
<1>7. g.at \in Times
  BY <1>1, <1>3, <1>4 DEF Entries
<1>8. CASE e \notin W
  <2>1. W \subseteq kept
    BY <1>1, <1>8
  <2>2. Cardinality({}) <= Limit
    BY FS_EmptySet, GatewayAssumption
  <2>3. CASE g \in kept
    <3>1. W \subseteq Recently(g.key, g.at, Window - lag)
      BY <1>3, <1>5, <1>7, <2>1, GatewayAssumption, CallersAssumption DEF Recently, Entries
    <3>2. IsFiniteSet(Recently(g.key, g.at, Window - lag))
      BY <1>3, FS_Subset DEF Recently
    <3>3. Cardinality(Recently(g.key, g.at, Window - lag)) <= Limit
      BY <1>3, <2>3, WithinLimitSays
    <3>4. QED
      BY <3>1, <3>2, <3>3, FS_Subset, FS_CardinalityType, GatewayAssumption
  <2>4. CASE g \notin kept
    <3>1. g = e
      BY <1>1, <2>4
    <3>2. Window - lag' <= 0
      <4>1. g.key = e.key /\ g.at <= g.at /\ g \in granted'
        BY <1>7, <3>1
      <4>2. ~(g.at > g.at - (Window - lag'))
        BY <1>8, <3>1, <4>1
      <4>3. g.at \in Int /\ Window - lag' \in Int
        BY <1>5, <1>7, GatewayAssumption
      <4>4. QED
        BY <4>2, <4>3, Stretch
    <3>3. W = {}
      <4>1. ASSUME NEW x \in W PROVE FALSE
        <5>1. x.at \in Times /\ x.at <= g.at /\ x.at > g.at - (Window - lag')
          BY <1>3, <2>1 DEF Entries
        <5>2. g.at \in Int /\ Window - lag' \in Int /\ x.at \in Int
          BY <1>5, <1>7, <5>1, GatewayAssumption
        <5>3. QED
          BY <3>2, <5>1, <5>2, Stretch
      <4>2. QED
        BY <4>1
    <3>4. QED
      BY <2>2, <3>3
  <2>5. QED
    BY <2>3, <2>4
<1>9. CASE e \in W
  <2>1. W \ {e} \subseteq Own(T, key, at)
    BY <1>1, <1>2, <1>4, <1>7, <1>9, CountedByCall
  <2>2. IsFiniteSet(Own(T, key, at))
    <3>1. T \subseteq requests
      BY RoomyEvicts, PrunedDrops
    <3>2. Own(T, key, at) \subseteq requests
      BY <3>1 DEF Own, Of, Younger
    <3>3. QED
      BY <3>2, FS_Subset DEF GatewayTypeOK
  <2>3. Cardinality(W \ {e}) < Limit
    BY <1>1, <2>1, <2>2, FS_Subset, FS_CardinalityType, GatewayAssumption
  <2>4. IsFiniteSet(W \ {e})
    BY <2>1, <2>2, FS_Subset
  <2>5. Cardinality((W \ {e}) \cup {e}) <= Limit
    <3>1. Cardinality((W \ {e}) \cup {e}) = Cardinality(W \ {e}) + 1
      <4>1. e \notin W \ {e}
        OBVIOUS
      <4> HIDE DEF e, W
      <4>2. QED
        BY <2>4, <4>1, FS_AddElement
    <3>2. Cardinality(W \ {e}) \in Nat
      BY <2>4, FS_CardinalityType
    <3> HIDE DEF e, W
    <3>3. QED
      BY <2>3, <3>1, <3>2, GatewayAssumption
  <2>6. (W \ {e}) \cup {e} = W
    BY <1>9
  <2>7. QED
    BY <2>5, <2>6
<1>10. QED
  BY <1>8, <1>9

\* Of the requests of one client, at most Limit are allowed in the window less the lag,
\* for any number of threads, clients, requests and delays (gateway.cpp:81-127).
THEOREM LimitHolds == LimiterSpec => []WithinLimit
<1> DEFINE Inv == GatewayTypeOK /\ GrantsAreTracked /\ WithinLimit
<1>1. GatewayInit => Inv
  <2>1. GatewayInit => GatewayTypeOK
    BY GatewayStarts
  <2>2. GatewayInit => GrantsAreTracked /\ WithinLimit
    BY DEF GatewayInit, GrantsAreTracked, WithinLimit
  <2>3. QED
    BY <2>1, <2>2
<1>2. Inv /\ [LimiterNext]_gatewayVars => GrantsAreTracked' /\ WithinLimit'
  <2> SUFFICES ASSUME Inv, [LimiterNext]_gatewayVars
               PROVE  GrantsAreTracked' /\ WithinLimit'
    OBVIOUS
  <2>1. CASE TickGateway
    <3>1. granted' = granted /\ requests' = requests /\ lag' = lag /\ now' = now + 1
      BY <2>1 DEF TickGateway, Tick, limiter
    <3>2. now \in Int /\ Window \in Int /\ \A x \in granted : x.at \in Int
      BY GatewayAssumption, CallersAssumption DEF GatewayTypeOK, Entries
    <3>3. QED
      BY <3>1, <3>2 DEF GrantsAreTracked, WithinLimit
  <2>2. CASE (\E c \in Callers : ReadClock(c)) \/ UNCHANGED gatewayVars
    <3>1. granted' = granted /\ requests' = requests /\ lag' = lag /\ now' = now
      BY <2>2 DEF ReadClock, gatewayVars, limiter
    <3>2. QED
      BY <3>1 DEF GrantsAreTracked, WithinLimit
  <2>3. ASSUME NEW c \in Callers, NEW key \in Keys, Allow(c, key)
        PROVE  GrantsAreTracked' /\ WithinLimit'
    <3>1. PICK T \in Roomy(Pruned(key, reading[c]), key, reading[c]) :
              /\ requests' = Without(T, key) \cup Own(T, key, reading[c])
                                 \cup {Entry(c, key, granted)}
              /\ granted' = Retained(granted, Pruned(key, reading[c]), T)
                                 \cup {Entry(c, key, granted)}
      BY <2>3 DEF Allow
    <3>2. reading[c] # NoReading /\ now' = now
      BY <2>3 DEF Allow, Decided
    <3>3. GrantsAreTracked'
      BY <3>1, <3>2, GrantStaysTracked DEF GrantsAreTracked
    <3>4. QED
      BY <2>3, <3>3, AllowWithin
  <2>4. ASSUME NEW c \in Callers, NEW key \in Keys, Refuse(c, key)
        PROVE  GrantsAreTracked' /\ WithinLimit'
    <3> DEFINE at == reading[c]
               P == Pruned(key, at)
    <3>1. /\ requests' = Without(P, key) \cup Own(P, key, at)
          /\ granted' = granted /\ now' = now /\ lag \in Nat /\ lag' \in Nat /\ lag <= lag'
          /\ at \in Times /\ at <= now /\ now \in Times
      BY <2>4, DecidedTypes DEF Refuse, Decided, GatewayTypeOK
    <3>2. \A x \in granted : x.at \in Times
      BY DEF GatewayTypeOK, Entries
    <3>3. GrantsAreTracked'
      <4>1. ASSUME NEW x \in granted, x.at > now - Window PROVE x \in requests'
        <5>1. x \in requests /\ x.at > at - Window
          BY <3>1, <3>2, <4>1, GatewayAssumption, CallersAssumption DEF GrantsAreTracked
        <5>2. x \in P
          BY <5>1, PrunedDrops
        <5>3. QED
          BY <3>1, <5>1, <5>2, OwnCounts DEF Without
      <4>2. QED
        BY <3>1, <3>2, <4>1, GatewayAssumption, CallersAssumption DEF GrantsAreTracked
    <3>4. ASSUME NEW g \in granted
          PROVE  Cardinality(Recently(g.key, g.at, Window - lag')) <= Limit
      <4>1. Recently(g.key, g.at, Window - lag') \subseteq Recently(g.key, g.at, Window - lag)
        BY <3>1, <3>2, GatewayAssumption, CallersAssumption DEF Recently
      <4>2. IsFiniteSet(Recently(g.key, g.at, Window - lag))
        BY FS_Subset DEF Recently, GatewayTypeOK
      <4>3. Cardinality(Recently(g.key, g.at, Window - lag)) <= Limit
        BY WithinLimitSays
      <4>4. QED
        BY <4>1, <4>2, <4>3, FS_Subset, FS_CardinalityType, GatewayAssumption
    <3>5. QED
      BY <3>1, <3>3, <3>4 DEF WithinLimit, Recently
  <2>5. QED
    BY <2>1, <2>2, <2>3, <2>4 DEF LimiterNext
<1>3. QED
  BY <1>1, <1>2, LimiterTypeCorrect, PTL DEF LimiterSpec

-----------------------------------------------------------------------------
(* The idempotency store *)

\* A key that was called new is in the table, or a reading has found it too old.
FreshAreSeen == \A x \in fresh : x \in seen \/ x.at <= now - Ttl

\* The entries of a key are numbered below their count.
Numbered == \A x \in fresh : x.no < Cardinality(Of(fresh, x.key))

LEMMA FreshStaysSeen ==
    ASSUME GatewayTypeOK, FreshAreSeen, NEW c \in Callers, reading[c] # NoReading,
           NEW key \in Keys, NEW T \in Roomy(Unexpired(reading[c]), key, reading[c]),
           NEW x \in Retained(fresh, Unexpired(reading[c]), T)
    PROVE  x \in T \/ x.at <= now - Ttl
<1>1. x \in fresh /\ x.at \in Times /\ now \in Times
  BY DEF Retained, GatewayTypeOK, Entries
<1>2. reading[c] \in Times /\ reading[c] <= now
  BY DEF GatewayTypeOK
<1>3. CASE x.at <= reading[c] - Ttl
  BY <1>1, <1>2, <1>3, GatewayAssumption, CallersAssumption
<1>4. CASE x.at > reading[c] - Ttl /\ x \in seen
  BY <1>4, YoungerDrops, RetainedStays DEF Unexpired
<1>5. QED
  BY <1>1, <1>2, <1>3, <1>4, GatewayAssumption, CallersAssumption DEF FreshAreSeen

LEMMA NumberedGrows ==
    ASSUME GatewayTypeOK, Numbered, NEW key, NEW e, e \notin fresh, e.key = key,
           e.no = Cardinality(Of(fresh, key)),
           NEW gone,
           \A x \in fresh : x.key = key => x \notin gone,
           \A x, y \in fresh : x.key = y.key /\ x \in gone => y \in gone,
           fresh' = (fresh \ gone) \cup {e}
    PROVE  Numbered'
<1>1. IsFiniteSet(fresh)
  BY DEF GatewayTypeOK
<1> SUFFICES ASSUME NEW x \in fresh' PROVE x.no < Cardinality(Of(fresh', x.key))
  BY DEF Numbered
<1>2. CASE x.key = key
  <2>1. Of(fresh', key) = Of(fresh, key) \cup {e}
    BY DEF Of
  <2>2. IsFiniteSet(Of(fresh, key)) /\ e \notin Of(fresh, key)
    BY <1>1, FS_Subset DEF Of
  <2>3. /\ Cardinality(Of(fresh', key)) = Cardinality(Of(fresh, key)) + 1
        /\ Cardinality(Of(fresh, key)) \in Nat
    BY <2>1, <2>2, FS_AddElement, FS_CardinalityType
  <2>4. CASE x = e
    BY <1>2, <2>3, <2>4
  <2>5. CASE x # e
    <3>1. x \in fresh /\ x.no \in Nat
      BY <2>5 DEF GatewayTypeOK, Entries
    <3>2. x.no < Cardinality(Of(fresh, key))
      BY <1>2, <3>1 DEF Numbered
    <3>3. QED
      BY <1>2, <2>3, <3>1, <3>2
  <2>6. QED
    BY <2>4, <2>5
<1>3. CASE x.key # key
  <2>1. x \in fresh /\ x \notin gone
    BY <1>3
  <2>2. Of(fresh', x.key) = Of(fresh, x.key)
    BY <1>3, <2>1 DEF Of
  <2>3. QED
    BY <2>1, <2>2 DEF Numbered
<1>4. QED
  BY <1>2, <1>3

\* A call that is told its key is new.
LEMMA RecordNewFresh ==
    ASSUME GatewayTypeOK, FreshAreSeen, Numbered, FreshOnce,
           NEW c \in Callers, NEW key \in Keys, RecordNew(c, key)
    PROVE  FreshAreSeen' /\ Numbered' /\ FreshOnce'
<1> DEFINE at == reading[c]
           e == Entry(c, key, fresh)
<1>1. PICK T \in Roomy(Unexpired(at), key, at) :
          /\ seen' = T \cup {e}
          /\ fresh' = Retained(fresh, Unexpired(at), T) \cup {e}
  BY DEF RecordNew
<1>2. Decided(c) /\ key \notin KeysOf(Unexpired(at))
  BY DEF RecordNew
<1>3. /\ e.key = key /\ e.at = at /\ at \in Times /\ e \in Entries
      /\ e.no = Cardinality(Of(fresh, key))
  BY <1>2, NewEntry, DecidedTypes DEF Entry
<1>4. /\ now' = now /\ now \in Times /\ lag \in Nat /\ lag' \in Nat /\ lag <= lag'
      /\ now - at <= lag' /\ reading[c] # NoReading
  BY <1>2, DecidedTypes DEF Decided, GatewayTypeOK
<1>5. \A x \in fresh : x.at \in Times /\ x.no \in Nat
  BY DEF GatewayTypeOK, Entries
<1>6. FreshAreSeen'
  BY <1>1, <1>4, FreshStaysSeen DEF FreshAreSeen
<1>7. Numbered'
  <2> DEFINE gone == {x \in fresh : x.key \in KeysOf(Unexpired(at)) \ KeysOf(T)}
  <2>1. e \notin fresh
    <3>1. ASSUME e \in fresh PROVE FALSE
      <4>1. e.no < e.no
        BY <1>3, <3>1 DEF Numbered
      <4>2. QED
        BY <1>5, <3>1, <4>1
    <3>2. QED
      BY <3>1
  <2>2. fresh' = (fresh \ gone) \cup {e}
    BY <1>1 DEF Retained
  <2>3. /\ \A x \in fresh : x.key = key => x \notin gone
        /\ \A x, y \in fresh : x.key = y.key /\ x \in gone => y \in gone
    BY <1>2
  <2> HIDE DEF gone, e
  <2>4. QED
    BY <1>3, <2>1, <2>2, <2>3, NumberedGrows
<1>8. FreshOnce'
  <2> SUFFICES ASSUME NEW x \in fresh', NEW y \in fresh', x.key = y.key, x.no < y.no
               PROVE  y.at - x.at >= Ttl - lag'
    BY DEF FreshOnce
  <2>1. CASE x \in fresh /\ y \in fresh
    BY <1>4, <1>5, <2>1, GatewayAssumption, CallersAssumption DEF FreshOnce
  <2>2. CASE x \in fresh /\ y = e
    <3>1. x \in seen \/ x.at <= now - Ttl
      BY <2>2 DEF FreshAreSeen
    <3>2. x.at <= now - Ttl \/ x.at <= at - Ttl
      <4>1. CASE x \in seen
        <5>1. x \notin Unexpired(at)
          BY <1>2, <1>3, <2>2 DEF KeysOf
        <5>2. QED
          BY <1>3, <1>5, <2>2, <4>1, <5>1, GatewayAssumption, CallersAssumption
             DEF Unexpired, Younger
      <4>2. QED
        BY <3>1, <4>1
    <3> HIDE DEF e, at
    <3>3. QED
      BY <1>3, <1>4, <1>5, <2>2, <3>2, GatewayAssumption, CallersAssumption
  <2>3. CASE x = e
    <3>1. y \in fresh /\ y.no < e.no
      <4>1. y # e
        BY <1>3, <1>5, <2>3 DEF Entries
      <4>2. y \in fresh
        BY <1>1, <4>1 DEF Retained
      <4>3. QED
        BY <1>3, <2>3, <4>2 DEF Numbered
    <3>2. e.no \in Nat /\ y.no \in Nat
      BY <1>3, <1>5, <3>1 DEF Entries
    <3>3. QED
      BY <2>3, <3>1, <3>2
  <2>4. QED
    BY <1>1, <2>1, <2>2, <2>3 DEF Retained
<1>9. QED
  BY <1>6, <1>7, <1>8

\* A key that is called new twice was called so its lifetime apart, less the lag, for
\* any number of threads, keys and delays (gateway.cpp:148-181).
THEOREM NewOnlyOnce == IdempotencySpec => []FreshOnce
<1> DEFINE Inv == GatewayTypeOK /\ FreshAreSeen /\ Numbered /\ FreshOnce
<1>1. GatewayInit => Inv
  <2>1. GatewayInit => GatewayTypeOK
    BY GatewayStarts
  <2>2. GatewayInit => FreshAreSeen /\ Numbered /\ FreshOnce
    BY DEF GatewayInit, FreshAreSeen, Numbered, FreshOnce
  <2>3. QED
    BY <2>1, <2>2
<1>2. Inv /\ [IdempotencyNext]_gatewayVars => FreshAreSeen' /\ Numbered' /\ FreshOnce'
  <2> SUFFICES ASSUME Inv, [IdempotencyNext]_gatewayVars
               PROVE  FreshAreSeen' /\ Numbered' /\ FreshOnce'
    OBVIOUS
  <2>1. CASE TickGateway
    <3>1. fresh' = fresh /\ seen' = seen /\ lag' = lag /\ now' = now + 1
      BY <2>1 DEF TickGateway, Tick, store
    <3>2. now \in Int /\ Ttl \in Int /\ \A x \in fresh : x.at \in Int
      BY GatewayAssumption, CallersAssumption DEF GatewayTypeOK, Entries
    <3>3. QED
      BY <3>1, <3>2 DEF FreshAreSeen, Numbered, FreshOnce
  <2>2. CASE (\E c \in Callers : ReadClock(c)) \/ UNCHANGED gatewayVars
    <3>1. fresh' = fresh /\ seen' = seen /\ lag' = lag /\ now' = now
      BY <2>2 DEF ReadClock, gatewayVars, store
    <3>2. QED
      BY <3>1 DEF FreshAreSeen, Numbered, FreshOnce
  <2>3. ASSUME NEW c \in Callers, NEW key \in Keys, RecordNew(c, key)
        PROVE  FreshAreSeen' /\ Numbered' /\ FreshOnce'
    BY <2>3, RecordNewFresh
  <2>4. ASSUME NEW c \in Callers, NEW key \in Keys, Duplicate(c, key)
        PROVE  FreshAreSeen' /\ Numbered' /\ FreshOnce'
    <3>1. /\ seen' = Unexpired(reading[c]) /\ fresh' = fresh /\ now' = now
          /\ lag \in Nat /\ lag' \in Nat /\ lag <= lag'
          /\ reading[c] \in Times /\ reading[c] <= now /\ now \in Times
      BY <2>4, DecidedTypes DEF Duplicate, Decided, GatewayTypeOK
    <3>2. \A x \in fresh : x.at \in Times
      BY DEF GatewayTypeOK, Entries
    <3>3. FreshAreSeen'
      BY <3>1, <3>2, GatewayAssumption, CallersAssumption
         DEF FreshAreSeen, Unexpired, Younger
    <3>4. Numbered'
      BY <3>1 DEF Numbered
    <3>5. FreshOnce'
      BY <3>1, <3>2, GatewayAssumption, CallersAssumption DEF FreshOnce
    <3>6. QED
      BY <3>3, <3>4, <3>5
  <2>5. QED
    BY <2>1, <2>2, <2>3, <2>4 DEF IdempotencyNext
<1>3. QED
  BY <1>1, <1>2, StoreTypeCorrect, PTL DEF IdempotencySpec
-----------------------------------------------------------------------------
(* The budget of actions *)

\* A set of recorded actions.
Log(T) == T \subseteq [at : Times, no : Nat] /\ \A a \in T : a.at <= now /\ a.no < records

LEMMA BudgetTypeByLogs ==
    BudgetTypeOK <=>
        /\ now \in Times /\ records \in Nat /\ cleared \subseteq Callers
        /\ Log(actions) /\ Log(ran) /\ IsFiniteSet(actions)
BY DEF BudgetTypeOK, Log

LEMMA RecentIsPart ==
    ASSUME BudgetTypeOK
    PROVE  /\ Recent \subseteq actions /\ IsFiniteSet(Recent)
           /\ Log(Recent)
           /\ Cardinality(Recent) \in Nat
<1>1. Recent \subseteq actions
  BY DEF Recent
<1>2. IsFiniteSet(actions) /\ Log(actions)
  BY BudgetTypeByLogs
<1>3. IsFiniteSet(Recent) /\ Cardinality(Recent) \in Nat
  BY <1>1, <1>2, FS_Subset, FS_CardinalityType
<1>4. QED
  BY <1>1, <1>2, <1>3 DEF Log

\* The clock moves on.
LEMMA TickBudgetTypes ==
    ASSUME BudgetTypeOK, TickBudget
    PROVE  BudgetTypeOK' /\ now \in Nat /\ now' = now + 1
<1>1. now \in Times /\ now' = now + 1 /\ now' \in Times
  BY CallersAssumption DEF TickBudget, Tick, BudgetTypeOK
<1>2. UNCHANGED <<actions, cleared, records, ran>>
  BY DEF TickBudget
<1>3. ASSUME NEW T, Log(T) PROVE \A a \in T : a.at <= now'
  BY <1>1, <1>3, CallersAssumption DEF Log
<1>4. /\ Log(actions) /\ Log(ran) /\ IsFiniteSet(actions)
      /\ records \in Nat /\ cleared \subseteq Callers
  BY BudgetTypeByLogs
<1>5. QED
  BY <1>1, <1>2, <1>3, <1>4 DEF BudgetTypeOK, Log

\* A record adds one action, of now.
LEMMA RecordedAdds ==
    ASSUME BudgetTypeOK, NEW c \in Callers, Recorded(c)
    PROVE  /\ now' = now /\ now \in Nat
           /\ actions' = Recent \cup {[at |-> now, no |-> records]}
           /\ IsFiniteSet(actions')
           /\ records \in Nat /\ records' = records + 1
           /\ [at |-> now, no |-> records] \in [at : Times, no : Nat]
           /\ cleared' = cleared \ {c} /\ c \in cleared
<1>1. now \in Times /\ records \in Nat
  BY DEF BudgetTypeOK
<1>2. IsFiniteSet(Recent)
  BY RecentIsPart
<1>3. IsFiniteSet(Recent \cup {[at |-> now, no |-> records]})
  BY <1>2, FS_AddElement
<1>4. QED
  BY <1>1, <1>3, CallersAssumption DEF Recorded

LEMMA BudgetTypeInductive == BudgetTypeOK /\ [BudgetNext]_budgetVars => BudgetTypeOK'
<1> SUFFICES ASSUME BudgetTypeOK, [BudgetNext]_budgetVars
             PROVE  BudgetTypeOK'
  OBVIOUS
<1>1. CASE TickBudget
  BY <1>1, TickBudgetTypes
<1>2. ASSUME NEW c \in Callers, PassCheck(c) \/ TurnedAway(c)
      PROVE  BudgetTypeOK'
  <2>1. IsFiniteSet(Recent) /\ Log(Recent)
    BY RecentIsPart
  <2>2. /\ actions' = Recent /\ UNCHANGED <<now, records, ran>>
        /\ cleared' \subseteq cleared \cup {c}
    BY <1>2 DEF PassCheck, TurnedAway
  <2>3. /\ now \in Times /\ records \in Nat /\ cleared \subseteq Callers /\ Log(ran)
    BY BudgetTypeByLogs
  <2>4. Log(actions)' /\ Log(ran)'
    BY <2>1, <2>2, <2>3 DEF Log
  <2>5. QED
    BY <2>1, <2>2, <2>3, <2>4 DEF BudgetTypeOK, Log
<1>3. ASSUME NEW c \in Callers, Disallowed(c)
      PROVE  BudgetTypeOK'
  BY <1>3 DEF Disallowed, BudgetTypeOK
<1>4. ASSUME NEW c \in Callers, Act(c) \/ Exhausted(c)
      PROVE  BudgetTypeOK'
  <2> DEFINE new == [at |-> now, no |-> records]
  <2>1. Recorded(c) /\ ran' \subseteq ran \cup {new}
    BY <1>4 DEF Act, Exhausted
  <2>2. /\ now' = now /\ now \in Nat /\ records \in Nat /\ records' = records + 1
        /\ actions' = Recent \cup {new} /\ IsFiniteSet(actions')
        /\ new \in [at : Times, no : Nat]
        /\ new.at = now /\ new.no = records
        /\ cleared' \subseteq cleared
    BY <2>1, RecordedAdds
  <2>3. /\ now \in Times /\ cleared \subseteq Callers /\ Log(ran) /\ Log(Recent)
    BY BudgetTypeByLogs, RecentIsPart
  <2> HIDE DEF new
  <2>4. ASSUME NEW T, Log(T), NEW U, U \subseteq T \cup {new}
        PROVE  U \subseteq [at : Times, no : Nat] /\ \A a \in U : a.at <= now' /\ a.no < records'
    <3>1. /\ T \subseteq [at : Times, no : Nat]
          /\ \A a \in T : a.no \in Nat /\ a.no < records /\ a.at <= now
      BY <2>4 DEF Log
    <3>2. U \subseteq [at : Times, no : Nat]
      BY <3>1, <2>2, <2>4
    <3>3. ASSUME NEW a \in U PROVE a.at <= now' /\ a.no < records'
      <4>1. CASE a = new
        BY <4>1, <2>2
      <4>2. CASE a \in T
        BY <4>2, <3>1, <2>2
      <4>3. QED
        BY <4>1, <4>2, <2>4
    <3>4. QED
      BY <3>2, <3>3
  <2>5. Log(actions)' /\ Log(ran)'
    BY <2>1, <2>2, <2>3, <2>4 DEF Log
  <2>6. QED
    BY <2>2, <2>3, <2>5 DEF BudgetTypeOK, Log
<1>5. CASE UNCHANGED budgetVars
  BY <1>5 DEF budgetVars, BudgetTypeOK
<1>6. QED
  BY <1>1, <1>2, <1>3, <1>4, <1>5 DEF BudgetNext

LEMMA BudgetStarts == BudgetInit => BudgetTypeOK
BY FS_EmptySet, CallersAssumption DEF BudgetInit, BudgetTypeOK

\* What the guard of the budget keeps has its type, in every reachable state.
THEOREM BudgetTypeCorrect == BudgetSpec => []BudgetTypeOK
BY BudgetStarts, BudgetTypeInductive, PTL DEF BudgetSpec

-----------------------------------------------------------------------------
(* The hour of the actions that are carried out *)

\* The actions of the hour that ends with r
HourOf(T, r) == {x \in T : x.at <= r.at /\ x.at > r.at - Hour}

\* What was carried out is still counted, or an hour old.
RanCounted == \A x \in ran : x \in actions \/ x.at <= now - Hour

BudgetInv == BudgetTypeOK /\ RanCounted /\ ActionsWithinBudget

LEMMA BudgetSays ==
    ActionsWithinBudget <=> \A r \in ran : Cardinality(HourOf(ran, r)) <= MaxActions
BY DEF ActionsWithinBudget, HourOf

\* Nothing but an action that is carried out changes the history.
LEMMA RanCountedStays ==
    ASSUME BudgetTypeOK, RanCounted, now' = now, ran' = ran,
           Recent \subseteq actions'
    PROVE  RanCounted'
<1>1. SUFFICES ASSUME NEW x \in ran, x \notin actions'
               PROVE  x.at <= now - Hour
  BY DEF RanCounted
<1>2. x \in actions \/ x.at <= now - Hour
  BY DEF RanCounted
<1>3. ASSUME x \in actions PROVE x.at <= now - Hour
  <2>1. x \notin Recent
    BY <1>1
  <2>2. now \in Int /\ x.at \in Int
    BY <1>3, CallersAssumption DEF BudgetTypeOK
  <2>3. QED
    BY <1>3, <2>1, <2>2, BudgetAssumption DEF Recent
<1>4. QED
  BY <1>2, <1>3

\* An action that is carried out fits the hour it ends.
LEMMA ActFits ==
    ASSUME BudgetInv, NEW c \in Callers, Act(c)
    PROVE  RanCounted' /\ ActionsWithinBudget'
<1> DEFINE new == [at |-> now, no |-> records]
<1>1. /\ now' = now /\ now \in Nat
      /\ actions' = Recent \cup {new} /\ IsFiniteSet(actions')
  BY RecordedAdds DEF Act, BudgetInv
<1>2. /\ ran' = ran \cup {new}
      /\ Cardinality(Recent) + 1 <= MaxActions
      /\ new.at = now
  BY DEF Act
<1>3. IsFiniteSet(Recent) /\ Cardinality(Recent) \in Nat
  BY RecentIsPart DEF BudgetInv
<1>4. Cardinality(Recent \cup {new}) <= MaxActions
  <2>1. /\ Cardinality(Recent \cup {new}) \in Nat
        /\ Cardinality(Recent \cup {new}) <= Cardinality(Recent) + 1
    BY <1>3, OneMore
  <2> HIDE DEF new
  <2>2. QED
    BY <2>1, <1>2, <1>3, BudgetAssumption
<1>5. /\ \A x \in ran : x.at \in Nat /\ x.at <= now
      /\ \A x \in actions : x.at \in Nat /\ x.at <= now
  BY CallersAssumption DEF BudgetInv, BudgetTypeOK
<1> HIDE DEF new
<1>6. \A x \in ran : x.at > now - Hour => x \in Recent
  BY <1>1, <1>5, BudgetAssumption DEF BudgetInv, RanCounted, Recent
<1>7. ASSUME NEW r \in ran' PROVE Cardinality(HourOf(ran', r)) <= MaxActions
  <2>1. CASE r.at = now
    <3>1. HourOf(ran', r) \subseteq Recent \cup {new}
      BY <2>1, <1>2, <1>6 DEF HourOf
    <3>2. IsFiniteSet(Recent \cup {new}) /\ Cardinality(Recent \cup {new}) \in Nat
      BY <1>3, FS_AddElement, FS_CardinalityType
    <3>3. /\ IsFiniteSet(HourOf(ran', r))
          /\ Cardinality(HourOf(ran', r)) <= Cardinality(Recent \cup {new})
      BY <3>1, <3>2, FS_Subset
    <3>4. Cardinality(HourOf(ran', r)) \in Nat
      BY <3>3, FS_CardinalityType
    <3>5. QED
      BY <3>2, <3>3, <3>4, <1>4, BudgetAssumption
  <2>2. CASE r.at # now
    <3>1. r \in ran /\ r.at \in Nat /\ r.at <= now
      BY <2>2, <1>2, <1>5
    <3>2. ~(new.at <= r.at)
      BY <3>1, <2>2, <1>1, <1>2
    <3>3. HourOf(ran', r) = HourOf(ran, r)
      BY <1>2, <3>2 DEF HourOf
    <3>4. QED
      BY <3>1, <3>3, BudgetSays DEF BudgetInv
  <2>3. QED
    BY <2>1, <2>2
<1>8. ActionsWithinBudget'
  BY <1>7 DEF ActionsWithinBudget, HourOf
<1>9. RanCounted'
  <2>1. SUFFICES ASSUME NEW x \in ran', x \notin actions' PROVE x.at <= now - Hour
    BY <1>1 DEF RanCounted
  <2>2. x \in ran /\ x \notin Recent
    BY <2>1, <1>1, <1>2
  <2>3. QED
    BY <2>2, <1>1, <1>5, <1>6, BudgetAssumption
<1>10. QED
  BY <1>8, <1>9

LEMMA BudgetInductive == BudgetInv /\ [BudgetNext]_budgetVars => BudgetInv'
<1> SUFFICES ASSUME BudgetInv, [BudgetNext]_budgetVars
             PROVE  BudgetInv'
  OBVIOUS
<1>1. BudgetTypeOK'
  BY BudgetTypeInductive DEF BudgetInv
<1>2. CASE TickBudget
  <2>1. now \in Nat /\ now' = now + 1
    BY <1>2, TickBudgetTypes DEF BudgetInv
  <2>2. ran' = ran /\ actions' = actions
    BY <1>2 DEF TickBudget
  <2>3. \A x \in ran : x.at \in Nat
    BY CallersAssumption DEF BudgetInv, BudgetTypeOK
  <2>4. RanCounted'
    BY <2>1, <2>2, <2>3, BudgetAssumption DEF BudgetInv, RanCounted
  <2>5. QED
    BY <1>1, <2>2, <2>4 DEF BudgetInv, ActionsWithinBudget
<1>3. ASSUME NEW c \in Callers,
             PassCheck(c) \/ TurnedAway(c) \/ Disallowed(c) \/ Exhausted(c)
      PROVE  BudgetInv'
  <2>1. now' = now /\ ran' = ran /\ Recent \subseteq actions'
    BY <1>3 DEF PassCheck, TurnedAway, Disallowed, Exhausted, Recorded, Recent
  <2>2. RanCounted'
    BY <2>1, RanCountedStays DEF BudgetInv
  <2>3. QED
    BY <1>1, <2>1, <2>2 DEF BudgetInv, ActionsWithinBudget
<1>4. ASSUME NEW c \in Callers, Act(c) PROVE BudgetInv'
  BY <1>1, <1>4, ActFits DEF BudgetInv
<1>5. CASE UNCHANGED budgetVars
  BY <1>1, <1>5 DEF budgetVars, BudgetInv, RanCounted, ActionsWithinBudget
<1>6. QED
  BY <1>2, <1>3, <1>4, <1>5 DEF BudgetNext

\* In any hour at most MaxActions actions are carried out, whatever number of tools check
\* and record at the same time.
THEOREM BudgetHolds == BudgetSpec => []ActionsWithinBudget
<1>1. BudgetInit => BudgetInv
  BY BudgetStarts DEF BudgetInit, BudgetInv, RanCounted, ActionsWithinBudget
<1>2. BudgetInv => ActionsWithinBudget
  BY DEF BudgetInv
<1>3. QED
  BY <1>1, <1>2, BudgetInductive, PTL DEF BudgetSpec

-----------------------------------------------------------------------------
(* The attempts *)

AttemptsInv == BudgetTypeOK /\ AttemptsBounded

\* The threads that have passed the check
LEMMA ClearedCounted ==
    ASSUME BudgetTypeOK
    PROVE  /\ IsFiniteSet(cleared)
           /\ Cardinality(cleared) \in Nat
           /\ Cardinality(cleared) <= Cardinality(Callers)
BY CallersCounted, FS_Subset, FS_CardinalityType DEF BudgetTypeOK

\* With no record made, the actions of the last hour only get fewer.
LEMMA RecentShrinks ==
    ASSUME BudgetTypeOK, BudgetTypeOK', now <= now',
           actions' \subseteq actions
    PROVE  Cardinality(Recent') <= Cardinality(Recent)
<1>1. now \in Nat /\ now' \in Nat /\ \A x \in actions : x.at \in Nat
  BY CallersAssumption DEF BudgetTypeOK
<1>2. Recent' \subseteq Recent
  BY <1>1, BudgetAssumption DEF Recent
<1>3. QED
  BY <1>2, RecentIsPart, FS_Subset

LEMMA AttemptsInductive == AttemptsInv /\ [BudgetNext]_budgetVars => AttemptsInv'
<1> SUFFICES ASSUME AttemptsInv, [BudgetNext]_budgetVars
             PROVE  AttemptsBounded'
  BY BudgetTypeInductive DEF AttemptsInv
<1> DEFINE all == Cardinality(Callers)
<1>1. BudgetTypeOK /\ BudgetTypeOK'
  BY BudgetTypeInductive DEF AttemptsInv
<1>2. /\ Cardinality(Recent) \in Nat /\ Cardinality(cleared) \in Nat
      /\ Cardinality(Recent') \in Nat /\ Cardinality(cleared') \in Nat
      /\ Cardinality(cleared') <= all /\ all \in Nat
      /\ Cardinality(Recent) + Cardinality(cleared) <= MaxActions - 1 + all
  <2>1. Recent' \subseteq actions' /\ IsFiniteSet(actions') /\ cleared' \subseteq Callers
    BY <1>1 DEF Recent, BudgetTypeOK
  <2>2. IsFiniteSet(Recent') /\ IsFiniteSet(cleared') /\ Cardinality(cleared') <= all
    BY <2>1, CallersCounted, FS_Subset
  <2>3. QED
    BY <1>1, <2>2, RecentIsPart, ClearedCounted, CallersCounted, FS_CardinalityType
       DEF AttemptsInv, AttemptsBounded
<1> HIDE DEF all
<1>3. CASE TickBudget \/ UNCHANGED budgetVars
      \/ \E c \in Callers : TurnedAway(c) \/ Disallowed(c)
  <2>1. actions' \subseteq actions /\ cleared' \subseteq cleared
    BY <1>3 DEF TickBudget, budgetVars, TurnedAway, Disallowed, Recent
  <2>2. now <= now'
    <3>1. now \in Nat /\ (TickBudget => now' = now + 1)
      BY <1>1, TickBudgetTypes, CallersAssumption DEF BudgetTypeOK
    <3>2. TickBudget \/ now' = now
      BY <1>3 DEF budgetVars, TurnedAway, Disallowed
    <3>3. QED
      BY <3>1, <3>2
  <2>3. Cardinality(Recent') <= Cardinality(Recent)
    BY <1>1, <2>1, <2>2, RecentShrinks
  <2>4. Cardinality(cleared') <= Cardinality(cleared)
    BY <1>1, <2>1, ClearedCounted, FS_Subset
  <2>5. QED
    BY <1>2, <2>3, <2>4, BudgetAssumption DEF AttemptsBounded, all
<1>4. ASSUME NEW c \in Callers, PassCheck(c) PROVE AttemptsBounded'
  <2>1. /\ now' = now /\ now \in Nat /\ actions' \subseteq actions
        /\ Cardinality(Recent) < MaxActions
    BY <1>1, <1>4, CallersAssumption DEF PassCheck, Recent, BudgetTypeOK
  <2>2. Cardinality(Recent') <= Cardinality(Recent)
    BY <1>1, <2>1, RecentShrinks
  <2>3. QED
    BY <1>2, <2>1, <2>2, BudgetAssumption DEF AttemptsBounded, all
<1>5. ASSUME NEW c \in Callers, Recorded(c) PROVE AttemptsBounded'
  <2> DEFINE new == [at |-> now, no |-> records]
  <2>1. /\ actions' = Recent \cup {new} /\ IsFiniteSet(actions')
        /\ cleared' = cleared \ {c} /\ c \in cleared
    BY <1>1, <1>5, RecordedAdds
  <2>2. Cardinality(cleared') = Cardinality(cleared) - 1
    BY <1>1, <2>1, ClearedCounted, FS_RemoveElement
  <2>3. Recent' \subseteq Recent \cup {new}
    BY <2>1 DEF Recent
  <2>4. /\ IsFiniteSet(Recent \cup {new})
        /\ Cardinality(Recent \cup {new}) <= Cardinality(Recent) + 1
    BY <1>1, RecentIsPart, OneMore
  <2>5. Cardinality(Recent') <= Cardinality(Recent \cup {new})
    BY <2>3, <2>4, FS_Subset
  <2>6. Cardinality(Recent \cup {new}) \in Nat
    BY <2>4, FS_CardinalityType
  <2> HIDE DEF new
  <2>7. QED
    BY <1>2, <2>2, <2>4, <2>5, <2>6, BudgetAssumption DEF AttemptsBounded, all
<1>6. QED
  BY <1>3, <1>4, <1>5 DEF BudgetNext, Act, Exhausted

\* The hour holds at most one attempt less than the budget and one for each thread,
\* refused attempts and those on their way included.
THEOREM AttemptsHold == BudgetSpec => []AttemptsBounded
<1>1. BudgetInit => AttemptsInv
  <2> SUFFICES ASSUME BudgetInit PROVE AttemptsBounded
    BY BudgetStarts DEF AttemptsInv
  <2>1. Recent = {} /\ cleared = {}
    BY DEF BudgetInit, Recent
  <2>2. Cardinality(Recent) = 0 /\ Cardinality(cleared) = 0
    BY <2>1, FS_EmptySet
  <2>3. QED
    BY <2>2, CallersCounted, BudgetAssumption DEF AttemptsBounded
<1>2. AttemptsInv => AttemptsBounded
  BY DEF AttemptsInv
<1>3. QED
  BY <1>1, <1>2, AttemptsInductive, PTL DEF BudgetSpec

-----------------------------------------------------------------------------
(* The pairing guard *)

LEMMA PairingStarts == PairingInit => PairingTypeOK
BY CallersAssumption DEF PairingInit, PairingTypeOK, NoEntry, NotTrying, NotLocked

\* An entry of the table of failures
EntryOK(e) ==
    /\ e \in [count : Nat, lockedAt : Times \cup {NotLocked}]
    /\ e.lockedAt <= now

LEMMA PairingTypeParts ==
    ASSUME PairingTypeOK
    PROVE  /\ now \in Nat /\ now \in Times
           /\ \A cl \in Clients : EntryOK(failed[cl])
           /\ \A cl \in Clients : epoch[cl] \in Nat
           /\ EntryOK(NoEntry) /\ NoEntry.count = 0 /\ NoEntry.lockedAt = NotLocked
BY CallersAssumption DEF PairingTypeOK, EntryOK, NoEntry, NotLocked

\* A thread past the check is there for a client.
LEMMA TryingFor ==
    ASSUME PairingTypeOK, NEW c \in Callers, trying[c].step # "idle"
    PROVE  trying[c].client \in Clients
BY DEF PairingTypeOK, NotTrying

\* What the count of a failure makes of the table
KeptBy(cl) == [x \in Clients |-> IF Anew(x, cl) THEN NoEntry ELSE failed[x]]

LEMMA CountAgainSays ==
    ASSUME PairingTypeOK, NEW e, EntryOK(e)
    PROVE  /\ EntryOK(CountAgain(e))
           /\ CountAgain(e).count = e.count + 1 /\ e.count \in Nat
           /\ CountAgain(e).lockedAt =
                 IF e.count + 1 >= MaxAttempts THEN now ELSE e.lockedAt
BY PairingTypeParts DEF EntryOK, CountAgain

\* A failure is counted: the entries of the other clients, and the client's own.
LEMMA CountFailureSays ==
    ASSUME PairingTypeOK, NEW c \in Callers, CountFailure(c)
    PROVE  LET cl == trying[c].client IN
           /\ cl \in Clients
           /\ now' = now /\ code' = code /\ tokens' = tokens
           /\ trying' = [trying EXCEPT ![c] = NotTrying]
           /\ failed' \in [Clients -> [count : Nat, lockedAt : Times \cup {NotLocked}]]
           /\ \A x \in Clients : EntryOK(KeptBy(cl)[x])
           /\ \A x \in Clients : KeptBy(cl)[x] = IF Anew(x, cl) THEN NoEntry ELSE failed[x]
           /\ \A x \in Clients \ {cl} : failed'[x] = KeptBy(cl)[x]
           /\ failed'[cl] = CountAgain(KeptBy(cl)[cl])
           /\ epoch' \in [Clients -> Nat]
           /\ \A x \in Clients :
                 epoch'[x] = IF Anew(x, cl) THEN epoch[x] + 1 ELSE epoch[x]
           /\ misses' = misses \cup {[client |-> cl, epoch |-> epoch'[cl],
                                      at |-> now, no |-> KeptBy(cl)[cl].count + 1]}
<1> DEFINE cl == trying[c].client
<1>1. cl \in Clients
  BY TryingFor DEF CountFailure
<1>2. \A x \in Clients : EntryOK(KeptBy(cl)[x])
  BY PairingTypeParts DEF KeptBy
<1>3. /\ failed' = [KeptBy(cl) EXCEPT ![cl] = CountAgain(KeptBy(cl)[cl])]
      /\ epoch' = [x \in Clients |-> IF Anew(x, cl) THEN epoch[x] + 1 ELSE epoch[x]]
      /\ misses' = misses \cup {[client |-> cl, epoch |-> epoch'[cl],
                                 at |-> now, no |-> KeptBy(cl)[cl].count + 1]}
      /\ now' = now /\ code' = code /\ tokens' = tokens
      /\ trying' = [trying EXCEPT ![c] = NotTrying]
  BY DEF CountFailure, KeptBy
<1>4. EntryOK(CountAgain(KeptBy(cl)[cl]))
  BY <1>1, <1>2, CountAgainSays
<1>5. /\ KeptBy(cl) \in [Clients -> [count : Nat, lockedAt : Times \cup {NotLocked}]]
      /\ \A x \in Clients : KeptBy(cl)[x] = IF Anew(x, cl) THEN NoEntry ELSE failed[x]
  BY <1>2 DEF KeptBy, EntryOK
<1>6. epoch' \in [Clients -> Nat]
  BY <1>3, PairingTypeParts
<1> HIDE DEF cl
<1>7. failed' \in [Clients -> [count : Nat, lockedAt : Times \cup {NotLocked}]]
  BY <1>1, <1>3, <1>4, <1>5 DEF EntryOK
<1>8. /\ \A x \in Clients \ {cl} : failed'[x] = KeptBy(cl)[x]
      /\ failed'[cl] = CountAgain(KeptBy(cl)[cl])
  BY <1>1, <1>3, <1>5
<1>9. QED
  BY <1>1, <1>2, <1>3, <1>5, <1>6, <1>7, <1>8 DEF cl

LEMMA CountFailureTypes ==
    ASSUME PairingTypeOK, NEW c \in Callers, CountFailure(c)
    PROVE  PairingTypeOK'
<1> DEFINE cl == trying[c].client
           new == [client |-> cl, epoch |-> epoch'[cl], at |-> now,
                   no |-> KeptBy(cl)[cl].count + 1]
<1>1. /\ cl \in Clients /\ now' = now /\ code' = code /\ tokens' = tokens
      /\ trying' = [trying EXCEPT ![c] = NotTrying]
      /\ failed' \in [Clients -> [count : Nat, lockedAt : Times \cup {NotLocked}]]
      /\ \A x \in Clients : EntryOK(KeptBy(cl)[x])
      /\ \A x \in Clients \ {cl} : failed'[x] = KeptBy(cl)[x]
      /\ failed'[cl] = CountAgain(KeptBy(cl)[cl])
      /\ epoch' \in [Clients -> Nat]
      /\ misses' = misses \cup {new}
  BY CountFailureSays
<1>2. EntryOK(CountAgain(KeptBy(cl)[cl])) /\ KeptBy(cl)[cl].count \in Nat
  BY <1>1, CountAgainSays
<1>3. new \in [client : Clients, epoch : Nat, at : Times, no : Nat]
  BY <1>1, <1>2, PairingTypeParts
<1> HIDE DEF new, cl
<1>4. \A x \in Clients : failed'[x].lockedAt <= now'
  BY <1>1, <1>2 DEF EntryOK
<1>5. QED
  BY <1>1, <1>3, <1>4 DEF PairingTypeOK

LEMMA PairingTypeInductive == PairingTypeOK /\ [PairingNext]_pairingVars => PairingTypeOK'
<1> SUFFICES ASSUME PairingTypeOK, [PairingNext]_pairingVars
             PROVE  PairingTypeOK'
  OBVIOUS
<1>1. CASE TickPairing
  <2>1. now \in Nat /\ now' = now + 1 /\ now' \in Times
    BY <1>1, PairingTypeParts, CallersAssumption DEF TickPairing, Tick
  <2>2. UNCHANGED <<code, tokens, failed, trying, misses, epoch>>
    BY <1>1 DEF TickPairing
  <2>3. \A cl \in Clients : failed[cl].lockedAt <= now'
    BY <2>1, CallersAssumption DEF PairingTypeOK, NotLocked
  <2>4. QED
    BY <2>1, <2>2, <2>3 DEF PairingTypeOK
<1>2. ASSUME NEW c \in Callers, NEW cl \in Clients, CheckLockout(c, cl)
      PROVE  PairingTypeOK'
  BY <1>2 DEF CheckLockout, PairingTypeOK
<1>3. ASSUME NEW c \in Callers, MatchCode(c) PROVE PairingTypeOK'
  <2>1. trying[c].client \in Clients
    BY <1>3, TryingFor DEF MatchCode
  <2>2. /\ failed' \in [Clients -> [count : Nat, lockedAt : Times \cup {NotLocked}]]
        /\ \A x \in Clients : failed'[x].lockedAt <= now
    BY <1>3, <2>1, PairingTypeParts DEF MatchCode, EntryOK, PairingTypeOK
  <2>3. epoch' \in [Clients -> Nat]
    BY <1>3, <2>1 DEF MatchCode, PairingTypeOK
  <2>4. tokens' \in 0..1 /\ code' = FALSE /\ now' \in Times /\ now' = now
    BY <1>3 DEF MatchCode, PairingTypeOK
  <2>5. /\ misses' \subseteq [client : Clients, epoch : Nat, at : Times, no : Nat]
        /\ trying' \in [Callers -> [step : {"checked", "missed"}, client : Clients]
                                       \cup {NotTrying}]
    BY <1>3 DEF MatchCode, PairingTypeOK
  <2>6. QED
    BY <2>2, <2>3, <2>4, <2>5 DEF PairingTypeOK
<1>4. ASSUME NEW c \in Callers, MissCode(c) PROVE PairingTypeOK'
  <2>1. trying[c].client \in Clients
    BY <1>4, TryingFor DEF MissCode
  <2>2. [trying[c] EXCEPT !.step = "missed"] \in [step : {"checked", "missed"}, client : Clients]
    BY <1>4, <2>1 DEF MissCode, PairingTypeOK, NotTrying
  <2>3. QED
    BY <1>4, <2>2 DEF MissCode, PairingTypeOK
<1>5. ASSUME NEW c \in Callers, CountFailure(c) PROVE PairingTypeOK'
  BY <1>5, CountFailureTypes
<1>6. CASE UNCHANGED pairingVars
  BY <1>6 DEF pairingVars, PairingTypeOK
<1>7. QED
  BY <1>1, <1>2, <1>3, <1>4, <1>5, <1>6 DEF PairingNext

\* What the pairing guard keeps has its type, and one code makes one token at most.
THEOREM PairingTypeCorrect == PairingSpec => []PairingTypeOK
BY PairingStarts, PairingTypeInductive, PTL DEF PairingSpec

-----------------------------------------------------------------------------
(* A lock that holds *)

LEMMA LockStep ==
    ASSUME PairingTypeOK, [PairingNext]_pairingVars, NEW cl \in Clients, Barred(cl)
    PROVE  \/ failed'[cl].count >= MaxAttempts
              /\ failed'[cl].lockedAt >= failed[cl].lockedAt
           \/ code /\ ~code' /\ failed'[cl] = NoEntry
<1> DEFINE Goal == \/ failed'[cl].count >= MaxAttempts
                      /\ failed'[cl].lockedAt >= failed[cl].lockedAt
                   \/ code /\ ~code' /\ failed'[cl] = NoEntry
<1>1. /\ failed[cl].count >= MaxAttempts /\ failed[cl].count \in Nat
      /\ failed[cl].lockedAt \in Nat /\ failed[cl].lockedAt <= now /\ now \in Nat
      /\ ~Expired(cl)
  BY CallersAssumption DEF PairingTypeOK, Barred, Locked, NotLocked
<1>2. CASE failed'[cl] = failed[cl]
  BY <1>1, <1>2
<1>3. ASSUME NEW c \in Callers, MatchCode(c) PROVE Goal
  <2>1. CASE trying[c].client = cl
    BY <1>3, <2>1 DEF MatchCode, PairingTypeOK
  <2>2. CASE trying[c].client # cl
    BY <1>2, <1>3, <2>2 DEF MatchCode, PairingTypeOK
  <2>3. QED
    BY <2>1, <2>2
<1>4. ASSUME NEW c \in Callers, CountFailure(c) PROVE Goal
  <2>1. /\ KeptBy(trying[c].client)[cl] =
              IF Anew(cl, trying[c].client) THEN NoEntry ELSE failed[cl]
        /\ cl # trying[c].client => failed'[cl] = KeptBy(trying[c].client)[cl]
        /\ cl = trying[c].client => failed'[cl] = CountAgain(KeptBy(cl)[cl])
        /\ EntryOK(KeptBy(trying[c].client)[cl])
    BY <1>4, CountFailureSays
  <2>2. KeptBy(trying[c].client)[cl] = failed[cl]
    BY <1>1, <2>1 DEF Anew, SweptAway
  <2>3. CASE cl # trying[c].client
    BY <1>2, <2>1, <2>2, <2>3
  <2>4. CASE cl = trying[c].client
    <3>1. failed'[cl] = CountAgain(failed[cl]) /\ EntryOK(failed[cl])
      BY <2>1, <2>2, <2>4
    <3>2. /\ failed'[cl].count = failed[cl].count + 1
          /\ failed'[cl].lockedAt =
                IF failed[cl].count + 1 >= MaxAttempts THEN now ELSE failed[cl].lockedAt
      BY <3>1, CountAgainSays
    <3>3. QED
      BY <1>1, <3>2, PairingAssumption
  <2>5. QED
    BY <2>3, <2>4
<1>5. QED
  BY <1>2, <1>3, <1>4
     DEF PairingNext, pairingVars, TickPairing, CheckLockout, MissCode

\* A lock that has not expired ends by the client's own success only.
THEOREM LocksHold == PairingSpec => LockHolds
<1>1. PairingTypeOK /\ [PairingNext]_pairingVars =>
          [\A cl \in Clients :
              Barred(cl) => \/ failed'[cl].count >= MaxAttempts
                               /\ failed'[cl].lockedAt >= failed[cl].lockedAt
                            \/ code /\ ~code' /\ failed'[cl] = NoEntry]_pairingVars
  BY LockStep
<1>2. QED
  BY <1>1, PairingTypeCorrect, PTL DEF PairingSpec, LockHolds

-----------------------------------------------------------------------------
(* The guesses *)

\* The failures of one run of the count
Cap == MaxAttempts + Cardinality(Callers) - 1

\* The threads past the check for a client
Racing(cl) == {c \in Callers : trying[c].client = cl}

\* The count and the lock of a client: those that had passed the check when the lock came
\* still count, and no thread joins them.
EntryInv(cl) ==
    /\ Locked(cl) <=> failed[cl].count >= MaxAttempts
    /\ failed[cl].count <= Cap
    /\ Barred(cl) => failed[cl].count + Cardinality(Racing(cl)) <= Cap

\* A failure is numbered by the count it made, no younger than the client's lock, and a
\* lockout old once the count has begun anew.
MissInv(m) ==
    /\ m.no <= Cap /\ m.at <= now
    /\ m.epoch <= epoch[m.client]
    /\ m.epoch = epoch[m.client] => m.no <= failed[m.client].count
    /\ Locked(m.client) => m.at <= failed[m.client].lockedAt
    /\ m.epoch < epoch[m.client] => m.at + Lockout <= now

\* Two failures of one client: no number is used twice in a run of the count, and two
\* runs are a lockout apart.
PairInv(x, y) ==
    x.client = y.client =>
        /\ x.epoch = y.epoch /\ x.no = y.no => x = y
        /\ x.epoch < y.epoch => x.at + Lockout <= y.at

GuessInv ==
    /\ PairingTypeOK
    /\ \A cl \in Clients : EntryInv(cl)
    /\ \A m \in misses : MissInv(m) /\ m.no >= 1
    /\ \A x, y \in misses : PairInv(x, y)

LEMMA MissTypes ==
    ASSUME PairingTypeOK, NEW m \in misses
    PROVE  /\ m.client \in Clients /\ m.epoch \in Nat /\ m.at \in Nat /\ m.no \in Nat
           /\ epoch[m.client] \in Nat /\ failed[m.client].count \in Nat
           /\ failed[m.client].lockedAt \in Int
           /\ now \in Nat
BY CallersAssumption DEF PairingTypeOK, NotLocked

LEMMA CapCounts == Cap \in Nat /\ Cap >= MaxAttempts /\ Cap >= Cardinality(Callers)
BY CallersCounted, PairingAssumption DEF Cap

\* The threads past the check are finitely many.
LEMMA RacingCounted ==
    ASSUME NEW cl
    PROVE  /\ IsFiniteSet(Racing(cl))
           /\ Cardinality(Racing(cl)) \in Nat
           /\ Cardinality(Racing(cl)) <= Cardinality(Callers)
<1>1. Racing(cl) \subseteq Callers
  BY DEF Racing
<1>2. QED
  BY <1>1, CallersCounted, FS_Subset, FS_CardinalityType

\* One of them is done.
LEMMA RacerLeaves ==
    ASSUME PairingTypeOK, NEW c \in Callers, trying[c].client \in Clients,
           trying' = [trying EXCEPT ![c] = NotTrying], NEW cl \in Clients
    PROVE  /\ cl = trying[c].client =>
                 /\ Cardinality(Racing(cl)') = Cardinality(Racing(cl)) - 1
                 /\ Cardinality(Racing(cl)) >= 1
           /\ cl # trying[c].client => Racing(cl)' = Racing(cl)
           /\ Cardinality(Racing(cl)') \in Nat
<1>1. NotTrying.client \notin Clients
  BY PairingAssumption DEF NotTrying
<1>2. \A d \in Callers : trying'[d] = IF d = c THEN NotTrying ELSE trying[d]
  BY DEF PairingTypeOK
<1>3. CASE cl = trying[c].client
  <2>1. Racing(cl)' = Racing(cl) \ {c} /\ c \in Racing(cl)
    BY <1>1, <1>2, <1>3 DEF Racing
  <2>2. Cardinality(Racing(cl)') = Cardinality(Racing(cl)) - 1
    BY <2>1, RacingCounted, FS_RemoveElement
  <2>3. IsFiniteSet(Racing(cl)')
    BY <2>1, RacingCounted, FS_RemoveElement
  <2>4. Cardinality(Racing(cl)') \in Nat /\ Cardinality(Racing(cl)) \in Nat
    BY <2>3, RacingCounted, FS_CardinalityType
  <2>5. QED
    BY <1>3, <2>2, <2>4
<1>4. CASE cl # trying[c].client
  <2>1. Racing(cl)' = Racing(cl)
    BY <1>1, <1>2, <1>4 DEF Racing
  <2>2. QED
    BY <1>4, <2>1, RacingCounted
<1>5. QED
  BY <1>3, <1>4

\* A failure is counted: the entries.
LEMMA CountFailureEntries ==
    ASSUME GuessInv, NEW c \in Callers, CountFailure(c), NEW x \in Clients
    PROVE  EntryInv(x)'
<1> DEFINE cl == trying[c].client
<1>1. /\ cl \in Clients /\ now' = now /\ now \in Nat
      /\ trying' = [trying EXCEPT ![c] = NotTrying]
      /\ EntryOK(KeptBy(cl)[x])
      /\ KeptBy(cl)[x] = IF Anew(x, cl) THEN NoEntry ELSE failed[x]
      /\ x # cl => failed'[x] = KeptBy(cl)[x]
      /\ x = cl => failed'[x] = CountAgain(KeptBy(cl)[x])
  BY CountFailureSays, PairingTypeParts DEF GuessInv
<1>2. /\ x = cl => /\ Cardinality(Racing(x)') = Cardinality(Racing(x)) - 1
                   /\ Cardinality(Racing(x)) >= 1
      /\ x # cl => Racing(x)' = Racing(x)
      /\ Cardinality(Racing(x)') \in Nat
      /\ Cardinality(Racing(x)) \in Nat
      /\ Cardinality(Racing(x)) <= Cardinality(Callers)
  BY <1>1, RacerLeaves, RacingCounted DEF GuessInv
<1>3. /\ EntryInv(x) /\ EntryOK(failed[x]) /\ EntryOK(NoEntry)
      /\ NoEntry.count = 0 /\ NoEntry.lockedAt = NotLocked
  BY PairingTypeParts DEF GuessInv
<1>4. /\ CountAgain(KeptBy(cl)[x]).count = KeptBy(cl)[x].count + 1
      /\ KeptBy(cl)[x].count \in Nat
      /\ CountAgain(KeptBy(cl)[x]).lockedAt =
            IF KeptBy(cl)[x].count + 1 >= MaxAttempts THEN now ELSE KeptBy(cl)[x].lockedAt
  BY <1>1, CountAgainSays DEF GuessInv
<1>5. /\ Cap = MaxAttempts + Cardinality(Callers) - 1 /\ Cap \in Nat
      /\ MaxAttempts \in Nat \ {0} /\ Lockout \in Nat \ {0}
      /\ Cardinality(Callers) \in Nat \ {0}
  BY CapCounts, CallersCounted, PairingAssumption DEF Cap
<1> HIDE DEF cl
<1>6. CASE x # cl
  <2>1. CASE Anew(x, cl)
    <3>1. failed'[x] = NoEntry
      BY <1>1, <1>6, <2>1
    <3>2. QED
      BY <1>3, <1>5, <3>1 DEF EntryInv, Locked, Barred, NotLocked
  <2>2. CASE ~Anew(x, cl)
    <3>1. failed'[x] = failed[x] /\ Racing(x)' = Racing(x)
      BY <1>1, <1>2, <1>6, <2>2
    <3>2. QED
      BY <1>1, <1>3, <3>1 DEF EntryInv, Locked, Barred, Expired
  <2>3. QED
    BY <2>1, <2>2
<1>7. CASE x = cl /\ Anew(x, cl)
  <2>1. /\ failed'[x].count = 1
        /\ failed'[x].lockedAt = IF 1 >= MaxAttempts THEN now ELSE NotLocked
    BY <1>1, <1>3, <1>4, <1>7
  <2>2. QED
    BY <1>1, <1>2, <1>5, <1>7, <2>1 DEF EntryInv, Locked, Barred, NotLocked
<1>8. CASE x = cl /\ ~Anew(x, cl)
  <2>1. /\ failed'[x].count = failed[x].count + 1
        /\ failed'[x].lockedAt =
              IF failed[x].count + 1 >= MaxAttempts THEN now ELSE failed[x].lockedAt
        /\ failed[x].count \in Nat
    BY <1>1, <1>4, <1>8
  <2>2. ~Expired(x)
    BY <1>8 DEF Anew
  <2>3. CASE Locked(x)
    <3>1. failed[x].count + Cardinality(Racing(x)) <= Cap /\ failed[x].count >= MaxAttempts
      BY <1>3, <2>2, <2>3 DEF EntryInv, Barred
    <3>2. QED
      BY <1>1, <1>2, <1>5, <1>8, <2>1, <3>1 DEF EntryInv, Locked, Barred, NotLocked
  <2>4. CASE ~Locked(x)
    <3>1. failed[x].count < MaxAttempts /\ failed[x].lockedAt = NotLocked
      BY <1>3, <1>5, <2>1, <2>4 DEF EntryInv, Locked
    <3>2. QED
      BY <1>1, <1>2, <1>5, <1>8, <2>1, <3>1 DEF EntryInv, Locked, Barred, NotLocked
  <2>5. QED
    BY <2>3, <2>4
<1>9. QED
  BY <1>6, <1>7, <1>8

\* A failure is counted: the failures known before.
LEMMA CountFailureOld ==
    ASSUME GuessInv, NEW c \in Callers, CountFailure(c), NEW m \in misses
    PROVE  MissInv(m)'
<1> DEFINE cl == trying[c].client
           w == m.client
<1>1. /\ w \in Clients /\ m.epoch \in Nat /\ m.at \in Nat /\ m.no \in Nat
      /\ epoch[w] \in Nat /\ failed[w].count \in Nat /\ failed[w].lockedAt \in Int
      /\ now \in Nat
  BY MissTypes DEF GuessInv
<1>2. /\ now' = now
      /\ EntryOK(KeptBy(cl)[w])
      /\ KeptBy(cl)[w] = IF Anew(w, cl) THEN NoEntry ELSE failed[w]
      /\ w # cl => failed'[w] = KeptBy(cl)[w]
      /\ w = cl => failed'[w] = CountAgain(KeptBy(cl)[w])
      /\ epoch'[w] = IF Anew(w, cl) THEN epoch[w] + 1 ELSE epoch[w]
  BY <1>1, CountFailureSays DEF GuessInv
<1>3. MissInv(m)
  BY DEF GuessInv
<1>4. /\ CountAgain(KeptBy(cl)[w]).count = KeptBy(cl)[w].count + 1
      /\ KeptBy(cl)[w].count \in Nat
      /\ CountAgain(KeptBy(cl)[w]).lockedAt =
            IF KeptBy(cl)[w].count + 1 >= MaxAttempts THEN now ELSE KeptBy(cl)[w].lockedAt
  BY <1>2, CountAgainSays DEF GuessInv
<1>5. NoEntry.count = 0 /\ NoEntry.lockedAt = NotLocked
  BY PairingTypeParts DEF GuessInv
<1> HIDE DEF cl, w
<1>6. CASE Anew(w, cl)
  <2>1. Expired(w)
    BY <1>6 DEF Anew, SweptAway
  <2>2. m.at + Lockout <= now
    BY <1>1, <1>3, <2>1, PairingAssumption DEF MissInv, Expired, Locked, w
  <2>3. epoch'[w] = epoch[w] + 1 /\ m.epoch <= epoch[w]
    BY <1>2, <1>3, <1>6 DEF MissInv, w
  <2>4. failed'[w].lockedAt \in {now, NotLocked}
    BY <1>2, <1>4, <1>5, <1>6
  <2>5. QED
    BY <1>1, <1>2, <1>3, <2>2, <2>3, <2>4 DEF MissInv, Locked, w
<1>7. CASE ~Anew(w, cl)
  <2>1. epoch'[w] = epoch[w] /\ KeptBy(cl)[w] = failed[w]
    BY <1>2, <1>7
  <2>2. /\ failed'[w].count \in {failed[w].count, failed[w].count + 1}
        /\ failed'[w].lockedAt \in {now, failed[w].lockedAt}
    BY <1>2, <1>4, <2>1
  <2>3. QED
    BY <1>1, <1>2, <1>3, <2>1, <2>2 DEF MissInv, Locked, w
<1>8. QED
  BY <1>6, <1>7

\* A failure is counted: the new one.
LEMMA CountFailureNew ==
    ASSUME GuessInv, NEW c \in Callers, CountFailure(c)
    PROVE  /\ \A m \in misses' : MissInv(m)' /\ m.no >= 1
           /\ \A x, y \in misses' : PairInv(x, y)
<1>a. PICK cl \in Clients : cl = trying[c].client
  BY TryingFor DEF CountFailure, GuessInv
<1>b. PICK new : new = [client |-> cl, epoch |-> epoch'[cl], at |-> now,
                        no |-> KeptBy(cl)[cl].count + 1]
  OBVIOUS
<1>1. /\ cl \in Clients /\ now' = now /\ now \in Nat
      /\ EntryOK(KeptBy(cl)[cl])
      /\ KeptBy(cl)[cl] = IF Anew(cl, cl) THEN NoEntry ELSE failed[cl]
      /\ failed'[cl] = CountAgain(KeptBy(cl)[cl])
      /\ epoch'[cl] = IF Anew(cl, cl) THEN epoch[cl] + 1 ELSE epoch[cl]
      /\ epoch'[cl] \in Nat /\ epoch[cl] \in Nat
      /\ misses' = misses \cup {new}
  BY <1>a, <1>b, CountFailureSays, PairingTypeParts DEF GuessInv
<1>2. /\ failed'[cl].count = KeptBy(cl)[cl].count + 1
      /\ KeptBy(cl)[cl].count \in Nat
      /\ failed'[cl].lockedAt =
            IF failed'[cl].count >= MaxAttempts THEN now ELSE KeptBy(cl)[cl].lockedAt
  BY <1>1, CountAgainSays DEF GuessInv
<1>3. EntryInv(cl)'
  BY CountFailureEntries
<1>4. \A m \in misses : MissInv(m)' /\ m.no >= 1
  BY CountFailureOld DEF GuessInv
<1>5. /\ new.client = cl /\ new.epoch = epoch'[cl] /\ new.at = now
      /\ new.no = failed'[cl].count /\ new.no \in Nat /\ new.no >= 1
  BY <1>2, <1>b
<1>6. MissInv(new)'
  <2>1. new.no <= Cap /\ (Locked(cl)' => failed'[cl].lockedAt = now)
    BY <1>2, <1>3, <1>5 DEF EntryInv
  <2>2. QED
    BY <1>1, <1>5, <2>1 DEF MissInv
<1>7. ASSUME NEW x \in misses, x.client = cl
      PROVE  /\ x.epoch <= new.epoch
             /\ x.epoch = new.epoch => x.no < new.no
             /\ x.epoch < new.epoch => x.at + Lockout <= new.at
             /\ x.epoch \in Nat /\ x.no \in Nat
  <2>1. /\ MissInv(x) /\ MissInv(x)'
        /\ x.epoch \in Nat /\ x.at \in Nat /\ x.no \in Nat
        /\ failed[cl].count \in Nat
    BY <1>4, <1>7, MissTypes DEF GuessInv
  <2>2. x.epoch <= new.epoch /\ (x.epoch < new.epoch => x.at + Lockout <= new.at)
    BY <1>1, <1>5, <1>7, <2>1 DEF MissInv
  <2>3. ASSUME x.epoch = new.epoch PROVE x.no < new.no
    <3>1. x.epoch = epoch[cl] /\ KeptBy(cl)[cl] = failed[cl]
      BY <1>1, <1>5, <1>7, <2>1, <2>3 DEF MissInv
    <3>2. x.no <= failed[cl].count
      BY <1>7, <2>1, <3>1 DEF MissInv
    <3>3. QED
      BY <1>2, <1>5, <2>1, <3>1, <3>2
  <2>4. QED
    BY <2>1, <2>2, <2>3
<1>8. ASSUME NEW x \in misses', NEW y \in misses' PROVE PairInv(x, y)
  <2>1. CASE x \in misses /\ y \in misses
    BY <2>1 DEF GuessInv
  <2>2. CASE x = new /\ y = new
    BY <1>1, <1>5, <2>2 DEF PairInv
  <2>3. CASE x \in misses /\ y = new
    BY <1>1, <1>5, <1>7, <2>3 DEF PairInv
  <2>4. CASE x = new /\ y \in misses
    BY <1>1, <1>5, <1>7, <2>4 DEF PairInv
  <2>5. QED
    BY <1>1, <2>1, <2>2, <2>3, <2>4
<1>9. QED
  BY <1>1, <1>4, <1>5, <1>6, <1>8

\* The steps that leave the counts alone
LEMMA OtherSteps ==
    ASSUME GuessInv,
           TickPairing \/ UNCHANGED pairingVars
             \/ (\E c \in Callers, cl \in Clients : CheckLockout(c, cl))
             \/ (\E c \in Callers : MissCode(c))
    PROVE  /\ \A cl \in Clients : EntryInv(cl)'
           /\ \A m \in misses' : MissInv(m)' /\ m.no >= 1
           /\ \A x, y \in misses' : PairInv(x, y)
<1>1. /\ failed' = failed /\ misses' = misses /\ epoch' = epoch
      /\ now \in Nat /\ now' \in Nat /\ now <= now'
  <2>1. now \in Nat
    BY PairingTypeParts DEF GuessInv
  <2>2. QED
    BY <2>1 DEF TickPairing, Tick, pairingVars, CheckLockout, MissCode
<1>2. ASSUME NEW x \in Clients PROVE EntryInv(x)'
  <2>1. /\ EntryInv(x) /\ failed[x].count \in Nat /\ failed[x].lockedAt \in Int
        /\ Cap \in Nat
    BY CapCounts, CallersAssumption DEF GuessInv, PairingTypeOK, NotLocked
  <2>2. Barred(x)' => Barred(x)
    BY <1>1, <2>1, PairingAssumption DEF Barred, Locked, Expired
  <2>3. ASSUME Barred(x)' PROVE Racing(x)' \subseteq Racing(x)
    <3>1. CASE TickPairing \/ UNCHANGED pairingVars
      BY <3>1 DEF TickPairing, pairingVars, Racing
    <3>2. ASSUME NEW c \in Callers, NEW cl \in Clients, CheckLockout(c, cl)
          PROVE  Racing(x)' \subseteq Racing(x)
      <4>1. x # cl
        BY <2>2, <2>3, <3>2 DEF CheckLockout
      <4>2. \A d \in Callers : trying'[d].client = x => trying[d].client = x
        BY <3>2, <4>1 DEF CheckLockout, GuessInv, PairingTypeOK
      <4>3. QED
        BY <4>2 DEF Racing
    <3>3. ASSUME NEW c \in Callers, MissCode(c)
          PROVE  Racing(x)' \subseteq Racing(x)
      <4>1. trying[c].client \in Clients /\ trying[c] \in [step : {"checked", "missed"}, client : Clients]
        BY <3>3, TryingFor DEF MissCode, GuessInv, PairingTypeOK, NotTrying
      <4>2. \A d \in Callers : trying'[d].client = trying[d].client
        BY <3>3, <4>1 DEF MissCode, GuessInv, PairingTypeOK
      <4>3. QED
        BY <4>2 DEF Racing
    <3>4. QED
      BY <3>1, <3>2, <3>3
  <2>4. Barred(x)' => Cardinality(Racing(x)') <= Cardinality(Racing(x))
    BY <2>3, RacingCounted, FS_Subset
  <2>5. Barred(x)' => Cardinality(Racing(x)') \in Nat
    BY <2>3, RacingCounted, FS_Subset, FS_CardinalityType
  <2>6. Cardinality(Racing(x)) \in Nat
    BY RacingCounted
  <2>7. QED
    BY <1>1, <2>1, <2>2, <2>4, <2>5, <2>6 DEF EntryInv, Locked
<1>3. ASSUME NEW m \in misses' PROVE MissInv(m)' /\ m.no >= 1
  <2>1. /\ m \in misses /\ MissInv(m) /\ m.no >= 1
        /\ m.at \in Nat
    BY <1>1, <1>3, MissTypes DEF GuessInv
  <2>2. QED
    BY <1>1, <2>1, PairingAssumption DEF MissInv, Locked
<1>4. QED
  BY <1>1, <1>2, <1>3 DEF GuessInv

\* A success forgets the client's failures.
LEMMA MatchCodeGuesses ==
    ASSUME GuessInv, NEW c \in Callers, MatchCode(c)
    PROVE  /\ \A cl \in Clients : EntryInv(cl)'
           /\ \A m \in misses' : MissInv(m)' /\ m.no >= 1
           /\ \A x, y \in misses' : PairInv(x, y)
<1>1. PICK cl \in Clients : cl = trying[c].client
  BY TryingFor DEF MatchCode, GuessInv
<1>2. /\ now' = now /\ trying' = [trying EXCEPT ![c] = NotTrying]
      /\ misses' = {m \in misses : m.client # cl}
      /\ failed'[cl] = NoEntry
      /\ \A x \in Clients \ {cl} : failed'[x] = failed[x] /\ epoch'[x] = epoch[x]
  BY <1>1 DEF MatchCode, GuessInv, PairingTypeOK
<1>3. ASSUME NEW x \in Clients PROVE EntryInv(x)'
  <2>1. CASE x = cl
    <3>1. NoEntry.count = 0 /\ NoEntry.lockedAt = NotLocked
      BY DEF NoEntry
    <3>2. QED
      BY <1>2, <2>1, <3>1, CapCounts, PairingAssumption DEF EntryInv, Locked, Barred
  <2>2. CASE x # cl
    <3>1. Racing(x)' = Racing(x)
      BY <1>1, <1>2, <2>2, RacerLeaves DEF GuessInv
    <3>2. failed'[x] = failed[x] /\ EntryInv(x)
      BY <1>2, <2>2 DEF GuessInv
    <3>3. QED
      BY <1>2, <3>1, <3>2 DEF EntryInv, Locked, Barred, Expired
  <2>3. QED
    BY <2>1, <2>2
<1>4. ASSUME NEW m \in misses' PROVE MissInv(m)' /\ m.no >= 1
  <2>1. m \in misses /\ m.client # cl
    BY <1>2
  <2>2. MissInv(m) /\ m.no >= 1 /\ m.client \in Clients
    BY <2>1, MissTypes DEF GuessInv
  <2>3. failed'[m.client] = failed[m.client] /\ epoch'[m.client] = epoch[m.client]
    BY <1>2, <2>1, <2>2
  <2>4. QED
    BY <1>2, <2>2, <2>3 DEF MissInv, Locked
<1>5. \A x, y \in misses' : PairInv(x, y)
  BY <1>2 DEF GuessInv
<1>6. QED
  BY <1>3, <1>4, <1>5

LEMMA GuessInductive == GuessInv /\ [PairingNext]_pairingVars => GuessInv'
<1> SUFFICES ASSUME GuessInv, [PairingNext]_pairingVars
             PROVE  GuessInv'
  OBVIOUS
<1>1. PairingTypeOK'
  BY PairingTypeInductive DEF GuessInv
<1>2. CASE TickPairing \/ UNCHANGED pairingVars
           \/ (\E c \in Callers, cl \in Clients : CheckLockout(c, cl))
           \/ (\E c \in Callers : MissCode(c))
  BY <1>1, <1>2, OtherSteps DEF GuessInv
<1>3. ASSUME NEW c \in Callers, MatchCode(c) PROVE GuessInv'
  BY <1>1, <1>3, MatchCodeGuesses DEF GuessInv
<1>4. ASSUME NEW c \in Callers, CountFailure(c) PROVE GuessInv'
  <2>1. \A cl \in Clients : EntryInv(cl)'
    BY <1>4, CountFailureEntries
  <2>2. /\ \A m \in misses' : MissInv(m)' /\ m.no >= 1
        /\ \A x, y \in misses' : PairInv(x, y)
    BY <1>4, CountFailureNew
  <2>3. QED
    BY <1>1, <2>1, <2>2 DEF GuessInv
<1>5. QED
  BY <1>2, <1>3, <1>4 DEF PairingNext

\* The failures in a stretch as long as the lockout belong to one run of the count, whose
\* numbers are at most Cap.
LEMMA GuessesCounted == GuessInv => GuessesBounded
<1> SUFFICES ASSUME GuessInv, NEW m \in misses
             PROVE  Cardinality({x \in misses : /\ x.client = m.client
                                                /\ x.at <= m.at
                                                /\ x.at > m.at - Lockout}) <= Cap
  BY DEF GuessesBounded, Cap
<1> DEFINE W == {x \in misses : /\ x.client = m.client
                                /\ x.at <= m.at
                                /\ x.at > m.at - Lockout}
           number == [x \in W |-> x.no]
<1>1. ASSUME NEW x \in W PROVE x.epoch = m.epoch /\ x.no \in 1..Cap
  <2>1. /\ x \in misses /\ x.client = m.client /\ x.at <= m.at /\ x.at > m.at - Lockout
        /\ PairInv(x, m) /\ PairInv(m, x) /\ MissInv(x) /\ x.no >= 1
    BY DEF GuessInv
  <2>2. /\ x.epoch \in Nat /\ x.at \in Nat /\ x.no \in Nat
        /\ m.epoch \in Nat /\ m.at \in Nat
    BY <2>1, MissTypes DEF GuessInv
  <2>3. QED
    BY <2>1, <2>2, CapCounts, PairingAssumption DEF PairInv, MissInv
<1>2. number \in Injection(W, 1..Cap)
  <2>1. number \in [W -> 1..Cap]
    BY <1>1
  <2>2. ASSUME NEW x \in W, NEW y \in W, number[x] = number[y] PROVE x = y
    <3>1. x \in misses /\ y \in misses /\ x.client = y.client /\ x.no = y.no
      BY <2>2
    <3>2. x.epoch = y.epoch
      BY <1>1
    <3>3. PairInv(x, y)
      BY <3>1 DEF GuessInv
    <3>4. QED
      BY <3>1, <3>2, <3>3 DEF PairInv
  <2> HIDE DEF W, number
  <2>3. DOMAIN number = W
    BY <2>1
  <2>4. QED
    BY <2>1, <2>2, <2>3 DEF Injection, IsInjective
<1>3. IsFiniteSet(1..Cap) /\ Cardinality(1..Cap) = Cap
  BY CapCounts, CallersCounted, PairingAssumption, FS_Interval
<1> HIDE DEF W, number
<1>4. Cardinality(W) <= Cap
  BY <1>2, <1>3, FS_Injection
<1>5. QED
  BY <1>4 DEF W

\* In any stretch as long as the lockout, the failures of one client are at most
\* MaxAttempts and one for every other thread.
THEOREM GuessesHold == PairingSpec => []GuessesBounded
<1>1. PairingInit => GuessInv
  <2> SUFFICES ASSUME PairingInit PROVE GuessInv
    OBVIOUS
  <2>1. misses = {} /\ \A cl \in Clients : failed[cl] = NoEntry
    BY DEF PairingInit
  <2>2. NoEntry.count = 0 /\ NoEntry.lockedAt = NotLocked
    BY DEF NoEntry
  <2>3. \A cl \in Clients : EntryInv(cl)
    BY <2>1, <2>2, CapCounts, PairingAssumption DEF EntryInv, Locked, Barred
  <2>4. QED
    BY <2>1, <2>3, PairingStarts DEF GuessInv
<1>2. QED
  BY <1>1, GuessInductive, GuessesCounted, PTL DEF PairingSpec

-----------------------------------------------------------------------------
(* The costs of a day *)

\* A usage that is made and not yet recorded
UsageOf(c, d) == usage[c] \in {Used(d, k) : k \in Costs}

\* The threads that may still add a line to the day d: those whose usage is dated d and,
\* as long as the day is not over, those that are cleared.
Adding(d) == {c \in Callers : UsageOf(c, d) \/ (usage[c] = Cleared /\ now <= d)}

\* The types, and that nothing is dated after today
CostParts ==
    /\ CostTypeOK
    /\ cache.day <= now
    /\ \A c \in Callers, d \in Times : UsageOf(c, d) => d <= now
    /\ \A d \in Times : d > now => log[d].readable = 0

\* The lines of a day and those still to come
DayBounded(d) ==
    log[d].readable + MaxCost * Cardinality(Adding(d))
        <= DailyLimit + Cardinality(Callers) * MaxCost

CostInv == CostParts /\ TotalsCoverLog /\ \A d \in Times : DayBounded(d)

\* A product grows with its factor.
LEMMA FactorGrows ==
    ASSUME NEW k \in Nat, NEW m \in Nat, NEW n \in Nat, m <= n
    PROVE  k * m <= n * k /\ k * m <= k * n /\ k * m \in Nat /\ n * k \in Nat
OBVIOUS

LEMMA AddingCounted ==
    ASSUME NEW d
    PROVE  /\ IsFiniteSet(Adding(d)) /\ Cardinality(Adding(d)) \in Nat
           /\ Cardinality(Adding(d)) <= Cardinality(Callers)
<1>1. Adding(d) \subseteq Callers
  BY DEF Adding
<1>2. QED
  BY <1>1, CallersCounted, FS_Subset, FS_CardinalityType

LEMMA UsageKinds ==
    /\ Idle # Cleared
    /\ \A d, k : Used(d, k) # Idle /\ Used(d, k) # Cleared
    /\ \A d, k, e, j : Used(d, k) = Used(e, j) => d = e /\ k = j
<1>1. /\ Idle.step = "idle" /\ Cleared.step = "cleared"
      /\ \A d, k : /\ Used(d, k).step = "used" /\ Used(d, k).day = d
                   /\ Used(d, k).cost = k
  BY DEF Idle, Cleared, Used
<1>2. QED
  BY <1>1

LEMMA CostTypes ==
    ASSUME CostParts
    PROVE  /\ now \in Times /\ now \in Nat /\ MonthOf(now) \in Months
           /\ log \in [Times -> Total] /\ monthLog \in [Months -> Total]
           /\ cache \in [day : Times, daily : Nat, monthly : Nat]
           /\ usage \in [Callers -> {Idle, Cleared} \cup {Used(d, k) : d \in Times, k \in Costs}]
           /\ usages \in 0..MaxUsages
           /\ \A d \in Times : log[d].readable \in Nat /\ MonthOf(d) \in Months
BY CallersAssumption DEF CostParts, CostTypeOK, Total, Months, Times

\* n is l with a line of this cost under i, readable or not.
LineIn(S, l, n, i, cost) ==
    /\ n \in [S -> Total]
    /\ \A x \in S : x # i => n[x] = l[x]
    /\ n[i].readable + n[i].lost = l[i].readable + l[i].lost + cost
    /\ n[i].readable <= l[i].readable + cost
    /\ n[i].readable \in Nat

LEMMA AppendedSays ==
    ASSUME NEW S, NEW l \in [S -> Total], NEW i \in S, NEW cost \in Nat,
           NEW n, \E readable \in BOOLEAN : n = Appended(l, i, cost, readable)
    PROVE  LineIn(S, l, n, i, cost)
<1>1. l[i] \in Total /\ l[i].readable \in Nat /\ l[i].lost \in Nat
  BY DEF Total
<1>2. PICK part \in {"readable", "lost"} :
         n = [l EXCEPT ![i] = [l[i] EXCEPT ![part] = l[i][part] + cost]]
  BY DEF Appended
<1>3. PICK e \in Total : /\ e = [l[i] EXCEPT ![part] = l[i][part] + cost]
                         /\ e.readable + e.lost = l[i].readable + l[i].lost + cost
                         /\ e.readable <= l[i].readable + cost
  <2>1. CASE part = "readable"
    <3>1. [l[i] EXCEPT !.readable = l[i].readable + cost]
             = [readable |-> l[i].readable + cost, lost |-> l[i].lost]
      BY <1>1 DEF Total
    <3>2. QED
      BY <1>1, <2>1, <3>1 DEF Total
  <2>2. CASE part = "lost"
    <3>1. [l[i] EXCEPT !.lost = l[i].lost + cost]
             = [readable |-> l[i].readable, lost |-> l[i].lost + cost]
      BY <1>1 DEF Total
    <3>2. QED
      BY <1>1, <2>2, <3>1 DEF Total
  <2>3. QED
    BY <2>1, <2>2
<1>4. n = [l EXCEPT ![i] = e]
  BY <1>2, <1>3
<1>5. n \in [S -> Total] /\ n[i] = e /\ \A x \in S : x # i => n[x] = l[x]
  BY <1>4
<1>6. QED
  BY <1>3, <1>5 DEF Total, LineIn

\* A total that covers the log covers it with a line more, when the line's cost is added
\* to it; and a total that was read from the log covers it, with one cost more or not.
LEMMA CoverAdds ==
    ASSUME NEW total \in Nat, NEW l \in Total, NEW n \in Total, NEW cost \in Nat,
           n.readable + n.lost = l.readable + l.lost + cost,
           n.readable <= l.readable + cost,
           Covers(total, l)
    PROVE  Covers(total + cost, n)
BY CostAssumption DEF Covers, Total

LEMMA CoverFresh ==
    ASSUME NEW l \in Total, NEW cost \in 0..MaxCost
    PROVE  Covers(l.readable, l) /\ Covers(l.readable + cost, l)
BY CostAssumption DEF Covers, Total

\* With no line added and no thread more, a day stays within its bound.
LEMMA DayStays ==
    ASSUME CostParts, CostParts', NEW d \in Times, DayBounded(d),
           log'[d].readable = log[d].readable,
           Adding(d)' \subseteq Adding(d)
    PROVE  DayBounded(d)'
<1>1. /\ Cardinality(Adding(d)') \in Nat /\ Cardinality(Adding(d)) \in Nat
      /\ Cardinality(Adding(d)') <= Cardinality(Adding(d))
  BY AddingCounted, FS_Subset, FS_CardinalityType
<1>2. MaxCost * Cardinality(Adding(d)') <= MaxCost * Cardinality(Adding(d))
  BY <1>1, CostAssumption, FactorGrows
<1>3. /\ MaxCost * Cardinality(Adding(d)') \in Nat
      /\ MaxCost * Cardinality(Adding(d)) \in Nat
      /\ DailyLimit + Cardinality(Callers) * MaxCost \in Nat
      /\ log[d].readable \in Nat
  <2>1. Cardinality(Callers) * MaxCost \in Nat
    BY CostAssumption, CallersCounted, FactorGrows
  <2>2. /\ MaxCost * Cardinality(Adding(d)') \in Nat
        /\ MaxCost * Cardinality(Adding(d)) \in Nat
    BY <1>1, CostAssumption, FactorGrows
  <2>3. log[d].readable \in Nat
    BY CostTypes
  <2>4. QED
    BY <2>1, <2>2, <2>3, CostAssumption
<1>4. QED
  BY <1>2, <1>3 DEF DayBounded

\* A thread that passes the check finds a day within its limit.
LEMMA CheckBounds ==
    ASSUME CostInv, CostParts', NEW c \in Callers, NEW est \in 0..MaxCost,
           WithinBudget(c, est), NEW d \in Times
    PROVE  DayBounded(d)'
<1>1. /\ now' = now /\ log' = log /\ usage' = [usage EXCEPT ![c] = Cleared]
      /\ usage[c] = Idle /\ Fits(est)
  BY DEF WithinBudget
<1>2. CASE d < now
  <2>1. \A x \in Callers : ~(now <= d)
    BY <1>2, CostTypes, CallersAssumption DEF CostInv
  <2>2. Adding(d)' \subseteq Adding(d)
    BY <1>1, <2>1, UsageKinds DEF Adding, UsageOf, CostInv, CostParts
  <2>3. QED
    BY <1>1, <2>2, DayStays DEF CostInv
<1>3. CASE d >= now
  <2>1. log[d].readable \in Nat /\ log[d].readable <= DailyLimit
    <3>1. CASE d > now
      BY <3>1, CostAssumption DEF CostInv, CostParts
    <3>2. CASE d = now
      <4>1. /\ Totals.daily + est <= DailyLimit
            /\ est \in Nat
        BY <1>1, CostAssumption DEF Fits
      <4>2. Totals.daily \in Nat /\ log[now].readable <= Totals.daily
        <5>1. cache.daily \in Nat /\ now \in Times
          BY CostTypes DEF CostInv
        <5>2. /\ Rebuilt(log, monthLog).daily = log[now].readable
              /\ log[now].readable \in Nat
          BY <5>1, CostTypes DEF Rebuilt, CostInv
        <5>3. QED
          BY <5>1, <5>2 DEF Totals, Current, CostInv, TotalsCoverLog, Covers
      <4>3. log[now].readable \in Nat
        BY <3>2, CostTypes DEF CostInv
      <4>4. QED
        BY <3>2, <4>1, <4>2, <4>3, CostAssumption
    <3>3. QED
      BY <1>3, <3>1, <3>2, CostTypes, CallersAssumption DEF CostInv
  <2>2. Cardinality(Adding(d)') \in Nat /\ Cardinality(Adding(d)') <= Cardinality(Callers)
    <3>1. Adding(d)' \subseteq Callers
      BY DEF Adding
    <3>2. QED
      BY <3>1, CallersCounted, FS_Subset, FS_CardinalityType
  <2>3. /\ MaxCost * Cardinality(Adding(d)') <= Cardinality(Callers) * MaxCost
        /\ MaxCost * Cardinality(Adding(d)') \in Nat
        /\ Cardinality(Callers) * MaxCost \in Nat
    BY <2>2, CallersCounted, CostAssumption, FactorGrows
  <2>4. QED
    BY <1>1, <2>1, <2>3, CostAssumption DEF DayBounded
<1>4. QED
  BY <1>2, <1>3, CostTypes, CallersAssumption DEF CostInv

\* A usage that is to be recorded
LEMMA UsageTypes ==
    ASSUME CostParts, NEW c \in Callers, usage[c].step = "used"
    PROVE  /\ usage[c].day \in Times /\ usage[c].day <= now
           /\ usage[c].cost \in Nat /\ usage[c].cost \in 0..MaxCost
           /\ UsageOf(c, usage[c].day)
<1>1. PICK d \in Times, k \in Costs : usage[c] = Used(d, k)
  BY CostTypes DEF Idle, Cleared
<1>2. usage[c].day = d /\ usage[c].cost = k /\ k \in Nat /\ k \in 0..MaxCost
  BY <1>1, CostAssumption DEF Used
<1>3. UsageOf(c, d) /\ d <= now
  BY <1>1 DEF UsageOf, CostParts
<1>4. QED
  BY <1>2, <1>3

\* The two logs, when a usage is written
LEMMA WrittenSays ==
    ASSUME CostParts, NEW c \in Callers, usage[c].step = "used",
           NEW readable \in BOOLEAN, Written(usage[c], readable)
    PROVE  /\ LineIn(Times, log, log', usage[c].day, usage[c].cost)
           /\ LineIn(Months, monthLog, monthLog', MonthOf(usage[c].day), usage[c].cost)
<1>1. /\ usage[c].day \in Times /\ usage[c].cost \in Nat
      /\ MonthOf(usage[c].day) \in Months
      /\ log \in [Times -> Total] /\ monthLog \in [Months -> Total]
  BY UsageTypes, CostTypes
<1>2. /\ \E r \in BOOLEAN : log' = Appended(log, usage[c].day, usage[c].cost, r)
      /\ \E r \in BOOLEAN :
            monthLog' = Appended(monthLog, MonthOf(usage[c].day), usage[c].cost, r)
  BY DEF Written
<1>3. LineIn(Times, log, log', usage[c].day, usage[c].cost)
  <2> HIDE DEF Times
  <2>1. QED
    BY <1>1, <1>2, AppendedSays
<1>4. LineIn(Months, monthLog, monthLog', MonthOf(usage[c].day), usage[c].cost)
  <2> HIDE DEF Times
  <2>1. QED
    BY <1>1, <1>2, AppendedSays
<1>5. QED
  BY <1>3, <1>4

\* The line of a usage takes the place of the thread that was to add it.
LEMMA RecordBounds ==
    ASSUME CostInv, NEW c \in Callers, usage[c].step = "used", NEW readable \in BOOLEAN,
           Written(usage[c], readable), now' = now,
           usage' = [usage EXCEPT ![c] = Idle], CostParts', NEW d \in Times
    PROVE  DayBounded(d)'
<1>1. /\ usage[c].day \in Times /\ UsageOf(c, usage[c].day)
      /\ usage[c].cost \in 0..MaxCost
      /\ \A x \in Times : x # usage[c].day => log'[x] = log[x]
      /\ log'[usage[c].day].readable <= log[usage[c].day].readable + usage[c].cost
      /\ log'[usage[c].day].readable \in Nat
  <2>1. /\ usage[c].day \in Times /\ usage[c].cost \in 0..MaxCost
        /\ UsageOf(c, usage[c].day)
    BY UsageTypes DEF CostInv
  <2>2. LineIn(Times, log, log', usage[c].day, usage[c].cost)
    BY WrittenSays DEF CostInv
  <2>3. QED
    BY <2>1, <2>2 DEF LineIn
<1>2. \A x \in Callers : usage'[x] = IF x = c THEN Idle ELSE usage[x]
  BY CostTypes DEF CostInv
<1>3. CASE d # usage[c].day
  <2>1. Adding(d)' \subseteq Adding(d)
    BY <1>2, UsageKinds DEF Adding, UsageOf
  <2>2. QED
    BY <1>1, <1>3, <2>1, DayStays DEF CostInv
<1>4. CASE d = usage[c].day
  <2>1. Adding(d)' \subseteq Adding(d) \ {c} /\ c \in Adding(d)
    BY <1>1, <1>2, <1>4, UsageKinds DEF Adding, UsageOf
  <2>2. /\ IsFiniteSet(Adding(d) \ {c})
        /\ Cardinality(Adding(d) \ {c}) = Cardinality(Adding(d)) - 1
    BY <2>1, AddingCounted, FS_RemoveElement
  <2>3. /\ Cardinality(Adding(d)') <= Cardinality(Adding(d)) - 1
        /\ Cardinality(Adding(d)') \in Nat /\ Cardinality(Adding(d)) \in Nat
    BY <2>1, <2>2, AddingCounted, FS_Subset, FS_CardinalityType
  <2>4. PICK n \in Nat : n = Cardinality(Adding(d)) - 1
    BY <2>3
  <2>5. /\ MaxCost * Cardinality(Adding(d)') <= MaxCost * n
        /\ MaxCost * Cardinality(Adding(d)') \in Nat /\ MaxCost * n \in Nat
    BY <2>3, <2>4, CostAssumption, FactorGrows
  <2>6. MaxCost * Cardinality(Adding(d)) = MaxCost * n + MaxCost
    BY <2>3, <2>4, CostAssumption
  <2>7. Cardinality(Callers) * MaxCost \in Nat
    BY CallersCounted, CostAssumption, FactorGrows
  <2>8. log[d].readable \in Nat /\ DayBounded(d)
    BY CostTypes DEF CostInv
  <2>9. QED
    BY <1>1, <1>4, <2>5, <2>6, <2>7, <2>8, CostAssumption DEF DayBounded
<1>5. QED
  BY <1>3, <1>4

\* Totals that are brought up to date are today's.
LEMMA CurrentSays ==
    ASSUME CostParts, NEW days \in [Times -> Total], NEW months \in [Months -> Total]
    PROVE  /\ Current(days, months) \in [day : Times, daily : Nat, monthly : Nat]
           /\ Current(days, months).day = now
           /\ cache.day = now => Current(days, months) = cache
           /\ cache.day # now =>
                 /\ Current(days, months).daily = days[now].readable
                 /\ Current(days, months).monthly = months[MonthOf(now)].readable
<1>1. /\ now \in Times /\ days[now].readable \in Nat
      /\ months[MonthOf(now)].readable \in Nat
  BY CostTypes DEF Total
<1>2. /\ Rebuilt(days, months) \in [day : Times, daily : Nat, monthly : Nat]
      /\ Rebuilt(days, months).day = now
      /\ Rebuilt(days, months).daily = days[now].readable
      /\ Rebuilt(days, months).monthly = months[MonthOf(now)].readable
  BY <1>1 DEF Rebuilt
<1>3. QED
  BY <1>1, <1>2, CostTypes DEF Current

LEMMA AddedSays ==
    ASSUME NEW cur \in [day : Times, daily : Nat, monthly : Nat], NEW u, u.cost \in Nat
    PROVE  /\ Added(cur, u) \in [day : Times, daily : Nat, monthly : Nat]
           /\ Added(cur, u).day = cur.day
           /\ Added(cur, u).daily = IF u.day = cur.day THEN cur.daily + u.cost ELSE cur.daily
           /\ Added(cur, u).monthly = IF MonthOf(u.day) = MonthOf(cur.day)
                                      THEN cur.monthly + u.cost ELSE cur.monthly
BY DEF Added

\* The clock moves on, and the totals of yesterday are not today's.
LEMMA TickCostKeeps ==
    ASSUME CostInv, TickCost
    PROVE  CostInv'
<1>1. /\ now \in Nat /\ now' = now + 1 /\ now' \in Times
      /\ UNCHANGED <<log, monthLog, cache, usage, usages>>
      /\ cache.day \in Times /\ cache.day \in Nat /\ cache.day <= now
  <2>1. now \in Times /\ cache.day \in Times /\ cache.day <= now
    BY CostTypes DEF CostInv, CostParts
  <2>2. QED
    BY <2>1, CallersAssumption DEF TickCost, Tick, Times
<1>2. CostParts'
  <2>1. \A c \in Callers, d \in Times : UsageOf(c, d)' => d <= now'
    BY <1>1, CallersAssumption DEF CostInv, CostParts, UsageOf
  <2>2. \A d \in Times : d > now' => log[d].readable = 0
    BY <1>1, CallersAssumption DEF CostInv, CostParts
  <2>3. cache.day <= now'
    BY <1>1
  <2>4. CostTypeOK'
    BY <1>1 DEF CostInv, CostParts, CostTypeOK
  <2>5. QED
    BY <1>1, <2>1, <2>2, <2>3, <2>4 DEF CostParts
<1>3. TotalsCoverLog'
  <2>1. cache.day # now'
    BY <1>1
  <2>2. QED
    BY <1>1, <2>1 DEF TotalsCoverLog
<1>4. ASSUME NEW d \in Times PROVE DayBounded(d)'
  <2>1. Adding(d)' \subseteq Adding(d)
    BY <1>1, <1>4, CallersAssumption DEF Adding, UsageOf
  <2>2. QED
    BY <1>1, <1>2, <2>1, DayStays DEF CostInv
<1>5. QED
  BY <1>2, <1>3, <1>4 DEF CostInv

\* A usage that is forgotten or begins to be waited for changes no line.
LEMMA UsageKeeps ==
    ASSUME CostInv, now' = now, log' = log, CostParts', TotalsCoverLog',
           \A c \in Callers : \/ usage'[c] = usage[c] \/ usage'[c] = Idle
                              \/ usage[c] = Cleared /\ \E k \in Costs : usage'[c] = Used(now, k)
    PROVE  CostInv'
<1>1. ASSUME NEW d \in Times PROVE DayBounded(d)'
  <2>1. now \in Int /\ d \in Int
    BY CostTypes, CallersAssumption DEF CostInv
  <2>2. ASSUME NEW c \in Adding(d)' PROVE c \in Adding(d)
    <3>1. c \in Callers
      BY <2>2 DEF Adding
    <3>2. CASE usage'[c] = usage[c]
      BY <2>2, <3>1, <3>2 DEF Adding, UsageOf
    <3>3. CASE usage'[c] = Idle
      BY <2>2, <3>1, <3>3, UsageKinds DEF Adding, UsageOf
    <3>4. CASE usage[c] = Cleared /\ \E k \in Costs : usage'[c] = Used(now, k)
      <4>1. UsageOf(c, d)'
        BY <2>2, <3>4, UsageKinds DEF Adding
      <4>2. d = now
        BY <3>4, <4>1, UsageKinds DEF UsageOf
      <4>3. QED
        BY <2>1, <3>1, <3>4, <4>2 DEF Adding
    <3>5. QED
      BY <3>1, <3>2, <3>3, <3>4
  <2>3. Adding(d)' \subseteq Adding(d)
    BY <2>2
  <2>4. QED
    BY <2>3, DayStays DEF CostInv
<1>2. QED
  BY <1>1 DEF CostInv

\* The steps that read the totals or make a usage
LEMMA ReadersKeepParts ==
    ASSUME CostInv,
           \/ LookAtTotals \/ RestartTracker
           \/ \E c \in Callers :
                 \/ \E est \in 0..MaxCost : WithinBudget(c, est)
                 \/ \E k \in Costs : Use(c, k)
                 \/ RecordThrows(c)
    PROVE  CostParts' /\ TotalsCoverLog'
<1>1. /\ now' = now /\ log' = log /\ monthLog' = monthLog
      /\ cache' \in {cache, Totals, Rebuilt(log, monthLog)}
  BY DEF LookAtTotals, RestartTracker, WithinBudget, Use, RecordThrows
<1>t. /\ now \in Times /\ now \in Nat /\ MonthOf(now) \in Months
      /\ log \in [Times -> Total] /\ monthLog \in [Months -> Total]
      /\ cache \in [day : Times, daily : Nat, monthly : Nat]
      /\ usage \in [Callers -> {Idle, Cleared} \cup {Used(d, k) : d \in Times, k \in Costs}]
      /\ usages \in 0..MaxUsages
  BY CostTypes DEF CostInv
<1>2. /\ usage' \in [Callers -> {Idle, Cleared} \cup {Used(d, k) : d \in Times, k \in Costs}]
      /\ \A c \in Callers : \/ usage'[c] \in {usage[c], Idle, Cleared}
                             \/ \E k \in Costs : usage'[c] = Used(now, k)
      /\ usages' \in 0..MaxUsages
  <2>1. CASE LookAtTotals \/ RestartTracker \/ \E c \in Callers : RecordThrows(c)
    BY <1>t, <2>1 DEF LookAtTotals, RestartTracker, RecordThrows
  <2>2. ASSUME NEW c \in Callers, NEW est \in 0..MaxCost, WithinBudget(c, est)
        PROVE  <1>2!1 /\ <1>2!2 /\ <1>2!3
    BY <1>t, <2>2 DEF WithinBudget
  <2>3. ASSUME NEW c \in Callers, NEW k \in Costs, Use(c, k)
        PROVE  <1>2!1 /\ <1>2!2 /\ <1>2!3
    <3>1. usages' \in 0..MaxUsages
      BY <1>t, <2>3, CostAssumption DEF Use
    <3>2. QED
      BY <1>t, <2>3, <3>1 DEF Use
  <2>4. QED
    BY <2>1, <2>2, <2>3
<1>3. \A c \in Callers, d \in Times : UsageOf(c, d)' => d <= now
  <2>1. SUFFICES ASSUME NEW c \in Callers, NEW d \in Times, UsageOf(c, d)' PROVE d <= now
    OBVIOUS
  <2>2. usage'[c] = usage[c] \/ \E k \in Costs : usage'[c] = Used(now, k)
    BY <1>2, <2>1, UsageKinds DEF UsageOf
  <2>3. CASE usage'[c] = usage[c]
    BY <2>1, <2>3 DEF UsageOf, CostInv, CostParts
  <2>4. CASE \E k \in Costs : usage'[c] = Used(now, k)
    <3>1. d = now
      BY <2>1, <2>4, UsageKinds DEF UsageOf
    <3>2. QED
      BY <3>1, <1>t
  <2>5. QED
    BY <2>2, <2>3, <2>4
<1>4. /\ log[now] \in Total /\ monthLog[MonthOf(now)] \in Total
      /\ Covers(log[now].readable, log[now])
      /\ Covers(monthLog[MonthOf(now)].readable, monthLog[MonthOf(now)])
      /\ log[now].readable \in Nat /\ monthLog[MonthOf(now)].readable \in Nat
  <2>1. log[now] \in Total /\ monthLog[MonthOf(now)] \in Total /\ 0 \in 0..MaxCost
    BY <1>t, CostAssumption
  <2>2. QED
    BY <2>1, CoverFresh DEF Total
<1>5. /\ cache' \in [day : Times, daily : Nat, monthly : Nat]
      /\ cache'.day <= now
      /\ cache'.day = now => /\ Covers(cache'.daily, log[now])
                             /\ Covers(cache'.monthly, monthLog[MonthOf(now)])
  <2>1. CASE cache' = cache
    BY <1>t, <2>1 DEF CostInv, CostParts, TotalsCoverLog
  <2>2. CASE cache' = Totals
    <3>1. /\ cache' \in [day : Times, daily : Nat, monthly : Nat] /\ cache'.day = now
          /\ cache.day = now => cache' = cache
          /\ cache.day # now => /\ cache'.daily = log[now].readable
                                 /\ cache'.monthly = monthLog[MonthOf(now)].readable
      <4> HIDE DEF Times
      <4>0. CostParts
        BY DEF CostInv
      <4>d. PICK days, months : days = log /\ months = monthLog
        OBVIOUS
      <4>1. PICK cur : cur = Current(days, months)
        OBVIOUS
      <4>2. /\ cur \in [day : Times, daily : Nat, monthly : Nat] /\ cur.day = now
            /\ cache.day = now => cur = cache
            /\ cache.day # now => /\ cur.daily = days[now].readable
                                   /\ cur.monthly = months[MonthOf(now)].readable
        BY <1>t, <4>0, <4>d, <4>1, CurrentSays
      <4>3. cache' = cur
        BY <2>2, <4>d, <4>1 DEF Totals
      <4>4. QED
        BY <4>d, <4>2, <4>3
    <3>2. CASE cache.day = now
      BY <1>t, <3>1, <3>2 DEF CostInv, TotalsCoverLog
    <3>3. CASE cache.day # now
      BY <1>t, <1>4, <3>1, <3>3
    <3>4. QED
      BY <3>2, <3>3
  <2>3. CASE cache' = Rebuilt(log, monthLog)
    BY <1>t, <1>4, <2>3 DEF Rebuilt
  <2>4. QED
    BY <1>1, <2>1, <2>2, <2>3
<1>6. CostTypeOK'
  BY <1>1, <1>t, <1>2, <1>5 DEF CostTypeOK
<1>7. \A d \in Times : d > now => log[d].readable = 0
  BY DEF CostInv, CostParts
<1>8. QED
  BY <1>1, <1>3, <1>5, <1>6, <1>7 DEF CostParts, TotalsCoverLog

\* The totals after a record: today's cover the log with its line.
LEMMA RecordCovers ==
    ASSUME CostInv, NEW c \in Callers, NEW readable \in BOOLEAN, Record(c, readable),
           log' \in [Times -> Total], monthLog' \in [Months -> Total]
    PROVE  /\ cache' \in [day : Times, daily : Nat, monthly : Nat] /\ cache'.day = now
           /\ Covers(cache'.daily, log'[now])
           /\ Covers(cache'.monthly, monthLog'[MonthOf(now)])
<1> DEFINE u == usage[c]
           m == MonthOf(now)
<1>t. /\ now \in Times /\ m \in Months
      /\ log \in [Times -> Total] /\ monthLog \in [Months -> Total]
      /\ cache.daily \in Nat /\ cache.monthly \in Nat
  BY CostTypes DEF CostInv
<1>1. PICK days, months : days = log' /\ months = monthLog'
  OBVIOUS
<1>2. PICK cur : cur = Current(days, months)
  OBVIOUS
<1>u. /\ u.day \in Times /\ u.cost \in Nat /\ u.cost \in 0..MaxCost
      /\ MonthOf(u.day) \in Months
  BY UsageTypes, CostTypes DEF Record, CostInv
<1>3. /\ LineIn(Times, log, days, u.day, u.cost)
      /\ LineIn(Months, monthLog, months, MonthOf(u.day), u.cost)
      /\ cache' = Added(cur, u)
  BY <1>1, <1>2, WrittenSays DEF Record, CostInv
<1>4. /\ days[now] \in Total /\ log[now] \in Total /\ (u.day # now => days[now] = log[now])
      /\ u.day = now =>
            /\ days[now].readable + days[now].lost = log[now].readable + log[now].lost + u.cost
            /\ days[now].readable <= log[now].readable + u.cost
  BY <1>t, <1>u, <1>3 DEF LineIn
<1>5. /\ months[m] \in Total /\ monthLog[m] \in Total
      /\ (MonthOf(u.day) # m => months[m] = monthLog[m])
      /\ MonthOf(u.day) = m =>
            /\ months[m].readable + months[m].lost
                  = monthLog[m].readable + monthLog[m].lost + u.cost
            /\ months[m].readable <= monthLog[m].readable + u.cost
  BY <1>t, <1>u, <1>3 DEF LineIn
<1>6. /\ cur \in [day : Times, daily : Nat, monthly : Nat] /\ cur.day = now
      /\ cache.day = now => cur = cache
      /\ cache.day # now => cur.daily = days[now].readable /\ cur.monthly = months[m].readable
  BY <1>1, <1>2, CurrentSays DEF CostInv
<1> HIDE DEF u, m
<1>7. /\ cache' \in [day : Times, daily : Nat, monthly : Nat] /\ cache'.day = now
      /\ cache'.daily = IF u.day = now THEN cur.daily + u.cost ELSE cur.daily
      /\ cache'.monthly = IF MonthOf(u.day) = m THEN cur.monthly + u.cost ELSE cur.monthly
  <2>1. u.day = cur.day <=> u.day = now
    BY <1>6
  <2>2. MonthOf(u.day) = MonthOf(cur.day) <=> MonthOf(u.day) = m
    BY <1>6 DEF m
  <2>3. QED
    BY <1>3, <1>6, <1>u, <2>1, <2>2, AddedSays
<1>8. Covers(cache'.daily, days[now])
  <2>1. CASE cache.day = now
    <3>1. Covers(cache.daily, log[now])
      BY <2>1 DEF CostInv, TotalsCoverLog
    <3>2. QED
      BY <1>t, <1>u, <1>4, <1>6, <1>7, <2>1, <3>1, CoverAdds
  <2>2. CASE cache.day # now
    BY <1>u, <1>4, <1>6, <1>7, <2>2, CoverFresh
  <2>3. QED
    BY <2>1, <2>2
<1>9. Covers(cache'.monthly, months[m])
  <2>1. CASE cache.day = now
    <3>1. Covers(cache.monthly, monthLog[m])
      BY <2>1 DEF CostInv, TotalsCoverLog, m
    <3>2. QED
      BY <1>t, <1>u, <1>5, <1>6, <1>7, <2>1, <3>1, CoverAdds
  <2>2. CASE cache.day # now
    BY <1>u, <1>5, <1>6, <1>7, <2>2, CoverFresh
  <2>3. QED
    BY <2>1, <2>2
<1>10. QED
  BY <1>1, <1>7, <1>8, <1>9 DEF m

\* A usage is recorded, with the totals or, when the file cannot be read, without.
LEMMA RecordKeeps ==
    ASSUME CostInv, NEW c \in Callers, NEW readable \in BOOLEAN,
           Record(c, readable) \/ RecordUnread(c, readable)
    PROVE  CostInv'
<1> DEFINE u == usage[c]
<1>t. /\ now \in Times /\ now \in Nat
      /\ log \in [Times -> Total] /\ monthLog \in [Months -> Total]
      /\ cache \in [day : Times, daily : Nat, monthly : Nat]
      /\ usage \in [Callers -> {Idle, Cleared} \cup {Used(d, k) : d \in Times, k \in Costs}]
      /\ usages \in 0..MaxUsages
  BY CostTypes DEF CostInv
<1>1. /\ u.step = "used" /\ now' = now /\ usages' = usages
      /\ Written(u, readable)
      /\ usage' = [usage EXCEPT ![c] = Idle]
  BY DEF Record, RecordUnread
<1>2. /\ u.day \in Times /\ u.day <= now /\ u.cost \in Nat /\ MonthOf(u.day) \in Months
  BY <1>1, UsageTypes, CostTypes DEF CostInv
<1>3. /\ log' \in [Times -> Total] /\ \A d \in Times : d # u.day => log'[d] = log[d]
      /\ monthLog' \in [Months -> Total]
  <2>1. log' \in [Times -> Total] /\ \A d \in Times : d # u.day => log'[d] = log[d]
    BY <1>1, WrittenSays DEF CostInv, LineIn
  <2>2. monthLog' \in [Months -> Total]
    BY <1>1, WrittenSays DEF CostInv, LineIn
  <2>3. QED
    BY <2>1, <2>2
<1>4. \A d \in Times : d > now => log'[d].readable = 0
  <2>1. \A d \in Times : d > now => log[d].readable = 0
    BY DEF CostInv, CostParts
  <2>2. \A d \in Times : d > now => d # u.day
    BY <1>2, <1>t DEF Times
  <2>3. QED
    BY <1>3, <2>1, <2>2
<1>5. /\ cache' \in [day : Times, daily : Nat, monthly : Nat]
      /\ cache'.day <= now
      /\ cache'.day = now => /\ Covers(cache'.daily, log'[now])
                             /\ Covers(cache'.monthly, monthLog'[MonthOf(now)])
  <2>1. CASE RecordUnread(c, readable)
    BY <1>t, <2>1 DEF RecordUnread, CostInv, CostParts
  <2>2. CASE Record(c, readable)
    BY <1>t, <1>3, <2>2, RecordCovers
  <2>3. QED
    BY <2>1, <2>2
<1>6. /\ usage' \in [Callers -> {Idle, Cleared} \cup {Used(d, k) : d \in Times, k \in Costs}]
      /\ \A x \in Callers, d \in Times : UsageOf(x, d)' => d <= now
  <2>1. \A x \in Callers : usage'[x] = IF x = c THEN Idle ELSE usage[x]
    BY <1>t, <1>1
  <2>2. \A x \in Callers, d \in Times : UsageOf(x, d)' => UsageOf(x, d)
    BY <2>1, UsageKinds DEF UsageOf
  <2>3. QED
    BY <1>t, <1>1, <2>2 DEF CostInv, CostParts
<1>7. CostParts' /\ TotalsCoverLog'
  BY <1>t, <1>1, <1>3, <1>4, <1>5, <1>6 DEF CostParts, CostTypeOK, TotalsCoverLog
<1>8. \A d \in Times : DayBounded(d)'
  BY <1>1, <1>7, RecordBounds
<1>9. QED
  BY <1>7, <1>8 DEF CostInv

LEMMA CostInductive == CostInv /\ [CostNext]_costVars => CostInv'
<1> SUFFICES ASSUME CostInv, [CostNext]_costVars
             PROVE  CostInv'
  OBVIOUS
<1>1. CASE TickCost
  BY <1>1, TickCostKeeps
<1>2. ASSUME NEW c \in Callers, NEW est \in 0..MaxCost, WithinBudget(c, est)
      PROVE  CostInv'
  <2>1. CostParts' /\ TotalsCoverLog'
    BY <1>2, ReadersKeepParts
  <2>2. \A d \in Times : DayBounded(d)'
    BY <1>2, <2>1, CheckBounds
  <2>3. QED
    BY <2>1, <2>2 DEF CostInv
<1>3. CASE \/ LookAtTotals \/ RestartTracker
           \/ \E c \in Callers : (\E k \in Costs : Use(c, k)) \/ RecordThrows(c)
  <2>1. CostParts' /\ TotalsCoverLog'
    BY <1>3, ReadersKeepParts
  <2>2. /\ now' = now /\ log' = log
        /\ \A c \in Callers :
              \/ usage'[c] = usage[c] \/ usage'[c] = Idle
              \/ usage[c] = Cleared /\ \E k \in Costs : usage'[c] = Used(now, k)
    <3>1. usage \in [Callers -> {Idle, Cleared} \cup {Used(d, k) : d \in Times, k \in Costs}]
      BY CostTypes DEF CostInv
    <3>2. CASE LookAtTotals \/ RestartTracker
      BY <3>1, <3>2 DEF LookAtTotals, RestartTracker
    <3>3. ASSUME NEW c \in Callers, NEW k \in Costs, Use(c, k) PROVE <2>2!1 /\ <2>2!2
      BY <3>1, <3>3 DEF Use
    <3>4. ASSUME NEW c \in Callers, RecordThrows(c) PROVE <2>2!1 /\ <2>2!2
      BY <3>1, <3>4 DEF RecordThrows
    <3>5. QED
      BY <1>3, <3>2, <3>3, <3>4
  <2>3. QED
    BY <2>1, <2>2, UsageKeeps
<1>4. ASSUME NEW c \in Callers, NEW readable \in BOOLEAN,
             Record(c, readable) \/ RecordUnread(c, readable)
      PROVE  CostInv'
  BY <1>4, RecordKeeps
<1>5. CASE UNCHANGED costVars
  <2>1. CostParts'
    BY <1>5 DEF costVars, CostInv, CostParts, CostTypeOK, UsageOf
  <2>2. TotalsCoverLog'
    BY <1>5 DEF costVars, CostInv, TotalsCoverLog
  <2>3. QED
    BY <1>5, <2>1, <2>2, UsageKeeps DEF costVars
<1>6. QED
  BY <1>1, <1>2, <1>3, <1>4, <1>5 DEF CostNext

LEMMA CostStarts == CostInit => CostInv
<1> SUFFICES ASSUME CostInit PROVE CostInv
  OBVIOUS
<1>1. /\ now = 0 /\ 0 \in Times /\ [readable |-> 0, lost |-> 0] \in Total
      /\ \A d \in Times : log[d] = [readable |-> 0, lost |-> 0]
      /\ \A m \in Months : monthLog[m] = [readable |-> 0, lost |-> 0]
      /\ log \in [Times -> Total] /\ monthLog \in [Months -> Total]
      /\ cache = [day |-> 0, daily |-> 0, monthly |-> 0]
      /\ usage = [c \in Callers |-> Idle] /\ usages = 0
  BY CallersAssumption DEF CostInit, Total, Times
<1>2. \A c \in Callers, d \in Times : ~UsageOf(c, d) /\ usage[c] # Cleared
  BY <1>1, UsageKinds DEF UsageOf
<1>3. CostParts
  BY <1>1, <1>2, CallersAssumption, CostAssumption DEF CostParts, CostTypeOK
<1>4. TotalsCoverLog
  <2>1. MonthOf(now) \in Months
    BY <1>3, CostTypes
  <2>2. QED
    BY <1>1, <2>1, CostAssumption DEF TotalsCoverLog, Covers
<1>5. ASSUME NEW d \in Times PROVE DayBounded(d)
  <2>1. Adding(d) = {}
    BY <1>2 DEF Adding
  <2>2. Cardinality(Adding(d)) = 0
    BY <2>1, FS_EmptySet
  <2>3. MaxCost * Cardinality(Adding(d)) = 0
    BY <2>2, CostAssumption
  <2>4. Cardinality(Callers) * MaxCost \in Nat
    BY CallersCounted, CostAssumption, FactorGrows
  <2>5. QED
    BY <1>1, <2>3, <2>4, CostAssumption DEF DayBounded
<1>6. QED
  BY <1>3, <1>4, <1>5 DEF CostInv

\* Every state of the cost tracker has its type.
THEOREM CostTypeCorrect == CostSpec => []CostTypeOK
<1>1. CostInv => CostTypeOK
  BY DEF CostInv, CostParts
<1>2. QED
  BY <1>1, CostStarts, CostInductive, PTL DEF CostSpec

\* Whatever is written, lost or unreadable, and whenever the clock moves or the process
\* starts again: the totals of today and of its month miss nothing that a read of the log
\* finds, and exceed what was recorded by the cost of one usage at most.
THEOREM TotalsHold == CostSpec => []TotalsCoverLog
<1>1. CostInv => TotalsCoverLog
  BY DEF CostInv
<1>2. QED
  BY <1>1, CostStarts, CostInductive, PTL DEF CostSpec

\* The lines of a day exceed the day's limit by at most the dearest usage per thread.
THEOREM OverspendHolds == CostSpec => []OverspendBounded
<1>2. CostInv => OverspendBounded
  <2> SUFFICES ASSUME CostInv, NEW d \in Times
               PROVE  log[d].readable <= DailyLimit + Cardinality(Callers) * MaxCost
    BY DEF OverspendBounded
  <2>1. DayBounded(d) /\ log[d].readable \in Nat
    BY CostTypes DEF CostInv
  <2>2. /\ MaxCost * Cardinality(Adding(d)) \in Nat
        /\ Cardinality(Callers) * MaxCost \in Nat
    BY AddingCounted, CallersCounted, CostAssumption, FactorGrows
  <2>3. QED
    BY <2>1, <2>2, CostAssumption DEF DayBounded
<1>3. QED
  BY <1>2, CostStarts, CostInductive, PTL DEF CostSpec
=============================================================================
