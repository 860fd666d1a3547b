------------------------- MODULE AuthService_proofs -------------------------
(***************************************************************************)
(* Proofs about AuthService, for any profiles, processes, threads and      *)
(* starting files, and any number of failing saves, lost answers and       *)
(* crashes.                                                                *)
(***************************************************************************)
EXTENDS AuthHistory, TLAPS

-----------------------------------------------------------------------------
(* The operations on the data keep its type. *)

LEMMA ProfileTypes ==
    /\ NoProfile \in Profile /\ StaticToken \in Profile
    /\ \A r \in Nat, t \in Nat, dated \in BOOLEAN : OAuth(r, t, dated) \in Profile
    /\ \A p \in Profile :
          ReadBack(p) \in Profile /\ p.refresh \in Nat /\ p.until \in Int /\ p.dated \in BOOLEAN
    /\ DefaultData \in Data
  <1>1. NoProfile \in Profile /\ StaticToken \in Profile
    BY DEF NoProfile, StaticToken, Bare, Profile
  <1>2. \A r \in Nat, t \in Nat, dated \in BOOLEAN : OAuth(r, t, dated) \in Profile
    BY DEF OAuth, Profile
  <1>3. ASSUME NEW p \in Profile
        PROVE  ReadBack(p) \in Profile /\ p.refresh \in Nat /\ p.until \in Int /\ p.dated \in BOOLEAN
    BY ProfilesAssumption DEF ReadBack, Profile
  <1>4. DefaultData \in Data
    BY <1>1 DEF DefaultData, Data
  <1> QED BY <1>1, <1>2, <1>3, <1>4

LEMMA LoadedType ==
    ASSUME NEW d \in Data
    PROVE  Loaded(d) \in Data
  <1>1. \A id \in Ids : ReadBack(d.profiles[id]) \in Profile
    BY ProfileTypes DEF Data
  <1> QED BY <1>1 DEF Loaded, Data

\* What an operation works on: the file read back, or no profiles at all
LEMMA FindsTypes ==
    ASSUME StoreType
    PROVE  /\ Loads \subseteq Finds
           /\ \A d \in Finds : d \in Data /\ d \in {Loaded(file), DefaultData}
  BY LoadedType, ProfileTypes DEF StoreType, Loads, Finds

LEMMA WithProfileType ==
    ASSUME NEW d \in Data, NEW id \in Ids, NEW p \in Profile
    PROVE  WithProfile(d, id, p) \in Data
  BY DEF WithProfile, Data

LEMMA WithActiveType ==
    ASSUME NEW d \in Data, NEW provider \in Providers, NEW id \in Ids \cup {NoId}
    PROVE  WithActive(d, provider, id) \in Data
  BY DEF WithActive, Data

LEMMA UpsertType ==
    ASSUME NEW d \in Data, NEW id \in Ids, NEW p \in Profile, NEW setActive \in BOOLEAN
    PROVE  Upsert(d, id, p, setActive) \in Data
  <1>1. ProviderOf[id] \in Providers
    BY ProfilesAssumption
  <1>2. WithActive(d, ProviderOf[id], id) \in Data
    BY <1>1, WithActiveType
  <1> QED BY <1>2, WithProfileType DEF Upsert

LEMMA RemoveType ==
    ASSUME NEW d \in Data, NEW id \in Ids
    PROVE  Remove(d, id) \in Data
  BY ProfileTypes DEF Remove, Data

LEMMA SelectedType ==
    ASSUME NEW d \in Data, NEW provider \in Providers, NEW override \in Ids \cup {NoId}
    PROVE  Selected(d, provider, override) \subseteq Ids
  <1>1. d.active[provider] \in Ids \cup {NoId} /\ DefaultId[provider] \in Ids
    BY ProfilesAssumption DEF Data
  <1> QED BY <1>1 DEF Selected

-----------------------------------------------------------------------------
(* Types *)

LEMMA AnswerTypes ==
    ASSUME TypeOK, NEW p \in Profile
    PROVE  /\ NoAnswer \in Answer
           /\ Unrefreshed(p) \in Answer
           /\ AnswerOf("refreshed", p) \in Answer
  <1>1. NoAnswer \in Answer
    BY DEF NoAnswer, Answer
  <1>2. clock \in Nat /\ p.until \in Int /\ p.dated \in BOOLEAN
    BY ProfileTypes DEF TypeOK, StoreType
  <1>3. \A how \in {"held", "unrefreshable", "refreshed"} : AnswerOf(how, p) \in Answer
    BY <1>2 DEF AnswerOf, Answer
  <1> QED BY <1>1, <1>3 DEF Unrefreshed

\* What a return leaves behind
LEMMA ReturnTypes ==
    ASSUME TypeOK, NEW a \in Actors, NEW ans \in Answer, Return(a, ans)
    PROVE  CallType' /\ CallsKnown' /\ mutex' \in [Instances -> Actors \cup {NoActor}]
  <1> USE ProfileTypes DEF TypeOK
  <1>1. CallType'
    BY DEF CallType, Return, Leave
  <1>2. mutex' \in [Instances -> Actors \cup {NoActor}]
    BY ServiceAssumption DEF StoreType, Return
  <1>3. ASSUME NEW b \in Actors
        PROVE  /\ pc'[b] \in {"activate", "reload", "request", "update"} => target'[b] \in Ids
               /\ \A i \in Instances :
                    mutex'[i] = b => pc'[b] \notin {"idle", "activate"} /\ InstanceOf[b] = i
    <2>1. CASE b = a
      <3>1. pc'[a] = "idle"
        BY DEF CallType, Return, Leave
      <3>2. \A i \in Instances : mutex'[i] # a
        BY ServiceAssumption DEF CallsKnown, StoreType, Return
      <3> QED BY <2>1, <3>1, <3>2
    <2>2. CASE b # a
      <3>1. pc'[b] = pc[b] /\ target'[b] = target[b]
        BY <2>2 DEF CallType, Return, Leave
      <3>2. \A i \in Instances : mutex'[i] = b => mutex[i] = b
        BY ServiceAssumption DEF StoreType, Return
      <3> QED BY <3>1, <3>2 DEF CallsKnown
    <2> QED BY <2>1, <2>2
  <1>4. CallsKnown'
    BY <1>3 DEF CallsKnown
  <1> QED BY <1>1, <1>2, <1>4

\* The steps that go from a load to the save
LEMMA WillSaveTypes ==
    ASSUME TypeOK, NEW a \in Actors, NEW id \in Ids \cup {NoId}, NEW d \in Data,
           WillSave(a, id, d), UNCHANGED <<profile, presented, answer, mutex>>
    PROVE  CallType' /\ CallsKnown'
  <1> USE DEF TypeOK
  <1>1. CallType'
    BY DEF CallType, WillSave
  <1>2. ASSUME NEW b \in Actors
        PROVE  /\ pc'[b] \in {"activate", "reload", "request", "update"} => target'[b] \in Ids
               /\ \A i \in Instances :
                    mutex'[i] = b => pc'[b] \notin {"idle", "activate"} /\ InstanceOf[b] = i
    <2>2. /\ b = a => pc'[b] = "write"
          /\ b # a => pc'[b] = pc[b] /\ target'[b] = target[b]
      BY DEF CallType, WillSave
    <2>3. pc'[b] \in {"activate", "reload", "request", "update"} => target'[b] \in Ids
      BY <2>2 DEF CallsKnown
    <2>4. \A i \in Instances :
            mutex'[i] = b => pc'[b] \notin {"idle", "activate"} /\ InstanceOf[b] = i
      BY <2>2 DEF CallsKnown
    <2> QED BY <2>3, <2>4
  <1>3. CallsKnown'
    BY <1>2 DEF CallsKnown
  <1> QED BY <1>1, <1>3

\* A step that begins a save
LEMMA StoreTypes ==
    ASSUME TypeOK, NEW a \in Actors, Store(a)
    PROVE  TypeOK'
  <1> USE DEF TypeOK
  <1>1. Loaded(file) \in Data
    BY LoadedType DEF StoreType
  <1>2. ASSUME NEW id \in Ids, NEW setActive \in BOOLEAN, StoreTokens(a, id, setActive)
        PROVE  TypeOK'
    <2>1. PICK d \in Loads, token \in {0, issued + 1}, dated \in BOOLEAN :
            /\ issued' = IF token = 0 THEN issued ELSE token
            /\ WillSave(a, id, Upsert(d, id, OAuth(token, clock + Life, dated), setActive))
      BY <1>2 DEF StoreTokens
    <2>2. issued' \in Nat /\ token \in Nat /\ clock + Life \in Nat
      BY <2>1, ServiceAssumption DEF StoreType
    <2>3. Upsert(d, id, OAuth(token, clock + Life, dated), setActive) \in Data
      BY <2>2, FindsTypes, ProfileTypes, UpsertType
    <2>4. CallType' /\ CallsKnown'
      BY <1>2, <2>1, <2>2, <2>3, WillSaveTypes DEF StoreTokens
    <2>5. spent' \subseteq Nat
      BY <1>2, <2>2 DEF StoreType, StoreTokens
    <2>6. StoreType'
      BY <1>2, <2>2, <2>5 DEF StoreType, StoreTokens, Begin, fvars
    <2> QED BY <2>4, <2>6
  <1>3. ASSUME NEW id \in Ids \cup {NoId}, NEW d \in Data, WillSave(a, id, d),
               UNCHANGED <<clock, fvars, profile, presented, answer, mutex, backoff, pvars>>,
               started' \in Nat
        PROVE  TypeOK'
    <2>3. CallType' /\ CallsKnown'
      BY <1>3, WillSaveTypes
    <2>4. StoreType'
      BY <1>3 DEF StoreType, fvars, pvars
    <2> QED BY <2>3, <2>4
  <1>4. ASSUME NEW id \in Ids, NEW setActive \in BOOLEAN, StoreToken(a, id, setActive)
        PROVE  TypeOK'
    <2>1. \A d \in Loads : Upsert(d, id, StaticToken, setActive) \in Data
      BY FindsTypes, ProfileTypes, UpsertType
    <2> QED BY <1>3, <1>4, <2>1 DEF StoreToken, Begin, StoreType
  <1>5. ASSUME NEW id \in Ids, RemoveProfile(a, id)
        PROVE  TypeOK'
    BY <1>1, <1>3, <1>5, RemoveType DEF RemoveProfile, Begin, StoreType
  <1>6. ASSUME NEW provider \in Providers, ClearActive(a, provider)
        PROVE  TypeOK'
    <2>1. NoId \in Ids \cup {NoId}
      OBVIOUS
    <2>2. \A d \in Loads : WithActive(d, provider, NoId) \in Data
      BY <2>1, FindsTypes, WithActiveType
    <2>3. PICK d \in Loads :
          /\ WillSave(a, NoId, WithActive(d, provider, NoId))
          /\ UNCHANGED <<clock, fvars, profile, presented, answer, mutex, backoff, pvars>>
          /\ started' = started + 1
      BY <1>6 DEF ClearActive, Begin
    <2>4. started' \in Nat
      BY <2>3 DEF StoreType
    <2> HIDE DEF TypeOK
    <2> QED BY <1>3, <2>1, <2>2, <2>3, <2>4
  <1>7. ASSUME NEW id \in Ids, CheckActive(a, id)
        PROVE  TypeOK'
    <2>1. CallType'
      BY <1>7 DEF CallType, CheckActive
    <2>2. StoreType'
      BY <1>7 DEF StoreType, CheckActive, Begin, fvars, pvars
    <2>3. ASSUME NEW b \in Actors
          PROVE  /\ pc'[b] \in {"activate", "reload", "request", "update"} => target'[b] \in Ids
                 /\ \A i \in Instances :
                      mutex'[i] = b => pc'[b] \notin {"idle", "activate"} /\ InstanceOf[b] = i
      <3>1. CASE b = a
        BY <1>7, <3>1 DEF CallsKnown, CallType, CheckActive, Begin, pvars
      <3>2. CASE b # a
        BY <1>7, <3>2 DEF CallsKnown, CallType, CheckActive, pvars
      <3> QED BY <3>1, <3>2
    <2>4. CallsKnown'
      BY <2>3 DEF CallsKnown
    <2> QED BY <2>1, <2>2, <2>4
  <1>8. ASSUME SetActive(a) PROVE TypeOK'
    <2>1. target[a] \in Ids /\ ProviderOf[target[a]] \in Providers
      BY <1>8, ProfilesAssumption DEF CallsKnown, SetActive
    <2>2. ASSUME NEW d \in Finds,
                 WillSave(a, target[a], WithActive(d, ProviderOf[target[a]], target[a])),
                 UNCHANGED <<profile, presented>>
          PROVE  TypeOK'
      <3>1. WithActive(d, ProviderOf[target[a]], target[a]) \in Data
        BY <2>1, FindsTypes, WithActiveType
      <3> QED BY <1>3, <1>8, <2>1, <2>2, <3>1 DEF SetActive, StoreType
    <2>3. CASE Leave(a)
      <3>1. Leave(a) /\ UNCHANGED <<clock, fvars, answer, mutex, backoff, pvars, started>>
        BY <1>8, <2>3 DEF SetActive
      <3>2. StoreType'
        BY <3>1 DEF StoreType, fvars, pvars
      <3>3. CallType'
        BY <3>1, ProfileTypes DEF CallType, Leave
      <3>4. \A i \in Instances : mutex[i] # a
        BY <1>8 DEF CallsKnown, SetActive
      <3>5. ASSUME NEW b \in Actors
            PROVE  /\ pc'[b] \in {"activate", "reload", "request", "update"} => target'[b] \in Ids
                   /\ \A i \in Instances :
                        mutex'[i] = b => pc'[b] \notin {"idle", "activate"} /\ InstanceOf[b] = i
        <4>1. CASE b = a
          BY <3>1, <3>4, <4>1 DEF CallType, StoreType, Leave, pvars
        <4>2. CASE b # a
          BY <3>1, <4>2 DEF CallType, CallsKnown, Leave, pvars
        <4> QED BY <4>1, <4>2
      <3>6. CallsKnown'
        BY <3>5 DEF CallsKnown
      <3> QED BY <3>2, <3>3, <3>6
    <2> QED BY <1>8, <2>2, <2>3 DEF SetActive
  <1> QED BY <1>2, <1>4, <1>5, <1>6, <1>7, <1>8 DEF Store

\* A call that returns, with nothing else changed but what its step sets
LEMMA ReturnStepTypes ==
    ASSUME TypeOK, NEW a \in Actors, NEW ans \in Answer, Return(a, ans),
           file' \in Data, readable' \in BOOLEAN, backoff' \in [Instances -> [Ids -> Nat]],
           spent' \subseteq Nat, issued' \in Nat,
           clock' = clock, started' = started
    PROVE  TypeOK'
  <1>1. CallType' /\ CallsKnown' /\ mutex' \in [Instances -> Actors \cup {NoActor}]
    BY ReturnTypes
  <1>2. StoreType'
    BY <1>1 DEF TypeOK, StoreType
  <1> QED BY <1>1, <1>2 DEF TypeOK

LEMMA FirstLookTypes ==
    ASSUME TypeOK, NEW a \in Actors, NEW provider \in Providers,
           NEW override \in Ids \cup {NoId}, FirstLook(a, provider, override)
    PROVE  TypeOK'
  <1> USE DEF TypeOK
  <1> DEFINE found(d) == Selected(d, provider, override)
  <1>1. \A d \in Finds : d \in Data /\ found(d) \subseteq Ids
    BY SelectedType, FindsTypes
  <1>2. /\ UNCHANGED <<clock, fvars, presented, copy, backoff, pvars>>
        /\ started' = started + 1 /\ pc[a] = "idle" /\ mutex[InstanceOf[a]] = NoActor
    BY DEF FirstLook, Begin, LockFree
  <1>3. ASSUME NEW ans \in Answer, answer' = [answer EXCEPT ![a] = ans],
               UNCHANGED <<pc, target, profile, mutex>>
        PROVE  TypeOK'
    <2>1. StoreType'
      BY <1>2, <1>3 DEF StoreType, fvars, pvars
    <2>2. CallType'
      BY <1>2, <1>3 DEF CallType
    <2>3. CallsKnown'
      BY <1>2, <1>3 DEF CallsKnown, pvars
    <2> QED BY <2>1, <2>2, <2>3
  <1>4. ASSUME NEW id \in Ids, NEW p \in Profile,
               pc' = [pc EXCEPT ![a] = "reload"],
               target' = [target EXCEPT ![a] = id],
               profile' = [profile EXCEPT ![a] = p],
               mutex' = [mutex EXCEPT ![InstanceOf[a]] = a],
               UNCHANGED answer
        PROVE  TypeOK'
    <2>1. StoreType'
      BY <1>2, <1>4, ServiceAssumption DEF StoreType, fvars, pvars
    <2>2. CallType'
      BY <1>2, <1>4 DEF CallType
    <2>3. ASSUME NEW b \in Actors
          PROVE  /\ pc'[b] \in {"activate", "reload", "request", "update"} => target'[b] \in Ids
                 /\ \A i \in Instances :
                      mutex'[i] = b => pc'[b] \notin {"idle", "activate"} /\ InstanceOf[b] = i
      <3>2. CASE b = a
        <4>1. pc'[a] = "reload" /\ target'[a] = id
          BY <1>4 DEF CallType
        <4>2. \A i \in Instances : mutex[i] # a
          BY <1>2 DEF CallsKnown
        <4>3. \A i \in Instances : mutex'[i] = a => InstanceOf[a] = i
          BY <1>4, <4>2 DEF StoreType
        <4> QED BY <3>2, <4>1, <4>3
      <3>3. CASE b # a
        <4>1. pc'[b] = pc[b] /\ target'[b] = target[b]
          BY <1>4, <3>3 DEF CallType
        <4>2. \A i \in Instances : mutex'[i] = b => mutex[i] = b
          BY <1>4, <3>3 DEF StoreType
        <4> QED BY <4>1, <4>2 DEF CallsKnown
      <3> QED BY <3>2, <3>3
    <2>4. CallsKnown'
      BY <2>3 DEF CallsKnown
    <2> QED BY <2>1, <2>2, <2>4
  <1>5. CASE answer' = [answer EXCEPT ![a] = NoAnswer] /\ UNCHANGED <<pc, target, profile, mutex>>
    BY <1>3, <1>5, ProfileTypes, AnswerTypes
  <1>6. ASSUME NEW d \in Finds, NEW id \in found(d),
               LET p == d.profiles[id]
               IN  IF Expiring(p) /\ p.refresh # 0
                   THEN /\ pc' = [pc EXCEPT ![a] = "reload"]
                        /\ target' = [target EXCEPT ![a] = id]
                        /\ profile' = [profile EXCEPT ![a] = p]
                        /\ mutex' = [mutex EXCEPT ![InstanceOf[a]] = a]
                        /\ UNCHANGED answer
                   ELSE /\ answer' = [answer EXCEPT ![a] = Unrefreshed(p)]
                        /\ UNCHANGED <<pc, target, profile, mutex>>
        PROVE  TypeOK'
    <2> DEFINE p == d.profiles[id]
    <2>1. id \in Ids /\ p \in Profile
      BY <1>1 DEF Data
    <2>2. Unrefreshed(p) \in Answer
      BY <2>1, AnswerTypes
    <2> HIDE DEF p, found, TypeOK
    <2>3. CASE Expiring(p) /\ p.refresh # 0
      BY <1>4, <1>6, <2>1, <2>3 DEF p
    <2>4. CASE ~(Expiring(p) /\ p.refresh # 0)
      BY <1>3, <1>6, <2>2, <2>4 DEF p
    <2> QED BY <2>3, <2>4
  <1> QED BY <1>5, <1>6 DEF FirstLook

\* A refresh that goes on from one step to the next with its locals changed
LEMMA OnwardTypes ==
    ASSUME TypeOK, NEW a \in Actors, NEW where \in {"request", "update"},
           pc[a] \in {"reload", "request"},
           pc' = [pc EXCEPT ![a] = where],
           NEW p \in Profile, profile' = [profile EXCEPT ![a] = p],
           presented' \in [Actors -> Nat],
           backoff' \in [Instances -> [Ids -> Nat]], issued' \in Nat, spent' \subseteq Nat,
           UNCHANGED <<clock, fvars, target, copy, answer, mutex, started>>
    PROVE  TypeOK'
  <1> USE DEF TypeOK
  <1>1. StoreType'
    BY DEF StoreType, fvars
  <1>2. CallType'
    BY DEF CallType
  <1>3. ASSUME NEW b \in Actors
        PROVE  /\ pc'[b] \in {"activate", "reload", "request", "update"} => target'[b] \in Ids
               /\ \A i \in Instances :
                    mutex'[i] = b => pc'[b] \notin {"idle", "activate"} /\ InstanceOf[b] = i
    <2>1. CASE b = a
      <3>1. pc'[a] = where
        BY DEF CallType
      <3> QED BY <2>1, <3>1 DEF CallsKnown
    <2>2. CASE b # a
      <3>1. pc'[b] = pc[b]
        BY <2>2 DEF CallType
      <3> QED BY <3>1 DEF CallsKnown
    <2> QED BY <2>1, <2>2
  <1>4. CallsKnown'
    BY <1>3 DEF CallsKnown
  <1> QED BY <1>1, <1>2, <1>4

LEMMA ReloadTypes ==
    ASSUME TypeOK, NEW a \in Actors, Reload(a)
    PROVE  TypeOK'
  <1>0. PICK d \in Finds :
         LET p == d.profiles[target[a]]
         IN  IF Expiring(p)
             THEN IF backoff[InstanceOf[a]][target[a]] > clock
                  THEN Return(a, NoAnswer)
                  ELSE /\ pc' = [pc EXCEPT ![a] = "request"]
                       /\ profile' = [profile EXCEPT ![a] = p]
                       /\ presented' = [presented EXCEPT ![a] =
                             IF p.refresh # 0 THEN p.refresh ELSE profile[a].refresh]
                       /\ UNCHANGED <<target, copy, answer, mutex>>
             ELSE Return(a, Unrefreshed(p))
    BY DEF Reload
  <1> DEFINE p == d.profiles[target[a]]
  <1> DEFINE token == IF p.refresh # 0 THEN p.refresh ELSE profile[a].refresh
  <1>1. pc[a] = "reload" /\ target[a] \in Ids
    BY DEF Reload, TypeOK, CallsKnown
  <1>2. p \in Profile
    BY <1>1, FindsTypes DEF TypeOK, Data
  <1>3. NoAnswer \in Answer /\ Unrefreshed(p) \in Answer
    BY <1>2, AnswerTypes, ProfileTypes
  <1>4. token \in Nat
    BY <1>2, ProfileTypes DEF TypeOK, CallType
  <1>5. UNCHANGED <<clock, fvars, backoff, pvars, started>>
    BY DEF Reload
  <1> HIDE DEF p, token
  <1>6. ASSUME NEW ans \in Answer, Return(a, ans) PROVE TypeOK'
    <2>1. /\ file' \in Data /\ readable' \in BOOLEAN /\ spent' \subseteq Nat /\ issued' \in Nat
          /\ backoff' \in [Instances -> [Ids -> Nat]]
          /\ clock' = clock /\ started' = started
      BY <1>5 DEF TypeOK, StoreType, fvars, pvars
    <2> QED BY <1>6, <2>1, ReturnStepTypes
  <1>7. ASSUME pc' = [pc EXCEPT ![a] = "request"],
               profile' = [profile EXCEPT ![a] = p],
               presented' = [presented EXCEPT ![a] = token],
               UNCHANGED <<target, copy, answer, mutex>>
        PROVE  TypeOK'
    <2>1. presented' \in [Actors -> Nat]
      BY <1>4, <1>7 DEF TypeOK, CallType
    <2>2. backoff' \in [Instances -> [Ids -> Nat]] /\ issued' \in Nat /\ spent' \subseteq Nat
      BY <1>5 DEF TypeOK, StoreType, pvars
    <2> QED BY <1>1, <1>2, <1>5, <1>7, <2>1, <2>2, OnwardTypes
  <1> QED BY <1>0, <1>3, <1>6, <1>7 DEF p, token

LEMMA RefreshSucceedsTypes ==
    ASSUME TypeOK, NEW a \in Actors, RefreshSucceeds(a)
    PROVE  TypeOK'
  <1>1. PICK sent \in {0, issued + 1}, dated \in BOOLEAN :
          /\ issued' = IF sent = 0 THEN issued ELSE sent
          /\ spent'  = IF sent = 0 THEN spent ELSE spent \cup ({presented[a]} \ {0})
          /\ profile' = [profile EXCEPT ![a] = OAuth(KeptToken(a, sent), clock + Life, dated)]
    BY DEF RefreshSucceeds
  <1>2. issued \in Nat /\ sent \in Nat /\ clock + Life \in Nat
    BY ServiceAssumption DEF TypeOK, StoreType
  <1>3. issued' \in Nat
    BY <1>1, <1>2
  <1>4. spent' \subseteq Nat
    BY <1>1 DEF TypeOK, StoreType, CallType
  <1>5. KeptToken(a, sent) \in Nat
    BY <1>2, ProfileTypes DEF TypeOK, CallType, KeptToken
  <1>6. OAuth(KeptToken(a, sent), clock + Life, dated) \in Profile
    BY <1>2, <1>5, ProfileTypes
  <1>7. pc[a] = "request" /\ target[a] \in Ids
    BY DEF RefreshSucceeds, TypeOK, CallsKnown
  <1>8. backoff' \in [Instances -> [Ids -> Nat]]
    BY <1>7 DEF RefreshSucceeds, TypeOK, StoreType
  <1>9. presented' \in [Actors -> Nat]
    BY DEF RefreshSucceeds, TypeOK, CallType
  <1>10. /\ pc' = [pc EXCEPT ![a] = "update"]
         /\ UNCHANGED <<clock, fvars, target, copy, answer, mutex, started>>
    BY DEF RefreshSucceeds
  <1> QED BY <1>1, <1>3, <1>4, <1>6, <1>7, <1>8, <1>9, <1>10, OnwardTypes

LEMMA RefreshFailsTypes ==
    ASSUME TypeOK, NEW a \in Actors, RefreshFails(a)
    PROVE  TypeOK'
  <1>1. target[a] \in Ids
    BY DEF RefreshFails, TypeOK, CallsKnown
  <1>2. clock + Backoff \in Nat
    BY ServiceAssumption DEF TypeOK, StoreType
  <1>3. backoff' \in [Instances -> [Ids -> Nat]]
    BY <1>1, <1>2 DEF RefreshFails, TypeOK, StoreType
  <1>4. spent' \subseteq Nat
    BY DEF RefreshFails, TypeOK, StoreType, CallType
  <1>5. NoAnswer \in Answer
    BY DEF NoAnswer, Answer
  <1>6. /\ file' \in Data /\ readable' \in BOOLEAN /\ issued' \in Nat
        /\ clock' = clock /\ started' = started
    BY DEF RefreshFails, TypeOK, StoreType, fvars
  <1>7. Return(a, NoAnswer)
    BY DEF RefreshFails
  <1> QED BY <1>3, <1>4, <1>5, <1>6, <1>7, ReturnStepTypes

LEMMA UpdateTypes ==
    ASSUME TypeOK, NEW a \in Actors, Update(a)
    PROVE  TypeOK'
  <1>1. target[a] \in Ids /\ profile[a] \in Profile
    BY DEF Update, TypeOK, CallsKnown, CallType
  <1>2. UNCHANGED <<clock, fvars, backoff, pvars, started>>
    BY DEF Update
  <1>3. ASSUME NEW d \in Finds,
               WillSave(a, target[a], WithProfile(d, target[a], profile[a])),
               UNCHANGED <<profile, presented, answer, mutex>>
        PROVE  TypeOK'
    <2>1. WithProfile(d, target[a], profile[a]) \in Data
      BY <1>1, FindsTypes, WithProfileType DEF TypeOK
    <2>2. /\ WillSave(a, target[a], WithProfile(d, target[a], profile[a]))
          /\ UNCHANGED <<profile, presented, answer, mutex>>
      BY <1>3
    <2>3. CallType' /\ CallsKnown'
      BY <1>1, <2>1, <2>2, WillSaveTypes
    <2>4. StoreType'
      BY <1>2, <2>2 DEF TypeOK, StoreType, fvars, pvars
    <2> QED BY <2>3, <2>4 DEF TypeOK
  <1>4. CASE Return(a, NoAnswer)
    <2>1. NoAnswer \in Answer /\ Return(a, NoAnswer)
      BY <1>4 DEF NoAnswer, Answer
    <2>2. /\ file' \in Data /\ readable' \in BOOLEAN /\ spent' \subseteq Nat /\ issued' \in Nat
          /\ backoff' \in [Instances -> [Ids -> Nat]]
          /\ clock' = clock /\ started' = started
      BY <1>2 DEF TypeOK, StoreType, fvars, pvars
    <2> QED BY <2>1, <2>2, ReturnStepTypes
  <1> QED BY <1>3, <1>4 DEF Update

LEMMA SaveTypes ==
    ASSUME TypeOK, NEW a \in Actors, Save(a) \/ SaveTruncated(a) \/ SaveFails(a)
    PROVE  TypeOK'
  <1>1. PICK ans \in {NoAnswer, answer[a], AnswerOf("refreshed", profile[a])} : Return(a, ans)
    BY DEF Save, SaveTruncated, SaveFails, Saved
  <1>2. ans \in Answer
    BY AnswerTypes DEF TypeOK, CallType
  <1>3. file' \in Data /\ readable' \in BOOLEAN
    BY DEF Save, SaveTruncated, SaveFails, TypeOK, StoreType, CallType, fvars
  <1>4. UNCHANGED <<clock, backoff, pvars, started>>
    BY DEF Save, SaveTruncated, SaveFails
  <1>5. spent' \subseteq Nat /\ issued' \in Nat /\ backoff' \in [Instances -> [Ids -> Nat]]
    BY <1>4 DEF TypeOK, StoreType, pvars
  <1>6. clock' = clock /\ started' = started
    BY <1>4
  <1> QED BY <1>1, <1>2, <1>3, <1>5, <1>6, ReturnStepTypes

LEMMA CrashTypes ==
    ASSUME TypeOK, NEW i \in Instances, Crash(i)
    PROVE  TypeOK'
  <1>1. NoAnswer \in Answer
    BY DEF NoAnswer, Answer
  <1>2. CallType'
    BY <1>1, ProfileTypes DEF Crash, TypeOK, CallType
  <1>3. StoreType'
    BY DEF Crash, TypeOK, StoreType, fvars, pvars
  <1>4. ASSUME NEW b \in Actors
        PROVE  /\ pc'[b] \in {"activate", "reload", "request", "update"} => target'[b] \in Ids
               /\ \A k \in Instances :
                    mutex'[k] = b => pc'[b] \notin {"idle", "activate"} /\ InstanceOf[b] = k
    <2>1. CASE InstanceOf[b] = i
      <3>1. pc'[b] = "idle"
        BY <2>1 DEF Crash
      <3>2. \A k \in Instances : mutex'[k] # b
        BY <2>1, ServiceAssumption DEF Crash, TypeOK, CallsKnown, StoreType
      <3> QED BY <3>1, <3>2
    <2>2. CASE InstanceOf[b] # i
      <3>1. pc'[b] = pc[b] /\ target'[b] = target[b]
        BY <2>2 DEF Crash
      <3>2. \A k \in Instances : mutex'[k] = b => mutex[k] = b
        BY ServiceAssumption DEF Crash, TypeOK, StoreType
      <3> QED BY <3>1, <3>2 DEF TypeOK, CallsKnown
    <2> QED BY <2>1, <2>2
  <1>5. CallsKnown'
    BY <1>4 DEF CallsKnown
  <1> QED BY <1>2, <1>3, <1>5 DEF TypeOK

\* Types hold, and a call in progress knows its profile, in any number of processes.
THEOREM TypeCorrect == Spec => []TypeOK
  <1>1. Init => TypeOK
    <2> SUFFICES ASSUME Init PROVE TypeOK
      OBVIOUS
    <2>1. NoAnswer \in Answer
      BY DEF NoAnswer, Answer
    <2>2. StoreType
      BY ServiceAssumption DEF Init, StoreType
    <2>3. CallType
      BY <2>1, ProfileTypes DEF Init, CallType
    <2>4. CallsKnown
      BY ServiceAssumption DEF Init, CallsKnown
    <2> QED BY <2>2, <2>3, <2>4 DEF TypeOK
  <1>2. TypeOK /\ [Next]_vars => TypeOK'
    <2> SUFFICES ASSUME TypeOK, [Next]_vars PROVE TypeOK'
      OBVIOUS
    <2>1. ASSUME NEW a \in Actors, Refresh(a) PROVE TypeOK'
      BY <2>1, FirstLookTypes, ReloadTypes, RefreshSucceedsTypes, RefreshFailsTypes, UpdateTypes
         DEF Refresh
    <2>2. CASE Tick
      BY <2>2 DEF Tick, TypeOK, StoreType, CallType, CallsKnown, fvars, avars, pvars
    <2>3. CASE UNCHANGED vars
      BY <2>3 DEF vars, TypeOK, StoreType, CallType, CallsKnown, fvars, avars, pvars
    <2> QED BY <2>1, <2>2, <2>3, StoreTypes, SaveTypes, CrashTypes DEF Next
  <1> QED BY <1>1, <1>2, PTL DEF Spec

-----------------------------------------------------------------------------
(* Where the data come from: the file is somebody's copy, and a copy is the    *)
(* file, or no profiles at all, as one operation changed it.  The two          *)
(* invariants below rest on this.                                              *)

Given(p) == p = StaticToken \/ \E r \in Nat, t \in Nat, dated \in BOOLEAN : p = OAuth(r, t, dated)

ChangedFrom(a, e, d) ==
    \/ \E id \in Ids, p \in Profile, setActive \in BOOLEAN :
          Given(p) /\ d = Upsert(e, id, p, setActive)
    \/ \E id \in Ids : d = Remove(e, id)
    \/ \E provider \in Providers : d = WithActive(e, provider, NoId)
    \/ \E id \in Ids : Has(e, id) /\ d = WithActive(e, ProviderOf[id], id)
    \/ \E id \in Ids : pc[a] = "update" /\ d = WithProfile(e, id, profile[a])

Changed(a, d) == \E e \in {Loaded(file), DefaultData} : ChangedFrom(a, e, d)

LEMMA LoadedHas ==
    ASSUME NEW d \in Data, NEW id \in Ids
    PROVE  /\ Has(Loaded(d), id) <=> Has(d, id)
           /\ Loaded(d).profiles[id] = ReadBack(d.profiles[id])
  <1>1. d.profiles[id] \in Profile
    BY DEF Data
  <1>2. Loaded(d).profiles[id] = ReadBack(d.profiles[id])
    BY DEF Loaded
  <1>3. ReadBack(d.profiles[id]).kind = d.profiles[id].kind
    BY <1>1 DEF ReadBack, Profile
  <1> QED BY <1>2, <1>3 DEF Has

\* A profile that an operation finds is in a file that can be parsed.
LEMMA FoundThere ==
    ASSUME TypeOK, NEW d \in Finds, NEW id \in Ids, Has(d, id)
    PROVE  readable /\ d = Loaded(file) /\ Has(file, id)
  <1>1. ~Has(DefaultData, id)
    BY DEF Has, DefaultData, NoProfile, Bare
  <1>2. readable /\ d = Loaded(file)
    BY <1>1 DEF Finds, Loads
  <1>3. file \in Data
    BY DEF TypeOK, StoreType
  <1> QED BY <1>2, <1>3, LoadedHas

\* Any other profile that is looked for is one of the file, or none.
LEMMA FoundProfile ==
    ASSUME TypeOK, NEW d \in Finds, NEW id \in Ids
    PROVE  d.profiles[id] = ReadBack(file.profiles[id]) \/ d.profiles[id] = NoProfile
  <1>1. d \in {Loaded(file), DefaultData} /\ file \in Data
    BY FindsTypes DEF TypeOK, StoreType
  <1> QED BY <1>1, LoadedHas DEF DefaultData

LEMMA DataStep ==
    ASSUME TypeOK, Next
    PROVE  /\ file' = file \/ \E a \in Actors : file' = copy[a]
           /\ \A b \in Actors :
                copy'[b] = copy[b] \/ copy'[b] = DefaultData \/ Changed(b, copy'[b])
  <1> USE DEF TypeOK
  <1>1. ASSUME NEW a \in Actors, NEW id \in Ids \cup {NoId}, NEW d, WillSave(a, id, d),
               Changed(a, d), file' = file
        PROVE  \A b \in Actors :
                 copy'[b] = copy[b] \/ copy'[b] = DefaultData \/ Changed(b, copy'[b])
    <2>1. \A b \in Actors : copy'[b] = IF b = a THEN d ELSE copy[b]
      BY <1>1 DEF WillSave, CallType
    <2> QED BY <1>1, <2>1
  <1>2. ASSUME NEW a \in Actors, Leave(a)
        PROVE  \A b \in Actors : copy'[b] = copy[b] \/ copy'[b] = DefaultData
    BY <1>2 DEF Leave, CallType
  <1>3. ASSUME NEW a \in Actors, Store(a)
        PROVE  /\ file' = file
               /\ \A b \in Actors :
                    copy'[b] = copy[b] \/ copy'[b] = DefaultData \/ Changed(b, copy'[b])
    <2>1. ASSUME NEW id \in Ids, NEW setActive \in BOOLEAN, StoreTokens(a, id, setActive)
          PROVE  \E d : WillSave(a, id, d) /\ Changed(a, d)
      <3>1. PICK d \in Loads, token \in {0, issued + 1}, dated \in BOOLEAN :
              WillSave(a, id, Upsert(d, id, OAuth(token, clock + Life, dated), setActive))
        BY <2>1 DEF StoreTokens
      <3>2. token \in Nat /\ clock + Life \in Nat
        BY ServiceAssumption DEF StoreType
      <3>3. OAuth(token, clock + Life, dated) \in Profile /\ Given(OAuth(token, clock + Life, dated))
        BY <3>2, ProfileTypes DEF Given
      <3>4. Changed(a, Upsert(d, id, OAuth(token, clock + Life, dated), setActive))
        BY <3>3, FindsTypes DEF Changed, ChangedFrom
      <3> QED BY <3>1, <3>4
    <2>2. ASSUME NEW id \in Ids, NEW setActive \in BOOLEAN, StoreToken(a, id, setActive)
          PROVE  \E d : WillSave(a, id, d) /\ Changed(a, d)
      <3>1. PICK d \in Loads : WillSave(a, id, Upsert(d, id, StaticToken, setActive))
        BY <2>2 DEF StoreToken
      <3>2. StaticToken \in Profile /\ Given(StaticToken)
        BY ProfileTypes DEF Given
      <3>3. Changed(a, Upsert(d, id, StaticToken, setActive))
        BY <3>2, FindsTypes DEF Changed, ChangedFrom
      <3> QED BY <3>1, <3>3
    <2>3. ASSUME NEW id \in Ids, RemoveProfile(a, id)
          PROVE  \E d : WillSave(a, id, d) /\ Changed(a, d)
      BY <2>3 DEF RemoveProfile, Changed, ChangedFrom
    <2>4. ASSUME NEW provider \in Providers, ClearActive(a, provider)
          PROVE  \E d : WillSave(a, NoId, d) /\ Changed(a, d)
      BY <2>4, FindsTypes DEF ClearActive, Changed, ChangedFrom
    <2>5. CASE SetActive(a)
      <3>1. target[a] \in Ids
        BY <2>5 DEF SetActive, CallsKnown
      <3>2. ASSUME NEW e \in Finds, Has(e, target[a]),
                   WillSave(a, target[a], WithActive(e, ProviderOf[target[a]], target[a]))
            PROVE  \A b \in Actors :
                     copy'[b] = copy[b] \/ copy'[b] = DefaultData \/ Changed(b, copy'[b])
        <4>1. Changed(a, WithActive(e, ProviderOf[target[a]], target[a]))
          BY <3>1, <3>2, FindsTypes DEF Changed, ChangedFrom
        <4> QED BY <1>1, <2>5, <3>1, <3>2, <4>1 DEF SetActive, fvars
      <3>3. ASSUME Leave(a)
            PROVE  \A b \in Actors : copy'[b] = copy[b] \/ copy'[b] = DefaultData
        BY <1>2, <3>3
      <3>4. /\ UNCHANGED fvars
            /\ \/ Leave(a)
               \/ \E e \in Finds :
                     /\ Has(e, target[a])
                     /\ WillSave(a, target[a], WithActive(e, ProviderOf[target[a]], target[a]))
        BY <2>5 DEF SetActive
      <3>5. file' = file
        BY <3>4 DEF fvars
      <3> HIDE DEF TypeOK
      <3> QED BY <3>2, <3>3, <3>4, <3>5
    <2>6. ASSUME NEW id \in Ids, CheckActive(a, id)
          PROVE  UNCHANGED <<file, copy>>
      BY <2>6 DEF CheckActive, fvars
    <2>7. file' = file
      BY <1>3 DEF Store, StoreTokens, StoreToken, RemoveProfile, ClearActive, CheckActive, SetActive,
             fvars
    <2>8. \A id \in Ids : id \in Ids \cup {NoId}
      OBVIOUS
    <2>9. NoId \in Ids \cup {NoId}
      OBVIOUS
    <2> QED BY <1>1, <1>3, <2>1, <2>2, <2>3, <2>4, <2>5, <2>6, <2>7, <2>8, <2>9 DEF Store
  <1>4. ASSUME NEW a \in Actors, Refresh(a)
        PROVE  /\ file' = file
               /\ \A b \in Actors :
                    copy'[b] = copy[b] \/ copy'[b] = DefaultData \/ Changed(b, copy'[b])
    <2>1. file' = file
      BY <1>4 DEF Refresh, FirstLook, Reload, RefreshSucceeds, RefreshFails, Update, fvars
    <2>2. ASSUME Update(a), NEW e \in Finds,
                 WillSave(a, target[a], WithProfile(e, target[a], profile[a]))
          PROVE  \A b \in Actors :
                   copy'[b] = copy[b] \/ copy'[b] = DefaultData \/ Changed(b, copy'[b])
      <3>1. target[a] \in Ids /\ pc[a] = "update"
        BY <2>2 DEF Update, CallsKnown
      <3>2. Changed(a, WithProfile(e, target[a], profile[a]))
        BY <3>1, FindsTypes DEF Changed, ChangedFrom
      <3> QED BY <1>1, <2>1, <2>2, <3>1, <3>2
    <2>3. \/ UNCHANGED copy \/ Leave(a)
          \/ /\ Update(a)
             /\ \E e \in Finds : WillSave(a, target[a], WithProfile(e, target[a], profile[a]))
      BY <1>4 DEF Refresh, FirstLook, Reload, RefreshSucceeds, RefreshFails, Update, Return
    <2> QED BY <1>2, <2>1, <2>2, <2>3
  <1>5. ASSUME NEW a \in Actors, Save(a) \/ SaveTruncated(a) \/ SaveFails(a)
        PROVE  (file' = file \/ file' = copy[a]) /\ Leave(a)
    BY <1>5 DEF Save, SaveTruncated, SaveFails, Saved, Return, fvars
  <1>6. ASSUME NEW i \in Instances, Crash(i)
        PROVE  /\ file' = file
               /\ \A b \in Actors : copy'[b] = copy[b] \/ copy'[b] = DefaultData
    BY <1>6 DEF Crash, fvars
  <1>7. CASE Tick
    BY <1>7 DEF Tick, fvars, avars
  <1> QED BY <1>2, <1>3, <1>4, <1>5, <1>6, <1>7 DEF Next

-----------------------------------------------------------------------------
(* The active profiles *)

LEMMA LoadedFits ==
    ASSUME NEW d \in Data, ActiveFits(d)
    PROVE  ActiveFits(Loaded(d))
  <1>1. \A id \in Ids : Has(Loaded(d), id) <=> Has(d, id)
    BY LoadedHas
  <1>2. Loaded(d).active = d.active
    BY DEF Loaded
  <1>3. \A p \in Providers : d.active[p] \in Ids \cup {NoId}
    BY DEF Data
  <1> QED BY <1>1, <1>2, <1>3 DEF ActiveFits

LEMMA WithActiveFits ==
    ASSUME NEW d \in Data, ActiveFits(d), NEW p \in Providers, NEW id \in Ids \cup {NoId},
           id # NoId => Has(d, id) /\ ProviderOf[id] = p
    PROVE  ActiveFits(WithActive(d, p, id))
  <1>1. WithActive(d, p, id).profiles = d.profiles
    BY DEF WithActive, Data
  <1>2. \A q \in Providers : WithActive(d, p, id).active[q] = IF q = p THEN id ELSE d.active[q]
    BY DEF WithActive, Data
  <1> QED BY <1>1, <1>2 DEF ActiveFits, Has

LEMMA WithProfileFits ==
    ASSUME NEW d \in Data, ActiveFits(d), NEW id \in Ids, NEW p \in Profile, p.kind # "none"
    PROVE  ActiveFits(WithProfile(d, id, p))
  <1>1. WithProfile(d, id, p).active = d.active
    BY DEF WithProfile, Data
  <1>2. \A k \in Ids : WithProfile(d, id, p).profiles[k] = IF k = id THEN p ELSE d.profiles[k]
    BY DEF WithProfile, Data
  <1>3. \A q \in Providers : d.active[q] \in Ids \cup {NoId}
    BY DEF Data
  <1> QED BY <1>1, <1>2, <1>3 DEF ActiveFits, Has

\* The active profile is set before the profile is there: neither part of an upsert
\* alone keeps the active profiles right.
LEMMA UpsertFits ==
    ASSUME NEW d \in Data, ActiveFits(d), NEW id \in Ids, NEW p \in Profile,
           NEW setActive \in BOOLEAN, p.kind # "none"
    PROVE  ActiveFits(Upsert(d, id, p, setActive))
  <1> DEFINE e == IF setActive THEN WithActive(d, ProviderOf[id], id) ELSE d
  <1>1. ProviderOf[id] \in Providers
    BY ProfilesAssumption
  <1>2. e \in Data
    BY <1>1, WithActiveType
  <1>3. \A q \in Providers : e.active[q] = d.active[q]
                            \/ (e.active[q] = id /\ q = ProviderOf[id])
    BY <1>1 DEF WithActive, Data
  <1>4. e.profiles = d.profiles
    BY DEF WithActive, Data
  <1> HIDE DEF e
  <1>5. WithProfile(e, id, p).active = e.active
    BY <1>2 DEF WithProfile, Data
  <1>6. \A k \in Ids : WithProfile(e, id, p).profiles[k] = IF k = id THEN p ELSE d.profiles[k]
    BY <1>2, <1>4 DEF WithProfile, Data
  <1>7. \A q \in Providers : d.active[q] \in Ids \cup {NoId}
    BY DEF Data
  <1>8. ActiveFits(WithProfile(e, id, p))
    BY <1>3, <1>5, <1>6, <1>7 DEF ActiveFits, Has
  <1> QED BY <1>8 DEF Upsert, e

LEMMA RemoveFits ==
    ASSUME NEW d \in Data, ActiveFits(d), NEW id \in Ids
    PROVE  ActiveFits(Remove(d, id))
  <1>1. \A q \in Providers : Remove(d, id).active[q] = IF d.active[q] = id THEN NoId ELSE d.active[q]
    BY DEF Remove
  <1>2. \A k \in Ids : k # id => Remove(d, id).profiles[k] = d.profiles[k]
    BY DEF Remove, Data
  <1>3. \A q \in Providers : d.active[q] \in Ids \cup {NoId}
    BY DEF Data
  <1> QED BY <1>1, <1>2, <1>3 DEF ActiveFits, Has

\* What an update puts in is a profile.
Refreshed == \A a \in Actors : pc[a] = "update" => profile[a].kind = "oauth"

LEMMA RefreshedStep ==
    ASSUME TypeOK, Refreshed, [Next]_vars
    PROVE  Refreshed'
  <1> USE DEF TypeOK
  <1>1. ASSUME NEW a \in Actors, Leave(a) PROVE Refreshed'
    BY <1>1 DEF Refreshed, CallType, Leave
  <1>2. ASSUME NEW a \in Actors, NEW id, NEW d, WillSave(a, id, d), UNCHANGED profile
        PROVE  Refreshed'
    BY <1>2 DEF Refreshed, CallType, WillSave
  <1>3. ASSUME NEW a \in Actors, NEW where \in {"activate", "reload", "request"}, NEW p,
               pc' = [pc EXCEPT ![a] = where],
               profile' = profile \/ profile' = [profile EXCEPT ![a] = p]
        PROVE  Refreshed'
    BY <1>3 DEF Refreshed, CallType
  <1>4. ASSUME NEW a \in Actors, Store(a) PROVE Refreshed'
    BY <1>1, <1>2, <1>3, <1>4
       DEF Store, StoreTokens, StoreToken, RemoveProfile, ClearActive, CheckActive, SetActive
  <1>5. ASSUME NEW a \in Actors, Refresh(a) PROVE Refreshed'
    <2>1. CASE \E provider \in Providers, override \in Ids \cup {NoId} :
                  FirstLook(a, provider, override)
      <3>1. UNCHANGED <<pc, profile>> \/
            \E p : pc' = [pc EXCEPT ![a] = "reload"] /\ profile' = [profile EXCEPT ![a] = p]
        BY <2>1 DEF FirstLook
      <3> QED BY <1>3, <3>1 DEF Refreshed
    <2>2. CASE Reload(a)
      <3>1. Leave(a) \/
            \E p : pc' = [pc EXCEPT ![a] = "request"] /\ profile' = [profile EXCEPT ![a] = p]
        BY <2>2 DEF Reload, Return
      <3> QED BY <1>1, <1>3, <3>1
    <2>3. CASE RefreshSucceeds(a)
      <3>1. PICK r, t, dated : profile' = [profile EXCEPT ![a] = OAuth(r, t, dated)]
        BY <2>3 DEF RefreshSucceeds
      <3> QED BY <2>3, <3>1 DEF RefreshSucceeds, OAuth, Refreshed, CallType
    <2>4. CASE RefreshFails(a)
      BY <1>1, <2>4 DEF RefreshFails, Return
    <2>5. CASE Update(a)
      BY <1>1, <1>2, <2>5 DEF Update, Return
    <2> QED BY <1>5, <2>1, <2>2, <2>3, <2>4, <2>5 DEF Refresh
  <1>6. ASSUME NEW a \in Actors, Save(a) \/ SaveTruncated(a) \/ SaveFails(a) PROVE Refreshed'
    BY <1>1, <1>6 DEF Save, SaveTruncated, SaveFails, Saved, Return
  <1>7. ASSUME NEW i \in Instances, Crash(i) PROVE Refreshed'
    BY <1>7 DEF Crash, Refreshed
  <1>8. CASE Tick \/ UNCHANGED vars
    BY <1>8 DEF Tick, vars, avars, Refreshed
  <1> QED BY <1>4, <1>5, <1>6, <1>7, <1>8 DEF Next

ActiveInv == ActiveExists /\ Refreshed /\ \A a \in Actors : ActiveFits(copy[a])

LEMMA ChangedFits ==
    ASSUME TypeOK, ActiveInv, NEW a \in Actors, NEW d, Changed(a, d)
    PROVE  ActiveFits(d)
  <1>1. PICK e \in {Loaded(file), DefaultData} : ChangedFrom(a, e, d)
    BY DEF Changed
  <1>2. e \in Data /\ ActiveFits(e)
    <2>1. Loaded(file) \in Data /\ ActiveFits(Loaded(file))
      BY LoadedType, LoadedFits DEF TypeOK, StoreType, ActiveInv, ActiveExists
    <2>2. DefaultData \in Data /\ ActiveFits(DefaultData)
      BY ProfileTypes DEF ActiveFits, DefaultData
    <2> QED BY <2>1, <2>2
  <1>3. ASSUME NEW id \in Ids, NEW p \in Profile, NEW setActive \in BOOLEAN, Given(p),
               d = Upsert(e, id, p, setActive)
        PROVE  ActiveFits(d)
    <2>1. p.kind # "none"
      BY <1>3 DEF Given, StaticToken, Bare, OAuth
    <2> QED BY <1>2, <1>3, <2>1, UpsertFits
  <1>4. ASSUME NEW id \in Ids, d = Remove(e, id)
        PROVE  ActiveFits(d)
    BY <1>2, <1>4, RemoveFits
  <1>5. ASSUME NEW provider \in Providers, d = WithActive(e, provider, NoId)
        PROVE  ActiveFits(d)
    <2>1. NoId \in Ids \cup {NoId}
      OBVIOUS
    <2> QED BY <1>2, <1>5, <2>1, WithActiveFits
  <1>6. ASSUME NEW id \in Ids, Has(e, id), d = WithActive(e, ProviderOf[id], id)
        PROVE  ActiveFits(d)
    <2>1. ProviderOf[id] \in Providers /\ id \in Ids \cup {NoId}
      BY ProfilesAssumption
    <2> QED BY <1>2, <1>6, <2>1, WithActiveFits
  <1>7. ASSUME NEW id \in Ids, pc[a] = "update", d = WithProfile(e, id, profile[a])
        PROVE  ActiveFits(d)
    <2>1. profile[a] \in Profile /\ profile[a].kind # "none"
      BY <1>7 DEF TypeOK, CallType, ActiveInv, Refreshed
    <2> QED BY <1>2, <1>7, <2>1, WithProfileFits
  <1> QED BY <1>1, <1>3, <1>4, <1>5, <1>6, <1>7 DEF ChangedFrom

\* Whatever the interleaving of operations, in any number of processes whose lock does
\* not exclude, and whatever fails: the active profile of a provider is in the file and is
\* the provider's own.  Each copy that is saved is right in itself.
THEOREM ActiveAlwaysExists == Spec => []ActiveExists
  <1>1. Init => ActiveInv
    <2> SUFFICES ASSUME Init PROVE ActiveInv
      OBVIOUS
    <2>1. ActiveFits(DefaultData)
      BY DEF ActiveFits, DefaultData
    <2> QED BY <2>1, FilesAssumption DEF Init, ActiveInv, ActiveExists, Refreshed
  <1>2. TypeOK /\ ActiveInv /\ [Next]_vars => ActiveInv'
    <2> SUFFICES ASSUME TypeOK, ActiveInv, [Next]_vars PROVE ActiveInv'
      OBVIOUS
    <2>1. Refreshed'
      BY RefreshedStep DEF ActiveInv
    <2>2. CASE Next
      <3>1. ActiveExists'
        BY <2>2, DataStep DEF ActiveInv, ActiveExists, ActiveFits, Has
      <3>2. ASSUME NEW a \in Actors PROVE ActiveFits(copy'[a])
        <4>1. ActiveFits(DefaultData)
          BY DEF ActiveFits, DefaultData
        <4>2. CASE Changed(a, copy'[a])
          BY <4>2, ChangedFits
        <4>3. CASE copy'[a] = copy[a] \/ copy'[a] = DefaultData
          BY <4>1, <4>3 DEF ActiveInv
        <4> QED BY <2>2, <4>2, <4>3, DataStep
      <3> QED BY <2>1, <3>1, <3>2 DEF ActiveInv, ActiveFits, Has
    <2>3. CASE UNCHANGED vars
      BY <2>1, <2>3 DEF vars, fvars, avars, ActiveInv, ActiveExists, ActiveFits, Has
    <2> QED BY <2>2, <2>3
  <1>3. ActiveInv => ActiveExists
    BY DEF ActiveInv
  <1> QED BY <1>1, <1>2, <1>3, TypeCorrect, PTL DEF Spec

-----------------------------------------------------------------------------
(* The access tokens that are returned *)

\* The file does not promise more than the provider does.
Modest(p) == p.dated => p.expires <= p.until
AllModest(d) == \A id \in Ids : Modest(d.profiles[id])

FreshInv ==
    /\ AllModest(file)
    /\ \A a \in Actors : AllModest(copy[a]) /\ Modest(profile[a])
    /\ AnswersAreFresh

LEMMA ModestProfiles ==
    ASSUME Shift <= 0
    PROVE  /\ Modest(NoProfile) /\ Modest(StaticToken)
           /\ \A p \in Profile : Given(p) => Modest(p)
           /\ \A p \in Profile : Modest(p) => Modest(ReadBack(p))
           /\ AllModest(DefaultData)
  <1>1. Modest(NoProfile) /\ Modest(StaticToken)
    BY DEF Modest, NoProfile, StaticToken, Bare
  <1>2. \A p \in Profile : Given(p) => Modest(p)
    BY <1>1 DEF Modest, OAuth, Given
  <1>3. ASSUME NEW p \in Profile, Modest(p)
        PROVE  Modest(ReadBack(p))
    <2>1. p.expires \in Int /\ p.until \in Int /\ p.expires + Shift <= p.expires
      BY ProfilesAssumption DEF Profile
    <2>2. /\ ReadBack(p).until = p.until /\ ReadBack(p).dated = p.dated
          /\ ReadBack(p).expires \in {p.expires, p.expires + Shift}
      BY DEF ReadBack, Profile
    <2> QED BY <1>3, <2>1, <2>2, ProfilesAssumption DEF Modest
  <1>4. AllModest(DefaultData)
    BY <1>1 DEF AllModest, DefaultData
  <1> QED BY <1>1, <1>2, <1>3, <1>4

LEMMA ChangedModest ==
    ASSUME Shift <= 0, TypeOK, FreshInv, NEW a \in Actors, NEW d, Changed(a, d)
    PROVE  AllModest(d)
  <1>1. PICK e \in {Loaded(file), DefaultData} : ChangedFrom(a, e, d)
    BY DEF Changed
  <1>2. e \in Data /\ AllModest(e)
    <2>1. Loaded(file) \in Data /\ AllModest(Loaded(file))
      BY LoadedType, ModestProfiles DEF TypeOK, StoreType, Data, FreshInv, AllModest, Loaded
    <2> QED BY <2>1, ProfileTypes, ModestProfiles
  <1>3. ASSUME NEW f \in Data, AllModest(f), NEW id \in Ids, NEW p \in Profile, Modest(p)
        PROVE  AllModest(WithProfile(f, id, p))
    BY <1>3 DEF AllModest, WithProfile, Data
  <1>4. \A provider, id : AllModest(WithActive(e, provider, id))
    BY <1>2 DEF AllModest, WithActive, Data
  <1>5. ASSUME NEW id \in Ids, NEW p \in Profile, NEW setActive \in BOOLEAN, Given(p),
               d = Upsert(e, id, p, setActive)
        PROVE  AllModest(d)
    <2>1. Modest(p)
      BY <1>5, ModestProfiles
    <2>2. WithActive(e, ProviderOf[id], id) \in Data
      BY <1>2, ProfilesAssumption, WithActiveType
    <2> QED BY <1>2, <1>3, <1>4, <1>5, <2>1, <2>2 DEF Upsert
  <1>6. ASSUME NEW id \in Ids, d = Remove(e, id)
        PROVE  AllModest(d)
    BY <1>2, <1>6, ModestProfiles DEF AllModest, Remove, Data
  <1>7. ASSUME NEW id \in Ids, d = WithProfile(e, id, profile[a])
        PROVE  AllModest(d)
    BY <1>2, <1>3, <1>7 DEF TypeOK, CallType, FreshInv
  <1> QED BY <1>1, <1>4, <1>5, <1>6, <1>7 DEF ChangedFrom

\* A profile somebody holds was read from the file or came from the provider.
LEMMA ProfileStep ==
    ASSUME TypeOK, Next, NEW b \in Actors
    PROVE  \/ profile'[b] = profile[b] \/ profile'[b] = NoProfile
           \/ \E id \in Ids : profile'[b] = ReadBack(file.profiles[id])
           \/ profile'[b] \in Profile /\ Given(profile'[b])
  <1> USE DEF TypeOK
  <1> DEFINE Goal == \/ profile'[b] = profile[b] \/ profile'[b] = NoProfile
                     \/ \E id \in Ids : profile'[b] = ReadBack(file.profiles[id])
                     \/ profile'[b] \in Profile /\ Given(profile'[b])
  <1>1. ASSUME NEW a \in Actors, NEW p, profile' = [profile EXCEPT ![a] = p]
        PROVE  profile'[b] = profile[b] \/ profile'[b] = p
    BY <1>1 DEF CallType
  <1>2. ASSUME NEW a \in Actors, Leave(a) PROVE Goal
    BY <1>1, <1>2 DEF Leave
  <1>3. ASSUME NEW a \in Actors, Store(a) PROVE Goal
    BY <1>2, <1>3
       DEF Store, StoreTokens, StoreToken, RemoveProfile, ClearActive, CheckActive, SetActive
  <1>4. ASSUME NEW a \in Actors, NEW provider \in Providers, NEW override \in Ids \cup {NoId},
               FirstLook(a, provider, override)
        PROVE  Goal
    <2>1. \A d \in Finds : Selected(d, provider, override) \subseteq Ids
      BY SelectedType, FindsTypes
    <2>2. profile' = profile \/
          \E d \in Finds, id \in Ids : profile' = [profile EXCEPT ![a] = d.profiles[id]]
      BY <1>4, <2>1 DEF FirstLook
    <2> QED BY <1>1, <2>2, FoundProfile
  <1>5. ASSUME NEW a \in Actors, Reload(a) PROVE Goal
    <2>1. target[a] \in Ids
      BY <1>5 DEF Reload, CallsKnown
    <2>2. \/ Leave(a)
          \/ \E d \in Finds : profile' = [profile EXCEPT ![a] = d.profiles[target[a]]]
      BY <1>5 DEF Reload, Return
    <2> QED BY <1>1, <1>2, <2>1, <2>2, FoundProfile
  <1>6. ASSUME NEW a \in Actors, RefreshSucceeds(a) PROVE Goal
    <2>1. PICK sent \in {0, issued + 1}, dated \in BOOLEAN :
            profile' = [profile EXCEPT ![a] = OAuth(KeptToken(a, sent), clock + Life, dated)]
      BY <1>6 DEF RefreshSucceeds
    <2>2. sent \in Nat /\ clock + Life \in Nat
      BY ServiceAssumption DEF StoreType
    <2>3. KeptToken(a, sent) \in Nat
      BY <2>2, ProfileTypes DEF CallType, KeptToken
    <2>4. LET p == OAuth(KeptToken(a, sent), clock + Life, dated) IN p \in Profile /\ Given(p)
      BY <2>2, <2>3, ProfileTypes DEF Given
    <2> QED BY <1>1, <2>1, <2>4
  <1>7. ASSUME NEW a \in Actors, RefreshFails(a) PROVE Goal
    BY <1>2, <1>7 DEF RefreshFails, Return
  <1>8. ASSUME NEW a \in Actors, Update(a) PROVE Goal
    BY <1>2, <1>8 DEF Update, Return
  <1>9. ASSUME NEW a \in Actors, Save(a) \/ SaveTruncated(a) \/ SaveFails(a) PROVE Goal
    BY <1>2, <1>9 DEF Save, SaveTruncated, SaveFails, Saved, Return
  <1>10. ASSUME NEW i \in Instances, Crash(i) PROVE Goal
    BY <1>10 DEF Crash
  <1>11. ASSUME Tick PROVE Goal
    BY <1>11 DEF Tick, avars
  <1> HIDE DEF Goal, TypeOK
  <1>12. ASSUME NEW a \in Actors, Refresh(a) PROVE Goal
    BY <1>4, <1>5, <1>6, <1>7, <1>8, <1>12 DEF Refresh
  <1>13. Goal
    BY <1>3, <1>9, <1>10, <1>11, <1>12 DEF Next
  <1> QED BY <1>13 DEF Goal

\* A token that is returned without a refresh was read from the file in the same step.
LEMMA AnswerStep ==
    ASSUME TypeOK, Next, NEW b \in Actors
    PROVE  \/ answer'[b] = answer[b] \/ answer'[b].how # "held"
           \/ \E id \in Ids : answer'[b] = Unrefreshed(ReadBack(file.profiles[id]))
  <1> USE DEF TypeOK
  <1> DEFINE Goal == \/ answer'[b] = answer[b] \/ answer'[b].how # "held"
                     \/ \E id \in Ids : answer'[b] = Unrefreshed(ReadBack(file.profiles[id]))
  <1>1. ASSUME NEW a \in Actors, NEW ans, answer' = [answer EXCEPT ![a] = ans]
        PROVE  answer'[b] = answer[b] \/ answer'[b] = ans
    BY <1>1 DEF CallType
  <1>2. NoAnswer.how # "held" /\ \A p : AnswerOf("refreshed", p).how # "held"
    BY DEF NoAnswer, AnswerOf
  <1>3. Unrefreshed(NoProfile) = NoAnswer
    BY DEF Unrefreshed, NoProfile, Bare
  <1>4. ASSUME NEW a \in Actors, Store(a) PROVE Goal
    BY <1>4
       DEF Store, StoreTokens, StoreToken, RemoveProfile, ClearActive, CheckActive, SetActive
  <1>5. ASSUME NEW a \in Actors, NEW provider \in Providers, NEW override \in Ids \cup {NoId},
               FirstLook(a, provider, override)
        PROVE  Goal
    <2>1. \A d \in Finds : Selected(d, provider, override) \subseteq Ids
      BY SelectedType, FindsTypes
    <2>2. \/ answer' = answer \/ answer' = [answer EXCEPT ![a] = NoAnswer]
          \/ \E d \in Finds, id \in Ids : answer' = [answer EXCEPT ![a] = Unrefreshed(d.profiles[id])]
      BY <1>5, <2>1 DEF FirstLook
    <2> QED BY <1>1, <1>2, <1>3, <2>2, FoundProfile
  <1>6. ASSUME NEW a \in Actors, Reload(a) PROVE Goal
    <2>1. target[a] \in Ids
      BY <1>6 DEF Reload, CallsKnown
    <2>2. \/ answer' = answer \/ answer' = [answer EXCEPT ![a] = NoAnswer]
          \/ \E d \in Finds : answer' = [answer EXCEPT ![a] = Unrefreshed(d.profiles[target[a]])]
      BY <1>6 DEF Reload, Return
    <2> QED BY <1>1, <1>2, <1>3, <2>1, <2>2, FoundProfile
  <1>7. ASSUME NEW a \in Actors, RefreshSucceeds(a) \/ RefreshFails(a) \/ Update(a) PROVE Goal
    BY <1>1, <1>2, <1>7 DEF RefreshSucceeds, RefreshFails, Update, Return
  <1>8. ASSUME NEW a \in Actors, Save(a) \/ SaveTruncated(a) \/ SaveFails(a) PROVE Goal
    <2>1. \/ answer' = [answer EXCEPT ![a] = answer[a]]
          \/ answer' = [answer EXCEPT ![a] = NoAnswer]
          \/ answer' = [answer EXCEPT ![a] = AnswerOf("refreshed", profile[a])]
      BY <1>8 DEF Save, SaveTruncated, SaveFails, Saved, Return
    <2>2. [answer EXCEPT ![a] = answer[a]] = answer
      BY DEF CallType
    <2> QED BY <1>1, <1>2, <2>1, <2>2
  <1>9. ASSUME NEW i \in Instances, Crash(i) PROVE Goal
    BY <1>2, <1>9 DEF Crash
  <1>10. ASSUME Tick PROVE Goal
    BY <1>10 DEF Tick, avars
  <1> HIDE DEF Goal, TypeOK
  <1>11. ASSUME NEW a \in Actors, Refresh(a) PROVE Goal
    BY <1>5, <1>6, <1>7, <1>11 DEF Refresh
  <1>12. Goal
    BY <1>4, <1>8, <1>9, <1>10, <1>11 DEF Next
  <1> QED BY <1>12 DEF Goal

\* At or east of UTC, a token that get_valid_*_access_token returns without a refresh, and
\* whose provider said when it expires, is good for longer than the skew, whatever is lost,
\* overwritten or interleaved.  (West of UTC the file promises more than the provider, and
\* it is not; of a token without a time of expiry nothing is promised: it is returned for
\* ever.)
THEOREM AnswersStayFresh ==
    ASSUME Shift <= 0
    PROVE  Spec => []AnswersAreFresh
  <1>1. Init => FreshInv
    <2> SUFFICES ASSUME Init PROVE FreshInv
      OBVIOUS
    <2>1. /\ file \in Data
          /\ \A id \in Ids :
                file.profiles[id].dated => file.profiles[id].expires = file.profiles[id].until
      BY ServiceAssumption, FilesAssumption DEF Init
    <2>2. AllModest(file)
      <3>1. ASSUME NEW id \in Ids PROVE Modest(file.profiles[id])
        <4>1. file.profiles[id].until \in Int
          BY <2>1, ProfileTypes DEF Data
        <4>2. file.profiles[id].dated => file.profiles[id].expires = file.profiles[id].until
          BY <2>1
        <4> QED BY <4>1, <4>2 DEF Modest
      <3> QED BY <3>1 DEF AllModest
    <2>3. AnswersAreFresh
      BY DEF Init, AnswersAreFresh, NoAnswer
    <2> QED BY <2>2, <2>3, ModestProfiles DEF Init, FreshInv
  <1>2. TypeOK /\ FreshInv /\ [Next]_vars => FreshInv'
    <2> SUFFICES ASSUME TypeOK, FreshInv, [Next]_vars PROVE FreshInv'
      OBVIOUS
    <2>1. CASE Next
      <3>1. AllModest(file')
        BY <2>1, DataStep DEF FreshInv
      <3>2. ASSUME NEW a \in Actors PROVE AllModest(copy'[a])
        BY <2>1, DataStep, ChangedModest, ModestProfiles DEF FreshInv
      <3>3. ASSUME NEW a \in Actors PROVE Modest(profile'[a])
        <4>1. \A id \in Ids : Modest(ReadBack(file.profiles[id]))
          BY ModestProfiles DEF FreshInv, AllModest, TypeOK, StoreType, Data
        <4> QED BY <2>1, <4>1, ProfileStep, ModestProfiles DEF FreshInv
      <3>4. ASSUME NEW a \in Actors, answer'[a].how = "held", answer'[a].dated
            PROVE  answer'[a].until > answer'[a].at + Skew
        <4>1. CASE answer'[a] = answer[a]
          BY <3>4, <4>1 DEF FreshInv, AnswersAreFresh
        <4>2. ASSUME NEW id \in Ids, answer'[a] = Unrefreshed(ReadBack(file.profiles[id]))
              PROVE  answer'[a].until > answer'[a].at + Skew
          <5> DEFINE p == ReadBack(file.profiles[id])
          <5>1. p \in Profile /\ Modest(p)
            BY ProfileTypes, ModestProfiles DEF FreshInv, AllModest, TypeOK, StoreType, Data
          <5>2. p.kind = "oauth" /\ ~Expiring(p) /\ answer'[a] = AnswerOf("held", p)
            BY <3>4, <4>2 DEF Unrefreshed, NoAnswer, AnswerOf
          <5>3. p.dated
            BY <3>4, <5>2 DEF AnswerOf
          <5>4. p.until > clock + Skew
            BY <5>1, <5>2, <5>3, ServiceAssumption
               DEF Expiring, Modest, Profile, TypeOK, StoreType
          <5> QED BY <5>2, <5>4 DEF AnswerOf
        <4> QED BY <2>1, <3>4, <4>1, <4>2, AnswerStep
      <3> QED BY <3>1, <3>2, <3>3, <3>4 DEF FreshInv, AnswersAreFresh, AllModest, Modest
    <2>2. CASE UNCHANGED vars
      BY <2>2 DEF vars, fvars, avars, FreshInv, AnswersAreFresh, AllModest, Modest
    <2> QED BY <2>1, <2>2
  <1>3. FreshInv => AnswersAreFresh
    BY DEF FreshInv
  <1> QED BY <1>1, <1>2, <1>3, TypeCorrect, PTL DEF Spec

-----------------------------------------------------------------------------
(* The refreshes of one process, whatever fails: the mutex, held from the first look   *)
(* to the save, has them one after another.                                            *)

Alone ==
    /\ Writers = {}
    /\ \A a, b \in Actors : InstanceOf[a] = InstanceOf[b]

\* What a refresh knows of the file until its save: the profile is there, and the copy
\* differs from the file in it alone.
Knows(a) ==
    /\ mutex[InstanceOf[a]] = a
    /\ pc[a] # "activate"
    /\ target[a] \in Ids /\ Has(file, target[a])
    /\ pc[a] = "write" =>
          \A id \in Ids : copy[a].profiles[id] =
              IF id = target[a] THEN profile[a] ELSE ReadBack(file.profiles[id])

SerialInv == \A a \in Actors : pc[a] # "idle" => readable /\ Knows(a)

LEMMA SelectedLive ==
    ASSUME NEW d, NEW provider, NEW override, NEW id \in Selected(d, provider, override)
    PROVE  Has(d, id)
  BY DEF Selected

\* A refresh that is in progress, or begins, is the only one.
LEMMA OnlyOne ==
    ASSUME Alone, TypeOK, SerialInv, NEW a \in Actors, NEW b \in Actors \ {a},
           pc[a] # "idle" \/ LockFree(a)
    PROVE  pc[b] = "idle"
  <1>1. InstanceOf[a] = InstanceOf[b]
    BY DEF Alone
  <1> QED BY <1>1, ServiceAssumption DEF SerialInv, Knows, LockFree

LEMMA SerialStep ==
    ASSUME Alone, TypeOK, SerialInv, [Next]_vars
    PROVE  SerialInv'
  <1> USE DEF TypeOK
  <1>1. ASSUME NEW a \in Actors, pc[a] # "idle" \/ LockFree(a),
               \A b \in Actors \ {a} : pc'[b] = pc[b],
               pc'[a] # "idle" => readable' /\ Knows(a)'
        PROVE  SerialInv'
    <2>1. \A b \in Actors \ {a} : pc'[b] = "idle"
      BY <1>1, OnlyOne
    <2> QED BY <1>1, <2>1 DEF SerialInv
  <1>2. ASSUME NEW a \in Actors, NEW ans, Return(a, ans)
        PROVE  pc'[a] = "idle" /\ \A b \in Actors \ {a} : pc'[b] = pc[b]
    BY <1>2 DEF Return, Leave, CallType
  <1>3. ASSUME NEW a \in Actors, Store(a) PROVE FALSE
    <2>1. Writers = {} /\ pc[a] # "activate"
      BY DEF Alone, SerialInv, Knows
    <2> QED BY <1>3, <2>1 DEF Store, StoreTokens, StoreToken, RemoveProfile, ClearActive,
                CheckActive, SetActive, Begin
  <1>4. ASSUME NEW a \in Actors, NEW provider \in Providers, NEW override \in Ids \cup {NoId},
               FirstLook(a, provider, override)
        PROVE  SerialInv'
    <2>1. LockFree(a) /\ UNCHANGED fvars
      BY <1>4 DEF FirstLook
    <2>2. CASE UNCHANGED <<pc, target, profile, mutex>>
      <3>1. UNCHANGED copy
        BY <1>4 DEF FirstLook
      <3> QED BY <2>1, <2>2, <3>1 DEF SerialInv, Knows, fvars, Has
    <2>3. ASSUME NEW d \in Finds, NEW id \in Selected(d, provider, override),
                 pc' = [pc EXCEPT ![a] = "reload"], target' = [target EXCEPT ![a] = id],
                 mutex' = [mutex EXCEPT ![InstanceOf[a]] = a]
          PROVE  SerialInv'
      <3>0. d \in Data /\ id \in Ids /\ Has(d, id)
        <4>1. d \in Data
          BY FindsTypes
        <4>2. Selected(d, provider, override) \subseteq Ids
          BY <4>1, SelectedType
        <4> QED BY <4>1, <4>2, SelectedLive
      <3>1. id \in Ids /\ Has(file, id) /\ readable
        BY <3>0, FoundThere
      <3>2. Knows(a)'
        BY <2>1, <2>3, <3>1, ServiceAssumption DEF Knows, CallType, StoreType, fvars, Has
      <3>3. readable' /\ \A b \in Actors \ {a} : pc'[b] = pc[b]
        BY <2>1, <2>3, <3>1 DEF fvars, CallType
      <3> QED BY <1>1, <2>1, <3>2, <3>3
    <2>4. \/ UNCHANGED <<pc, target, profile, mutex>>
          \/ \E d \in Finds : \E id \in Selected(d, provider, override) :
                /\ pc' = [pc EXCEPT ![a] = "reload"] /\ target' = [target EXCEPT ![a] = id]
                /\ mutex' = [mutex EXCEPT ![InstanceOf[a]] = a]
      BY <1>4 DEF FirstLook
    <2> QED BY <2>2, <2>3, <2>4
  <1>5. ASSUME NEW a \in Actors, pc[a] # "idle", UNCHANGED <<fvars, target, mutex>>,
               NEW v \in {"request", "update", "write"}, pc' = [pc EXCEPT ![a] = v],
               v = "write" => (Knows(a) => Knows(a)')
        PROVE  SerialInv'
    <2>1. Knows(a) /\ readable
      BY <1>5 DEF SerialInv
    <2>2. pc'[a] = v /\ \A b \in Actors \ {a} : pc'[b] = pc[b]
      BY <1>5 DEF CallType
    <2>3. Knows(a)'
      BY <1>5, <2>1, <2>2 DEF Knows, fvars, Has
    <2> QED BY <1>1, <1>5, <2>1, <2>2, <2>3 DEF fvars
  <1>6. ASSUME NEW a \in Actors, pc[a] # "idle", NEW ans, Return(a, ans)
        PROVE  SerialInv'
    BY <1>1, <1>2, <1>6
  <1>7. ASSUME NEW a \in Actors, Reload(a) PROVE SerialInv'
    <2>1. pc[a] # "idle" /\ UNCHANGED fvars
      BY <1>7 DEF Reload
    <2>2. \/ \E ans : Return(a, ans)
          \/ pc' = [pc EXCEPT ![a] = "request"] /\ UNCHANGED <<target, mutex>>
      BY <1>7 DEF Reload
    <2> QED BY <1>5, <1>6, <2>1, <2>2
  <1>8. ASSUME NEW a \in Actors, RefreshSucceeds(a) PROVE SerialInv'
    BY <1>5, <1>8 DEF RefreshSucceeds
  <1>9. ASSUME NEW a \in Actors, RefreshFails(a) PROVE SerialInv'
    <2>1. pc[a] # "idle" /\ Return(a, NoAnswer)
      BY <1>9 DEF RefreshFails
    <2> QED BY <1>6, <2>1
  <1>10. ASSUME NEW a \in Actors, Update(a) PROVE SerialInv'
    <2>1. pc[a] = "update" /\ Knows(a) /\ readable /\ UNCHANGED fvars
      BY <1>10 DEF Update, SerialInv
    <2>2. \/ Return(a, NoAnswer)
          \/ /\ WillSave(a, target[a], WithProfile(Loaded(file), target[a], profile[a]))
             /\ UNCHANGED <<profile, mutex>>
      BY <1>10, <2>1, FoundThere DEF Update, Knows
    <2>3. CASE Return(a, NoAnswer)
      BY <1>6, <2>1, <2>3
    <2>4. ASSUME WillSave(a, target[a], WithProfile(Loaded(file), target[a], profile[a])),
                 UNCHANGED <<profile, mutex>>
          PROVE  SerialInv'
      <3>1. /\ pc' = [pc EXCEPT ![a] = "write"] /\ target' = target
            /\ copy'[a] = WithProfile(Loaded(file), target[a], profile[a])
        BY <2>4 DEF WillSave, CallType
      <3>2. \A id \in Ids : copy'[a].profiles[id] =
                IF id = target[a] THEN profile[a] ELSE ReadBack(file.profiles[id])
        BY <2>1, <3>1 DEF WithProfile, Loaded, Knows
      <3>3. Knows(a)'
        BY <2>1, <2>4, <3>1, <3>2 DEF Knows, fvars, Has, CallType
      <3> QED BY <1>5, <2>1, <2>4, <3>1, <3>3
    <2> QED BY <2>2, <2>3, <2>4
  <1>11. ASSUME NEW a \in Actors, Save(a) \/ SaveTruncated(a) \/ SaveFails(a)
         PROVE  SerialInv'
    <2>1. pc[a] # "idle" /\ \E ans : Return(a, ans)
      BY <1>11 DEF Save, SaveTruncated, SaveFails, Saved
    <2> QED BY <1>6, <2>1
  <1>12. ASSUME NEW i \in Instances, Crash(i) PROVE SerialInv'
    <2> SUFFICES ASSUME NEW a \in Actors, pc'[a] # "idle"
                 PROVE  readable' /\ Knows(a)'
      BY DEF SerialInv
    <2>1. /\ InstanceOf[a] # i /\ pc'[a] = pc[a] /\ UNCHANGED fvars
          /\ target'[a] = target[a] /\ profile'[a] = profile[a] /\ copy'[a] = copy[a]
      BY <1>12 DEF Crash
    <2>2. mutex'[InstanceOf[a]] = mutex[InstanceOf[a]]
      BY <1>12, <2>1, ServiceAssumption DEF Crash, StoreType
    <2>3. readable /\ Knows(a)
      BY <2>1 DEF SerialInv
    <2> QED BY <2>1, <2>2, <2>3 DEF Knows, fvars, Has
  <1>14. CASE Tick \/ UNCHANGED vars
    <2>1. UNCHANGED <<readable, file, pc, target, profile, copy, mutex>>
      BY <1>14 DEF Tick, vars, fvars, avars
    <2>2. \A a \in Actors : Knows(a) => Knows(a)'
      BY <2>1 DEF Knows, Has
    <2> HIDE DEF TypeOK
    <2> QED BY <2>1, <2>2 DEF SerialInv
  <1>15. ASSUME NEW a \in Actors, Refresh(a) PROVE SerialInv'
    BY <1>4, <1>7, <1>8, <1>9, <1>10, <1>15 DEF Refresh
  <1> QED BY <1>3, <1>11, <1>12, <1>14, <1>15 DEF Next

LEMMA StaysSerial ==
    ASSUME Alone
    PROVE  Spec => []SerialInv
  <1>1. Init => SerialInv
    BY DEF Init, SerialInv
  <1>2. TypeOK /\ SerialInv /\ [Next]_vars => SerialInv'
    BY SerialStep
  <1> QED BY <1>1, <1>2, TypeCorrect, PTL DEF Spec

\* The threads of one process that refresh their profiles while nobody else writes change
\* no profile but their own, whatever fails, at UTC: elsewhere each save moves the times
\* of all of them.
THEOREM WritesStayApart ==
    ASSUME Alone, Shift = 0
    PROVE  Spec => WritesOnlyItsOwn
  <1> DEFINE Own == \A id \in Ids : file.profiles[id] # file'.profiles[id] =>
                       \E a \in Actors : pc[a] = "write" /\ pc'[a] = "idle" /\ target[a] = id
  <1>1. TypeOK /\ SerialInv /\ [Next]_vars => [Own]_vars
    <2> SUFFICES ASSUME TypeOK, SerialInv, Next, NEW id \in Ids,
                        file.profiles[id] # file'.profiles[id]
                 PROVE  \E a \in Actors : pc[a] = "write" /\ pc'[a] = "idle" /\ target[a] = id
      OBVIOUS
    <2>1. \E a \in Actors : Save(a)
      BY DEF Next, Store, StoreTokens, StoreToken, RemoveProfile, ClearActive, CheckActive,
             SetActive, Refresh, FirstLook, Reload, RefreshSucceeds, RefreshFails, Update,
             SaveTruncated, SaveFails, Crash, Tick, fvars
    <2>2. PICK a \in Actors : Save(a)
      BY <2>1
    <2>3. pc[a] = "write" /\ file' = copy[a] /\ Knows(a)
      BY <2>2 DEF Save, SerialInv
    <2>4. pc'[a] = "idle"
      BY <2>2 DEF Save, Saved, Return, Leave, TypeOK, CallType
    <2>5. ReadBack(file.profiles[id]) = file.profiles[id]
      BY DEF ReadBack, TypeOK, StoreType, Data, Profile
    <2>6. target[a] = id
      BY <2>3, <2>5 DEF Knows
    <2> QED BY <2>3, <2>4, <2>6
  <1> QED BY <1>1, StaysSerial, TypeCorrect, PTL DEF Spec, WritesOnlyItsOwn

\* No two profiles of a file have the same refresh token.
TokensDiffer(d) ==
    \A x, y \in Ids :
        d.profiles[x].refresh # 0 /\ d.profiles[x].refresh = d.profiles[y].refresh => x = y

\* A refresh has the token of the file until the provider answers, and then one that is
\* good and that no other profile has; the one it has sent stays the file's.
Carries(a) ==
    /\ pc[a] \in {"reload", "request"} =>
          profile[a].refresh # 0 /\ profile[a].refresh = file.profiles[target[a]].refresh
    /\ pc[a] \in {"request", "update", "write"} =>
          presented[a] = file.profiles[target[a]].refresh
    /\ pc[a] \in {"update", "write"} =>
          /\ profile[a].refresh \in 1..issued
          /\ profile[a].refresh \notin spent
          /\ \A id \in Ids \ {target[a]} : file.profiles[id].refresh # profile[a].refresh

TokenInv ==
    /\ TokensDiffer(file)
    /\ spent \subseteq 1..issued
    /\ \A id \in Ids : file.profiles[id].refresh <= issued
    /\ \A a \in Actors : Carries(a)
    /\ RotationNotLost

LEMMA ReadBackToken ==
    ASSUME NEW p \in Profile
    PROVE  ReadBack(p).refresh = p.refresh
  BY DEF ReadBack, Profile

\* Between two refreshes, and before the provider has answered, the spent tokens in the
\* file are stranded.
LEMMA NoneSpent ==
    ASSUME Alone, TypeOK, SerialInv, TokenInv, NEW a \in Actors,
           pc[a] # "idle" \/ LockFree(a), pc[a] \notin {"update", "write"}, readable
    PROVE  \A id \in Ids : file.profiles[id].refresh \notin spent \ stranded
  <1>1. \A b \in Actors : pc[b] \notin {"update", "write"}
    BY OnlyOne
  <1> QED BY <1>1 DEF TokenInv, RotationNotLost

LEMMA TokenStep ==
    ASSUME Alone, TypeOK, SerialInv, TokenInv, HNext
    PROVE  TokenInv'
  <1>0. /\ \A id \in Ids : file.profiles[id] \in Profile
        /\ \A a \in Actors : profile[a] \in Profile /\ profile[a].refresh \in Nat
        /\ issued \in Nat /\ stranded \subseteq stranded'
        /\ \A a \in Actors : pc[a] # "idle" => readable
    BY ProfileTypes DEF TypeOK, StoreType, CallType, Data, SerialInv, HNext, Remember
  <1>1. ASSUME NEW a \in Actors, pc[a] # "idle" \/ LockFree(a),
               pc[a] \notin {"update", "write"}, UNCHANGED <<fvars, pvars>>,
               \A b \in Actors \ {a} : pc'[b] = pc[b], Carries(a)'
        PROVE  TokenInv'
    <2>1. \A b \in Actors \ {a} : pc'[b] = "idle"
      BY <1>1, OnlyOne
    <2>2. \A b \in Actors : Carries(b)'
      BY <1>1, <2>1 DEF Carries
    <2>3. readable => \A id \in Ids : file.profiles[id].refresh \notin spent \ stranded
      BY <1>1, NoneSpent
    <2> QED BY <1>0, <1>1, <2>2, <2>3 DEF TokenInv, TokensDiffer, RotationNotLost, fvars, pvars
  <1>2. ASSUME NEW a \in Actors, NEW ans, Return(a, ans)
        PROVE  pc'[a] = "idle" /\ \A b \in Actors \ {a} : pc'[b] = pc[b]
    BY <1>2 DEF Return, Leave, TypeOK, CallType
  <1>3. ASSUME NEW a \in Actors, pc[a] \in {"reload", "request"}, NEW ans, Return(a, ans),
               UNCHANGED <<fvars, pvars>>
        PROVE  TokenInv'
    <2>1. Carries(a)'
      BY <1>2, <1>3 DEF Carries
    <2> QED BY <1>1, <1>2, <1>3, <2>1
  <1>4. ASSUME NEW a \in Actors, Store(a) PROVE FALSE
    <2>1. Writers = {} /\ pc[a] # "activate"
      BY DEF Alone, SerialInv, Knows
    <2> QED BY <1>4, <2>1 DEF Store, StoreTokens, StoreToken, RemoveProfile, ClearActive,
                CheckActive, SetActive, Begin
  <1>5. ASSUME NEW a \in Actors, NEW provider \in Providers, NEW override \in Ids \cup {NoId},
               FirstLook(a, provider, override)
        PROVE  TokenInv'
    <2>1. pc[a] = "idle" /\ LockFree(a) /\ UNCHANGED <<fvars, pvars, presented>>
      BY <1>5 DEF FirstLook, Begin
    <2>2. \/ UNCHANGED <<pc, target, profile>>
          \/ \E d \in Finds : \E id \in Selected(d, provider, override) :
                /\ d.profiles[id].refresh # 0
                /\ pc' = [pc EXCEPT ![a] = "reload"]
                /\ target' = [target EXCEPT ![a] = id]
                /\ profile' = [profile EXCEPT ![a] = d.profiles[id]]
      BY <1>5 DEF FirstLook
    <2>3. CASE UNCHANGED <<pc, target, profile>>
      <3>1. Carries(a)'
        BY <2>1, <2>3 DEF Carries
      <3> QED BY <1>1, <2>1, <2>3, <3>1
    <2>4. ASSUME NEW d \in Finds, NEW id \in Selected(d, provider, override),
                 d.profiles[id].refresh # 0,
                 pc' = [pc EXCEPT ![a] = "reload"], target' = [target EXCEPT ![a] = id],
                 profile' = [profile EXCEPT ![a] = d.profiles[id]]
          PROVE  TokenInv'
      <3>0. id \in Ids /\ Has(d, id)
        BY <2>4, FindsTypes, SelectedType, SelectedLive DEF TypeOK
      <3>1. id \in Ids /\ d.profiles[id] = ReadBack(file.profiles[id])
        BY <3>0, FoundThere, LoadedHas DEF TypeOK, StoreType
      <3>2. /\ pc'[a] = "reload" /\ target'[a] = id
            /\ profile'[a].refresh = file.profiles[id].refresh
            /\ \A b \in Actors \ {a} : pc'[b] = pc[b]
        BY <1>0, <2>4, <3>1, ReadBackToken DEF TypeOK, CallType
      <3>3. Carries(a)'
        BY <1>0, <2>1, <2>4, <3>1, <3>2, ReadBackToken DEF Carries, fvars
      <3> QED BY <1>1, <2>1, <3>2, <3>3
    <2> QED BY <2>2, <2>3, <2>4
  <1>6. ASSUME NEW a \in Actors, Reload(a) PROVE TokenInv'
    <2>1. pc[a] = "reload" /\ target[a] \in Ids /\ UNCHANGED <<fvars, pvars>>
      BY <1>6 DEF Reload, SerialInv, Knows
    <2> DEFINE p == ReadBack(file.profiles[target[a]])
    <2>2. \/ \E ans : Return(a, ans)
          \/ /\ pc' = [pc EXCEPT ![a] = "request"] /\ target' = target
             /\ profile' = [profile EXCEPT ![a] = p]
             /\ presented' = [presented EXCEPT ![a] =
                   IF p.refresh # 0 THEN p.refresh ELSE profile[a].refresh]
      <3>1. PICK d \in Finds :
               LET q == d.profiles[target[a]]
               IN  \/ \E ans : Return(a, ans)
                   \/ /\ Expiring(q)
                      /\ pc' = [pc EXCEPT ![a] = "request"] /\ target' = target
                      /\ profile' = [profile EXCEPT ![a] = q]
                      /\ presented' = [presented EXCEPT ![a] =
                            IF q.refresh # 0 THEN q.refresh ELSE profile[a].refresh]
        BY <1>6 DEF Reload
      <3>2. d.profiles[target[a]] \in {p, NoProfile} /\ ~Expiring(NoProfile)
        BY <2>1, FoundProfile DEF Expiring, NoProfile, Bare
      <3> HIDE DEF p
      <3> QED BY <3>1, <3>2
    <2>3. CASE \E ans : Return(a, ans)
      BY <1>3, <2>1, <2>3
    <2>4. ASSUME pc' = [pc EXCEPT ![a] = "request"], target' = target,
                 profile' = [profile EXCEPT ![a] = p],
                 presented' = [presented EXCEPT ![a] =
                     IF p.refresh # 0 THEN p.refresh ELSE profile[a].refresh]
          PROVE  TokenInv'
      <3>1. p.refresh = file.profiles[target[a]].refresh /\ p.refresh # 0
        BY <1>0, <2>1, ReadBackToken DEF TokenInv, Carries
      <3>2. /\ pc'[a] = "request" /\ profile'[a] = p /\ presented'[a] = p.refresh
            /\ \A b \in Actors \ {a} : pc'[b] = pc[b]
        BY <2>4, <3>1 DEF TypeOK, CallType
      <3>3. Carries(a)'
        BY <2>1, <2>4, <3>1, <3>2 DEF Carries, fvars
      <3> QED BY <1>1, <2>1, <3>2, <3>3
    <2> QED BY <2>2, <2>3, <2>4
  <1>7. ASSUME NEW a \in Actors, RefreshSucceeds(a) PROVE TokenInv'
    <2>1. pc[a] = "request" /\ target[a] \in Ids /\ UNCHANGED <<fvars, target>>
      BY <1>7 DEF RefreshSucceeds, SerialInv, Knows
    <2>2. /\ presented[a] = file.profiles[target[a]].refresh
          /\ profile[a].refresh = file.profiles[target[a]].refresh
          /\ profile[a].refresh # 0
          /\ presented[a] \notin spent
      BY <1>7, <2>1 DEF TokenInv, Carries, RefreshSucceeds
    <2>3. \A id \in Ids : file.profiles[id].refresh \notin spent \ stranded
      BY <1>0, <2>1, NoneSpent
    <2>4. PICK sent \in {0, issued + 1}, dated \in BOOLEAN :
             /\ issued' = IF sent = 0 THEN issued ELSE sent
             /\ spent' = IF sent = 0 THEN spent ELSE spent \cup ({presented[a]} \ {0})
             /\ profile' = [profile EXCEPT ![a] = OAuth(KeptToken(a, sent), clock + Life, dated)]
      BY <1>7 DEF RefreshSucceeds
    <2>5. /\ pc'[a] = "update" /\ \A b \in Actors \ {a} : pc'[b] = "idle"
          /\ profile'[a].refresh = KeptToken(a, sent)
      <3>1. /\ pc'[a] = "update" /\ \A b \in Actors \ {a} : pc'[b] = pc[b]
        BY <1>7 DEF RefreshSucceeds, TypeOK, CallType
      <3>2. profile'[a].refresh = KeptToken(a, sent)
        BY <2>4 DEF TypeOK, CallType, OAuth
      <3> QED BY <2>1, <3>1, <3>2, OnlyOne
    <2>6. \A id \in Ids : /\ file.profiles[id].refresh \in Nat
                          /\ file.profiles[id].refresh <= issued
                          /\ file.profiles[id].refresh = presented[a] => id = target[a]
      <3>1. \A id \in Ids : file.profiles[id].refresh \in Nat
        BY <1>0, ProfileTypes
      <3>2. \A id \in Ids : file.profiles[id].refresh <= issued
        BY DEF TokenInv
      <3>3. \A id \in Ids : file.profiles[id].refresh = presented[a] => id = target[a]
        BY <2>1, <2>2 DEF TokenInv, TokensDiffer
      <3> QED BY <3>1, <3>2, <3>3
    <2>7. issued' \in Nat /\ issued <= issued' /\ spent' \subseteq 1..issued'
      <3>1. presented[a] \in 1..issued
        BY <1>0, <2>1, <2>2, <2>6
      <3>2. spent' \subseteq 1..issued
        BY <2>4, <3>1 DEF TokenInv
      <3>3. issued' \in Nat /\ issued <= issued'
        BY <1>0, <2>4
      <3>4. \A t \in 1..issued : t \in 1..issued'
        BY <1>0, <3>3
      <3> QED BY <3>2, <3>3, <3>4
    <2>8. Carries(a)'
      <3>1. /\ profile'[a].refresh \in 1..issued' /\ profile'[a].refresh \notin spent'
            /\ \A id \in Ids \ {target[a]} : file.profiles[id].refresh # profile'[a].refresh
        <4>1. CASE sent = 0
          BY <1>0, <2>1, <2>2, <2>4, <2>5, <2>6, <4>1 DEF KeptToken
        <4>2. CASE sent = issued + 1
          BY <1>0, <2>1, <2>2, <2>4, <2>5, <2>6, <4>2 DEF KeptToken, TokenInv
        <4> QED BY <4>1, <4>2
      <3>2. presented'[a] = presented[a]
        BY <1>7 DEF RefreshSucceeds
      <3> QED BY <2>1, <2>2, <2>5, <3>1, <3>2 DEF Carries, fvars
    <2>9. \A b \in Actors : Carries(b)'
      BY <2>5, <2>8 DEF Carries
    <2>10. RotationNotLost'
      <3>1. ASSUME NEW id \in Ids, file.profiles[id].refresh \in spent' \ stranded'
            PROVE  id = target[a]
        BY <1>0, <2>3, <2>4, <2>6, <3>1
      <3> QED BY <2>1, <2>5, <3>1 DEF RotationNotLost, fvars
    <2>11. \A id \in Ids : file.profiles[id].refresh <= issued'
      BY <1>0, <2>6, <2>7
    <2> QED BY <2>1, <2>7, <2>9, <2>10, <2>11 DEF TokenInv, TokensDiffer, fvars
  <1>8. ASSUME NEW a \in Actors, RefreshFails(a) PROVE TokenInv'
    <2>1. pc[a] = "request" /\ Return(a, NoAnswer) /\ UNCHANGED <<fvars, issued>>
      BY <1>8 DEF RefreshFails
    <2>2. spent' \subseteq spent \cup ({presented[a]} \ {0})
      BY <1>8 DEF RefreshFails
    <2>3. presented[a] \in {0} \cup 1..issued
      <3>1. /\ target[a] \in Ids /\ presented[a] = profile[a].refresh
            /\ profile[a].refresh = file.profiles[target[a]].refresh
        BY <2>1 DEF SerialInv, Knows, TokenInv, Carries
      <3>2. file.profiles[target[a]].refresh <= issued
        BY <3>1 DEF TokenInv
      <3> QED BY <1>0, <3>1, <3>2
    <2>4. spent' \subseteq 1..issued
      BY <2>2, <2>3 DEF TokenInv
    <2>5. \A b \in Actors : pc'[b] = "idle"
      BY <1>2, <2>1, OnlyOne
    <2>6. \A t \in spent' \ spent : t \in stranded'
      BY <1>8 DEF Remember, HNext
    <2>7. \A id \in Ids : file.profiles[id].refresh \notin spent \ stranded
      BY <1>0, <2>1, NoneSpent
    <2>8. RotationNotLost'
      BY <1>0, <2>1, <2>6, <2>7 DEF RotationNotLost, fvars
    <2> QED BY <2>1, <2>4, <2>5, <2>8 DEF TokenInv, Carries, TokensDiffer, fvars
  <1>15. ASSUME NEW a \in Actors, pc[a] \in {"update", "write"}, Interrupted(a),
                NEW ans, Return(a, ans), UNCHANGED <<file, pvars>>, readable' => readable
         PROVE  TokenInv'
    <2>1. \A b \in Actors : pc'[b] = "idle"
      BY <1>2, <1>15, OnlyOne
    <2>2. presented[a] \in spent' => presented[a] \in stranded'
      BY <1>15 DEF Remember, HNext
    <2>3. ASSUME readable', NEW id \in Ids, file.profiles[id].refresh \in spent \ stranded
          PROVE  file.profiles[id].refresh = presented[a]
      <3>1. PICK b \in Actors : pc[b] \in {"update", "write"} /\ target[b] = id
        BY <1>0, <1>15, <2>3 DEF TokenInv, RotationNotLost
      <3>2. b = a
        BY <1>15, <3>1, OnlyOne
      <3> QED BY <3>1, <3>2 DEF TokenInv, Carries
    <2>4. RotationNotLost'
      BY <1>0, <1>15, <2>2, <2>3 DEF RotationNotLost, pvars
    <2> QED BY <1>15, <2>1, <2>4 DEF TokenInv, Carries, TokensDiffer, pvars
  <1>9. ASSUME NEW a \in Actors, Update(a) PROVE TokenInv'
    <2>1. pc[a] = "update" /\ Knows(a) /\ UNCHANGED <<fvars, pvars>>
      BY <1>9 DEF Update, SerialInv
    <2>2. \/ Return(a, NoAnswer)
          \/ \E d : WillSave(a, target[a], d) /\ UNCHANGED <<profile, presented>>
      BY <1>9 DEF Update
    <2>3. CASE Return(a, NoAnswer)
      <3>1. Interrupted(a)
        BY <1>2, <1>9, <2>3 DEF Interrupted
      <3> QED BY <1>15, <2>1, <2>3, <3>1 DEF fvars
    <2>4. ASSUME NEW d, WillSave(a, target[a], d), UNCHANGED <<profile, presented>>
          PROVE  TokenInv'
      <3>1. /\ target' = target /\ pc'[a] = "write"
            /\ \A b \in Actors \ {a} : pc'[b] = pc[b]
        BY <2>4 DEF WillSave, TypeOK, CallType
      <3>2. \A b \in Actors \ {a} : pc'[b] = "idle"
        BY <2>1, <3>1, OnlyOne
      <3>3. \A b \in Actors : Carries(b)'
        BY <2>1, <2>4, <3>1, <3>2 DEF TokenInv, Carries, fvars, pvars
      <3>4. \A b \in Actors : pc[b] \in {"update", "write"} => pc'[b] \in {"update", "write"}
        BY <3>1
      <3> QED BY <1>0, <2>1, <3>1, <3>3, <3>4
              DEF TokenInv, TokensDiffer, RotationNotLost, fvars, pvars
    <2> QED BY <2>2, <2>3, <2>4
  <1>10. ASSUME NEW a \in Actors, Save(a) PROVE TokenInv'
    <2>1. /\ pc[a] = "write" /\ Knows(a) /\ file' = copy[a] /\ UNCHANGED pvars
          /\ \E ans : Return(a, ans)
      BY <1>10 DEF Save, Saved, SerialInv
    <2>2. \A b \in Actors : pc'[b] = "idle"
      BY <1>2, <2>1, OnlyOne
    <2>3. \A id \in Ids : file'.profiles[id].refresh =
             IF id = target[a] THEN profile[a].refresh ELSE file.profiles[id].refresh
      BY <1>0, <2>1, ReadBackToken DEF Knows
    <2>4. /\ profile[a].refresh \in 1..issued /\ profile[a].refresh \notin spent
          /\ \A id \in Ids \ {target[a]} : file.profiles[id].refresh # profile[a].refresh
      BY <2>1 DEF TokenInv, Carries
    <2>5. \A id \in Ids \ {target[a]} : file.profiles[id].refresh \notin spent \ stranded
      BY <1>0, <2>1, OnlyOne DEF TokenInv, RotationNotLost
    <2>6. RotationNotLost'
      BY <1>0, <2>1, <2>3, <2>4, <2>5 DEF RotationNotLost, pvars
    <2>7. TokensDiffer(file')
      BY <2>3, <2>4 DEF TokenInv, TokensDiffer
    <2>8. \A id \in Ids : file'.profiles[id].refresh <= issued
      BY <1>0, <2>3, <2>4 DEF TokenInv
    <2> QED BY <2>1, <2>2, <2>6, <2>7, <2>8 DEF TokenInv, Carries, TokensDiffer, pvars
  <1>11. ASSUME NEW a \in Actors, SaveTruncated(a) \/ SaveFails(a) PROVE TokenInv'
    <2>1. /\ pc[a] = "write" /\ UNCHANGED <<file, pvars>> /\ \E ans : Return(a, ans)
          /\ readable' => readable
      BY <1>11 DEF SaveTruncated, SaveFails, Saved, fvars
    <2>2. Interrupted(a)
      BY <1>11, <2>1 DEF Interrupted
    <2> QED BY <1>15, <2>1, <2>2
  <1>12. ASSUME NEW i \in Instances, Crash(i) PROVE TokenInv'
    <2>1. UNCHANGED <<fvars, pvars>>
      BY <1>12 DEF Crash
    <2>2. \A b \in Actors : IF InstanceOf[b] = i THEN pc'[b] = "idle"
             ELSE /\ pc'[b] = pc[b] /\ target'[b] = target[b]
                  /\ profile'[b] = profile[b] /\ presented'[b] = presented[b]
      BY <1>12 DEF Crash
    <2>3. \A b \in Actors : Carries(b)'
      BY <2>1, <2>2 DEF TokenInv, Carries, fvars, pvars
    <2>4. ASSUME readable, NEW id \in Ids, file.profiles[id].refresh \in spent \ stranded'
          PROVE  \E b \in Actors : pc'[b] \in {"update", "write"} /\ target'[b] = id
      <3>1. PICK b \in Actors : pc[b] \in {"update", "write"} /\ target[b] = id
        BY <1>0, <2>4 DEF TokenInv, RotationNotLost
      <3>2. presented[b] = file.profiles[id].refresh
        BY <3>1 DEF TokenInv, Carries
      <3>3. ASSUME InstanceOf[b] = i PROVE FALSE
        <4>1. Interrupted(b)
          BY <1>12, <3>1, <3>3 DEF Interrupted
        <4> QED BY <1>12, <2>1, <2>4, <3>2, <4>1 DEF Remember, HNext, pvars
      <3> QED BY <2>2, <3>1, <3>3
    <2>5. RotationNotLost'
      BY <2>1, <2>4 DEF RotationNotLost, fvars, pvars
    <2> QED BY <2>1, <2>3, <2>5 DEF TokenInv, TokensDiffer, fvars, pvars
  <1>13. CASE Tick
    <2>1. UNCHANGED <<readable, file, pc, target, profile, presented, issued, spent>>
      BY <1>13 DEF Tick, fvars, avars, pvars
    <2>2. \A a \in Actors : Carries(a) => Carries(a)'
      BY <2>1 DEF Carries
    <2> QED BY <1>0, <2>1, <2>2 DEF TokenInv, TokensDiffer, RotationNotLost
  <1>14. ASSUME NEW a \in Actors, Refresh(a) PROVE TokenInv'
    BY <1>5, <1>6, <1>7, <1>8, <1>9, <1>14 DEF Refresh
  <1> QED BY <1>4, <1>10, <1>11, <1>12, <1>13, <1>14 DEF Next, HNext

\* The refreshes of one process, with nobody else writing, lose no rotated token but by a
\* failure between the provider's answer and the save, provided no two profiles were
\* given the same one: a spent token in the file has its successor on the way or is one
\* whose own refresh failed.
THEOREM RotationsAreKept ==
    ASSUME Alone, \A f \in Files : TokensDiffer(f)
    PROVE  HSpec => []RotationNotLost
  <1>1. HInit => TokenInv
    <2> SUFFICES ASSUME HInit PROVE TokenInv
      OBVIOUS
    <2>1. /\ TokensDiffer(file)
          /\ \A id \in Ids : file.profiles[id].refresh <= issued
      BY FilesAssumption DEF HInit, Init
    <2>2. spent = {} /\ \A a \in Actors : pc[a] = "idle"
      BY DEF HInit, Init
    <2> QED BY <2>1, <2>2 DEF TokenInv, Carries, RotationNotLost
  <1>2. TypeOK /\ SerialInv /\ TokenInv /\ [HNext]_<<vars, stranded>> => TokenInv'
    <2>1. CASE UNCHANGED <<vars, stranded>>
      BY <2>1 DEF vars, fvars, avars, pvars, TokenInv, TokensDiffer, Carries, RotationNotLost
    <2> QED BY <2>1, TokenStep
  <1>3. TokenInv => RotationNotLost
    BY DEF TokenInv
  <1>4. HSpec => Spec
    <2>1. HInit => Init
      BY DEF HInit
    <2>2. [HNext]_<<vars, stranded>> => [Next]_vars
      BY DEF HNext
    <2> QED BY <2>1, <2>2, PTL DEF HSpec, Spec
  <1> QED BY <1>1, <1>2, <1>3, <1>4, StaysSerial, TypeCorrect, PTL DEF HSpec
=============================================================================
