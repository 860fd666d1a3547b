---------------------------- MODULE AuthService -----------------------------
(***************************************************************************)
(* AuthService (src/src/auth/auth.cpp) over the file of auth profiles.     *)
(* Actors are threads; InstanceOf says whose AuthService, in which         *)
(* process, a thread calls.  An instance has the mutex that its refreshes  *)
(* hold and the backoffs of its failed ones.                               *)
(*                                                                         *)
(* Every operation of the store is a load and, later, a save.  Its lock    *)
(* file keeps nobody out: acquire_lock opens it for truncation, which      *)
(* succeeds whether the file is there or not, so neither its 50 ms waits   *)
(* nor its exception is ever reached, and it has no state here.            *)
(* A save replaces the file at once (rename), but what it wrote is not     *)
(* checked: with a full disk it replaces the file by a truncated one.  A   *)
(* load takes a file that cannot be opened for none.                       *)
(*                                                                         *)
(* A provider (external) may keep a refresh token valid or rotate it:      *)
(* then the old one is spent.                                              *)
(***************************************************************************)
EXTENDS AuthProfiles

CONSTANTS
    Actors, Instances, InstanceOf, NoActor,
    Writers,        \* the actors that store, remove and activate profiles
    Refreshers,     \* the actors that ask for a valid access token
    Files,          \* the files to start from
    OldTokens,      \* the refresh tokens in them are 1..OldTokens
    Life,           \* how long an access token is good for
    Skew,           \* OPENAI_REFRESH_SKEW_SECS
    Backoff,        \* OPENAI_REFRESH_FAILURE_BACKOFF_SECS
    MayFail,        \* whether saves, and the opening of the file, may fail
    MayLose,        \* whether a provider may spend a token and its answer be lost
    MayCrash,       \* whether a process may be killed
    MaxOps,         \* bound: operations begun
    MaxTime         \* bound: the clock

VARIABLES
    clock,
    file, readable, \* the file's content, and whether it can be parsed
    pc,             \* per actor: where its operation is
    target,         \* per actor: the profile it concerns
    profile,        \* per actor: the profile a refresh last read or was given
    presented,      \* per actor: the refresh token it sends
    copy,           \* per actor: the data it will save
    answer,         \* per actor: what get_valid_*_access_token returned last, and when
    mutex,          \* per instance: who holds profile_mutex
    backoff,        \* per instance and profile: until when no refresh is tried
    issued, spent,  \* the providers: refresh tokens given out, and no longer valid
    started         \* operations begun

fvars == <<file, readable>>
avars == <<pc, target, profile, presented, copy, answer>>
pvars == <<issued, spent>>
vars  == <<clock, fvars, avars, mutex, backoff, pvars, started>>

Answer == [how : {"none", "held", "unrefreshable", "refreshed"}, dated : BOOLEAN,
           until : Int, at : Nat]
NoAnswer == [how |-> "none", dated |-> FALSE, until |-> 0, at |-> 0]

ASSUME ServiceAssumption ==
    /\ InstanceOf \in [Actors -> Instances]
    /\ NoActor \notin Actors
    /\ OldTokens \in Nat
    /\ Files \subseteq Data
    /\ Life \in Nat /\ Skew \in Nat /\ Backoff \in Nat

\* The active profile of a provider is there and is its own.
ActiveFits(d) ==
    \A p \in Providers : d.active[p] # NoId => Has(d, d.active[p]) /\ ProviderOf[d.active[p]] = p

\* What every file to start from is: the active profiles are there, a refresh token
\* has been given out, and the file says of an access token what its provider does.
ASSUME FilesAssumption ==
    \A f \in Files :
        /\ ActiveFits(f)
        /\ \A id \in Ids :
              /\ f.profiles[id].refresh <= OldTokens
              /\ f.profiles[id].dated => f.profiles[id].expires = f.profiles[id].until

StoreType ==
    /\ clock \in Nat
    /\ file \in Data
    /\ readable \in BOOLEAN
    /\ mutex \in [Instances -> Actors \cup {NoActor}]
    /\ backoff \in [Instances -> [Ids -> Nat]]
    /\ issued \in Nat
    /\ spent \subseteq Nat
    /\ started \in Nat

CallType ==
    /\ pc \in [Actors -> {"idle", "activate", "reload", "request", "update", "write"}]
    /\ target \in [Actors -> Ids \cup {NoId}]
    /\ profile \in [Actors -> Profile]
    /\ presented \in [Actors -> Nat]
    /\ copy \in [Actors -> Data]
    /\ answer \in [Actors -> Answer]

\* A call in progress knows which profile it is about; the mutex is held by a call in
\* progress, of its own instance.
CallsKnown ==
    \A a \in Actors :
        /\ pc[a] \in {"activate", "reload", "request", "update"} => target[a] \in Ids
        /\ \A i \in Instances :
              mutex[i] = a => pc[a] \notin {"idle", "activate"} /\ InstanceOf[a] = i

TypeOK == StoreType /\ CallType /\ CallsKnown

Init ==
    /\ clock = 0
    /\ file \in Files /\ readable = TRUE
    /\ pc = [a \in Actors |-> "idle"]
    /\ target = [a \in Actors |-> NoId]
    /\ profile = [a \in Actors |-> NoProfile]
    /\ presented = [a \in Actors |-> 0]
    /\ copy = [a \in Actors |-> DefaultData]
    /\ answer = [a \in Actors |-> NoAnswer]
    /\ mutex = [i \in Instances |-> NoActor]
    /\ backoff = [i \in Instances |-> [id \in Ids |-> 0]]
    /\ issued = OldTokens /\ spent = {}
    /\ started = 0

-----------------------------------------------------------------------------
(* How an operation begins and ends *)

Begin(a, who) ==
    /\ a \in who /\ pc[a] = "idle" /\ started < MaxOps
    /\ started' = started + 1

\* The operation's locals go with it.
Leave(a) ==
    /\ pc' = [pc EXCEPT ![a] = "idle"]
    /\ target' = [target EXCEPT ![a] = NoId]
    /\ profile' = [profile EXCEPT ![a] = NoProfile]
    /\ presented' = [presented EXCEPT ![a] = 0]
    /\ copy' = [copy EXCEPT ![a] = DefaultData]

\* An exception that leaves the mutex locked
ReturnLocked(a, ans) ==
    /\ Leave(a)
    /\ answer' = [answer EXCEPT ![a] = ans]
    /\ UNCHANGED mutex

\* A return or an exception; the lock_guard of a refresh releases the mutex.
Return(a, ans) ==
    /\ Leave(a)
    /\ answer' = [answer EXCEPT ![a] = ans]
    /\ mutex' = IF mutex[InstanceOf[a]] = a
                THEN [mutex EXCEPT ![InstanceOf[a]] = NoActor] ELSE mutex

\* The load of an operation of the store has been changed to d and will be saved.
WillSave(a, id, d) ==
    /\ pc' = [pc EXCEPT ![a] = "write"]
    /\ target' = [target EXCEPT ![a] = id]
    /\ copy' = [copy EXCEPT ![a] = d]

-----------------------------------------------------------------------------
(* load_locked *)

\* What a load may return; a file that cannot be parsed is an exception.
Loads ==
    (IF readable THEN {Loaded(file)} ELSE {}) \cup (IF MayFail THEN {DefaultData} ELSE {})

\* What an operation that wants a profile may find: after an exception none.
Finds == Loads \cup (IF readable THEN {} ELSE {DefaultData})

-----------------------------------------------------------------------------
(* Operations on the store.  One that finds nothing to do, or a file it cannot *)
(* parse, throws or returns without effect and is left out. *)

\* store_openai_tokens, store_gemini_tokens: after a login
StoreTokens(a, id, setActive) ==
    /\ Begin(a, Writers)
    /\ \E d \in Loads, token \in {0, issued + 1}, dated \in BOOLEAN :
          /\ issued' = IF token = 0 THEN issued ELSE token
          /\ WillSave(a, id, Upsert(d, id, OAuth(token, clock + Life, dated), setActive))
    /\ UNCHANGED <<clock, fvars, profile, presented, answer, mutex, backoff, spent>>

\* store_provider_token
StoreToken(a, id, setActive) ==
    /\ Begin(a, Writers)
    /\ \E d \in Loads : WillSave(a, id, Upsert(d, id, StaticToken, setActive))
    /\ UNCHANGED <<clock, fvars, profile, presented, answer, mutex, backoff, pvars>>

RemoveProfile(a, id) ==
    /\ Begin(a, Writers) /\ readable
    /\ Has(file, id)
    /\ WillSave(a, id, Remove(Loaded(file), id))
    /\ UNCHANGED <<clock, fvars, profile, presented, answer, mutex, backoff, pvars>>

\* clear_active_profile
ClearActive(a, provider) ==
    /\ Begin(a, Writers)
    /\ \E d \in Loads : WillSave(a, NoId, WithActive(d, provider, NoId))
    /\ UNCHANGED <<clock, fvars, profile, presented, answer, mutex, backoff, pvars>>

\* set_active_profile looks at the file once to check (a profile of another provider is
\* refused, so the provider is the profile's) ...
CheckActive(a, id) ==
    /\ Begin(a, Writers) /\ readable
    /\ Has(file, id)
    /\ pc' = [pc EXCEPT ![a] = "activate"]
    /\ target' = [target EXCEPT ![a] = id]
    /\ UNCHANGED <<clock, fvars, profile, presented, copy, answer, mutex, backoff, pvars>>

\* ... and again to change it.
SetActive(a) ==
    /\ pc[a] = "activate"
    /\ \E d \in Finds :
          IF Has(d, target[a])
          THEN /\ WillSave(a, target[a], WithActive(d, ProviderOf[target[a]], target[a]))
               /\ UNCHANGED <<profile, presented>>
          ELSE Leave(a)
    /\ UNCHANGED <<clock, fvars, answer, mutex, backoff, pvars, started>>

-----------------------------------------------------------------------------
(* get_valid_openai_access_token, get_valid_gemini_access_token *)

\* is_expiring_within as it would be without the skew
ExpiringNow(p) == p.kind = "oauth" /\ p.dated /\ p.expires <= clock

\* is_expiring_within(OPENAI_REFRESH_SKEW_SECS): never, without a time of expiry
Expiring(p) == p.kind = "oauth" /\ p.dated /\ p.expires <= clock + Skew

AnswerOf(how, p) == [how |-> how, dated |-> p.dated, until |-> p.until, at |-> clock]

\* What a call returns that finds p and does not refresh it: the token of an OAuth
\* profile, or nothing but an exception.
Unrefreshed(p) ==
    IF p.kind # "oauth" THEN NoAnswer
    ELSE IF Expiring(p) THEN AnswerOf("unrefreshable", p)
    ELSE AnswerOf("held", p)

\* A refresh that takes the mutex only to read as a reader would
LockShared(a) == TRUE

\* lock_guard of profile_mutex
LockFree(a) == mutex[InstanceOf[a]] = NoActor

\* With the mutex: select a profile and look whether it has to be refreshed.
FirstLook(a, provider, override) ==
    /\ Begin(a, Refreshers)
    /\ LockFree(a)
    /\ \E d \in Finds :
       LET found == Selected(d, provider, override)
       IN  \/ /\ found = {}
              /\ answer' = [answer EXCEPT ![a] = NoAnswer]
              /\ UNCHANGED <<pc, target, profile, mutex>>
           \/ \E id \in found :
                LET p == d.profiles[id]
                IN  IF Expiring(p) /\ p.refresh # 0
                    THEN /\ pc' = [pc EXCEPT ![a] = "reload"]
                         /\ target' = [target EXCEPT ![a] = id]
                         /\ profile' = [profile EXCEPT ![a] = p]
                         /\ mutex' = [mutex EXCEPT ![InstanceOf[a]] = a]
                         /\ UNCHANGED answer
                    ELSE /\ answer' = [answer EXCEPT ![a] = Unrefreshed(p)]
                         /\ UNCHANGED <<pc, target, profile, mutex>>
    /\ UNCHANGED <<clock, fvars, presented, copy, backoff, pvars>>

\* Look again, and unless a refresh failed just now, ask for one.
Reload(a) ==
    /\ pc[a] = "reload"
    /\ \E d \in Finds :
       LET p == d.profiles[target[a]]
       IN  IF Expiring(p)
           THEN IF backoff[InstanceOf[a]][target[a]] > clock
                THEN Return(a, NoAnswer)
                ELSE /\ pc' = [pc EXCEPT ![a] = "request"]
                     /\ profile' = [profile EXCEPT ![a] = p]
                     /\ presented' = [presented EXCEPT ![a] =
                           IF p.refresh # 0 THEN p.refresh ELSE profile[a].refresh]
                     /\ UNCHANGED <<target, copy, answer, mutex>>
           ELSE Return(a, Unrefreshed(p))
    /\ UNCHANGED <<clock, fvars, backoff, pvars, started>>

\* The refresh token to keep: a provider that did not rotate it sent none.
KeptToken(a, sent) == IF sent = 0 THEN profile[a].refresh ELSE sent

\* The provider honours the refresh token and gives an access token.
RefreshSucceeds(a) ==
    /\ pc[a] = "request" /\ presented[a] \notin spent
    /\ \E sent \in {0, issued + 1}, dated \in BOOLEAN :
          /\ issued' = IF sent = 0 THEN issued ELSE sent
          /\ spent'  = IF sent = 0 THEN spent ELSE spent \cup ({presented[a]} \ {0})
          /\ profile' = [profile EXCEPT ![a] = OAuth(KeptToken(a, sent), clock + Life, dated)]
    /\ backoff' = [backoff EXCEPT ![InstanceOf[a]] = [@ EXCEPT ![target[a]] = 0]]
    /\ pc' = [pc EXCEPT ![a] = "update"]
    /\ UNCHANGED <<clock, fvars, target, presented, copy, answer, mutex, started>>

\* It refuses, cannot be reached, or answers what does not arrive.
RefreshFails(a) ==
    /\ pc[a] = "request"
    /\ spent' \in {spent, IF MayLose THEN spent \cup ({presented[a]} \ {0}) ELSE spent}
    /\ backoff' = [backoff EXCEPT ![InstanceOf[a]] = [@ EXCEPT ![target[a]] = clock + Backoff]]
    /\ Return(a, NoAnswer)
    /\ UNCHANGED <<clock, fvars, issued, started>>

\* update_profile, with a load of its own
Update(a) ==
    /\ pc[a] = "update"
    /\ \E d \in Finds :
          IF Has(d, target[a])
          THEN /\ WillSave(a, target[a], WithProfile(d, target[a], profile[a]))
               /\ UNCHANGED <<profile, presented, answer, mutex>>
          ELSE Return(a, NoAnswer)
    /\ UNCHANGED <<clock, fvars, backoff, pvars, started>>

-----------------------------------------------------------------------------
(* save_locked *)

Refreshing(a) == mutex[InstanceOf[a]] = a

\* Every operation ends with its save; a refresh returns the new access token.
Saved(a) ==
    Return(a, IF Refreshing(a) THEN AnswerOf("refreshed", profile[a]) ELSE answer[a])

Save(a) ==
    /\ pc[a] = "write"
    /\ file' = copy[a] /\ readable' = TRUE
    /\ Saved(a)
    /\ UNCHANGED <<clock, backoff, pvars, started>>

\* The write is cut short and the rename puts its result in place.
SaveTruncated(a) ==
    /\ pc[a] = "write" /\ MayFail
    /\ readable' = FALSE /\ UNCHANGED file
    /\ Saved(a)
    /\ UNCHANGED <<clock, backoff, pvars, started>>

\* The directory cannot be created or the file not be renamed.
SaveFails(a) ==
    /\ pc[a] = "write" /\ MayFail
    /\ Return(a, IF Refreshing(a) THEN NoAnswer ELSE answer[a])
    /\ UNCHANGED <<clock, fvars, backoff, pvars, started>>

-----------------------------------------------------------------------------
(* The world around *)

Crash(i) ==
    /\ MayCrash
    /\ LET Reset(f, v) == [a \in Actors |-> IF InstanceOf[a] = i THEN v ELSE f[a]]
       IN  /\ pc' = Reset(pc, "idle")
           /\ target' = Reset(target, NoId)
           /\ profile' = Reset(profile, NoProfile)
           /\ presented' = Reset(presented, 0)
           /\ copy' = Reset(copy, DefaultData)
           /\ answer' = Reset(answer, NoAnswer)
    /\ mutex' = [mutex EXCEPT ![i] = NoActor]
    /\ backoff' = [backoff EXCEPT ![i] = [id \in Ids |-> 0]]
    /\ UNCHANGED <<clock, fvars, pvars, started>>

Tick ==
    /\ clock < MaxTime
    /\ clock' = clock + 1
    /\ UNCHANGED <<fvars, avars, mutex, backoff, pvars, started>>

Store(a) ==
    \/ \E id \in Ids, setActive \in BOOLEAN : StoreTokens(a, id, setActive)
    \/ \E id \in Ids, setActive \in BOOLEAN : StoreToken(a, id, setActive)
    \/ \E id \in Ids : RemoveProfile(a, id)
    \/ \E provider \in Providers : ClearActive(a, provider)
    \/ \E id \in Ids : CheckActive(a, id)
    \/ SetActive(a)

Refresh(a) ==
    \/ \E provider \in Providers, override \in Ids \cup {NoId} : FirstLook(a, provider, override)
    \/ Reload(a)
    \/ RefreshSucceeds(a)
    \/ RefreshFails(a)
    \/ Update(a)

Next ==
    \/ \E a \in Actors : Store(a) \/ Refresh(a) \/ Save(a) \/ SaveTruncated(a) \/ SaveFails(a)
    \/ \E i \in Instances : Crash(i)
    \/ Tick

Spec == Init /\ [][Next]_vars

-----------------------------------------------------------------------------
(* Properties *)

\* The active profile of a provider is in the file and is the provider's own: no
\* interleaving of set_active_profile, remove_profile and the rest, in any number of
\* processes, leaves an active profile that is not there.
ActiveExists == ActiveFits(file)

\* A token that get_valid_*_access_token returns without a refresh, of a profile it
\* could refresh, is good for longer than the skew (auth.cpp:227 and 246).  It rests on
\* what the file says of it, through every load and save since the login.  The one
\* exception: a token whose provider gave no time of expiry (oauth_provider.cpp:63-68) is
\* returned for ever (profiles.cpp:55).
AnswersAreFresh ==
    \A a \in Actors :
        answer[a].how = "held" /\ answer[a].dated => answer[a].until > answer[a].at + Skew

\* A save changes no profile but the one its operation is about (acquire_lock is there
\* to have the operations one after another; profiles.cpp:119).
WritesOnlyItsOwn ==
    [][\A id \in Ids : file.profiles[id] # file'.profiles[id] =>
          \E a \in Actors : pc[a] = "write" /\ pc'[a] = "idle" /\ target[a] = id]_vars
=============================================================================
