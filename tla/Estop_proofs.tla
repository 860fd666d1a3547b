---------------------------- MODULE Estop_proofs ----------------------------
(***************************************************************************)
(* Theorems about Estop and Otp: types, the lifetime of a code and the     *)
(* implementation of StopSwitch and the secrets that validators take up,   *)
(* for any processes.                                                      *)
(***************************************************************************)
EXTENDS Estop, TLAPS

\* Steps that leave the validators, but for their caches, and the clock alone.
OtpSteps(p) ==
    \/ UNCHANGED ovars
    \/ cache' = [cache EXCEPT ![p] = Swept(p)] /\ UNCHANGED <<clock, secretFile, made, otp, secret, hvars>>
    \/ \E c \in Counters :
          /\ Accepts(p, c)
          /\ cache' = [cache EXCEPT ![p] = CacheAfter(p, c)]
          /\ UNCHANGED <<clock, secretFile, made, otp, secret, hvars>>

\* What a step does to the validators.
LEMMA OtpStepTaken ==
    ASSUME [Next]_vars
    PROVE  \/ \E p \in Processes : OtpSteps(p) \/ Validator(p) \/ OtpEnds(p)
           \/ UNCHANGED ovars
           \/ Tick
  <1> DEFINE Goal == \/ \E p \in Processes : OtpSteps(p) \/ Validator(p) \/ OtpEnds(p)
                     \/ UNCHANGED ovars
                     \/ Tick
  <1>1. ASSUME NEW p \in Processes, Manager(p) PROVE Goal
    <2>1. CASE Load(p) \/ LoadClosed(p)
      BY <2>1 DEF Load, LoadClosed
    <2>2. ASSUME NEW S \in Selections, Engage(p, S) \/ EngageInvalid(p, S) PROVE Goal
      BY <2>2 DEF Engage, EngageInvalid
    <2>3. ASSUME Authorised(p), UNCHANGED <<clock, secretFile, made, otp, secret, hvars>> PROVE OtpSteps(p)
      BY <2>3 DEF Authorised, OtpSteps, ovars
    <2>4. ASSUME NEW S \in Selections, Resume(p, S) PROVE Goal
      BY <2>3, <2>4 DEF Resume
    <2>5. CASE ResumeInvalid(p)
      BY <2>3, <2>5 DEF ResumeInvalid
    <2>6. CASE ResumeRefused(p)
      BY <2>6 DEF ResumeRefused, OtpSteps
    <2> QED BY <1>1, <2>1, <2>2, <2>4, <2>5, <2>6 DEF Manager
  <1>2. ASSUME NEW p \in Processes, Exit(p) PROVE Goal
    BY <1>2 DEF Exit
  <1> QED BY <1>1, <1>2 DEF Next, vars

-----------------------------------------------------------------------------
(* Types *)

LEMMA SweptType ==
    ASSUME OtpType, NEW p \in Processes
    PROVE  Swept(p) \in [Counters -> Int]
  BY DEF OtpType, Swept, NotCached

LEMMA CacheAfterType ==
    ASSUME OtpType, NEW p \in Processes, NEW c \in Counters
    PROVE  CacheAfter(p, c) \in [Counters -> Int]
  <1>1. clock + CacheValid \in Int
    BY OtpAssumption DEF OtpType
  <1> QED BY <1>1, SweptType DEF CacheAfter

\* What an enrolling process may leave in the file
LEMMA WrittenType ==
    ASSUME OtpType, NEW p \in Processes, otp[p] = "enrolling"
    PROVE  /\ secret[p] \in Secrets /\ secret[p].of \in 1..made
           /\ Written(p) \subseteq {NoSecret, Garbled} \cup Secrets
  <1>1. secret[p] \in Secrets /\ secret[p].of \in 1..made
    BY DEF OtpType, Secrets
  <1>2. CutShort(secret[p].of) \in Secrets
    BY <1>1 DEF CutShort, Secrets
  <1> QED BY <1>1, <1>2 DEF OtpType, Written

LEMMA OtpTypeStep ==
    ASSUME OtpType, [Next]_vars
    PROVE  OtpType'
  <1>1. ASSUME NEW p \in Processes, OtpSteps(p) PROVE OtpType'
    <2>1. ASSUME NEW f \in [Counters -> Int], cache' = [cache EXCEPT ![p] = f],
                 UNCHANGED <<clock, secretFile, made, otp, secret, hvars>>
          PROVE  OtpType'
      BY <2>1 DEF OtpType, Secrets, hvars
    <2>2. CASE UNCHANGED ovars
      BY <2>2 DEF OtpType, Secrets, ovars, hvars
    <2> QED BY <1>1, <2>1, <2>2, SweptType, CacheAfterType DEF OtpSteps
  <1>2. ASSUME NEW p \in Processes, ReadSecret(p) PROVE OtpType'
    <2>1. secretFile \in Secrets
      BY <1>2 DEF OtpType, ReadSecret
    <2>2. Secrets' = Secrets
      BY <1>2 DEF ReadSecret, Secrets
    <2> QED BY <1>2, <2>1, <2>2 DEF OtpType, ReadSecret, hvars
  <1>3. ASSUME NEW p \in Processes, MakeSecret(p) PROVE OtpType'
    <2>1. made' \in Nat /\ 1..made \subseteq 1..made' /\ made + 1 \in 1..made'
      BY <1>3 DEF OtpType, MakeSecret
    <2>2. Secrets \subseteq Secrets' /\ Whole(made + 1) \in Secrets'
      BY <2>1 DEF Secrets, Whole
    <2>3. secret' \in [Processes -> {NoSecret} \cup Secrets']
      BY <1>3, <2>2 DEF OtpType, MakeSecret
    <2>4. \A q \in Processes : otp'[q] = "enrolling" => secret'[q] \in Secrets'
      BY <1>3, <2>2 DEF OtpType, MakeSecret
    <2> QED BY <1>3, <2>1, <2>2, <2>3, <2>4 DEF OtpType, MakeSecret, hvars
  <1>4. ASSUME NEW p \in Processes, WriteSecret(p) PROVE OtpType'
    <2>1. /\ otp[p] = "enrolling"
          /\ secretFile' \in Written(p) /\ shown' = shown \cup {secret[p].of}
          /\ otp' = [otp EXCEPT ![p] = "up"]
          /\ UNCHANGED <<clock, made, secret, cache, unshown>>
      BY <1>4 DEF WriteSecret
    <2>2. Secrets' = Secrets
      BY <2>1 DEF Secrets
    <2>3. secretFile' \in {NoSecret, Garbled} \cup Secrets /\ shown' \subseteq 1..made
      BY <2>1, WrittenType DEF OtpType
    <2> QED BY <2>1, <2>2, <2>3 DEF OtpType
  <1>5. ASSUME NEW p \in Processes, OtpEnds(p) PROVE OtpType'
    <2>1. EmptyCache \in [Counters -> Int]
      BY DEF EmptyCache, NotCached
    <2>2. /\ otp' = [otp EXCEPT ![p] = "none"]
          /\ secret' = [secret EXCEPT ![p] = NoSecret]
          /\ cache' = [cache EXCEPT ![p] = EmptyCache]
          /\ UNCHANGED <<clock, made, shown>>
      BY <1>5 DEF OtpEnds
    <2>3. Secrets' = Secrets
      BY <2>2 DEF Secrets
    <2>4. secretFile' \in {NoSecret, Garbled} \cup Secrets /\ unshown' \subseteq 1..made
      <3>1. CASE otp[p] = "enrolling"
        BY <1>5, <3>1, WrittenType DEF OtpType, OtpEnds
      <3>2. CASE otp[p] # "enrolling"
        BY <1>5, <3>2 DEF OtpType, OtpEnds
      <3> QED BY <3>1, <3>2
    <2> QED BY <2>1, <2>2, <2>3, <2>4 DEF OtpType
  <1>6. CASE Tick
    BY <1>6 DEF OtpType, Secrets, Tick, hvars
  <1>7. CASE UNCHANGED ovars
    BY <1>7 DEF OtpType, Secrets, ovars, hvars
  <1> QED
    BY <1>1, <1>2, <1>3, <1>4, <1>5, <1>6, <1>7, OtpStepTaken DEF Validator

\* The types of the state, for any processes, failing and garbled writes, and ends.
THEOREM TypeCorrect == Spec => []TypeOK
  <1>1. Init => TypeOK
    BY OtpAssumption DEF Init, TypeOK, OtpInit, OtpType, NoSecret, Garbled, NotCached, EmptyCache,
       Requests
  <1>2. TypeOK /\ [Next]_vars => TypeOK'
    <2> SUFFICES ASSUME TypeOK, [Next]_vars PROVE TypeOK'
      OBVIOUS
    <2>1. OtpType'
      BY OtpTypeStep DEF TypeOK
    <2> DEFINE EstopType == /\ stateFile \subseteq Levels
                            /\ readable \in BOOLEAN
                            /\ loaded \subseteq Processes
                            /\ mem \in [Processes -> SUBSET Levels]
                            /\ call \in Requests
    <2>2. EstopType
      BY DEF TypeOK
    <2>3. \A S \in Selections : S \subseteq Levels
      <3>1. \A S \in (SUBSET Domains) \cup (SUBSET Tools) : S \subseteq Levels
        BY DEF Levels
      <3>2. {KillAll} \subseteq Levels /\ {"network_kill"} \subseteq Levels
        BY DEF Levels
      <3> QED BY <3>1, <3>2 DEF Selections
    <2>4. \A op \in {"start", "engage", "resume"}, S \in SUBSET Levels :
             Serve(op, S) => call' \in Requests
      BY DEF Serve, Requests
    <2>5. ASSUME NEW p \in Processes, mem' \in [Processes -> SUBSET Levels], PersistState(p)
          PROVE  stateFile' \subseteq Levels /\ readable' \in BOOLEAN
      BY <2>2, <2>5 DEF PersistState, Stored, Truncated, NotStored
    <2>6. ASSUME NEW p \in Processes, Load(p) PROVE EstopType'
      BY <2>2, <2>4, <2>6 DEF Load
    <2>7. ASSUME NEW p \in Processes, LoadClosed(p) PROVE EstopType'
      <3>1. mem' \in [Processes -> SUBSET Levels]
        BY <2>2, <2>7 DEF LoadClosed, Levels
      <3> QED BY <2>2, <2>4, <2>5, <2>7, <3>1 DEF LoadClosed
    <2>8. ASSUME NEW p \in Processes, NEW S \in Selections, Engage(p, S) PROVE EstopType'
      <3>1. mem' \in [Processes -> SUBSET Levels]
        BY <2>2, <2>3, <2>8 DEF Engage
      <3> QED BY <2>2, <2>3, <2>4, <2>5, <2>8, <3>1 DEF Engage
    <2>9. ASSUME NEW p \in Processes, NEW S \in Selections, EngageInvalid(p, S) PROVE EstopType'
      <3>1. mem' \in [Processes -> SUBSET Levels]
        BY <2>2, <2>3, <2>9 DEF EngageInvalid
      <3> QED BY <2>2, <2>3, <2>4, <2>9, <3>1 DEF EngageInvalid
    <2>10. ASSUME NEW p \in Processes, NEW S \in Selections, Resume(p, S) PROVE EstopType'
      <3>1. mem' \in [Processes -> SUBSET Levels]
        BY <2>2, <2>10 DEF Resume
      <3> QED BY <2>2, <2>3, <2>4, <2>5, <2>10, <3>1 DEF Resume
    <2>11. ASSUME NEW p \in Processes, Exit(p) PROVE EstopType'
      BY <2>2, <2>11 DEF Exit
    <2>12. ASSUME UNCHANGED evars PROVE EstopType'
      BY <2>2, <2>12 DEF evars
    <2>13. EstopType'
      <3> HIDE DEF EstopType
      <3> QED BY <2>6, <2>7, <2>8, <2>9, <2>10, <2>11, <2>12
              DEF Next, Manager, ResumeInvalid, ResumeRefused, vars
    <2> QED BY <2>1, <2>13 DEF TypeOK
  <1> QED BY <1>1, <1>2, PTL DEF Spec

-----------------------------------------------------------------------------
(* The lifetime of a code *)

LEMMA Division ==
    ASSUME NEW n \in Nat, NEW d \in Nat \ {0}
    PROVE  n \div d \in Nat /\ (n \div d) * d <= n /\ n < (n \div d) * d + d
  OBVIOUS

LEMMA Multiples ==
    ASSUME NEW q \in Int, NEW d \in Nat
    PROVE  /\ (q + 1) * d = q * d + d /\ (q - 1) * d = q * d - d
           /\ (q + 2) * d = q * d + 2 * d /\ (q + 3) * d = q * d + 3 * d
  OBVIOUS

\* A code is in the window from one step before its own to two steps after its beginning.
LEMMA WindowBounds ==
    ASSUME NEW t \in Nat, NEW c \in Counters, c \in Window(t)
    PROVE  (c - 1) * Step <= t /\ t < (c + 2) * Step
  <1> DEFINE q == t \div Step
  <1>1. q \in Nat /\ q * Step <= t /\ t < q * Step + Step /\ Step \in Nat
    BY Division, OtpAssumption
  <1>2. c \in {IF q > 0 THEN q - 1 ELSE 0, q, q + 1}
    BY DEF Window
  <1>3. q * Step \in Int
    BY <1>1
  <1> HIDE DEF q
  <1>4. CASE c = q + 1
    <2>1. c - 1 = q /\ c + 2 = q + 3
      BY <1>1, <1>4
    <2> QED BY <1>1, <1>3, <2>1, Multiples
  <1>5. CASE c = q
    <2> QED BY <1>1, <1>3, <1>5, Multiples
  <1>6. CASE c = q - 1 /\ q > 0
    <2>1. c + 2 = q + 1 /\ c - 1 = q - 2 /\ q - 2 \in Int /\ (q - 2) + 2 = q
      BY <1>1, <1>6
    <2>2. (q + 1) * Step = q * Step + Step
      BY <1>1, Multiples
    <2>3. q * Step = (q - 2) * Step + 2 * Step
      BY <1>1, <2>1, Multiples
    <2>4. (q - 2) * Step \in Int
      BY <1>1
    <2> QED BY <1>1, <1>3, <2>1, <2>2, <2>3, <2>4
  <1> QED BY <1>1, <1>2, <1>4, <1>5, <1>6

\* The invariant: the lifetime, of an entry of the cache.  It holds of an entry when it is
\* made, by the window, and a hit leaves the entry as it is.
CacheBounded ==
    \A p \in Processes, c \in Counters :
        /\ cache[p][c] < (c + 2) * Step + CacheValid
        /\ cache[p][c] # NotCached => (c - 1) * Step <= clock

LEMMA BoundIsNat ==
    ASSUME NEW c \in Counters
    PROVE  (c + 2) * Step \in Nat /\ (c - 1) * Step \in Int
  <1>1. c \in Nat /\ Step \in Nat
    BY OtpAssumption
  <1>2. \A x, y \in Nat : x * y \in Nat
    OBVIOUS
  <1>3. \A x, y \in Int : x * y \in Int
    OBVIOUS
  <1> QED BY <1>1, <1>2, <1>3

LEMMA AfterBounded ==
    ASSUME TypeOK, CacheBounded, NEW p \in Processes, NEW c \in Counters, Accepts(p, c),
           NEW d \in Counters
    PROVE  /\ CacheAfter(p, c)[d] < (d + 2) * Step + CacheValid
           /\ CacheAfter(p, c)[d] # NotCached => (d - 1) * Step <= clock
  <1>1. clock \in Nat /\ CacheValid \in Nat /\ cache[p] \in [Counters -> Int]
    BY OtpAssumption DEF TypeOK, OtpType
  <1>2. /\ Swept(p) \in [Counters -> Int]
        /\ Swept(p)[d] < (d + 2) * Step + CacheValid
        /\ Swept(p)[d] # NotCached => (d - 1) * Step <= clock
    BY <1>1, BoundIsNat DEF Swept, CacheBounded, NotCached
  <1>3. CASE CacheHit(p, c) \/ d # c
    BY <1>1, <1>2, <1>3 DEF CacheAfter
  <1>4. CASE ~CacheHit(p, c) /\ d = c
    <2>1. CacheAfter(p, c)[d] = clock + CacheValid
      BY <1>2, <1>4 DEF CacheAfter
    <2>2. (d - 1) * Step <= clock /\ clock < (d + 2) * Step
      BY <1>1, <1>4, WindowBounds DEF Accepts
    <2> QED BY <1>1, <2>1, <2>2, BoundIsNat
  <1> QED BY <1>3, <1>4

\* A code opens from one step before its own to two steps after its beginning and then for
\* cache_valid_secs, however often and to however many validators it is presented.
THEOREM CodesExpire == Spec => []CodeLifetime
  <1>1. Init => CacheBounded
    <2> SUFFICES ASSUME Init, NEW p \in Processes, NEW c \in Counters
                 PROVE  cache[p][c] < (c + 2) * Step + CacheValid /\ cache[p][c] = NotCached
      BY DEF CacheBounded
    <2>1. cache[p][c] = -1
      BY DEF Init, OtpInit, EmptyCache, NotCached
    <2> QED BY <2>1, OtpAssumption, BoundIsNat DEF NotCached
  <1>2. TypeOK /\ CacheBounded /\ [Next]_vars => CacheBounded'
    <2> SUFFICES ASSUME TypeOK, CacheBounded, [Next]_vars,
                        NEW p \in Processes, NEW c \in Counters
                 PROVE  /\ cache'[p][c] < (c + 2) * Step + CacheValid
                        /\ cache'[p][c] # NotCached => (c - 1) * Step <= clock'
      BY DEF CacheBounded, NotCached
    <2> DEFINE Goal == /\ cache'[p][c] < (c + 2) * Step + CacheValid
                       /\ cache'[p][c] # NotCached => (c - 1) * Step <= clock'
    <2>1. clock \in Nat /\ CacheValid \in Nat /\ cache \in [Processes -> [Counters -> Int]]
      BY OtpAssumption DEF TypeOK, OtpType
    <2>2. ASSUME cache'[p] = cache[p], clock' \in Nat, clock' >= clock PROVE Goal
      BY <2>1, <2>2, BoundIsNat DEF CacheBounded
    <2>3. ASSUME cache'[p] = EmptyCache PROVE Goal
      BY <2>1, <2>3, BoundIsNat DEF EmptyCache, NotCached
    <2>4. ASSUME cache'[p] = Swept(p), clock' = clock PROVE Goal
      BY <2>1, <2>4, BoundIsNat DEF Swept, NotCached, CacheBounded
    <2>5. ASSUME NEW d \in Counters, Accepts(p, d), cache'[p] = CacheAfter(p, d), clock' = clock
          PROVE  Goal
      BY <2>5, AfterBounded
    <2> HIDE DEF Goal
    <2>6. ASSUME NEW r \in Processes, OtpSteps(r) PROVE Goal
      BY <2>1, <2>2, <2>4, <2>5, <2>6 DEF OtpSteps, ovars
    <2>7. ASSUME NEW r \in Processes, Validator(r) PROVE Goal
      BY <2>1, <2>2, <2>7 DEF Validator, ReadSecret, MakeSecret, WriteSecret
    <2>8. ASSUME NEW r \in Processes, OtpEnds(r) PROVE Goal
      BY <2>1, <2>2, <2>3, <2>8 DEF OtpEnds
    <2>9. CASE Tick \/ UNCHANGED ovars
      <3>1. Goal
        BY <2>1, <2>2, <2>9 DEF Tick, ovars
      <3> QED BY <3>1 DEF Goal
    <2>10. Goal
      BY <2>6, <2>7, <2>8, <2>9, OtpStepTaken DEF Goal
    <2> QED BY <2>10 DEF Goal
  <1>3. TypeOK /\ CacheBounded => CodeLifetime
    <2> SUFFICES ASSUME TypeOK, CacheBounded, NEW p \in Processes, NEW c \in Counters, Accepts(p, c)
                 PROVE  (c - 1) * Step <= clock /\ clock < (c + 2) * Step + CacheValid
      BY DEF CodeLifetime
    <2>1. clock \in Nat /\ CacheValid \in Nat /\ cache[p][c] \in Int
      BY OtpAssumption DEF TypeOK, OtpType
    <2>2. CASE CacheHit(p, c)
      BY <2>1, <2>2, BoundIsNat DEF CacheHit, CacheBounded, NotCached
    <2>3. CASE c \in Window(clock)
      BY <2>1, <2>3, WindowBounds, BoundIsNat
    <2> QED BY <2>2, <2>3 DEF Accepts
  <1> QED BY <1>1, <1>2, <1>3, TypeCorrect, PTL DEF Spec

-----------------------------------------------------------------------------
(* The secrets *)

\* A secret a start would read has been shown, or was left by a process that ended; a
\* single process has shown no later one.
FileShown ==
    secretFile.is = "whole" =>
        \/ secretFile.of \in unshown
        \/ secretFile.of \in shown /\ (Single => \A n \in shown : n <= secretFile.of)

\* A single process enrolls with the last secret made, while there is no file.
EnrollsLast ==
    \A p \in Processes : otp[p] = "enrolling" =>
        /\ secret[p].is = "whole"
        /\ Single => secret[p].of = made /\ secretFile = NoSecret

\* The writer's own step: what is in the file is its secret, shown now, or nothing whole
\* that was not there.
LEMMA WriteShown ==
    ASSUME TypeOK, FileShown, EnrollsLast, SecretWasShown, NEW p \in Processes, WriteSecret(p)
    PROVE  FileShown' /\ EnrollsLast' /\ SecretWasShown'
  <1>1. /\ otp[p] = "enrolling" /\ otp' = [otp EXCEPT ![p] = "up"]
        /\ secretFile' \in Written(p) /\ shown' = shown \cup {secret[p].of}
        /\ UNCHANGED <<made, secret, unshown>>
    BY DEF WriteSecret
  <1>2. /\ otp \in [Processes -> {"none", "enrolling", "up"}]
        /\ made \in Nat /\ shown \subseteq 1..made /\ secret[p].of \in 1..made
    BY <1>1, WrittenType DEF TypeOK, OtpType
  <1>3. Single => /\ secret[p].of = made /\ secretFile = NoSecret
                  /\ \A n \in shown' : n <= secret[p].of
    BY <1>1, <1>2 DEF EnrollsLast
  <1>4. \A q \in Processes \ {p} : otp'[q] = otp[q]
    BY <1>1, <1>2
  <1>5. otp'[p] = "up"
    BY <1>1, <1>2
  <1>6. Single => \A q \in Processes : q = p
    BY DEF Single
  <1>7. FileShown'
    <2>1. CASE secretFile' = secret[p]
      BY <1>1, <1>3, <2>1 DEF FileShown, Single
    <2>2. CASE secretFile' = secretFile
      BY <1>1, <1>3, <2>2 DEF FileShown, Single, NoSecret
    <2>3. CASE secretFile' \in {Garbled, CutShort(secret[p].of)}
      BY <2>3 DEF FileShown, Garbled, CutShort
    <2> QED BY <1>1, <2>1, <2>2, <2>3 DEF Written
  <1>8. EnrollsLast'
    BY <1>1, <1>4, <1>5, <1>6 DEF EnrollsLast, Single
  <1>9. SecretWasShown'
    BY <1>1, <1>3, <1>4, <1>6 DEF SecretWasShown, Single
  <1> QED BY <1>7, <1>8, <1>9

\* A validator's secret is one whose uri was returned, with one process the one returned
\* last: for any processes, through writes that are lost and ends at any moment, but for a
\* secret cut short and one whose process ended before it returned the uri.
THEOREM SecretsAreShown == Spec => []SecretWasShown
  <1>1. Init => FileShown /\ EnrollsLast /\ SecretWasShown
    BY DEF Init, OtpInit, FileShown, EnrollsLast, SecretWasShown, NoSecret
  <1>2. TypeOK /\ FileShown /\ EnrollsLast /\ SecretWasShown /\ [Next]_vars
           => FileShown' /\ EnrollsLast' /\ SecretWasShown'
    <2> SUFFICES ASSUME TypeOK, FileShown, EnrollsLast, SecretWasShown, [Next]_vars
                 PROVE  FileShown' /\ EnrollsLast' /\ SecretWasShown'
      OBVIOUS
    <2> DEFINE Goal == FileShown' /\ EnrollsLast' /\ SecretWasShown'
    <2>1. /\ otp \in [Processes -> {"none", "enrolling", "up"}]
          /\ secret \in [Processes -> {NoSecret} \cup Secrets]
          /\ secretFile \in {NoSecret, Garbled} \cup Secrets
          /\ made \in Nat /\ shown \subseteq 1..made /\ unshown \subseteq 1..made
      BY DEF TypeOK, OtpType
    <2>2. ASSUME UNCHANGED <<secretFile, made, otp, secret, shown, unshown>> PROVE Goal
      BY <2>2 DEF FileShown, EnrollsLast, SecretWasShown, Single
    <2>3. ASSUME NEW p \in Processes, OtpSteps(p) PROVE Goal
      BY <2>2, <2>3 DEF OtpSteps, ovars, hvars
    <2>4. ASSUME NEW p \in Processes, ReadSecret(p) PROVE Goal
      <3>1. /\ secretFile \in Secrets
            /\ otp' = [otp EXCEPT ![p] = "up"] /\ secret' = [secret EXCEPT ![p] = secretFile]
            /\ UNCHANGED <<secretFile, made, shown, unshown>>
        BY <2>1, <2>4 DEF ReadSecret, hvars
      <3>2. secret'[p] = secretFile /\ secretFile.is \in {"whole", "cut"}
        BY <2>1, <3>1 DEF Secrets
      <3>3. \A q \in Processes \ {p} : otp'[q] = otp[q] /\ secret'[q] = secret[q]
        BY <2>1, <3>1
      <3>4. otp'[p] = "up"
        BY <2>1, <3>1
      <3>5. SecretWasShown'
        BY <3>1, <3>2, <3>3 DEF SecretWasShown, FileShown, Single
      <3>6. FileShown' /\ EnrollsLast'
        BY <3>1, <3>3, <3>4 DEF FileShown, EnrollsLast, Single
      <3> QED BY <3>5, <3>6
    <2>5. ASSUME NEW p \in Processes, MakeSecret(p) PROVE Goal
      <3>1. /\ secretFile = NoSecret /\ made' = made + 1
            /\ otp' = [otp EXCEPT ![p] = "enrolling"]
            /\ secret' = [secret EXCEPT ![p] = Whole(made + 1)]
            /\ UNCHANGED <<secretFile, shown, unshown>>
        BY <2>5 DEF MakeSecret, hvars
      <3>2. /\ otp'[p] = "enrolling" /\ secret'[p].is = "whole" /\ secret'[p].of = made'
        BY <2>1, <3>1 DEF Whole
      <3>3. \A q \in Processes \ {p} : otp'[q] = otp[q] /\ secret'[q] = secret[q]
        BY <2>1, <3>1
      <3>4. Single => \A q \in Processes : q = p
        BY DEF Single
      <3>5. SecretWasShown'
        BY <3>1, <3>2, <3>3 DEF SecretWasShown, Single
      <3>6. FileShown' /\ EnrollsLast'
        BY <3>1, <3>2, <3>3, <3>4 DEF FileShown, EnrollsLast, Single, NoSecret
      <3> QED BY <3>5, <3>6
    <2>6. ASSUME NEW p \in Processes, WriteSecret(p) PROVE Goal
      BY <2>6, WriteShown
    <2>7. ASSUME NEW p \in Processes, OtpEnds(p) PROVE Goal
      <3>1. /\ otp' = [otp EXCEPT ![p] = "none"] /\ secret' = [secret EXCEPT ![p] = NoSecret]
            /\ UNCHANGED <<made, shown>> /\ unshown \subseteq unshown'
        BY <2>7 DEF OtpEnds
      <3>2. \A q \in Processes \ {p} : otp'[q] = otp[q] /\ secret'[q] = secret[q]
        BY <2>1, <3>1
      <3>3. otp'[p] = "none"
        BY <2>1, <3>1
      <3>4. Single => \A q \in Processes : q = p
        BY DEF Single
      <3>5. SecretWasShown'
        BY <3>1, <3>2, <3>3 DEF SecretWasShown, Single
      <3>6. EnrollsLast'
        BY <3>1, <3>2, <3>3, <3>4 DEF EnrollsLast, Single
      <3>7. FileShown'
        <4>1. CASE secretFile' = secretFile
          BY <3>1, <4>1 DEF FileShown, Single
        <4>2. CASE otp[p] = "enrolling" /\ secretFile' = secret[p]
          BY <2>7, <4>2 DEF OtpEnds, FileShown
        <4>3. CASE secretFile' \in {Garbled, CutShort(secret[p].of)}
          BY <4>3 DEF FileShown, Garbled, CutShort
        <4> QED BY <2>7, <4>1, <4>2, <4>3 DEF OtpEnds, Written
      <3> QED BY <3>5, <3>6, <3>7
    <2> HIDE DEF Goal
    <2>8. Goal
      BY <2>2, <2>3, <2>4, <2>5, <2>6, <2>7, OtpStepTaken DEF Validator, Tick, ovars, hvars
    <2> QED BY <2>8 DEF Goal
  <1> QED BY <1>1, <1>2, TypeCorrect, PTL DEF Spec

-----------------------------------------------------------------------------
(* Any number of processes *)

\* What the next save of some manager drops
LEMMA LiftedSays ==
    /\ \A l : l \in Lifted <=> l \in Held /\ \E q \in loaded : l \notin mem[q]
    /\ \A l : l \in Lifted' <=> l \in Held' /\ \E q \in loaded' : l \notin mem'[q]
  BY DEF Lifted

\* What is in force and does not go is what every manager knows.
LEMMA KeptSays ==
    ASSUME NEW q \in loaded
    PROVE  Held \ Lifted \subseteq mem[q]
  BY LiftedSays

\* After a save or a failed one: what it leaves in force, and what the next would drop.
LEMMA Persisted ==
    ASSUME NEW p, PersistState(p)
    PROVE  \/ Held' = mem'[p]
           \/ Held' = {KillAll} /\ Lifted' \subseteq {KillAll}
           \/ Held' = Held
  <1>1. CASE Stored(p)
    BY <1>1 DEF Stored, Held
  <1>2. CASE Truncated
    BY <1>2, LiftedSays DEF Truncated, Held
  <1>3. CASE NotStored
    BY <1>3 DEF NotStored, Held
  <1> QED BY <1>1, <1>2, <1>3 DEF PersistState

\* A single manager drops nothing that it has just saved.
LEMMA SavedByOne ==
    ASSUME TypeOK', NEW p \in Processes, p \in loaded', Single, Held' \subseteq mem'[p]
    PROVE  Lifted' = {}
  <1>1. \A q \in loaded' : q = p
    BY DEF TypeOK, Single
  <1> QED BY <1>1, LiftedSays

\* The manager that saves and, of what all the managers knew, the part S that it still
\* has: the others have it too.
LEMMA SavedKeeps ==
    ASSUME TypeOK, TypeOK', NEW p \in Processes, p \in loaded, UNCHANGED loaded,
           NEW v, mem' = [mem EXCEPT ![p] = v], Held' = v,
           NEW S, S \subseteq Held \ Lifted, S \subseteq v
    PROVE  Switch!Saved(S)
  <1>1. mem \in [Processes -> SUBSET Levels] /\ loaded \subseteq Processes
    BY DEF TypeOK
  <1>2. mem'[p] = v /\ \A q \in loaded \ {p} : mem'[q] = mem[q]
    BY <1>1
  <1>3. \A q \in loaded' : S \subseteq mem'[q]
    BY <1>2, KeptSays
  <1>4. Lifted' \cap S = {}
    BY <1>3, LiftedSays
  <1>5. Single => Lifted' = {}
    BY <1>2, SavedByOne
  <1> QED BY <1>4, <1>5 DEF Switch!Saved, Single

LEMMA SelectionsAreLevels == Selections \subseteq SUBSET Levels
  <1>1. \A S \in (SUBSET Domains) \cup (SUBSET Tools) : S \subseteq Levels
    BY DEF Levels
  <1>2. {KillAll} \subseteq Levels /\ {"network_kill"} \subseteq Levels
    BY DEF Levels
  <1> QED BY <1>1, <1>2 DEF Selections

\* A start changes nothing that is in force: what the new manager takes over is that.
LEMMA StartStep ==
    ASSUME TypeOK, TypeOK', NEW p \in Processes, Load(p) \/ LoadClosed(p)
    PROVE  Switch!Start
  <1>1. /\ mem \in [Processes -> SUBSET Levels] /\ loaded \subseteq Processes
        /\ loaded' = loaded \cup {p} /\ p \notin loaded
    BY DEF TypeOK, Load, LoadClosed
  <1>2. mem' = [mem EXCEPT ![p] = Held]
    BY DEF Load, LoadClosed, Held
  <1>3. mem'[p] = Held /\ \A q \in loaded : mem'[q] = mem[q]
    BY <1>1, <1>2
  <1>4. Held' = Held
    <2>1. CASE Load(p)
      BY <2>1 DEF Load, Held
    <2>2. CASE LoadClosed(p)
      BY <1>3, <2>2, Persisted DEF LoadClosed, Held
    <2> QED BY <2>1, <2>2
  <1>5. \A l : l \in Lifted' <=> l \in Lifted
    BY <1>1, <1>3, <1>4, LiftedSays
  <1> QED BY <1>4, <1>5 DEF Load, LoadClosed, Serve, Switch!Start, Switch!Serve, Switch!Unsaved

\* The caller of an engage that is not saved has the levels S in its memory.
LEMMA EngagedUnsaved ==
    ASSUME TypeOK, TypeOK', NEW p \in Processes, p \in loaded, UNCHANGED loaded, NEW S,
           mem' = [mem EXCEPT ![p] = @ \cup S], Held' = Held
    PROVE  /\ Lifted \ S \subseteq Lifted' /\ Lifted' \subseteq Lifted
           /\ Single => Lifted' = Lifted \ S
  <1>1. mem \in [Processes -> SUBSET Levels] /\ loaded \subseteq Processes
    BY DEF TypeOK
  <1>2. mem'[p] = mem[p] \cup S /\ \A q \in loaded \ {p} : mem'[q] = mem[q]
    BY <1>1
  <1>3. \A l : l \in Lifted \ S => l \in Lifted'
    BY <1>2, LiftedSays
  <1>4. \A l : l \in Lifted' => l \in Lifted
    BY <1>2, LiftedSays
  <1>5. ASSUME Single PROVE \A l : l \in Lifted' => l \notin S
    <2>1. \A q \in loaded' : q = p
      BY <1>1, <1>5 DEF Single
    <2> QED BY <1>2, <2>1, LiftedSays
  <1> QED BY <1>3, <1>4, <1>5

LEMMA EngageStep ==
    ASSUME TypeOK, TypeOK', NEW p \in Processes, NEW S \in Selections, Engage(p, S)
    PROVE  Switch!Engage(S)
  <1>1. /\ mem \in [Processes -> SUBSET Levels] /\ p \in loaded /\ UNCHANGED loaded
        /\ mem' = [mem EXCEPT ![p] = @ \cup S] /\ Switch!Serve("engage", S)
    BY DEF TypeOK, Engage, Serve, Switch!Serve
  <1>2. CASE Held' = mem'[p]
    <2>1. mem' = [mem EXCEPT ![p] = mem[p] \cup S] /\ Held' = mem[p] \cup S
      BY <1>1, <1>2
    <2>2. Held \ Lifted \subseteq mem[p] \cup S
      BY <1>1, KeptSays
    <2>3. Switch!Saved(Switch!Kept)
      BY <1>1, <2>1, <2>2, SavedKeeps DEF Switch!Kept
    <2> QED BY <1>1, <2>1, <2>3 DEF Switch!Engage
  <1>3. CASE Held' = {KillAll} /\ Lifted' \subseteq {KillAll}
    BY <1>1, <1>3 DEF Switch!Engage, Switch!Damaged
  <1>4. CASE Held' = Held
    BY <1>1, <1>4, EngagedUnsaved DEF Switch!Engage, Switch!Unsaved, Single
  <1> QED BY <1>2, <1>3, <1>4, Persisted DEF Engage

LEMMA ResumeStep ==
    ASSUME TypeOK, TypeOK', NEW p \in Processes, NEW S \in Selections, Resume(p, S)
    PROVE  Switch!Resume(S)
  <1>1. /\ mem \in [Processes -> SUBSET Levels] /\ loaded \subseteq Processes
        /\ p \in loaded /\ UNCHANGED loaded
        /\ mem' = [mem EXCEPT ![p] = @ \ S] /\ Switch!Serve("resume", S)
    BY DEF TypeOK, Resume, Serve, Switch!Serve
  <1>2. CASE Held' = mem'[p]
    <2>1. mem' = [mem EXCEPT ![p] = mem[p] \ S] /\ Held' = mem[p] \ S
      BY <1>1, <1>2
    <2>2. (Held \ Lifted) \ S \subseteq mem[p] \ S
      BY <1>1, KeptSays
    <2>3. Switch!Saved(Switch!Kept \ S)
      BY <1>1, <2>1, <2>2, SavedKeeps DEF Switch!Kept
    <2> QED BY <1>1, <2>1, <2>3 DEF Switch!Resume
  <1>3. CASE Held' = {KillAll} /\ Lifted' \subseteq {KillAll}
    BY <1>1, <1>3 DEF Switch!Resume, Switch!Damaged
  <1>4. CASE Held' = Held
    <2>1. mem'[p] = mem[p] \ S /\ \A q \in loaded \ {p} : mem'[q] = mem[q]
      BY <1>1
    <2>2. \A l : l \in Lifted' <=> l \in Held /\ (l \in Lifted \/ l \in S)
      BY <1>1, <1>4, <2>1, LiftedSays
    <2>3. Lifted' = Held \cap (Lifted \cup S)
      BY <2>2
    <2> QED BY <1>1, <1>4, <2>3 DEF Switch!Resume, Switch!Unsaved
  <1> QED BY <1>2, <1>3, <1>4, Persisted DEF Resume

\* An end forgets what its manager did not know.
LEMMA ExitStep ==
    ASSUME TypeOK, TypeOK', NEW p \in Processes, Exit(p)
    PROVE  Switch!End
  <1>1. /\ mem \in [Processes -> SUBSET Levels] /\ loaded \subseteq Processes
        /\ loaded' = loaded \ {p} /\ mem' = [mem EXCEPT ![p] = {}]
        /\ Held' = Held /\ UNCHANGED call
    BY DEF TypeOK, Exit, Held
  <1>2. \A q \in loaded' : mem'[q] = mem[q]
    BY <1>1
  <1>3. Lifted' \subseteq Lifted
    BY <1>1, <1>2, LiftedSays
  <1>4. ASSUME Single PROVE Lifted' = {}
    <2>1. loaded' = {}
      BY <1>1, <1>4 DEF Single
    <2> QED BY <2>1, LiftedSays
  <1> QED BY <1>1, <1>3, <1>4 DEF Switch!End, Switch!Unsaved, Single

\* The managers are a StopSwitch, in any number of processes: what was engaged and stored,
\* and is known to all of them, is in force at every start until its own resume, through
\* failed writes and files cut short.  A single one forgets nothing it has stored.
THEOREM StopsAreKept == Spec => KeepsStopped
  <1>1. Init => Switch!Init
    BY DEF Init, Switch!Init, Held, Lifted
  <1>2. TypeOK /\ TypeOK' /\ [Next]_vars => [Switch!Next]_Switch!svars
    <2> SUFFICES ASSUME TypeOK, TypeOK', [Next]_vars PROVE [Switch!Next]_Switch!svars
      OBVIOUS
    <2>1. ASSUME NEW p \in Processes, Load(p) \/ LoadClosed(p) PROVE Switch!Next
      BY <2>1, StartStep DEF Switch!Next
    <2>2. ASSUME NEW p \in Processes, NEW S \in Selections, Engage(p, S) PROVE Switch!Next
      BY <2>2, EngageStep, SelectionsAreLevels DEF Switch!Next
    <2>3. ASSUME NEW p \in Processes, NEW S \in Selections, EngageInvalid(p, S)
          PROVE  Switch!Next
      <3>1. Held' = Held /\ Switch!Serve("engage", S)
        BY <2>3 DEF EngageInvalid, Held, Serve, Switch!Serve
      <3>2. Switch!Engage(S)
        BY <2>3, <3>1, EngagedUnsaved DEF EngageInvalid, Switch!Engage, Switch!Unsaved, Single
      <3> QED BY <3>2, SelectionsAreLevels DEF Switch!Next
    <2>4. ASSUME NEW p \in Processes, NEW S \in Selections, Resume(p, S) PROVE Switch!Next
      BY <2>4, ResumeStep, SelectionsAreLevels DEF Switch!Next
    <2>5. ASSUME NEW p \in Processes, Exit(p) PROVE Switch!Next
      BY <2>5, ExitStep DEF Switch!Next
    <2>6. ASSUME UNCHANGED evars PROVE UNCHANGED Switch!svars
      BY <2>6 DEF evars, Held, Lifted, Switch!svars
    <2> QED BY <2>1, <2>2, <2>3, <2>4, <2>5, <2>6
            DEF Next, Manager, ResumeInvalid, ResumeRefused, vars
  <1>3. Switch!Spec <=> Switch!Init /\ [][Switch!Next]_Switch!svars
    BY DEF Switch!Spec
  <1> QED BY <1>1, <1>2, <1>3, TypeCorrect, PTL DEF Spec, KeepsStopped
=============================================================================
