-------------------------------- MODULE Otp ---------------------------------
(***************************************************************************)
(* OtpValidator (src/src/security/otp.cpp), one per process: the secret it *)
(* reads or makes (from_config) and the codes it accepts (validate).       *)
(*                                                                         *)
(* A code is the counter it was computed for: the codes of two counters of *)
(* a secret are taken to be different, and so are all codes of different   *)
(* secrets.  What is no code of the validator's secret is "a wrong code".  *)
(***************************************************************************)
EXTENDS Integers

CONSTANTS
    Processes,
    Counters,    \* the counters codes are presented for
    Step,        \* max(token_ttl_secs, 1)
    CacheValid,  \* cache_valid_secs
    MaxSecrets,  \* bound: secrets made
    MaxTime      \* bound: the clock

ASSUME OtpAssumption ==
    /\ Counters \subseteq Nat
    /\ Step \in Nat \ {0}
    /\ CacheValid \in Nat

VARIABLES
    clock,      \* unix_timestamp_now
    secretFile, \* what is in it: NoSecret without a file, Garbled, or a secret
    made,       \* the number of secrets made; the last one is this number
    otp,        \* per process: "none", "enrolling" before its secret is written, "up"
    secret,     \* per process: secret_
    cache,      \* per process and code: cached_codes_, NotCached for no entry
    shown,      \* history: the secrets whose uri has been returned
    unshown     \* history: those in the file when their process ended before that

hvars == <<shown, unshown>>
ovars == <<clock, secretFile, made, otp, secret, cache, hvars>>

\* A file that is empty or cut within the nonce or a byte cannot be read as a secret; one
\* cut later can, as the beginning of the secret it was to hold.
NoSecret  == [is |-> "none", of |-> 0]
Garbled   == [is |-> "garbled", of |-> 0]
Whole(n)  == [is |-> "whole", of |-> n]
CutShort(n) == [is |-> "cut", of |-> n]
Secrets   == [is : {"whole", "cut"}, of : 1..made]
NotCached == -1

OtpType ==
    /\ clock \in Nat
    /\ made \in Nat
    /\ secretFile \in {NoSecret, Garbled} \cup Secrets
    /\ otp \in [Processes -> {"none", "enrolling", "up"}]
    /\ secret \in [Processes -> {NoSecret} \cup Secrets]
    /\ \A p \in Processes : otp[p] = "enrolling" => secret[p] \in Secrets
    /\ cache \in [Processes -> [Counters -> Int]]
    /\ shown \subseteq 1..made /\ unshown \subseteq 1..made

EmptyCache == [c \in Counters |-> NotCached]

OtpInit ==
    /\ clock = 0
    /\ secretFile = NoSecret
    /\ made = 0
    /\ otp = [p \in Processes |-> "none"]
    /\ secret = [p \in Processes |-> NoSecret]
    /\ cache = [p \in Processes |-> EmptyCache]
    /\ shown = {} /\ unshown = {}

-----------------------------------------------------------------------------
(* from_config; with a garbled file it throws *)

\* Mutant: a secret that is taken as it is, without decoding it.
ReadUndecoded(p) ==
    /\ otp[p] = "none"
    /\ secretFile # NoSecret
    /\ otp' = [otp EXCEPT ![p] = "up"]
    /\ secret' = [secret EXCEPT ![p] = secretFile]
    /\ UNCHANGED <<clock, secretFile, made, cache, hvars>>

ReadSecret(p) ==
    /\ otp[p] = "none"
    /\ secretFile \notin {NoSecret, Garbled}
    /\ otp' = [otp EXCEPT ![p] = "up"]
    /\ secret' = [secret EXCEPT ![p] = secretFile]
    /\ UNCHANGED <<clock, secretFile, made, cache, hvars>>

\* Mutant: the secret is made anew whatever is in the file.
MakeAnother(p) ==
    /\ otp[p] = "none"
    /\ made < MaxSecrets
    /\ made' = made + 1
    /\ otp' = [otp EXCEPT ![p] = "enrolling"]
    /\ secret' = [secret EXCEPT ![p] = Whole(made + 1)]
    /\ UNCHANGED <<clock, secretFile, cache, hvars>>

MakeSecret(p) ==
    /\ otp[p] = "none"
    /\ secretFile = NoSecret /\ made < MaxSecrets
    /\ made' = made + 1
    /\ otp' = [otp EXCEPT ![p] = "enrolling"]
    /\ secret' = [secret EXCEPT ![p] = Whole(made + 1)]
    /\ UNCHANGED <<clock, secretFile, cache, hvars>>

\* The file after a write that nobody looks at: written, not opened, opened and nothing
\* written, or cut short.
Written(p) == {secret[p], secretFile, Garbled, CutShort(secret[p].of)}

\* Whatever became of the write, the validator is up and the uri is returned.
WriteSecret(p) ==
    /\ otp[p] = "enrolling"
    /\ secretFile' \in Written(p)
    /\ otp' = [otp EXCEPT ![p] = "up"]
    /\ shown' = shown \cup {secret[p].of}
    /\ UNCHANGED <<clock, made, secret, cache, unshown>>

\* The process ends, maybe before, within or after the write and before the uri is
\* returned.
OtpEnds(p) ==
    /\ secretFile' \in IF otp[p] = "enrolling" THEN Written(p) ELSE {secretFile}
    /\ unshown' = IF otp[p] = "enrolling" /\ secretFile' = secret[p]
                  THEN unshown \cup {secret[p].of} ELSE unshown
    /\ otp' = [otp EXCEPT ![p] = "none"]
    /\ secret' = [secret EXCEPT ![p] = NoSecret]
    /\ cache' = [cache EXCEPT ![p] = EmptyCache]
    /\ UNCHANGED <<clock, made, shown>>

Tick ==
    /\ clock < MaxTime
    /\ clock' = clock + 1
    /\ UNCHANGED <<secretFile, made, otp, secret, cache, hvars>>

-----------------------------------------------------------------------------
(* validate.  It reads the clock once, and another call between its look at the *)
(* cache and its entry would change neither answer nor bound: one step. *)

CacheHit(p, c) == cache[p][c] >= clock

\* The counters whose codes are accepted at t: the last, the current and the next
Window(t) ==
    LET counter == t \div Step
    IN  {IF counter > 0 THEN counter - 1 ELSE 0, counter, counter + 1}

Accepts(p, c) == CacheHit(p, c) \/ c \in Window(clock)

\* Expired entries go at every call.
Swept(p) == [c \in Counters |-> IF cache[p][c] < clock THEN NotCached ELSE cache[p][c]]

\* The cache if a hit counted as a new use.
CacheProlonged(p, c) == [Swept(p) EXCEPT ![c] = clock + CacheValid]

\* A hit leaves its entry as it is.
CacheAfter(p, c) ==
    IF CacheHit(p, c) THEN Swept(p) ELSE [Swept(p) EXCEPT ![c] = clock + CacheValid]

-----------------------------------------------------------------------------
(* Properties *)

\* A code opens for a bounded time, however often it is presented: from one step
\* before its own to two steps after its beginning, and then for cache_valid_secs.
CodeLifetime ==
    \A p \in Processes, c \in Counters : Accepts(p, c) =>
        /\ (c - 1) * Step <= clock
        /\ clock < (c + 2) * Step + CacheValid

Single == \A p, q \in Processes : p = q

\* The authenticator of whoever was shown a secret stays the right one: a validator has a
\* secret whose uri was returned, and with one process the one returned last, through
\* writes that are lost and ends of the process.  The two exceptions are the ways in
\* which from_config breaks this: it takes a secret cut short by the write it does not
\* look at for a secret (otp.cpp:274-275, 288-290), and one that a process wrote and did
\* not live to show.
SecretWasShown ==
    \A p \in Processes : otp[p] = "up" =>
        \/ secret[p].is = "cut"
        \/ secret[p].of \in unshown
        \/ /\ secret[p].of \in shown
           /\ Single => \A n \in shown : n <= secret[p].of
=============================================================================
