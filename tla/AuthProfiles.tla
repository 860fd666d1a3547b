---------------------------- MODULE AuthProfiles ----------------------------
(***************************************************************************)
(* The file of auth profiles (src/src/auth/profiles.cpp) as data: what a   *)
(* load makes of it and what each operation of AuthProfilesStore changes   *)
(* between its load and its save.                                          *)
(*                                                                         *)
(* Of a profile its kind and its tokens are kept.  An access token is the  *)
(* time until which its provider honours it; `expires' is what the file    *)
(* says of it, if the provider's answer was `dated' (its expires_in is     *)
(* positive).  A refresh token is a number, 0 when there is none.          *)
(***************************************************************************)
EXTENDS Integers

CONSTANTS
    Ids,         \* profile ids, "provider:name"
    Providers,
    ProviderOf,  \* the provider in an id
    DefaultId,   \* per provider: the id of its profile "default"
    NoId,        \* no profile
    Shift        \* what a time gains when it is written and read again

ASSUME ProfilesAssumption ==
    /\ ProviderOf \in [Ids -> Providers]
    /\ DefaultId \in [Providers -> Ids]
    /\ NoId \notin Ids
    /\ Shift \in Int

Profile == [kind : {"none", "token", "oauth"}, refresh : Nat, dated : BOOLEAN,
            expires : Int, until : Int]

Bare(kind)  == [kind |-> kind, refresh |-> 0, dated |-> FALSE, expires |-> 0, until |-> 0]
NoProfile   == Bare("none")
StaticToken == Bare("token")
OAuth(refresh, until, dated) ==
    [kind |-> "oauth", refresh |-> refresh, dated |-> dated,
     expires |-> IF dated THEN until ELSE 0, until |-> until]

Data == [profiles : [Ids -> Profile], active : [Providers -> Ids \cup {NoId}]]

\* The profiles of a workspace that has no file
DefaultData == [profiles |-> [id \in Ids |-> NoProfile], active |-> [p \in Providers |-> NoId]]

Has(d, id) == d.profiles[id].kind # "none"

\* A time is written in UTC (gmtime) and read as local time (mktime): it comes back
\* shifted by the distance of the local time zone from UTC.
ReadBack(p) == IF p.dated THEN [p EXCEPT !.expires = @ + Shift] ELSE p

Loaded(d) == [profiles |-> [id \in Ids |-> ReadBack(d.profiles[id])], active |-> d.active]

WithProfile(d, id, p) == [d EXCEPT !.profiles = [@ EXCEPT ![id] = p]]

WithActive(d, provider, id) == [d EXCEPT !.active = [@ EXCEPT ![provider] = id]]

Upsert(d, id, p, setActive) ==
    WithProfile(IF setActive THEN WithActive(d, ProviderOf[id], id) ELSE d, id, p)

\* A removal as it would be if it left the active profiles alone.
RemoveOnly(d, id) == WithProfile(d, id, NoProfile)

Remove(d, id) ==
    [profiles |-> [d.profiles EXCEPT ![id] = NoProfile],
     active   |-> [p \in Providers |-> IF d.active[p] = id THEN NoId ELSE d.active[p]]]

\* The profile a request means: the one it names, or the active one, or the default
\* one, or the first of the provider (any of them here: their order is by name).
Selected(d, provider, override) ==
    LET Active == {d.active[provider]} \ {NoId}
        Live(s) == {id \in s : Has(d, id)}
    IN  IF override # NoId THEN Live({override})
        ELSE IF Live(Active) # {} THEN Live(Active)
        ELSE IF Has(d, DefaultId[provider]) THEN {DefaultId[provider]}
        ELSE Live({id \in Ids : ProviderOf[id] = provider})
=============================================================================
