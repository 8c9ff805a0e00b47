------------------------------ MODULE AllowList -----------------------------
(***************************************************************************)
(* The control-plane allow-list over the life of a deployment: the program *)
(* is started with a flag value, runs with the merged entries or exits,    *)
(* and is restarted with another value.                                    *)
(***************************************************************************)
EXTENDS Identity, FiniteSets

CONSTANTS
    Segments,      \* what may stand between two colons, "" included
    MaxSegments    \* longest username or entry considered

\* Long enough for the username of a service account.
ASSUME AllowAssumption ==
    /\ {"system", "serviceaccount"} \subseteq Segments
    /\ MaxSegments \in Nat /\ MaxSegments >= 4

Names == UNION { [1..n -> Segments] : n \in 1..MaxSegments }
Users == [username : Names, inGroup : BOOLEAN]
FlagValues == { {} } \cup { {e} : e \in Names }   \* tokens are judged one by one

VARIABLES flag, running, entries
allowVars == <<flag, running, entries>>

AllowInit == flag = {} /\ running = FALSE /\ entries = {}

\* mergeSystemControllerSAs at startup; an invalid token is os.Exit(1).
Start(csv) ==
    /\ ~running
    /\ flag' = csv
    /\ running' = ~MergeError(csv)
    /\ entries' = IF MergeError(csv) THEN {} ELSE mergeSystemControllerSAs(csv)

Stop == running /\ running' = FALSE /\ entries' = {} /\ UNCHANGED flag

AllowNext == Stop \/ \E csv \in FlagValues : Start(csv)

AllowSpec == AllowInit /\ [][AllowNext]_allowVars

----------------------------------------------------------------------------
\* The identities a cluster can authenticate.  The API server authenticates a
\* service account as exactly system:serviceaccount:<ns>:<name>, in the group;
\* nobody else is in the group or carries that prefix, and no segment of a
\* username is empty.
Authenticated ==
    { u \in Users :
        /\ \A i \in DOMAIN u.username : u.username[i] # EmptySegment
        /\ u.inGroup <=> Len(u.username) = 4 /\ ServiceAccountPrefixed(u.username)
        /\ ServiceAccountPrefixed(u.username) => u.inGroup }

Matches(entry, u) == IsSystemController(u, {entry})

(***************************************************************************)
(* A namespace:name shorthand and a full username never stand for each     *)
(* other: no entry matches two identities, so a service account            *)
(* "apiserver" in a namespace "system" is not system:apiserver             *)
(* (IsSystemController's two prefix guards).                               *)
(***************************************************************************)
OneIdentityPerEntry ==
    \A e \in entries : Cardinality({ u \in Authenticated : Matches(e, u) }) <= 1

(***************************************************************************)
(* A program that starts has no inert entry: every token without an empty  *)
(* segment, and every default, whatever the flag says, names an identity   *)
(* that some request can carry and that is then let through                *)
(* (mergeSystemControllerSAs fails fast on an entry that "can never        *)
(* match").                                                                *)
(***************************************************************************)
NoInertEntry ==
    running => \A e \in flag \cup (defaultSystemControllerServiceAccounts \cap Names) :
        (\A i \in DOMAIN e : e[i] # EmptySegment) =>
            \E u \in Authenticated : Matches(e, u) /\ IsSystemController(u, entries)
=============================================================================
