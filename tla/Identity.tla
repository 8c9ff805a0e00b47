------------------------------ MODULE Identity ------------------------------
(***************************************************************************)
(* Who is asking: internal/webhook/auth.go, and the allow-list of control- *)
(* plane identities that cmd/webhook/main.go builds from its flag.         *)
(*                                                                         *)
(* A username or an allow-list entry is the sequence of its segments       *)
(* between colons: "system:apiserver" is <<"system", "apiserver">>.        *)
(* Splitting at ":" loses nothing, and every test the code makes (a prefix *)
(* that ends in a colon, strings.Split, equality) is a test on segments.   *)
(***************************************************************************)
EXTENDS Naturals, Sequences

CONSTANT FluxNamespace     \* --flux-namespace

fluxServiceAccounts ==
    {"kustomize-controller", "helm-controller", "source-controller",
     "notification-controller", "image-reflector-controller",
     "image-automation-controller"}

fluxReconcilerServiceAccounts == {"flux-reconciler"}

defaultSystemControllerServiceAccounts ==
    { <<"kube-system", sa>> : sa \in
        {"generic-garbage-collector", "endpoint-controller",
         "endpointslice-controller", "endpointslicemirroring-controller",
         "ttl-after-finished-controller", "cronjob-controller"} }
    \cup { <<"system", "apiserver">>, <<"system", "kube-controller-manager">> }

\* strings.HasPrefix(s, "system:") and strings.HasPrefix(s, "system:serviceaccount:")
SystemPrefixed(s) == Len(s) >= 2 /\ s[1] = "system"
ServiceAccountPrefixed(s) ==
    Len(s) >= 3 /\ s[1] = "system" /\ s[2] = "serviceaccount"

NoServiceAccount == [ok |-> FALSE, ns |-> "", name |-> ""]

(***************************************************************************)
(* userInfo is [username |-> segments, inGroup |-> BOOLEAN]; inGroup is    *)
(* membership of system:serviceaccounts, the one group the code looks at.  *)
(***************************************************************************)
ParseServiceAccount(userInfo) ==
    IF /\ ServiceAccountPrefixed(userInfo.username)
       /\ Len(userInfo.username) = 4
       /\ userInfo.inGroup
    THEN [ok |-> TRUE, ns |-> userInfo.username[3], name |-> userInfo.username[4]]
    ELSE NoServiceAccount

IsFluxController(userInfo) ==
    LET sa == ParseServiceAccount(userInfo)
    IN  sa.ok /\ sa.ns = FluxNamespace /\ sa.name \in fluxServiceAccounts

\* Mutant: without the inverse guard.
ShorthandUnguarded(userInfo, entries) ==
    LET sa == ParseServiceAccount(userInfo)
    IN  \/ /\ SystemPrefixed(userInfo.username)
           /\ ~ServiceAccountPrefixed(userInfo.username)
           /\ userInfo.username \in entries
        \/ sa.ok /\ <<sa.ns, sa.name>> \in entries

IsSystemController(userInfo, entries) ==
    LET sa == ParseServiceAccount(userInfo)
    IN  \/ /\ SystemPrefixed(userInfo.username)
           /\ ~ServiceAccountPrefixed(userInfo.username)
           /\ userInfo.username \in entries
        \/ /\ sa.ok
           /\ \E entry \in entries :
                 ~SystemPrefixed(entry) /\ entry = <<sa.ns, sa.name>>

(***************************************************************************)
(* mergeSystemControllerSAs: the tokens of the flag are joined to the      *)
(* defaults; one rejected token stops the program (MergeError).            *)
(***************************************************************************)
EmptySegment == ""

\* Mutant: the full form of a service account is let through.
FullFormAccepted(e) == ~SystemPrefixed(e) => Len(e) = 2 /\ e[1] # EmptySegment /\ e[2] # EmptySegment

EntryAccepted(e) ==
    /\ ~ServiceAccountPrefixed(e)
    /\ ~SystemPrefixed(e) => Len(e) = 2 /\ e[1] # EmptySegment /\ e[2] # EmptySegment

Blank == <<EmptySegment>>

MergeError(csv) ==
    \E e \in csv \ (defaultSystemControllerServiceAccounts \cup {Blank}) : ~EntryAccepted(e)

mergeSystemControllerSAs(csv) ==
    defaultSystemControllerServiceAccounts \cup (csv \ {Blank})
=============================================================================
