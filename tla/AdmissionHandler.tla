-------------------------- MODULE AdmissionHandler --------------------------
(***************************************************************************)
(* One guarded object, the writers that race for it, and the webhook that  *)
(* judges each write while the informer cache lags behind the cluster.     *)
(*                                                                         *)
(* A request is submitted against the object as it is, then blocks in each *)
(* read of the cache its evaluation needs, and is committed by the API     *)
(* server only if the object is still the one the webhook saw (admission   *)
(* is run again on a conflict, so a stale write is simply dropped here).   *)
(* The API server, Flux and the clients are external: they do what the     *)
(* handler's comments and tests say of them.                               *)
(***************************************************************************)
EXTENDS HandlerDecisions

CONSTANTS
    None,            \* no object, no manifest, no call
    Slots,           \* admission calls in flight
    Clients,         \* requesters that are not the owning reconciler
    FluxController,  \* the core controller's userInfo
    FluxManager,     \* its field manager
    NamespaceController,
    Me,              \* the label value of the object's owner
    OwnerLabel,      \* the owner label Me writes: KustomizeLabel or HelmLabel
    ServiceAccounts, \* values of the owner's .spec.serviceAccountName, "" included
    IgnoreSets,      \* what the owner's .spec.ignore evaluates to for the object
    Manifests,       \* what Git may declare for the object
    ClientDocs,      \* what a client may create
    ClientEdits,     \* what a client may change in one request: partial documents
    Releases,        \* Flux-owned paths a client may drop from managedFields
    RequestFaults,   \* payload faults considered
    ScaleLeaves,     \* leaves the scale subresource writes
    AuditOnly,       \* --audit-only
    FailOpen,        \* failurePolicy is Ignore
    FetchTimeout,    \* NamespaceFetchTimeout, seconds
    WebhookTimeout,  \* timeoutSeconds of the webhook configuration
    MaxRequests,     \* bound: client requests
    MaxChanges,      \* bound: changes of Git, owner and namespace
    MaxFaults        \* bound: failed reads and lost calls

Identities == [username : Seq(STRING), inGroup : BOOLEAN]

\* The provers know nothing of what STRING holds.
ASSUME LiteralsAssumption == "system" \in STRING /\ "serviceaccount" \in STRING

ASSUME AdmissionAssumption ==
    /\ Clients \cup {FluxController, NamespaceController} \subseteq Identities
    /\ FluxManager \in Seq(STRING) /\ isFluxFieldManager(FluxManager)
    /\ IsFluxController(FluxController)
    /\ Me \in Owners /\ OwnerLabel \in {KustomizeLabel, HelmLabel}
    /\ ServiceAccounts \subseteq STRING
    /\ Manifests \subseteq Docs /\ ClientDocs \subseteq Docs
    /\ \A edit \in ClientEdits : \A l \in DOMAIN edit :
          l \in Leaves /\ edit[l] \in Values \cup {Absent}
    /\ \A released \in Releases : released \subseteq Paths
    /\ RequestFaults \subseteq Faults
    /\ AuditOnly \in BOOLEAN /\ FailOpen \in BOOLEAN
    /\ {FetchTimeout, WebhookTimeout, MaxRequests, MaxChanges, MaxFaults} \subseteq Nat

(***************************************************************************)
(* What protection rests on.  No leaf lies below another or below the      *)
(* depth bound, and {} is not a leaf value; every manifest carries its     *)
(* owner's label (Flux adds it); no ignore rule covers that label; and no  *)
(* client authenticates as a reconciler of an owner it can name.           *)
(***************************************************************************)
ASSUME ProtectionAssumption ==
    /\ \A k, l \in Leaves : ~IsStrictPrefix(k, l)
    /\ \A l \in Leaves : Len(l) <= MaxDiffDepth
    /\ EmptyMap \notin Values \cup {Absent}
    /\ \A m \in Manifests : m[OwnerLabel] = Me
    /\ \A ignore \in IgnoreSets \ {Malformed} :
          ignore \subseteq Paths /\ \A i \in ignore : ~IsPrefix(i, OwnerLabel)
    /\ \A user \in Clients \cup {NamespaceController} :
          /\ ~IsFluxController(user)
          /\ \A v \in Values :
                ParseServiceAccount(user).ns = OwnerNamespace[v] =>
                   ParseServiceAccount(user).name
                      \notin fluxReconcilerServiceAccounts \cup (ServiceAccounts \ {""})

VARIABLES
    obj,      \* the object in the API server, or None
    git,      \* the manifest in Git, or None once removed from it
    owner,    \* the owning Kustomization or HelmRelease
    ns,       \* the object's namespace
    cache,    \* the informer copies of owner and ns
    calls,    \* the admission calls in flight
    applied,  \* history: what Flux applied last and nobody was since allowed to change
    budget    \* what is left of the bounds

vars == <<obj, git, owner, ns, cache, calls, applied, budget>>

OwnerKind == IF OwnerLabel = KustomizeLabel THEN "kustomization" ELSE "helmrelease"

Nothing == [l \in Leaves |-> Absent]
DeclaredLeaves(m) == { l \in Leaves : Present(m, l) }

Owner == [sa : ServiceAccounts, ignore : IgnoreSets, inventory : {"empty", "listed", "others"}]
NS == [labelled : BOOLEAN, terminating : BOOLEAN]

\* Without --namespace-label nobody looks at the label.
Labellings == IF NamespaceLabel THEN BOOLEAN ELSE {TRUE}

Entry(manager, operation, fields) ==
    [manager |-> manager, operation |-> operation, fields |-> fields]

----------------------------------------------------------------------------
\* The API server (external): what a write makes of the object.

\* An update by a client: the leaves it changes leave Flux's entries before
\* admission, and its managedFields may drop more.
ClientWrites(o, edit, released) ==
    LET changed == { l \in DOMAIN edit : edit[l] # o.doc[l] }
    IN  [o EXCEPT
          !.doc = [l \in Leaves |-> IF l \in DOMAIN edit THEN edit[l] ELSE o.doc[l]],
          !.managedFields =
              { [e EXCEPT !.fields = @ \ (changed \cup released)] : e \in o.managedFields }]

\* A forced server-side apply of manifest m by Flux's manager: it takes what
\* it declares and drops what it no longer declares.
FluxWrites(o, m) ==
    LET mine == { e \in o.managedFields : e.manager = FluxManager /\ e.operation = "Apply" }
        dropped == UNION { e.fields : e \in mine }
        value(l) == IF Present(m, l) THEN m[l] ELSE IF l \in dropped THEN Absent ELSE o.doc[l]
    IN  [o EXCEPT
          !.doc = [l \in Leaves |-> value(l)],
          !.managedFields = (@ \ mine) \cup {Entry(FluxManager, "Apply", DeclaredLeaves(m))}]

NewObject(doc) == [doc |-> doc, managedFields |-> {}, deleting |-> FALSE]

----------------------------------------------------------------------------
Request(op, by, user, old, new) ==
    [op |-> op, by |-> by, user |-> user, old |-> old, new |-> new, declared |-> {},
     subresource |-> FALSE, derived |-> FALSE, fault |-> "none"]

\* A call: its request, where the handler is, the seconds its reads took,
\* and (history) what its reads returned: a namespace out of scope, the ignore
\* set, an inventory that lists the object.
Call(req) ==
    [req |-> req, decision |-> Handle(req), spent |-> 0,
     unlabelled |-> FALSE, ignore |-> {}, listed |-> FALSE]

Init ==
    /\ obj = None
    /\ git \in Manifests
    /\ owner \in [sa : ServiceAccounts, ignore : IgnoreSets, inventory : {"empty"}]
    /\ ns \in [labelled : Labellings, terminating : {FALSE}]
    /\ cache = [owner |-> owner, ns |-> ns]
    /\ calls = [s \in Slots |-> None]
    /\ applied = Nothing
    /\ budget = [requests |-> MaxRequests, changes |-> MaxChanges, faults |-> MaxFaults]

Spend(what) == budget[what] > 0 /\ budget' = [budget EXCEPT ![what] = @ - 1]

Submit(s, req) ==
    /\ calls[s] = None
    /\ calls' = [calls EXCEPT ![s] = Call(req)]
    /\ UNCHANGED <<obj, git, owner, ns, cache, applied>>

ClientCreate(s, user) ==
    /\ obj = None /\ ~ns.terminating
    /\ \E doc \in ClientDocs, derived \in BOOLEAN, fault \in RequestFaults :
          Submit(s, [Request("CREATE", "client", user, NewObject(Nothing), NewObject(doc))
                     EXCEPT !.derived = derived, !.fault = fault])
    /\ Spend("requests")

ClientUpdate(s, user) ==
    /\ obj # None
    /\ \E edit \in ClientEdits, released \in Releases, fault \in RequestFaults :
          LET new == ClientWrites(obj, edit, released)
          IN  /\ new # obj
              /\ Submit(s, [Request("UPDATE", "client", user, obj, new) EXCEPT !.fault = fault])
    /\ Spend("requests")

\* kubectl scale and autoscalers: a write of a subresource.
ClientScale(s, user) ==
    /\ obj # None
    /\ \E edit \in ClientEdits :
          /\ DOMAIN edit \subseteq ScaleLeaves
          /\ Submit(s, [Request("UPDATE", "client", user, obj, ClientWrites(obj, edit, {}))
                        EXCEPT !.subresource = TRUE])
    /\ Spend("requests")

ClientDelete(s, user) ==
    /\ obj # None
    /\ \E fault \in RequestFaults :
          Submit(s, [Request("DELETE", "client", user, obj, obj) EXCEPT !.fault = fault])
    /\ Spend("requests")

\* The namespace controller deletes every child of a terminating namespace.
NamespaceTeardown(s) ==
    /\ ns.terminating /\ obj # None /\ ~obj.deleting
    /\ Submit(s, Request("DELETE", "client", NamespaceController, obj, obj))
    /\ UNCHANGED budget

----------------------------------------------------------------------------
\* Flux reconciles as its controller, or as the owner's service account.
Reconciler ==
    IF owner.sa = "" THEN FluxController
    ELSE [username |-> <<"system", "serviceaccount", OwnerNamespace[Me], owner.sa>>,
          inGroup |-> TRUE]

FluxIdle == \A s \in Slots : calls[s] # None => calls[s].req.by # "flux"

\* kustomize-controller leaves a reconcile: disabled object alone.
FluxApply(s) ==
    /\ git # None /\ FluxIdle /\ ~ns.terminating
    /\ obj # None => /\ FluxWrites(obj, git) # obj
                     /\ ~obj.deleting
                     /\ ~(OwnerKind = "kustomization" /\ IsReconcileDisabled(obj.doc))
    /\ LET before == IF obj = None THEN NewObject(Nothing) ELSE obj
           op == IF obj = None THEN "CREATE" ELSE "UPDATE"
       IN  Submit(s, [Request(op, "flux", Reconciler, before, FluxWrites(before, git))
                      EXCEPT !.declared = DeclaredLeaves(git)])
    /\ UNCHANGED budget

\* Flux prunes what it applied, found by its labels.
FluxPrune(s) ==
    /\ git = None /\ FluxIdle /\ obj # None
    /\ ~obj.deleting /\ obj.doc[OwnerLabel] = Me
    /\ Submit(s, Request("DELETE", "flux", Reconciler, obj, obj))
    /\ UNCHANGED budget

\* After an apply or a prune the owner's status carries the new inventory.
FluxRecordsInventory ==
    /\ owner' = [owner EXCEPT !.inventory =
                   IF applied # Nothing THEN "listed" ELSE IF git = None THEN "others" ELSE @]
    /\ owner' # owner
    /\ UNCHANGED <<obj, git, ns, cache, calls, applied, budget>>

----------------------------------------------------------------------------
\* The cluster moves on; the cache follows when it likes.
GitChanges ==
    /\ git' \in (Manifests \cup {None}) \ {git}
    /\ Spend("changes")
    /\ UNCHANGED <<obj, owner, ns, cache, calls, applied>>

OwnerChanges ==
    /\ \E sa \in ServiceAccounts, ignore \in IgnoreSets :
          owner' = [owner EXCEPT !.sa = sa, !.ignore = ignore]
    /\ owner' # owner
    /\ Spend("changes")
    /\ UNCHANGED <<obj, git, ns, cache, calls, applied>>

NamespaceChanges ==
    /\ ns' \in {[ns EXCEPT !.terminating = TRUE]}
                 \cup { [ns EXCEPT !.labelled = label] : label \in Labellings }
    /\ ns' # ns
    /\ Spend("changes")
    /\ UNCHANGED <<obj, git, owner, cache, calls, applied>>

CacheSync ==
    /\ cache' \in { [cache EXCEPT !.owner = owner], [cache EXCEPT !.ns = ns] }
    /\ cache' # cache
    /\ UNCHANGED <<obj, git, owner, ns, calls, applied, budget>>

\* The last finalizer of a deleted object is gone.
Finalized ==
    /\ obj # None /\ obj.deleting
    /\ obj' = None /\ applied' = Nothing
    /\ UNCHANGED <<git, owner, ns, cache, calls, budget>>

----------------------------------------------------------------------------
\* The handler, blocked in Client.Get.

Reading(s) == calls[s] # None /\ calls[s].decision.step \in OwnerReads \cup NamespaceReads

\* The one owner of this model is Me's; another name is not found.
OwnerIsMine(req) ==
    FluxInfo(req).managedBy = OwnerKind /\ FluxInfo(req).controller = Me

Answered(call, found) ==
    [call EXCEPT
       !.decision = Resume(call.decision.step, call.req, found, cache.owner, cache.ns),
       !.unlabelled = @ \/ (call.decision.step = "scope" /\ found /\ ~cache.ns.labelled),
       !.ignore = IF call.decision.step = "ignore"
                  THEN driftIgnoreSet(found, cache.owner) ELSE @,
       !.listed = @ \/ (call.decision.step = "inventory" /\ found
                          /\ cache.owner.inventory = "listed")]

\* The cache answers; NotFound for an owner that does not exist.
Read(s) ==
    /\ Reading(s)
    /\ LET found == calls[s].decision.step \in NamespaceReads \/ OwnerIsMine(calls[s].req)
       IN  calls' = [calls EXCEPT ![s] = Answered(calls[s], found)]
    /\ UNCHANGED <<obj, git, owner, ns, cache, applied, budget>>

\* An immediate error: no permission, the object not in the cache yet.
ReadFails(s) ==
    /\ Reading(s)
    /\ calls' = [calls EXCEPT ![s] = Answered(calls[s], FALSE)]
    /\ Spend("faults")
    /\ UNCHANGED <<obj, git, owner, ns, cache, applied>>

Unanswered == [step |-> "unanswered", allowed |-> FALSE, reason |-> ""]

\* The read runs into its own timeout, and the call may run into the API server's.
ReadTimesOut(s) ==
    /\ Reading(s)
    /\ LET spent == calls[s].spent + FetchTimeout
       IN  calls' = [calls EXCEPT ![s] =
                       [IF spent > WebhookTimeout THEN [calls[s] EXCEPT !.decision = Unanswered]
                        ELSE Answered(calls[s], FALSE) EXCEPT !.spent = spent]]
    /\ Spend("faults")
    /\ UNCHANGED <<obj, git, owner, ns, cache, applied>>

\* The webhook's pod is gone before it answers.
CallLost(s) ==
    /\ Reading(s)
    /\ calls' = [calls EXCEPT ![s].decision = Unanswered]
    /\ Spend("faults")
    /\ UNCHANGED <<obj, git, owner, ns, cache, applied>>

----------------------------------------------------------------------------
\* The API server receives the response, or applies the failure policy.

Finished(s) == calls[s] # None /\ calls[s].decision.step \in {"decided", "unanswered"}

Admitted(call) ==
    IF call.decision.step = "unanswered" THEN FailOpen ELSE Response(call.decision, AuditOnly)

Current(req) ==
    IF req.op = "CREATE" THEN obj = None /\ ~ns.terminating ELSE obj = req.old

(***************************************************************************)
(* What README.md and the handler's comments exempt from protection, told  *)
(* from the object, the configuration and what the reads returned, never   *)
(* from the reason the handler gave.                                       *)
(***************************************************************************)
Exempt(call) ==
    LET req == call.req
        before == req.old.doc
    IN  \/ call.decision.step = "unanswered"
        \/ AuditOnly
        \/ ExcludedGroup \/ Namespace = "excluded"
        \/ call.unlabelled
        \/ req.subresource
        \/ HasBypassAnnotation(before)
        \/ Present(before, KustomizeLabel) /\ IsReconcileDisabled(before)

AppliedAfter(call) ==
    LET req == call.req
    IN  IF req.by = "flux"
        THEN [l \in Leaves |-> IF l \in req.declared THEN req.new.doc[l] ELSE Absent]
        ELSE IF req.op = "CREATE" \/ Exempt(call) THEN Nothing
        ELSE [l \in Leaves |-> IF \E i \in call.ignore : IsPrefix(i, l) THEN Absent ELSE applied[l]]

Return(s) ==
    /\ calls' = [calls EXCEPT ![s] = None]
    /\ UNCHANGED <<git, owner, ns, cache, budget>>

CommitWrite(s) ==
    /\ Finished(s) /\ Admitted(calls[s]) /\ Current(calls[s].req)
    /\ calls[s].req.op # "DELETE"
    /\ obj' = calls[s].req.new
    /\ applied' = AppliedAfter(calls[s])
    /\ Return(s)

\* An object without finalizers is gone at once, one with finalizers is marked.
CommitDelete(s) ==
    /\ Finished(s) /\ Admitted(calls[s]) /\ Current(calls[s].req)
    /\ calls[s].req.op = "DELETE"
    /\ \/ obj' = None /\ applied' = Nothing
       \/ obj' = [obj EXCEPT !.deleting = TRUE] /\ UNCHANGED applied
    /\ Return(s)

Refused(s) ==
    /\ Finished(s) /\ ~Admitted(calls[s])
    /\ Return(s) /\ UNCHANGED <<obj, applied>>

\* The object changed while the webhook was judging the write.
Conflicted(s) ==
    /\ Finished(s) /\ Admitted(calls[s]) /\ ~Current(calls[s].req)
    /\ Return(s) /\ UNCHANGED <<obj, applied>>

Handler(s) == Read(s) \/ CommitWrite(s) \/ CommitDelete(s) \/ Refused(s) \/ Conflicted(s)

Next ==
    \/ \E s \in Slots :
          \/ \E user \in Clients : \/ ClientCreate(s, user) \/ ClientUpdate(s, user)
                                  \/ ClientScale(s, user) \/ ClientDelete(s, user)
          \/ NamespaceTeardown(s) \/ FluxApply(s) \/ FluxPrune(s)
          \/ Read(s) \/ ReadFails(s) \/ ReadTimesOut(s) \/ CallLost(s)
          \/ CommitWrite(s) \/ CommitDelete(s) \/ Refused(s) \/ Conflicted(s)
    \/ FluxRecordsInventory
    \/ GitChanges \/ OwnerChanges \/ NamespaceChanges
    \/ CacheSync \/ Finalized

Spec == Init /\ [][Next]_vars

(***************************************************************************)
(* The handler and the API server answer what they were asked, the informer *)
(* delivers, Flux and the namespace controller come back, and finalizers   *)
(* are removed.  Clients and changes owe nothing.                          *)
(***************************************************************************)
Fairness ==
    /\ WF_vars(CacheSync) /\ WF_vars(Finalized)
    /\ \A s \in Slots : WF_vars(Handler(s))
    /\ WF_vars(\E s \in Slots : FluxApply(s) \/ FluxPrune(s))
    /\ WF_vars(\E s \in Slots : NamespaceTeardown(s))

LiveSpec == Spec /\ Fairness
=============================================================================
