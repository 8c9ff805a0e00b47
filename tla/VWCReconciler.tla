--------------------------- MODULE VWCReconciler ----------------------------
(***************************************************************************)
(* The reconciler of the ValidatingWebhookConfiguration on its elected     *)
(* leader, between the other writers of that object: a GitOps applier of   *)
(* the manifest, cert-manager's injector, and people.                      *)
(*                                                                         *)
(* Reconcile is cut at its two calls of the API: Get, from the informer    *)
(* cache, and Apply.  Between and after them the leader may be lost, and   *)
(* with it the queue, the timer and an event that was about to be sent.    *)
(***************************************************************************)
EXTENDS WebhookConfig

CONSTANTS
    None,
    Deployments,  \* what may be deployed: the flags, and the manifest's values
    Edits,        \* the edits by hand of an entry: the fields they overwrite
    MaxChanges,   \* bound: deletions, edits and rollouts
    MaxFaults,    \* bound: failed calls and lost leaders
    MaxWatch      \* bound: events the informer is behind

VARIABLES
    stored,      \* the configuration in the API server, or NoConfig
    deployment,  \* what is deployed
    leader,      \* the deployment whose flags the leader runs with, or None without one
    watch,       \* events on their way to the leader's informer
    cached,      \* the informer holds the configuration
    queued,      \* the workqueue holds the one request
    timer,       \* what re-adds it: "no", "backoff" or "resync"
    pc,          \* Reconcile: "idle", "apply" after Get, "report" after Apply
    recreating,  \* Reconcile's variable of that name
    silent,      \* history: recreated by Apply, and no ConfigRecreated since
    budget

api == <<stored, watch, silent>>
loop == <<cached, queued, timer, pc, recreating>>
vars == <<stored, deployment, leader, watch, cached, queued, timer, pc, recreating, silent, budget>>

ASSUME DeploymentsAssumption ==
    /\ Deployments # {} /\ None \notin Deployments
    /\ {MaxChanges, MaxFaults, MaxWatch} \subseteq Nat

\* The values of the fields that matter below.
Values ==
    [failurePolicy |-> {"Ignore", "Fail"}, timeoutSeconds |-> Nat,
     operations |-> SUBSET wildcardRules, caBundle |-> BOOLEAN]

\* Flags may be empty, the chart's values are not; an edit writes legal values.
Settings(policies) ==
    [namespace : STRING, extraExcludedNamespaces : Seq(STRING),
     failurePolicy : policies, timeoutSeconds : Nat]

ASSUME ValuesAssumption ==
    /\ \A d \in Deployments :
          /\ d.flags \in Settings(Values.failurePolicy \cup {Unset})
          /\ d.values \in Settings(Values.failurePolicy)
    /\ \A edit \in Edits :
          \A f \in DOMAIN edit : f \in Fields /\ (f \in DOMAIN Values => edit[f] \in Values[f])

\* A stored configuration: its inject-ca-from annotation, its webhooks by name.
Config(annotated, webhooks) ==
    [exists |-> TRUE, annotated |-> annotated, webhooks |-> webhooks]
NoConfig == [exists |-> FALSE, annotated |-> FALSE, webhooks |-> << >>]

Entry(name) ==
    IF name \in DOMAIN stored.webhooks THEN stored.webhooks[name] ELSE Default

Applied(annotated, entries, declared) ==
    Config(annotated \/ stored.annotated,
           [name \in EntryNames |-> ApplyOver(Entry(name), entries[name], declared)])

\* What the flags and the manifest of a deployment make of each entry.
OwnEntries ==
    [d \in Deployments |-> [name \in EntryNames |-> buildWebhookEntry(FlagsFor(d.flags), name)]]
ManifestEntries ==
    [d \in Deployments |-> [name \in EntryNames |-> ChartEntry(d.values, name)]]

\* The API server stores config and tells the watch, unless nothing changes.
Store(config) ==
    /\ Len(watch) < MaxWatch
    /\ stored' = config
    /\ watch' = IF leader = None \/ config = stored THEN watch
                ELSE Append(watch, IF ~stored.exists THEN "create"
                                   ELSE IF ~config.exists THEN "delete" ELSE "update")

Spend(what) == budget[what] > 0 /\ budget' = [budget EXCEPT ![what] = @ - 1]

Init ==
    /\ stored = NoConfig /\ deployment \in Deployments
    /\ leader = None /\ watch = << >> /\ cached = FALSE
    /\ queued = FALSE /\ timer = "no" /\ pc = "idle" /\ recreating = FALSE
    /\ silent = FALSE
    /\ budget = [changes |-> MaxChanges, faults |-> MaxFaults]

----------------------------------------------------------------------------
\* The other writers.

ManifestApplied ==
    LET config == Applied(TRUE, ManifestEntries[deployment], Fields \ {"caBundle"})
    IN  /\ config # stored
        /\ Store(config)
        /\ silent' = FALSE
        /\ UNCHANGED <<deployment, leader, loop, budget>>

\* cert-manager's injector completes an annotated configuration.
Inject ==
    /\ stored.annotated
    /\ LET Injected(entry) == [entry EXCEPT !.caBundle = TRUE]
           webhooks == [name \in DOMAIN stored.webhooks |-> Injected(stored.webhooks[name])]
       IN  webhooks # stored.webhooks /\ Store(Config(TRUE, webhooks))
    /\ UNCHANGED <<deployment, leader, loop, silent, budget>>

Deleted ==
    /\ stored.exists /\ Store(NoConfig) /\ silent' = FALSE
    /\ Spend("changes") /\ UNCHANGED <<deployment, leader, loop>>

\* Somebody overwrites fields of an entry, or takes the entry out.
Edited ==
    /\ \E name \in DOMAIN stored.webhooks :
          LET Kept == DOMAIN stored.webhooks \ {name}
              Without == [other \in Kept |-> stored.webhooks[other]]
              With(edit) == [stored.webhooks EXCEPT ![name] = ApplyOver(@, edit, DOMAIN edit)]
          IN  \E webhooks \in {Without} \cup {With(edit) : edit \in Edits} :
                 webhooks # stored.webhooks /\ Store(Config(stored.annotated, webhooks))
    /\ Spend("changes") /\ UNCHANGED <<deployment, leader, loop, silent>>

\* New flags and a new manifest; the pod with the old flags goes with the next crash.
Rollout ==
    /\ deployment' \in Deployments \ {deployment}
    /\ Spend("changes") /\ UNCHANGED <<api, leader, loop>>

----------------------------------------------------------------------------
\* The leader.

Idle == pc = "idle"

\* The lease is lost or the process ends; what it held in memory is gone.
Stop ==
    /\ leader' = None /\ watch' = << >> /\ cached' = FALSE
    /\ queued' = FALSE /\ timer' = "no" /\ pc' = "idle" /\ recreating' = FALSE

LeaderLost ==
    /\ leader # None /\ Stop
    /\ Spend("faults") /\ UNCHANGED <<stored, deployment, silent>>

\* The Deployment replaces a pod that runs other flags.
Replaced ==
    /\ leader # None /\ leader.flags # deployment.flags /\ Stop
    /\ UNCHANGED <<stored, deployment, silent, budget>>

\* The controller starts: its informer lists, and what exists is a create event.
Elect ==
    /\ leader = None
    /\ leader' = deployment
    /\ cached' = stored.exists /\ queued' = stored.exists
    /\ UNCHANGED <<stored, deployment, watch, timer, pc, recreating, silent, budget>>

\* SetupWithManager: what a watch event starts.
\* Mutants: updates count; deletions do not.
AnyEvent(event) == TRUE
CreateOnly(event) == event = "create"
Reacts(event) == event \in {"create", "delete"}

Deliver ==
    /\ watch # << >>
    /\ cached' = (Head(watch) # "delete")
    /\ queued' = (queued \/ Reacts(Head(watch)))
    /\ watch' = Tail(watch)
    /\ UNCHANGED <<stored, deployment, leader, timer, pc, recreating, silent, budget>>

\* The delaying queue keeps the earlier of two delays.
Sooner(kind) == IF "backoff" \in {timer, kind} THEN "backoff" ELSE kind

\* Reconcile up to Apply: only NotFound counts as absent.
Get ==
    /\ Idle /\ queued
    /\ queued' = FALSE /\ pc' = "apply" /\ recreating' = ~cached
    /\ UNCHANGED <<stored, deployment, leader, watch, cached, timer, silent, budget>>

GetFails ==
    /\ Idle /\ queued
    /\ queued' = FALSE /\ pc' = "apply" /\ recreating' = FALSE
    /\ Spend("faults") /\ UNCHANGED <<stored, deployment, leader, watch, cached, timer, silent>>

Reassert ==
    /\ Store(Applied(FALSE, OwnEntries[leader], Declared))
    /\ silent' = (silent \/ ~stored.exists)

Apply ==
    /\ pc = "apply" /\ Reassert
    /\ pc' = "report"
    /\ UNCHANGED <<deployment, leader, cached, queued, timer, recreating, budget>>

\* Reconcile returns the error and the queue retries with backoff.
\* Mutant: the error is logged and dropped.
DropError == pc' = "idle" /\ recreating' = FALSE /\ timer' = timer
ReturnError == pc' = "idle" /\ recreating' = FALSE /\ timer' = Sooner("backoff")

\* Apply is refused, or it is answered too late: then the configuration is stored.
ApplyFails ==
    /\ pc = "apply"
    /\ Reassert \/ UNCHANGED api
    /\ ReturnError
    /\ Spend("faults") /\ UNCHANGED <<deployment, leader, cached, queued>>

\* The events, and RequeueAfter.
\* Mutant: nothing asks for the next resync.
WithoutRequeue == timer
RequeueAfter == Sooner("resync")

Report ==
    /\ pc = "report"
    /\ silent' = (silent /\ ~recreating)
    /\ pc' = "idle" /\ recreating' = FALSE /\ timer' = RequeueAfter
    /\ UNCHANGED <<stored, deployment, leader, watch, cached, queued, budget>>

Due(kind) ==
    /\ timer = kind
    /\ timer' = "no" /\ queued' = TRUE
    /\ UNCHANGED <<stored, deployment, leader, watch, cached, pc, recreating, silent, budget>>

Next ==
    \/ ManifestApplied \/ Inject \/ Deleted \/ Edited \/ Rollout
    \/ LeaderLost \/ Replaced \/ Elect
    \/ Deliver \/ Get \/ GetFails \/ Apply \/ ApplyFails \/ Report
    \/ Due("backoff") \/ Due("resync")

Spec == Init /\ [][Next]_vars

(***************************************************************************)
(* A leader is elected, the informer delivers, the worker runs, a backoff  *)
(* ends and the injector works.  The intervals of the two appliers are     *)
(* apart from this: a promise that says "at once" must hold without the    *)
(* resync, and one about the resync without the manifest's applier.        *)
(***************************************************************************)
Prompt ==
    /\ WF_vars(Elect) /\ WF_vars(Replaced) /\ WF_vars(Deliver)
    /\ WF_vars(Get) /\ WF_vars(Apply) /\ WF_vars(Report)
    /\ WF_vars(Due("backoff")) /\ WF_vars(Inject)
Resyncs == WF_vars(Due("resync"))
Reapplies == WF_vars(ManifestApplied)

PromptSpec == Spec /\ Prompt

----------------------------------------------------------------------------
AnEntry(entry) ==
    /\ DOMAIN entry = Fields
    /\ \A f \in DOMAIN Values : entry[f] \in Values[f]

TypeOK ==
    /\ stored = NoConfig \/ stored = Config(stored.annotated, stored.webhooks)
    /\ stored.annotated \in BOOLEAN /\ DOMAIN stored.webhooks \subseteq EntryNames
    /\ \A name \in DOMAIN stored.webhooks : AnEntry(stored.webhooks[name])
    /\ deployment \in Deployments
    /\ leader \in {None} \cup Deployments
    /\ watch \in Seq({"create", "update", "delete"})
    /\ timer \in {"no", "backoff", "resync"} /\ pc \in {"idle", "apply", "report"}
    /\ {cached, queued, recreating, silent} \subseteq BOOLEAN
    /\ budget \in [changes : 0 .. MaxChanges, faults : 0 .. MaxFaults]

(***************************************************************************)
(* A leader of an existing configuration never goes to sleep for good: an  *)
(* event, the queue, a reconcile or a timer is ahead of it, whatever fails *)
(* and in whatever order events come (Reconcile's returns; SetupWithManager *)
(* ignores updates, so nothing else would repair an edit).                 *)
(***************************************************************************)
NeverStranded ==
    leader # None /\ stored.exists =>
        queued \/ pc # "idle" \/ timer # "no" \/ Contains(watch, "create")

(***************************************************************************)
(* A configuration without a bundle never fails closed, unless the flags   *)
(* or a manifest say so: it would deny every write of a Flux-labelled      *)
(* object cluster-wide (buildWebhookEntry, lines 164-170).                 *)
(***************************************************************************)
FailsOpenWithoutBundle ==
    \A name \in DOMAIN stored.webhooks :
        ~stored.webhooks[name].caBundle => stored.webhooks[name].failurePolicy = "Ignore"

(***************************************************************************)
(* The reconciler and the manifest's applier leave the injected bundle     *)
(* where it is: only a deletion or an edit by hand loses it.               *)
(***************************************************************************)
Armed(name) == name \in DOMAIN stored.webhooks /\ stored.webhooks[name].caBundle

BundleKept ==
    [][\A name \in EntryNames :
          Armed(name) /\ ~Armed(name)' => budget'.changes < budget.changes]_vars

(***************************************************************************)
(* What the reconciler stores sends the webhook every write of a           *)
(* Flux-labelled object, cluster-scoped ones included, and nothing else:   *)
(* not the control plane's namespaces, not its own (a webhook that must    *)
(* admit its own pod's objects deadlocks), not the operator's extras, not  *)
(* the excluded group (excludedNamespaces, buildWebhookEntry).             *)
(***************************************************************************)
ProbeGroups == {"apps"} \cup ExcludedGroups
Requests(namespaces) ==
    [op : {"CREATE", "UPDATE", "DELETE"}, namespace : namespaces,
     labels : SUBSET {KustomizeLabelName, HelmLabelName}, group : ProbeGroups]

OutOfScope(flags) ==
    (ToSet(BuiltinExclusions) \cup {flags.namespace} \cup ToSet(flags.extraExcludedNamespaces))
        \ {Unset}

MustIntercept(request, flags) ==
    /\ request.labels # {}
    /\ request.namespace \notin OutOfScope(flags)
    /\ request.group \notin ExcludedGroups

ProbeNamespaces(flags) ==
    {"apps", "kube-system", flags.namespace, Unset} \cup ToSet(flags.extraExcludedNamespaces)

InterceptsFluxWrites ==
    [][pc = "apply" /\ pc' = "report" =>
         \A request \in Requests(ProbeNamespaces(leader.flags)) :
            (\E name \in EntryNames : Intercepts(stored'.webhooks[name], request))
               <=> MustIntercept(request, leader.flags)]_vars

----------------------------------------------------------------------------
(***************************************************************************)
(* No loop: once people leave the configuration alone the reconciler comes *)
(* to rest between two resyncs, even while the manifest disagrees with its *)
(* flags and each applier takes the fields back (SetupWithManager).        *)
(***************************************************************************)
NoLoop == <>[](pc = "idle" /\ ~queued) \/ []<><<Due("resync")>>_vars

(***************************************************************************)
(* A configuration deleted under a leader comes back without waiting for   *)
(* the resync or for the manifest, unless the leader goes too              *)
(* (README.md:704-708, SetupWithManager).                                  *)
(***************************************************************************)
Recreated ==
    (leader # None /\ ~stored.exists /\ Contains(watch, "delete"))
        ~> (stored.exists \/ leader = None)

(***************************************************************************)
(* An edit by hand does not outlive the resync, without any help of the    *)
(* manifest's applier (Reconcile: "re-asserting the configuration").       *)
(***************************************************************************)
AsFlagged ==
    \A name \in EntryNames :
        /\ name \in DOMAIN stored.webhooks
        /\ \A f \in Declared :
              stored.webhooks[name][f] = OwnEntries[deployment][name][f]

EditsUndone == Resyncs => []<>(~stored.exists \/ AsFlagged)

(***************************************************************************)
(* The configuration ends complete: the deployed values in every entry and *)
(* the injected bundle, through crashes, failed calls, edits, deletions    *)
(* and rollouts.  It takes the resync, because updates are ignored, and    *)
(* two appliers that write the same values (webhook_config.go:164-170).    *)
(***************************************************************************)
Complete ==
    \A name \in EntryNames :
        Entry(name) = [ManifestEntries[deployment][name] EXCEPT !.caBundle = TRUE]

\* The flags say what the manifest says, or leave its defaults to the program.
FlagsMatch ==
    LET Given(flag, empty, default) == IF flag = empty THEN default ELSE flag
    IN  deployment.values = [deployment.flags EXCEPT
            !.failurePolicy = Given(@, Unset, "Ignore"), !.timeoutSeconds = Given(@, 0, 3)]

EndsComplete == Resyncs /\ Reapplies => <>[](FlagsMatch => Complete)

----------------------------------------------------------------------------
(***************************************************************************)
(* webhook_config.go:177-178: "the ConfigRecreated Warning event makes     *)
(* that window observable": once the reconciler has nothing left to do, a  *)
(* configuration it recreated has been announced.                          *)
(***************************************************************************)
RecreationObservable ==
    silent => pc # "idle" \/ queued \/ timer = "backoff" \/ watch # << >>
=============================================================================
