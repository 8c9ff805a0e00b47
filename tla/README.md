# flux-drift-webhook in TLA+

A validating admission webhook that refuses manual changes to what Flux applied.
This directory models it, model-checks it with TLC and proves its central
promises with TLAPS. Paths below are relative to the repository's root; line
numbers are those of the commit modelled.

## 1. Inventory of the system

| Component | Source | State | Operations |
|---|---|---|---|
| Admission handler | `internal/webhook/handler.go` | none of its own; one goroutine per call, blocked in up to three reads of the informer cache | `Handle`, and below it the namespace scope, the ownership test, two bypasses, the three operation paths, the response |
| Field algebra | `internal/webhook/fields.go` | none | value diff, Flux's share of managedFields, conflict, waiver |
| Labels and annotations | `internal/webhook/labels.go`, `internal/config/config.go` | none | owner of an object, the two protection-disabling annotations |
| Identity and allow-list | `internal/webhook/auth.go`, `cmd/webhook/main.go:390-428` | the merged allow-list, fixed at startup | parse a service account, recognise Flux, recognise a control-plane controller, merge the flag |
| Ignore rules | `internal/webhook/ignore.go` | none | parse `.spec.ignore`, match a target, build the ignore set |
| Informer cache | `internal/webhook/cache.go`, `handler.go:379-407` | stripped copies of owners, metadata of namespaces | watch, transform, read |
| Webhook-configuration reconciler | `internal/controller/webhook_config.go` | the ValidatingWebhookConfiguration in the cluster; on the leader a one-request queue, a timer, an informer | `Reconcile` on create, delete and a timer |
| Startup and readiness | `cmd/webhook/main.go:163-351` | listener up, informers registered and synced, lease, ready | register, warm, start, check, exit |
| Flags and environment | `cmd/webhook/main.go:61-161, 353-447` | none | parse, validate, exit |
| Decision reasons, metrics | `internal/webhook/reasons.go`, `internal/metrics/metrics.go` | counters no decision reads | record |
| Chart, manifests, e2e | `charts/`, `deploy/`, `e2e/` | deployment data | none |

How they interact. The API server calls `Handle` once per write of a labelled
object, after it has transferred the ownership of changed fields to the writer
and before it stores anything. `Handle` reads its request and, when it needs the
owner or the namespace, the informer cache (`Client.Get` under a 2 s timeout).
The API server gives up after `timeoutSeconds` (3) and then follows the failure
policy. Flux, autoscalers, controllers and people are concurrent writers of the
same object; the owner, the namespace and the manifest in Git change on their own.

What is hard, and what makes each part correct:

* **Handler**: label stripping in the request that drifts, two-step bypasses,
  managedFields that shrink, stale and failing reads, a timeout that turns into
  an admission, squatting on names Flux will want, deletes that look alike.
  Correct when no field Flux applied changes hands or value outside the
  documented exemptions, when Flux is never locked out, and when nobody is
  denied over fields Flux does not own.
* **Field algebra**: the diff does not know list keys, managedFields does; type
  changes; the depth bound. Correct when it misses no owned change and makes
  up none.
* **Identity**: two syntaxes in one list. Correct when each entry is one
  identity and every accepted entry is one somebody can have.
* **Ignore rules**: evaluation order, malformed rules, pointers. Correct when a
  malformed matching rule waives nothing, in every order of evaluation.
* **Reconciler**: two appliers, a deleted configuration, an injector that must
  not be fought. Correct when the configuration comes back and the loop is quiet.
* **Startup**: traffic before the caches are warm, replicas that are not leader.
  Correct when no replica takes traffic cold, every replica serves in the end, and
  one of them, and only one, runs the reconciler.
* **Cache**: what the transform drops and what the handler reads are two lists in
  two files, and the tests read whole objects. Correct when nobody sees the difference.
* **Metrics**: an audit-only rollout is decided by them. Correct when every answer and
  every would-be denial is counted once, in every interleaving with a scrape.
* **Flags and chart**: four sources of one interval, one set of values that renders
  both the manifest and the flags. Correct when the most explicit source wins and
  the two appliers of the configuration are told the same.

The full list of hazards, each at its line with the properties that watch it, is
`hazards` in `PROJECT.json`.

## 2. Modules

```
Identity ----+                        AllowList (extends Identity)
             +--> HandlerDecisions --> AdmissionHandler --> AdmissionProperties --> DriftRefinement --> MCAdmission
FieldPaths --+          |                                          |                    |    ^
   |                    +--> AuditTrail --> MCAuditTrail            v                    v    | INSTANCE
   +--> FieldWalk ---.                    AdmissionHandler_proofs --> DriftProtection_proofs  | DriftGuard
   +--> FieldPaths_proofs ----------------^         (with DriftRefinement) ^

FieldWalk, IgnorePointers, IgnoreRules, OwnerCache, AllowList, StartupConfig --> MCFunctions
   and, with FieldPaths_proofs and Folds_proofs, --> Functions_proofs
WebhookConfig --> VWCReconciler --> MCReconciler and, with Folds_proofs, VWCReconciler_proofs
Readiness --> MCReadiness, Readiness_proofs              AuditTrail --> AuditTrail_proofs
```

The components meet where the code lets them: `HandlerDecisions` takes from
`.spec.ignore` the set `IgnoreRules` computes and from the cache the three fields
`OwnerCache` shows to survive; `VWCReconciler` takes the values `StartupConfig` and the
chart agree on, and is elected as `Readiness` allows (`SomeoneControls`,
`OneController`); what the API server does with a call (`AdmissionHandler`) is what the
configuration of `VWCReconciler` tells it.

* `Identity` -- `auth.go` and the merge of the flag as operators. A username or
  entry is the sequence of its segments between colons, which every test the code
  makes is a test of.
* `AllowList` -- the program started with a flag value, running or refused, and
  restarted with another.
* `FieldPaths` -- `fields.go` as set operators over field paths. A document gives
  every leaf path a value or `Absent`. The list of a keyed list is a path of its
  own (`ListPaths`): the value diff stops there, managedFields do not. A document
  is a tree (`Docs`).
* `FieldWalk` -- two documents edited leaf by leaf, and `diffMaps`/`diffValues` as
  the code recurses through them (`diffMaps[p]` is a recursive function), so that
  the set definition of `ComputeFieldDiff` is checked against the walk.
* `HandlerDecisions` -- `handler.go` as pure operators. The code between two cache
  reads is one operator, named after the function it is in or, after a read, for
  the answer it resumes with (`AfterScope`, `AfterOwner`, `AfterTerminating`,
  `AfterInventory`, `AfterIgnore`). It returns `Allow(reason)`, `Deny(reason)` or
  `Await(read)`. Functions that follow each other in one stretch are written from
  the last to the first.
* `AdmissionHandler` -- the state machine: one object, its owner, its namespace,
  its manifest in Git, the cached copies of owner and namespace, and the admission
  calls in flight.
* `AdmissionProperties` -- what is promised, with the inductive invariant.
* `DriftGuard` -- the abstract specification: one object, what Flux applied to it, and
  four kinds of step: Flux reconciles; somebody writes and keeps what is held, but for
  waived leaves, without arming an annotation; a write passes unjudged where the
  configuration or an annotation already on the object says so; the object goes away.
  No calls, no cache: it judges and commits in one step.
* `DriftRefinement` -- the refinement mapping, `AdmissionHandler` implements `DriftGuard`.
* `AuditTrail` -- the handler's decisions again, with the counters and the timer around
  them: one action per place that records (the four early returns of `Handle` and
  `buildResponse`), and in `buildResponse` one step per increment.
* `IgnoreRules` -- the evaluation of an owner's rules, entry by entry. A matcher of a
  target says match, mismatch or malformed of the object; which of several decides
  is a choice, as it is for Go's map iteration (`ignore.go:143`).
* `IgnorePointers` -- JSON pointers, character by character, because the order of two
  replacements is the point (`ignore.go:114-120`).
* `WebhookConfig` -- what the reconciler and the chart make of their settings, the server-side
  apply of an entry, and which requests an entry intercepts.
* `VWCReconciler` -- the stored configuration between its writers, see below.
* `Readiness` -- every replica from main to the Service's endpoints, and the lease.
* `StartupConfig` -- the settings with several sources or a check, and the chart's flags.
* `OwnerCache` -- an object through the informer's transform, and the reads of it.
* `MC*.tla`, `MC*.cfg` -- instances. `MCFunctions` checks in one run the six modules whose
  code keeps no state between calls; its variable `subject` says which one a behaviour is
  about, and their initial predicates and next-state relations carry the subject in their
  names (`WalkInit`, `RulesNext`, ...).
* `*_proofs` -- theorems. `Functions_proofs` is the counterpart of `MCFunctions`;
  `Folds_proofs` says what a fold over a sequence is, for the modules that use one.

An operator under a comment that starts with "Mutant" is the operator after it with one
plausible mistake; each property is violated when one of them takes its place.

### State and actions of AdmissionHandler

| Model | Code |
|---|---|
| `calls[s]`: request, where its evaluation is, the seconds spent | one execution of `Handle` |
| `cache` | the informer copies that `getOwner`, `namespaceIsTerminating` and `shouldProcessNamespace` read |
| `ClientCreate/Update/Scale/Delete`, `NamespaceTeardown` | a write reaches the API server; `Handle` runs to its first read or its end |
| `FluxApply`, `FluxPrune`, `FluxRecordsInventory` | Flux's forced server-side apply, prune, and `.status.inventory` |
| `Read`, `ReadFails`, `ReadTimesOut` | `Client.Get` answers from the cache, errors, or runs into `NamespaceFetchTimeout` |
| `CallLost` | the pod goes away before it answers |
| `CommitWrite`, `CommitDelete`, `Refused`, `Conflicted` | `buildResponse` and what the API server does with it, including the failure policy and the optimistic-concurrency check |
| `GitChanges`, `OwnerChanges`, `NamespaceChanges`, `CacheSync`, `Finalized` | the cluster around the handler |

`applied` is a history variable: the value Flux gave each leaf, until a write that
the README exempts (subresource, bypass annotation or `reconcile: disabled` already
on the object, audit-only, excluded group or namespace, namespace out of scope, a
call nobody answered, a field an ignore rule read by the call covers) takes it over.
`Exempt` is stated over the object, the configuration and what the reads returned, never
over the reason the handler gave, so that a handler that gives a wrong reason is
caught. The other histories are the fields `unlabelled`, `ignore` and `listed` of a call.

The API server, Flux and the clients are external and do what the handler's
comments and tests rely on: ownership of a changed leaf leaves Flux's entry before
admission (`handler.go:657-660`); managedFields are empty at admission of a CREATE
(`handler.go:497-498`); Flux's apply takes what it declares and drops what it no
longer does; kustomize-controller skips a `reconcile: disabled` object; an object
with finalizers is marked first, one without is gone at once.

### State and actions of VWCReconciler

| Model | Code |
|---|---|
| `stored` | the ValidatingWebhookConfiguration: its inject-ca-from annotation, its entries by name |
| `leader`, `deployment` | the flags the elected process runs with, and those deployed (a rollout is between them) |
| `watch`, `cached` | events on their way to the informer, and whether it holds the configuration |
| `queued`, `timer`, `pc`, `recreating` | the workqueue's only request, `RequeueAfter` or the error backoff, where `Reconcile` is, its local variable |
| `Get`, `GetFails`, `Apply`, `ApplyFails`, `Report` | `Reconcile`, cut at its two API calls; an Apply that fails may have been stored |
| `Deliver`, `Due`, `Elect` | the predicates of `SetupWithManager`, the timers, the informer's first list |
| `LeaderLost`, `Replaced`, `Rollout` | the process ends and with it everything but `stored` |
| `ManifestApplied`, `Inject`, `Deleted`, `Edited` | a GitOps applier of the chart's manifest, cert-manager, people |

`silent` is a history variable: the controller recreated the configuration and has not
said so. `Readiness` is one step of `cmd/webhook/main.go` or of the manager per action:
`Warm` registers one informer, `Listen` and `Sync` are the listener and the caches in
their own time, `CloseCh` is `cachesSynced.Start`, `Probe` the kubelet's readiness check.
A type that `Warm` cannot resolve is skipped, as main logs it (`skipped`, a history
variable). Once it is served, `FirstUse` is the request that registers its informer, on an
endpoint that stays ready, and `Sync` lists it; until then requests that read it are denied.

In `AuditTrail` a call's `pc` is the place of `Handle` it stands at. `SubresourceReturn`,
`ExcludedGroupReturn`, `ScopeReturn` and `UnmanagedReturn` record the label written at that
return, `buildResponse` the decision's reason, `CountDenial` adds to `denials_total`, and
`Respond` runs the deferred observation of the duration. That every answer is counted once,
under its own reason, is then for the five actions to show.

### Abstractions

* One object, one owner. A label with another owner's name is possible (`Owners`
  has two values); that owner's object is then not found. The name label and the
  namespace label of a kind are one value.
* The `objectSelector` of the webhook configuration (`webhook_config.go:211-215`)
  keeps unlabelled objects away from the webhook; the handler answers those with
  `allowed_not_managed`, so the model sends every write.
* A conflicted write is dropped instead of retried: the retry is a new request.
* In `AdmissionHandler`, `.spec.ignore` is the set it evaluates to, or `Malformed`;
  `IgnoreRules` says how it comes to that.
* `AdmissionHandler` judges with the stripped owner; `OwnerCache` says that is no loss.
* A `target` whose fields have the wrong JSON type is rejected by the Kustomization's
  schema before it is stored, and is not an entry of `IgnoreRules`.
* An entry of the configuration keeps the fields the properties tell apart: policy,
  timeout, exclusions, label, operations, excluded groups, whether there is a bundle.
  The service it points to, the path and the constant fields are left out. The bundle
  comes from cert-manager; the chart's static `tls.caBundle` is not modelled.
* `AuditTrail` takes it that the API server cancels the request's context when it gives
  up: a read it gives up during ends with the context, and so does any later one at once.
  Time is in half-seconds, and a read lasts any number of them below its timeout, or the
  timeout. `latency` has the bounds of the histogram, which are fixed whatever
  `--webhook-timeout` is (`metrics.go:86-92`), but for those below one tick.
* The inventory is empty, lists the object, or lists others only.
* A handler without a client (`h.Client == nil`) exists only in unit tests.
* A flag value of the allow-list is at most one token: `mergeSystemControllerSAs`
  judges tokens one at a time and only unites them.
* Values `{}` (an empty map as a leaf) are in `FieldWalk` only.

## 3. Runs

| Run | Question | Bounds |
|---|---|---|
| `functions` | Is what is computed from an input alone what a reference definition says? | see below |
| `drift` | Do Flux's fields keep value and owner against concurrent writers? | 2 calls in flight, 2 client requests (the shortest two-step bypass), 1 other change; edits of an owned leaf, of the label and an owned leaf together, of both annotations, of unowned leaves; managedFields released or not |
| `lifecycle` | Are names and objects guarded when created, pruned, collected, torn down? | 2 calls, 2 client requests, 2 changes; a human and the garbage collector; a stale inventory |
| `faults` | What do parse errors, failing, hanging and lost reads do? | every payload fault, 2 read faults (two 2 s reads against 3 s), failure policy Ignore, namespace filter on, `reconcile: disabled` manifests, a malformed ignore rule |
| `reconciler` | Is a leader ever without anything that wakes it, an entry without bundle closed, a bundle lost, a Flux-labelled write not inspected? Does the loop fall silent, is a deletion answered and an edit undone, do two appliers and the injector end with a complete configuration? | 3 deployments (flags left empty beside a manifest that spells the defaults out; two extra exclusions with a duplicate and a built-in; a manifest that differs from the flags), 2 deletions, edits or rollouts, 1 failed call or lost leader, 3 events of lag; probing requests in a plain, a built-in and every configured namespace, and cluster-scoped |
| `readiness` | Cold traffic? Two controllers? Does everyone serve, from a warm cache, and someone control, in the end? | 2 replicas, one type always served and one CRD that may be absent or come after the start and is then registered cold, 1 crash or shutdown, 1 lost lease |
| `audit_trail` | Is each answer, would-be denial and conflict counted once, wherever it is given, and does the histogram's tail show every unanswered call? | 2 concurrent calls, one request per place that records and per way through the handler, 3 owners a read may find, reads of 0 to 2 s in half-seconds against 3 s, audit-only |
| `live` | Does the object follow Git, and does a terminating namespace empty? | 1 call, 1 client request, 2 changes, 1 fault; an owner that starts or stops naming a service account |
| `finding_*` | see section 5 | the smallest instance that shows it |

The subjects of `functions`, and why their bounds are enough:

* The diff against the walk, and conflict and waiver against the documents: a two-member
  keyed list, a leaf that may become a map whose key may become one too, and with it a leaf
  at and one below the depth bound (3 instead of 50), one value and `{}`; three Flux sets
  and three ignore sets; every pair of documents. Two members tell a list from its member,
  and a bound of 3 is met from both sides. What is exact ends at the bound: a map there is
  not looked into, so an empty one may gain a key unseen (`DiffIsExact`).
* Pointers against RFC 6901: every text of up to 6 characters over `/ ~ 0 1 a`, enough for
  two segments with an escape each, and for `~01`.
* Rules: owners with up to 2 entries of 79: targets with up to two stopping matchers,
  invalid and root pointers, entries that are no rule. A third entry adds no new order.
* The cache's transform: four kinds, every shape of spec and status, two values.
* The allow-list: every token of up to four segments over `""`, `system`, `serviceaccount`,
  `apiserver`; service accounts have four segments, so longer ones add nothing.
* Startup: every combination of two variables, two flags, two durations or a typo, policies,
  and timeouts around 1 and 30.

All bounds are on what clients, Git, the owner, the namespace and the faults may do
(`MaxRequests`, `MaxChanges`, `MaxFaults`); Flux, the namespace controller, the
cache and the handler are unbounded. Every hazard of the handler needs at most two
requests of the adversary and one change around them. `drift` and `lifecycle` use
symmetry on the call slots and check no liveness (`ImplementsGuard` is checked as a safety
property: the guard has no fairness). Deadlock is checked in `reconciler`,
whose informer, injector and appliers never run out of work. It is off in the others:
once the bounds are used up, Flux has converged and the cache is in sync, every replica
serves, the last call is counted or the answer is computed, the system really has
nothing to do.

**What the properties say.** `DriftFree`: every field Flux applied has the value
Flux gave it. `StillOwned`: it is still Flux's in managedFields, which is what makes
the next request be judged. `NotDisarmedByClients`: nobody else arms one of the two
annotations. `NoSquatting`: no create of a client is admitted
under a name that the inventory, as the call read it, lists.
`DeletionGuarded`: who may delete. `HarmlessAdmitted` and `ConflictHasCause`: no
false denial. `OwnerNotLockedOut`: the core controllers can always repair.
`FluxConverges`, `TeardownCompletes`: it all ends well. `ImplementsGuard`: the sum of
the safety promises, as a refinement; who may delete is left to `DeletionGuarded`.
Reconciler: `NeverStranded` (an existing configuration always has a request, a running
`Reconcile`, a timer or an event ahead), `FailsOpenWithoutBundle`, `BundleKept`,
`InterceptsFluxWrites`; `NoLoop`, `Recreated`, `EditsUndone`, `EndsComplete`. Ignore
rules: `WaivesOnlySelected`, `FailsClosed`, `EveryRuleCounts`. Start: `NoColdTraffic`,
`OneController`, `EveryReplicaServes`, `SomeoneControls`; `NoColdTraffic` is about the
types main could resolve, `EveryReplicaServes` also about those that come later.
Metrics: `EveryAnswerCounted` and `WouldDeniesCounted` compare counters with answers at
every moment a scrape may fall on; `TailCoversTheUnanswered`: every call the API server
gave up on lies above each bucket below the webhook's timeout, and no call above a bucket
beyond it. The converse does not hold and is not claimed: two reads of 1.4 s are above the
2.5 s bucket and answered. Each property's comment names the code it is about.

**Fairness.** Weak fairness on each call's handler steps (a goroutine runs, a read
answers or times out, the API server takes a response), on the informer
(`CacheSync`), on Flux (it reconciles on an interval, retrying a denied apply), on
the namespace controller (it retries), and on finalizers being removed. For the
reconciler: election, the informer, the worker, the backoff and the injector
(`PromptSpec`). The resync timer and the manifest's applier are assumed only where a
property names them (`Resyncs`, `Reapplies`), so that what is promised at once is not
granted by a timer. For the start: the kubelet boots and probes, main goes on, the
manager's groups and the election run, an informer lists (`Sync`), and requests keep
coming, so that a type installed late is registered (`FirstUse`). Leader election is taken to be enabled, as the
overlays have it; a container starts again only once it is out of the endpoints. Nothing is
assumed of clients, of Git, or that a fault happens. `FluxConverges` exempts a
terminating namespace, where Flux can create nothing, and no client creates the
object in `live`: finding 1 is what happens when Flux meets an object without labels.

## 4. Proofs

Every invariant and every action property that a run checks is proved; so is the
refinement. The theorems hold for any number of call slots, replicas, entries and
tokens, any documents, manifests, flags, texts, edits, timeouts and bounds, under the
assumptions named below.

| Theorem | Says |
|---|---|
| `AdmissionHandler_proofs!TypeCorrect` | `TypeOK` |
| `AdmissionHandler_proofs!OwnerIsNeverLockedOut`, `NamesAreNotSquatted` | `OwnerNotLockedOut`, `NoSquatting` |
| `DriftProtection_proofs!ProtectionCorrect`, `NoDrift`, `OwnershipKept` | `ProtectionInv`, `DriftFree`, `StillOwned` |
| `DriftProtection_proofs!NoFalseDenial`, `DeletionIsGuarded` | `HarmlessAdmitted`, `DeletionGuarded` |
| `DriftProtection_proofs!Refinement`, `NeverDisarmed` | `ImplementsGuard`: every step maps to a step of `DriftGuard` or a stutter; `NotDisarmedByClients` |
| `FieldPaths_proofs!ConflictSound`, `DiffCovers` | a modified path and a Flux path at or above the same leaf leave a conflict that only an ignore path at or above that leaf removes; a leaf that changes within the depth bound is at or below a path of the diff |
| `Functions_proofs!WalkComputesDiff`, `TheDiffIsTheWalk` | the recursion of `diffMaps`/`diffValues` inserts the set `ComputeFieldDiff`, for all documents; `DiffIsTheWalk` |
| `Functions_proofs!TheDiffIsExact`, `NoDriftIsWaived`, `EveryConflictHasACause` | `DiffIsExact`, `NoDriftWaived`, `ConflictHasCause` |
| `Functions_proofs!PointerNamesItsField` | `NamesItsField`, for every alphabet and length |
| `Functions_proofs!WaiverIsSelected`, `FaultWaivesNothing`, `NoRuleIsLost` | `WaivesOnlySelected`, `FailsClosed`, `EveryRuleCounts` |
| `Functions_proofs!CacheIsTransparent`, `CacheIsSlim` | `ReadsSurvive`, `StoresOnlyReads` |
| `Functions_proofs!EntryNamesOneIdentity`, `NoEntryIsInert` | `OneIdentityPerEntry`, `NoInertEntry` |
| `Functions_proofs!ExplicitIntervalWins`, `ChartAndManifestAgree` | `IntervalPrecedence`, `ChartAgrees` |
| `VWCReconciler_proofs!LeaderNeverStranded`, `BundleStays`, `OpenWithoutBundle` | `NeverStranded`, `BundleKept`; `FailsOpenWithoutBundle` where nobody says Fail |
| `VWCReconciler_proofs!EveryFluxWriteIsSent` | `InterceptsFluxWrites` |
| `Readiness_proofs!TrafficIsWarm`, `ControllerHoldsLease` | `NoColdTraffic`, `OneController` |
| `AuditTrail_proofs!AnswersAreCounted`, `WouldDeniesAreCounted`, `TheTailCoversTheUnanswered` | `EveryAnswerCounted`, `WouldDeniesCounted`, `TailCoversTheUnanswered` |

(`VWCReconciler_proofs!TypeCorrect`, `Readiness_proofs!StartTypeCorrect` and
`CacheIsSlim` are proved and not checked by a run besides.)

**The handler.** `DriftFree` is not inductive: between the submission of a call and
its commit the invariant must know what the call may still be answered. `CallInv`
says that for a guarded call (an update by a client of an object with a
Kustomization label, not exempt) the next stop is a read or a verdict, and an
admitting verdict is sound (`SoundUpdate`): what Flux owned and no ignore rule the
call read covers is unchanged in the new object and still Flux's there. That an
admitting verdict is sound is `FinishIsSound`, from `DiffCovers` (a change is
seen), `ConflictSound` (a seen change in an owned field is a conflict) and the
tampering check; `GateVerdict`, `HandleVerdict` and `ResumeVerdict` carry it
through the stages. At commit, the object is still the one the call was judged on
(`Conflicted` otherwise), `StillOwned` says that what was applied is owned, so
soundness gives both `DriftFree` and `StillOwned` again. `LabelHeld` keeps the
ownership label among what was applied, so that the next call is guarded.

The other promises of the handler ask the same of a call in flight, for other kinds of
call. `GuardsInv`: a write of the core controller that keeps the owner's labels waits for
nothing but the namespace's scope, and is then allowed; a call whose read of the inventory
listed the object was denied by that very read. `ClientsInv`: a harmless update of a client
waits or is admitted; a delete of what Flux applied waits or is denied while the namespace
does not terminate, and the cache learns of that only after it does.
They need no assumption on documents or rules, and
`NoFalseDenial` holds for both kinds of owner.

The refinement adds `RefinementInv` (a call remembers only what the owner or the
namespace could have said; what an apply of Flux grants is a manifest): a commit of a
client's update maps to `Write` with the rules the call read as the waived set, or to
`WriteUnjudged` when it is exempt; every step that leaves the object alone stutters.

**Recursion and loops.** The provers have no induction over an arbitrary predicate. A
recursive definition is therefore proved to have a solution (one is written down), and
every solution to be the same (the least or smallest argument at which two differ is a
contradiction):

* `WalkComputesDiff`: `ClosedForm` says that at each map "the topmost differences below
  here" satisfies the equation of `diffMaps`; `WalkIsUnique` that nothing else does, at a
  deepest path where it would not.
* A sum of counters is the cardinality of the set of their increments (`Units`), so that
  an increment adds one element (`SumIsUnits`, `OneIncrement`). `TrailInv` says which
  calls are between which two increments.
* A loop is a fold. `Folds_proofs` shows that the fold of the community modules takes a
  sequence element by element (`FoldLeftExists`, `FoldedOneMore`). `OneToken` says what one
  token does to the set of an exclusion list, with or without a test for duplicates;
  `ExclusionsAreOutOfScope` what the lists come to.
* `PointerNamesItsField` follows a pointer along its text. `ReadSoFar` relates the text so
  far to the segments, the result of each replacement and the path written back;
  `ReadPlain`, `ReadEscape` and `ReadSlash` extend it, an escape by both characters at once,
  because between them the second replacement cannot be told.

**The other invariants** are small. `VWCReconciler`: `NeverStranded` needs that a
running or queued request is on a leader and that an existing configuration reaches a
new leader through its list. `IgnoreRules`: at each entry the set is that of the selecting
rules before it. `Readiness`: `RInv` adds to the types that after main every type is
registered or was skipped, that a closed channel means all but the skipped have synced
(an informer created later is of a skipped type, so it takes nothing back), and that an
endpoint which runs has passed the three checks since it booted. `OwnerCache`: the store
is the transform of the server's object, and the transform is idempotent. `FieldWalk`,
`AllowList` and `StartupConfig` keep their types; the rest is about the operators.
`AuditTrail`: `PlaceOK` says that a call stands at an early return only with the decision
whose label that return records; `TailInv` that a call the API server gave up on has run
for the webhook's timeout, and was being timed.

**Assumptions.** `FieldPathsAssumption`, `FieldsAssumption`, `WalkAssumption`,
`HandlerAssumption`, `AdmissionAssumption`, `EntriesAssumption`, `ReadinessAssumption`,
`AllowAssumption` (names long enough for a service account), `AuditAssumption`,
`ConfigAssumption` (a typo is no duration), `DeploymentsAssumption`, `ValuesAssumption`
(flags may be empty, chart values are not, edits write legal values) and
`NoneAssumption` type the constants; `AdmissionAssumption` also says that the Flux of the
model is one `IsFluxController` recognises. `ProtectionAssumption` says what drift
prevention rests on: documents' leaves do not nest and lie within the depth bound
(the schema-blind diff does not look below it, `fields.go:92`), every manifest
carries its owner's label (Flux adds it), no ignore rule covers that label, and no
client authenticates as a reconciler. `LiteralsAssumption` tells the provers that
two string literals are strings, which they do not know. TLC evaluates all of them
in the runs.

Some theorems have a hypothesis of their own. `NoDrift`, `OwnershipKept`,
`ProtectionCorrect`, `DeletionIsGuarded`, `Refinement` and `NeverDisarmed` are about an
object of a Kustomization (`OwnerLabel = KustomizeLabel`): for a Helm-owned object the
property does not hold (finding 3). `OpenWithoutBundle` is about deployments and edits
that nowhere say Fail.
`NoEntryIsInert` is about tokens without an empty segment: `system:` is accepted, and no
service account has it.

**Only model-checked.** Liveness under fairness (`FluxConverges`, `TeardownCompletes`,
`NoLoop`, `Recreated`, `EditsUndone`, `EndsComplete`, `EveryReplicaServes`,
`SomeoneControls`) and with it ENABLED, which are out of the prover's reach.

## 5. Findings

1. `finding_adoption`. Flux's first apply onto an object that exists without labels
   is denied `denied_wrong_flux_controller`: `isOwningController` counts a label that
   was absent as another owner. `README.md:238-239` and `:432` explain that reason as
   two owners.
2. `finding_bypass`. The bypass annotation in the pre-request state does not prove
   that it came through Git (`handler.go:412`): an object created with it, as a
   derived resource, keeps it when Flux applies the object.
3. `finding_helm`. `reconcile: disabled` does affect a HelmRelease-owned object
   (`README.md:281-282`, `handler.go:435-436`) in an update that adds a
   Kustomization label: the kind of the owner comes from the new labels.

4. `finding_silent`. Whether to send `ConfigRecreated` is decided by a read of the cache
   and not by the `Apply` after it (`webhook_config.go:104-109`, `:137`). A configuration
   deleted in between comes back without bundle and without the event that "makes that
   window observable" (`webhook_config.go:177-178`). No call fails for it.

Other disagreements met while modelling, which no run shows:

* A configuration deleted while a leader is being replaced is not recreated: the event was
  the old leader's, the new one lists nothing, and no timer runs
  (`webhook_config.go:307-324`). `README.md:704-706` promises recreation within seconds.
  `Recreated` is therefore stated for a leader that stays.
* With `--failure-policy=Fail` the same event says fail-open of a configuration that fails
  closed (`webhook_config.go:147-148`). `FailsOpenWithoutBundle` holds where nobody says Fail.
* Released into `kube-system`, the chart lists that namespace twice and the controller once,
  and the appliers overwrite each other for ever (`webhook_config.go:164-166` and `:232`).
  The deployments of `reconciler` have a namespace of their own.
* A malformed pattern in a rule for other objects fails the evaluation in some orders of a
  map iteration and not in others (`ignore.go:143` against `handler.go:769-770`). `FailsClosed`
  holds in all of them.
* The pointer of the whole document waives nothing (`ignore.go:92-93`): `Root` in `IgnoreRules`.
* `denied_create_inventory_unavailable` is also given for an owner that was read and has an
  empty inventory, with no lookup error (`handler.go:549-552` against `README.md:434-436`).
* An interval of `0s` starts and never re-applies (`main.go:142-161` checks no interval,
  `README.md:198`).

## 6. Not modelled

* Logging, warnings, message texts, `config_updates_total`, `owner_lookup_errors_total`.
* `inventoryID`'s transcoding.
* Flags that are passed on unchecked (ports, addresses, client rates, names), and that
  building the manager may fail: the process exits as in a crash.
* The Kustomize base, the chart's other templates, the shell tests: deployment data. Of
  the chart, what must agree with the program is modelled (`ChartEntry`, `ChartFlags`).
* Regular expressions and label selectors as languages: a matcher matches or does not.
* TLS certificates and their rotation, the registry of metrics, probes.SetupChecks' pings.

## 7. Plan

Done: the core (`FieldPaths`, `FieldWalk`, `Identity`, `AllowList`, `HandlerDecisions`,
`AdmissionHandler`) with its runs; the refinement to `DriftGuard`, ignore rules, the
reconciler, readiness, startup settings, the audit trail and the cache; theorems for every
invariant and action property of the runs.

Next, most important first:

1. An abstract specification for the reconciler, of which `VWCReconciler` is proved an
   implementation: a configuration that is there is the flags' or the manifest's, up to
   edits that a pending wake-up will undo. It would say as safety the part of `EditsUndone`
   and `EndsComplete` that needs no fairness.
2. Runs of `AdmissionHandler` in audit-only mode, for cluster-scoped objects and for
   excluded namespaces; the theorems hold for them already.
3. A composition of `VWCReconciler` and `AdmissionHandler`, in which the stored
   configuration decides which writes reach the handler.
