---------------------------- MODULE MCAdmission -----------------------------
(* Values of the constants for the runs of DriftRefinement.                 *)
EXTENDS DriftRefinement

kust == <<"metadata", "labels", "kustomize">>
helm == <<"metadata", "labels", "helm">>
bypass == <<"metadata", "annotations", "bypass">>
reconcile == <<"metadata", "annotations", "reconcile">>
replicas == <<"spec", "replicas">>
image == <<"spec", "containers", "app">>
paused == <<"spec", "paused">>

MCElements == {"metadata", "labels", "annotations", "kustomize", "helm", "bypass",
               "reconcile", "spec", "replicas", "containers", "app", "paused"}
MCLeaves == {kust, helm, bypass, reconcile, replicas, image, paused}
MCListPaths == {<<"spec", "containers">>}
MCValues == {"me", "other", "off", "1", "2"}
MCOwners == {"me", "other"}
MCOwnerNamespace == [v \in MCValues |-> IF v = "me" THEN "apps" ELSE IF v = "other" THEN "team" ELSE ""]

Account(namespace, name) ==
    [username |-> <<"system", "serviceaccount", namespace, name>>, inGroup |-> TRUE]
alice == [username |-> <<"alice">>, inGroup |-> FALSE]
deployer == Account("apps", "deployer")
collector == Account("kube-system", "generic-garbage-collector")
MCFluxController == Account("flux-system", "kustomize-controller")
MCFluxManager == <<"kustomize-controller">>
MCNamespaceController == Account("kube-system", "namespace-controller")
MCSystemControllerSAs == mergeSystemControllerSAs({})

Doc(partial) == [l \in MCLeaves |-> IF l \in DOMAIN partial THEN partial[l] ELSE Absent]

workload == Doc(kust :> "me" @@ replicas :> "1" @@ image :> "1")
released == Doc(kust :> "me" @@ image :> "2")
disarmed == Doc(kust :> "me" @@ bypass :> "off" @@ image :> "1")
abandoned == Doc(kust :> "me" @@ reconcile :> "off" @@ image :> "1")

\* drift: two writers race over the fields of one Deployment.
DriftManifests == {workload, disarmed}
DriftClients == {alice}
DriftClientDocs == { Doc(kust :> "me" @@ bypass :> "off") }
DriftEdits ==
    { replicas :> "2", image :> "2", paused :> "1", bypass :> "off",
      kust :> Absent @@ image :> "2", kust :> Absent @@ helm :> "other" @@ replicas :> "2" }
DriftReleases == { {}, {replicas, image} }
DriftScale == {replicas}
DriftIgnoreSets == { {}, {replicas} }

Symmetry == Permutations(Slots)

\* lifecycle: creates, deletes, prunes and the teardown of the namespace.
PlainDocs == { Doc(replicas :> "2") }
LifecycleManifests == {workload}
LifecycleClients == {alice, collector}
LifecycleClientDocs == { Doc(kust :> "me" @@ bypass :> "off"), Doc(helm :> "other") }
LifecycleEdits == { bypass :> "off", paused :> "1" }

\* faults: payloads that do not parse, reads that fail or hang, lost calls, a
\* namespace that leaves the scope.
FaultyManifests == {released, abandoned}
FaultyClients == {deployer}
FaultyEdits == { replicas :> "2", kust :> Absent @@ image :> "1" }
FaultyIgnoreSets == { {image}, Malformed }

\* live: an owner that changes its service account.
LiveManifests == {workload, released}
LiveEdits == { replicas :> "2", paused :> "1" }
LiveAccounts == {"", "deployer"}

\* helm: a HelmRelease owns the object.
chart == Doc(helm :> "me" @@ replicas :> "1")
frozen == Doc(helm :> "me" @@ reconcile :> "off" @@ replicas :> "1")
HelmManifests == {chart, frozen}
HelmEdits == { replicas :> "2", kust :> "other", kust :> "other" @@ replicas :> "2" }
=============================================================================
