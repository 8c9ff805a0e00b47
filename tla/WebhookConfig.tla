--------------------------- MODULE WebhookConfig ----------------------------
(***************************************************************************)
(* What the ValidatingWebhookConfiguration says: the two entries the       *)
(* reconciler applies (internal/controller/webhook_config.go), the same    *)
(* two as the chart renders them, and what the API server makes of them    *)
(* (external): defaults, the merge of a server-side apply, and which       *)
(* requests a stored configuration sends to the webhook.                   *)
(***************************************************************************)
EXTENDS Naturals, SequencesExt

\* A flag left empty, a token of nothing, the namespace of a cluster-scoped object.
Unset == ""

KustomizeLabelName == "kustomize.toolkit.fluxcd.io/name"
HelmLabelName == "helm.toolkit.fluxcd.io/name"
ExcludedGroups == {"admissionregistration.k8s.io"}

\* The webhooks of a configuration are merged by entry name.
EntryNames == {"kustomize", "helm"}
LabelOf == [name \in EntryNames |->
              IF name = "kustomize" THEN KustomizeLabelName ELSE HelmLabelName]

\* The entry the API server completes: what it fills in where nobody applied a field.
Default ==
    [failurePolicy |-> "Fail", timeoutSeconds |-> 10, excluded |-> << >>,
     label |-> Unset, operations |-> {}, notGroups |-> {}, caBundle |-> FALSE]
Fields == DOMAIN Default

----------------------------------------------------------------------------
\* The namespaces never intercepted, in the order of the manifest.

\* A token with something in it goes to the end, as splitCSV keeps them.  Mutant of
\* AppendNew: a namespace that is already listed goes to the end again.
AppendGiven(list, token) == IF token = Unset THEN list ELSE Append(list, token)
AppendNew(list, namespace) ==
    IF namespace = Unset \/ Contains(list, namespace) THEN list ELSE Append(list, namespace)

BuiltinExclusions == <<"kube-system", "kube-public", "kube-node-lease">>

excludedNamespaces(flags) ==
    FoldLeft(AppendNew, BuiltinExclusions,
             <<flags.namespace>> \o flags.extraExcludedNamespaces)

\* One rule per entry, every group, version and resource at every scope: what
\* is left of it is its operations.
\* Mutant: nobody asks about deletions.
RulesWithoutDelete == {"CREATE", "UPDATE"}
wildcardRules == {"CREATE", "UPDATE", "DELETE"}

matchConditions == ExcludedGroups

\* The fields the reconciler declares: the bundle is the injector's.
\* Mutants: the failure policy is left to the API server; the bundle is declared too.
DeclaredWithoutPolicy == Fields \ {"caBundle", "failurePolicy"}
DeclaredWithBundle == Fields
Declared == Fields \ {"caBundle"}

buildWebhookEntry(flags, name) ==
    [failurePolicy |-> IF flags.failurePolicy = Unset THEN "Ignore" ELSE flags.failurePolicy,
     timeoutSeconds |-> IF flags.timeoutSeconds = 0 THEN 3 ELSE flags.timeoutSeconds,
     excluded |-> excludedNamespaces(flags), label |-> LabelOf[name],
     operations |-> wildcardRules, notGroups |-> matchConditions, caBundle |-> FALSE]

----------------------------------------------------------------------------
\* The chart: one set of values renders the manifest and the flags.

\* The tokens of the flag's CSV that are left after trimming.
splitCSV(tokens) == FoldLeft(AppendGiven, << >>, tokens)

FlagsFor(values) == [values EXCEPT !.extraExcludedNamespaces = splitCSV(@)]

ChartExclusions(values) ==
    FoldLeft(LAMBDA list, namespace :
                IF Contains(list, namespace) THEN list ELSE Append(list, namespace),
             BuiltinExclusions \o <<values.namespace>>, values.extraExcludedNamespaces)

ChartEntry(values, name) ==
    [failurePolicy |-> values.failurePolicy, timeoutSeconds |-> values.timeoutSeconds,
     excluded |-> ChartExclusions(values), label |-> LabelOf[name],
     operations |-> {"CREATE", "UPDATE", "DELETE"}, notGroups |-> ExcludedGroups,
     caBundle |-> FALSE]

----------------------------------------------------------------------------
\* The API server.

\* A forced server-side apply of an entry over what is there, or over Default.
ApplyOver(old, entry, declared) ==
    [f \in Fields |-> IF f \in declared THEN entry[f] ELSE old[f]]

\* Does an entry send a request to the webhook?
Intercepts(entry, request) ==
    /\ request.op \in entry.operations
    /\ ~Contains(entry.excluded, request.namespace)
    /\ entry.label = Unset \/ entry.label \in request.labels
    /\ request.group \notin entry.notGroups
=============================================================================
