---------------------------- MODULE MCReconciler ----------------------------
(* Values of the constants for the runs of VWCReconciler.                   *)
EXTENDS VWCReconciler

ChartValues(namespace, extras, timeout) ==
    [namespace |-> namespace, extraExcludedNamespaces |-> extras,
     failurePolicy |-> "Ignore", timeoutSeconds |-> timeout]
Chart(values) == [flags |-> values, values |-> values]

plain == ChartValues("flux-system", << >>, 3)
previews == ChartValues("flux-system", <<"ci", "kube-public", "ci", "previews">>, 3)

\* The flags left empty, beside a manifest that spells the defaults out.
defaulted == [flags |-> [plain EXCEPT !.failurePolicy = Unset, !.timeoutSeconds = 0],
              values |-> plain]
\* A manifest somebody changed without the flags.
mismatched == [flags |-> plain, values |-> previews]

MCDeployments == {defaulted, Chart(previews), mismatched}

disarm == [operations |-> {}]
unbundle == [caBundle |-> FALSE]
MCEdits == {disarm, unbundle}
=============================================================================
