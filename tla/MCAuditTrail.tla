---------------------------- MODULE MCAuditTrail ----------------------------
(* Values of the constants for the runs of AuditTrail.                       *)
EXTENDS AuditTrail

kust == <<"labels", "kustomize">>
helm == <<"labels", "helm">>
bypass == <<"annotations", "bypass">>
reconcile == <<"annotations", "reconcile">>
image == <<"spec", "image">>

MCElements == {"labels", "annotations", "kustomize", "helm", "bypass", "reconcile", "spec", "image"}
MCLeaves == {kust, helm, bypass, reconcile, image}
MCValues == {"me", "other", "off", "1", "2"}
MCOwners == {"me", "other"}
MCOwnerNamespace == [v \in MCValues |-> IF v = "me" THEN "apps" ELSE IF v = "other" THEN "team" ELSE ""]
MCSystemControllerSAs == mergeSystemControllerSAs({})

alice == [username |-> <<"alice">>, inGroup |-> FALSE]
Account(namespace, name) ==
    [username |-> <<"system", "serviceaccount", namespace, name>>, inGroup |-> TRUE]

Doc(partial) == [l \in MCLeaves |-> IF l \in DOMAIN partial THEN partial[l] ELSE Absent]
FluxEntry ==
    [manager |-> <<"kustomize-controller">>, operation |-> "Apply", fields |-> {kust, image}]
Object(partial) == [doc |-> Doc(partial), managedFields |-> {FluxEntry}, deleting |-> FALSE]

mine == Object(kust :> "me" @@ image :> "1")
drifted == Object(kust :> "me" @@ image :> "2")
stolen == Object(kust :> "other" @@ image :> "1")
plain == Object(image :> "1")

Req(op, user, old, new) ==
    [op |-> op, user |-> user, old |-> old, new |-> new,
     subresource |-> FALSE, excluded |-> FALSE, derived |-> FALSE, fault |-> "none"]

\* One request for every way through the handler that records something.
MCRequestPool ==
    { [Req("UPDATE", alice, mine, drifted) EXCEPT !.subresource = TRUE],
      [Req("UPDATE", alice, mine, drifted) EXCEPT !.excluded = TRUE],
      [Req("UPDATE", alice, mine, drifted) EXCEPT !.fault = "metadata"],
      Req("UPDATE", alice, plain, plain),
      Req("UPDATE", Account("apps", "deployer"), mine, drifted),
      Req("UPDATE", Account("flux-system", "kustomize-controller"), mine, stolen),
      Req("CREATE", alice, plain, mine),
      Req("DELETE", alice, mine, mine) }

MCOwnerStates ==
    { [sa |-> "", ignore |-> {}, inventory |-> "empty"],
      [sa |-> "", ignore |-> {image}, inventory |-> "listed"],
      [sa |-> "", ignore |-> {}, inventory |-> "others"] }

Symmetry == Permutations(Slots)
=============================================================================
