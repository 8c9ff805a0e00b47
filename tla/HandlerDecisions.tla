-------------------------- MODULE HandlerDecisions --------------------------
(***************************************************************************)
(* What DriftPreventionHandler.Handle decides, as pure operators cut at    *)
(* the reads of the informer cache: internal/webhook/handler.go, with      *)
(* labels.go and the evaluated form of ignore.go.  Between two reads the   *)
(* handler touches nothing but its request, so each operator is one        *)
(* uninterrupted stretch of code.                                          *)
(*                                                                         *)
(* An operator yields Allow(reason), Deny(reason) or Await(read): the      *)
(* handler now blocks in Client.Get, and After<read> takes its answer.     *)
(***************************************************************************)
EXTENDS FieldPaths, Identity

CONSTANTS
    Namespace,            \* of the object: "cluster", "excluded" or "ordinary"
    ExcludedGroup,        \* the object is of an API group of config.ExcludedGroups()
    NamespaceLabel,       \* --namespace-label is set
    SystemControllerSAs,  \* the merged allow-list
    KustomizeLabel,       \* the leaf of the kustomize owner labels, name and namespace as one value
    HelmLabel,            \* the leaf of the helm owner labels
    Bypass,               \* the leaf of fluxcd.io/drift-prevention-bypass
    Reconcile,            \* the leaf of kustomize.toolkit.fluxcd.io/reconcile
    Disabled,             \* the value that arms either annotation
    Owners,               \* label values with both a name and a namespace
    OwnerNamespace        \* the namespace a label value carries, "" for none

ASSUME HandlerAssumption ==
    /\ Namespace \in {"cluster", "excluded", "ordinary"}
    /\ ExcludedGroup \in BOOLEAN /\ NamespaceLabel \in BOOLEAN
    /\ {KustomizeLabel, HelmLabel, Bypass, Reconcile} \subseteq Leaves
    /\ Disabled \in Values /\ Owners \subseteq Values
    /\ OwnerNamespace \in [Values -> STRING]

\* reasons.go: the labels of flux_drift_webhook_requests_total.
AllowedReasons ==
    { "allowed_not_managed", "allowed_namespace_filter", "allowed_owning_flux_controller",
      "allowed_bypass_annotation", "allowed_reconcile_disabled", "allowed_deletion_in_progress",
      "allowed_namespace_terminating", "allowed_no_flux_managed_fields",
      "allowed_no_field_conflict", "allowed_drift_ignored_field", "allowed_owned_resource",
      "allowed_system_controller", "allowed_not_in_owner_inventory", "allowed_subresource",
      "allowed_excluded_group", "allowed_unknown_operation" }
DeniedReasons ==
    { "denied_metadata_error", "denied_parse_error", "denied_managed_fields_error",
      "denied_managed_fields_tampered", "denied_bypass_annotation_added",
      "denied_create_flux_labels", "denied_create_inventory_unavailable",
      "denied_delete_flux_managed", "denied_update_flux_managed_fields",
      "denied_wrong_flux_controller" }

Allow(reason) == [step |-> "decided", allowed |-> TRUE, reason |-> reason]
Deny(reason)  == [step |-> "decided", allowed |-> FALSE, reason |-> reason]
Await(read)   == [step |-> read, allowed |-> FALSE, reason |-> ""]

----------------------------------------------------------------------------
\* labels.go

Unmanaged == [isManaged |-> FALSE, managedBy |-> "", controller |-> Absent]

GetFluxManagementInfo(doc) ==
    IF Present(doc, KustomizeLabel)
    THEN [isManaged |-> TRUE, managedBy |-> "kustomization", controller |-> doc[KustomizeLabel]]
    ELSE IF Present(doc, HelmLabel)
    THEN [isManaged |-> TRUE, managedBy |-> "helmrelease", controller |-> doc[HelmLabel]]
    ELSE Unmanaged

HasBypassAnnotation(doc) == doc[Bypass] = Disabled
IsReconcileDisabled(doc) == doc[Reconcile] = Disabled

protectionDisablingAnnotationAdded(old, new) ==
    \/ ~HasBypassAnnotation(old) /\ HasBypassAnnotation(new)
    \/ ~IsReconcileDisabled(old) /\ IsReconcileDisabled(new)

----------------------------------------------------------------------------
(***************************************************************************)
(* A request: [op, user, subresource, old, new, derived, fault].  old and  *)
(* new are objects [doc, managedFields, deleting] (on CREATE old, on       *)
(* DELETE new, is not looked at); derived says that the created object has *)
(* a controller ownerReference; fault is what the payload fails to parse   *)
(* at, or "none".                                                          *)
(***************************************************************************)
Faults == {"none", "metadata", "oldFields", "newFields", "object"}

\* The metadata the handler calls objMeta: DELETE carries only the old object.
ObjMeta(req) == IF req.op = "DELETE" THEN req.old ELSE req.new

\* The state that proves an annotation came first: never that of a CREATE.
PreRequest(req) == req.old

\* Mutant: a request that strips the labels is not managed.
NewLabelsOnly(req) == GetFluxManagementInfo(ObjMeta(req).doc)

FluxInfo(req) ==
    LET info == GetFluxManagementInfo(ObjMeta(req).doc)
    IN  IF ~info.isManaged /\ req.op = "UPDATE"
        THEN GetFluxManagementInfo(req.old.doc) ELSE info

OldFluxFields(req) ==
    IF req.fault = "oldFields" THEN Malformed ELSE FluxManagedFields(req.old.managedFields)
NewFluxFields(req) ==
    IF req.fault = "newFields" THEN Malformed ELSE FluxManagedFields(req.new.managedFields)

\* getOwner does not read at all for an owner it cannot name.
OwnerIsNamed(req) == FluxInfo(req).controller \in Owners

----------------------------------------------------------------------------
\* UPDATE: checkUpdateFieldConflict, before and after the read of the owner.

UpdateConflict(req) ==
    GetConflictingFields(ComputeFieldDiff(req.old.doc, req.new.doc), OldFluxFields(req))

\* Mutant: managedFields may shrink.
NoTamperCheck(req, ignoreSet) ==
    IF WaiveIgnoredConflicts(UpdateConflict(req), ignoreSet) # {}
    THEN Deny("denied_update_flux_managed_fields")
    ELSE IF NewFluxFields(req) = Malformed THEN Deny("denied_managed_fields_error")
    ELSE IF UpdateConflict(req) # {} THEN Allow("allowed_drift_ignored_field")
    ELSE Allow("allowed_no_field_conflict")

FinishUpdate(req, ignoreSet) ==
    LET flux == OldFluxFields(req)
        conflict == UpdateConflict(req)
        newFlux == NewFluxFields(req)
    IN  IF WaiveIgnoredConflicts(conflict, ignoreSet) # {}
        THEN Deny("denied_update_flux_managed_fields")
        ELSE IF newFlux = Malformed
        THEN Deny("denied_managed_fields_error")
        ELSE IF WaiveIgnoredConflicts(flux \ newFlux, ignoreSet) # {}
        THEN Deny("denied_managed_fields_tampered")
        ELSE IF conflict # {}
        THEN Allow("allowed_drift_ignored_field")
        ELSE Allow("allowed_no_field_conflict")

checkUpdateFieldConflict(req) ==
    IF OldFluxFields(req) = Malformed THEN Deny("denied_managed_fields_error")
    ELSE IF OldFluxFields(req) = {} THEN Allow("allowed_no_flux_managed_fields")
    ELSE IF protectionDisablingAnnotationAdded(req.old.doc, req.new.doc)
    THEN Deny("denied_bypass_annotation_added")
    ELSE IF req.fault = "object" THEN Deny("denied_parse_error")
    ELSE IF /\ UpdateConflict(req) # {}
            /\ FluxInfo(req).managedBy = "kustomization"
            /\ OwnerIsNamed(req)
    THEN Await("ignore")
    ELSE FinishUpdate(req, {})

\* driftIgnoreSet: an unreadable owner or a malformed matching rule waives nothing.
driftIgnoreSet(found, owner) ==
    IF found /\ owner.ignore # Malformed THEN owner.ignore ELSE {}

AfterIgnore(req, found, owner) == FinishUpdate(req, driftIgnoreSet(found, owner))

----------------------------------------------------------------------------
\* CREATE: checkDerivedResourceCreate around ownerInventoryContains.

\* Mutants: the ownerReference before the inventory; an unavailable inventory
\* lets the request pass.
OwnerReferenceFirst(req, listed, available) ==
    IF req.derived THEN Allow("allowed_owned_resource")
    ELSE IF available /\ listed THEN Deny("denied_create_flux_labels")
    ELSE IF IsSystemController(req.user, SystemControllerSAs)
    THEN Allow("allowed_system_controller")
    ELSE IF available THEN Allow("allowed_not_in_owner_inventory")
    ELSE Deny("denied_create_inventory_unavailable")
UnavailablePasses(req, listed, available) ==
    IF available /\ listed THEN Deny("denied_create_flux_labels")
    ELSE IF req.derived THEN Allow("allowed_owned_resource")
    ELSE IF IsSystemController(req.user, SystemControllerSAs)
    THEN Allow("allowed_system_controller")
    ELSE IF available THEN Allow("allowed_not_in_owner_inventory")
    ELSE Allow("denied_create_inventory_unavailable")

CreateDecision(req, listed, available) ==
    IF available /\ listed THEN Deny("denied_create_flux_labels")
    ELSE IF req.derived THEN Allow("allowed_owned_resource")
    ELSE IF IsSystemController(req.user, SystemControllerSAs)
    THEN Allow("allowed_system_controller")
    ELSE IF available THEN Allow("allowed_not_in_owner_inventory")
    ELSE Deny("denied_create_inventory_unavailable")

\* owner.inventory: "empty", "listed" (with this object) or "others".
AfterInventory(req, found, owner) ==
    LET available == found /\ owner.inventory # "empty"
    IN  CreateDecision(req, available /\ owner.inventory = "listed", available)

\* DELETE
checkDeleteManaged(req) ==
    IF OldFluxFields(req) = Malformed THEN Deny("denied_managed_fields_error")
    ELSE IF OldFluxFields(req) = {} THEN Allow("allowed_no_flux_managed_fields")
    ELSE IF IsSystemController(req.user, SystemControllerSAs)
    THEN Allow("allowed_system_controller")
    ELSE Deny("denied_delete_flux_managed")

operationDecision(req) ==
    CASE req.op = "CREATE" ->
            IF OwnerIsNamed(req) THEN Await("inventory")
            ELSE CreateDecision(req, FALSE, FALSE)
      [] req.op = "UPDATE" -> checkUpdateFieldConflict(req)
      [] req.op = "DELETE" -> checkDeleteManaged(req)
      [] OTHER -> Allow("allowed_unknown_operation")

----------------------------------------------------------------------------
\* checkBypass, from its end to its beginning.

\* Mutant: the annotation counts in the request that adds it.
BypassInNewObject(req) == req.op # "CREATE" /\ HasBypassAnnotation(ObjMeta(req).doc)

checkBypassAnnotation(req) ==
    req.op # "CREATE" /\ HasBypassAnnotation(PreRequest(req).doc)

checkReconcileDisabled(req) ==
    /\ FluxInfo(req).managedBy = "kustomization"
    /\ req.op # "CREATE"
    /\ IsReconcileDisabled(PreRequest(req).doc)

\* Mutant: no exception for a terminating namespace.
NoTeardown(req) ==
    IF checkBypassAnnotation(req) THEN Allow("allowed_bypass_annotation")
    ELSE IF checkReconcileDisabled(req) THEN Allow("allowed_reconcile_disabled")
    ELSE IF req.op = "DELETE" /\ req.old.deleting
    THEN Allow("allowed_deletion_in_progress")
    ELSE operationDecision(req)

NotOwner(req) ==
    IF checkBypassAnnotation(req) THEN Allow("allowed_bypass_annotation")
    ELSE IF checkReconcileDisabled(req) THEN Allow("allowed_reconcile_disabled")
    ELSE IF req.op = "DELETE" /\ req.old.deleting
    THEN Allow("allowed_deletion_in_progress")
    ELSE IF req.op = "DELETE" /\ Namespace # "cluster" THEN Await("terminating")
    ELSE operationDecision(req)

AfterTerminating(req, found, namespace) ==
    IF found /\ namespace.terminating THEN Allow("allowed_namespace_terminating")
    ELSE operationDecision(req)

\* isOwningController
OwnerLabelsKept(req) ==
    \A label \in {KustomizeLabel, HelmLabel} : req.old.doc[label] = req.new.doc[label]

\* Mutant: labels are compared on every operation.
OwnershipOnAnyOperation(req) ==
    IF ~OwnerLabelsKept(req) THEN Deny("denied_wrong_flux_controller")
    ELSE Allow("allowed_owning_flux_controller")

checkFluxOwnership(req) ==
    IF req.op = "UPDATE" /\ ~OwnerLabelsKept(req)
    THEN Deny("denied_wrong_flux_controller")
    ELSE Allow("allowed_owning_flux_controller")

Owning(req, isOwner) == IF isOwner THEN checkFluxOwnership(req) ELSE NotOwner(req)

\* The well-known account names, accepted only in the owner's namespace.
FallbackReconciler(req) ==
    LET sa == ParseServiceAccount(req.user)
    IN  /\ sa.ns = OwnerNamespace[FluxInfo(req).controller]
        /\ sa.name \in fluxReconcilerServiceAccounts

\* Mutant: the account is looked for in the Flux namespace.
AccountInFluxNamespace(req, found, owner) ==
    LET sa == ParseServiceAccount(req.user)
    IN  IF found /\ owner.sa # ""
        THEN Owning(req, sa.ns = FluxNamespace /\ sa.name = owner.sa)
        ELSE Owning(req, FallbackReconciler(req))

\* owner.sa is .spec.serviceAccountName, "" when not set.
AfterOwner(req, found, owner) ==
    LET sa == ParseServiceAccount(req.user)
    IN  IF found /\ owner.sa # ""
        THEN Owning(req, /\ sa.ns = OwnerNamespace[FluxInfo(req).controller]
                         /\ sa.name = owner.sa)
        ELSE Owning(req, FallbackReconciler(req))

checkBypass(req) ==
    IF IsFluxController(req.user) THEN checkFluxOwnership(req)
    ELSE IF ~ParseServiceAccount(req.user).ok THEN NotOwner(req)
    ELSE IF OwnerIsNamed(req) THEN Await("owner")
    ELSE Owning(req, FallbackReconciler(req))

----------------------------------------------------------------------------
\* Handle, from the namespace scope on and from its entry.

ManagementGate(req) ==
    IF req.fault = "metadata" THEN Deny("denied_metadata_error")
    ELSE IF ~FluxInfo(req).isManaged THEN Allow("allowed_not_managed")
    ELSE checkBypass(req)

\* Mutants: an unreadable namespace is out of scope; it denies every request.
ScopeFailsOpen(req, found, namespace) ==
    IF ~found \/ ~namespace.labelled THEN Allow("allowed_namespace_filter")
    ELSE ManagementGate(req)
ScopeDenies(req, found, namespace) ==
    IF ~found THEN Deny("denied_metadata_error")
    ELSE IF ~namespace.labelled THEN Allow("allowed_namespace_filter")
    ELSE ManagementGate(req)

AfterScope(req, found, namespace) ==
    IF found /\ ~namespace.labelled THEN Allow("allowed_namespace_filter")
    ELSE ManagementGate(req)

Handle(req) ==
    IF req.subresource THEN Allow("allowed_subresource")
    ELSE IF ExcludedGroup THEN Allow("allowed_excluded_group")
    ELSE IF Namespace = "excluded" THEN Allow("allowed_namespace_filter")
    ELSE IF Namespace = "ordinary" /\ NamespaceLabel THEN Await("scope")
    ELSE ManagementGate(req)

\* The answer to a read, for every place the handler reads.
Resume(step, req, found, owner, namespace) ==
    CASE step = "scope"       -> AfterScope(req, found, namespace)
      [] step = "owner"       -> AfterOwner(req, found, owner)
      [] step = "terminating" -> AfterTerminating(req, found, namespace)
      [] step = "inventory"   -> AfterInventory(req, found, owner)
      [] step = "ignore"      -> AfterIgnore(req, found, owner)

OwnerReads == {"owner", "inventory", "ignore"}
NamespaceReads == {"scope", "terminating"}

\* buildResponse: audit-only admits what it would deny.
Response(decision, auditOnly) == decision.allowed \/ auditOnly
=============================================================================
