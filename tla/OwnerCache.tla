----------------------------- MODULE OwnerCache -----------------------------
(***************************************************************************)
(* What the informer store holds of an object the API server has, and what *)
(* the handler and the reconciler read from it (internal/webhook/cache.go, *)
(* and the reads of handler.go, ignore.go and webhook_config.go).  The     *)
(* tests of those reads use a client that holds whole objects; a running   *)
(* replica sees what the transform of the cache has left.                  *)
(***************************************************************************)
CONSTANT FieldValues    \* values of one field of a spec or a status

OwnerKinds == {"Kustomization", "HelmRelease"}
Kinds == OwnerKinds \cup {"Namespace", "ValidatingWebhookConfiguration"}

SpecFields == {"serviceAccountName", "ignore", "patches"}
StatusFields == {"inventory", "conditions"}

\* A section of an object: none, one that is not a map, or some fields.
NoSection == [is |-> "absent", fields |-> <<>>]
Scalar == [is |-> "scalar", fields |-> <<>>]
Map(fields) == [is |-> "map", fields |-> fields]
Sections(names) ==
    {NoSection, Scalar} \cup UNION {{Map(f) : f \in [some -> FieldValues]} : some \in SUBSET names}

Objects ==
    [kind : Kinds, deleting : BOOLEAN, managedFields : BOOLEAN,
     spec : Sections(SpecFields), status : Sections(StatusFields)]

VARIABLES
    server,   \* the object as the API server has it
    store     \* what the informer has stored of it

cacheVars == <<server, store>>

Nothing == [kind |-> "nothing"]

----------------------------------------------------------------------------
stripManagedFields(obj) == [obj EXCEPT !.managedFields = FALSE]

isOwnerGVK(obj) == obj.kind \in OwnerKinds

ownerCacheSpecFields == {"serviceAccountName", "ignore"}
\* Mutant: the list was not extended when the handler began to read inventories.
WithoutInventory == {}
ownerCacheStatusFields == {"inventory"}

\* No section is made for fields that are not there.
copyFields(section, names) ==
    LET found == names \cap DOMAIN section.fields
    IN  IF section.is # "map" \/ found = {} THEN NoSection
        ELSE Map([f \in found |-> section.fields[f]])

StripOwnerForCache(obj) ==
    [stripManagedFields(obj) EXCEPT
        !.spec = copyFields(obj.spec, ownerCacheSpecFields),
        !.status = copyFields(obj.status, ownerCacheStatusFields)]

cacheTransform(obj) == IF isOwnerGVK(obj) THEN StripOwnerForCache(obj) ELSE stripManagedFields(obj)

\* A namespace is watched and read as its metadata.
NamespaceMetadata(obj) ==
    IF obj.kind = "Namespace" THEN [obj EXCEPT !.spec = NoSection, !.status = NoSection] ELSE obj

----------------------------------------------------------------------------
CacheInit == server \in Objects /\ store = Nothing

\* The watch delivers the object.
Deliver ==
    /\ store = Nothing
    /\ store' = cacheTransform(NamespaceMetadata(server))
    /\ UNCHANGED server

\* The informer puts what it has stored through its transform once more.
Resync ==
    /\ store # Nothing
    /\ store' = cacheTransform(store)
    /\ UNCHANGED server

CacheNext == Deliver \/ Resync
CacheSpec == CacheInit /\ [][CacheNext]_cacheVars

----------------------------------------------------------------------------
\* unstructured.NestedX: a section that is not a map reads like a missing field,
\* because every reader treats the error like the absence.
Nested(section, name) ==
    IF section.is = "map" /\ name \in DOMAIN section.fields
    THEN {section.fields[name]} ELSE {}

\* owningReconcilerSA, parseIgnoreRules (of a Kustomization), ownerInventoryContains
OwnerReads(obj) ==
    [serviceAccountName |-> Nested(obj.spec, "serviceAccountName"),
     ignore |-> IF obj.kind = "Kustomization" THEN Nested(obj.spec, "ignore") ELSE {},
     inventory |-> Nested(obj.status, "inventory")]

\* namespaceIsTerminating reads the metadata; Reconcile reads the webhooks of the
\* configuration, which stand here in the place of a spec.
Reads(obj) ==
    CASE obj.kind \in OwnerKinds -> OwnerReads(obj)
      [] obj.kind = "Namespace" -> [deleting |-> obj.deleting]
      [] OTHER -> [webhooks |-> obj.spec]

(***************************************************************************)
(* Whatever shape an object has, the handler and the reconciler read from  *)
(* the store what they would read from the server ("the cache stores only  *)
(* what the handler actually consumes"), however often it is transformed.  *)
(***************************************************************************)
ReadsSurvive == store # Nothing => Reads(store) = Reads(server)

Tidy(section) == section = NoSection \/ (section.is = "map" /\ DOMAIN section.fields # {})

(***************************************************************************)
(* And of an owner or a namespace nothing else is stored: no managedFields,*)
(* no field that is never read, no empty section (the memory the readme    *)
(* promises to bound).                                                     *)
(***************************************************************************)
StoresOnlyReads ==
    store # Nothing /\ store.kind # "ValidatingWebhookConfiguration" =>
        /\ ~store.managedFields
        /\ Tidy(store.spec) /\ Tidy(store.status)
        /\ DOMAIN store.spec.fields \subseteq {"serviceAccountName", "ignore"}
        /\ DOMAIN store.status.fields \subseteq {"inventory"}
=============================================================================
