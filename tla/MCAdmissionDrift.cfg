SPECIFICATION Spec
CONSTANTS
    Elements <- MCElements
    Leaves <- MCLeaves
    ListPaths <- MCListPaths
    Values <- MCValues
    Absent = Absent
    EmptyMap = EmptyMap
    Malformed = Malformed
    NoFields = NoFields
    None = None
    MaxDiffDepth = 50
    FluxNamespace = "flux-system"
    Namespace = "ordinary"
    ExcludedGroup = FALSE
    NamespaceLabel = FALSE
    SystemControllerSAs <- MCSystemControllerSAs
    KustomizeLabel <- kust
    HelmLabel <- helm
    Bypass <- bypass
    Reconcile <- reconcile
    Disabled = "off"
    Owners <- MCOwners
    OwnerNamespace <- MCOwnerNamespace
    Me = "me"
    OwnerLabel <- kust
    FluxController <- MCFluxController
    FluxManager <- MCFluxManager
    NamespaceController <- MCNamespaceController
    ScaleLeaves = {}
    AuditOnly = FALSE
    FailOpen = FALSE
    FetchTimeout = 2
    WebhookTimeout = 3
    RequestFaults = {"none"}
    ServiceAccounts = {""}
    Slots = {s1, s2}
    Clients <- DriftClients
    IgnoreSets <- DriftIgnoreSets
    Manifests <- DriftManifests
    ClientDocs <- DriftClientDocs
    ClientEdits <- DriftEdits
    Releases <- DriftReleases
    MaxRequests = 2
    MaxChanges = 1
    MaxFaults = 0
SYMMETRY Symmetry
CHECK_DEADLOCK FALSE
INVARIANTS
    TypeOK
    DriftFree
    StillOwned
PROPERTIES
    NotDisarmedByClients
    ImplementsGuard
