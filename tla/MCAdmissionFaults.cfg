SPECIFICATION Spec
CONSTANTS
    Elements <- MCElements
    Leaves <- MCLeaves
    ListPaths <- MCListPaths
    Values <- MCValues
    Absent = Absent
    EmptyMap = EmptyMap
    Malformed = Malformed
    NoFields = NoFields
    None = None
    MaxDiffDepth = 50
    FluxNamespace = "flux-system"
    Namespace = "ordinary"
    ExcludedGroup = FALSE
    NamespaceLabel = TRUE
    SystemControllerSAs <- MCSystemControllerSAs
    KustomizeLabel <- kust
    HelmLabel <- helm
    Bypass <- bypass
    Reconcile <- reconcile
    Disabled = "off"
    Owners <- MCOwners
    OwnerNamespace <- MCOwnerNamespace
    Me = "me"
    OwnerLabel <- kust
    FluxController <- MCFluxController
    FluxManager <- MCFluxManager
    NamespaceController <- MCNamespaceController
    ScaleLeaves <- DriftScale
    AuditOnly = FALSE
    FailOpen = TRUE
    FetchTimeout = 2
    WebhookTimeout = 3
    RequestFaults <- Faults
    ServiceAccounts = {""}
    Slots = {s1}
    Clients <- FaultyClients
    IgnoreSets <- FaultyIgnoreSets
    Manifests <- FaultyManifests
    ClientDocs = {}
    ClientEdits <- FaultyEdits
    Releases <- DriftReleases
    MaxRequests = 2
    MaxChanges = 1
    MaxFaults = 2
CHECK_DEADLOCK FALSE
INVARIANTS
    ProtectionInv
    HarmlessAdmitted
    OwnerNotLockedOut
