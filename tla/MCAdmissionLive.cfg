SPECIFICATION LiveSpec
CONSTANTS
    Elements <- MCElements
    Leaves <- MCLeaves
    ListPaths <- MCListPaths
    Values <- MCValues
    Absent = Absent
    EmptyMap = EmptyMap
    Malformed = Malformed
    NoFields = NoFields
    None = None
    MaxDiffDepth = 50
    FluxNamespace = "flux-system"
    Namespace = "ordinary"
    ExcludedGroup = FALSE
    NamespaceLabel = FALSE
    SystemControllerSAs <- MCSystemControllerSAs
    KustomizeLabel <- kust
    HelmLabel <- helm
    Bypass <- bypass
    Reconcile <- reconcile
    Disabled = "off"
    Owners <- MCOwners
    OwnerNamespace <- MCOwnerNamespace
    Me = "me"
    OwnerLabel <- kust
    FluxController <- MCFluxController
    FluxManager <- MCFluxManager
    NamespaceController <- MCNamespaceController
    ScaleLeaves = {}
    AuditOnly = FALSE
    FailOpen = FALSE
    FetchTimeout = 2
    WebhookTimeout = 3
    RequestFaults = {"none"}
    ServiceAccounts <- LiveAccounts
    Slots = {s1}
    Clients <- DriftClients
    IgnoreSets = {{}}
    Manifests <- LiveManifests
    ClientDocs = {}
    ClientEdits <- LiveEdits
    Releases = {{}}
    MaxRequests = 1
    MaxChanges = 2
    MaxFaults = 1
CHECK_DEADLOCK FALSE
PROPERTIES
    FluxConverges
    TeardownCompletes
