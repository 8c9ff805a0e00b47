SPECIFICATION Spec
CONSTANTS
    Elements <- MCElements
    Leaves <- MCLeaves
    ListPaths = {}
    Values <- MCValues
    Absent = Absent
    EmptyMap = EmptyMap
    Malformed = Malformed
    NoFields = NoFields
    None = None
    MaxDiffDepth = 50
    FluxNamespace = "flux-system"
    Namespace = "ordinary"
    ExcludedGroup = FALSE
    NamespaceLabel = TRUE
    SystemControllerSAs <- MCSystemControllerSAs
    KustomizeLabel <- kust
    HelmLabel <- helm
    Bypass <- bypass
    Reconcile <- reconcile
    Disabled = "off"
    Owners <- MCOwners
    OwnerNamespace <- MCOwnerNamespace
    Slots = {s1, s2}
    RequestPool <- MCRequestPool
    OwnerStates <- MCOwnerStates
    AuditOnly = TRUE
    FetchTimeout = 4
    WebhookTimeout = 6
    MaxCalls = 2
SYMMETRY Symmetry
CHECK_DEADLOCK FALSE
INVARIANTS
    EveryAnswerCounted
    WouldDeniesCounted
    TailCoversTheUnanswered
