SPECIFICATION MCSpec
CONSTANTS
    Elements <- MCElements
    Leaves <- MCLeaves
    ListPaths <- MCListPaths
    FluxSets <- MCFluxSets
    IgnoreSets <- MCIgnoreSets
    v = v
    Absent = Absent
    EmptyMap = EmptyMap
    Malformed = Malformed
    NoFields = NoFields
    Values = {v, EmptyMap}
    MaxDiffDepth = 3
    Letters = {"a"}
    MaxPointer = 6
    Patterns <- MCPatterns
    Pointers = {"replicas", "image", "root"}
    Root = "root"
    Invalid = "invalid"
    Entries <- MCEntries
    MaxEntries = 2
    v1 = v1
    v2 = v2
    FieldValues = {v1, v2}
    FluxNamespace = "flux-system"
    Segments = {"", "system", "serviceaccount", "apiserver"}
    MaxSegments = 4
    Durations <- MCDurations
    Policies = {"Ignore", "Fail", "fail"}
    Timeouts = {0, 1, 3, 30, 31}
    DefaultInterval = 300
CHECK_DEADLOCK FALSE
INVARIANTS
    DiffIsTheWalk
    DiffIsExact
    NoDriftWaived
    ConflictHasCause
    NamesItsField
    WaivesOnlySelected
    FailsClosed
    EveryRuleCounts
    ReadsSurvive
    OneIdentityPerEntry
    NoInertEntry
    IntervalPrecedence
    ChartAgrees
