SPECIFICATION PromptSpec
CONSTANTS
    None = None
    Deployments <- MCDeployments
    Edits <- MCEdits
    MaxChanges = 2
    MaxFaults = 1
    MaxWatch = 3
INVARIANTS
    NeverStranded
    FailsOpenWithoutBundle
PROPERTIES
    BundleKept
    InterceptsFluxWrites
    NoLoop
    Recreated
    EditsUndone
    EndsComplete
