SPECIFICATION Spec
CONSTANTS
    None = None
    Deployments <- MCDeployments
    Edits <- MCEdits
    MaxChanges = 1
    MaxFaults = 0
    MaxWatch = 3
CHECK_DEADLOCK FALSE
INVARIANTS
    RecreationObservable
