SPECIFICATION FairSpec
CONSTANTS
    Replicas = {r1, r2}
    None = None
    CachedObjectTypes <- MCCachedObjectTypes
    CRDs <- MCCRDs
    MaxStops = 1
    MaxFlaps = 1
CHECK_DEADLOCK FALSE
INVARIANTS
    NoColdTraffic
    OneController
PROPERTIES
    EveryReplicaServes
    SomeoneControls
