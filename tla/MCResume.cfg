SPECIFICATION Spec
CONSTANTS
    None = None
    NameOrder <- MCNameOrder
    Shuffle <- MCShuffle
    Manifests <- MCManifests
    Worlds <- MCWorlds
    FirstWorlds = {"here", "rebuilt"}
    Volumes <- MCVolumes
    Selections = {"all", "candidate", "observation"}
    MaxEdits = 1
    MaxRuns = 2
    MaxAttempts = 2
    MaxFaults = 2
CHECK_DEADLOCK FALSE
INVARIANTS
    ReusedWorkIsSame
    CoveredOnce
    OrderStable
    ReferencesDurable
