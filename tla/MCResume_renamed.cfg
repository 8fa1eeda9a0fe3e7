SPECIFICATION Spec
CONSTANTS
    None = None
    NameOrder <- MCNameOrder
    Shuffle <- MCShuffle
    Manifests <- RenamedManifests
    Worlds <- OneWorld
    FirstWorlds = {"here"}
    Volumes <- OneVolume
    Selections = {"all"}
    MaxEdits = 1
    MaxRuns = 2
    MaxAttempts = 3
    MaxFaults = 0
CHECK_DEADLOCK FALSE
INVARIANT SlotsOwnObservations
