SPECIFICATION Spec
CONSTANTS
    None = None
    s1 = s1
    Slots = {s1}
    Profiles = {}
    Streams = {}
    Snapshots = 1
    MaxRetry = 1
    MaxAttempts = 2
    MaxRevision = 0
    Lease = 1
    MaxTime = 2
    Stale = 0
    Back = 0
    Outcomes = {"failed", "censored"}
    MaxFaults = 0
    Cleanups = {"none"}
INVARIANTS
    TypeOK
    OneAccepted
    ClaimHeldByFinalizer
    LoserSnapshotStable
PROPERTIES
    SelectionPermanent
