SPECIFICATION FairSpec
CONSTANTS
    None = None
    s1 = s1
    s2 = s2
    Slots = {s1, s2}
    Profiles = {s2}
    Streams = {s2}
    Snapshots = 1
    MaxRetry = 0
    MaxAttempts = 1
    MaxRevision = 0
    Lease = 1
    MaxTime = 2
    Stale = 1
    Back = 0
    Outcomes = {"failed", "censored"}
    MaxFaults = 1
    Cleanups = {"none"}
PROPERTIES
    EveryAttemptEnds
    StagesResolved
