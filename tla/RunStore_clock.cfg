SPECIFICATION Spec
CONSTANTS
    None = None
    s1 = s1
    s2 = s2
    s3 = s3
    Slots = {s1, s2, s3}
    Profiles = {s2, s3}
    Streams = {s3}
    Snapshots = 1
    MaxRetry = 0
    MaxAttempts = 1
    MaxRevision = 1
    Lease = 2
    MaxTime = 3
    Stale = 1
    Back = 1
    Outcomes = {"failed", "censored"}
    MaxFaults = 1
    Cleanups = {"left"}
INVARIANTS
    ReceiptDescribesRow
    SuccessIsEarned
    StageStaysWithPublisher
PROPERTIES
    SoleSuccessNotOverruled
