SPECIFICATION Spec
CONSTANTS
    None = None
    Runs <- MCRuns
    Plans <- MCPlans
    Policy <- MCPolicy
    MaxFrames = 2
    StreamBound = 2
    Unasked <- MCUnasked
    Absent = Absent
    Profiles <- MCProfiles
    MaxFaults = 2
    AheadCost = 2
INVARIANTS
    AnswersTheRequest
    CleanWorker
    NothingLeftBehind
    DeadlineInScope
    PublishedAsJudged
    NothingLatePublished
    RecordingAccepted
PROPERTIES
    LaneEnds
