SPECIFICATION FairSpec
CONSTANTS
    None = None
    r1 = r1
    r2 = r2
    Repetitions = {r1, r2}
    Points = 2
    Schedule <- TwoRepetitions
    Limit = 2
    PointLimit = 1
    Target = FALSE
    Lanes = 2
    Procs = {p1}
    Selections <- WholeSchedule
    Retries = {FALSE}
    Dispatches = {None, 3}
    Measured = {1}
    Plans = {"accepted"}
    MaxRetry = 0
    MaxCrashes = 1
PROPERTIES
    RepetitionsEnd
