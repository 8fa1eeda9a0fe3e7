SPECIFICATION Spec
CONSTANTS
    None = None
    r1 = r1
    r2 = r2
    p1 = p1
    p2 = p2
    Repetitions = {r1}
    Points = 2
    Schedule <- OneRepetition
    Limit = 2
    PointLimit = 2
    Target = TRUE
    Lanes = 1
    Procs = {p1, p2}
    Selections <- WholeSchedule
    Retries = {TRUE}
    Dispatches = {None}
    Measured = {1, 4}
    Plans = {"accepted", "timeout"}
    MaxRetry = 1
    MaxCrashes = 0
SYMMETRY Symmetric
INVARIANTS
    OneOwner
    DecidedPointsRest
    CensoredDecides
    BudgetHeld
    ProgressArchivable
    StatusPredictsResume
PROPERTIES
    DecisionFinal
