CONSTANTS
    Procs = {p, q}
    Files = {a, b}
    Backends = {"uv", "nix"}
    Commands = {"lock", "check", "run"}
    MaxEdits = 2
    MaxCommands = 3
    MaxGens = 3
    MaxDamage = 1
    None = None
    p = p
    q = q
    a = a
    b = b
SPECIFICATION Spec
SYMMETRY Symmetry
CHECK_DEADLOCK FALSE
INVARIANTS
    EnvironmentAsLocked
    SteadyRunAsLocked
    GenerationsShared
    OutputsStayRooted
