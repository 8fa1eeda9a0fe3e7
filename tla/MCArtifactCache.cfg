SPECIFICATION Spec
CONSTANTS
    Procs = {p1, p2}
    Digests = {d1, d2}
    Recipes = {r1}
    RootNames = {n1}
    None = None
SYMMETRY CacheSymmetry
INVARIANTS GarbageClaimed HolderNotWaiting
PROPERTIES KeepsItsPromise
