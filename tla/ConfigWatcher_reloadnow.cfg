SPECIFICATION Spec
CONSTANTS
    None = None
    Callers = {c1}
    Watchers = {w1}
    Refused = {1}
    MaxWrites = 1
INVARIANT
    ReloadNowTellsSuccess
