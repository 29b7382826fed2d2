SPECIFICATION Spec
CONSTANTS
    c1 = c1
    c2 = c2
    Consoles = {c1, c2}
    MaxOutput = 2
    MaxProduct = 1
    MaxFaults = 1
    HarvestLimit = 1
    PageLimit = 2
SYMMETRY Interchangeable
INVARIANTS
    NothingSkipped
    PagesJoin
