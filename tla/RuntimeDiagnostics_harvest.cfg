SPECIFICATION Spec
CONSTANTS
    c1 = c1
    c2 = c2
    Consoles = {c1, c2}
    MaxOutput = 2
    MaxProduct = 1
    MaxFaults = 0
    HarvestLimit = 2
    PageLimit = 2
INVARIANTS
    HarvestedOnce
