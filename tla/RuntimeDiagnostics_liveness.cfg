SPECIFICATION FairSpec
CONSTANTS
    c1 = c1
    c2 = c2
    Consoles = {c1, c2}
    MaxOutput = 2
    MaxProduct = 0
    MaxFaults = 1
    HarvestLimit = 1
    PageLimit = 2
PROPERTIES
    OutputIsShown
