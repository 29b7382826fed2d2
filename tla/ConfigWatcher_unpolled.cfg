SPECIFICATION FairSpec
CONSTANTS
    None = None
    Callers = {c1}
    Watchers = {w1}
    Refused = {}
    MaxWrites = 1
PROPERTY
    ChangesAreLoaded
