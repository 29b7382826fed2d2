SPECIFICATION FairSpec
CONSTANTS
    None = None
    Callers = {c1}
    Watchers = {w1}
    Refused = {}
    MaxWrites = 2
PROPERTY
    ChangesAreLoaded
