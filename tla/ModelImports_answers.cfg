SPECIFICATION Spec
CONSTANTS
    i1 = i1
    i2 = i2
    i3 = i3
    w1 = w1
    w2 = w2
    k1 = k1
    r1 = r1
    r2 = r2
    Imports = {i1, i2}
    Workspaces = {w1}
    Legacy = Legacy
    Keys = {k1}
    NoKey = NoKey
    Requests = {r1, r2}
    None = None
INVARIANTS
    AnswersAreValidated
