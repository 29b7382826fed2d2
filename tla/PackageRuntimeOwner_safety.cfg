\* Two requests for two installations, one status call, a runtime that moves
\* between two connections.
CONSTANTS
    Requests = {r1, r2}
    Installations = {i1, i2}
    Connections = {c1, c2}
    Watchers = {w1}
    None = None
SPECIFICATION Spec
INVARIANTS TypeOK CompletedIsTrue
PROPERTIES ActivatesOnce EvidenceIsKept
