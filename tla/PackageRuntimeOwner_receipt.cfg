\* One request and one concurrent status call.
CONSTANTS
    Requests = {r1}
    Installations = {i1}
    Connections = {c1}
    Watchers = {w1}
    None = None
SPECIFICATION Spec
INVARIANTS OfferedReceiptIsSaved
