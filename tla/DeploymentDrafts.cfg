\* Two deployments, one draft deployed by two concurrent calls, and clients that
\* create deployments without a key or under the draft's: retries across crashes.
CONSTANTS
    Deployments = {d1, d2}
    Composed = {}
    Keys = {t1}
    Processes = {server}
    Server = server
    Readers = {}
    MaxVersion = 1
    Drafts = {t1}
    ImportKeys = {k1}
    c1 = c1
    c2 = c2
    Callers = {c1, c2}
    None = None
SPECIFICATION DraftsSpec
SYMMETRY Interchangeable
INVARIANTS OneDeploymentPerKey StartedDraftIsDeployed
