\* Two bindings that compete for two loopback ports, while runtimes restart and
\* the catalog moves.
CONSTANTS
    Bindings = {b1, b2}
    Installations = {i1, i2}
    Connections = {c1, c2}
    VersionOf <- OneVersion
    MaxGeneration = 3
    None = None
SPECIFICATION Spec
SYMMETRY Interchangeable
INVARIANTS EngineAnsweredForItself OneAuthority
