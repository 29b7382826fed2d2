\* Two requests for one model, two workers, a control thread and the shutdown.
CONSTANTS
    Tasks = {t1, t2}
    Workers = {w1, w2}
    Models = {m1}
    Controllers = {c1}
    PluginFaults = {"factory", "load", "unload", "infer"}
    QueueSize = 1
    NoTask = NoTask
    Priority <- OnePriority
    ModelOf <- OneModel
    Main = main
SPECIFICATION Spec
SYMMETRY Interchangeable
INVARIANTS LoadedIsOwned EndsAreComplete
PROPERTIES UsesScheduler
CHECK_DEADLOCK FALSE
