\* One request, one worker and a shutdown.
CONSTANTS
    Tasks = {t1}
    Workers = {w1}
    Models = {m1}
    Controllers = {}
    PluginFaults = {"factory", "load", "unload", "infer"}
    QueueSize = 1
    NoTask = NoTask
    Priority <- OnePriority
    ModelOf <- OneModel
    Main = main
SPECIFICATION Spec
INVARIANTS FailedLoadReleases
CHECK_DEADLOCK FALSE
