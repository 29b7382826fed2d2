\* One request, one worker and a shutdown.
CONSTANTS
    Tasks = {t1}
    Workers = {w1}
    Models = {m1}
    Controllers = {}
    PluginFaults = {}
    QueueSize = 1
    NoTask = NoTask
    Priority <- OnePriority
    ModelOf <- OneModel
    Main = main
SPECIFICATION Spec
INVARIANTS StoppedIsReleased
CHECK_DEADLOCK FALSE
