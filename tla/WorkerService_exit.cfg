\* Reproduction: a request that was accepted while the scheduler stopped keeps its
\* pool thread, and the interpreter waits for that thread.
CONSTANTS
    Tasks = {t1, t2}
    Workers = {w1}
    Models = {m1}
    Controllers = {}
    PluginFaults = {}
    QueueSize = 1
    PoolSize = 2
    Fronts = {"sync"}
    Impatient = {t1}
    NoTask = NoTask
    Priority <- OnePriority
    ModelOf <- OneModel
    Main = main
SPECIFICATION WorkerFairSpec
PROPERTIES ProcessExits
CHECK_DEADLOCK FALSE
