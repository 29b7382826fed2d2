\* Two streams and an unload that share one thread of the pool; one stream may lose
\* its client, and loads and unloads may fail.
CONSTANTS
    Tasks = {t1, t2}
    Workers = {w1}
    Models = {m1}
    Controllers = {c1}
    PluginFaults = {"load", "unload"}
    QueueSize = 1
    PoolSize = 1
    Fronts = {"sync", "async"}
    Impatient = {t1}
    NoTask = NoTask
    Priority <- OnePriority
    ModelOf <- OneModel
    Main = main
SPECIFICATION WorkerFairSpec
INVARIANTS WorkerTypeOK OkIsComplete WaitingIsServed
PROPERTIES UsesServer CallsAreAnswered ExitsUnlessStranded StartedStreamsEnd ShutdownReturns
CHECK_DEADLOCK FALSE
