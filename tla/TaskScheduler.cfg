\* Three submitters, two workers and a queue of two: overload, cancellation and
\* shutdown at every point.  Workers may end up waiting, so the system may stop.
CONSTANTS
    Tasks = {t1, t2, t3}
    Workers = {w1, w2}
    QueueSize = 2
    Urgent = {t1}
    NoTask = NoTask
    Priority <- TwoPriorities
SPECIFICATION SchedulerFairSpec
INVARIANTS RunsOnce NoTaskLost
PROPERTIES QueuedIsResolved
CHECK_DEADLOCK FALSE
