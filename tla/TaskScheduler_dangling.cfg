\* One submitter and one worker are enough.
CONSTANTS
    Tasks = {t1}
    Workers = {w1}
    QueueSize = 1
    Urgent = {}
    NoTask = NoTask
    Priority <- TwoPriorities
SPECIFICATION SchedulerSpec
INVARIANTS NoDanglingFutures
CHECK_DEADLOCK FALSE
