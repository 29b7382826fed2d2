\* One caller of reload_now and a watcher that is stopped and started again while
\* its first thread still runs; three writes, the second of them refused.
SPECIFICATION FairSpec
CONSTANTS
    None = None
    Callers = {c1}
    Watchers = {w1, w2}
    Refused = {2}
    MaxWrites = 3
INVARIANTS
    ReloadNowIsFresh
PROPERTIES
    NeverBackwards
    QuietChangesAreLoaded
