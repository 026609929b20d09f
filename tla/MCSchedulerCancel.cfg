SPECIFICATION SchedulerSpec
CONSTANTS
    Sleeps = {s1, s2}
    Idents = {i1}
    Workers = {w1}
    PoolWorkers = {}
    SpareWorkers = {}
    MaxTime = 1
CHECK_DEADLOCK FALSE
INVARIANT CancelFinds
