SPECIFICATION MCSpec
CONSTANTS
    s1 = s1
    i1 = i1
    w1 = w1
    Sleeps = {s1}
    Idents = {i1}
    Workers = {w1}
    PoolWorkers = {}
    SpareWorkers = {}
    MaxTime = 1
PROPERTIES StopEnds
CHECK_DEADLOCK FALSE
