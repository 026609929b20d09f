SPECIFICATION QueueSpec
CONSTANTS
    Items = {v1, v2, v3}
    Pops = {k1, k2}
    Threads = {t1, t2}
    Limits = {1, 2}
    movedFrom = movedFrom
CHECK_DEADLOCK FALSE
PROPERTY UnblockedIsRemoved
