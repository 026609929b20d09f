SPECIFICATION FairSpec
CONSTANTS
    Coroutines = {c1, c2, c3}
    Points = {p1, p2}
    Threads = {t1, t2}
    MaxDepth = 6
    SelfLast = FALSE
CHECK_DEADLOCK FALSE
INVARIANTS OneHandle QueueIsServed
PROPERTIES QueuedRuns
