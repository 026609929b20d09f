SPECIFICATION BothSpec
CONSTANTS
    Futures = {f1}
    Promises = {p1, p2}
    Threads = {t1, t2}
    Coros = {c1}
    Syncs = {s1}
    Callbacks = {b1}
    Heaps = {}
    Values = {v1}
    nullptr = nullptr
    instance = instance
    disabled = disabled
    Sleeps = {e1, e2}
    Idents = {i1}
    Workers = {w1, w2}
    PoolWorkers = {w1}
    SpareWorkers = {}
    MaxTime = 1
CHECK_DEADLOCK FALSE
INVARIANTS NoOversleep NoPromiseLost
PROPERTIES ImplementsContract SleepEnds OthersRun
