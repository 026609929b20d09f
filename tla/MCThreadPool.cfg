SPECIFICATION FairSpec
CONSTANTS
    Workers = {w1, w2}
    Clients = {c1, c2}
    AwaitedTasks = {k1, k2}
    SilentTasks = {k3}
CHECK_DEADLOCK FALSE
INVARIANTS EachTaskOnce WorkersGone
PROPERTIES TaskSettles StopEnds
