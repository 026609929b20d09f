SPECIFICATION MCSpec
CONSTANTS
    Futures = {f1, f2}
    Promises = {p1, p2}
    Threads = {t1, t2}
    Coros = {c1}
    Syncs = {s1}
    Callbacks = {}
    Heaps = {h1}
    Values = {v1}
    nullptr = nullptr
    instance = instance
    disabled = disabled
    Subscribers = {p1, p2}
    Subscriptions = {"all_values", "skip_if_behind", "skip_to_recent"}
    Callers = {t1, t2}
    MaxLens = {1, 2}
    MinLens = {1}
    MaxItems = 2
SYMMETRY Symmetry
CHECK_DEADLOCK FALSE
INVARIANTS ResolvedOnce WalksSuspended OneOutcome NoLostWaiter ListsSound NobodySleepsThrough
PROPERTIES InOrder EndIsJustified
