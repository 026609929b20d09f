SPECIFICATION Spec
CONSTANTS
    Coros = {c1, c2, c3}
    Syncs = {s1}
    nullptr = nullptr
    doorman = doorman
    NextReload = TRUE
INVARIANT MutualExclusion
