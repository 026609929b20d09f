SPECIFICATION FairSpec
CONSTANTS
    Coros = {c1, c2, c3}
    Syncs = {s1}
    nullptr = nullptr
    doorman = doorman
    NextReload = FALSE
INVARIANTS MutualExclusion QueueDiscipline
PROPERTIES FirstComeFirstServed WaiterRuns
