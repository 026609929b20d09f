SPECIFICATION Spec
CONSTANTS
    e1 = e1
    e2 = e2
    r1 = r1
    g1 = g1
    g2 = g2
    a1 = a1
    a2 = a2
    a3 = a3
    h1 = h1
    h2 = h2
    o1 = o1
    o2 = o2
    c1 = c1
    c2 = c2
    w1 = w1
    k1 = k1
    k2 = k2
    m1 = m1
    m2 = m2
    m3 = m3
    p1 = p1
    p2 = p2
    t3 = t3
    t4 = t4
    v1 = v1
    v2 = v2
    v3 = v3
    q1 = q1
    q2 = q2
    none = none
    nowhere = nowhere
    Items = {v1, v2, v3}
    Pops = {q1, q2}
    Threads = {t3, t4}
    Limits = {1, 2}
    movedFrom = movedFrom
    Emitters = {e1, e2}
    Callbacks = {r1}
    Strong = {g1, g2}
    MaxEmits = 2
    QueuedResume = FALSE
    MaxItems = 2
    MaxAwaits = 2
    LeavesAtOnce = FALSE
    Sources = {a1, a2, a3}
    Ended = {}
    Handles = {h1, h2}
    Shared = {o1, o2}
    Conversions = {c1, c2}
    Waits = {w1}
    Frames = {k1, k2}
    Blocks = {m1, m2, m3}
    FrameSizes = {2}
    StackSizes = {1, 2}
    Points = {p1, p2}
    inline_count = 2
    MaxHandles = 5
    SourceIsVoid = TRUE
    f1 = f1
    f2 = f2
    l1 = l1
    l2 = l2
    nullOwner = nullOwner
    d1 = d1
    d2 = d2
    Owed = {f1, f2}
    Holders = {l1, l2}
    Discarded = {d1, d2}
    MaxStarts = 2
INVARIANTS PromisesKept InItsOrder ReadsItsValue EveryItemOnce NoOrphan PendingKept OneFrame HoldsTheList DefaultReaches CallbackOnce
PROPERTIES MatchedPopAnswered NobodyWaitsForTheDead AskEnds AggregatorAnswers ConversionAnswers
CHECK_DEADLOCK FALSE
