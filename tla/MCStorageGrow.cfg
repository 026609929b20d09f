SPECIFICATION StorageSpec
CONSTANTS
    k1 = k1
    k2 = k2
    k3 = k3
    m1 = m1
    m2 = m2
    m3 = m3
    m4 = m4
    nowhere = nowhere
    Frames = {k1, k2, k3}
    Blocks = {m1, m2, m3, m4}
    FrameSizes = {1, 2}
    StackSizes = {1, 2}
INVARIANT OneFrame
CHECK_DEADLOCK FALSE
