SPECIFICATION Spec
CONSTANTS
    t1 = t1
    t2 = t2
    t3 = t3
    Threads = {t1, t2}
    None = None
    Nodes = {1, 2, 3, 4}
    Dirs = {3, 4}
    parent_nodeid <- ParentsAbove
INVARIANTS
    NobodyWaitsInACircle
CHECK_DEADLOCK FALSE
