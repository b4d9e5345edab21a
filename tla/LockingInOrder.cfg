SPECIFICATION Spec
CONSTANTS
    t1 = t1
    t2 = t2
    t3 = t3
    Threads = {t1, t2, t3}
    None = None
    Nodes = {1, 2, 3, 4}
    Dirs = {1, 2}
    parent_nodeid <- ParentsBelow
SYMMETRY Symmetry
INVARIANTS
    LocksMatch
    NobodyWaitsInACircle
