SPECIFICATION Spec
CONSTANTS
    d1 = d1
    d2 = d2
    v1 = v1
    v2 = v2
    Daemons = {d1, d2}
    Mounters = {v1, v2}
    Sessions = {1, 2, 3, 4}
    None = 0
    MayUnload = TRUE
    MaxOpens = 4
    MaxMounts = 4
SYMMETRY Symmetry
INVARIANTS
    TeardownIsFinal
CHECK_DEADLOCK FALSE
