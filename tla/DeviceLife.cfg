SPECIFICATION FairSpec
CONSTANTS
    d1 = d1
    d2 = d2
    v1 = v1
    v2 = v2
    Daemons = {d1, d2}
    Mounters = {v1, v2}
    Sessions = {1, 2, 3}
    None = 0
    MayUnload = TRUE
    MaxOpens = 3
    MaxMounts = 3
INVARIANTS
    TypeOK
    
    SomebodyFrees
    MountsOwnSession
    TornDownEmpty

    
    
CHECK_DEADLOCK FALSE
