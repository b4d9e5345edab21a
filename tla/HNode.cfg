SPECIFICATION FairSpec
CONSTANTS
    t1 = t1
    t2 = t2
    i1 = i1
    i2 = i2
    k1 = k1
    k2 = k2
    a1 = a1
    a2 = a2
    v1 = v1
    v2 = v2
    None = None
    Threads <- TwoThreads
    Inos <- TwoInos
    Kinds <- TwoKinds
    Addrs <- TwoAddrs
    Entries <- ThreeEntries
    VNodes <- TwoVNodes
    BigLock = FALSE
    Faults <- AllFaults
    MaxAsks = 3
INVARIANTS
    TypeOK
    VnodeIsTheOneAsked
    OneNodePerId
    NoUseAfterFree
    NoNodeLeak
    SleeperHasAttacher
    
PROPERTIES
    ImplementsNodeTable
    LookupsReturn
CHECK_DEADLOCK FALSE
