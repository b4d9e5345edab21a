SPECIFICATION FairSpec
CONSTANTS
    t1 = t1
    t2 = t2
    None = None
    Threads <- TwoThreads
    PrivateMaps = TRUE
    MaxCreates = 2
    MaxHandles = 2
    MaxUses = 2
INVARIANTS TypeOK   
  
CHECK_DEADLOCK FALSE
