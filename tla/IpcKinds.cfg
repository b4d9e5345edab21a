SPECIFICATION Spec
CONSTANTS
    r1 = r1
    r2 = r2
    r3 = r3
    s1 = s1
    s2 = s2
    Requesters = {r1, r2}
    Mounter = r1
    Servers = {s1}
    Tickets = {1, 2, 3, 4}
    NoTicket = 0
    Ops = {"call", "forget", "release", "fsync"}
    ReplyKinds = {"ok", "error", "bad", "nomem"}
    Faults = {"signal", "makefails", "ioctl"}
    MaxRequests = 3
    MaxKills = 0
    fuse_max_freetickets = 1
    fuse_max_tickets = 0
    DaemonTimeout = FALSE
    NoAlerts = FALSE
    AtomicTicketer = TRUE
SYMMETRY Symmetry
INVARIANTS
    TypeOK
    
PROPERTIES
    ImplementsRemoteCall
CHECK_DEADLOCK FALSE
