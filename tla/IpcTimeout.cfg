SPECIFICATION FairSpec
CONSTANTS
    r1 = r1
    r2 = r2
    r3 = r3
    s1 = s1
    s2 = s2
    Requesters = {r1, r2}
    Mounter = r1
    Servers = {s1}
    Tickets = {1, 2, 3, 4}
    NoTicket = 0
    Ops = {"call"}
    ReplyKinds = {"ok"}
    Faults = {"signal"}
    MaxRequests = 3
    MaxKills = 0
    fuse_max_freetickets = 2
    fuse_max_tickets = 0
    DaemonTimeout = TRUE
    NoAlerts = FALSE
    AtomicTicketer = FALSE
PROPERTIES
    CallsReturn
CHECK_DEADLOCK FALSE
