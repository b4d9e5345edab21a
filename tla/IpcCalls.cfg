SPECIFICATION Spec
CONSTANTS
    r1 = r1
    r2 = r2
    r3 = r3
    s1 = s1
    s2 = s2
    Requesters = {r1, r2}
    Mounter = r1
    Servers = {s1, s2}
    Tickets = {1, 2, 3, 4}
    NoTicket = 0
    Ops = {"call"}
    ReplyKinds = {"ok"}
    Faults = {"signal", "vgetfails", "shortread"}
    MaxRequests = 3
    MaxKills = 1
    fuse_max_freetickets = 2
    fuse_max_tickets = 2
    DaemonTimeout = FALSE
    NoAlerts = FALSE
    AtomicTicketer = TRUE
SYMMETRY Symmetry
INVARIANTS
    TicketsHaveOneOwner
    AnswerIsMine
    SleeperHasWaker
    NoStrandedMessage
    QueuedOnce
CHECK_DEADLOCK FALSE
