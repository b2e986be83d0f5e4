SPECIFICATION FairSpec
CONSTANTS
    Players = {p1}
    Addrs = {a1}
    Backends = {b1}
    Owners = {o1}
    Handlers = {h1}
    Sess = {s1}
    MaxRegistrations = 1
    MaxSessions = 1
    MaxLease = 2
    None = None
CHECK_DEADLOCK FALSE
PROPERTIES
    ImplementsService
    ExpiredIsSwept
    IdleIsSwept
