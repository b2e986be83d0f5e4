SPECIFICATION Spec
CONSTANTS
    Players = {p1}
    Addrs = {a1}
    Backends = {b1}
    Owners = {o1}
    Handlers = {h1}
    Sess = {s1, s2}
    MaxRegistrations = 1
    MaxSessions = 1
    MaxLease = 2
    None = None
SYMMETRY Symmetry
CHECK_DEADLOCK FALSE
INVARIANTS
    NoOrphanSocket
    TableIsLive
    ForwardsUnderLookedUpLease
    GaugeNeverUndercounts
