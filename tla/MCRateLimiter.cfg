\* A token every one and a half ticks; a bucket of two fills up in three; the
\* table has room for one of two clients.
CONSTANTS
    Addrs = {a1, a2}
    Handlers = {h1, h2}
    Burst = 2
    Unit = 3
    Refill = 2
    IdleTimeout = 4
    MaxEntries = 1
    MaxDelay = 1
    MaxClock = 6
    MaxSwaps = 1
    None = None
SPECIFICATION Spec
SYMMETRY Symmetry
CHECK_DEADLOCK FALSE
INVARIANTS
    PacedWhileKept
    ExpiryIsFree
    SpacedClientIsAdmitted
