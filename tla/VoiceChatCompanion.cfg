\* Moves in haste or not, and one fault: a call that fails or comes late, or a crash.
CONSTANTS
    Players = {p1}
    Backends = {b1, b2}
    Owners = {o1}
    MaxRegistrations = 1
    MaxLease = 3
    MaxTracked = 1
    MaxAttempts = 2
    MaxFaults = 1
    MaxMoves = 2
    Timely = TRUE
    None = None
SPECIFICATION FairSpec
CHECK_DEADLOCK FALSE
INVARIANTS
    RefreshesOnlyOwnPlayers
    OrderlyMoveKeepsClaim
PROPERTIES
    AbandonedClaimEnds
