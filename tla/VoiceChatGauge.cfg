\* Two handlers and three players; the table is full with two of them.
SPECIFICATION GaugeSpec
CONSTANTS
    Players = {p1, p2, p3}
    Backends = {b1, b2}
    Owners = {o1}
    Handlers = {h1, h2}
    MaxRegistrations = 2
    MaxLease = 3
    None = None
CHECK_DEADLOCK FALSE
INVARIANTS
    SerialUpdatesAreExact
PROPERTIES
    ImplementsPlayerLease
