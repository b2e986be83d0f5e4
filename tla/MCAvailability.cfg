\* Two backends, two changes of them; with two workers requests may overtake one
\* another.  One fault: a call that fails at the monitor, or a restart of the companion.
CONSTANTS
    Backends <- MCBackends
    Workers = 2
    MaxFlips = 2
    MaxFaults = 1
    None = None
SPECIFICATION FairSpec
CHECK_DEADLOCK FALSE
INVARIANTS
    DeliveredUnlessStrayed
    NoRumourAtShutdown
PROPERTIES
    Converges
