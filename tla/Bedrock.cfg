\* Relay: two clients compete for one session.  Host proxy: two clients.
CONSTANTS
    Clients = {c1, c2}
    Sess = {s1, s2}
    MaxSessions = 1
    None = None
SPECIFICATION BedrockSpec
CHECK_DEADLOCK FALSE
INVARIANTS
    NothingIsOrphaned
    SessionsBounded
    TableIsServed
    SessionGaugeDriftsOnlyByContention
PROPERTIES
    ImplementsService
    HostProxyClosesBoth
