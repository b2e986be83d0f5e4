\* One connection: its handler and copies, the accept loop, a swap of the snapshot and
\* the stop of the process interleave.
CONSTANTS
    Conns = {c1}
    Options <- MCOptions
    Deployments <- MCDeployments
    None = None
SPECIFICATION GatewaySpec
CHECK_DEADLOCK FALSE
INVARIANTS
    ExitLeavesNothingRunning
    ExitStatusIsRight
    NothingOutlivesHandler
PROPERTIES
    RunTerminates
    EitherEndClosesBothOrExit
