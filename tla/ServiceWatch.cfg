\* Three failures: a failed run, a retry and a failed retry, then a recovery.
CONSTANTS
    MaxChanges = 2
    MaxFaults = 3
SPECIFICATION FairSpec
CHECK_DEADLOCK FALSE
INVARIANTS
    ReadyMeansApplied
    BackoffCountsFailedRuns
PROPERTIES
    AppliedNeverGoesBack
    Converges
    StopTerminates
