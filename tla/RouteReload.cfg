\* Both reloaders and the discovery watch, every failure once; two edits of the
\* file, one content of it broken.
CONSTANTS
    Contents = {0, 1, 2, 3}
    Broken = {2}
    StartupContent = 0
    Discovery = TRUE
    Watch = TRUE
    MaxEdits = 2
    MaxSignals = 1
    MaxChanges = 2
    MaxFaults = 1
    Nobody = Nobody
SPECIFICATION Spec
CHECK_DEADLOCK FALSE
INVARIANTS
    ReloadSurvivesDiscovery
    OnlyASignalUndoesTheWatcher
    OnlyAnOlderListUndoesDiscovery
