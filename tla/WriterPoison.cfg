CONSTANTS
    a = a
    b = b
    Monitors <- TwoMonitors
    MaxBeats = 5
    QueueSize = 2
    MaxBatch = 2
    MaxBacklog = 3
    CanFail = FALSE
    CanDelete = TRUE
    CanStop = FALSE
SPECIFICATION Spec
INVARIANTS
    DropsOnlyIfDatabaseFailed
CHECK_DEADLOCK FALSE
