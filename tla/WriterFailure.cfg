CONSTANTS
    a = a
    b = b
    Monitors <- TwoMonitors
    MaxBeats = 6
    QueueSize = 2
    MaxBatch = 2
    MaxBacklog = 3
    CanFail = TRUE
    CanDelete = TRUE
    CanStop = TRUE
SPECIFICATION FairSpec
INVARIANTS
    Conserved
    TheRecentSurvives
    BacklogBounded
    StopsEmpty
    WriterInvariant
PROPERTY
    EventuallyWritten
\* A writer that stopped, or has all its heartbeats, waits for ever.
CHECK_DEADLOCK FALSE
