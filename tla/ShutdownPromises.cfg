CONSTANTS
    m1 = m1
    e1 = e1
    s1 = s1
    chat = chat
    w1 = w1
    run = run
    None = None
    Monitors <- OneMonitor
    Entries <- OneEntry
    Slots <- OneSlot
    Intervals = {1}
    IdleWait = 1
    MaxEdits = 1
    MaxBeats = 2
    QueueSize = 1
    MaxBatch = 1
    MaxBacklog = 2
    Channels <- OneChannel
    Workers <- OneWorker
    Drainer = run
    MaxAlerts = 1
    MaxAttempts = 1
SPECIFICATION FairSpec
INVARIANT
    PromisesKept
PROPERTY
    StopEnds
\* The process exits.
CHECK_DEADLOCK FALSE
