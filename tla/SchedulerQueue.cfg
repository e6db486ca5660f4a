CONSTANTS
    m1 = m1
    m2 = m2
    e1 = e1
    e2 = e2
    e3 = e3
    s1 = s1
    s2 = s2
    None = None
    Monitors <- TwoMonitors
    Entries <- ThreeEntries
    Slots <- TwoSlots
    Intervals = {1, 2}
    IdleWait = 3
    MaxEdits = 3
    Returns = TRUE
    CanStop = TRUE
SPECIFICATION FairSpec
INVARIANTS
    OneCheckPerEntry
    NobodyForgotten
    NeverOversleeps
    QueueInvariant
PROPERTY
    NobodyStarves
\* A loop that was stopped stays stopped.
CHECK_DEADLOCK FALSE
