CONSTANTS
    m1 = m1
    m2 = m2
    e1 = e1
    e2 = e2
    e3 = e3
    s1 = s1
    s2 = s2
    None = None
    Monitors <- OneMonitor
    Entries <- TwoEntries
    Slots <- TwoSlots
    Intervals = {1}
    IdleWait = 3
    MaxEdits = 3
    Returns = TRUE
    CanStop = FALSE
SPECIFICATION Spec
INVARIANT
    OneCheckAtATime
