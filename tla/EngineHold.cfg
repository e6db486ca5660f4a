CONSTANTS
    m1 = m1
    m2 = m2
    c1 = c1
    c2 = c2
    None = None
    Monitors <- TwoMonitors
    Calls <- OneCall
    Rules <- Fixed
    Initial <- PushFamily
    Results = {"up", "down"}
    Overlap = FALSE
    CanCrash = FALSE
    StoreFails = FALSE
    CanDelete = FALSE
    Maintained <- Nobody
    MaxTime = 4
    MaxRun = 2
SPECIFICATION Spec
PROPERTY
    HoldHasDeadline
