CONSTANTS
    m1 = m1
    m2 = m2
    c1 = c1
    c2 = c2
    None = None
    Monitors <- TwoMonitors
    Calls <- TwoCalls
    Rules <- Family
    Initial <- StartsFamily
    Results = {"up", "down"}
    Overlap = FALSE
    CanCrash = FALSE
    StoreFails = FALSE
    CanDelete = FALSE
    Maintained <- Nobody
    MaxTime = 0
    MaxRun = 1
SPECIFICATION FairSpec
INVARIANTS
    ToldOnlyOfOpenIncidents
PROPERTY
    PersistentOutageAlerts
