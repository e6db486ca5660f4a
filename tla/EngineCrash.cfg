CONSTANTS
    m1 = m1
    m2 = m2
    c1 = c1
    c2 = c2
    None = None
    Monitors <- OneMonitor
    Calls <- OneCall
    Rules <- EditedAlone
    Initial <- StartsAlone
    Results = {"unknown", "up", "degraded", "down"}
    Overlap = FALSE
    CanCrash = TRUE
    StoreFails = FALSE
    CanDelete = TRUE
    Maintained <- OneMonitor
    MaxTime = 1
    MaxRun = 3
SPECIFICATION Spec
INVARIANTS
    TypeOK
    ConfirmedByRun
    AlertOnce
    SavedIsMemory
    LedgerMatchesState
    AlertInvariant
PROPERTY
    KeepsContract
