CONSTANTS
    a1 = a1
    Askers <- OneAsker
    Count = 2
    CacheTTL = 1
    Timeout = 1
    Patience = 2
SPECIFICATION Spec
INVARIANTS
    SilencedOnlyOffline
