CONSTANTS
    None = None
    Absent = Absent
    Deleted = Deleted
    Gone = Gone
    Missing = Missing
    Broken = Broken
    Loose = Loose
    m1 = m1
    m2 = m2
    m3 = m3
    g1 = g1
    g2 = g2
    g3 = g3
    p1 = p1
    p2 = p2
    w1 = w1
    ana = ana
    bob = bob
    eva = eva
    c1 = c1
    c2 = c2
    loop = loop
    ui = ui
SPECIFICATION Spec
INVARIANTS
    TypeOK
    StatusIsLastAgreement
    RemindersKept
    HistorySound
    ProbeSound
    TopologySound
    AccountsSound
    PushSound
    CalendarSound
    ShownSound
    SettingsSound
    MeasurementSound
PROPERTIES
    ClosedRowsRest
\* Every service is bounded: a behaviour ends where its bounds do.
CHECK_DEADLOCK FALSE
