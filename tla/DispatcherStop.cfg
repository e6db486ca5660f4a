CONSTANTS
    chat = chat
    mail = mail
    w1 = w1
    w2 = w2
    run = run
    Channels <- TwoChannels
    Workers <- TwoWorkers
    Drainer = run
    None = None
    MaxAlerts = 3
    QueueSize = 2
    MaxAttempts = 3
    Dead <- ChatIsDead
    CanStop = TRUE
SPECIFICATION FairSpec
INVARIANTS
    Accounted
    AttemptsBounded
    NothingLostUntried
    DeliveryInvariant
PROPERTY
    EverySettled
\* A dispatcher with nothing left to deliver, or stopped, waits for ever.
CHECK_DEADLOCK FALSE
