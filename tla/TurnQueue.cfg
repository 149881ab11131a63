CONSTANTS
    r1 = r1
    r2 = r2
    t1 = t1
    None = None
    Realtime = {r1, r2}
    Turn = {t1}
    Desktop = {r2, t1}
    WithImages = {r2}
    MaxQueueSize = 2
    MaxTroubles = 1
    MaxSenders = 2
SPECIFICATION FairSpec
INVARIANT QueueInv
PROPERTIES
    NoMessageTwice
    CancelledIsNotRun
    TurnsEnd
    QueueMovesOn
CHECK_DEADLOCK FALSE
