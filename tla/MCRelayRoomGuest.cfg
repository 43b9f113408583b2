SPECIFICATION Spec
CONSTANTS
    o1 = o1
    g1 = g1
    Sock <- MCSock
    Keyed <- MCKeyed
    None = None
    MaxQueue = 2
    MaxQueueUnclaimed = 1
    QueueTTL = 2
    PushCoalesce = 1
    ChallengeTTL = 1
    MaxConnections = 2
    MaxUnauth = 1
    KeepGuests = 0
    MaxTime = 2
    LastSend = 1
    MaxSends = 2
    MaxHello <- MCMaxHelloGuest
    MaxAuths = 1
INVARIANTS
    TypeOK
    OwnersReceive
    WakeCovered
PROPERTIES
    NoLoss
CHECK_DEADLOCK FALSE
