SPECIFICATION FairSpec
CONSTANTS
    lo = lo
    hi = hi
    Low = lo
    High = hi
    None = None
    Junk = Junk
    MaxSkip = 2
    MaxSkipSession = 2
    MaxSends <- BothSend
    MaxFaults = 1
    MaxDamage = 1
INVARIANTS TypeOK KeyOnce MessagesKept
PROPERTIES ExactlyOnce EventuallyRead
CHECK_DEADLOCK FALSE
