SPECIFICATION Spec
CONSTANTS
    lo = lo
    hi = hi
    Low = lo
    High = hi
    None = None
    Junk = Junk
    MaxSkip = 2
    MaxSkipSession = 1
    MaxSends <- OneSends
    MaxFaults = 0
    MaxDamage = 0
INVARIANTS CacheBounded Deliverable
CHECK_DEADLOCK FALSE
