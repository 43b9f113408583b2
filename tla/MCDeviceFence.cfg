SPECIFICATION Spec
CONSTANTS
    lo = lo
    hi = hi
    Low = lo
    High = hi
    None = None
    Junk = Junk
    MaxSkip = 2
    MaxSkipSession = 2
    MaxSends <- BothSend
    MaxFaults = 1
    MaxDamage = 0
INVARIANT UnsavedStaysQueued
CHECK_DEADLOCK FALSE
