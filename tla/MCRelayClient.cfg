SPECIFICATION ClientFairSpec
CONSTANTS
    MaxSock = 3
    MaxMsg = 2
    MaxFaults = 4
INVARIANTS ClientTypeOK Disciplined
PROPERTIES ComesBack
CHECK_DEADLOCK FALSE
