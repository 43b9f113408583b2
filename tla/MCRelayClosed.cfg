\* The application closes while a connection is scheduled: ClosedForGood is
\* violated. With the specification SignSpec, ComesBack is, too.
SPECIFICATION ClientFairSpec
CONSTANTS
    MaxSock = 3
    MaxMsg = 1
    MaxFaults = 2
INVARIANTS ClosedForGood
CHECK_DEADLOCK FALSE
