\* A crash between a room's key and its log: the log that cannot be read fails
\* every later boot.  BootEnds is violated.
SPECIFICATION FairSpec
CONSTANTS
    MaxMaster = 2
    MaxMsg = 2
    MaxFault = 1
    None = None
PROPERTIES BootEnds
CHECK_DEADLOCK FALSE
