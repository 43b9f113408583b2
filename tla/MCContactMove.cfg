SPECIFICATION FairSpec
CONSTANTS
    MaxMaster = 2
    MaxMsg = 2
    MaxFault = 2
    None = None
INVARIANTS TypeOK HistoryExact
PROPERTIES OldRoomLeft
CHECK_DEADLOCK FALSE
