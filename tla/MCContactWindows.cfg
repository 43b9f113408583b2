\* What is lost without a crash or a failed write: ReachesContact is violated, and
\* so is NothingOverwritten when it takes its place.  With MaxFault = 1 NoneBack is
\* violated, too.
SPECIFICATION Spec
CONSTANTS
    MaxMaster = 2
    MaxMsg = 3
    MaxFault = 0
    None = None
PROPERTIES ReachesContact
CHECK_DEADLOCK FALSE
