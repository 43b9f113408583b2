SPECIFICATION LinkFairSpec
CONSTANTS
    MaxTry = 2
    MaxCopy = 2
    MaxList = 4
    MaxLinkFault = 2
INVARIANTS LinkTypeOK LinkSafe
PROPERTIES LinkCompletes
CHECK_DEADLOCK FALSE
