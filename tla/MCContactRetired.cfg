\* The code of a master that was left behind is scanned: RetiredForGood is
\* violated.
SPECIFICATION Spec
CONSTANTS
    MaxMaster = 2
    MaxMsg = 3
    MaxFault = 0
    None = None
PROPERTIES RetiredForGood
CHECK_DEADLOCK FALSE
