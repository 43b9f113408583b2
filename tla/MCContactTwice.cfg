\* A crash before an accepted claim's old contact is removed: no boot merges the
\* two.  Merged is violated.
SPECIFICATION Spec
CONSTANTS
    MaxMaster = 2
    MaxMsg = 3
    MaxFault = 1
    None = None
INVARIANTS Merged
CHECK_DEADLOCK FALSE
