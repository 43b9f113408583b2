\* A write fails in boot's move: the contact's next message goes to the new room,
\* and the next boot erases a history that it does not have elsewhere.  MergeKeeps
\* is violated.
SPECIFICATION Spec
CONSTANTS
    MaxMaster = 1
    MaxMsg = 3
    MaxFault = 2
    None = None
INVARIANTS MergeKeeps
CHECK_DEADLOCK FALSE
