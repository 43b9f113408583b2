\* A member leaves while another delivery of the owner is owed.
SPECIFICATION Spec
CONSTANTS
    a = a
    b = b
    j1 = j1
    j2 = j2
    Member <- MCMember
    Job <- MCJob
    MaxRev = 3
    MaxAct = 1
    MaxFault = 1
    None = None
SYMMETRY MCSymmetry
PROPERTIES ValidLeaveKept
CHECK_DEADLOCK FALSE
