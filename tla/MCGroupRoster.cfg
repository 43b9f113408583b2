\* Two members, two dispatchers at a time, three revisions, one fault.
SPECIFICATION FairSpec
CONSTANTS
    a = a
    b = b
    j1 = j1
    j2 = j2
    Member <- MCMember
    Job <- MCJob
    MaxRev = 3
    MaxAct = 1
    MaxFault = 1
    None = None
INVARIANTS TypeOK MembersTold
PROPERTIES BarrierHolds Converges
CHECK_DEADLOCK FALSE
