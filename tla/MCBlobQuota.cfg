SPECIFICATION BlobFairSpec
CONSTANTS
    k1 = k1
    k2 = k2
    old = old
    ann = ann
    q1 = q1
    q2 = q2
    Key <- MCKey
    Legacy <- MCLegacy
    Actor = {ann}
    Owner <- MCOwner
    Bytes <- MCBytes
    Budget = 2
    ActorBudget = 1
    Req <- MCReq
    Aside = {}
    MaxStale = 1
    MaxFault = 1
    None = None
INVARIANTS BlobTypeOK BudgetKept
PROPERTIES Settles
CHECK_DEADLOCK FALSE
