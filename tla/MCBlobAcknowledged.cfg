SPECIFICATION BlobSpec
CONSTANTS
    k1 = k1
    k2 = k2
    old = old
    ann = ann
    q1 = q1
    q2 = q2
    Key <- MCKey
    Legacy <- MCNone
    Actor = {ann}
    Owner <- MCOwner
    Bytes <- MCFew
    Budget = 1
    ActorBudget = 1
    Req <- MCReq
    Aside = {"call"}
    MaxStale = 0
    MaxFault = 0
    None = None
INVARIANTS AcknowledgedKept
CHECK_DEADLOCK FALSE
