SPECIFICATION FairSpec
CONSTANTS
    dialog = dialog
    other = other
    Dev = {d1}
    Job <- MCJob
    Ops <- MCOps
    MaxVer = 3
    MaxLink = 2
    MaxFault = 1
    None = None
INVARIANTS TypeOK ListSound
PROPERTIES PeerLearns
CHECK_DEADLOCK FALSE
