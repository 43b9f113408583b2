\* A removal proof is not delivered and the member is added again.
SPECIFICATION Spec
CONSTANTS
    a = a
    b = b
    j1 = j1
    j2 = j2
    Member <- MCMember
    Job <- MCJob
    MaxRev = 3
    MaxAct = 1
    MaxFault = 1
    None = None
SYMMETRY MCSymmetry
INVARIANTS ProofIsCourtesy
CHECK_DEADLOCK FALSE
