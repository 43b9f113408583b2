\* The bounds of MCAccountStore.cfg, and the claim that an owner whose lease ran
\* out fails closed.
SPECIFICATION Spec
CONSTANTS
    t1 = t1
    t2 = t2
    Tab <- MCTab
    Pieces = 2
    Lease = 1
    MaxTime = 3
    MaxGen = 3
    MaxRestores = 2
    MaxWrites = 2
SYMMETRY MCSymmetry
PROPERTY ExpiredOwnerFailsClosed
CHECK_DEADLOCK FALSE
