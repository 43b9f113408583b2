\* Two tabs, two restores of a two-record backup, one write in each tab or two
\* in one, a lease of one tick and time for it to run out twice.
SPECIFICATION Spec
CONSTANTS
    t1 = t1
    t2 = t2
    Tab <- MCTab
    Pieces = 2
    Lease = 1
    MaxTime = 3
    MaxGen = 3
    MaxRestores = 2
    MaxWrites = 2
SYMMETRY MCSymmetry
INVARIANTS TypeOK RecordsAgree LatchIsPermanentOnlyIfStale
PROPERTIES LeaseExcludesWriters
CHECK_DEADLOCK FALSE
