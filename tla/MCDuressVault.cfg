\* Two tabs, two armings, two writes to an account, a death at any step, one
\* failed header update.
SPECIFICATION FairSpec
CONSTANTS
    Tab = {t1, t2}
    MaxArm = 2
    MaxWrite = 2
    MaxCrash = 1
    MaxLost = 1
    Timely = TRUE
    Prompt = TRUE
    None = None
    Garbage = Garbage
INVARIANTS TypeOK Recoverable
PROPERTIES ImplementsOneAccount JournalsFinish
CHECK_DEADLOCK FALSE
