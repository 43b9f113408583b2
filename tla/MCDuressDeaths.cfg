\* As MCDuressVault with two deaths, the second in the midst of the recovery
\* from the first, and one write to an account.
SPECIFICATION FairSpec
CONSTANTS
    Tab = {t1, t2}
    MaxArm = 2
    MaxWrite = 1
    MaxCrash = 2
    MaxLost = 1
    Timely = TRUE
    Prompt = TRUE
    None = None
    Garbage = Garbage
INVARIANTS TypeOK Recoverable
PROPERTIES ImplementsOneAccount JournalsFinish
CHECK_DEADLOCK FALSE
