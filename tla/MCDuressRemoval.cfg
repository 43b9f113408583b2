SPECIFICATION Spec
CONSTANTS
    Tab = {t1, t2}
    MaxArm = 1
    MaxWrite = 1
    MaxCrash = 1
    MaxLost = 0
    Timely = TRUE
    Prompt = TRUE
    None = None
    Garbage = Garbage
INVARIANTS ArmedHasDecoy
CHECK_DEADLOCK FALSE
