\* A lock screen that has not had the promotion's event opens what is copied so
\* far and writes, before the copy is marked: ImplementsOneAccount is violated.
SPECIFICATION Spec
CONSTANTS
    Tab = {t1, t2}
    MaxArm = 1
    MaxWrite = 2
    MaxCrash = 0
    MaxLost = 0
    Timely = TRUE
    Prompt = FALSE
    None = None
    Garbage = Garbage
PROPERTIES ImplementsOneAccount
CHECK_DEADLOCK FALSE
