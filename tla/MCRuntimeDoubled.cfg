CONSTANTS
    Tab = {a, b}
    None = None
    AutoLaunch = TRUE
    VaultAtStart = TRUE
    MaxMounts = 2
    MaxVaults = 1
SPECIFICATION Spec
INVARIANT LockOutlivesWriters
CHECK_DEADLOCK FALSE
