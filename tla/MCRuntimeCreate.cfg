CONSTANTS
    Tab = {a, b}
    None = None
    AutoLaunch = FALSE
    VaultAtStart = FALSE
    MaxMounts = 1
    MaxVaults = 2
SPECIFICATION Spec
PROPERTY OneVault
CHECK_DEADLOCK FALSE
