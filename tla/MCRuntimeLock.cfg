CONSTANTS
    Tab = {a, b}
    None = None
    AutoLaunch = TRUE
    VaultAtStart = FALSE
    MaxMounts = 2
    MaxVaults = 2
SPECIFICATION Spec
CONSTRAINT OneFlowEach
SYMMETRY Tabs
INVARIANTS TypeOK SingleWriter ReadsAfterDrain
CHECK_DEADLOCK FALSE
