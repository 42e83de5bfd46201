SPECIFICATION Spec
CONSTANTS
    VisibilityTimeout = 29
    ExtensionInterval = 21
    MaxVisibilityWindow = 61
    Second = 2
    MaxWait = 4
    MaxLate = 3
    Horizon = 75
CHECK_DEADLOCK FALSE
INVARIANTS
    HiddenWhileProcessed
    WindowRespected
