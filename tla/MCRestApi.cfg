SPECIFICATION FairSpec
CONSTANTS
    MaxItems = 5
    Second = 4
    Scenarios <- AllModes
    MinPollInterval = 1
    MaxPollInterval = 2
    BackoffMultiplier = 2
    Faults = {"fetch", "consume", "save", "load", "crash", "shutdown"}
    MaxFaults = 2
    None = None
INVARIANTS NothingSkipped BacksOffWhenCaughtUp NoRepeats
PROPERTY EventuallyDelivered
