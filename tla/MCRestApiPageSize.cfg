SPECIFICATION Spec
CONSTANTS
    MaxItems = 5
    Second = 4
    Scenarios <- RaisedPageSize
    MinPollInterval = 1
    MaxPollInterval = 2
    BackoffMultiplier = 2
    Faults = {"shutdown"}
    MaxFaults = 1
    None = None
INVARIANT NothingSkipped
