SPECIFICATION Spec
CONSTANTS
    N = 4
    Wanted <- AllButSecond
    BatchSize = 3
    DeleteOnRead = TRUE
    Scenarios <- OneShutdown
    MaxRuns = 2
INVARIANT NothingLost
