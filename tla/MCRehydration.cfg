SPECIFICATION FairSpec
CONSTANTS
    N = 4
    Wanted <- AllButSecond
    BatchSize = 3
    DeleteOnRead = TRUE
    Scenarios <- AllScenarios
    MaxRuns = 3
INVARIANTS NothingLostInCrash DeletedWereConsumed
PROPERTIES EventuallyRehydrated EventuallyEnds
