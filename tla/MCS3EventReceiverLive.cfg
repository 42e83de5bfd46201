SPECIFICATION FairSpec
CONSTANTS
    m1 = m1
    m2 = m2
    m3 = m3
    o1 = o1
    o2 = o2
    Messages = {m1, m2, m3}
    Objects = {o1, o2}
    Workers = {w1}
    Events <- PairEvents
    Content <- PairContent
    ETag <- UniqueETag
    StorageKey <- OwnKey
    MaxLogsEmitted = 1
    Faults = {"shutdown"}
    MaxRuns = 2
    MaxEarly = 0
    None = None
INVARIANTS NoLoss ExactlyOnce
PROPERTIES ShutdownCompletes EventuallyAcked
