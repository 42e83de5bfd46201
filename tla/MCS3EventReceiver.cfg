SPECIFICATION Spec
CONSTANTS
    m1 = m1
    m2 = m2
    m3 = m3
    o1 = o1
    o2 = o2
    Messages = {m1, m2}
    Objects = {o1}
    Workers = {w1, w2}
    Events <- OverwriteEvents
    Content <- OverwriteContent
    ETag <- UniqueETag
    StorageKey <- OwnKey
    MaxLogsEmitted = 1
    Faults = {"save", "crash"}
    MaxRuns = 2
    MaxEarly = 1
    None = None
SYMMETRY Symmetry
INVARIANTS HeadNeverSkipped OffsetsCoverDelivered
PROPERTIES ImplementsDelivery
