SPECIFICATION Spec
CONSTANTS
    m1 = m1
    m2 = m2
    m3 = m3
    m4 = m4
    o1 = o1
    Messages = {m1, m2, m3, m4}
    Objects = {o1}
    Workers = {w1, w2}
    ObjectOf <- ObjectOfMessage
    GenerationOf <- Generation
    LiveOf <- LiveAtDelete
    Finalize <- IsFinalize
    Batches = 1
    Faults = {"crash", "save", "shutdown"}
    MaxRuns = 2
    MaxEarly = 0
    None = None
SYMMETRY Symmetry
INVARIANTS NoLoss RecentWereProcessed OffsetsCoverDelivered
PROPERTIES ImplementsDelivery
