SPECIFICATION Spec
CONSTANTS
  b1 = b1
  b2 = b2
  Blobs = {b1, b2}
  PathTime <- MCPathTime
  Gzip <- MCGzip
  Period = 1
  GzipRewritten = FALSE
  MaxLen = 2
  MaxGen = 2
  MaxWrites = 3
  Scenarios <- MCScenarios
  InitialLookback = 1
  RevisitWindow = 1
  QuarantineRetention = 1
  SealSkewTolerance = 0
  MaxFinalizeFailures = 2
  FpSize = 2
  Horizon = 5
  Faults = {"read", "consume", "delete", "list", "save", "crash", "shutdown",
            "remove"}
  None = None
INVARIANTS TypeOK NoSilentLoss DeletedWereDelivered OffsetsCoverDelivered ExactlyOnce
CHECK_DEADLOCK FALSE
