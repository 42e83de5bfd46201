SPECIFICATION FairSpec
CONSTANTS
    p1 = p1
    p2 = p2
    P = {p1, p2}
    None = None
    Scenarios <- AllScenarios
    MaxLives = 2
    MaxPayloads = 2
    Pipelines = 2
INVARIANT ReporterFollowsProcessors
PROPERTIES ReportsNeverGoBack NextPayloadReports LifecycleReturns
