SPECIFICATION Spec
CONSTANTS
    Upstreams = {u1}
    Downstreams = {d1, d2}
    Agents = {a1}
    None = None
    MaxDials = 2
SYMMETRY Symmetry
INVARIANTS RoutesAreLive NoAssignmentLeak CountCoversAssignments AuthReaderNeverBlocks OnlyAcceptedConnect AssignedUpstreamIsUp CapabilitiesFirst
PROPERTIES CloseKeepsNewRoute
