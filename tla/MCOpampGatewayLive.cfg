SPECIFICATION FairSpec
CONSTANTS
    Upstreams = {u1, u2}
    Downstreams = {d1}
    Agents = {a1}
    None = None
    MaxDials = 1
PROPERTIES ShutdownCompletes UpstreamLossDisconnects
