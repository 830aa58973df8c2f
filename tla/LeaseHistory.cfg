CONSTANTS
    Replicas = {x1, x2}
    Requests = {r1, r2}
    Models = {m1}
    MaxDiscoveries = 1
    Connections = {c1, c2}
    PodNameSet = TRUE
    None = None
SPECIFICATION HSpec
SYMMETRY Symmetric
INVARIANT TypeOK
INVARIANT LeaseLostOnlyToLateDelete
INVARIANT SecondLoaderOnlyByLateDelete
INVARIANT LoadingIsOwned
INVARIANT LeakOnlyByFailure
