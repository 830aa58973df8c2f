CONSTANTS
    Replicas = {x1, x2}
    Requests = {r1}
    Models = {m1}
    MaxDiscoveries = 0
    Connections = {c1}
    PodNameSet = TRUE
    None = None
SPECIFICATION FairSpec
PROPERTY LeaseIsFreed
