CONSTANTS
    Replicas = {x1}
    Requests = {r1, r2, r3}
    Models = {m1}
    MaxDiscoveries = 0
    Connections = {c1}
    PodNameSet = TRUE
    None = None
SPECIFICATION FairSpec
PROPERTY WaitersAreWoken
