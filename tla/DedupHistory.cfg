CONSTANTS
    Pods = {1, 2}
    Models = {1, 2}
    GracePolls = 2
    MaxUnloadsPerCycle = 1
    Levels = {0, 1}
SPECIFICATION HFairSpec
INVARIANT TypeOK
INVARIANT GraceRespected
INVARIANT KeepsACopy
PROPERTY EveryUnloadIsAnnounced
PROPERTY NoStarvation
