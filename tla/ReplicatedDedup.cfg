CONSTANTS
    Pods = {1, 2}
    Models = {1}
    GracePolls = 2
    MaxUnloadsPerCycle = 1
    Levels = {0, 1}
SPECIFICATION Spec
INVARIANT LastCopyKept
