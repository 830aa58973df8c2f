CONSTANTS
    Requests = {r1}
    Pods = {1, 2}
    Models = {1}
    None = None
    GracePolls = 2
    MaxUnloadsPerCycle = 1
    Levels = {0}
    Faults = {}
SPECIFICATION Spec
INVARIANT NoStaleShortCircuit
