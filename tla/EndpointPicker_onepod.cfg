CONSTANTS
    Requests = {r1, r2}
    Pods = {1}
    Models = {1}
    None = None
    GracePolls = 2
    MaxUnloadsPerCycle = 1
    Levels = {0}
    Faults = {"query", "post", "load", "lost", "pods"}
SPECIFICATION CSpec
SYMMETRY Symmetric
INVARIANT ServedMeansLoaded
