CONSTANTS
    Requests = {r1, r2}
    Pods = {p1}
    Models = {m1}
    None = None
SPECIFICATION Spec
PROPERTY RetractsOnlyFailedLoads
