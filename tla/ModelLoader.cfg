CONSTANTS
    Requests = {r1, r2, r3}
    Pods = {p1}
    Models = {m1}
    None = None
SPECIFICATION FairSpec
INVARIANT TypeOK
INVARIANT SingleFlight
INVARIANT LoadingIsOwned
INVARIANT NoLostWaiter
PROPERTY EveryCallReturns
PROPERTY ImplementsCoalescing
