----------------------------- MODULE PoolManager -----------------------------
(***************************************************************************)
(* The pool manager (internal/pool/manager.go) and the controller that     *)
(* feeds it (internal/controller): InferencePool objects of the API server *)
(* become pools, each with a router and a VRAM tracker of its own, and one *)
(* of them is the default.                                                 *)
(*                                                                         *)
(* Pools are numbered as they are allocated: Manager compares pointers.    *)
(* The spec of an InferencePool, its selector and ports, is one value.     *)
(* API server, informer cache and work queue are external.                 *)
(***************************************************************************)
EXTENDS Naturals, FiniteSets

CONSTANTS
    Keys,       \* PoolKey
    Specs,      \* contents of an InferencePool
    MaxEdits,   \* bound: changes made to InferencePools
    None

ASSUME PoolAssumption ==
    /\ None \notin Specs /\ None \notin Keys /\ None \notin Nat
    /\ "unread" \notin Specs \union {None}
    /\ MaxEdits \in Nat

VARIABLES
    api,        \* key -> InferencePool in the API server
    edits,      \* changes made to InferencePools so far
    cache,      \* key -> InferencePool as the informer knows it
    queue,      \* keys in the work queue
    active,     \* the request Reconcile works on
    got,        \* what its Get returned
    pools,      \* Manager.pools
    defaultPool,\* Manager.defaultPool
    created,    \* pools allocated so far
    config,     \* pool -> PoolConfig.PodSelector and TargetPorts
    router,     \* pool -> Router.podSelector
    tracker,    \* pool -> selector of the tracker's discovery
    warm,       \* pool -> selector by which Router.models was found
    inflight    \* pool -> selectors of discoveries under way (one each: a bound)

apiVars == <<api, edits>>
queueVars == <<cache, queue, active, got>>
poolVars == <<pools, defaultPool, created, config, tracker>>
routerVars == <<router, warm, inflight>>
vars == <<apiVars, queueVars, poolVars, routerVars>>

Ids == 1 .. MaxEdits
PerPool(x) == [i \in Ids |-> x]

Init ==
    /\ api = [k \in Keys |-> None] /\ edits = 0
    /\ cache = [k \in Keys |-> None]
    /\ queue = {} /\ active = None /\ got = "unread"
    /\ pools = [k \in Keys |-> None] /\ defaultPool = None
    /\ created = 0
    /\ config = PerPool(None) /\ router = PerPool(None) /\ tracker = PerPool(None)
    /\ warm = PerPool(None) /\ inflight = PerPool({})

-----------------------------------------------------------------------------
(* API server, informer and work queue *)

\* Somebody creates, changes or deletes an InferencePool.
Edit(k, spec) ==
    /\ spec # api[k]
    /\ api' = [api EXCEPT ![k] = spec]
    /\ edits < MaxEdits /\ edits' = edits + 1
    /\ UNCHANGED <<queueVars, poolVars, routerVars>>

\* The informer catches up and queues the key.
Watch(k) ==
    /\ cache[k] # api[k]
    /\ cache' = [cache EXCEPT ![k] = api[k]]
    /\ queue' = queue \union {k}
    /\ UNCHANGED <<apiVars, active, got, poolVars, routerVars>>

\* One worker: a key queued again meanwhile has to wait for its turn.
Dequeue(k) ==
    /\ active = None
    /\ k \in queue
    /\ active' = k
    /\ queue' = queue \ {k}
    /\ UNCHANGED <<apiVars, cache, got, poolVars, routerVars>>

-----------------------------------------------------------------------------
(* Reconcile *)

Get ==
    /\ active # None /\ got = "unread"
    /\ got' = cache[active]
    /\ UNCHANGED <<apiVars, cache, queue, active, poolVars, routerVars>>

GetFails_Forgotten ==
    /\ active # None /\ got = "unread"
    /\ active' = None
    /\ UNCHANGED <<apiVars, cache, queue, got, poolVars, routerVars>>

\* An error other than NotFound: the key is queued again.
GetFails ==
    /\ active # None /\ got = "unread"
    /\ active' = None
    /\ queue' = queue \union {active}
    /\ UNCHANGED <<apiVars, cache, got, poolVars, routerVars>>

\* Reconcile returns without error.
Reconciled ==
    /\ active' = None /\ got' = "unread"
    /\ UNCHANGED <<apiVars, cache, queue>>

\* NewTracker, NewRouter, and the first pool is the default.
CreatePool(k, spec) ==
    LET new == created + 1 IN
    /\ pools[k] = None
    /\ created' = new
    /\ config' = [config EXCEPT ![new] = spec]
    /\ tracker' = [tracker EXCEPT ![new] = spec]
    /\ router' = [router EXCEPT ![new] = spec]
    /\ pools' = [pools EXCEPT ![k] = new]
    /\ defaultPool' = IF defaultPool = None THEN new ELSE defaultPool
    /\ UNCHANGED <<warm, inflight>>

\* Router.UpdatePodSelector starts a discovery by the new selector.
UpdatePodSelector(i, spec) ==
    /\ router' = [router EXCEPT ![i] = spec]
    /\ inflight' = [inflight EXCEPT ![i] = @ \union {spec}]

UpdatePool(k, spec) ==
    /\ pools[k] # None
    /\ config' = [config EXCEPT ![pools[k]] = spec]
    /\ UpdatePodSelector(pools[k], spec)
    /\ tracker' = [tracker EXCEPT ![pools[k]] = spec]
    /\ UNCHANGED <<pools, defaultPool, created, warm>>

\* (variant: an error between starting the tracker and registering the pool)
UpsertPool_FailsLate ==
    /\ got \in Specs
    /\ pools[active] = None
    /\ created' = created + 1
    /\ active' = None /\ got' = "unread"
    /\ queue' = queue \union {active}
    /\ UNCHANGED <<apiVars, cache, pools, defaultPool, config, tracker, routerVars>>

UpsertPool ==
    /\ got \in Specs
    /\ CreatePool(active, got) \/ UpdatePool(active, got)
    /\ Reconciled

Registered(ps) == {ps[k] : k \in Keys} \ {None}

DeletePool_AnyPool ==
    /\ got = None
    /\ pools' = [pools EXCEPT ![active] = None]
    /\ IF pools[active] # None /\ defaultPool = pools[active]
         THEN defaultPool' \in Registered(pools)
         ELSE UNCHANGED defaultPool
    /\ Reconciled
    /\ UNCHANGED <<created, config, tracker, routerVars>>

\* The deleted default is replaced by any other pool.  Nothing stops the
\* goroutines of the pool.
DeletePool ==
    /\ got = None
    /\ pools' = [pools EXCEPT ![active] = None]
    /\ IF pools[active] # None /\ defaultPool = pools[active]
         THEN IF Registered(pools') = {} THEN defaultPool' = None
                                         ELSE defaultPool' \in Registered(pools')
         ELSE UNCHANGED defaultPool
    /\ Reconciled
    /\ UNCHANGED <<created, config, tracker, routerVars>>

-----------------------------------------------------------------------------
(* The routers of all pools allocated so far *)

\* syncWarmModels: copy the selector and begin.
Discover(i) ==
    /\ i \in 1 .. created
    /\ inflight' = [inflight EXCEPT ![i] = @ \union {router[i]}]
    /\ UNCHANGED <<apiVars, queueVars, poolVars, router, warm>>

\* r.models = warmModels
StoreWarmModels(i, spec) ==
    /\ spec \in inflight[i]
    /\ inflight' = [inflight EXCEPT ![i] = @ \ {spec}]
    /\ warm' = [warm EXCEPT ![i] = spec]
    /\ UNCHANGED <<apiVars, queueVars, poolVars, router>>

\* Failed to list pods.
DiscoveryFails(i, spec) ==
    /\ spec \in inflight[i]
    /\ inflight' = [inflight EXCEPT ![i] = @ \ {spec}]
    /\ UNCHANGED <<apiVars, queueVars, poolVars, router, warm>>

-----------------------------------------------------------------------------
Reconcile == Get \/ GetFails \/ UpsertPool \/ DeletePool

Discovery(i) == Discover(i) \/ \E spec \in Specs : StoreWarmModels(i, spec)

Next ==
    \/ \E k \in Keys, spec \in Specs \union {None} : Edit(k, spec)
    \/ \E k \in Keys : Watch(k)
    \/ \E k \in Keys : Dequeue(k)
    \/ Reconcile
    \/ \E i \in Ids : Discovery(i)
    \/ \E i \in Ids, spec \in Specs : DiscoveryFails(i, spec)

Spec == Init /\ [][Next]_vars

\* Informer and queue deliver, the worker runs, every router keeps its ticker,
\* and a discovery under way ends.
FairSpec ==
    /\ Spec
    /\ \A k \in Keys : WF_vars(Watch(k)) /\ SF_vars(Dequeue(k))
    /\ WF_vars(Reconcile)
    /\ \A i \in Ids :
        /\ WF_vars(Discover(i))
        /\ \A spec \in Specs :
             WF_vars(StoreWarmModels(i, spec) \/ DiscoveryFails(i, spec))

-----------------------------------------------------------------------------
(* What readers get *)

\* GetRouter: the pool whose router is returned; None stands for the error.
GetRouter(k) == IF pools[k] # None THEN pools[k] ELSE defaultPool

ListPools == {k \in Keys : pools[k] # None}

-----------------------------------------------------------------------------
(* Properties *)

\* Types of the API objects, the queue, the manager and its pools.
TypeOK ==
    /\ api \in [Keys -> Specs \union {None}] /\ cache \in [Keys -> Specs \union {None}]
    /\ edits \in 0 .. MaxEdits /\ created \in 0 .. edits
    /\ queue \subseteq Keys /\ active \in Keys \union {None}
    /\ got \in Specs \union {None, "unread"}
    /\ active = None => got = "unread"
    /\ pools \in [Keys -> 1 .. created \union {None}]
    /\ defaultPool \in 1 .. created \union {None}
    /\ config \in [Ids -> Specs \union {None}] /\ router \in [Ids -> Specs \union {None}]
    /\ tracker \in [Ids -> Specs \union {None}] /\ warm \in [Ids -> Specs \union {None}]
    /\ inflight \in [Ids -> SUBSET Specs]

\* The default pool is always one of the registered pools, and there is one as
\* long as any pool is registered, so GetDefaultRouter and GetRouter fail only if
\* no pool is left: whatever order pools are created, deleted and recreated in.
DefaultIsRegistered ==
    /\ defaultPool # None => defaultPool \in Registered(pools)
    /\ defaultPool = None <=> ListPools = {}
    /\ \A k \in Keys : GetRouter(k) = None <=> ListPools = {}

\* The inductive invariant behind it: pools have numbers, and Reconcile works on
\* a key whenever it has read something.
PInv ==
    /\ pools \in [Keys -> Nat \union {None}]
    /\ created \in Nat
    /\ active \in Keys \union {None}
    /\ active = None => got = "unread"
    /\ DefaultIsRegistered

\* What the manager will have for k once the Reconcile at work is done.
Decided(k) == IF active = k /\ got # "unread" THEN got ELSE pools[k]

\* An InferencePool has come into being and not become a pool yet; the news of it
\* has got to the given place.
Underway(k, where) ==
    \/ where = "api" /\ cache[k] = None /\ api[k] # None
    \/ where = "cache" /\ Decided(k) = None /\ cache[k] # None
    \/ where = "got" /\ active = k /\ got \in Specs /\ pools[k] = None

Arriving == {n \in Keys \X {"api", "cache", "got"} : Underway(n[1], n[2])}

\* Every pool allocated and every one that will be is due to an edit of its own.
\* (So Ids is large enough.)
EditsPayForPools ==
    /\ IsFiniteSet(Arriving)
    /\ created + Cardinality(Arriving) <= edits

\* Every pool was given a selector.
RoutersHaveSelectors == \A i \in 1 .. created : router[i] \in Specs

\* The inductive invariant behind TypeOK.
PTypeInv == PInv /\ TypeOK /\ EditsPayForPools /\ RoutersHaveSelectors

Mirrors ==
    /\ ListPools = {k \in Keys : api[k] # None}
    /\ \A k \in ListPools :
        /\ config[pools[k]] = api[k]
        /\ router[pools[k]] = api[k]
        /\ tracker[pools[k]] = api[k]
        /\ warm[pools[k]] = api[k]

Disturbance ==
    \/ \E k \in Keys, spec \in Specs \union {None} : Edit(k, spec)
    \/ GetFails
    \/ \E i \in Ids, spec \in Specs : DiscoveryFails(i, spec)

\* Once the InferencePools are left alone and calls succeed, the manager comes
\* to have exactly their pools, with the selectors they have now in router,
\* tracker and warm models, and it stays so: no stale cache entry, queued key or
\* discovery by an old selector wins.
PoolsConverge == <>[][~ Disturbance]_vars => <>[]Mirrors

=============================================================================
