------------------------------- MODULE Router -------------------------------
(***************************************************************************)
(* Router.GetModelEndpoint (internal/router/router.go): loading a model    *)
(* once, first among the requests of one replica (loadingModels, phase 1), *)
(* then among the replicas by means of a Kubernetes Lease (phase 2), while *)
(* discovery replaces the map of warm models.                              *)
(*                                                                         *)
(* Each action is one critical section, one API or HTTP exchange, or one   *)
(* channel operation.  A request with a done ctx fails every exchange; but *)
(* a Create or Delete that nobody waits for any more may still reach the   *)
(* API server, at any later time.                                          *)
(***************************************************************************)
EXTENDS FiniteSets, Naturals

CONSTANTS
    Replicas, Requests, Models,
    MaxDiscoveries, \* bound: discoveries in progress at a time, of all replicas
    Connections, \* bound: requests to the API server that nobody waits for
    PodNameSet, \* is POD_NAME set in the environment of the replicas?
    None

\* What may be the holder of a lease; None if there is no lease.
Holders == Replicas \union {"unknown-replica", None}

\* A request for the lease of a model: Create with a holder, or Delete.
LeaseRequests == [model : Models, holder : Holders]

\* A replica stands for one Router in one process: a process with several pools
\* has several, all with the name of its pod.
ASSUME RouterAssumption ==
    /\ None \notin Requests /\ None \notin Replicas
    /\ None # "unknown-replica"
    /\ PodNameSet \in BOOLEAN
    /\ None \notin LeaseRequests
    /\ MaxDiscoveries \in Nat

VARIABLES
    pc,         \* where each GetModelEndpoint call stands
    at,         \* the replica that runs it
    model,      \* the model it asks for
    cancelled,  \* calls whose ctx is done
    models,     \* replica -> keys of Router.models
    loading,    \* replica -> model -> call that registered a LoadingState
    done,       \* content of the LoadingState.Done channel a call created
    waitsOn,    \* the call whose Done channel a waiting call reads
    lease,      \* model -> holderIdentity of the Lease object
    late,       \* lease requests under way whose callers have stopped waiting
    found       \* results of discoveries not yet stored: <<replica, models>>

callVars == <<at, model, cancelled>>
vars == <<pc, callVars, models, loading, done, waitsOn, lease, late, found>>

\* Locations at which a call believes to hold the lease,
Holding == {"load", "record", "signalOk", "releaseOk", "signalLoadErr", "releaseErr"}
\* those at which it is registered in loadingModels,
Primary == Holding \union {"create", "get", "signalLeaseErr", "cleanupOk", "cleanupErr"}
Returned == {"served", "failed"}
Locations == Primary \union Returned \union {"idle", "lookup", "join", "wait", "recheck"}

ReplicaName_Unset(x) == "unknown-replica"

\* NewRouter: replicaName.
ReplicaName(x) == IF PodNameSet THEN x ELSE "unknown-replica"

Me_Call(r) == r

Me(r) == ReplicaName(at[r])

Goto(r, a, b) == pc[r] = a /\ pc' = [pc EXCEPT ![r] = b]

Init ==
    /\ pc = [r \in Requests |-> "idle"]
    /\ at = [r \in Requests |-> None]
    /\ model = [r \in Requests |-> None]
    /\ cancelled = {}
    /\ models = [x \in Replicas |-> {}]
    /\ loading = [x \in Replicas |-> [m \in Models |-> None]]
    /\ done = [r \in Requests |-> "none"]
    /\ waitsOn = [r \in Requests |-> None]
    /\ lease = [m \in Models |-> None]
    /\ late = [c \in Connections |-> None]
    /\ found = {}

-----------------------------------------------------------------------------
(* Phase 1: requests of one replica *)

GetModelEndpoint(r, x, m) ==
    /\ Goto(r, "idle", "lookup")
    /\ at' = [at EXCEPT ![r] = x]
    /\ model' = [model EXCEPT ![r] = m]
    /\ UNCHANGED <<cancelled, models, loading, done, waitsOn, lease, late, found>>

Warm(r) == model[r] \in models[at[r]]

Lookup(r) ==
    /\ Goto(r, "lookup", IF Warm(r) THEN "served" ELSE "join")
    /\ UNCHANGED <<callVars, models, loading, done, waitsOn, lease, late, found>>

Join_NoDedup(r) ==
    /\ Goto(r, "join", "create")
    /\ loading' = [loading EXCEPT ![at[r]][model[r]] = r]
    /\ done' = [done EXCEPT ![r] = "empty"]
    /\ UNCHANGED <<callVars, models, waitsOn, lease, late, found>>

\* Wait for the call that is loading already, or register as the one that does.
Join(r) ==
    \/ /\ Goto(r, "join", "wait")
       /\ loading[at[r]][model[r]] # None
       /\ waitsOn' = [waitsOn EXCEPT ![r] = loading[at[r]][model[r]]]
       /\ UNCHANGED <<callVars, models, loading, done, lease, late, found>>
    \/ /\ Goto(r, "join", "create")
       /\ loading[at[r]][model[r]] = None
       /\ loading' = [loading EXCEPT ![at[r]][model[r]] = r]
       /\ done' = [done EXCEPT ![r] = "empty"]
       /\ UNCHANGED <<callVars, models, waitsOn, lease, late, found>>

\* err := <-loadingState.Done: one value, for one receiver.
Receive(r) ==
    /\ \/ Goto(r, "wait", "recheck") /\ done[waitsOn[r]] = "ok"
       \/ Goto(r, "wait", "failed") /\ done[waitsOn[r]] = "err"
    /\ done' = [done EXCEPT ![waitsOn[r]] = "taken"]
    /\ waitsOn' = [waitsOn EXCEPT ![r] = None]
    /\ UNCHANGED <<callVars, models, loading, lease, late, found>>

\* case <-ctx.Done()
StopWaiting(r) ==
    /\ Goto(r, "wait", "failed")
    /\ r \in cancelled
    /\ waitsOn' = [waitsOn EXCEPT ![r] = None]
    /\ UNCHANGED <<callVars, models, loading, done, lease, late, found>>

Recheck(r) ==
    /\ Goto(r, "recheck", IF Warm(r) THEN "served" ELSE "failed")
    /\ UNCHANGED <<callVars, models, loading, done, waitsOn, lease, late, found>>

\* loadingState.Done <- ...; the channel has room for the single value sent.
Signal(r) ==
    /\ \/ Goto(r, "signalLeaseErr", "cleanupErr") /\ done' = [done EXCEPT ![r] = "err"]
       \/ Goto(r, "signalLoadErr", "releaseErr") /\ done' = [done EXCEPT ![r] = "err"]
       \/ Goto(r, "signalOk", "releaseOk") /\ done' = [done EXCEPT ![r] = "ok"]
    /\ UNCHANGED <<callVars, models, loading, waitsOn, lease, late, found>>

\* The deferred delete(r.loadingModels, modelName).
Cleanup(r) ==
    /\ Goto(r, "cleanupOk", "served") \/ Goto(r, "cleanupErr", "failed")
    /\ loading' = [loading EXCEPT ![at[r]][model[r]] = None]
    /\ UNCHANGED <<callVars, models, done, waitsOn, lease, late, found>>

-----------------------------------------------------------------------------
(* Phase 2: replicas.  ok says whether the exchange itself succeeds. *)

Succeeds(r, ok) == ok /\ r \notin cancelled

\* What a call asks of the API server: a lease in its replica's name, or none.
Asks(r, holder) == [model |-> model[r], holder |-> holder]

\* The effect on the lease of a model: Delete goes by name, whoever holds it;
\* Create fails if there is one.
Apply(m, holder) ==
    lease' = [lease EXCEPT ![m] = IF holder = None \/ @ = None THEN holder ELSE @]

\* The call is told of a failure: its request never arrives, or it does later.
Unanswered(r, holder) ==
    /\ \/ UNCHANGED late
       \/ \E c \in Connections :
            late[c] = None /\ late' = [late EXCEPT ![c] = Asks(r, holder)]
    /\ UNCHANGED lease

\* tryAcquireLease: Create.
CreateLease(r, ok) ==
    /\ \/ /\ Goto(r, "create", IF lease[model[r]] = None THEN "load" ELSE "get")
          /\ Succeeds(r, ok)
          /\ Apply(model[r], Me(r))
          /\ UNCHANGED late
       \/ /\ Goto(r, "create", "signalLeaseErr")
          /\ ~ Succeeds(r, ok)
          /\ Unanswered(r, Me(r))
    /\ UNCHANGED <<callVars, models, loading, done, waitsOn, found>>

GetLease_AnyHolder(r, ok) ==
    /\ Goto(r, "get", IF Succeeds(r, ok) /\ lease[model[r]] # None
                        THEN "load" ELSE "signalLeaseErr")
    /\ UNCHANGED <<callVars, models, loading, done, waitsOn, lease, late, found>>

\* tryAcquireLease: Get, and the comparison of the holder with replicaName.  A
\* lease that is gone by now is an error as well.
GetLease(r, ok) ==
    /\ Goto(r, "get", IF Succeeds(r, ok) /\ lease[model[r]] = Me(r)
                        THEN "load" ELSE "signalLeaseErr")
    /\ UNCHANGED <<callVars, models, loading, done, waitsOn, lease, late, found>>

LoadModelOnBestNode_KeepsLease(r, ok) ==
    /\ Goto(r, "load", IF Succeeds(r, ok) THEN "record" ELSE "signalLeaseErr")
    /\ UNCHANGED <<callVars, models, loading, done, waitsOn, lease, late, found>>

\* loadModelOnBestNode up to the answer of the load endpoint.
LoadModelOnBestNode(r, ok) ==
    /\ Goto(r, "load", IF Succeeds(r, ok) THEN "record" ELSE "signalLoadErr")
    /\ UNCHANGED <<callVars, models, loading, done, waitsOn, lease, late, found>>

\* loadModelOnBestNode: r.models[modelName] = ...
Record(r) ==
    /\ Goto(r, "record", "signalOk")
    /\ models' = [models EXCEPT ![at[r]] = @ \union {model[r]}]
    /\ UNCHANGED <<callVars, loading, done, waitsOn, lease, late, found>>

\* releaseLease; a failure is only logged.
ReleaseLease(r, ok) ==
    /\ Goto(r, "releaseOk", "cleanupOk") \/ Goto(r, "releaseErr", "cleanupErr")
    /\ \/ Succeeds(r, ok) /\ Apply(model[r], None) /\ UNCHANGED late
       \/ ~ Succeeds(r, ok) /\ Unanswered(r, None)
    /\ UNCHANGED <<callVars, models, loading, done, waitsOn, found>>

-----------------------------------------------------------------------------
(* Discovery: the ticker of syncWarmModels, the goroutine after a load and    *)
(* UpdatePodSelector may run at the same time, each with its own result.      *)

\* List the pods and query them; pods that fail are left out.
Discover(x, names) ==
    /\ Cardinality(found) < MaxDiscoveries
    /\ found' = found \union {<<x, names>>}
    /\ UNCHANGED <<pc, callVars, models, loading, done, waitsOn, lease, late>>

\* r.models = warmModels
StoreWarmModels(x, names) ==
    /\ <<x, names>> \in found
    /\ models' = [models EXCEPT ![x] = names]
    /\ found' = found \ {<<x, names>>}
    /\ UNCHANGED <<pc, callVars, loading, done, waitsOn, lease, late>>

-----------------------------------------------------------------------------
(* Environment *)

Cancel(r) ==
    /\ pc[r] \notin Returned \union {"idle"}
    /\ r \notin cancelled
    /\ cancelled' = cancelled \union {r}
    /\ UNCHANGED <<pc, at, model, models, loading, done, waitsOn, lease, late, found>>

\* The call is over and its process stands for a new one.
Return(r) ==
    /\ pc[r] \in Returned
    /\ \A q \in Requests : waitsOn[q] # r
    /\ pc' = [pc EXCEPT ![r] = "idle"]
    /\ at' = [at EXCEPT ![r] = None]
    /\ model' = [model EXCEPT ![r] = None]
    /\ done' = [done EXCEPT ![r] = "none"]
    /\ cancelled' = cancelled \ {r}
    /\ UNCHANGED <<models, loading, waitsOn, lease, late, found>>

\* A request nobody waits for reaches the API server after all.
Arrive(c) ==
    /\ late[c] # None
    /\ Apply(late[c].model, late[c].holder)
    /\ late' = [late EXCEPT ![c] = None]
    /\ UNCHANGED <<pc, callVars, models, loading, done, waitsOn, found>>

\* The requests that the calls of a replica may be waiting for.
Outstanding(x) ==
    {Asks(r, Me(r)) : r \in {q \in Requests : at[q] = x /\ pc[q] = "create"}} \union
    {Asks(r, None) : r \in {q \in Requests : at[q] = x /\ pc[q] \in {"releaseOk", "releaseErr"}}}

\* A replica crashes and comes back under the same name; leases stay, and so do
\* requests under way.
Crash(x) ==
    LET hit == {r \in Requests : at[r] = x} IN
    /\ pc' = [r \in Requests |-> IF r \in hit THEN "idle" ELSE pc[r]]
    /\ at' = [r \in Requests |-> IF r \in hit THEN None ELSE at[r]]
    /\ model' = [r \in Requests |-> IF r \in hit THEN None ELSE model[r]]
    /\ done' = [r \in Requests |-> IF r \in hit THEN "none" ELSE done[r]]
    /\ waitsOn' = [r \in Requests |-> IF r \in hit THEN None ELSE waitsOn[r]]
    /\ cancelled' = cancelled \ hit
    /\ models' = [models EXCEPT ![x] = {}]
    /\ loading' = [loading EXCEPT ![x] = [m \in Models |-> None]]
    /\ found' = {f \in found : f[1] # x}
    /\ \E sent \in [Connections -> Outstanding(x) \union {None}] :
         /\ \A c, d \in Connections : sent[c] = sent[d] => c = d \/ sent[c] = None
         /\ \A c \in Connections : sent[c] # None => late[c] = None
         /\ late' = [c \in Connections |-> IF sent[c] = None THEN late[c] ELSE sent[c]]
    /\ UNCHANGED lease

Step(r) ==
    \/ Lookup(r)
    \/ Join(r)
    \/ Receive(r)
    \/ StopWaiting(r)
    \/ Recheck(r)
    \/ Signal(r)
    \/ Cleanup(r)
    \/ \E ok \in BOOLEAN : CreateLease(r, ok)
    \/ \E ok \in BOOLEAN : GetLease(r, ok)
    \/ \E ok \in BOOLEAN : LoadModelOnBestNode(r, ok)
    \/ Record(r)
    \/ \E ok \in BOOLEAN : ReleaseLease(r, ok)

Environment ==
    \/ \E r \in Requests, x \in Replicas, m \in Models : GetModelEndpoint(r, x, m)
    \/ \E r \in Requests : Cancel(r)
    \/ \E r \in Requests : Return(r)
    \/ \E c \in Connections : Arrive(c)
    \/ \E x \in Replicas : Crash(x)
    \/ \E x \in Replicas, names \in SUBSET Models : Discover(x, names)
    \/ \E x \in Replicas, names \in SUBSET Models : StoreWarmModels(x, names)

Next == (\E r \in Requests : Step(r)) \/ Environment

Spec == Init /\ [][Next]_vars

\* A goroutine that can run does run, and client timeouts end every exchange.
FairSpec == Spec /\ \A r \in Requests : WF_vars(Step(r))

-----------------------------------------------------------------------------
(* Properties *)

\* Types of the state of the calls, the replicas and the leases.
TypeOK ==
    /\ pc \in [Requests -> Locations]
    /\ at \in [Requests -> Replicas \union {None}]
    /\ model \in [Requests -> Models \union {None}]
    /\ cancelled \subseteq Requests
    /\ models \in [Replicas -> SUBSET Models]
    /\ loading \in [Replicas -> [Models -> Requests \union {None}]]
    /\ done \in [Requests -> {"none", "empty", "ok", "err", "taken"}]
    /\ waitsOn \in [Requests -> Requests \union {None}]
    /\ lease \in [Models -> Holders]
    /\ late \in [Connections -> LeaseRequests \union {None}]
    /\ found \subseteq Replicas \X SUBSET Models

\* loadingModels of a replica holds exactly the calls that are loading there;
\* the deferred delete never removes the registration of another call.
LoadingIsOwned ==
    \A x \in Replicas, m \in Models, r \in Requests :
        loading[x][m] = r <=> pc[r] \in Primary /\ at[r] = x /\ model[r] = m

\* A call past its first step has a replica and a model.
HasTarget ==
    \A r \in Requests :
        pc[r] # "idle" => at[r] \in Replicas /\ model[r] \in Models

\* The inductive invariant behind LoadingIsOwned.
RInv == TypeOK /\ HasTarget /\ LoadingIsOwned

\* "Signal any waiting requests": a call that waits for a load is woken when the
\* load ends, without its own ctx having to expire.
WaitersAreWoken ==
    \A r \in Requests : (pc[r] = "wait") ~> (pc[r] # "wait" \/ r \in cancelled)

\* "Lease TTL for model loads": a lease does not outlive its holder for ever.  As
\* long as calls keep reading the lease of a model successfully, some call or
\* other comes to hold it.
LeaseIsFreed ==
    \A m \in Models :
        []<><<\E r \in Requests : model[r] = m /\ r \notin cancelled /\ GetLease(r, TRUE)>>_vars
            => []<>(\E r \in Requests : pc[r] \in Holding /\ model[r] = m)

=============================================================================
