------------------------- MODULE LoadedModelFilter -------------------------
(***************************************************************************)
(* The loaded-model filter (internal/plugins/filter/loaded_model.go) and   *)
(* the pod-state cache it fills (internal/podstate/cache.go).              *)
(*                                                                         *)
(* Filter asks the tracker about one candidate pod at a time, so a poll or *)
(* a mark may come between two of its questions.                           *)
(***************************************************************************)
EXTENDS Naturals

CONSTANTS Requests, Pods, Models, Levels, None

VARIABLES
    target,     \* request.TargetModel of a Filter call in progress, or None
    pods,       \* its candidate pods
    unseen,     \* those the loop has not reached
    warm,       \* those found warm
    podState    \* Cache: RunningRequestsSize + WaitingQueueSize; 0 if unknown

callVars == <<target, pods, unseen, warm>>
vars == <<callVars, podState>>

Init ==
    /\ target = [r \in Requests |-> None]
    /\ pods = [r \in Requests |-> {}]
    /\ unseen = [r \in Requests |-> {}]
    /\ warm = [r \in Requests |-> {}]
    /\ podState = [p \in Pods |-> 0]

\* Cache.Update and Cache.Pressure.
Update(p, load) == podState' = [podState EXCEPT ![p] = load]
Pressure == podState

\* A call with a target model; one without passes all its pods through.
Filter(r, m, candidates) ==
    /\ target[r] = None
    /\ target' = [target EXCEPT ![r] = m]
    /\ pods' = [pods EXCEPT ![r] = candidates]
    /\ unseen' = [unseen EXCEPT ![r] = candidates]
    /\ UNCHANGED <<warm, podState>>

\* podState.Update with the metrics of the framework, then tracker.IsLoaded.
FilterPod(r, p, load, isLoaded) ==
    /\ p \in unseen[r]
    /\ unseen' = [unseen EXCEPT ![r] = @ \ {p}]
    /\ Update(p, load)
    /\ warm' = IF isLoaded THEN [warm EXCEPT ![r] = @ \union {p}] ELSE warm
    /\ UNCHANGED <<target, pods>>

\* The pods Filter returns: the warm ones, or all if there is none.
Filtered(r) == IF warm[r] = {} THEN pods[r] ELSE warm[r]

\* Filter returns and the scorers and the picker settle on pod p.
Picked(r, p) ==
    /\ target[r] # None
    /\ unseen[r] = {}
    /\ p \in Filtered(r)
    /\ target' = [target EXCEPT ![r] = None]
    /\ pods' = [pods EXCEPT ![r] = {}]
    /\ warm' = [warm EXCEPT ![r] = {}]
    /\ UNCHANGED <<unseen, podState>>

\* A call filters for a model and among pods of the pool only, and the cache has
\* a load for every pod.
TypeOK ==
    /\ target \in [Requests -> Models \union {None}]
    /\ pods \in [Requests -> SUBSET Pods]
    /\ unseen \in [Requests -> SUBSET Pods]
    /\ warm \in [Requests -> SUBSET Pods]
    /\ podState \in [Pods -> Levels]

=============================================================================
