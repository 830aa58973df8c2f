----------------------------- MODULE ModelLoader -----------------------------
(***************************************************************************)
(* The model-loader PreRequest plugin                                      *)
(* (internal/plugins/modelloader/loader.go).                               *)
(*                                                                         *)
(* One process per concurrent PreRequest call.  A call checks the plugin's *)
(* two maps, asks the model server, and either joins a load that is        *)
(* already in flight or becomes the primary loader itself.  Each action is *)
(* one critical section of Plugin.mu, one HTTP exchange, or one call into  *)
(* the model tracker; everything between two of them is local to the call. *)
(*                                                                         *)
(* The answers of the model server and of the tracker are parameters of    *)
(* the actions, so this module alone allows every answer (the most general *)
(* environment) and EndpointPicker ties them to the real components.       *)
(***************************************************************************)

CONSTANTS
    Requests,   \* PreRequest calls that may be running at the same time
    Pods,       \* pod IPs
    Models,     \* model names
    None        \* "no request" / "no key"

ASSUME NoneAssumption == None \notin Requests /\ None \notin Pods \X Models

\* loadKey, "<podIP>:<model>"; a pair because a pod's IPv4 address has no colon.
Keys == Pods \X Models

VARIABLES
    pc,             \* where each PreRequest call stands
    key,            \* its target, chosen by the scheduler
    cancelled,      \* calls whose ctx is done (client gone, gateway timeout)
    loadedModels,   \* Plugin.loadedModels: keys believed to be loaded
    loadingModels,  \* Plugin.loadingModels: key -> primary loader, or None
    result,         \* loadResult of the load each call performed as primary
    waitsOn         \* the loadResult a waiting call selects on

vars == <<pc, key, cancelled, loadedModels, loadingModels, result, waitsOn>>

Waiting   == {"waitCheck", "waitLoad"}
Loading   == {"post", "await", "store", "publishOk", "publishErr"}
Returned  == {"served", "gaveUp"}
Locations == Waiting \union Loading \union Returned \union
             {"idle", "check", "markWarm", "query", "confirm", "mark", "join",
              "retract", "invalidate"}

\* Call r goes from location a to location b.
Goto(r, a, b) == pc[r] = a /\ pc' = [pc EXCEPT ![r] = b]

\* A done ctx makes every HTTP exchange of the call fail.
Succeeds(r, answer) == answer /\ r \notin cancelled

Init ==
    /\ pc = [r \in Requests |-> "idle"]
    /\ key = [r \in Requests |-> None]
    /\ cancelled = {}
    /\ loadedModels = {}
    /\ loadingModels = [k \in Keys |-> None]
    /\ result = [r \in Requests |-> "none"]
    /\ waitsOn = [r \in Requests |-> None]

-----------------------------------------------------------------------------
(* PreRequest *)

\* PreRequest is entered with a model and a pod that has an address; a request
\* without either returns at once and changes nothing.
PreRequest(r, k) ==
    /\ Goto(r, "idle", "check")
    /\ key' = [key EXCEPT ![r] = k]
    /\ UNCHANGED <<cancelled, loadedModels, loadingModels, result, waitsOn>>

\* handleAlreadyLoadedOrLoading, the critical section under RLock.
CheckLoaded(r) ==
    /\ Goto(r, "check", "markWarm")
    /\ key[r] \in loadedModels
    /\ UNCHANGED <<key, cancelled, loadedModels, loadingModels, result, waitsOn>>

CheckLoading(r) ==
    /\ Goto(r, "check", "waitCheck")
    /\ key[r] \notin loadedModels
    /\ loadingModels[key[r]] # None
    /\ waitsOn' = [waitsOn EXCEPT ![r] = loadingModels[key[r]]]
    /\ UNCHANGED <<key, cancelled, loadedModels, loadingModels, result>>

CheckNeither(r) ==
    /\ Goto(r, "check", "query")
    /\ key[r] \notin loadedModels
    /\ loadingModels[key[r]] = None
    /\ UNCHANGED <<key, cancelled, loadedModels, loadingModels, result, waitsOn>>

HandleAlreadyLoadedOrLoading(r) ==
    CheckLoaded(r) \/ CheckLoading(r) \/ CheckNeither(r)

\* The select of handleAlreadyLoadedOrLoading.  When the load has failed the
\* call carries on by itself; when the ctx is done it returns.
WakeCheck(r) ==
    /\ \/ Goto(r, "waitCheck", "served") /\ result[waitsOn[r]] = "ok"
       \/ Goto(r, "waitCheck", "query") /\ result[waitsOn[r]] = "err"
       \/ Goto(r, "waitCheck", "gaveUp") /\ r \in cancelled
    /\ waitsOn' = [waitsOn EXCEPT ![r] = None]
    /\ UNCHANGED <<key, cancelled, loadedModels, loadingModels, result>>

\* isModelLoaded, asked before any load; every error counts as "not loaded".
Query(r, answer) ==
    /\ Goto(r, "query", IF Succeeds(r, answer) THEN "confirm" ELSE "mark")
    /\ UNCHANGED <<key, cancelled, loadedModels, loadingModels, result, waitsOn>>

Confirm_KeyedByModel(r) ==
    /\ Goto(r, "confirm", "markWarm")
    /\ loadedModels' = loadedModels \union {key[r][2]}
    /\ UNCHANGED <<key, cancelled, loadingModels, result, waitsOn>>

\* loadedModels[loadKey] = time.Now() after a positive answer.
Confirm(r) ==
    /\ Goto(r, "confirm", "markWarm")
    /\ loadedModels' = loadedModels \union {key[r]}
    /\ UNCHANGED <<key, cancelled, loadingModels, result, waitsOn>>

\* markTrackerLoaded on the cache-hit and the confirmed path; PreRequest returns.
MarkWarm(r) ==
    /\ Goto(r, "markWarm", "served")
    /\ UNCHANGED <<key, cancelled, loadedModels, loadingModels, result, waitsOn>>

\* markTrackerLoaded, the optimistic mark made before the slow load.
MarkCold(r) ==
    /\ Goto(r, "mark", "join")
    /\ UNCHANGED <<key, cancelled, loadedModels, loadingModels, result, waitsOn>>

\* markTrackerUnloaded after loadModel failed.  The tracker calls back
\* InvalidateLoadedModel only if it knows the pod.
Retract(r, podKnown) ==
    /\ Goto(r, "retract", IF podKnown THEN "invalidate" ELSE "gaveUp")
    /\ UNCHANGED <<key, cancelled, loadedModels, loadingModels, result, waitsOn>>

\* The callback, run by the goroutine of the failed call itself.
Invalidate(r) ==
    /\ Goto(r, "invalidate", "gaveUp")
    /\ loadedModels' = loadedModels \ {key[r]}
    /\ UNCHANGED <<key, cancelled, loadingModels, result, waitsOn>>

-----------------------------------------------------------------------------
(* loadModel *)

Join_NoDedup(r) ==
    /\ Goto(r, "join", "post")
    /\ loadingModels' = [loadingModels EXCEPT ![key[r]] = r]
    /\ result' = [result EXCEPT ![r] = "pending"]
    /\ UNCHANGED <<key, cancelled, loadedModels, waitsOn>>

\* First critical section: wait for the load in flight, or become its primary.
Join(r) ==
    \/ /\ Goto(r, "join", "waitLoad")
       /\ loadingModels[key[r]] # None
       /\ waitsOn' = [waitsOn EXCEPT ![r] = loadingModels[key[r]]]
       /\ UNCHANGED <<key, cancelled, loadedModels, loadingModels, result>>
    \/ /\ Goto(r, "join", "post")
       /\ loadingModels[key[r]] = None
       /\ loadingModels' = [loadingModels EXCEPT ![key[r]] = r]
       /\ result' = [result EXCEPT ![r] = "pending"]
       /\ UNCHANGED <<key, cancelled, loadedModels, waitsOn>>

\* The select of loadModel.  A failed load and a done ctx are both errors.
WakeLoad(r) ==
    /\ \/ Goto(r, "waitLoad", "served") /\ result[waitsOn[r]] = "ok"
       \/ Goto(r, "waitLoad", "retract") /\ result[waitsOn[r]] = "err"
       \/ Goto(r, "waitLoad", "retract") /\ r \in cancelled
    /\ waitsOn' = [waitsOn EXCEPT ![r] = None]
    /\ UNCHANGED <<key, cancelled, loadedModels, loadingModels, result>>

\* POST /models/load; "accepted" is a 200, 201 or 202 answer.
Post(r, accepted) ==
    /\ Goto(r, "post", IF Succeeds(r, accepted) THEN "await" ELSE "publishErr")
    /\ UNCHANGED <<key, cancelled, loadedModels, loadingModels, result, waitsOn>>

\* waitForModelLoaded sees the model loaded.  (A negative answer changes
\* nothing: the loop waits for the next tick.)
AwaitLoaded(r) ==
    /\ Goto(r, "await", "store")
    /\ r \notin cancelled
    /\ UNCHANGED <<key, cancelled, loadedModels, loadingModels, result, waitsOn>>

\* waitForModelLoaded gives up: the load timeout or the call's own ctx.
AwaitFails(r) ==
    /\ Goto(r, "await", "publishErr")
    /\ UNCHANGED <<key, cancelled, loadedModels, loadingModels, result, waitsOn>>

\* loadedModels[loadKey] = time.Now() after a load.
Store(r) ==
    /\ Goto(r, "store", "publishOk")
    /\ loadedModels' = loadedModels \union {key[r]}
    /\ UNCHANGED <<key, cancelled, loadingModels, result, waitsOn>>

Publish_KeepsErrorPrivate(r) ==
    /\ \/ Goto(r, "publishOk", "served")
       \/ Goto(r, "publishErr", "retract")
    /\ result' = [result EXCEPT ![r] = "ok"]
    /\ loadingModels' = [loadingModels EXCEPT ![key[r]] = None]
    /\ UNCHANGED <<key, cancelled, loadedModels, waitsOn>>

Publish_OnSuccessOnly(r) ==
    /\ \/ /\ Goto(r, "publishOk", "served")
          /\ result' = [result EXCEPT ![r] = "ok"]
       \/ /\ Goto(r, "publishErr", "retract")
          /\ result' = result
    /\ loadingModels' = [loadingModels EXCEPT ![key[r]] = None]
    /\ UNCHANGED <<key, cancelled, loadedModels, waitsOn>>

\* The deferred function: remove the map entry, store the error, close done.
Publish(r) ==
    /\ \/ Goto(r, "publishOk", "served") /\ result' = [result EXCEPT ![r] = "ok"]
       \/ Goto(r, "publishErr", "retract") /\ result' = [result EXCEPT ![r] = "err"]
    /\ loadingModels' = [loadingModels EXCEPT ![key[r]] = None]
    /\ UNCHANGED <<key, cancelled, loadedModels, waitsOn>>

-----------------------------------------------------------------------------
(* The callers of the plugin *)

\* The request's ctx is cancelled while PreRequest runs.
Cancel(r) ==
    /\ pc[r] \notin Returned \union {"idle"}
    /\ r \notin cancelled
    /\ cancelled' = cancelled \union {r}
    /\ UNCHANGED <<pc, key, loadedModels, loadingModels, result, waitsOn>>

\* The call is over and its process stands for a new one.  Its loadResult is
\* a heap object that outlives the call while a waiter still refers to it.
Return(r) ==
    /\ pc[r] \in Returned
    /\ \A q \in Requests : waitsOn[q] # r
    /\ pc' = [pc EXCEPT ![r] = "idle"]
    /\ key' = [key EXCEPT ![r] = None]
    /\ result' = [result EXCEPT ![r] = "none"]
    /\ cancelled' = cancelled \ {r}
    /\ UNCHANGED <<loadedModels, loadingModels, waitsOn>>

\* Called by the tracker after a dedup unload.
InvalidateLoadedModel(k) ==
    /\ loadedModels' = loadedModels \ {k}
    /\ UNCHANGED <<pc, key, cancelled, loadingModels, result, waitsOn>>

ClearLoadedModelsCache ==
    /\ loadedModels' = {}
    /\ UNCHANGED <<pc, key, cancelled, loadingModels, result, waitsOn>>

-----------------------------------------------------------------------------
(* What one call does by itself, for some answers of its environment. *)
Step(r) ==
    \/ HandleAlreadyLoadedOrLoading(r)
    \/ WakeCheck(r)
    \/ \E answer \in BOOLEAN : Query(r, answer)
    \/ Confirm(r)
    \/ MarkWarm(r)
    \/ MarkCold(r)
    \/ \E podKnown \in BOOLEAN : Retract(r, podKnown)
    \/ Invalidate(r)
    \/ Join(r)
    \/ WakeLoad(r)
    \/ \E accepted \in BOOLEAN : Post(r, accepted)
    \/ AwaitLoaded(r)
    \/ AwaitFails(r)
    \/ Store(r)
    \/ Publish(r)

Environment ==
    \/ \E r \in Requests : \E k \in Keys : PreRequest(r, k)
    \/ \E r \in Requests : Cancel(r)
    \/ \E r \in Requests : Return(r)
    \/ \E k \in Keys : InvalidateLoadedModel(k)
    \/ ClearLoadedModelsCache

Next == (\E r \in Requests : Step(r)) \/ Environment

Spec == Init /\ [][Next]_vars

\* A goroutine that can run does run, an HTTP exchange ends within the client
\* timeout, and waitForModelLoaded ends within ModelLoadTimeoutSeconds.
FairSpec == Spec /\ \A r \in Requests : WF_vars(Step(r))

-----------------------------------------------------------------------------
(* Properties *)

\* Every variable of the plugin and of its calls keeps its type; in particular
\* the cache is only ever keyed by a pod together with a model.
TypeOK ==
    /\ pc \in [Requests -> Locations]
    /\ key \in [Requests -> Keys \union {None}]
    /\ cancelled \subseteq Requests
    /\ loadedModels \subseteq Keys
    /\ loadingModels \in [Keys -> Requests \union {None}]
    /\ result \in [Requests -> {"none", "pending", "ok", "err"}]
    /\ waitsOn \in [Requests -> Requests \union {None}]

InFlight(r) == pc[r] \in Loading

\* Two concurrent PreRequest calls never load the same model on the same pod at
\* once: of all calls between registering in loadingModels and the deferred
\* cleanup of loadModel, no two have the same key.
SingleFlight ==
    \A r, q \in Requests :
        InFlight(r) /\ InFlight(q) /\ key[r] = key[q] => r = q

\* The loadingModels map holds exactly the loads in flight, each under its own
\* key: the deferred delete of one load never removes the entry of another, and
\* no entry is left behind on any error path of loadModel.
LoadingIsOwned ==
    \A k \in Keys : \A r \in Requests :
        loadingModels[k] = r <=> InFlight(r) /\ key[r] = k

\* A call blocked on a loadResult is never forgotten: the load it waits for has
\* the same key and is either still in flight or has already published its
\* outcome, whichever path loadModel returned by.
NoLostWaiter ==
    \A r \in Requests :
        pc[r] \in Waiting =>
            /\ waitsOn[r] \in Requests
            /\ key[waitsOn[r]] = key[r]
            /\ \/ InFlight(waitsOn[r])
               \/ result[waitsOn[r]] \in {"ok", "err"}

\* A mark is retracted only because "a cold-load attempt fails": a call that
\* waited for another's load goes on to retract the mark only if that load failed.
RetractsOnlyFailedLoads ==
    [][\A r \in Requests :
        pc[r] = "waitLoad" /\ pc'[r] = "retract" => result[waitsOn[r]] = "err"]_vars

\* A call past its first step has a target; a call that has not yet become the
\* primary of a load holds no loadResult; a load in flight has not published.
\* (What makes the properties above inductive.)
LoadProgress ==
    \A r \in Requests :
        /\ pc[r] # "idle" => key[r] \in Keys
        /\ pc[r] \in {"idle", "check", "query", "confirm", "markWarm", "mark",
                      "join"} \union Waiting => result[r] = "none"
        /\ InFlight(r) => result[r] = "pending"

\* The inductive invariant.
IInv == TypeOK /\ LoadingIsOwned /\ NoLostWaiter /\ LoadProgress

\* PreRequest always returns: whoever loads, waits or retries, and whatever the
\* server answers, no call stays blocked (given that timeouts expire).
EveryCallReturns ==
    \A r \in Requests : (pc[r] # "idle") ~> (pc[r] \in Returned)

=============================================================================
