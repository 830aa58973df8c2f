--------------------------- MODULE EndpointPicker ---------------------------
(***************************************************************************)
(* The endpoint picker as cmd/epp/main.go assembles it: a request passes   *)
(* the loaded-model filter, is given a pod, and enters the model-loader    *)
(* plugin, while the model tracker polls the same llama-server pods and    *)
(* unloads duplicates.  Filter and loader share the tracker's view; the    *)
(* tracker calls the loader back (WithTracker, SetUnloadObserver).         *)
(*                                                                         *)
(* The servers are external: what is modelled is the status each reports   *)
(* and how the load and unload endpoints change it.                        *)
(***************************************************************************)
EXTENDS Naturals, FiniteSets

CONSTANTS
    Requests, Pods, Models, None,
    GracePolls, MaxUnloadsPerCycle, Levels,
    Faults      \* the failures of the environment that may happen

ASSUME PickerAssumption ==
    /\ None \notin Requests /\ None \notin Pods \X Models
    /\ Pods \subseteq Nat /\ Models \subseteq Nat
    /\ Levels \subseteq Nat /\ 0 \in Levels     \* an unknown pod has pressure 0
    /\ GracePolls \in Nat \ {0} /\ MaxUnloadsPerCycle \in Nat \ {0}

ASSUME FaultsAssumption ==
    Faults \subseteq {"query", "post", "load", "unload", "lost", "evict", "pods"}

VARIABLES
    \* model-loader plugin
    pc, key, cancelled, loadedModels, loadingModels, result, waitsOn,
    \* model tracker
    tracked, loaded, podIP, firstPoll, dupObs, pollPc, listed, todo, next, answer,
    kept, holders, ripe, issued, victim,
    \* loaded-model filter and pod-state cache
    target, pods, unseen, warm, podState,
    \* the llama-server pods: status of each model
    status

L == INSTANCE ModelLoader
T == INSTANCE ModelTracker
F == INSTANCE LoadedModelFilter

loaderVars  == <<pc, key, cancelled, loadedModels, loadingModels, result, waitsOn>>
trackerVars == <<tracked, loaded, podIP, firstPoll, dupObs, pollPc, listed, todo,
                 next, answer, kept, holders, ripe, issued, victim>>
filterVars  == <<target, pods, unseen, warm, podState>>
vars == <<loaderVars, trackerVars, filterVars, status>>

Init ==
    /\ L!Init
    /\ T!Init
    /\ F!Init
    /\ status = [p \in Pods |-> [m \in Models |-> "unloaded"]]

PodOf(r)   == key[r][1]
ModelOf(r) == key[r][2]
LoadedOn(p) == {m \in Models : status[p][m] = "loaded"}

\* What the servers show for the key of a call.
ServerHas(k) == status[k[1]][k[2]] = "loaded"

SetStatus(p, m, s) == status' = [status EXCEPT ![p][m] = s]

-----------------------------------------------------------------------------
(* A request, from the filter through PreRequest *)

Schedule(r, m) ==
    /\ pc[r] = "idle"
    /\ F!Filter(r, m, Pods)
    /\ UNCHANGED <<loaderVars, trackerVars, status>>

FilterPod(r, p, load) ==
    /\ F!FilterPod(r, p, load, T!IsLoaded(p, target[r]))
    /\ UNCHANGED <<loaderVars, trackerVars, status>>

PreRequest(r, p) ==
    /\ F!Picked(r, p)
    /\ L!PreRequest(r, <<p, target[r]>>)
    /\ UNCHANGED <<trackerVars, status>>

\* The steps of a call on the plugin's own maps.
Local(r) ==
    /\ \/ L!HandleAlreadyLoadedOrLoading(r)
       \/ L!WakeCheck(r)
       \/ L!Confirm(r)
       \/ L!Invalidate(r)
       \/ L!Join(r)
       \/ L!WakeLoad(r)
       \/ L!Store(r)
       \/ L!Publish(r)
    /\ UNCHANGED <<trackerVars, filterVars, status>>

Query(r) ==
    /\ \/ L!Query(r, ServerHas(key[r]))
       \/ "query" \in Faults /\ L!Query(r, FALSE)
    /\ UNCHANGED <<trackerVars, filterVars, status>>

Mark(r) ==
    /\ L!MarkWarm(r) \/ L!MarkCold(r)
    /\ T!MarkLoaded(PodOf(r), ModelOf(r))
    /\ UNCHANGED <<filterVars, status>>

Retract(r) ==
    /\ L!Retract(r, PodOf(r) \in tracked)
    /\ T!MarkUnloaded(PodOf(r), ModelOf(r))
    /\ UNCHANGED <<filterVars, status>>

\* /models/load starts loading a model that is not there and returns at once.
ServerLoads(p, m) ==
    SetStatus(p, m, IF status[p][m] = "unloaded" THEN "loading" ELSE status[p][m])

\* The server accepts the load, refuses it, or accepts and the answer is lost.
Post(r) ==
    /\ \/ L!Post(r, TRUE) /\ ServerLoads(PodOf(r), ModelOf(r))
       \/ "post" \in Faults /\ L!Post(r, FALSE) /\ UNCHANGED status
       \/ "lost" \in Faults /\ L!Post(r, FALSE) /\ ServerLoads(PodOf(r), ModelOf(r))
    /\ UNCHANGED <<trackerVars, filterVars>>

Await(r) ==
    /\ \/ L!AwaitLoaded(r) /\ ServerHas(key[r])
       \/ L!AwaitFails(r)
    /\ UNCHANGED <<trackerVars, filterVars, status>>

Cancel(r) == L!Cancel(r) /\ UNCHANGED <<trackerVars, filterVars, status>>

Return(r) == L!Return(r) /\ UNCHANGED <<trackerVars, filterVars, status>>

RequestStep(r) ==
    \/ \E p \in Pods, load \in Levels : FilterPod(r, p, load)
    \/ \E p \in Pods : PreRequest(r, p)
    \/ Local(r)
    \/ Query(r)
    \/ Mark(r)
    \/ Retract(r)
    \/ Post(r)
    \/ Await(r)
    \/ Return(r)

-----------------------------------------------------------------------------
(* The polling goroutine of the tracker *)

Poll ==
    /\ \/ T!PollStart(Pods)
       \/ "pods" \in Faults /\ \E some \in SUBSET Pods : T!PollStart(some)
       \/ \E p \in Pods : T!QueryPod(p, LoadedOn(p))
       \/ "query" \in Faults /\ \E p \in Pods : T!QueryPodFails(p)
       \/ T!PollCommit
       \/ T!ResolveDuplicates
       \/ T!DedupSkip(F!Pressure)
       \/ T!DedupUnmark
       \/ T!DedupReset
    /\ UNCHANGED <<loaderVars, filterVars, status>>

\* /models/unload stops a model; a server that does not run it reports an error.
UnloadSucceeds ==
    /\ T!UnloadModel(F!Pressure)
    /\ \E p \in victim' :
        /\ status[p][T!Visited] # "unloaded"
        /\ SetStatus(p, T!Visited, "unloaded")
    /\ UNCHANGED <<loaderVars, filterVars>>

UnloadRefused ==
    /\ T!UnloadModelFails(F!Pressure)
    /\ status[T!PickLoser(holders[T!Visited], F!Pressure)][T!Visited] = "unloaded"
    /\ UNCHANGED <<loaderVars, filterVars, status>>

\* The call fails and the server keeps the model.
UnloadFails ==
    /\ "unload" \in Faults
    /\ T!UnloadModelFails(F!Pressure)
    /\ status[T!PickLoser(holders[T!Visited], F!Pressure)][T!Visited] # "unloaded"
    /\ UNCHANGED <<loaderVars, filterVars, status>>

\* The server unloads the model but its answer is lost or comes too late.
UnloadAnswerLost ==
    LET p == T!PickLoser(holders[T!Visited], F!Pressure) IN
    /\ "lost" \in Faults
    /\ T!UnloadModelFails(F!Pressure)
    /\ status[p][T!Visited] # "unloaded"
    /\ SetStatus(p, T!Visited, "unloaded")
    /\ UNCHANGED <<loaderVars, filterVars>>

Notify_NoObserver ==
    /\ T!DedupNotify
    /\ UNCHANGED <<loaderVars, filterVars, status>>

\* The observer registered by WithTracker: Plugin.InvalidateLoadedModel.
Notify ==
    /\ T!DedupNotify
    /\ \E p \in victim : L!InvalidateLoadedModel(<<p, T!Visited>>)
    /\ UNCHANGED <<filterVars, status>>

TrackerStep ==
    \/ Poll
    \/ UnloadSucceeds
    \/ UnloadRefused
    \/ UnloadFails
    \/ UnloadAnswerLost
    \/ Notify

-----------------------------------------------------------------------------
(* The llama-server pods *)

FinishLoad(p, m) ==
    /\ status[p][m] = "loading"
    /\ SetStatus(p, m, "loaded")
    /\ UNCHANGED <<loaderVars, trackerVars, filterVars>>

FailLoad(p, m) ==
    /\ "load" \in Faults
    /\ status[p][m] = "loading"
    /\ SetStatus(p, m, "unloaded")
    /\ UNCHANGED <<loaderVars, trackerVars, filterVars>>

\* --models-max: the server makes room for another model, or restarts.
Evict(p, m) ==
    /\ "evict" \in Faults
    /\ status[p][m] = "loaded"
    /\ SetStatus(p, m, "unloaded")
    /\ UNCHANGED <<loaderVars, trackerVars, filterVars>>

LoadEnds(p, m) == FinishLoad(p, m) \/ FailLoad(p, m)

-----------------------------------------------------------------------------
Next ==
    \/ \E r \in Requests, m \in Models : Schedule(r, m)
    \/ \E r \in Requests : RequestStep(r) \/ Cancel(r)
    \/ TrackerStep
    \/ \E p \in Pods, m \in Models : LoadEnds(p, m) \/ Evict(p, m)

Spec == Init /\ [][Next]_vars

\* Goroutines that can run do run, the ticker keeps firing, timeouts end every
\* exchange, and a load ends.
Fairness ==
    /\ \A r \in Requests : WF_vars(RequestStep(r))
    /\ WF_vars(TrackerStep)
    /\ \A p \in Pods, m \in Models : WF_vars(LoadEnds(p, m))

-----------------------------------------------------------------------------
(* Properties *)

\* PreRequest "ensures the model is loaded on the target pod": a call that
\* returns without having failed leaves the model loaded there, also when it
\* waited for the load of another call and whatever the server answered.
\* (For servers that drop no model by themselves and without duplicates.)
ServedMeansLoaded ==
    \A r \in Requests : pc[r] = "served" => ServerHas(key[r])

\* The dedup pass has unloaded k and is about to tell the loader so.
Announcing(k) ==
    pollPc \in {"unmark", "notify"} /\ k[1] \in victim /\ k[2] = T!Visited

\* Because the tracker announces its unloads, the loader's cache never names a
\* server that has dropped the model, except until the announcement arrives.
NoStaleShortCircuit ==
    \A k \in loadedModels : ServerHas(k) \/ Announcing(k)

Quiet == \A r \in Requests : pc[r] = "idle" /\ target[r] = None

\* The environment misbehaves as far as the tracker can notice.
Fault ==
    \/ \E some \in (SUBSET Pods) \ {Pods} : T!PollStart(some)
    \/ \E p \in Pods : T!QueryPodFails(p)
    \/ UnloadFails
    \/ UnloadAnswerLost
    \/ \E p \in Pods, m \in Models : FailLoad(p, m) \/ Evict(p, m)

ViewIsExact == \A p \in Pods : loaded[p] = LoadedOn(p)

NoDuplicates ==
    \A m \in Models : \A p, q \in Pods :
        m \in LoadedOn(p) /\ m \in LoadedOn(q) => p = q

\* Whatever marks, retractions, failed polls, lost answers and evictions have
\* done to the tracker's view: once requests and faults cease, the view becomes
\* exact and stays so, and no model stays on two pods.
Converges ==
    <>[]Quiet /\ <>[][~ Fault]_vars => <>[](ViewIsExact /\ NoDuplicates)

-----------------------------------------------------------------------------
(* The inductive invariants *)

\* Put together, the components keep the invariants they have alone, and a
\* server reports one of three statuses.
PickerInv ==
    /\ L!IInv /\ T!TInv /\ F!TypeOK
    /\ status \in [Pods -> [Models -> {"unloaded", "loading", "loaded"}]]

\* No server drops a model in this step.
KeepsModels == \A k \in Pods \X Models : ServerHas(k) => ServerHas(k)'

\* Calls that have learnt, by whatever path, that their model is loaded.
Knows(r) ==
    pc[r] \in {"confirm", "markWarm", "store", "publishOk", "served"} \/ result[r] = "ok"

\* The cache and every call that goes by it or by another call's load is right.
KnowledgeIsTrue ==
    /\ \A k \in loadedModels : ServerHas(k)
    /\ \A r \in Requests : Knows(r) => ServerHas(key[r])

=============================================================================
