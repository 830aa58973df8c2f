---------------------------- MODULE PickerProofs ----------------------------
(***************************************************************************)
(* Proofs about the assembled endpoint picker, for any number of requests, *)
(* pods and models and any set of faults: the components keep their        *)
(* invariants when they run together, the model loader's cache is stale    *)
(* only by the gaps CacheCoherence names, and a served call has its model  *)
(* loaded unless a server drops it.                                        *)
(*                                                                         *)
(* What ModelLoaderProofs and ModelTrackerProofs show about the components *)
(* is used here through the instances LP and TP of those modules, which    *)
(* have the same substitutions as L and T of EndpointPicker.               *)
(***************************************************************************)
EXTENDS CacheCoherence, TLAPS

LP == INSTANCE ModelLoaderProofs
TP == INSTANCE ModelTrackerProofs

-----------------------------------------------------------------------------
(* The components alone *)

\* The picker's constants are fit for the loader.
LEMMA LoaderAssumption == LP!NoneAssumption
  BY PickerAssumption DEF LP!NoneAssumption

\* The picker's constants are fit for the tracker.
LEMMA PickerTrackerAssumption == TP!TrackerAssumption
  BY PickerAssumption DEF TP!TrackerAssumption

\* L and LP define the same invariant, ...
LEMMA LoaderInvSame == L!IInv <=> LP!IInv
  BY DEF L!IInv, L!TypeOK, L!LoadingIsOwned, L!NoLostWaiter, L!LoadProgress, L!InFlight,
         L!Loading, L!Waiting, L!Returned, L!Locations, L!Keys,
         LP!IInv, LP!TypeOK, LP!LoadingIsOwned, LP!NoLostWaiter, LP!LoadProgress,
         LP!InFlight, LP!Loading, LP!Waiting, LP!Returned, LP!Locations, LP!Keys

\* ... the same initial states, ...
LEMMA LoaderInitSame == L!Init => LP!Init
  BY DEF L!Init, LP!Init, L!Keys, LP!Keys

\* ... the same steps of a call ...
LEMMA LoaderStepSame == ASSUME NEW r \in Requests, L!Step(r) PROVE LP!Step(r)
  BY DEF L!Step, L!HandleAlreadyLoadedOrLoading, L!CheckLoaded, L!CheckLoading,
         L!CheckNeither, L!WakeCheck, L!Query, L!Confirm, L!MarkWarm, L!MarkCold,
         L!Retract, L!Invalidate, L!Join, L!WakeLoad, L!Post, L!AwaitLoaded,
         L!AwaitFails, L!Store, L!Publish, L!Goto, L!Succeeds,
         LP!Step, LP!HandleAlreadyLoadedOrLoading, LP!CheckLoaded, LP!CheckLoading,
         LP!CheckNeither, LP!WakeCheck, LP!Query, LP!Confirm, LP!MarkWarm, LP!MarkCold,
         LP!Retract, LP!Invalidate, LP!Join, LP!WakeLoad, LP!Post, LP!AwaitLoaded,
         LP!AwaitFails, LP!Store, LP!Publish, LP!Goto, LP!Succeeds

\* ... and the same steps of its callers.
LEMMA LoaderEnvSame == L!Environment => LP!Environment
  BY DEF L!Environment, L!PreRequest, L!Cancel, L!Return, L!InvalidateLoadedModel,
         L!ClearLoadedModelsCache, L!Goto, L!Returned, L!Keys,
         LP!Environment, LP!PreRequest, LP!Cancel, LP!Return, LP!InvalidateLoadedModel,
         LP!ClearLoadedModelsCache, LP!Goto, LP!Returned, LP!Keys

\* T and TP define the same invariant, ...
LEMMA TrackerInvSame == T!TInv <=> TP!TInv
  BY DEF T!TInv, T!TypeOK, T!RipeAreDuplicates, T!VictimIsHolder, T!Deduping,
         T!IsDuplicate, T!Visited, T!First,
         TP!TInv, TP!TypeOK, TP!RipeAreDuplicates, TP!VictimIsHolder, TP!Deduping,
         TP!IsDuplicate, TP!Visited, TP!First

\* ... the same initial states ...
LEMMA TrackerInitSame == T!Init => TP!Init
  BY DEF T!Init, TP!Init

\* ... and the same steps.
LEMMA TrackerNextSame == T!Next => TP!Next
  BY DEF T!Next, T!PollStep, T!Mark, T!Poll, T!Unload, T!PollStart, T!QueryPod,
         T!QueryPodFails, T!PollCommit, T!ResolveDuplicates, T!Holders, T!IsDuplicate,
         T!Observed, T!AtMost, T!VisitNext, T!Visited, T!First, T!PickLoser, T!DedupSkip,
         T!UnloadModelFails, T!UnloadModel, T!DedupUnmark, T!Unmark, T!DedupNotify,
         T!DedupReset, T!MarkLoaded, T!MarkUnloaded, T!viewVars, T!pollVars, T!dedupVars,
         TP!Next, TP!PollStep, TP!Mark, TP!Poll, TP!Unload, TP!PollStart, TP!QueryPod,
         TP!QueryPodFails, TP!PollCommit, TP!ResolveDuplicates, TP!Holders,
         TP!IsDuplicate, TP!Observed, TP!AtMost, TP!VisitNext, TP!Visited, TP!First,
         TP!PickLoser, TP!DedupSkip, TP!UnloadModelFails, TP!UnloadModel,
         TP!DedupUnmark, TP!Unmark, TP!DedupNotify, TP!DedupReset, TP!MarkLoaded,
         TP!MarkUnloaded, TP!viewVars, TP!pollVars, TP!dedupVars

\* The loader's invariant, of which ModelLoaderProofs shows that its steps keep it.
LEMMA LoaderKeepsInv == L!IInv /\ [L!Next]_(L!vars) => L!IInv'
  <1> SUFFICES ASSUME L!IInv, [L!Next]_(L!vars) PROVE L!IInv'
    OBVIOUS
  <1>1. [LP!Next]_(LP!vars)
    BY LoaderStepSame, LoaderEnvSame DEF L!Next, LP!Next, L!vars, LP!vars
  <1>2. LP!IInv'
    BY <1>1, LoaderInvSame, LoaderAssumption, LP!NextIInv
  <1> QED
    BY <1>2
    DEF L!IInv, L!TypeOK, L!LoadingIsOwned, L!NoLostWaiter, L!LoadProgress, L!InFlight,
        L!Loading, L!Waiting, L!Returned, L!Locations, L!Keys,
        LP!IInv, LP!TypeOK, LP!LoadingIsOwned, LP!NoLostWaiter, LP!LoadProgress,
        LP!InFlight, LP!Loading, LP!Waiting, LP!Returned, LP!Locations, LP!Keys

\* The tracker's invariant, likewise.
LEMMA TrackerKeepsInv ==
  ASSUME T!TInv, [T!Next]_(T!vars)
  PROVE  /\ T!TInv'
         /\ pollPc = "unmark" => pollPc' \in {"unmark", "notify"}
  <1>1. [TP!Next]_(TP!vars)
    BY TrackerNextSame
    DEF T!vars, TP!vars, T!viewVars, TP!viewVars, T!pollVars, TP!pollVars,
        T!dedupVars, TP!dedupVars
  <1>2. TP!TInv' /\ (pollPc = "unmark" => pollPc' \in {"unmark", "notify"})
    BY <1>1, TrackerInvSame, PickerTrackerAssumption, TP!NextTInv, TP!UnmarkAnnounces
  <1> QED
    BY <1>2
    DEF T!TInv, TP!TInv, T!TypeOK, TP!TypeOK, T!RipeAreDuplicates, TP!RipeAreDuplicates,
        T!VictimIsHolder, TP!VictimIsHolder, T!Deduping, TP!Deduping, T!IsDuplicate,
        TP!IsDuplicate, T!Visited, TP!Visited, T!First, TP!First

-----------------------------------------------------------------------------
(* The components together *)

\* The dedup pass has one victim at a time, a pod of the pool.
LEMMA VictimKey ==
  ASSUME PickerInv, pollPc \in {"unmark", "notify", "reset"}
  PROVE  /\ T!Visited \in Models
         /\ \E p \in Pods : victim = {p}
  <1>1. TP!TInv /\ pollPc \in TP!Deduping
    BY TrackerInvSame DEF PickerInv, TP!Deduping
  <1>2. TP!Visited \in Models /\ holders[TP!Visited] \in SUBSET Pods
    BY <1>1, PickerTrackerAssumption, TP!VisitedIsRipe
  <1>3. T!Visited = TP!Visited
    BY DEF T!Visited, T!First, TP!Visited, TP!First
  <1> QED BY <1>1, <1>2, <1>3 DEF TP!TInv, TP!VictimIsHolder

\* The pod the tracker unloads from is one of the pool.
LEMMA LoserKey ==
  ASSUME PickerInv, pollPc = "unload"
  PROVE  /\ T!Visited \in Models
         /\ T!PickLoser(holders[T!Visited], F!Pressure) \in Pods
  <1>1. TP!TInv /\ pollPc \in TP!Deduping
    BY TrackerInvSame DEF PickerInv, TP!Deduping
  <1>2. /\ TP!Visited \in Models /\ holders[TP!Visited] \in SUBSET Pods
        /\ TP!IsDuplicate(holders[TP!Visited])
    BY <1>1, PickerTrackerAssumption, TP!VisitedIsRipe
  <1>3. T!Visited = TP!Visited
    BY DEF T!Visited, T!First, TP!Visited, TP!First
  <1>4. F!Pressure \in [Pods -> Levels] /\ holders[TP!Visited] # {}
    BY <1>2 DEF PickerInv, F!TypeOK, F!Pressure, TP!IsDuplicate
  <1>5. TP!PickLoser(holders[TP!Visited], F!Pressure) \in holders[TP!Visited]
    BY <1>2, <1>4, PickerTrackerAssumption, TP!LoserIsHolder
  <1>6. T!PickLoser(holders[T!Visited], F!Pressure)
          = TP!PickLoser(holders[TP!Visited], F!Pressure)
    BY <1>3 DEF T!PickLoser, TP!PickLoser
  <1> QED BY <1>2, <1>3, <1>5, <1>6

\* What a call asks for is a pod of the pool and a model.
LEMMA CallHasKey ==
  ASSUME PickerInv, NEW r \in Requests, pc[r] # "idle"
  PROVE  key[r] \in Pods \X Models /\ key[r] = <<PodOf(r), ModelOf(r)>>
         /\ PodOf(r) \in Pods /\ ModelOf(r) \in Models
  BY DEF PickerInv, L!IInv, L!LoadProgress, L!Keys, PodOf, ModelOf

\* Every step of the picker is a step of the loader, or leaves it alone.
LEMMA StepsOfTheLoader ==
  ASSUME PickerInv, [Next]_vars
  PROVE  [L!Next]_(L!vars)
  <1>1. CASE UNCHANGED loaderVars
    BY <1>1 DEF loaderVars, L!vars
  <1>2. ASSUME NEW r \in Requests, NEW p \in Pods, PreRequest(r, p)
        PROVE  L!Next
    <2>1. <<p, target[r]>> \in L!Keys
      BY <1>2 DEF PreRequest, F!Picked, PickerInv, F!TypeOK, L!Keys
    <2> QED BY <1>2, <2>1 DEF PreRequest, L!Next, L!Environment
  <1>3. ASSUME NEW r \in Requests,
               Local(r) \/ Query(r) \/ Mark(r) \/ Retract(r) \/ Post(r) \/ Await(r)
        PROVE  L!Next
    <2>1. L!Step(r)
      <3>1. CASE Local(r) \/ Mark(r) \/ Await(r)
        BY <3>1 DEF Local, Mark, Await, L!Step
      <3>2. CASE Query(r)
        <4>1. L!Query(r, TRUE) \/ L!Query(r, FALSE)
          BY <3>2 DEF Query, L!Query, L!Succeeds
        <4> QED BY <4>1 DEF L!Step
      <3>3. CASE Retract(r)
        <4>1. L!Retract(r, TRUE) \/ L!Retract(r, FALSE)
          BY <3>3 DEF Retract, L!Retract
        <4> QED BY <4>1 DEF L!Step
      <3>4. CASE Post(r)
        BY <3>4 DEF Post, L!Step
      <3> QED BY <1>3, <3>1, <3>2, <3>3, <3>4
    <2> QED BY <2>1 DEF L!Next
  <1>4. ASSUME NEW r \in Requests, Cancel(r) \/ Return(r) PROVE L!Next
    BY <1>4 DEF Cancel, Return, L!Next, L!Environment
  <1>5. ASSUME Notify PROVE L!Next
    <2>1. PICK p \in victim : L!InvalidateLoadedModel(<<p, T!Visited>>)
      BY <1>5 DEF Notify
    <2>2. pollPc = "notify"
      BY <1>5 DEF Notify, T!DedupNotify
    <2>3. <<p, T!Visited>> \in L!Keys
      BY <2>2, VictimKey DEF L!Keys
    <2> QED BY <2>1, <2>3 DEF L!Next, L!Environment
  <1>6. ASSUME TrackerStep, ~ Notify PROVE UNCHANGED loaderVars
    BY <1>6 DEF TrackerStep, Poll, UnloadSucceeds, UnloadRefused, UnloadFails,
                UnloadAnswerLost
  <1>7. ASSUME NEW r \in Requests, NEW m \in Models, Schedule(r, m)
        PROVE  UNCHANGED loaderVars
    BY <1>7 DEF Schedule
  <1>8. ASSUME NEW r \in Requests, NEW p \in Pods, NEW load \in Levels,
               FilterPod(r, p, load)
        PROVE  UNCHANGED loaderVars
    BY <1>8 DEF FilterPod
  <1>9. ASSUME NEW p \in Pods, NEW m \in Models, LoadEnds(p, m) \/ Evict(p, m)
        PROVE  UNCHANGED loaderVars
    BY <1>9 DEF LoadEnds, FinishLoad, FailLoad, Evict
  <1>10. CASE UNCHANGED vars
    BY <1>1, <1>10 DEF vars
  <1> QED
    BY <1>1, <1>2, <1>3, <1>4, <1>5, <1>6, <1>7, <1>8, <1>9, <1>10
    DEF Next, RequestStep

\* Every step of the picker is a step of the tracker, or leaves it alone.
LEMMA StepsOfTheTracker ==
  ASSUME PickerInv, [Next]_vars
  PROVE  [T!Next]_(T!vars)
  <1>1. CASE UNCHANGED trackerVars
    BY <1>1 DEF trackerVars, T!vars, T!viewVars, T!pollVars, T!dedupVars
  <1>2. ASSUME NEW r \in Requests, Mark(r) \/ Retract(r) PROVE T!Next
    <2>1. pc[r] # "idle"
      BY <1>2 DEF Mark, Retract, L!MarkWarm, L!MarkCold, L!Retract, L!Goto
    <2>2. PodOf(r) \in Pods /\ ModelOf(r) \in Models
      BY <2>1, CallHasKey
    <2> QED BY <1>2, <2>2 DEF Mark, Retract, T!Next, T!Mark
  <1>3. ASSUME TrackerStep PROVE T!Next
    <2>1. F!Pressure \in [Pods -> Levels]
      BY DEF PickerInv, F!TypeOK, F!Pressure
    <2>2. \A p \in Pods : LoadedOn(p) \in SUBSET Models
      BY DEF LoadedOn
    <2>3. CASE Poll
      <3>1. Pods \in SUBSET Pods
        OBVIOUS
      <3> QED BY <2>1, <2>2, <2>3, <3>1 DEF Poll, T!Next, T!PollStep, T!Poll, T!Unload
    <2>4. CASE UnloadSucceeds \/ UnloadRefused \/ UnloadFails \/ UnloadAnswerLost \/ Notify
      BY <2>1, <2>4 DEF UnloadSucceeds, UnloadRefused, UnloadFails, UnloadAnswerLost, Notify,
                        T!Next, T!PollStep, T!Unload
    <2> QED BY <1>3, <2>3, <2>4 DEF TrackerStep
  <1>4. ASSUME NEW r \in Requests, RequestStep(r) \/ Cancel(r), ~ Mark(r), ~ Retract(r)
        PROVE  UNCHANGED trackerVars
    BY <1>4 DEF RequestStep, FilterPod, PreRequest, Local, Query, Post, Await, Return, Cancel
  <1>5. ASSUME NEW r \in Requests, NEW m \in Models, Schedule(r, m)
        PROVE  UNCHANGED trackerVars
    BY <1>5 DEF Schedule
  <1>6. ASSUME NEW p \in Pods, NEW m \in Models, LoadEnds(p, m) \/ Evict(p, m)
        PROVE  UNCHANGED trackerVars
    BY <1>6 DEF LoadEnds, FinishLoad, FailLoad, Evict
  <1>7. CASE UNCHANGED vars
    BY <1>1, <1>7 DEF vars
  <1> QED
    BY <1>1, <1>2, <1>3, <1>4, <1>5, <1>6, <1>7 DEF Next

\* A filter call stays within the pool.
LEMMA FilterKeepsTypes ==
  ASSUME PickerInv, [Next]_vars
  PROVE  F!TypeOK'
  <1> USE DEF PickerInv
  <1>1. CASE UNCHANGED filterVars
    BY <1>1 DEF filterVars, F!TypeOK
  <1>2. ASSUME NEW r \in Requests, NEW m \in Models, Schedule(r, m)
        PROVE  F!TypeOK'
    BY <1>2 DEF Schedule, F!Filter, F!TypeOK
  <1>3. ASSUME NEW r \in Requests, NEW p \in Pods, NEW load \in Levels,
               FilterPod(r, p, load)
        PROVE  F!TypeOK'
    BY <1>3 DEF FilterPod, F!FilterPod, F!Update, F!TypeOK
  <1>4. ASSUME NEW r \in Requests, NEW p \in Pods, PreRequest(r, p)
        PROVE  F!TypeOK'
    BY <1>4 DEF PreRequest, F!Picked, F!TypeOK
  <1>5. ASSUME NEW r \in Requests, Local(r) \/ Query(r) \/ Mark(r) \/ Retract(r) \/ Post(r)
                                   \/ Await(r) \/ Return(r) \/ Cancel(r)
        PROVE  UNCHANGED filterVars
    BY <1>5 DEF Local, Query, Mark, Retract, Post, Await, Return, Cancel
  <1>6. ASSUME TrackerStep PROVE UNCHANGED filterVars
    BY <1>6 DEF TrackerStep, Poll, UnloadSucceeds, UnloadRefused, UnloadFails,
                UnloadAnswerLost, Notify
  <1>7. ASSUME NEW p \in Pods, NEW m \in Models, LoadEnds(p, m) \/ Evict(p, m)
        PROVE  UNCHANGED filterVars
    BY <1>7 DEF LoadEnds, FinishLoad, FailLoad, Evict
  <1>8. CASE UNCHANGED vars
    BY <1>1, <1>8 DEF vars
  <1> QED
    BY <1>1, <1>2, <1>3, <1>4, <1>5, <1>6, <1>7, <1>8 DEF Next, RequestStep

\* How a step may change what the servers report: not at all, a load goes on, or
\* one model is dropped by the dedup pass, by a failing load or by the server.
LEMMA StatusStep ==
  ASSUME PickerInv, [Next]_vars
  PROVE  \/ UNCHANGED status
         \/ \E p \in Pods, m \in Models : \E s \in {"unloaded", "loading", "loaded"} :
              /\ SetStatus(p, m, s)
              /\ \/ status[p][m] # "loaded" \/ s = "loaded"
                 \/ pollPc = "unload" \/ "evict" \in Faults
  <1> USE DEF PickerInv
  <1>1. ASSUME NEW r \in Requests, Post(r), ~ UNCHANGED status
        PROVE  /\ PodOf(r) \in Pods /\ ModelOf(r) \in Models
               /\ ServerLoads(PodOf(r), ModelOf(r))
    <2>1. pc[r] # "idle" /\ ServerLoads(PodOf(r), ModelOf(r))
      BY <1>1 DEF Post, L!Post, L!Goto
    <2> QED BY <2>1, CallHasKey
  <1>2. ASSUME NEW p \in Pods, NEW m \in Models, ServerLoads(p, m)
        PROVE  \E s \in {"unloaded", "loading", "loaded"} :
                  /\ SetStatus(p, m, s)
                  /\ status[p][m] # "loaded" \/ s = "loaded"
    BY <1>2 DEF ServerLoads
  <1>3. ASSUME UnloadSucceeds \/ UnloadAnswerLost
        PROVE  \E p \in Pods, m \in Models :
                  SetStatus(p, m, "unloaded") /\ pollPc = "unload"
    <2>1. pollPc = "unload"
      BY <1>3 DEF UnloadSucceeds, UnloadAnswerLost, T!UnloadModel, T!UnloadModelFails
    <2>2. SetStatus(T!PickLoser(holders[T!Visited], F!Pressure), T!Visited, "unloaded")
      BY <1>3 DEF UnloadSucceeds, UnloadAnswerLost, T!UnloadModel
    <2> QED BY <2>1, <2>2, LoserKey
  <1>4. ASSUME NEW p \in Pods, NEW m \in Models, LoadEnds(p, m) \/ Evict(p, m)
        PROVE  \E s \in {"unloaded", "loading", "loaded"} :
                  /\ SetStatus(p, m, s)
                  /\ status[p][m] # "loaded" \/ s = "loaded" \/ "evict" \in Faults
    BY <1>4 DEF LoadEnds, FinishLoad, FailLoad, Evict
  <1>5. ASSUME TrackerStep, ~ UnloadSucceeds, ~ UnloadAnswerLost PROVE UNCHANGED status
    BY <1>5 DEF TrackerStep, Poll, UnloadRefused, UnloadFails, Notify
  <1>6. ASSUME NEW r \in Requests, RequestStep(r) \/ Cancel(r), ~ Post(r)
        PROVE  UNCHANGED status
    BY <1>6 DEF RequestStep, FilterPod, PreRequest, Local, Query, Mark, Retract, Await,
                Return, Cancel
  <1>7. ASSUME NEW r \in Requests, NEW m \in Models, Schedule(r, m)
        PROVE  UNCHANGED status
    BY <1>7 DEF Schedule
  <1>8. CASE UNCHANGED vars
    BY <1>8 DEF vars
  <1>9. ASSUME NEW r \in Requests, Post(r), ~ UNCHANGED status
        PROVE  \E p \in Pods, m \in Models : \E s \in {"unloaded", "loading", "loaded"} :
                 SetStatus(p, m, s) /\ (status[p][m] # "loaded" \/ s = "loaded")
    BY <1>1, <1>2, <1>9
  <1> QED
    BY <1>3, <1>4, <1>5, <1>6, <1>7, <1>8, <1>9 DEF Next

\* The components keep their invariants when they run together.
LEMMA NextPickerInv == PickerInv /\ [Next]_vars => PickerInv'
  <1> SUFFICES ASSUME PickerInv, [Next]_vars PROVE PickerInv'
    OBVIOUS
  <1>1. L!IInv'
    BY StepsOfTheLoader, LoaderKeepsInv DEF PickerInv
  <1>2. T!TInv'
    BY StepsOfTheTracker, TrackerKeepsInv DEF PickerInv
  <1>3. F!TypeOK'
    BY FilterKeepsTypes
  <1>4. status' \in [Pods -> [Models -> {"unloaded", "loading", "loaded"}]]
    BY StatusStep DEF PickerInv, SetStatus
  <1> QED BY <1>1, <1>2, <1>3, <1>4 DEF PickerInv

\* The picker starts with empty maps, before the first poll, nothing loaded.
LEMMA InitPickerInv == Init => PickerInv
  <1> SUFFICES ASSUME Init PROVE PickerInv
    OBVIOUS
  <1>1. L!IInv
    BY LoaderInitSame, LoaderInvSame, LoaderAssumption, LP!InitIInv DEF Init
  <1>2. T!TInv
    BY TrackerInitSame, TrackerInvSame, PickerTrackerAssumption, TP!InitTInv DEF Init
  <1>3. F!TypeOK
    BY PickerAssumption DEF Init, F!Init, F!TypeOK
  <1> QED BY <1>1, <1>2, <1>3 DEF Init, PickerInv

\* In the assembled picker the components keep the invariants they have alone,
\* and what they hand each other (key, pressure, victim) is what they expect.
THEOREM PickerInvariance == Spec => []PickerInv
  BY InitPickerInv, NextPickerInv, PTL DEF Spec

\* Refinement: hidden behind the picker, the loader sees a legal environment and
\* the tracker legal callers, so everything that ModelLoaderProofs and
\* ModelTrackerProofs show of the components alone (one load per key, no lost
\* waiter, every unload announced) holds of them in the assembled program.
THEOREM PickerImplementsComponents == Spec => L!Spec /\ T!Spec
  <1>1. Init => L!Init /\ T!Init
    BY DEF Init
  <1>2. PickerInv /\ [Next]_vars => [L!Next]_(L!vars) /\ [T!Next]_(T!vars)
    BY StepsOfTheLoader, StepsOfTheTracker
  <1> QED BY <1>1, <1>2, PickerInvariance, PTL DEF Spec, L!Spec, T!Spec

-----------------------------------------------------------------------------
(* The cache of the loader *)

\* The steps a call r takes in PreRequest.
CallStep(r) ==
    \/ \E p \in Pods : PreRequest(r, p)
    \/ Local(r) \/ Query(r) \/ Mark(r) \/ Retract(r) \/ Post(r) \/ Await(r) \/ Return(r)

\* Only its own steps move a call, change its key or publish its result.
LEMMA CallMovesItself ==
  ASSUME PickerInv, [Next]_vars, NEW r \in Requests, ~ CallStep(r)
  PROVE  pc'[r] = pc[r] /\ key'[r] = key[r] /\ result'[r] = result[r]
  <1>1. CASE UNCHANGED <<pc, key, result>>
    BY <1>1
  <1>2. ASSUME NEW q \in Requests, q # r, CallStep(q)
        PROVE  pc'[r] = pc[r] /\ key'[r] = key[r] /\ result'[r] = result[r]
    <2>0. /\ pc \in [Requests -> L!Locations] /\ key \in [Requests -> L!Keys \union {None}]
          /\ result \in [Requests -> {"none", "pending", "ok", "err"}]
      BY DEF PickerInv, L!IInv, L!TypeOK
    <2>1. /\ \E b : pc' = [pc EXCEPT ![q] = b]
          /\ key' = key \/ \E b : key' = [key EXCEPT ![q] = b]
          /\ result' = result \/ \E b : result' = [result EXCEPT ![q] = b]
      BY <1>2
      DEF CallStep, PreRequest, Local, Query, Mark, Retract, Post, Await, Return,
          L!PreRequest, L!HandleAlreadyLoadedOrLoading, L!CheckLoaded, L!CheckLoading,
          L!CheckNeither, L!WakeCheck, L!Query, L!Confirm, L!MarkWarm, L!MarkCold,
          L!Retract, L!Invalidate, L!Join, L!WakeLoad, L!Post, L!AwaitLoaded,
          L!AwaitFails, L!Store, L!Publish, L!Return, L!Goto
    <2> QED BY <1>2, <2>0, <2>1
  <1>3. ASSUME NEW q \in Requests, Cancel(q) PROVE UNCHANGED <<pc, key, result>>
    BY <1>3 DEF Cancel, L!Cancel
  <1>4. ASSUME TrackerStep PROVE UNCHANGED <<pc, key, result>>
    BY <1>4 DEF TrackerStep, Poll, UnloadSucceeds, UnloadRefused, UnloadFails,
                UnloadAnswerLost, Notify, L!InvalidateLoadedModel, loaderVars
  <1>5. ASSUME NEW q \in Requests, NEW m \in Models, Schedule(q, m)
        PROVE  UNCHANGED <<pc, key, result>>
    BY <1>5 DEF Schedule, loaderVars
  <1>6. ASSUME NEW q \in Requests, NEW p \in Pods, NEW load \in Levels,
               FilterPod(q, p, load)
        PROVE  UNCHANGED <<pc, key, result>>
    BY <1>6 DEF FilterPod, loaderVars
  <1>7. ASSUME NEW p \in Pods, NEW m \in Models, LoadEnds(p, m) \/ Evict(p, m)
        PROVE  UNCHANGED <<pc, key, result>>
    BY <1>7 DEF LoadEnds, FinishLoad, FailLoad, Evict, loaderVars
  <1>8. CASE UNCHANGED vars
    BY <1>1, <1>8 DEF vars, loaderVars
  <1>9. ASSUME NEW q \in Requests, RequestStep(q)
        PROVE  CallStep(q) \/ \E p \in Pods, load \in Levels : FilterPod(q, p, load)
    BY <1>9 DEF RequestStep, CallStep
  <1> QED
    BY <1>1, <1>2, <1>3, <1>4, <1>5, <1>6, <1>7, <1>8, <1>9 DEF Next

\* A call comes to the insertion only with an answer of the server.
LEMMA AnswerComesFromServer ==
  ASSUME PickerInv, [Next]_vars, NEW r \in Requests, pc'[r] \in {"confirm", "store"}
  PROVE  /\ key'[r] = key[r]
         /\ pc[r] \in {"confirm", "store"} \/ (ServerHas(key[r]) /\ UNCHANGED status)
  <1>0. pc \in [Requests -> L!Locations]
    BY DEF PickerInv, L!IInv, L!TypeOK
  <1>1. CASE ~ CallStep(r)
    BY <1>1, CallMovesItself
  <1>2. CASE Query(r)
    BY <1>0, <1>2 DEF Query, L!Query, L!Goto, L!Succeeds
  <1>3. CASE Await(r)
    BY <1>0, <1>3 DEF Await, L!AwaitLoaded, L!AwaitFails, L!Goto
  <1>4. ~ ((\E p \in Pods : PreRequest(r, p)) \/ Local(r) \/ Mark(r) \/ Retract(r) \/ Post(r)
          \/ Return(r))
    BY <1>0
    DEF PreRequest, Local, Mark, Retract, Post, Return,
        L!PreRequest, L!HandleAlreadyLoadedOrLoading, L!CheckLoaded,
        L!CheckLoading, L!CheckNeither, L!WakeCheck, L!Confirm,
        L!MarkWarm, L!MarkCold, L!Retract, L!Invalidate, L!Join, L!WakeLoad,
        L!Post, L!Store, L!Publish, L!Return, L!Goto
  <1> QED BY <1>1, <1>2, <1>3, <1>4 DEF CallStep

\* Entries of the cache are made by calls that have their answer.
LEMMA EntriesHaveAnswers ==
  ASSUME PickerInv, [Next]_vars, NEW k, k \in loadedModels', k \notin loadedModels
  PROVE  \E r \in Requests : pc[r] \in {"confirm", "store"} /\ key[r] = k
  <1>1. PICK r \in Requests : L!Step(r)
    BY StepsOfTheLoader
    DEF L!Next, L!vars, L!Environment, L!PreRequest, L!Cancel, L!Return,
        L!InvalidateLoadedModel, L!ClearLoadedModelsCache
  <1>2. L!Confirm(r) \/ L!Store(r)
    BY <1>1
    DEF L!Step, L!HandleAlreadyLoadedOrLoading, L!CheckLoaded, L!CheckLoading,
        L!CheckNeither, L!WakeCheck, L!Query, L!MarkWarm, L!MarkCold, L!Retract,
        L!Invalidate, L!Join, L!WakeLoad, L!Post, L!AwaitLoaded, L!AwaitFails, L!Publish
  <1> QED BY <1>2 DEF L!Confirm, L!Store, L!Goto

\* An announcement is on its way until it has removed the entry.
LEMMA AnnouncementArrives ==
  ASSUME PickerInv, [Next]_vars, NEW k \in Pods \X Models, Announcing(k)
  PROVE  Announcing(k)' \/ k \notin loadedModels'
  <1>1. pollPc \in {"unmark", "notify"} /\ k[1] \in victim /\ k[2] = T!Visited
    BY DEF Announcing
  <1>2. PICK p \in Pods : victim = {p}
    BY <1>1, VictimKey
  <1>3. k = <<p, T!Visited>>
    BY <1>1, <1>2
  <1>4. CASE Notify
    BY <1>2, <1>3, <1>4 DEF Notify, L!InvalidateLoadedModel
  <1>5. CASE UNCHANGED <<pollPc, victim, ripe>>
    BY <1>1, <1>5 DEF Announcing, T!Visited
  <1>6. CASE T!DedupUnmark
    <2>1. pollPc' = "notify"
      <3>1. pollPc' \in {"unmark", "notify"} /\ pollPc = "unmark"
        BY <1>6, StepsOfTheTracker, TrackerKeepsInv DEF PickerInv, T!DedupUnmark
      <3> QED BY <1>6, <3>1 DEF T!DedupUnmark
    <2>2. UNCHANGED <<victim, ripe>>
      BY <1>6 DEF T!DedupUnmark, T!dedupVars
    <2> QED BY <1>1, <2>1, <2>2 DEF Announcing, T!Visited
  <1>7. ASSUME TrackerStep, ~ Notify PROVE T!DedupUnmark
    BY <1>1, <1>7
    DEF TrackerStep, Poll, UnloadSucceeds, UnloadRefused, UnloadFails, UnloadAnswerLost,
        T!PollStart, T!QueryPod, T!QueryPodFails, T!PollCommit, T!ResolveDuplicates,
        T!DedupSkip, T!DedupReset, T!UnloadModel, T!UnloadModelFails
  <1>8. ASSUME ~ TrackerStep PROVE UNCHANGED <<pollPc, victim, ripe>>
    BY <1>8
    DEF Next, vars, trackerVars, T!dedupVars, Schedule, RequestStep, FilterPod,
        PreRequest, Local, Query, Mark, Retract, Post, Await, Return, Cancel, LoadEnds,
        FinishLoad, FailLoad, Evict, T!MarkLoaded, T!MarkUnloaded
  <1> QED BY <1>4, <1>5, <1>6, <1>7, <1>8

\* Every step preserves the invariant: a model is dropped with an announcement,
\* or is on record as overtaken until the server has it again.
LEMMA NextCInv == CInv /\ [CNext]_<<vars, overtaken>> => CInv'
  <1> SUFFICES ASSUME CInv, [CNext]_<<vars, overtaken>> PROVE CInv'
    OBVIOUS
  <1>0. PickerInv /\ [Next]_vars
    BY DEF CInv, CNext
  <1>1. PickerInv'
    BY <1>0, NextPickerInv
  <1>2. ASSUME NEW k \in Pods \X Models, ~ ServerHas(k)',
               \/ k \in overtaken \/ AboutToCache(k)
               \/ ServerHas(k) /\ ~ Announcing(k)'
        PROVE  k \in overtaken'
    <2>1. CASE CNext
      BY <1>2, <2>1 DEF CNext, SilentlyDropped
    <2>2. CASE UNCHANGED <<vars, overtaken>>
      <3>1. ~ ServerHas(k)
        BY <1>2, <2>2 DEF vars, ServerHas
      <3>2. AboutToCache(k) => k \in overtaken
        BY <3>1 DEF CInv, AnswersAccountedFor
      <3> QED BY <1>2, <2>2, <3>1, <3>2
    <2> QED BY <2>1, <2>2
  <1>3. AnswersAccountedFor'
    <2> SUFFICES ASSUME NEW k \in Pods \X Models, NEW r \in Requests,
                        pc'[r] \in {"confirm", "store"}, key'[r] = k, ~ ServerHas(k)'
                 PROVE  k \in overtaken'
      BY DEF AnswersAccountedFor, AboutToCache
    <2>1. key[r] = k
      BY <1>0, AnswerComesFromServer
    <2>2. CASE pc[r] \in {"confirm", "store"}
      BY <1>2, <2>1, <2>2 DEF AboutToCache
    <2>3. CASE ServerHas(key[r]) /\ UNCHANGED status
      BY <2>1, <2>3 DEF ServerHas
    <2> QED BY <1>0, <2>2, <2>3, AnswerComesFromServer
  <1>4. StaleOnlyByRace'
    <2> SUFFICES ASSUME NEW k \in loadedModels', ~ ServerHas(k)', ~ Announcing(k)'
                 PROVE  k \in overtaken'
      BY DEF StaleOnlyByRace
    <2>1. k \in Pods \X Models
      BY <1>1 DEF PickerInv, L!IInv, L!TypeOK, L!Keys
    <2>2. CASE k \in loadedModels
      <3>1. ~ Announcing(k)
        BY <1>0, <2>1, AnnouncementArrives
      <3>2. ServerHas(k) \/ k \in overtaken
        BY <2>2, <3>1 DEF CInv, StaleOnlyByRace
      <3> QED BY <1>2, <2>1, <3>2
    <2>3. CASE k \notin loadedModels
      BY <1>0, <1>2, <2>1, <2>3, EntriesHaveAnswers DEF AboutToCache
    <2> QED BY <2>2, <2>3
  <1> QED BY <1>1, <1>3, <1>4 DEF CInv

\* An entry of Plugin.loadedModels is wrong only while the tracker is announcing
\* its unload, or if the model was dropped without an announcement or between the
\* server's answer to a call and the insertion by that call.
THEOREM CacheIsCoherent == CSpec => []StaleOnlyByRace
  <1>1. CInit => CInv
    <2> SUFFICES ASSUME CInit PROVE CInv
      OBVIOUS
    <2>1. PickerInv
      BY InitPickerInv DEF CInit
    <2>2. loadedModels = {} /\ \A r \in Requests : pc[r] = "idle"
      BY DEF CInit, Init, L!Init
    <2> QED BY <2>1, <2>2 DEF CInv, StaleOnlyByRace, AnswersAccountedFor, AboutToCache
  <1>2. CInv => StaleOnlyByRace
    BY DEF CInv
  <1> QED BY <1>1, <1>2, NextCInv, PTL DEF CSpec

-----------------------------------------------------------------------------
(* Served calls *)

\* By whatever path a call comes to know that its model is loaded: a cache hit,
\* an answer of the server, its own load or that of the call it waited for.
LEMMA KnowledgeIsEarned ==
  ASSUME PickerInv, KnowledgeIsTrue, [Next]_vars, NEW r \in Requests, Knows(r)'
  PROVE  key'[r] = key[r] /\ key[r] \in Pods \X Models /\ ServerHas(key[r])
  <1>0. /\ pc \in [Requests -> L!Locations] /\ key \in [Requests -> L!Keys \union {None}]
        /\ result \in [Requests -> {"none", "pending", "ok", "err"}]
        /\ \A q \in Requests : pc[q] = "idle" => result[q] = "none"
        /\ \A q \in Requests : pc[q] \in {"idle", "check", "query", "confirm", "markWarm",
              "mark", "join"} \union L!Waiting => result[q] = "none"
        /\ \A q \in Requests : pc[q] \in L!Loading => result[q] = "pending"
    BY DEF PickerInv, L!IInv, L!TypeOK, L!LoadProgress, L!InFlight
  <1>1. Knows(r) => pc[r] # "idle" /\ ServerHas(key[r])
    BY <1>0 DEF Knows, KnowledgeIsTrue
  <1>2. pc[r] # "idle" => key[r] \in Pods \X Models
    BY CallHasKey
  <1>3. CASE ~ CallStep(r)
    <2>1. pc'[r] = pc[r] /\ key'[r] = key[r] /\ result'[r] = result[r]
      BY <1>3, CallMovesItself
    <2> QED BY <1>1, <1>2, <2>1 DEF Knows
  <1>4. CASE Local(r)
    <2>1. key'[r] = key[r] /\ pc[r] # "idle"
      BY <1>4
      DEF Local, L!HandleAlreadyLoadedOrLoading, L!CheckLoaded, L!CheckLoading,
          L!CheckNeither, L!WakeCheck, L!Confirm, L!Invalidate, L!Join, L!WakeLoad,
          L!Store, L!Publish, L!Goto
    <2>2. ASSUME L!HandleAlreadyLoadedOrLoading(r) PROVE ServerHas(key[r])
      BY <1>0, <2>2 DEF L!HandleAlreadyLoadedOrLoading, L!CheckLoaded, L!CheckLoading,
          L!CheckNeither, L!Goto, Knows, KnowledgeIsTrue
    <2>3. ASSUME L!WakeCheck(r) \/ L!WakeLoad(r) PROVE ServerHas(key[r])
      <3>1. pc[r] \in L!Waiting /\ result'[r] = result[r]
        BY <2>3 DEF L!WakeCheck, L!WakeLoad, L!Goto, L!Waiting
      <3>2. result[waitsOn[r]] = "ok"
        BY <1>0, <2>3, <3>1 DEF L!WakeCheck, L!WakeLoad, L!Goto, Knows
      <3>3. waitsOn[r] \in Requests /\ key[waitsOn[r]] = key[r]
        BY <3>1 DEF PickerInv, L!IInv, L!NoLostWaiter
      <3> QED BY <3>2, <3>3 DEF Knows, KnowledgeIsTrue
    <2>4. ASSUME L!Confirm(r) \/ L!Store(r) PROVE ServerHas(key[r])
      BY <1>1, <2>4 DEF L!Confirm, L!Store, L!Goto, Knows
    <2>5. ASSUME L!Invalidate(r) PROVE ServerHas(key[r])
      BY <1>0, <1>1, <2>5 DEF L!Invalidate, L!Goto, Knows
    <2>6. ASSUME L!Join(r) PROVE ServerHas(key[r])
      BY <1>0, <2>6 DEF L!Join, L!Goto, Knows
    <2>7. ASSUME L!Publish(r) PROVE ServerHas(key[r])
      BY <1>0, <1>1, <2>7 DEF L!Publish, L!Goto, Knows
    <2>8. ServerHas(key[r])
      BY <1>4, <2>2, <2>3, <2>4, <2>5, <2>6, <2>7 DEF Local
    <2> QED BY <1>2, <2>1, <2>8
  <1>5. CASE Query(r) \/ Mark(r) \/ Retract(r) \/ Post(r) \/ Await(r)
    <2>1. /\ key'[r] = key[r] /\ pc[r] # "idle" /\ result'[r] = result[r]
      BY <1>5
      DEF Query, Mark, Retract, Post, Await, L!Query, L!MarkWarm, L!MarkCold, L!Retract,
          L!Post, L!AwaitLoaded, L!AwaitFails, L!Goto
    <2>2. ASSUME pc'[r] \in {"confirm", "store"} PROVE ServerHas(key[r])
      BY <1>1, <2>2, AnswerComesFromServer DEF Knows
    <2>3. ASSUME pc'[r] \notin {"confirm", "store"} PROVE ServerHas(key[r])
      <3>1. Mark(r) => pc[r] = "markWarm" \/ pc'[r] = "join"
        BY <1>0 DEF Mark, L!MarkWarm, L!MarkCold, L!Goto
      <3>2. Query(r) \/ Retract(r) \/ Post(r) \/ Await(r) =>
              pc'[r] \in {"confirm", "store", "mark", "invalidate", "gaveUp", "await",
                         "publishErr"}
        BY <1>0 DEF Query, Retract, Post, Await, L!Query, L!Retract, L!Post, L!AwaitLoaded,
                    L!AwaitFails, L!Goto
      <3> QED BY <1>1, <1>5, <2>1, <2>3, <3>1, <3>2 DEF Knows
    <2> QED BY <1>2, <2>1, <2>2, <2>3
  <1>6. CASE \E p \in Pods : PreRequest(r, p)
    BY <1>0, <1>6 DEF PreRequest, L!PreRequest, L!Goto, Knows
  <1>7. CASE Return(r)
    BY <1>0, <1>7 DEF Return, L!Return, Knows
  <1> QED BY <1>3, <1>4, <1>5, <1>6, <1>7 DEF CallStep

\* As long as no server drops a model, all that the calls know stays true.
LEMMA NextKnowledge ==
  ASSUME PickerInv, KnowledgeIsTrue, [Next]_vars, KeepsModels
  PROVE  KnowledgeIsTrue'
  <1>1. ASSUME NEW k \in loadedModels' PROVE ServerHas(k)'
    <2>1. k \in Pods \X Models
      BY <1>1, NextPickerInv DEF PickerInv, L!IInv, L!TypeOK, L!Keys
    <2>2. ServerHas(k)
      BY <1>1, EntriesHaveAnswers DEF KnowledgeIsTrue, Knows
    <2> QED BY <2>1, <2>2 DEF KeepsModels
  <1>2. ASSUME NEW r \in Requests, Knows(r)' PROVE ServerHas(key[r])'
    <2>1. key'[r] = key[r] /\ key[r] \in Pods \X Models /\ ServerHas(key[r])
      BY <1>2, KnowledgeIsEarned
    <2> QED BY <2>1 DEF KeepsModels, ServerHas
  <1> QED BY <1>1, <1>2 DEF KnowledgeIsTrue

\* Nothing is known at the start.
LEMMA InitKnowledge == Init => KnowledgeIsTrue
  BY DEF Init, L!Init, KnowledgeIsTrue, Knows

\* The property the runs check follows.
LEMMA KnowledgeSuffices == KnowledgeIsTrue => ServedMeansLoaded
  BY DEF KnowledgeIsTrue, Knows, ServedMeansLoaded

\* PreRequest "ensures the model is loaded on the target pod": whatever faults
\* and interleavings, a call that returns without having failed leaves its model
\* loaded, as long as no server drops one.
THEOREM ServedUnlessDropped ==
  Spec /\ [][KeepsModels]_vars => []ServedMeansLoaded
  <1>1. PickerInv /\ KnowledgeIsTrue /\ [Next]_vars /\ [KeepsModels]_vars => KnowledgeIsTrue'
    <2>1. UNCHANGED vars => KeepsModels
      BY DEF vars, KeepsModels, ServerHas
    <2> QED BY <2>1, NextKnowledge
  <1> QED BY <1>1, InitKnowledge, PickerInvariance, KnowledgeSuffices, PTL DEF Spec

\* With one pod there are no duplicates, so the tracker unloads nothing, and if
\* the server evicts nothing either, every served call has its model.
THEOREM OnePodServes ==
  ASSUME \A p, q \in Pods : p = q, "evict" \notin Faults
  PROVE  Spec => []ServedMeansLoaded
  <1>1. ASSUME PickerInv PROVE pollPc # "unload"
    BY <1>1 DEF PickerInv, T!TInv, T!TypeOK, T!RipeAreDuplicates, T!Deduping, T!IsDuplicate
  <1>2. PickerInv /\ [Next]_vars => [KeepsModels]_vars
    <2> SUFFICES ASSUME PickerInv, [Next]_vars, NEW k \in Pods \X Models, ServerHas(k)
                 PROVE  ServerHas(k)'
      BY DEF KeepsModels
    <2>1. CASE UNCHANGED status
      BY <2>1 DEF ServerHas
    <2>2. ASSUME NEW p \in Pods, NEW m \in Models, NEW s, SetStatus(p, m, s),
                 status[p][m] # "loaded" \/ s = "loaded"
          PROVE  ServerHas(k)'
      BY <2>2 DEF SetStatus, ServerHas, PickerInv
    <2> QED BY <1>1, <2>1, <2>2, StatusStep
  <1> QED BY <1>2, PickerInvariance, ServedUnlessDropped, PTL DEF Spec

=============================================================================
