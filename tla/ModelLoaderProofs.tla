-------------------------- MODULE ModelLoaderProofs --------------------------
(***************************************************************************)
(* Proofs about ModelLoader for any number of calls, pods and models.      *)
(*                                                                         *)
(* None of the safety properties is inductive by itself.  IInv adds that a *)
(* call past "idle" has a key, that a call which has not yet joined a load *)
(* holds no loadResult, and that a load in flight has not published yet.   *)
(***************************************************************************)
EXTENDS ModelLoader, TLAPS

\* The plugin starts with empty maps and no call: the invariant holds.
LEMMA InitIInv == Init => IInv
  BY NoneAssumption
  DEF Init, IInv, TypeOK, LoadingIsOwned, NoLostWaiter, LoadProgress, InFlight,
      Loading, Waiting, Returned, Locations, Keys

\* A step of a call that neither registers nor publishes a load: it moves
\* between two locations outside Loading or two locations inside it, and leaves
\* the bookkeeping of loads alone.  Only its own waitsOn may change, and only
\* while it does not wait afterwards.
LEMMA QuietStep ==
  ASSUME IInv, NEW r \in Requests, NEW a \in Locations, NEW b \in Locations,
         Goto(r, a, b),
         a # "idle", b # "idle", b \notin Waiting,
         a \in Loading <=> b \in Loading,
         b \in {"check", "query", "confirm", "markWarm", "mark", "join"} =>
             a \in {"check", "query", "confirm", "markWarm", "mark", "join"}
                     \union Waiting,
         UNCHANGED <<key, cancelled, loadingModels, result>>,
         loadedModels' \subseteq Keys,
         \/ UNCHANGED waitsOn
         \/ waitsOn' = [waitsOn EXCEPT ![r] = None]
  PROVE  IInv'
  <1> USE DEF IInv, Goto
  <1>1. TypeOK'
    BY DEF TypeOK
  <1>2. pc' \in [Requests -> Locations] /\ pc'[r] = b /\ pc[r] = a
    BY <1>1 DEF TypeOK
  <1>3. \A q \in Requests : q # r => pc'[q] = pc[q] /\ waitsOn'[q] = waitsOn[q]
    BY DEF TypeOK
  <1>4. \A q \in Requests : InFlight(q)' <=> InFlight(q)
    BY <1>2, <1>3 DEF InFlight
  <1>5. LoadingIsOwned'
    BY <1>4 DEF LoadingIsOwned
  <1>6. NoLostWaiter'
    BY <1>2, <1>3, <1>4 DEF NoLostWaiter
  <1>7. LoadProgress'
    <2>1. \A q \in Requests : pc'[q] # "idle" => key'[q] \in Keys
      BY <1>2, <1>3 DEF LoadProgress
    <2>2. \A q \in Requests : InFlight(q)' => result'[q] = "pending"
      BY <1>4 DEF LoadProgress
    <2>3. result'[r] = "none" \/ pc'[r] \notin
             {"idle", "check", "query", "confirm", "markWarm", "mark", "join"}
             \union Waiting
      BY <1>2 DEF LoadProgress
    <2> QED BY <1>2, <1>3, <2>1, <2>2, <2>3 DEF LoadProgress
  <1> QED BY <1>1, <1>5, <1>6, <1>7

\* A call starts to wait for a load that is in flight for its own key.
LEMMA WaitStep ==
  ASSUME IInv, NEW r \in Requests, NEW a \in {"check", "join"}, NEW b \in Waiting,
         Goto(r, a, b),
         loadingModels[key[r]] # None,
         waitsOn' = [waitsOn EXCEPT ![r] = loadingModels[key[r]]],
         UNCHANGED <<key, cancelled, loadedModels, loadingModels, result>>
  PROVE  IInv'
  <1> USE DEF IInv, Goto
  <1>1. key[r] \in Keys
    BY DEF LoadProgress
  <1>2. PICK w \in Requests : loadingModels[key[r]] = w
    BY <1>1 DEF TypeOK
  <1>3. InFlight(w) /\ key[w] = key[r]
    BY <1>1, <1>2 DEF LoadingIsOwned
  <1>4. TypeOK'
    BY <1>2 DEF TypeOK, Locations
  <1>5. /\ pc'[r] = b /\ pc[r] = a /\ waitsOn'[r] = w
        /\ \A q \in Requests : q # r => pc'[q] = pc[q] /\ waitsOn'[q] = waitsOn[q]
    BY <1>2 DEF TypeOK
  <1>6. \A q \in Requests : InFlight(q)' <=> InFlight(q)
    BY <1>5 DEF InFlight, Loading, Waiting
  <1>7. LoadingIsOwned'
    BY <1>6 DEF LoadingIsOwned
  <1>8. NoLostWaiter'
    BY <1>3, <1>5, <1>6 DEF NoLostWaiter
  <1>9. LoadProgress'
    BY <1>5, <1>6 DEF LoadProgress, Waiting
  <1> QED BY <1>4, <1>7, <1>8, <1>9

\* Every step of the plugin and of its callers preserves the invariant.
LEMMA NextIInv == IInv /\ [Next]_vars => IInv'
  <1> SUFFICES ASSUME IInv, [Next]_vars PROVE IInv'
    OBVIOUS
  <1> USE NoneAssumption
  <1>1. ASSUME NEW r \in Requests, Step(r) PROVE IInv'
    <2>0. key[r] \in Keys \/ pc[r] = "idle"
      BY DEF IInv, LoadProgress
    <2>1. CASE HandleAlreadyLoadedOrLoading(r)
      <3>1. CASE CheckLoaded(r)
        BY <3>1, QuietStep
        DEF CheckLoaded, Locations, Waiting, Loading, IInv, TypeOK
      <3>2. CASE CheckLoading(r)
        BY <3>2, WaitStep DEF CheckLoading, Waiting
      <3>3. CASE CheckNeither(r)
        BY <3>3, QuietStep
        DEF CheckNeither, Locations, Waiting, Loading, IInv, TypeOK
      <3> QED BY <2>1, <3>1, <3>2, <3>3 DEF HandleAlreadyLoadedOrLoading
    <2>2. CASE WakeCheck(r)
      BY <2>2, QuietStep
      DEF WakeCheck, Locations, Waiting, Loading, Returned, IInv, TypeOK
    <2>3. CASE \E answer \in BOOLEAN : Query(r, answer)
      <3>1. Goto(r, "query", "confirm") \/ Goto(r, "query", "mark")
        BY <2>3 DEF Query
      <3> QED BY <2>3, <3>1, QuietStep
              DEF Query, Locations, Waiting, Loading, IInv, TypeOK
    <2>4. CASE Confirm(r)
      <3>1. loadedModels' \subseteq Keys
        BY <2>0, <2>4 DEF Confirm, Goto, IInv, TypeOK
      <3> QED BY <2>4, <3>1, QuietStep
              DEF Confirm, Locations, Waiting, Loading, Returned
    <2>5. CASE MarkWarm(r)
      BY <2>5, QuietStep
      DEF MarkWarm, Locations, Waiting, Loading, Returned, IInv, TypeOK
    <2>6. CASE MarkCold(r)
      BY <2>6, QuietStep DEF MarkCold, Locations, Waiting, Loading, IInv, TypeOK
    <2>7. CASE \E podKnown \in BOOLEAN : Retract(r, podKnown)
      <3>1. Goto(r, "retract", "invalidate") \/ Goto(r, "retract", "gaveUp")
        BY <2>7 DEF Retract
      <3> QED BY <2>7, <3>1, QuietStep
              DEF Retract, Locations, Waiting, Loading, Returned, IInv, TypeOK
    <2>8. CASE Invalidate(r)
      BY <2>8, QuietStep
      DEF Invalidate, Locations, Waiting, Loading, Returned, IInv, TypeOK
    <2>9. CASE Join(r)
      <3>1. CASE Goto(r, "join", "waitLoad")
        <4>1. loadingModels[key[r]] # None
          BY <2>9, <3>1 DEF Join, Goto, IInv, TypeOK
        <4>2. /\ waitsOn' = [waitsOn EXCEPT ![r] = loadingModels[key[r]]]
              /\ UNCHANGED <<key, cancelled, loadedModels, loadingModels, result>>
          BY <2>9, <4>1 DEF Join
        <4> QED BY <3>1, <4>1, <4>2, WaitStep DEF Waiting
      <3>2. CASE /\ Goto(r, "join", "post")
                 /\ loadingModels[key[r]] = None
                 /\ loadingModels' = [loadingModels EXCEPT ![key[r]] = r]
                 /\ result' = [result EXCEPT ![r] = "pending"]
                 /\ UNCHANGED <<key, cancelled, loadedModels, waitsOn>>
        <4> USE <3>2 DEF IInv, Goto
        <4>1. key[r] \in Keys
          BY <2>0
        <4>2. TypeOK'
          BY <4>1 DEF TypeOK, Locations, Loading
        <4>3. /\ pc[r] = "join" /\ pc'[r] = "post" /\ result'[r] = "pending"
              /\ \A q \in Requests : q # r => pc'[q] = pc[q] /\ result'[q] = result[q]
          BY DEF TypeOK
        <4>4. ~ InFlight(r) /\ InFlight(r)'
          BY <4>3 DEF InFlight, Loading
        <4>5. \A q \in Requests : q # r => (InFlight(q)' <=> InFlight(q))
          BY <4>3 DEF InFlight
        <4>6. LoadingIsOwned'
          BY <4>1, <4>4, <4>5 DEF LoadingIsOwned, TypeOK
        <4>7. NoLostWaiter'
          BY <4>3, <4>4, <4>5 DEF NoLostWaiter, Waiting
        <4>8. LoadProgress'
          BY <4>1, <4>3, <4>4, <4>5 DEF LoadProgress, Waiting
        <4> QED BY <4>2, <4>6, <4>7, <4>8
      <3> QED BY <2>9, <3>1, <3>2 DEF Join
    <2>10. CASE WakeLoad(r)
      BY <2>10, QuietStep
      DEF WakeLoad, Locations, Waiting, Loading, Returned, IInv, TypeOK
    <2>11. CASE \E accepted \in BOOLEAN : Post(r, accepted)
      <3>1. Goto(r, "post", "await") \/ Goto(r, "post", "publishErr")
        BY <2>11 DEF Post
      <3> QED BY <2>11, <3>1, QuietStep
              DEF Post, Locations, Waiting, Loading, IInv, TypeOK
    <2>12. CASE AwaitLoaded(r)
      BY <2>12, QuietStep
      DEF AwaitLoaded, Locations, Waiting, Loading, IInv, TypeOK
    <2>13. CASE AwaitFails(r)
      BY <2>13, QuietStep
      DEF AwaitFails, Locations, Waiting, Loading, IInv, TypeOK
    <2>14. CASE Store(r)
      <3>1. loadedModels' \subseteq Keys
        BY <2>0, <2>14 DEF Store, Goto, IInv, TypeOK
      <3> QED BY <2>14, <3>1, QuietStep
              DEF Store, Locations, Waiting, Loading, Returned
    <2>15. CASE Publish(r)
      <3> USE <2>15 DEF IInv
      <3>1. PICK b \in {"served", "retract"}, v \in {"ok", "err"} :
              /\ pc[r] \in {"publishOk", "publishErr"}
              /\ pc' = [pc EXCEPT ![r] = b]
              /\ result' = [result EXCEPT ![r] = v]
        BY DEF Publish, Goto
      <3>2. key[r] \in Keys /\ InFlight(r)
        BY <2>0, <3>1 DEF InFlight, Loading
      <3>3. TypeOK'
        BY <3>1, <3>2 DEF Publish, TypeOK, Locations, Returned
      <3>4. /\ pc'[r] = b /\ result'[r] = v
            /\ \A q \in Requests : q # r => pc'[q] = pc[q] /\ result'[q] = result[q]
        BY <3>1 DEF TypeOK
      <3>5. ~ InFlight(r)'
        BY <3>4 DEF InFlight, Loading
      <3>6. \A q \in Requests : q # r => (InFlight(q)' <=> InFlight(q))
        BY <3>4 DEF InFlight
      <3>7. UNCHANGED <<key, waitsOn>>
        BY DEF Publish
      <3>8. LoadingIsOwned'
        BY <3>2, <3>5, <3>6, <3>7 DEF LoadingIsOwned, TypeOK, Publish
      <3>9. NoLostWaiter'
        BY <3>4, <3>6, <3>7 DEF NoLostWaiter, Waiting
      <3>10. LoadProgress'
        BY <3>1, <3>4, <3>5, <3>6, <3>7 DEF LoadProgress, Waiting, InFlight, Loading
      <3> QED BY <3>3, <3>8, <3>9, <3>10
    <2> QED
      BY <1>1, <2>1, <2>2, <2>3, <2>4, <2>5, <2>6, <2>7, <2>8, <2>9, <2>10,
         <2>11, <2>12, <2>13, <2>14, <2>15 DEF Step
  <1>2. ASSUME NEW r \in Requests, NEW k \in Keys, PreRequest(r, k) PROVE IInv'
    <2> USE <1>2 DEF IInv, PreRequest, Goto
    <2>1. TypeOK'
      BY DEF TypeOK, Locations
    <2>2. /\ pc[r] = "idle" /\ pc'[r] = "check" /\ key'[r] = k
          /\ \A q \in Requests : q # r => pc'[q] = pc[q] /\ key'[q] = key[q]
      BY DEF TypeOK
    <2>3. \A q \in Requests : InFlight(q)' <=> InFlight(q)
      BY <2>2 DEF InFlight, Loading
    <2>4. ~ InFlight(r) /\ result[r] = "none"
      BY <2>2 DEF InFlight, Loading, LoadProgress
    <2>5. LoadingIsOwned'
      BY <2>2, <2>3, <2>4 DEF LoadingIsOwned
    <2>6. NoLostWaiter'
      BY <2>2, <2>3, <2>4 DEF NoLostWaiter, Waiting
    <2>7. LoadProgress'
      BY <2>2, <2>3, <2>4 DEF LoadProgress
    <2> QED BY <2>1, <2>5, <2>6, <2>7
  <1>3. ASSUME NEW r \in Requests, Cancel(r) PROVE IInv'
    BY <1>3 DEF Cancel, IInv, TypeOK, LoadingIsOwned, NoLostWaiter, LoadProgress,
                InFlight
  <1>4. ASSUME NEW r \in Requests, Return(r) PROVE IInv'
    <2> USE <1>4 DEF IInv, Return
    <2>1. TypeOK'
      BY DEF TypeOK, Locations
    <2>2. /\ pc[r] \in Returned /\ pc'[r] = "idle" /\ result'[r] = "none"
          /\ \A q \in Requests : q # r => /\ pc'[q] = pc[q] /\ key'[q] = key[q]
                                          /\ result'[q] = result[q]
      BY DEF TypeOK
    <2>3. ~ InFlight(r) /\ ~ InFlight(r)'
      BY <2>2 DEF InFlight, Loading, Returned
    <2>4. \A q \in Requests : InFlight(q)' <=> InFlight(q)
      BY <2>2, <2>3 DEF InFlight
    <2>5. LoadingIsOwned'
      BY <2>2, <2>3, <2>4 DEF LoadingIsOwned
    <2>6. NoLostWaiter'
      BY <2>2, <2>4 DEF NoLostWaiter, Waiting
    <2>7. LoadProgress'
      BY <2>2, <2>4, <2>3 DEF LoadProgress
    <2> QED BY <2>1, <2>5, <2>6, <2>7
  <1>5. ASSUME NEW k \in Keys, InvalidateLoadedModel(k) PROVE IInv'
    BY <1>5 DEF InvalidateLoadedModel, IInv, TypeOK, LoadingIsOwned, NoLostWaiter,
                LoadProgress, InFlight
  <1>6. CASE ClearLoadedModelsCache
    BY <1>6 DEF ClearLoadedModelsCache, IInv, TypeOK, LoadingIsOwned, NoLostWaiter,
                LoadProgress, InFlight
  <1>7. CASE UNCHANGED vars
    BY <1>7 DEF vars, IInv, TypeOK, LoadingIsOwned, NoLostWaiter, LoadProgress,
                InFlight
  <1> QED BY <1>1, <1>2, <1>3, <1>4, <1>5, <1>6, <1>7 DEF Next, Environment

\* The invariant holds in every reachable state of the plugin.
THEOREM Invariance == Spec => []IInv
  BY InitIInv, NextIInv, PTL DEF Spec

\* The state of the plugin is well typed in every reachable state.
THEOREM TypeCorrect == Spec => []TypeOK
  <1>1. IInv => TypeOK
    BY DEF IInv
  <1> QED BY <1>1, Invariance, PTL

\* The entry of a load in flight is in the map, and nothing else is: cleanup of
\* one load never touches another, on success, on failure and on cancellation.
THEOREM LoadsAreOwned == Spec => []LoadingIsOwned
  <1>1. IInv => LoadingIsOwned
    BY DEF IInv
  <1> QED BY <1>1, Invariance, PTL

\* At most one load of a model on a pod is in flight, for any number of
\* concurrent calls: the loads in flight are entries of a map, one per key.
THEOREM OneLoadPerKey == Spec => []SingleFlight
  <1>1. IInv => SingleFlight
    <2> SUFFICES ASSUME IInv, NEW r \in Requests, NEW q \in Requests,
                        InFlight(r), InFlight(q), key[r] = key[q]
                 PROVE  r = q
      BY DEF SingleFlight
    <2>1. key[r] \in Keys
      BY DEF IInv, LoadProgress, InFlight, Loading
    <2>2. loadingModels[key[r]] = r /\ loadingModels[key[r]] = q
      BY <2>1 DEF IInv, LoadingIsOwned
    <2> QED BY <2>2
  <1> QED BY <1>1, Invariance, PTL

\* No waiting call is ever forgotten by the load it waits for.
THEOREM WaitersAreServed == Spec => []NoLostWaiter
  <1>1. IInv => NoLostWaiter
    BY DEF IInv
  <1> QED BY <1>1, Invariance, PTL

=============================================================================
