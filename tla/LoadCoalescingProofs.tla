------------------------ MODULE LoadCoalescingProofs ------------------------
(***************************************************************************)
(* Proof that ModelLoader implements CoalescedLoads, for any number of     *)
(* calls, pods and models.  The inductive invariant of ModelLoaderProofs   *)
(* is what makes the map of loads, the results and the selects amount to   *)
(* one atomic announcement per load.                                       *)
(***************************************************************************)
EXTENDS LoadCoalescing, ModelLoaderProofs

\* The stage of a call as a function of its location and of what it waits for.
LEMMA StageOf ==
  ASSUME NEW r \in Requests
  PROVE  /\ pc[r] = "idle" => Stage(r) = "out"
         /\ pc[r] \in Loading => Stage(r) = "leading"
         /\ pc[r] \in Waiting => Stage(r) = IF result[waitsOn[r]] = "ok" THEN "toldOk"
                                       ELSE IF result[waitsOn[r]] = "err" THEN "toldErr"
                                       ELSE "following"
         /\ pc[r] = "served" => Stage(r) = "served"
         /\ pc[r] \in {"retract", "invalidate", "gaveUp"} => Stage(r) = "failed"
         /\ pc[r] \in {"check", "markWarm", "query", "confirm", "mark", "join"} =>
                Stage(r) = "in"
  BY DEF Stage, Loading, Waiting

\* The same in the next state.
LEMMA StageOfNext ==
  ASSUME NEW r \in Requests
  PROVE  /\ pc'[r] = "idle" => Stage(r)' = "out"
         /\ pc'[r] \in Loading => Stage(r)' = "leading"
         /\ pc'[r] \in Waiting => Stage(r)' = IF result'[waitsOn'[r]] = "ok" THEN "toldOk"
                                       ELSE IF result'[waitsOn'[r]] = "err" THEN "toldErr"
                                       ELSE "following"
         /\ pc'[r] = "served" => Stage(r)' = "served"
         /\ pc'[r] \in {"retract", "invalidate", "gaveUp"} => Stage(r)' = "failed"
         /\ pc'[r] \in {"check", "markWarm", "query", "confirm", "mark", "join"} =>
                Stage(r)' = "in"
  BY DEF Stage, Loading, Waiting

\* A call leads exactly while its load is in flight, so the map of loads has no
\* entry for a key exactly when the key has no leader.
LEMMA LeadersAreInFlight ==
  ASSUME IInv, NEW k \in Keys
  PROVE  Coalesced!Leaders(k) = {} <=> loadingModels[k] = None
  <1>1. \A r \in Requests : Stage(r) = "leading" <=> InFlight(r)
    BY StageOf DEF IInv, TypeOK, InFlight, Locations, Loading, Waiting, Returned
  <1>2. Coalesced!Leaders(k) = {r \in Requests : InFlight(r) /\ key[r] = k}
    BY <1>1 DEF Coalesced!Leaders
  <1>3. Coalesced!Leaders(k) = {r \in Requests : loadingModels[k] = r}
    BY <1>2 DEF IInv, LoadingIsOwned
  <1> QED BY <1>3, NoneAssumption DEF IInv, TypeOK

\* A step of one call that publishes nothing changes the stage of no other call.
LEMMA OneMoves ==
  ASSUME IInv, NEW r \in Requests, NEW b, pc' = [pc EXCEPT ![r] = b],
         UNCHANGED <<key, result>>,
         \A q \in Requests \ {r} : waitsOn'[q] = waitsOn[q]
  PROVE  /\ pc'[r] = b
         /\ [q \in Requests |-> Stage(q)]' =
              [[q \in Requests |-> Stage(q)] EXCEPT ![r] = Stage(r)']
  <1>1. /\ pc'[r] = b
        /\ \A q \in Requests \ {r} : pc'[q] = pc[q]
    BY DEF IInv, TypeOK
  <1>2. \A q \in Requests \ {r} : Stage(q)' = Stage(q)
    BY <1>1 DEF Stage
  <1> QED BY <1>1, <1>2

\* The plugin starts without calls.
LEMMA InitMaps == Init => Coalesced!Init
  BY StageOf DEF Init, Coalesced!Init

\* Such a step is a move of the call between two stages, or invisible.
LEMMA MoveMaps ==
  ASSUME IInv, NEW r \in Requests, NEW b, pc' = [pc EXCEPT ![r] = b],
         UNCHANGED <<key, result>>,
         \A q \in Requests \ {r} : waitsOn'[q] = waitsOn[q],
         NEW s, Stage(r) = s, NEW t, Stage(r)' = t
  PROVE  /\ Coalesced!Move(r, s, t)
         /\ s = t => UNCHANGED Coalesced!vars
  BY OneMoves DEF Coalesced!Move, Coalesced!vars

\* A call between its entry and its load or its answer, before and after.
LEMMA QuietMaps ==
  ASSUME IInv, NEW r \in Requests, NEW a, NEW b, Goto(r, a, b),
         UNCHANGED <<key, result, waitsOn>>,
         \/ /\ a \in {"check", "markWarm", "query", "confirm", "mark", "join"}
            /\ b \in {"check", "markWarm", "query", "confirm", "mark", "join"}
         \/ a \in Loading /\ b \in Loading
         \/ /\ a \in {"retract", "invalidate", "gaveUp"}
            /\ b \in {"retract", "invalidate", "gaveUp"}
  PROVE  UNCHANGED Coalesced!vars
  <1>1. pc[r] = a /\ pc'[r] = b /\ pc' = [pc EXCEPT ![r] = b]
    BY DEF Goto, IInv, TypeOK
  <1>2. Stage(r)' = Stage(r)
    BY <1>1, StageOf, StageOfNext
  <1> QED BY <1>1, <1>2, MoveMaps

\* A call that begins to wait follows the load in flight for its key.
LEMMA FollowMaps ==
  ASSUME IInv, NEW r \in Requests, NEW a \in {"check", "join"}, NEW b \in Waiting,
         Goto(r, a, b), UNCHANGED <<key, result>>,
         loadingModels[key[r]] # None,
         waitsOn' = [waitsOn EXCEPT ![r] = loadingModels[key[r]]]
  PROVE  Coalesced!Follow(r)
  <1>1. pc[r] = a /\ pc'[r] = b /\ pc' = [pc EXCEPT ![r] = b]
    BY DEF Goto, IInv, TypeOK
  <1>2. key[r] \in Keys
    BY <1>1 DEF IInv, LoadProgress
  <1>3. PICK w \in Requests : loadingModels[key[r]] = w
    BY <1>2 DEF IInv, TypeOK
  <1>4. InFlight(w)
    BY <1>2, <1>3 DEF IInv, LoadingIsOwned
  <1>5. waitsOn'[r] = w /\ result'[w] = "pending"
    BY <1>3, <1>4 DEF IInv, TypeOK, LoadProgress
  <1>6. Stage(r) = "in" /\ Stage(r)' = "following"
    BY <1>1, <1>5, StageOf, StageOfNext
  <1>7. \A q \in Requests \ {r} : waitsOn'[q] = waitsOn[q]
    BY DEF IInv, TypeOK
  <1>8. Coalesced!Move(r, "in", "following")
    BY <1>1, <1>6, <1>7, MoveMaps
  <1> QED BY <1>2, <1>8, LeadersAreInFlight DEF Coalesced!Follow

\* The call that registers a load leads it.
LEMMA LeadMaps ==
  ASSUME IInv, NEW r \in Requests, Goto(r, "join", "post"),
         loadingModels[key[r]] = None,
         result' = [result EXCEPT ![r] = "pending"],
         UNCHANGED <<key, waitsOn>>
  PROVE  Coalesced!Lead(r)
  <1>1. /\ pc[r] = "join" /\ pc'[r] = "post"
        /\ \A q \in Requests \ {r} : pc'[q] = pc[q] /\ result'[q] = result[q]
    BY DEF Goto, IInv, TypeOK
  <1>2. key[r] \in Keys /\ result[r] = "none"
    BY <1>1 DEF IInv, LoadProgress
  <1>3. Stage(r) = "in" /\ Stage(r)' = "leading"
    BY <1>1, StageOf, StageOfNext DEF Loading
  <1>4. \A q \in Requests : pc[q] \in Waiting => waitsOn[q] \in Requests \ {r}
    BY <1>1, <1>2 DEF IInv, NoLostWaiter, InFlight, Loading
  <1>5. \A q \in Requests \ {r} : Stage(q)' = Stage(q)
    BY <1>1, <1>4 DEF Stage
  <1>6. Coalesced!Move(r, "in", "leading")
    BY <1>3, <1>5 DEF Coalesced!Move
  <1> QED BY <1>2, <1>6, LeadersAreInFlight DEF Coalesced!Lead

\* Storing the outcome tells exactly the followers of this load's key: whoever
\* waits for this load has its key, and whoever has its key and has not been
\* told yet waits for this load.
LEMMA LandMaps ==
  ASSUME IInv, NEW r \in Requests, NEW ok \in BOOLEAN,
         Goto(r, IF ok THEN "publishOk" ELSE "publishErr",
                 IF ok THEN "served" ELSE "retract"),
         result' = [result EXCEPT ![r] = IF ok THEN "ok" ELSE "err"],
         UNCHANGED <<key, waitsOn>>
  PROVE  Coalesced!Land(r, ok)
  <1>1. /\ pc[r] \in Loading /\ pc'[r] = IF ok THEN "served" ELSE "retract"
        /\ \A q \in Requests \ {r} : pc'[q] = pc[q] /\ result'[q] = result[q]
        /\ result'[r] = IF ok THEN "ok" ELSE "err"
    BY DEF Goto, IInv, TypeOK, Loading
  <1>2. key[r] \in Keys /\ result[r] = "pending" /\ loadingModels[key[r]] = r
    BY <1>1 DEF IInv, LoadProgress, LoadingIsOwned, InFlight, Loading
  <1>3. Stage(r) = "leading" /\ Stage(r)' = IF ok THEN "served" ELSE "failed"
    BY <1>1, StageOf, StageOfNext
  <1>4. ASSUME NEW q \in Requests \ {r}
        PROVE  Stage(q)' = IF Stage(q) = "following" /\ key[q] = key[r]
                             THEN IF ok THEN "toldOk" ELSE "toldErr"
                             ELSE Stage(q)
    <2>1. CASE pc[q] \in Waiting
      <3>1. /\ waitsOn[q] \in Requests /\ key[waitsOn[q]] = key[q]
            /\ InFlight(waitsOn[q]) \/ result[waitsOn[q]] \in {"ok", "err"}
        BY <2>1 DEF IInv, NoLostWaiter
      <3>2. CASE waitsOn[q] = r
        <4>1. Stage(q) = "following" /\ key[q] = key[r]
          BY <1>2, <2>1, <3>1, <3>2, StageOf
        <4>2. Stage(q)' = IF ok THEN "toldOk" ELSE "toldErr"
          BY <1>1, <2>1, <3>2, StageOfNext
        <4> QED BY <4>1, <4>2
      <3>3. CASE waitsOn[q] # r
        <4>1. Stage(q)' = Stage(q)
          BY <1>1, <2>1, <3>1, <3>3, StageOf, StageOfNext
        <4>2. Stage(q) = "following" => InFlight(waitsOn[q])
          BY <2>1, <3>1, StageOf
        <4>3. InFlight(waitsOn[q]) => key[q] # key[r]
          BY <1>2, <3>1, <3>3 DEF IInv, LoadingIsOwned
        <4> QED BY <4>1, <4>2, <4>3
      <3> QED BY <3>2, <3>3
    <2>2. CASE pc[q] \notin Waiting
      <3>1. Stage(q)' = Stage(q) /\ Stage(q) # "following"
        BY <1>1, <2>2 DEF Stage
      <3> QED BY <3>1
    <2> QED BY <2>1, <2>2
  <1> QED BY <1>3, <1>4 DEF Coalesced!Land

\* A call that stops waiting acts on what it was told, or gives up.
LEMMA WakeMaps ==
  ASSUME IInv, NEW r \in Requests, WakeCheck(r) \/ WakeLoad(r)
  PROVE  Coalesced!Heed(r) \/ Coalesced!GiveUp(r)
  <1>0. PICK b \in {"served", "query", "gaveUp", "retract"} :
          /\ pc[r] \in Waiting /\ pc' = [pc EXCEPT ![r] = b]
          /\ \/ b = "served" /\ result[waitsOn[r]] = "ok"
             \/ b \in {"query", "retract"} /\ result[waitsOn[r]] = "err"
             \/ b \in {"gaveUp", "retract"}
    BY DEF WakeCheck, WakeLoad, Goto, Waiting
  <1>1. pc'[r] = b
    BY <1>0 DEF IInv, TypeOK
  <1>2. UNCHANGED <<key, result>> /\ \A q \in Requests \ {r} : waitsOn'[q] = waitsOn[q]
    BY DEF WakeCheck, WakeLoad, IInv, TypeOK
  <1>3. Coalesced!Move(r, Stage(r), Stage(r)')
    BY <1>0, <1>2, MoveMaps
  <1>4. Stage(r) = IF result[waitsOn[r]] = "ok" THEN "toldOk"
                   ELSE IF result[waitsOn[r]] = "err" THEN "toldErr"
                   ELSE "following"
    BY <1>0, StageOf
  <1>5. Stage(r)' = CASE b = "served" -> "served"
                      [] b = "query" -> "in"
                      [] b \in {"gaveUp", "retract"} -> "failed"
    BY <1>1, StageOfNext
  <1>6. CASE b = "served" /\ result[waitsOn[r]] = "ok"
    BY <1>3, <1>4, <1>5, <1>6 DEF Coalesced!Heed
  <1>7. CASE b \in {"query", "retract"} /\ result[waitsOn[r]] = "err"
    BY <1>3, <1>4, <1>5, <1>7 DEF Coalesced!Heed
  <1>8. CASE b \in {"gaveUp", "retract"}
    BY <1>3, <1>4, <1>5, <1>8 DEF Coalesced!GiveUp
  <1> QED BY <1>0, <1>6, <1>7, <1>8

\* A call arrives.
LEMMA EnterMaps ==
  ASSUME IInv, NEW r \in Requests, NEW k \in Keys, PreRequest(r, k)
  PROVE  Coalesced!Enter(r, k)
  <1>1. /\ pc[r] = "idle" /\ pc'[r] = "check"
        /\ \A q \in Requests \ {r} : pc'[q] = pc[q]
        /\ UNCHANGED <<result, waitsOn>> /\ key' = [key EXCEPT ![r] = k]
    BY DEF PreRequest, Goto, IInv, TypeOK
  <1>2. Stage(r) = "out" /\ Stage(r)' = "in"
    BY <1>1, StageOf, StageOfNext
  <1>3. \A q \in Requests \ {r} : Stage(q)' = Stage(q)
    BY <1>1 DEF Stage
  <1> QED BY <1>1, <1>2, <1>3 DEF Coalesced!Enter

\* A call is over.  Nobody refers to its loadResult any more.
LEMMA LeaveMaps ==
  ASSUME IInv, NEW r \in Requests, Return(r)
  PROVE  Coalesced!Leave(r)
  <1>1. /\ pc[r] \in {"served", "gaveUp"} /\ pc'[r] = "idle"
        /\ \A q \in Requests \ {r} : pc'[q] = pc[q] /\ result'[q] = result[q]
        /\ UNCHANGED waitsOn /\ key' = [key EXCEPT ![r] = None]
    BY DEF Return, Returned, IInv, TypeOK
  <1>2. Stage(r) \in {"served", "failed"} /\ Stage(r)' = "out"
    BY <1>1, StageOf, StageOfNext
  <1>3. \A q \in Requests : pc[q] \in Waiting => waitsOn[q] \in Requests \ {r}
    BY DEF Return, IInv, NoLostWaiter
  <1>4. \A q \in Requests \ {r} : Stage(q)' = Stage(q)
    BY <1>1, <1>3 DEF Stage
  <1> QED BY <1>1, <1>2, <1>4 DEF Coalesced!Leave

\* A step that moves no call and publishes nothing is invisible.
LEMMA NoneMoves ==
  ASSUME UNCHANGED <<pc, key, result, waitsOn>>
  PROVE  UNCHANGED Coalesced!vars
  <1>1. \A q \in Requests : Stage(q)' = Stage(q)
    BY DEF Stage
  <1> QED BY <1>1 DEF Coalesced!vars

\* Every step of the plugin is a step of the abstract specification or invisible.
LEMMA StepMaps == IInv /\ [Next]_vars => [Coalesced!Next]_(Coalesced!vars)
  <1> SUFFICES ASSUME IInv, [Next]_vars
               PROVE  Coalesced!Next \/ UNCHANGED Coalesced!vars
    OBVIOUS
  <1> USE DEF Coalesced!Next
  <1>1. ASSUME NEW r \in Requests, Step(r)
        PROVE  Coalesced!Next \/ UNCHANGED Coalesced!vars
    <2>1. CASE HandleAlreadyLoadedOrLoading(r)
      <3>1. CASE CheckLoaded(r)
        BY <3>1, QuietMaps DEF CheckLoaded
      <3>2. CASE CheckLoading(r)
        <4>1. Coalesced!Follow(r)
          BY <3>2, FollowMaps DEF CheckLoading, Waiting
        <4> QED BY <4>1
      <3>3. CASE CheckNeither(r)
        BY <3>3, QuietMaps DEF CheckNeither
      <3> QED BY <2>1, <3>1, <3>2, <3>3 DEF HandleAlreadyLoadedOrLoading
    <2>2. CASE WakeCheck(r) \/ WakeLoad(r)
      BY <2>2, WakeMaps
    <2>3. CASE \E answer \in BOOLEAN : Query(r, answer)
      <3>1. Goto(r, "query", "confirm") \/ Goto(r, "query", "mark")
        BY <2>3 DEF Query
      <3> QED BY <2>3, <3>1, QuietMaps DEF Query
    <2>4. CASE Confirm(r)
      BY <2>4, QuietMaps DEF Confirm
    <2>5. CASE MarkWarm(r)
      <3>1. pc[r] = "markWarm" /\ pc' = [pc EXCEPT ![r] = "served"] /\ pc'[r] = "served"
        BY <2>5 DEF MarkWarm, Goto, IInv, TypeOK
      <3>2. Stage(r) = "in" /\ Stage(r)' = "served"
        BY <3>1, StageOf, StageOfNext
      <3>3. Coalesced!Hit(r)
        BY <2>5, <3>1, <3>2, MoveMaps DEF MarkWarm, Coalesced!Hit
      <3> QED BY <3>3
    <2>6. CASE MarkCold(r)
      BY <2>6, QuietMaps DEF MarkCold
    <2>7. CASE \E podKnown \in BOOLEAN : Retract(r, podKnown)
      <3>1. Goto(r, "retract", "invalidate") \/ Goto(r, "retract", "gaveUp")
        BY <2>7 DEF Retract
      <3> QED BY <2>7, <3>1, QuietMaps DEF Retract
    <2>8. CASE Invalidate(r)
      BY <2>8, QuietMaps DEF Invalidate
    <2>9. CASE Join(r)
      <3>1. CASE Goto(r, "join", "waitLoad")
        <4>1. Coalesced!Follow(r)
          BY <2>9, <3>1, FollowMaps DEF Join, Waiting, Goto, IInv, TypeOK
        <4> QED BY <4>1
      <3>2. CASE Goto(r, "join", "post")
        <4>1. Coalesced!Lead(r)
          BY <2>9, <3>2, LeadMaps DEF Join, Goto, IInv, TypeOK
        <4> QED BY <4>1
      <3> QED BY <2>9, <3>1, <3>2 DEF Join
    <2>10. CASE \E accepted \in BOOLEAN : Post(r, accepted)
      <3>1. Goto(r, "post", "await") \/ Goto(r, "post", "publishErr")
        BY <2>10 DEF Post
      <3> QED BY <2>10, <3>1, QuietMaps DEF Post, Loading
    <2>11. CASE AwaitLoaded(r) \/ AwaitFails(r) \/ Store(r)
      BY <2>11, QuietMaps DEF AwaitLoaded, AwaitFails, Store, Loading
    <2>12. CASE Publish(r)
      <3>1. UNCHANGED <<key, waitsOn>>
        BY <2>12 DEF Publish
      <3>2. CASE Goto(r, "publishOk", "served") /\ result' = [result EXCEPT ![r] = "ok"]
        <4>1. Coalesced!Land(r, TRUE)
          BY <3>1, <3>2, LandMaps
        <4> QED BY <4>1
      <3>3. CASE Goto(r, "publishErr", "retract") /\ result' = [result EXCEPT ![r] = "err"]
        <4>1. Coalesced!Land(r, FALSE)
          BY <3>1, <3>3, LandMaps
        <4> QED BY <4>1
      <3> QED BY <2>12, <3>2, <3>3 DEF Publish
    <2> QED BY <1>1, <2>1, <2>2, <2>3, <2>4, <2>5, <2>6, <2>7, <2>8, <2>9, <2>10,
               <2>11, <2>12 DEF Step
  <1>2. CASE \E r \in Requests : \E k \in Keys : PreRequest(r, k)
    BY <1>2, EnterMaps
  <1>3. CASE \E r \in Requests : Return(r)
    BY <1>3, LeaveMaps
  <1>4. CASE \/ \E r \in Requests : Cancel(r)
             \/ \E k \in Keys : InvalidateLoadedModel(k)
             \/ ClearLoadedModelsCache
             \/ UNCHANGED vars
    BY <1>4, NoneMoves
    DEF Cancel, InvalidateLoadedModel, ClearLoadedModelsCache, vars
  <1> QED BY <1>1, <1>2, <1>3, <1>4 DEF Next, Environment

\* loader.go coalesces concurrent loads, for any number of calls, pods and models:
\* every behaviour of the plugin is, seen through its calls' stages, one in which
\* at most one call leads the load of a key, and all that follow it are told
\* its outcome at the same instant and act on nothing else.
THEOREM LoaderImplementsCoalescing == Spec => ImplementsCoalescing
  <1>1. Init => Coalesced!Init
    BY InitMaps
  <1>2. IInv /\ [Next]_vars => [Coalesced!Next]_(Coalesced!vars)
    BY StepMaps
  <1>3. Spec => []IInv
    BY InitIInv, NextIInv, PTL DEF Spec
  <1> QED BY <1>1, <1>2, <1>3, PTL DEF Spec, ImplementsCoalescing, Coalesced!Spec

=============================================================================
