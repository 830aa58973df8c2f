---------------------------- MODULE RouterProofs ----------------------------
(***************************************************************************)
(* Proofs about Router for any number of replicas, requests and models,    *)
(* with crashes, cancelled calls, and requests to the API server that fail *)
(* or arrive late.  First the types and the registrations of the calls;    *)
(* then, provided that every replica knows its pod name, the leases: at    *)
(* most one call at a time loads a model, as long as no late Delete takes  *)
(* its lease away.  Exclusion rests on two locks together: the lease       *)
(* admits one replica, loadingModels one call of that replica.  And a      *)
(* lease that nobody holds was left behind by a crash or a failed exchange.*)
(***************************************************************************)
EXTENDS LeaseHistory, TLAPS

\* What a call asks of the API server is a request for a lease.
LEMMA RequestsAreTyped ==
  ASSUME RInv, NEW r \in Requests, pc[r] # "idle"
  PROVE  /\ model[r] \in Models /\ Me(r) \in Holders
         /\ Asks(r, Me(r)) \in LeaseRequests /\ Asks(r, None) \in LeaseRequests
  BY DEF RInv, HasTarget, Me, ReplicaName, Holders, Asks, LeaseRequests

\* An exchange keeps the types, whether it is answered or not.
LEMMA ExchangeTypes ==
  ASSUME RInv, NEW m \in Models, NEW holder \in Holders,
         NEW r \in Requests, Asks(r, holder) \in LeaseRequests,
         (Apply(m, holder) /\ UNCHANGED late) \/ Unanswered(r, holder)
  PROVE  /\ lease' \in [Models -> Holders]
         /\ late' \in [Connections -> LeaseRequests \union {None}]
  BY DEF RInv, TypeOK, Apply, Unanswered

\* No call and no registration: the invariant holds initially.
LEMMA InitRInv == Init => RInv
  BY RouterAssumption
  DEF Init, RInv, TypeOK, HasTarget, LoadingIsOwned, Holders, Locations,
      Primary, Holding, Returned

\* A step of one call that touches no registration and stays registered or
\* unregistered.
LEMMA QuietStep ==
  ASSUME RInv, NEW r \in Requests, NEW a \in Locations, NEW b \in Locations,
         Goto(r, a, b), a # "idle",
         a \in Primary <=> b \in Primary,
         UNCHANGED <<at, model, cancelled, loading, found>>,
         models' \in [Replicas -> SUBSET Models],
         done' \in [Requests -> {"none", "empty", "ok", "err", "taken"}],
         waitsOn' \in [Requests -> Requests \union {None}],
         lease' \in [Models -> Holders],
         late' \in [Connections -> LeaseRequests \union {None}]
  PROVE  RInv'
  <1> USE DEF RInv
  <1>1. TypeOK'
    BY DEF TypeOK, Goto
  <1>2. /\ pc'[r] = b /\ pc[r] = a
        /\ \A q \in Requests : q # r => pc'[q] = pc[q]
    BY DEF TypeOK, Goto
  <1>3. HasTarget'
    BY <1>2 DEF HasTarget
  <1>4. LoadingIsOwned'
    BY <1>2 DEF LoadingIsOwned
  <1> QED BY <1>1, <1>3, <1>4

\* Every step of a call preserves the invariant.
LEMMA StepRInv ==
  ASSUME RInv, NEW r \in Requests, Step(r)
  PROVE  RInv'
  <1> USE RouterAssumption
  <1> DEFINE Types == /\ models \in [Replicas -> SUBSET Models]
                      /\ done \in [Requests -> {"none", "empty", "ok", "err", "taken"}]
                      /\ waitsOn \in [Requests -> Requests \union {None}]
                      /\ lease \in [Models -> Holders]
                      /\ late \in [Connections -> LeaseRequests \union {None}]
  <1>0. Types /\ pc[r] \in Locations
    BY DEF RInv, TypeOK
  <1>1. CASE Lookup(r)
    <2>1. Goto(r, "lookup", "served") \/ Goto(r, "lookup", "join")
      BY <1>1 DEF Lookup
    <2> QED BY <1>0, <1>1, <2>1, QuietStep
            DEF Lookup, callVars, Locations, Primary, Holding, Returned
  <1>2. CASE Join(r)
    <2>1. CASE Goto(r, "join", "wait")
      <3>1. loading[at[r]][model[r]] # None /\ pc[r] = "join"
        BY <1>2, <2>1 DEF Join, Goto, RInv, TypeOK
      <3>2. /\ waitsOn' = [waitsOn EXCEPT ![r] = loading[at[r]][model[r]]]
            /\ UNCHANGED <<callVars, models, loading, done, lease, late, found>>
        BY <1>2, <3>1 DEF Join
      <3>3. loading[at[r]][model[r]] \in Requests
        BY <3>1 DEF RInv, TypeOK, HasTarget
      <3>4. waitsOn' \in [Requests -> Requests \union {None}]
        BY <1>0, <3>2, <3>3
      <3> QED BY <1>0, <2>1, <3>2, <3>4, QuietStep
              DEF callVars, Locations, Primary, Holding
    <2>2. CASE /\ Goto(r, "join", "create")
               /\ loading[at[r]][model[r]] = None
               /\ loading' = [loading EXCEPT ![at[r]][model[r]] = r]
               /\ done' = [done EXCEPT ![r] = "empty"]
               /\ UNCHANGED <<callVars, models, waitsOn, lease, late, found>>
      <3> USE <2>2 DEF RInv
      <3>1. /\ pc[r] = "join" /\ at[r] \in Replicas /\ model[r] \in Models
            /\ UNCHANGED <<at, model, cancelled>>
        BY DEF Goto, HasTarget, callVars
      <3>2. /\ pc'[r] = "create"
            /\ \A q \in Requests : q # r => pc'[q] = pc[q]
        BY DEF Goto, TypeOK
      <3>3. /\ loading' \in [Replicas -> [Models -> Requests \union {None}]]
            /\ loading'[at[r]][model[r]] = r
            /\ \A x \in Replicas, m \in Models :
                 x # at[r] \/ m # model[r] => loading'[x][m] = loading[x][m]
        BY <3>1 DEF TypeOK
      <3>4. TypeOK'
        BY <3>1, <3>3 DEF TypeOK, Goto, Locations, Primary
      <3>5. HasTarget'
        BY <3>1, <3>2 DEF HasTarget
      <3>6. LoadingIsOwned'
        <4> SUFFICES ASSUME NEW x \in Replicas, NEW m \in Models, NEW q \in Requests
                     PROVE  loading'[x][m] = q <=>
                              pc'[q] \in Primary /\ at[q] = x /\ model[q] = m
          BY <3>1 DEF LoadingIsOwned
        <4>1. loading[x][m] = q <=> pc[q] \in Primary /\ at[q] = x /\ model[q] = m
          BY DEF LoadingIsOwned
        <4>2. "create" \in Primary /\ "join" \notin Primary
          BY DEF Primary, Holding
        <4>3. CASE x = at[r] /\ m = model[r]
          BY <3>1, <3>2, <3>3, <4>1, <4>2, <4>3
        <4>4. CASE x # at[r] \/ m # model[r]
          BY <3>1, <3>2, <3>3, <4>1, <4>2, <4>4
        <4> QED BY <4>3, <4>4
      <3> QED BY <3>4, <3>5, <3>6
    <2> QED BY <1>2, <2>1, <2>2 DEF Join
  <1>3. CASE Receive(r)
    <2>1. /\ Goto(r, "wait", "recheck") \/ Goto(r, "wait", "failed")
          /\ UNCHANGED <<callVars, models, loading, lease, late, found>>
          /\ done' = [done EXCEPT ![waitsOn[r]] = "taken"]
          /\ waitsOn' = [waitsOn EXCEPT ![r] = None]
      BY <1>3 DEF Receive
    <2>2. /\ done' \in [Requests -> {"none", "empty", "ok", "err", "taken"}]
          /\ waitsOn' \in [Requests -> Requests \union {None}]
      BY <1>0, <2>1
    <2> QED BY <1>0, <2>1, <2>2, QuietStep
            DEF callVars, Locations, Primary, Holding, Returned
  <1>4. CASE StopWaiting(r)
    <2>1. waitsOn' \in [Requests -> Requests \union {None}]
      BY <1>0, <1>4 DEF StopWaiting
    <2> QED BY <1>0, <1>4, <2>1, QuietStep
            DEF StopWaiting, callVars, Locations, Primary, Holding, Returned
  <1>5. CASE Recheck(r)
    <2>1. Goto(r, "recheck", "served") \/ Goto(r, "recheck", "failed")
      BY <1>5 DEF Recheck
    <2> QED BY <1>0, <1>5, <2>1, QuietStep
            DEF Recheck, callVars, Locations, Primary, Holding, Returned
  <1>6. CASE Signal(r)
    <2>1. done' \in [Requests -> {"none", "empty", "ok", "err", "taken"}]
      BY <1>0, <1>6 DEF Signal
    <2>2. UNCHANGED <<callVars, models, loading, waitsOn, lease, late, found>>
      BY <1>6 DEF Signal
    <2>3. \/ Goto(r, "signalLeaseErr", "cleanupErr")
          \/ Goto(r, "signalLoadErr", "releaseErr")
          \/ Goto(r, "signalOk", "releaseOk")
      BY <1>6 DEF Signal
    <2> QED BY <1>0, <2>1, <2>2, <2>3, QuietStep
            DEF callVars, Locations, Primary, Holding
  <1>7. CASE Cleanup(r)
    <2> USE <1>7 DEF RInv
    <2>1. PICK b \in Returned :
            /\ pc[r] \in {"cleanupOk", "cleanupErr"}
            /\ pc' = [pc EXCEPT ![r] = b]
      BY DEF Cleanup, Goto, Returned
    <2>2. /\ UNCHANGED <<at, model, cancelled, models, done, waitsOn, lease, late, found>>
          /\ loading' = [loading EXCEPT ![at[r]][model[r]] = None]
      BY DEF Cleanup, callVars
    <2>3. at[r] \in Replicas /\ model[r] \in Models
      BY <2>1 DEF HasTarget
    <2>4. /\ pc'[r] = b
          /\ \A q \in Requests : q # r => pc'[q] = pc[q]
      BY <2>1 DEF TypeOK
    <2>5. /\ loading' \in [Replicas -> [Models -> Requests \union {None}]]
          /\ loading'[at[r]][model[r]] = None
          /\ \A x \in Replicas, m \in Models :
               x # at[r] \/ m # model[r] => loading'[x][m] = loading[x][m]
      BY <2>2, <2>3 DEF TypeOK
    <2>6. TypeOK'
      BY <2>1, <2>2, <2>5 DEF TypeOK, Locations
    <2>7. HasTarget'
      BY <2>1, <2>2, <2>3, <2>4 DEF HasTarget
    <2>8. LoadingIsOwned'
      <3> SUFFICES ASSUME NEW x \in Replicas, NEW m \in Models, NEW q \in Requests
                   PROVE  loading'[x][m] = q <=>
                            pc'[q] \in Primary /\ at[q] = x /\ model[q] = m
        BY <2>2 DEF LoadingIsOwned
      <3>1. loading[x][m] = q <=> pc[q] \in Primary /\ at[q] = x /\ model[q] = m
        BY DEF LoadingIsOwned
      <3>2. pc[r] \in Primary /\ b \notin Primary
        BY <2>1 DEF Primary, Holding, Returned
      <3>3. loading[at[r]][model[r]] = r
        BY <2>3, <3>2 DEF LoadingIsOwned
      <3>4. CASE x = at[r] /\ m = model[r]
        BY <2>4, <2>5, <3>1, <3>2, <3>3, <3>4
      <3>5. CASE x # at[r] \/ m # model[r]
        BY <2>4, <2>5, <3>1, <3>2, <3>5
      <3> QED BY <3>4, <3>5
    <2> QED BY <2>6, <2>7, <2>8
  <1>8. CASE \E ok \in BOOLEAN : CreateLease(r, ok)
    <2>1. /\ \/ Goto(r, "create", "load") \/ Goto(r, "create", "get")
             \/ Goto(r, "create", "signalLeaseErr")
          /\ UNCHANGED <<callVars, models, loading, done, waitsOn, found>>
          /\ (Apply(model[r], Me(r)) /\ UNCHANGED late) \/ Unanswered(r, Me(r))
      BY <1>8 DEF CreateLease
    <2>2. pc[r] # "idle"
      BY <2>1 DEF Goto
    <2>3. /\ lease' \in [Models -> Holders]
          /\ late' \in [Connections -> LeaseRequests \union {None}]
      BY <2>1, <2>2, RequestsAreTyped, ExchangeTypes
    <2> QED BY <1>0, <2>1, <2>3, QuietStep DEF callVars, Locations, Primary, Holding
  <1>9. CASE \E ok \in BOOLEAN : GetLease(r, ok)
    <2>1. Goto(r, "get", "load") \/ Goto(r, "get", "signalLeaseErr")
      BY <1>9 DEF GetLease
    <2>2. UNCHANGED <<callVars, models, loading, done, waitsOn, lease, late, found>>
      BY <1>9 DEF GetLease
    <2> QED BY <1>0, <2>1, <2>2, QuietStep DEF callVars, Locations, Primary, Holding
  <1>10. CASE \E ok \in BOOLEAN : LoadModelOnBestNode(r, ok)
    <2>1. Goto(r, "load", "record") \/ Goto(r, "load", "signalLoadErr")
      BY <1>10 DEF LoadModelOnBestNode
    <2>2. UNCHANGED <<callVars, models, loading, done, waitsOn, lease, late, found>>
      BY <1>10 DEF LoadModelOnBestNode
    <2> QED BY <1>0, <2>1, <2>2, QuietStep DEF callVars, Locations, Primary, Holding
  <1>11. CASE Record(r)
    <2>1. model[r] \in Models
      BY <1>11 DEF Record, Goto, RInv, HasTarget
    <2>2. models' \in [Replicas -> SUBSET Models]
      BY <1>0, <1>11, <2>1 DEF Record
    <2> QED BY <1>0, <1>11, <2>2, QuietStep
            DEF Record, callVars, Locations, Primary, Holding
  <1>12. CASE \E ok \in BOOLEAN : ReleaseLease(r, ok)
    <2>1. /\ Goto(r, "releaseOk", "cleanupOk") \/ Goto(r, "releaseErr", "cleanupErr")
          /\ UNCHANGED <<callVars, models, loading, done, waitsOn, found>>
          /\ (Apply(model[r], None) /\ UNCHANGED late) \/ Unanswered(r, None)
      BY <1>12 DEF ReleaseLease
    <2>2. pc[r] # "idle" /\ None \in Holders
      BY <2>1 DEF Goto, Holders
    <2>3. /\ lease' \in [Models -> Holders]
          /\ late' \in [Connections -> LeaseRequests \union {None}]
      BY <2>1, <2>2, RequestsAreTyped, ExchangeTypes
    <2> QED BY <1>0, <2>1, <2>3, QuietStep DEF callVars, Locations, Primary, Holding
  <1> QED BY <1>1, <1>2, <1>3, <1>4, <1>5, <1>6, <1>7, <1>8, <1>9, <1>10, <1>11,
             <1>12 DEF Step

\* So does the environment: new and finished calls, cancellations, crashes of a
\* replica and discovery.
LEMMA EnvironmentRInv ==
  ASSUME RInv, Environment
  PROVE  RInv'
  <1> USE RouterAssumption DEF RInv
  <1>1. ASSUME NEW r \in Requests, NEW x \in Replicas, NEW m \in Models,
               GetModelEndpoint(r, x, m)
        PROVE  RInv'
    <2> USE <1>1 DEF GetModelEndpoint, Goto
    <2>1. TypeOK'
      BY DEF TypeOK, Locations
    <2>2. /\ pc[r] = "idle" /\ pc'[r] = "lookup" /\ at'[r] = x /\ model'[r] = m
          /\ \A q \in Requests : q # r => /\ pc'[q] = pc[q] /\ at'[q] = at[q]
                                          /\ model'[q] = model[q]
      BY DEF TypeOK
    <2>3. HasTarget'
      BY <2>2 DEF HasTarget
    <2>4. LoadingIsOwned'
      BY <2>2 DEF LoadingIsOwned, Primary, Holding
    <2> QED BY <2>1, <2>3, <2>4
  <1>2. ASSUME NEW r \in Requests, Cancel(r) PROVE RInv'
    BY <1>2 DEF Cancel, TypeOK, HasTarget, LoadingIsOwned
  <1>3. ASSUME NEW r \in Requests, Return(r) PROVE RInv'
    <2> USE <1>3 DEF Return
    <2>1. TypeOK'
      BY DEF TypeOK, Locations
    <2>2. /\ pc[r] \in Returned /\ pc'[r] = "idle"
          /\ \A q \in Requests : q # r => /\ pc'[q] = pc[q] /\ at'[q] = at[q]
                                          /\ model'[q] = model[q]
      BY DEF TypeOK
    <2>3. HasTarget'
      BY <2>2 DEF HasTarget
    <2>4. LoadingIsOwned'
      BY <2>2 DEF LoadingIsOwned, Primary, Holding, Returned
    <2> QED BY <2>1, <2>3, <2>4
  <1>4. ASSUME NEW x \in Replicas, Crash(x) PROVE RInv'
    <2> USE <1>4 DEF Crash
    <2>0. Outstanding(x) \subseteq LeaseRequests
      BY RequestsAreTyped DEF Outstanding
    <2>1. TypeOK'
      <3>1. late' \in [Connections -> LeaseRequests \union {None}]
        BY <2>0 DEF TypeOK
      <3> QED BY <3>1 DEF TypeOK, Locations
    <2>2. \A q \in Requests :
            \/ at[q] = x /\ pc'[q] = "idle"
            \/ /\ at[q] # x /\ pc'[q] = pc[q] /\ at'[q] = at[q]
               /\ model'[q] = model[q]
      OBVIOUS
    <2>3. HasTarget'
      BY <2>2 DEF HasTarget
    <2>4. LoadingIsOwned'
      <3> SUFFICES ASSUME NEW y \in Replicas, NEW m \in Models, NEW q \in Requests
                   PROVE  loading'[y][m] = q <=>
                            pc'[q] \in Primary /\ at'[q] = y /\ model'[q] = m
        BY DEF LoadingIsOwned
      <3>1. loading[y][m] = q <=> pc[q] \in Primary /\ at[q] = y /\ model[q] = m
        BY DEF LoadingIsOwned
      <3>2. /\ y = x => loading'[y][m] = None
            /\ y # x => loading'[y][m] = loading[y][m]
        BY DEF TypeOK
      <3>3. "idle" \notin Primary
        BY DEF Primary, Holding
      <3> QED BY <2>2, <3>1, <3>2, <3>3
    <2> QED BY <2>1, <2>3, <2>4
  <1>5. ASSUME NEW x \in Replicas, NEW names \in SUBSET Models,
               Discover(x, names) \/ StoreWarmModels(x, names)
        PROVE  RInv'
    <2>1. /\ models' \in [Replicas -> SUBSET Models]
          /\ found' \subseteq Replicas \X SUBSET Models
      <3>1. CASE Discover(x, names)
        BY <3>1 DEF Discover, TypeOK, callVars
      <3>2. CASE StoreWarmModels(x, names)
        BY <3>2 DEF StoreWarmModels, TypeOK, callVars
      <3> QED BY <1>5, <3>1, <3>2
    <2>2. UNCHANGED <<pc, at, model, cancelled, loading, done, waitsOn, lease, late>>
      BY <1>5 DEF Discover, StoreWarmModels, callVars
    <2> QED BY <2>1, <2>2 DEF TypeOK, HasTarget, LoadingIsOwned
  <1>6. ASSUME NEW c \in Connections, Arrive(c) PROVE RInv'
    <2>1. late[c] \in LeaseRequests
      BY <1>6 DEF Arrive, TypeOK
    <2>2. late[c].model \in Models /\ late[c].holder \in Holders
      BY <2>1 DEF LeaseRequests
    <2>3. lease' \in [Models -> Holders]
      BY <1>6, <2>2 DEF Arrive, Apply, TypeOK
    <2>4. late' \in [Connections -> LeaseRequests \union {None}]
      BY <1>6 DEF Arrive, TypeOK
    <2> QED BY <1>6, <2>3, <2>4
            DEF Arrive, callVars, TypeOK, HasTarget, LoadingIsOwned
  <1> QED BY <1>1, <1>2, <1>3, <1>4, <1>5, <1>6 DEF Environment

\* The invariant holds in every reachable state, with or without pod names.
THEOREM RouterInvariance == Spec => []RInv
  <1>1. RInv /\ [Next]_vars => RInv'
    <2> SUFFICES ASSUME RInv, [Next]_vars PROVE RInv'
      OBVIOUS
    <2>1. CASE UNCHANGED vars
      BY <2>1 DEF vars, callVars, RInv, TypeOK, HasTarget, LoadingIsOwned
    <2> QED BY <2>1, StepRInv, EnvironmentRInv DEF Next
  <1> QED BY <1>1, InitRInv, PTL DEF Spec

\* Types, for any number of replicas, calls and models.
THEOREM RouterTypeCorrect == Spec => []TypeOK
  <1>1. RInv => TypeOK
    BY DEF RInv
  <1> QED BY <1>1, RouterInvariance, PTL

\* loadingModels of each replica holds exactly the calls that are loading there:
\* no way out of GetModelEndpoint leaves its registration behind.
THEOREM RegistrationsAreOwned == Spec => []LoadingIsOwned
  <1>1. RInv => LoadingIsOwned
    BY DEF RInv
  <1> QED BY <1>1, RouterInvariance, PTL

-----------------------------------------------------------------------------
(* The leases.  RInv supplies the types and the registrations. *)

\* LeaseHistory only adds variables to Router.
LEMMA HistoryInvariance == HSpec => []RInv
  <1>1. HInit => Init
    BY DEF HInit
  <1>2. [HNext]_<<vars, leaked, undercut>> => [Next]_vars
    BY DEF HNext
  <1> QED BY <1>1, <1>2, RouterInvariance, PTL DEF HSpec, Spec

\* A step of a call moves that call only, and changes the target of none.
LEMMA StepMovesOne ==
  ASSUME RInv, NEW r \in Requests, Step(r)
  PROVE  /\ model' = model /\ at' = at
         /\ \A q \in Requests \ {r} : pc'[q] = pc[q]
  <1> USE DEF Goto, callVars
  <1>1. model' = model /\ at' = at
    BY DEF Step, Lookup, Join, Receive, StopWaiting, Recheck, Signal, Cleanup,
           CreateLease, GetLease, LoadModelOnBestNode, Record, ReleaseLease
  <1>2. \E b : pc' = [pc EXCEPT ![r] = b]
    BY DEF Step, Lookup, Join, Receive, StopWaiting, Recheck, Signal, Cleanup,
           CreateLease, GetLease, LoadModelOnBestNode, Record, ReleaseLease
  <1> QED BY <1>1, <1>2 DEF RInv, TypeOK

\* With pod names, the holder written into a lease identifies the replica.
LEMMA NamesAreDistinct ==
  ASSUME PodNameSet, RInv, NEW r \in Requests, NEW q \in Requests,
         pc[r] # "idle", pc[q] # "idle"
  PROVE  /\ Me(r) = at[r] /\ Me(r) \in Replicas /\ Me(r) # None
         /\ Me(r) = Me(q) => at[r] = at[q]
  BY RouterAssumption DEF Me, ReplicaName, RInv, HasTarget

\* The invariant gives mutual exclusion: equal names mean equal replicas, and
\* one replica has one registered call per model.
LEMMA Exclusion ==
  ASSUME PodNameSet, LInv
  PROVE  SecondLoaderOnlyByLateDelete
  <1> SUFFICES ASSUME NEW r \in Requests, NEW q \in Requests,
                      pc[r] \in Holding, pc[q] \in Holding, model[r] = model[q],
                      model[r] \notin undercut
               PROVE  r = q
    BY DEF SecondLoaderOnlyByLateDelete
  <1>1. pc[r] # "idle" /\ pc[q] # "idle" /\ pc[r] \in Primary /\ pc[q] \in Primary
    BY DEF Holding, Primary
  <1>2. Me(r) = Me(q)
    BY DEF LInv, LeaseLostOnlyToLateDelete
  <1>3. at[r] = at[q] /\ at[r] \in Replicas /\ model[r] \in Models
    BY <1>1, <1>2, NamesAreDistinct DEF LInv, RInv, HasTarget
  <1>4. loading[at[r]][model[r]] = r /\ loading[at[r]][model[r]] = q
    BY <1>1, <1>3 DEF LInv, RInv, LoadingIsOwned
  <1> QED BY <1>4

\* A call comes to hold the lease of its model by finding its name on it.
LEMMA HoldersEnter ==
  ASSUME RInv, NEW q \in Requests, Step(q), pc[q] \notin Holding, pc'[q] \in Holding
  PROVE  lease'[model[q]] = Me(q)
  <1> USE DEF Goto, Holding, RInv, TypeOK
  <1>1. ~ (Lookup(q) \/ Join(q) \/ Receive(q) \/ StopWaiting(q) \/ Recheck(q))
    BY DEF Lookup, Join, Receive, StopWaiting, Recheck
  <1>2. ~ (Signal(q) \/ Record(q) \/ Cleanup(q))
    BY DEF Signal, Record, Cleanup
  <1>3. \A ok \in BOOLEAN : ~ (LoadModelOnBestNode(q, ok) \/ ReleaseLease(q, ok))
    BY DEF LoadModelOnBestNode, ReleaseLease
  <1>4. ASSUME NEW ok \in BOOLEAN, CreateLease(q, ok)
        PROVE  lease'[model[q]] = Me(q)
    <2>1. pc[q] # "idle" /\ lease[model[q]] = None /\ Apply(model[q], Me(q))
      BY <1>4 DEF CreateLease
    <2>2. model[q] \in Models
      BY <2>1 DEF HasTarget
    <2> QED BY <2>1, <2>2 DEF Apply
  <1>5. ASSUME NEW ok \in BOOLEAN, GetLease(q, ok)
        PROVE  lease'[model[q]] = Me(q)
    BY <1>5 DEF GetLease
  <1> QED BY <1>1, <1>2, <1>3, <1>4, <1>5 DEF Step

\* The environment makes no call a holder, and changes a lease only by a request
\* that arrives late.
LEMMA EnvironmentHolds ==
  ASSUME RInv, Environment, NEW q \in Requests, pc'[q] \in Holding
  PROVE  /\ pc[q] \in Holding /\ model'[q] = model[q] /\ at'[q] = at[q]
         /\ lease' = lease \/ \E c \in Connections : Arrive(c)
  <1> USE DEF RInv, TypeOK, Holding, callVars
  <1>1. ASSUME NEW r \in Requests, NEW x \in Replicas, NEW m \in Models,
               GetModelEndpoint(r, x, m)
        PROVE  /\ pc[q] \in Holding /\ model'[q] = model[q] /\ at'[q] = at[q]
               /\ lease' = lease
    BY <1>1 DEF GetModelEndpoint, Goto
  <1>2. ASSUME NEW r \in Requests, Cancel(r) \/ Return(r)
        PROVE  /\ pc[q] \in Holding /\ model'[q] = model[q] /\ at'[q] = at[q]
               /\ lease' = lease
    BY <1>2 DEF Cancel, Return
  <1>3. ASSUME NEW x \in Replicas, Crash(x)
        PROVE  /\ pc[q] \in Holding /\ model'[q] = model[q] /\ at'[q] = at[q]
               /\ lease' = lease
    BY <1>3 DEF Crash
  <1>4. ASSUME NEW x \in Replicas, NEW names \in SUBSET Models,
               Discover(x, names) \/ StoreWarmModels(x, names)
        PROVE  /\ pc[q] \in Holding /\ model'[q] = model[q] /\ at'[q] = at[q]
               /\ lease' = lease
    BY <1>4 DEF Discover, StoreWarmModels
  <1>5. ASSUME NEW c \in Connections, Arrive(c)
        PROVE  /\ pc[q] \in Holding /\ model'[q] = model[q] /\ at'[q] = at[q]
    BY <1>5 DEF Arrive
  <1> QED BY <1>1, <1>2, <1>3, <1>4, <1>5 DEF Environment

\* While no late Delete has hit the model, a call that goes on holding its lease
\* keeps it: Create leaves it alone, and a Delete that is answered is the
\* holder's own.
LEMMA HoldersKeep ==
  ASSUME PodNameSet, LInv, Next, NEW q \in Requests,
         pc[q] \in Holding, pc'[q] \in Holding,
         model[q] \notin undercut, ~ LateDelete(model[q])
  PROVE  lease'[model[q]] = lease[model[q]]
  <1> USE DEF LInv
  <1>0. pc[q] # "idle"
    BY DEF Holding
  <1>1. /\ lease[model[q]] = Me(q) /\ Me(q) # None /\ model[q] \in Models
        /\ lease \in [Models -> Holders]
    BY <1>0, NamesAreDistinct DEF LeaseLostOnlyToLateDelete, RInv, HasTarget, TypeOK
  <1>2. ASSUME NEW r \in Requests, Step(r)
        PROVE  lease'[model[q]] = lease[model[q]]
    <2>1. ASSUME NEW ok \in BOOLEAN, CreateLease(r, ok)
          PROVE  lease'[model[q]] = lease[model[q]]
      <3>1. pc[r] # "idle"
        BY <2>1 DEF CreateLease, Goto
      <3>2. Me(r) # None /\ model[r] \in Models
        BY <1>0, <3>1, NamesAreDistinct DEF RInv, HasTarget
      <3> QED BY <1>1, <2>1, <3>2 DEF CreateLease, Apply, Unanswered
    <2>2. ASSUME NEW ok \in BOOLEAN, ReleaseLease(r, ok)
          PROVE  lease'[model[q]] = lease[model[q]]
      <3>1. pc[r] \in Holding /\ pc'[r] \notin Holding
        BY <2>2 DEF ReleaseLease, Goto, Holding, RInv, TypeOK
      <3>2. model[r] # model[q]
        BY <3>1, Exclusion DEF SecondLoaderOnlyByLateDelete
      <3> QED BY <1>1, <2>2, <3>2 DEF ReleaseLease, Apply, Unanswered
    <2>3. \/ lease' = lease
          \/ \E ok \in BOOLEAN : CreateLease(r, ok) \/ ReleaseLease(r, ok)
      BY <1>2 DEF Step, Lookup, Join, Receive, StopWaiting, Recheck, Signal, Cleanup,
                  GetLease, LoadModelOnBestNode, Record
    <2> QED BY <2>1, <2>2, <2>3
  <1>3. ASSUME NEW c \in Connections, Arrive(c)
        PROVE  lease'[model[q]] = lease[model[q]]
    <2>1. late[c].model = model[q] => late[c].holder # None
      BY <1>3 DEF LateDelete
    <2> QED BY <1>1, <1>3, <2>1 DEF Arrive, Apply
  <1> QED BY <1>2, <1>3, EnvironmentHolds DEF Next

\* Every step preserves the invariant.
LEMMA LeaseStep ==
  ASSUME PodNameSet, LInv, HNext
  PROVE  LeaseLostOnlyToLateDelete'
  <1> USE DEF LInv
  <1> SUFFICES ASSUME NEW q \in Requests, pc'[q] \in Holding, model'[q] \notin undercut'
               PROVE  lease'[model'[q]] = Me(q)'
    BY DEF LeaseLostOnlyToLateDelete
  <1>1. Next
    BY DEF HNext
  <1>2. model'[q] = model[q] /\ Me(q)' = Me(q)
    <2>1. model'[q] = model[q] /\ at'[q] = at[q]
      BY <1>1, StepMovesOne, EnvironmentHolds DEF Next
    <2> QED BY <2>1 DEF Me, ReplicaName
  <1>3. CASE pc[q] \in Holding
    <2>1. model[q] \in Models
      BY <1>3 DEF RInv, HasTarget, Holding
    <2>2. IsHeld(model[q]) /\ IsHeld(model[q])'
      BY <1>2, <1>3 DEF IsHeld
    <2>3. model[q] \notin undercut /\ ~ LateDelete(model[q])
      BY <1>2, <2>1, <2>2 DEF HNext
    <2> QED BY <1>1, <1>2, <1>3, <2>3, HoldersKeep DEF LeaseLostOnlyToLateDelete
  <1>4. CASE pc[q] \notin Holding
    <2>1. Step(q)
      BY <1>1, <1>4, StepMovesOne, EnvironmentHolds DEF Next
    <2> QED BY <1>2, <1>4, <2>1, HoldersEnter
  <1> QED BY <1>3, <1>4

\* With pod names, the lease of a model names the call that loads it, whatever
\* crashes, is cancelled or fails, until a late Delete arrives during the load.
THEOREM LeaseNamesItsHolder ==
  ASSUME PodNameSet PROVE HSpec => []LeaseLostOnlyToLateDelete
  <1>1. HInit => LeaseLostOnlyToLateDelete
    BY DEF HInit, Init, LeaseLostOnlyToLateDelete, Holding
  <1>2. RInv /\ LeaseLostOnlyToLateDelete /\ [HNext]_<<vars, leaked, undercut>>
          => LeaseLostOnlyToLateDelete'
    <2> SUFFICES ASSUME LInv, UNCHANGED <<vars, leaked, undercut>>
                 PROVE  LeaseLostOnlyToLateDelete'
      BY LeaseStep DEF LInv
    <2> QED BY DEF LInv, LeaseLostOnlyToLateDelete, vars, callVars, Me, ReplicaName
  <1> QED BY <1>1, <1>2, HistoryInvariance, PTL DEF HSpec

\* With pod names, no two calls of any replicas load one model at once, unless
\* a Delete of an earlier call arrives late, during the load: what the code
\* promises of the lease, and the one case in which it does not keep it.
THEOREM LeaseExcludes ==
  ASSUME PodNameSet PROVE HSpec => []SecondLoaderOnlyByLateDelete
  <1>1. RInv /\ LeaseLostOnlyToLateDelete => SecondLoaderOnlyByLateDelete
    BY Exclusion DEF LInv
  <1> QED BY <1>1, HistoryInvariance, LeaseNamesItsHolder, PTL

-----------------------------------------------------------------------------
(* The leases left behind.  LeakOnlyByFailure is inductive, given RInv. *)

\* A lease comes into being only by Create.  Either the call that sent it is told
\* so and holds the lease, or the request arrives late.
LEMMA NewLeases ==
  ASSUME RInv, Next, NEW m \in Models, lease[m] = None, lease'[m] # None
  PROVE  IsHeld(m)' \/ LateCreate(m)
  <1>0. lease \in [Models -> Holders]
    BY DEF RInv, TypeOK
  <1>1. \/ \E c \in Connections : Arrive(c)
        \/ \E r \in Requests, ok \in BOOLEAN : CreateLease(r, ok) \/ ReleaseLease(r, ok)
    BY DEF Next, Step, Environment, Lookup, Join, Receive, StopWaiting, Recheck, Signal,
           Cleanup, GetLease, LoadModelOnBestNode, Record, GetModelEndpoint, Cancel,
           Return, Crash, Discover, StoreWarmModels
  <1>2. ASSUME NEW c \in Connections, Arrive(c)
        PROVE  LateCreate(m)
    BY <1>0, <1>2 DEF Arrive, Apply, LateCreate
  <1>3. ASSUME NEW r \in Requests, NEW ok \in BOOLEAN, ReleaseLease(r, ok)
        PROVE  FALSE
    BY <1>0, <1>3 DEF ReleaseLease, Apply, Unanswered
  <1>4. ASSUME NEW r \in Requests, NEW ok \in BOOLEAN, CreateLease(r, ok)
        PROVE  IsHeld(m)'
    <2>1. model[r] = m /\ model' = model /\ Succeeds(r, ok)
      BY <1>0, <1>4 DEF CreateLease, Apply, Unanswered, callVars
    <2>2. pc'[r] = "load"
      BY <1>4, <2>1 DEF CreateLease, Goto, RInv, TypeOK
    <2> QED BY <2>1, <2>2 DEF IsHeld, Holding
  <1> QED BY <1>1, <1>2, <1>3, <1>4

\* A call that holds a lease gives it up only by Delete or in a crash.
LEMMA HoldersLeave ==
  ASSUME RInv, Next, NEW m \in Models, lease'[m] # None, IsHeld(m), ~ IsHeld(m)'
  PROVE  HolderCrashes(m) \/ ReleaseFails(m)
  <1>1. PICK q \in Requests : pc[q] \in Holding /\ model[q] = m
    BY DEF IsHeld
  <1>2. ~ (pc'[q] \in Holding /\ model'[q] = m)
    BY DEF IsHeld
  <1>3. ASSUME NEW r \in Requests, Step(r)
        PROVE  ReleaseFails(m)
    <2>1. r = q
      BY <1>1, <1>2, <1>3, StepMovesOne
    <2>2. model'[q] = m
      BY <1>1, <1>3, StepMovesOne
    <2>3. PICK ok \in BOOLEAN : ReleaseLease(q, ok)
      <3> USE DEF Goto, Holding, RInv, TypeOK
      <3>1. ~ (Lookup(q) \/ Join(q) \/ Receive(q) \/ StopWaiting(q) \/ Recheck(q))
        BY <1>1 DEF Lookup, Join, Receive, StopWaiting, Recheck
      <3>2. ~ (Signal(q) \/ Record(q))
        BY <1>1, <1>2, <2>2 DEF Signal, Record
      <3>3. ~ Cleanup(q)
        BY <1>1 DEF Cleanup
      <3>4. \A ok \in BOOLEAN : ~ (CreateLease(q, ok) \/ GetLease(q, ok))
        BY <1>1 DEF CreateLease, GetLease
      <3>5. \A ok \in BOOLEAN : ~ LoadModelOnBestNode(q, ok)
        BY <1>1, <1>2, <2>2 DEF LoadModelOnBestNode
      <3> QED BY <1>3, <2>1, <3>1, <3>2, <3>3, <3>4, <3>5 DEF Step
    <2>4. ~ Succeeds(q, ok)
      BY <1>1, <2>3 DEF ReleaseLease, Apply, RInv, TypeOK
    <2> QED BY <1>1, <2>3, <2>4 DEF ReleaseFails
  <1>4. ASSUME Environment
        PROVE  HolderCrashes(m)
    <2> USE DEF RInv, TypeOK, Holding, Returned
    <2>1. \A r \in Requests, x \in Replicas, k \in Models : ~ GetModelEndpoint(r, x, k)
      BY <1>1, <1>2 DEF GetModelEndpoint, Goto
    <2>2. \A r \in Requests : ~ Cancel(r)
      BY <1>1, <1>2 DEF Cancel
    <2>3. \A r \in Requests : ~ Return(r)
      BY <1>1, <1>2 DEF Return
    <2>4. \A x \in Replicas, names \in SUBSET Models :
             ~ (Discover(x, names) \/ StoreWarmModels(x, names))
      BY <1>1, <1>2 DEF Discover, StoreWarmModels, callVars
    <2>5. \A c \in Connections : ~ Arrive(c)
      BY <1>1, <1>2 DEF Arrive, callVars
    <2> QED BY <1>4, <2>1, <2>2, <2>3, <2>4, <2>5 DEF Environment, HolderCrashes
  <1> QED BY <1>3, <1>4 DEF Next

\* Every step preserves the property.
LEMMA LeakStep ==
  ASSUME RInv, LeakOnlyByFailure, [HNext]_<<vars, leaked, undercut>>
  PROVE  LeakOnlyByFailure'
  <1>1. CASE HNext
    <2> SUFFICES ASSUME NEW m \in Models, lease'[m] # None, ~ IsHeld(m)'
                 PROVE  m \in leaked'
      BY DEF LeakOnlyByFailure
    <2>1. Next
      BY <1>1 DEF HNext
    <2>2. m \in leaked \/ HolderCrashes(m) \/ ReleaseFails(m) \/ LateCreate(m)
      <3>1. CASE lease[m] = None
        BY <2>1, <3>1, NewLeases
      <3>2. CASE lease[m] # None
        BY <2>1, <3>2, HoldersLeave DEF LeakOnlyByFailure
      <3> QED BY <3>1, <3>2
    <2> QED BY <1>1, <2>2 DEF HNext
  <1>2. CASE UNCHANGED <<vars, leaked, undercut>>
    BY <1>2 DEF LeakOnlyByFailure, IsHeld, vars, callVars
  <1> QED BY <1>1, <1>2

\* GetModelEndpoint and its helpers forget no lease on any path: one that nobody
\* holds was left by a crash, by a Create that arrived after its call had given
\* up, or by a failed Delete.
THEOREM LeasesLeakOnlyByFailure == HSpec => []LeakOnlyByFailure
  <1>1. HInit => LeakOnlyByFailure
    BY DEF HInit, Init, LeakOnlyByFailure
  <1>2. RInv /\ LeakOnlyByFailure /\ [HNext]_<<vars, leaked, undercut>>
          => LeakOnlyByFailure'
    BY LeakStep
  <1> QED BY <1>1, <1>2, HistoryInvariance, PTL DEF HSpec

=============================================================================
