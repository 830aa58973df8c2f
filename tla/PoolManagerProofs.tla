-------------------------- MODULE PoolManagerProofs --------------------------
(***************************************************************************)
(* Proofs that the default pool of the manager is a registered one and     *)
(* that its state is well typed, for any set of keys and specs and any     *)
(* number of edits.                                                        *)
(***************************************************************************)
EXTENDS PoolManager, FiniteSetTheorems, TLAPS

\* No pools and no default: the invariant holds initially.
LEMMA InitPInv == Init => PInv
  BY PoolAssumption
  DEF Init, PInv, DefaultIsRegistered, GetRouter, ListPools, Registered

\* Steps that leave the registered pools alone and do not break off Reconcile.
LEMMA QuietStep ==
  ASSUME PInv, UNCHANGED <<pools, defaultPool, created>>,
         active' \in Keys \union {None}, active' = None => got' = "unread"
  PROVE  PInv'
  BY DEF PInv, DefaultIsRegistered, GetRouter, ListPools, Registered

\* Manager.UpsertPool for a key that has no pool: the default stays or, if there
\* was none, becomes the new pool.
LEMMA CreateStep ==
  ASSUME PInv, NEW k \in Keys, NEW spec \in Specs, CreatePool(k, spec), Reconciled
  PROVE  PInv'
  <1> DEFINE new == created + 1
  <1>1. /\ new \in Nat /\ new # None
        /\ pools[k] = None /\ pools' = [pools EXCEPT ![k] = new]
        /\ pools' \in [Keys -> Nat \union {None}] /\ created' \in Nat
        /\ active' \in Keys \union {None} /\ got' = "unread"
    BY PoolAssumption DEF PInv, CreatePool, Reconciled
  <1>2. pools'[k] = new /\ \A l \in Keys : l # k => pools'[l] = pools[l]
    BY <1>1 DEF PInv
  <1>3. defaultPool' # None
    BY <1>1 DEF CreatePool
  <1>4. \E l \in Keys : pools'[l] = defaultPool'
    <2>1. CASE defaultPool = None
      BY <1>2, <2>1 DEF CreatePool
    <2>2. CASE defaultPool # None
      <3>1. PICK l \in Keys : pools[l] = defaultPool
        BY <2>2 DEF PInv, DefaultIsRegistered, Registered
      <3>2. l # k
        BY <1>1, <2>2, <3>1
      <3> QED BY <1>2, <2>2, <3>1, <3>2 DEF CreatePool
    <2> QED BY <2>1, <2>2
  <1>5. DefaultIsRegistered'
    BY <1>1, <1>2, <1>3, <1>4 DEF DefaultIsRegistered, GetRouter, ListPools, Registered
  <1> QED BY <1>1, <1>5 DEF PInv

\* Manager.DeletePool: another pool becomes the default if the default goes.
LEMMA DeleteStep ==
  ASSUME PInv, active \in Keys, DeletePool
  PROVE  PInv'
  <1>1. /\ pools' \in [Keys -> Nat \union {None}] /\ UNCHANGED created
        /\ active' \in Keys \union {None} /\ got' = "unread"
    BY DEF PInv, DeletePool, Reconciled
  <1>2. /\ pools'[active] = None
        /\ \A l \in Keys : l # active => pools'[l] = pools[l]
    BY DEF PInv, DeletePool
  <1>3. Registered(pools') = {} <=> \A l \in Keys : pools'[l] = None
    BY DEF Registered
  <1>4. defaultPool' # None => defaultPool' \in Registered(pools')
    <2>1. CASE pools[active] # None /\ defaultPool = pools[active]
      BY <2>1 DEF DeletePool
    <2>2. CASE ~ (pools[active] # None /\ defaultPool = pools[active])
      <3>1. defaultPool' = defaultPool
        BY <2>2 DEF DeletePool
      <3> SUFFICES ASSUME defaultPool # None PROVE defaultPool \in Registered(pools')
        BY <3>1
      <3>2. PICK l \in Keys : pools[l] = defaultPool
        BY DEF PInv, DefaultIsRegistered, Registered
      <3>3. l # active
        BY <2>2, <3>2
      <3> QED BY <1>2, <3>2, <3>3 DEF Registered
    <2> QED BY <2>1, <2>2
  <1>5. defaultPool' = None => \A l \in Keys : pools'[l] = None
    <2> SUFFICES ASSUME defaultPool' = None PROVE Registered(pools') = {}
      BY <1>3
    <2>1. CASE pools[active] # None /\ defaultPool = pools[active]
      BY <2>1 DEF DeletePool, Registered
    <2>2. CASE ~ (pools[active] # None /\ defaultPool = pools[active])
      <3>1. defaultPool = None
        BY <2>2 DEF DeletePool
      <3>2. \A l \in Keys : pools[l] = None
        BY <3>1 DEF PInv, DefaultIsRegistered, GetRouter, ListPools
      <3> QED BY <1>2, <1>3, <3>2
    <2> QED BY <2>1, <2>2
  <1>6. DefaultIsRegistered'
    BY <1>3, <1>4, <1>5 DEF DefaultIsRegistered, GetRouter, ListPools
  <1> QED BY <1>1, <1>6 DEF PInv

\* Every step of the controller and of its environment preserves the invariant.
LEMMA NextPInv == PInv /\ [Next]_vars => PInv'
  <1> SUFFICES ASSUME PInv, [Next]_vars PROVE PInv'
    OBVIOUS
  <1> USE DEF vars, apiVars, queueVars, poolVars, routerVars
  <1>0. active \in Keys \union {None} /\ (active = None => got = "unread")
    BY DEF PInv
  <1>1. CASE Reconcile
    <2>1. CASE Get
      BY <1>0, <2>1, QuietStep DEF Get
    <2>2. CASE GetFails
      BY <1>0, <2>2, QuietStep DEF GetFails
    <2>3. CASE UpsertPool
      <3>1. active \in Keys /\ got \in Specs
        BY <1>0, <2>3, PoolAssumption DEF UpsertPool
      <3>2. CASE CreatePool(active, got)
        BY <2>3, <3>1, <3>2, CreateStep DEF UpsertPool
      <3>3. CASE UpdatePool(active, got)
        BY <2>3, <3>3, QuietStep DEF UpsertPool, UpdatePool, Reconciled
      <3> QED BY <2>3, <3>2, <3>3 DEF UpsertPool
    <2>4. CASE DeletePool
      <3>1. active \in Keys
        BY <1>0, <2>4, PoolAssumption DEF DeletePool
      <3> QED BY <2>4, <3>1, DeleteStep
    <2> QED BY <1>1, <2>1, <2>2, <2>3, <2>4 DEF Reconcile
  <1>2. ASSUME NEW k \in Keys, Watch(k) \/ Dequeue(k) PROVE PInv'
    BY <1>0, <1>2, QuietStep DEF Watch, Dequeue
  <1>3. ASSUME NEW k \in Keys, NEW spec \in Specs \union {None}, Edit(k, spec)
        PROVE  PInv'
    BY <1>0, <1>3, QuietStep DEF Edit
  <1>4. ASSUME NEW i \in Ids, Discovery(i) PROVE PInv'
    BY <1>0, <1>4, QuietStep DEF Discovery, Discover, StoreWarmModels
  <1>5. ASSUME NEW i \in Ids, NEW spec \in Specs, DiscoveryFails(i, spec) PROVE PInv'
    BY <1>0, <1>5, QuietStep DEF DiscoveryFails
  <1>6. CASE UNCHANGED vars
    BY <1>0, <1>6, QuietStep
  <1> QED BY <1>1, <1>2, <1>3, <1>4, <1>5, <1>6 DEF Next

\* Whatever order InferencePools are created, changed and deleted in, the default
\* pool is registered, and GetRouter fails only when there is no pool at all.
THEOREM DefaultPoolIsRegistered == Spec => []DefaultIsRegistered
  <1>1. PInv => DefaultIsRegistered
    BY DEF PInv
  <1> QED BY <1>1, InitPInv, NextPInv, PTL DEF Spec

-----------------------------------------------------------------------------
(* Types, and that edits pay for pools *)

\* At first there is nothing.
LEMMA InitPTypeInv == Init => PTypeInv
  <1> SUFFICES ASSUME Init PROVE PTypeInv
    OBVIOUS
  <1>1. TypeOK
    BY PoolAssumption DEF Init, TypeOK, PerPool, Ids
  <1>2. Arriving = {}
    BY PoolAssumption DEF Init, Arriving, Underway, Decided
  <1>3. EditsPayForPools
    BY <1>2, FS_EmptySet DEF EditsPayForPools, Init
  <1>4. RoutersHaveSelectors
    <2>1. 1 .. created = {}
      BY DEF Init
    <2> QED BY <2>1 DEF RoutersHaveSelectors
  <1> QED BY <1>1, <1>3, <1>4, InitPInv DEF PTypeInv

\* Two sets of arrivals compared: the later one has lost something, or got one
\* element for another.
LEMMA Fewer ==
  ASSUME NEW S, IsFiniteSet(S), NEW T, T \subseteq S
  PROVE  IsFiniteSet(T) /\ Cardinality(T) \in Nat /\ Cardinality(S) \in Nat
         /\ Cardinality(T) <= Cardinality(S)
  BY FS_Subset, FS_CardinalityType

\* One more element makes a set larger by one at most.
LEMMA OneMore ==
  ASSUME NEW S, IsFiniteSet(S), NEW x
  PROVE  /\ IsFiniteSet(S \union {x}) /\ Cardinality(S \union {x}) \in Nat
         /\ Cardinality(S) \in Nat /\ Cardinality(S \union {x}) <= Cardinality(S) + 1
  <1>1. Cardinality(S) \in Nat
    BY FS_CardinalityType
  <1>2. /\ IsFiniteSet(S \union {x})
        /\ Cardinality(S \union {x}) \in {Cardinality(S), Cardinality(S) + 1}
    BY FS_AddElement
  <1> QED BY <1>1, <1>2

\* A set in which one element takes the place of another does not grow.
LEMMA Exchanged ==
  ASSUME NEW S, IsFiniteSet(S), NEW x \in S, NEW y, NEW T, T \subseteq (S \ {x}) \union {y}
  PROVE  IsFiniteSet(T) /\ Cardinality(T) \in Nat /\ Cardinality(S) \in Nat
         /\ Cardinality(T) <= Cardinality(S)
  <1>1. /\ IsFiniteSet(S \ {x}) /\ Cardinality(S \ {x}) = Cardinality(S) - 1
        /\ Cardinality(S) \in Nat
    BY FS_RemoveElement, FS_CardinalityType
  <1> DEFINE rest == S \ {x}
  <1> HIDE DEF rest
  <1>2. /\ IsFiniteSet(rest \union {y}) /\ Cardinality(rest \union {y}) \in Nat
        /\ Cardinality(rest \union {y}) <= Cardinality(S)
    <2>1. IsFiniteSet(rest) /\ Cardinality(rest) = Cardinality(S) - 1
      BY <1>1 DEF rest
    <2>2. /\ IsFiniteSet(rest \union {y}) /\ Cardinality(rest \union {y}) \in Nat
          /\ Cardinality(rest \union {y}) <= Cardinality(rest) + 1
      BY <2>1, OneMore
    <2> QED BY <1>1, <2>1, <2>2
  <1>3. /\ IsFiniteSet(T) /\ Cardinality(T) \in Nat
        /\ Cardinality(T) <= Cardinality(rest \union {y})
    <2>1. T \subseteq rest \union {y}
      BY DEF rest
    <2> QED BY <1>2, <2>1, Fewer
  <1> QED BY <1>1, <1>2, <1>3

\* A step that makes no pool and does not add to what is under way.
LEMMA NothingNew ==
  ASSUME PTypeInv, UNCHANGED <<created, edits>>, Arriving' \subseteq Arriving
  PROVE  EditsPayForPools'
  <1>1. /\ IsFiniteSet(Arriving') /\ Cardinality(Arriving') <= Cardinality(Arriving)
        /\ Cardinality(Arriving') \in Nat /\ Cardinality(Arriving) \in Nat
    BY Fewer DEF PTypeInv, EditsPayForPools
  <1> QED BY <1>1 DEF PTypeInv, TypeOK, EditsPayForPools

\* The same, but the news of one InferencePool gets on.
LEMMA NewsGetsOn ==
  ASSUME PTypeInv, UNCHANGED <<created, edits>>, NEW x \in Arriving, NEW y,
         Arriving' \subseteq (Arriving \ {x}) \union {y}
  PROVE  EditsPayForPools'
  <1>1. /\ IsFiniteSet(Arriving') /\ Cardinality(Arriving') <= Cardinality(Arriving)
        /\ Cardinality(Arriving') \in Nat /\ Cardinality(Arriving) \in Nat
    BY Exchanged DEF PTypeInv, EditsPayForPools
  <1> QED BY <1>1 DEF PTypeInv, TypeOK, EditsPayForPools

\* An edit pays for at most one InferencePool.
LEMMA EditPays ==
  ASSUME PTypeInv, NEW k \in Keys, NEW spec \in Specs \union {None}, Edit(k, spec)
  PROVE  TypeOK' /\ EditsPayForPools'
  <1> USE DEF apiVars, queueVars, poolVars, routerVars
  <1>1. TypeOK'
    BY PoolAssumption DEF PTypeInv, TypeOK, Edit
  <1>2. Arriving' \subseteq Arriving \union {<<k, "api">>}
    BY DEF PTypeInv, TypeOK, Edit, Arriving, Underway, Decided
  <1>3. /\ IsFiniteSet(Arriving \union {<<k, "api">>})
        /\ Cardinality(Arriving \union {<<k, "api">>}) <= Cardinality(Arriving) + 1
        /\ Cardinality(Arriving) \in Nat
    <2>1. IsFiniteSet(Arriving)
      BY DEF PTypeInv, EditsPayForPools
    <2> QED BY <2>1, OneMore
  <1>4. /\ IsFiniteSet(Arriving') /\ Cardinality(Arriving') \in Nat
        /\ Cardinality(Arriving') <= Cardinality(Arriving \union {<<k, "api">>})
        /\ Cardinality(Arriving \union {<<k, "api">>}) \in Nat
    BY <1>2, <1>3, Fewer
  <1> QED BY <1>1, <1>3, <1>4 DEF PTypeInv, TypeOK, EditsPayForPools, Edit

\* The informer learns of an InferencePool, of its end, or of a new selector.
LEMMA WatchPays ==
  ASSUME PTypeInv, NEW k \in Keys, Watch(k)
  PROVE  TypeOK' /\ EditsPayForPools'
  <1> USE DEF apiVars, queueVars, poolVars, routerVars
  <1>1. TypeOK'
    BY DEF PTypeInv, TypeOK, Watch
  <1>2. /\ cache'[k] = api[k] /\ \A l \in Keys : l # k => cache'[l] = cache[l]
        /\ UNCHANGED <<api, active, got, pools, created, edits>>
    BY DEF PTypeInv, TypeOK, Watch
  <1>3. \A l \in Keys : Decided(l)' = Decided(l)
    BY <1>2 DEF Decided
  <1>4. CASE cache[k] = None
    <2>1. <<k, "api">> \in Arriving
      BY <1>2, <1>4 DEF Watch, Arriving, Underway
    <2>2. Arriving' \subseteq (Arriving \ {<<k, "api">>}) \union {<<k, "cache">>}
      BY <1>2, <1>3, <1>4 DEF Arriving, Underway
    <2> QED BY <1>1, <1>2, <2>1, <2>2, NewsGetsOn
  <1>5. CASE cache[k] # None
    <2>1. Arriving' \subseteq Arriving
      BY <1>2, <1>3, <1>5 DEF Arriving, Underway
    <2> QED BY <1>1, <1>2, <2>1, NothingNew
  <1> QED BY <1>4, <1>5

\* Reconcile reads what the informer knows.
LEMMA GetPays ==
  ASSUME PTypeInv, Get
  PROVE  TypeOK' /\ EditsPayForPools'
  <1> USE PoolAssumption DEF apiVars, queueVars, poolVars, routerVars
  <1> DEFINE k == active
  <1>1. k \in Keys /\ cache[k] \in Specs \union {None}
    BY DEF Get, PTypeInv, TypeOK
  <1>2. TypeOK'
    BY <1>1 DEF PTypeInv, TypeOK, Get
  <1>3. /\ UNCHANGED <<api, cache, active, pools, created, edits>>
        /\ got = "unread" /\ got' = cache[k]
    BY DEF Get
  <1>4. Decided(k)' = cache[k] /\ \A l \in Keys : l # k => Decided(l)' = Decided(l)
    BY <1>1, <1>3 DEF Decided
  <1>5. Decided(k) = pools[k]
    BY <1>3 DEF Decided
  <1>6. CASE cache[k] # None /\ pools[k] = None
    <2>1. <<k, "cache">> \in Arriving
      BY <1>1, <1>5, <1>6 DEF Arriving, Underway
    <2>2. Arriving' \subseteq (Arriving \ {<<k, "cache">>}) \union {<<k, "got">>}
      BY <1>1, <1>3, <1>4, <1>6 DEF Arriving, Underway
    <2> QED BY <1>2, <1>3, <2>1, <2>2, NewsGetsOn
  <1>7. CASE ~ (cache[k] # None /\ pools[k] = None)
    <2>1. Arriving' \subseteq Arriving
      BY <1>1, <1>3, <1>4, <1>5, <1>7 DEF Arriving, Underway
    <2> QED BY <1>2, <1>3, <2>1, NothingNew
  <1> QED BY <1>6, <1>7

\* A new pool is one of those that were under way.
LEMMA CreatePays ==
  ASSUME PTypeInv, active \in Keys, got \in Specs, CreatePool(active, got), Reconciled
  PROVE  TypeOK' /\ EditsPayForPools'
  <1> USE PoolAssumption DEF apiVars
  <1> DEFINE x == <<active, "got">>
             new == created + 1
  <1>1. x \in Arriving
    BY DEF CreatePool, Arriving, Underway
  <1>2. /\ IsFiniteSet(Arriving \ {x}) /\ Cardinality(Arriving \ {x}) = Cardinality(Arriving) - 1
        /\ Cardinality(Arriving) \in Nat /\ Cardinality(Arriving \ {x}) \in Nat
    BY <1>1, FS_RemoveElement, FS_CardinalityType DEF PTypeInv, EditsPayForPools
  <1>3. new \in Ids /\ new <= edits
    BY <1>2 DEF PTypeInv, TypeOK, EditsPayForPools, Ids
  <1>4. created \in Nat /\ 1 .. created \subseteq 1 .. new /\ new \in 1 .. new
    BY DEF PTypeInv, TypeOK
  <1>5. /\ created' = new /\ new # None
        /\ UNCHANGED <<api, edits, cache, queue, warm, inflight>>
        /\ active' = None /\ got' = "unread"
    BY <1>4 DEF CreatePool, Reconciled
  <1>6. pools' \in [Keys -> 1 .. new \union {None}] /\ defaultPool' \in 1 .. new \union {None}
    BY <1>4 DEF CreatePool, PTypeInv, TypeOK
  <1>7. /\ config' \in [Ids -> Specs \union {None}] /\ router' \in [Ids -> Specs \union {None}]
        /\ tracker' \in [Ids -> Specs \union {None}]
    BY <1>3 DEF CreatePool, PTypeInv, TypeOK
  <1>8. edits \in 0 .. MaxEdits /\ new \in 0 .. edits
    BY <1>3, <1>4 DEF PTypeInv, TypeOK
  <1>9. TypeOK'
    BY <1>5, <1>6, <1>7, <1>8 DEF PTypeInv, TypeOK
  <1>10. /\ pools'[active] = new
         /\ \A l \in Keys : l # active => pools'[l] = pools[l]
    BY DEF CreatePool, PTypeInv, TypeOK
  <1>11. Arriving' \subseteq Arriving \ {x}
    BY <1>5, <1>10 DEF Arriving, Underway, Decided
  <1>12. /\ IsFiniteSet(Arriving') /\ Cardinality(Arriving') \in Nat
         /\ Cardinality(Arriving') <= Cardinality(Arriving \ {x})
    BY <1>2, <1>11, Fewer
  <1> QED BY <1>2, <1>4, <1>5, <1>9, <1>12 DEF PTypeInv, TypeOK, EditsPayForPools

\* The remaining steps of Reconcile and of the routers bring nothing new.
LEMMA UpdatePays ==
  ASSUME PTypeInv, active \in Keys, got \in Specs, UpdatePool(active, got), Reconciled
  PROVE  TypeOK' /\ EditsPayForPools'
  <1> USE PoolAssumption DEF apiVars
  <1>1. /\ pools[active] \in Ids /\ pools[active] # None
        /\ UNCHANGED <<api, edits, cache, pools, created>>
        /\ active' = None /\ got' = "unread"
    BY DEF UpdatePool, Reconciled, PTypeInv, TypeOK, Ids
  <1>2. TypeOK'
    BY <1>1 DEF UpdatePool, UpdatePodSelector, Reconciled, PTypeInv, TypeOK
  <1>3. Arriving' \subseteq Arriving
    BY <1>1 DEF Arriving, Underway, Decided
  <1> QED BY <1>1, <1>2, <1>3, NothingNew

\* DeletePool gives the pool up; the edit that paid for it is spent.
LEMMA DeletePays ==
  ASSUME PTypeInv, active \in Keys, DeletePool
  PROVE  TypeOK' /\ EditsPayForPools'
  <1> USE PoolAssumption DEF apiVars, routerVars
  <1>1. /\ UNCHANGED <<api, edits, cache, created>> /\ got = None
        /\ active' = None /\ got' = "unread"
    BY DEF DeletePool, Reconciled
  <1>2. /\ pools' \in [Keys -> 1 .. created \union {None}]
        /\ pools'[active] = None
        /\ \A l \in Keys : l # active => pools'[l] = pools[l]
    BY DEF DeletePool, PTypeInv, TypeOK
  <1>3. defaultPool' \in 1 .. created \union {None}
    BY <1>2 DEF DeletePool, Registered, PTypeInv, TypeOK
  <1>4. TypeOK'
    BY <1>1, <1>2, <1>3 DEF DeletePool, Reconciled, PTypeInv, TypeOK
  <1>5. Arriving' \subseteq Arriving
    BY <1>1, <1>2 DEF Arriving, Underway, Decided
  <1> QED BY <1>1, <1>4, <1>5, NothingNew

\* A step that neither the manager nor the API server takes part in.
LEMMA AsidePays ==
  ASSUME PTypeInv, TypeOK', UNCHANGED <<api, edits, cache, pools, created>>,
         got' = got, got # "unread" => active' = active
  PROVE  TypeOK' /\ EditsPayForPools'
  <1>1. Arriving' \subseteq Arriving
    BY PoolAssumption DEF Arriving, Underway, Decided
  <1> QED BY <1>1, NothingNew

\* A pool gets its selector when it is made, and other ones only by updates.
LEMMA NextSelectors == PTypeInv /\ [Next]_vars => RoutersHaveSelectors'
  <1> SUFFICES ASSUME PTypeInv, [Next]_vars PROVE RoutersHaveSelectors'
    OBVIOUS
  <1>0. created \in Nat /\ router \in [Ids -> Specs \union {None}] /\ MaxEdits \in Nat
        /\ created <= MaxEdits
    BY PoolAssumption DEF PTypeInv, TypeOK
  <1>1. CASE UpsertPool /\ CreatePool(active, got)
    <2>1. /\ router' = [router EXCEPT ![created + 1] = got]
          /\ created' = created + 1 /\ got \in Specs
      BY <1>1 DEF UpsertPool, CreatePool
    <2>2. ASSUME NEW i \in 1 .. created + 1 PROVE router'[i] \in Specs
      <3>1. CASE i = created + 1
        <4>1. active \in Keys
          BY <1>1, PoolAssumption DEF UpsertPool, PTypeInv, TypeOK
        <4>2. created + 1 \in Ids
          BY <1>0, <1>1, <2>1, <4>1, CreatePays DEF UpsertPool, TypeOK, Ids
        <4> QED BY <1>0, <2>1, <3>1, <4>2
      <3>2. CASE i # created + 1
        <4>1. i \in 1 .. created /\ i \in Ids
          BY <1>0, <3>2 DEF Ids
        <4> QED BY <1>0, <2>1, <3>2, <4>1 DEF PTypeInv, RoutersHaveSelectors
      <3> QED BY <3>1, <3>2
    <2> QED BY <2>1, <2>2 DEF RoutersHaveSelectors
  <1>2. CASE UpsertPool /\ UpdatePool(active, got)
    <2>1. /\ router' = [router EXCEPT ![pools[active]] = got]
          /\ created' = created /\ got \in Specs
      BY <1>2 DEF UpsertPool, UpdatePool, UpdatePodSelector
    <2>2. \A i \in 1 .. created : i \in Ids
      BY <1>0 DEF Ids
    <2> QED BY <1>0, <2>1, <2>2 DEF PTypeInv, RoutersHaveSelectors
  <1>3. CASE ~ UpsertPool
    <2>1. UNCHANGED <<router, created>>
      BY <1>3 DEF Next, vars, apiVars, queueVars, poolVars, routerVars, Reconcile, Get,
         GetFails, DeletePool, Watch, Dequeue, Edit, Discovery, Discover,
         StoreWarmModels, DiscoveryFails
    <2> QED BY <2>1 DEF PTypeInv, RoutersHaveSelectors
  <1> QED BY <1>1, <1>2, <1>3 DEF UpsertPool

\* Every step preserves types and the balance of edits and pools.
LEMMA NextPTypeInv == PTypeInv /\ [Next]_vars => PTypeInv'
  <1> SUFFICES ASSUME PTypeInv, [Next]_vars PROVE TypeOK' /\ EditsPayForPools'
    BY NextPInv, NextSelectors DEF PTypeInv
  <1> USE DEF vars, apiVars, queueVars, poolVars, routerVars
  <1>0. active \in Keys \union {None} /\ (active = None => got = "unread") /\ TypeOK
    BY DEF PTypeInv, TypeOK
  <1>1. CASE Reconcile
    <2>1. CASE Get
      BY <2>1, GetPays
    <2>2. CASE GetFails
      <3>1. TypeOK'
        BY <1>0, <2>2 DEF GetFails, TypeOK
      <3> QED BY <2>2, <3>1, AsidePays DEF GetFails
    <2>3. CASE UpsertPool
      <3>1. active \in Keys /\ got \in Specs
        BY <1>0, <2>3, PoolAssumption DEF UpsertPool
      <3> QED BY <2>3, <3>1, CreatePays, UpdatePays DEF UpsertPool
    <2>4. CASE DeletePool
      <3>1. active \in Keys
        BY <1>0, <2>4, PoolAssumption DEF DeletePool
      <3> QED BY <2>4, <3>1, DeletePays
    <2> QED BY <1>1, <2>1, <2>2, <2>3, <2>4 DEF Reconcile
  <1>2. ASSUME NEW k \in Keys, Watch(k) PROVE TypeOK' /\ EditsPayForPools'
    BY <1>2, WatchPays
  <1>3. ASSUME NEW k \in Keys, Dequeue(k) PROVE TypeOK' /\ EditsPayForPools'
    <2>1. TypeOK' /\ got = "unread"
      BY <1>0, <1>3 DEF Dequeue, TypeOK
    <2> QED BY <1>3, <2>1, AsidePays DEF Dequeue
  <1>4. ASSUME NEW k \in Keys, NEW spec \in Specs \union {None}, Edit(k, spec)
        PROVE  TypeOK' /\ EditsPayForPools'
    BY <1>4, EditPays
  <1>5. ASSUME NEW i \in Ids, Discovery(i) PROVE TypeOK' /\ EditsPayForPools'
    <2>1. CASE Discover(i)
      <3>1. router[i] \in Specs
        BY <2>1 DEF Discover, PTypeInv, RoutersHaveSelectors
      <3>2. TypeOK'
        BY <1>0, <2>1, <3>1 DEF Discover, TypeOK
      <3> QED BY <2>1, <3>2, AsidePays DEF Discover
    <2>2. ASSUME NEW spec \in Specs, StoreWarmModels(i, spec)
          PROVE  TypeOK' /\ EditsPayForPools'
      <3>1. TypeOK'
        BY <1>0, <2>2 DEF StoreWarmModels, TypeOK
      <3> QED BY <2>2, <3>1, AsidePays DEF StoreWarmModels
    <2> QED BY <1>5, <2>1, <2>2 DEF Discovery
  <1>6. ASSUME NEW i \in Ids, NEW spec \in Specs, DiscoveryFails(i, spec)
        PROVE  TypeOK' /\ EditsPayForPools'
    <2>1. TypeOK'
      BY <1>0, <1>6 DEF DiscoveryFails, TypeOK
    <2> QED BY <1>6, <2>1, AsidePays DEF DiscoveryFails
  <1>7. CASE UNCHANGED vars
    <2>1. TypeOK'
      BY <1>0, <1>7 DEF TypeOK
    <2> QED BY <1>7, <2>1, AsidePays
  <1> QED BY <1>1, <1>2, <1>3, <1>4, <1>5, <1>6, <1>7 DEF Next

\* Types of the manager; in particular no more routers are ever created than edits
\* were made to InferencePools, however the informer lags and reads fail.
THEOREM PoolTypeCorrect == Spec => []TypeOK
  <1>1. PTypeInv => TypeOK
    BY DEF PTypeInv
  <1> QED BY <1>1, InitPTypeInv, NextPTypeInv, PTL DEF Spec

=============================================================================
