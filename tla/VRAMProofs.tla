----------------------------- MODULE VRAMProofs -----------------------------
(***************************************************************************)
(* Proofs about VRAMTracker and VRAMScorer for any number of nodes,        *)
(* selector updates and reports: types, that only overlapping scrapes go   *)
(* back in time, and that scores rank nodes by their free VRAM.            *)
(***************************************************************************)
EXTENDS VRAMScorer, FiniteSetTheorems, WellFoundedInduction, TLAPS

\* What the code computes with stays within int64, whatever an exporter shows.
LEMMA ArithmeticIsTyped ==
  /\ \A x \in Int64 \union NotInt64 : ToInt64(x) \in Int64
  /\ \A a, b \in Int64 : Wrap(a - b) \in Int64
  BY VRAMAssumption DEF ToInt64, Wrap, Int64, MinInt

\* Scrape makes well-formed metrics of whatever an exporter reports: the missing
\* figures are filled in and what is available is never negative.
LEMMA CurrentIsMetrics ==
  ASSUME TypeOK, NEW n \in Nodes
  PROVE  Current(n) \in MetricsRecord /\ Current(n).lastUpdate = version[n]
  <1> DEFINE f == Report[n][version[n]]
             free == Wrap(Total(f) - Used(f))
  <1>1. version[n] \in 0 .. MaxChanges /\ f \in Figures
    BY VRAMAssumption DEF TypeOK
  <1>2. Total(f) \in Int64
    <2>1. DefaultTotal \in Int64
      BY VRAMAssumption DEF Int64, MinInt
    <2> QED BY <1>1, <2>1, ArithmeticIsTyped DEF Figures, Total
  <1>3. Used(f) \in Int64
    <2>1. 0 \in Int64
      BY VRAMAssumption DEF Int64, MinInt
    <2> QED BY <1>1, <2>1, ArithmeticIsTyped DEF Figures, Used
  <1>4. free \in Int64
    BY <1>2, <1>3, ArithmeticIsTyped
  <1>5. Current(n) = [total |-> Total(f), used |-> Used(f),
                      available |-> IF free > 0 THEN free ELSE 0,
                      lastUpdate |-> version[n]]
    BY DEF Current, Metrics
  <1> HIDE DEF f, free
  <1>6. (IF free > 0 THEN free ELSE 0) \in 0 .. MaxInt
    BY <1>4, VRAMAssumption DEF Int64, MinInt
  <1> QED BY <1>1, <1>2, <1>3, <1>5, <1>6 DEF MetricsRecord

\* The tracker starts without metrics and scrapes.
LEMMA InitVInv == Init => VInv
  <1> SUFFICES ASSUME Init PROVE VInv
    OBVIOUS
  <1>1. TypeOK
    BY VRAMAssumption DEF Init, TypeOK, MaybeMetrics, Empty, Scrapers
  <1> QED BY <1>1 DEF Init, VInv, InHand, OverlapIsNoted, SamplesInOrder, Active,
                      Empty, Scrapers

\* A scrape begins: it is alone, or it and all others are noted.
LEMMA BeginVInv ==
  ASSUME VInv, NEW s \in Scrapers, Begin(s), scope' \in Scopes,
         UNCHANGED <<metrics, recorded, using, pending, sample, copied, clusterVars>>
  PROVE  VInv'
  <1> USE DEF VInv, clusterVars
  <1>1. /\ pc[s] = "idle" /\ pc' = [pc EXCEPT ![s] = "discover"]
        /\ overlapped' \subseteq Scrapers
        /\ \A t \in Scrapers \ {s} : t \in overlapped => t \in overlapped'
    BY DEF Begin, Goto, TypeOK
  <1>2. TypeOK'
    BY <1>1 DEF TypeOK
  <1>3. \A t \in Scrapers : pc'[t] = IF t = s THEN "discover" ELSE pc[t]
    BY <1>1 DEF TypeOK
  <1>4. InHand'
    BY <1>1, <1>3 DEF InHand
  <1>5. OverlapIsNoted'
    BY <1>1, <1>3 DEF OverlapIsNoted, Active, Begin
  <1>6. sample[s] = None
    BY <1>1 DEF InHand
  <1>7. SamplesInOrder'
    BY <1>1, <1>6 DEF SamplesInOrder
  <1> QED BY <1>2, <1>4, <1>5, <1>7

\* A step of a scrape that neither reads nor stores a sample.
LEMMA QuietVInv ==
  ASSUME VInv, TypeOK', NEW s \in Scrapers, NEW b, b # "store",
         pc[s] \notin {"idle", "store"}, pc' = [pc EXCEPT ![s] = b],
         UNCHANGED <<metrics, sample, version, overlapped>>,
         \A t \in Scrapers \ {s} : using'[t] = using[t], b = "list" => using'[s] # None
  PROVE  VInv'
  <1> USE DEF VInv
  <1>1. \A t \in Scrapers : pc'[t] = IF t = s THEN b ELSE pc[t]
    BY DEF TypeOK
  <1>2. InHand'
    BY <1>1 DEF InHand
  <1>3. OverlapIsNoted'
    BY <1>1 DEF OverlapIsNoted, Active
  <1>4. SamplesInOrder'
    BY DEF SamplesInOrder
  <1> QED BY <1>2, <1>3, <1>4

\* An exporter shows its present figures, which nothing stored is ahead of.
LEMMA ScrapeVInv ==
  ASSUME VInv, NEW s \in Scrapers, NEW n \in Nodes, Scrape(s, n)
  PROVE  VInv'
  <1> USE DEF VInv, Scrape, Goto, clusterVars, trackerVars
  <1>1. Current(n) \in MetricsRecord /\ Current(n).lastUpdate = version[n]
    BY CurrentIsMetrics
  <1>2. <<n, Current(n)>> \in Nodes \X MetricsRecord
    BY <1>1
  <1>3. TypeOK'
    BY <1>2 DEF TypeOK
  <1>4. \A t \in Scrapers : /\ pc'[t] = IF t = s THEN "store" ELSE pc[t]
                            /\ sample'[t] = IF t = s THEN <<n, Current(n)>> ELSE sample[t]
    BY DEF TypeOK
  <1>5. InHand'
    BY <1>2, <1>4, VRAMAssumption DEF InHand
  <1>6. OverlapIsNoted'
    BY <1>4 DEF OverlapIsNoted, Active
  <1>7. SamplesInOrder'
    <2>1. metrics[n] # None => metrics[n].lastUpdate <= Current(n).lastUpdate
      BY <1>1 DEF SamplesInOrder
    <2>2. Current(n).lastUpdate <= version[n]
      BY <1>1 DEF TypeOK
    <2>3. <<n, Current(n)>>[1] = n /\ <<n, Current(n)>>[2] = Current(n)
      OBVIOUS
    <2> QED BY <1>4, <2>1, <2>2, <2>3 DEF SamplesInOrder
  <1> QED BY <1>3, <1>5, <1>6, <1>7

\* What a scrape stores is well formed and not ahead of the exporter; if another
\* scrape has a sample, both are noted.
LEMMA StoreVInv ==
  ASSUME VInv, NEW s \in Scrapers, Store(s)
  PROVE  VInv'
  <1> USE DEF VInv, Store, Goto, clusterVars
  <1> DEFINE n == sample[s][1]
             new == sample[s][2]
  <1>1. sample[s] # None /\ pc[s] = "store"
    BY DEF InHand
  <1>2. n \in Nodes /\ new \in MetricsRecord
    BY <1>1 DEF TypeOK
  <1>3. TypeOK'
    BY <1>2 DEF TypeOK, MaybeMetrics
  <1>4. \A t \in Scrapers : /\ pc'[t] = IF t = s THEN "scrape" ELSE pc[t]
                            /\ sample'[t] = IF t = s THEN None ELSE sample[t]
    BY DEF TypeOK
  <1>5. \A q \in Nodes : metrics'[q] = IF q = n THEN new ELSE metrics[q]
    BY DEF TypeOK, MaybeMetrics
  <1>6. InHand'
    BY <1>4 DEF InHand
  <1>7. OverlapIsNoted'
    BY <1>1, <1>4 DEF OverlapIsNoted, Active
  <1>8. SamplesInOrder'
    <2>1. new.lastUpdate <= version[n]
      BY <1>1 DEF SamplesInOrder
    <2>2. \A q \in Nodes : metrics'[q] # None => metrics'[q].lastUpdate <= version[q]
      BY <1>5, <2>1 DEF SamplesInOrder
    <2>3. \A t \in Scrapers \ {s} : sample[t] # None => t \in overlapped
      BY <1>1 DEF InHand, OverlapIsNoted, Active
    <2> HIDE DEF n, new
    <2> QED BY <1>4, <2>2, <2>3 DEF SamplesInOrder
  <1> QED BY <1>3, <1>6, <1>7, <1>8

\* Every step preserves the invariant.
LEMMA NextVInv == VInv /\ [Next]_vars => VInv'
  <1> SUFFICES ASSUME VInv, [Next]_vars PROVE VInv'
    OBVIOUS
  <1> USE DEF trackerVars, clusterVars
  <1>0. TypeOK
    BY DEF VInv
  <1>1. ASSUME NEW s \in Scrapers, ScrapeStep(s) PROVE VInv'
    <2>1. CASE s = "ticker" /\ Tick
      BY <1>0, <2>1, BeginVInv DEF Tick, TypeOK
    <2>2. CASE CopySelectors(s)
      <3>1. TypeOK'
        BY <1>0, <2>2 DEF CopySelectors, Goto, TypeOK
      <3>2. using'[s] # None /\ \A t \in Scrapers \ {s} : using'[t] = using[t]
        BY <1>0, <2>2, VRAMAssumption DEF CopySelectors, TypeOK
      <3> QED BY <2>2, <3>1, <3>2, QuietVInv DEF CopySelectors, Goto
    <2>3. CASE ListNodes(s)
      <3>1. TypeOK'
        <4>0. cluster.hosts[using[s]] \in SUBSET Nodes
          BY <1>0, <2>3, VRAMAssumption
          DEF ListNodes, Goto, TypeOK, ClusterStates, VInv, InHand
        <4>1. pending' \in [Scrapers -> SUBSET Nodes]
          BY <1>0, <2>3, <4>0 DEF ListNodes, TypeOK
        <4> QED BY <1>0, <2>3, <4>1 DEF ListNodes, Goto, TypeOK
      <3>2. \A t \in Scrapers \ {s} : using'[t] = using[t]
        BY <1>0, <2>3 DEF ListNodes, TypeOK
      <3> QED BY <2>3, <3>1, <3>2, QuietVInv DEF ListNodes, Goto
    <2>4. CASE ListFails(s)
      <3>1. TypeOK'
        BY <1>0, <2>4 DEF ListFails, Goto, TypeOK
      <3>2. \A t \in Scrapers \ {s} : using'[t] = using[t]
        BY <1>0, <2>4 DEF ListFails, TypeOK
      <3> QED BY <2>4, <3>1, <3>2, QuietVInv DEF ListFails, Goto
    <2>5. CASE \E missed \in SUBSET Nodes : FindExporters(s, missed)
      <3>1. TypeOK'
        BY <1>0, <2>5 DEF FindExporters, Goto, TypeOK
      <3> QED BY <2>5, <3>1, QuietVInv DEF FindExporters, Goto
    <2>6. CASE \E n \in Nodes : Scrape(s, n)
      BY <2>6, ScrapeVInv
    <2>7. CASE \E n \in Nodes : ScrapeFails(s, n)
      <3>1. TypeOK' /\ pc' = [pc EXCEPT ![s] = "scrape"]
        BY <1>0, <2>7 DEF ScrapeFails, TypeOK
      <3> QED BY <2>7, <3>1, QuietVInv DEF ScrapeFails
    <2>8. CASE Store(s)
      BY <2>8, StoreVInv
    <2>9. CASE CopyMetrics(s)
      <3>1. TypeOK'
        BY <1>0, <2>9 DEF CopyMetrics, Goto, TypeOK
      <3> QED BY <2>9, <3>1, QuietVInv DEF CopyMetrics, Goto
    <2>10. CASE RecordMetrics(s)
      <3>1. TypeOK'
        BY <1>0, <2>10 DEF RecordMetrics, Goto, TypeOK, MaybeMetrics, Empty
      <3> QED BY <2>10, <3>1, QuietVInv DEF RecordMetrics, Goto
    <2> QED BY <1>1, <2>1, <2>2, <2>3, <2>4, <2>5, <2>6, <2>7, <2>8, <2>9, <2>10
            DEF ScrapeStep
  <1>2. CASE Update
    <2>1. ASSUME NEW s \in Rescrapes, NEW sc \in Scopes, UpdateSelector(s, sc)
          PROVE  VInv'
      BY <2>1, BeginVInv DEF UpdateSelector, Scrapers
    <2>2. ASSUME NEW sc \in Scopes, UpdateNamespace(sc)
          PROVE  VInv'
      BY <2>2 DEF UpdateNamespace, VInv, TypeOK, InHand, OverlapIsNoted,
                  SamplesInOrder, Active
    <2> QED BY <1>2, <2>1, <2>2 DEF Update
  <1>3. ASSUME NEW c \in Clusters, ClusterChanges(c) PROVE VInv'
    BY <1>3 DEF ClusterChanges, VInv, TypeOK, InHand, OverlapIsNoted,
                SamplesInOrder, Active
  <1>4. ASSUME NEW n \in Nodes, UsageChanges(n) PROVE VInv'
    <2>1. TypeOK'
      BY <1>0, <1>4, VRAMAssumption DEF UsageChanges, TypeOK
    <2>2. \A q \in Nodes : version[q] \in 0 .. MaxChanges /\ version'[q] \in 0 .. MaxChanges
                           /\ version[q] <= version'[q]
      BY <1>0, <1>4, VRAMAssumption DEF UsageChanges, TypeOK
    <2>3. SamplesInOrder'
      <3>1. \A q \in Nodes : metrics[q] # None => metrics[q].lastUpdate \in 0 .. MaxChanges
        BY <1>0 DEF TypeOK, MaybeMetrics, MetricsRecord
      <3>2. \A t \in Scrapers : sample[t] # None =>
              sample[t][1] \in Nodes /\ sample[t][2].lastUpdate \in 0 .. MaxChanges
        BY <1>0 DEF TypeOK, MetricsRecord
      <3>3. UNCHANGED <<metrics, sample, overlapped>>
        BY <1>4 DEF UsageChanges
      <3> QED BY <2>2, <3>1, <3>2, <3>3, VRAMAssumption DEF VInv, SamplesInOrder
    <2> QED BY <1>4, <2>1, <2>3
            DEF UsageChanges, VInv, InHand, OverlapIsNoted, Active
  <1>5. CASE UNCHANGED vars
    BY <1>5 DEF vars, VInv, TypeOK, InHand, OverlapIsNoted, SamplesInOrder, Active
  <1> QED BY <1>1, <1>2, <1>3, <1>4, <1>5 DEF Next, Cluster

\* The invariant holds in every reachable state.
THEOREM VInvariance == Spec => []VInv
  BY InitVInv, NextVInv, PTL DEF Spec

\* Every stored and exported sample is whole, and its available VRAM is not
\* negative, whatever the exporters report: also for NaN, infinities, negative
\* figures, and differences that wrap around.
THEOREM VRAMTypeCorrect == Spec => []TypeOK
  <1>1. VInv => TypeOK
    BY DEF VInv
  <1> QED BY <1>1, VInvariance, PTL

\* Only Store touches the metrics; a scrape that is alone stores nothing older.
LEMMA StoreGoesForward ==
  ASSUME VInv, [Next]_vars, NEW n \in Nodes, metrics[n] # None
  PROVE  /\ metrics'[n] # None
         /\ \/ metrics'[n].lastUpdate >= metrics[n].lastUpdate
            \/ \E s \in overlapped : sample[s] # None /\ sample'[s] = None
  <1>1. CASE \E s \in Scrapers : Store(s)
    <2>1. PICK s \in Scrapers : Store(s)
      BY <1>1
    <2>2. sample[s] # None /\ sample'[s] = None
      BY <2>1 DEF Store, Goto, VInv, InHand, TypeOK
    <2>3. metrics'[n] = IF n = sample[s][1] THEN sample[s][2] ELSE metrics[n]
      BY <2>1 DEF Store, VInv, TypeOK, MaybeMetrics
    <2>4. metrics[n] \in MetricsRecord /\ sample[s] \in Nodes \X MetricsRecord
      BY <2>2 DEF VInv, TypeOK, MaybeMetrics
    <2>5. metrics'[n] # None
      BY <2>3, <2>4, VRAMAssumption
    <2>6. CASE n # sample[s][1]
      BY <2>3, <2>4, <2>5, <2>6, VRAMAssumption DEF MetricsRecord
    <2>7. CASE n = sample[s][1] /\ s \notin overlapped
      <3>1. metrics[n].lastUpdate <= sample[s][2].lastUpdate
        BY <2>2, <2>7 DEF VInv, SamplesInOrder
      <3> QED BY <2>3, <2>4, <2>5, <2>7, <3>1, VRAMAssumption DEF MetricsRecord
    <2>8. CASE s \in overlapped
      BY <2>2, <2>5, <2>8
    <2> QED BY <2>6, <2>7, <2>8
  <1>2. CASE ~ \E s \in Scrapers : Store(s)
    <2>1. metrics' = metrics
      BY <1>2 DEF Next, ScrapeStep, Update, Cluster, Tick, UpdateSelector, UpdateNamespace,
         CopySelectors, ListNodes, ListFails, FindExporters, Scrape, ScrapeFails,
         CopyMetrics, RecordMetrics, ClusterChanges, UsageChanges, vars, trackerVars
    <2>2. metrics[n].lastUpdate \in 0 .. MaxChanges
      BY DEF VInv, TypeOK, MaybeMetrics, MetricsRecord
    <2> QED BY <2>1, <2>2, VRAMAssumption
  <1> QED BY <1>1, <1>2

\* A sample is replaced by an older one only if the scrape that stores it has run
\* beside another: the loop of Start alone keeps the order.
THEOREM OnlyOverlapGoesBack == Spec => OlderOnlyByOverlap
  <1>1. VInv /\ [Next]_vars =>
          [\A n \in Nodes :
             metrics[n] # None =>
                /\ metrics'[n] # None
                /\ \/ metrics'[n].lastUpdate >= metrics[n].lastUpdate
                   \/ \E s \in overlapped : sample[s] # None /\ sample'[s] = None]_vars
    BY StoreGoesForward
  <1> QED BY <1>1, VInvariance, PTL DEF Spec, OlderOnlyByOverlap

\* A finite set of naturals that is not empty has a greatest element: among its
\* subsets without one there would be a smallest.
LEMMA GreatestNatural ==
  ASSUME NEW S \in SUBSET Nat, IsFiniteSet(S), S # {}
  PROVE  \E m \in S : \A n \in S : m >= n
  <1> DEFINE HasGreatest(T) == \E m \in T : \A n \in T : m >= n
             Bad == {T \in SUBSET S : T # {} /\ ~ HasGreatest(T)}
  <1> SUFFICES ASSUME Bad # {} PROVE FALSE
    OBVIOUS
  <1>1. IsWellFoundedOn(StrictSubsetOrdering(S), SUBSET S)
    BY FS_FiniteSubsetsOfFinite, FS_StrictSubsetOrderingWellFounded
  <1>2. PICK T \in Bad : \A U \in Bad : <<U, T>> \notin StrictSubsetOrdering(S)
    <2> HIDE DEF Bad
    <2>1. Bad \subseteq SUBSET S
      BY DEF Bad
    <2> QED BY <1>1, <2>1, WFMin
  <1>3. PICK x \in T : TRUE
    OBVIOUS
  <1>4. T \ {x} \notin Bad
    BY <1>2, <1>3 DEF StrictSubsetOrdering
  <1>5. T \ {x} = {} \/ HasGreatest(T \ {x})
    BY <1>4
  <1>6. CASE T \ {x} = {}
    <2>1. T = {x}
      BY <1>3, <1>6
    <2> QED BY <2>1
  <1>7. CASE HasGreatest(T \ {x})
    <2>1. PICK y \in T \ {x} : \A n \in T \ {x} : y >= n
      BY <1>7
    <2>2. x \in Nat /\ \A n \in T : n \in Nat
      BY <1>3
    <2>3. HasGreatest(T)
      <3>1. CASE x >= y
        BY <1>3, <2>1, <2>2, <3>1
      <3>2. CASE ~ (x >= y)
        BY <1>3, <2>1, <2>2, <3>2
      <3> QED BY <3>1, <3>2
    <2> QED BY <2>3
  <1> QED BY <1>5, <1>6, <1>7

\* What Score divides by: no node has more than MaxAvailable, and if it is not
\* zero some node has just that.
LEMMA MaxAvailableIsMaximum ==
  ASSUME TypeOK
  PROVE  /\ MaxAvailable \in 0 .. MaxInt
         /\ \A n \in Known : metrics[n].available \in Nat /\ metrics[n].available <= MaxAvailable
  <1> DEFINE free == {metrics[n].available : n \in Known}
             all == {0} \union free
  <1>1. \A n \in Known : metrics[n].available \in 0 .. MaxInt
    BY DEF Known, TypeOK, MaybeMetrics, MetricsRecord
  <1>2. all \in SUBSET (0 .. MaxInt) /\ all # {} /\ all \in SUBSET Nat
    BY <1>1, VRAMAssumption
  <1>3. IsFiniteSet(all)
    <2>1. IsFiniteSet(Known)
      BY NodesAssumption, FS_Subset DEF Known
    <2> DEFINE f == [n \in Known |-> metrics[n].available]
    <2>2. f \in Surjection(Known, free)
      BY DEF Surjection
    <2>3. IsFiniteSet(free)
      BY <2>1, <2>2, FS_Surjection
    <2> HIDE DEF free
    <2>4. IsFiniteSet(free \union {0})
      BY <2>3, FS_AddElement
    <2>5. all = free \union {0}
      OBVIOUS
    <2> QED BY <2>4, <2>5
  <1>4. \E m \in all : \A n \in all : m >= n
    <2> HIDE DEF all
    <2> QED BY <1>2, <1>3, GreatestNatural
  <1>5. MaxAvailable \in all /\ \A n \in all : MaxAvailable >= n
    <2> HIDE DEF all
    <2>1. MaxAvailable = Max(all)
      BY DEF MaxAvailable, all
    <2> QED BY <1>4, <2>1 DEF Max
  <1> QED BY <1>1, <1>2, <1>5

\* A share rounded down does not fall when what is divided grows, and is not
\* zero if that is no smaller than the divisor.
LEMMA ShareIsMonotone ==
  ASSUME NEW k \in Nat, NEW x \in Nat, NEW y \in Nat, NEW m \in Nat \ {0}
  PROVE  /\ (k * x) \div m \in Nat
         /\ x <= y => (k * x) \div m <= (k * y) \div m
         /\ k * x >= m => (k * x) \div m >= 1
  <1>1. k * x \in Nat /\ k * y \in Nat /\ (x <= y => k * x <= k * y)
    OBVIOUS
  <1> DEFINE a == k * x
             b == k * y
  <1>2. a \in Nat /\ b \in Nat /\ (x <= y => a <= b)
    BY <1>1
  <1> HIDE DEF a, b
  <1>3. a \div m \in Nat
    BY <1>2
  <1>4. x <= y => a \div m <= b \div m
    BY <1>2
  <1>5. a >= m => a \div m >= 1
    BY <1>2
  <1> QED BY <1>3, <1>4, <1>5 DEF a, b

\* Score follows from the free VRAM of the node and the largest one.
LEMMA ScoreRanks == TypeOK => ScoreRanksByVRAM
  <1> SUFFICES ASSUME TypeOK PROVE ScoreRanksByVRAM
    OBVIOUS
  <1> DEFINE free(n) == metrics[n].available
             k == 9 * Resolution
             share(n) == (k * free(n)) \div MaxAvailable
  <1>1. /\ MaxAvailable \in 0 .. MaxInt /\ MaxInt \in Nat
        /\ \A n \in Known : free(n) \in Nat /\ free(n) <= MaxAvailable
    BY MaxAvailableIsMaximum, VRAMAssumption
  <1>2. Score(None) = 0
    BY VRAMAssumption DEF Score, Known
  <1>3. ASSUME NEW n \in Known, free(n) >= Threshold
        PROVE  MaxAvailable \in Nat \ {0} /\ Score(n) = Resolution + share(n)
    <2>1. MaxAvailable \in Nat \ {0}
      BY <1>1, <1>3, ThresholdAssumption
    <2> QED BY <1>1, <1>3, <2>1, ThresholdAssumption DEF Score
  <1>4. ASSUME NEW n \in Known, free(n) < Threshold
        PROVE  Score(n) = Resolution
    BY <1>4 DEF Score
  <1>5. ASSUME NEW n \in Known, free(n) >= Threshold
        PROVE  share(n) \in Nat /\ share(n) >= 1
    <2>1. k \in Nat /\ Threshold \in Nat /\ k * Threshold >= MaxInt
      BY <1>1, ThresholdAssumption
    <2> HIDE DEF k
    <2>2. k * free(n) >= k * Threshold /\ k * free(n) \in Nat
      BY <1>1, <1>5, <2>1
    <2>3. k * free(n) >= MaxAvailable
      BY <1>1, <2>1, <2>2
    <2> QED BY <1>1, <1>3, <1>5, <2>1, <2>3, ShareIsMonotone
  <1>6. ASSUME NEW n \in Known, NEW q \in Known,
               Threshold <= free(n), free(n) <= free(q)
        PROVE  share(n) <= share(q)
    <2>1. k \in Nat
      BY ThresholdAssumption
    <2> HIDE DEF k
    <2> QED BY <1>1, <1>3, <1>6, <2>1, ShareIsMonotone
  <1> HIDE DEF free, share
  <1>7. ASSUME NEW n \in Known, NEW q \in Known
        PROVE  /\ Score(None) <= Score(n)
               /\ free(n) <= free(q) => Score(n) <= Score(q)
               /\ free(n) < Threshold /\ Threshold <= free(q) => Score(n) < Score(q)
    BY <1>1, <1>2, <1>3, <1>4, <1>5, <1>6, ThresholdAssumption
  <1>8. ASSUME NEW n \in Known, NEW q \in NodesWithMostAvailableVRAM
        PROVE  q \in Known /\ free(n) <= free(q)
    BY <1>8 DEF NodesWithMostAvailableVRAM, free
  <1> QED BY <1>7, <1>8 DEF ScoreRanksByVRAM, free

\* Scores follow the order of the free VRAM, as far as rounding keeps it, and
\* tell the nodes at the threshold from those below it: whatever the exporters
\* report and in whatever order scrapes store their samples.
THEOREM ScoresRankByVRAM == Spec => []ScoreRanksByVRAM
  BY VRAMTypeCorrect, ScoreRanks, PTL

=============================================================================
