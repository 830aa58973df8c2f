----------------------------- MODULE VRAMTracker -----------------------------
(***************************************************************************)
(* The VRAM tracker (internal/vram): scrapes that discover the nodes of    *)
(* the model servers, look up their exporters and store one sample per     *)
(* node.  The loop of Start runs one scrape at a time; every update of a   *)
(* selector starts another one beside it.                                  *)
(*                                                                         *)
(* An action is one critical section, one API call or one HTTP exchange of *)
(* a scrape.  Cluster and exporters are external.                          *)
(***************************************************************************)
EXTENDS Integers

CONSTANTS
    Nodes,
    Scopes,         \* values of (namespace, podSelector, nodeSelector)
    Rescrapes,      \* bound: scrapes of selector updates running at a time
    Report,         \* Report[n][v]: the v-th figures the exporter of n shows
    MaxChanges,     \* bound: changes of the figures of a node
    Clusters,       \* bound: what the cluster can look like, see ClusterStates
    DefaultTotal,   \* DefaultTotalVRAMGB * BytesPerGB
    MaxInt,         \* the largest int64
    NaN, PosInf, NegInf, \* what a float64 has besides: the infinities stand for
                    \* everything that is too large for an int64
    Platform,       \* GOARCH of the build
    Instrumented,   \* is there an Instrumentation?
    None

\* Nodes with a running pod of each scope, nodes with a running exporter, and
\* nodes whose exporter does not answer.
ClusterStates ==
    [hosts : [Scopes -> SUBSET Nodes], exporters : SUBSET Nodes, silent : SUBSET Nodes]

MinInt == - MaxInt - 1
Int64 == MinInt .. MaxInt
NotInt64 == {NaN, PosInf, NegInf}

\* What an exporter shows; fractions are left out, the conversion drops them.
\* None if there is no such metric.
Figures == [total : Int64 \union NotInt64 \union {None},
            used  : Int64 \union NotInt64 \union {None}]

\* Metrics; its time stamp is the number of the report it was made from.
MetricsRecord ==
    [total : Int64, used : Int64, available : 0 .. MaxInt, lastUpdate : 0 .. MaxChanges]

ASSUME VRAMAssumption ==
    /\ None \notin Nodes /\ None \notin Scopes /\ None \notin Int
    /\ None \notin MetricsRecord /\ None \notin Nodes \X MetricsRecord
    /\ "ticker" \notin Rescrapes
    /\ MaxChanges \in Nat
    /\ Report \in [Nodes -> [0 .. MaxChanges -> Figures]]
    /\ Clusters \subseteq ClusterStates
    /\ MaxInt \in Nat
    /\ \A x \in NotInt64 : x \notin Int /\ x # None
    /\ Platform \in {"amd64", "arm64"}
    /\ DefaultTotal \in 0 .. MaxInt
    /\ Instrumented \in BOOLEAN

\* The goroutine of Start, and those of UpdatePodSelector and UpdateNodeSelector.
Scrapers == {"ticker"} \union Rescrapes

VARIABLES
    scope,      \* what KubernetesDiscovery selects by
    metrics,    \* Tracker.metrics
    recorded,   \* OTelInstrumentation.currentMetrics
    pc,         \* where each scrape stands
    using,      \* the copy of scope DiscoverEndpoints works with
    pending,    \* nodes, later endpoints, the scrape has still to visit
    sample,     \* figures read and not yet stored: <<node, metrics>>
    copied,     \* metricsCopy
    cluster,    \* pods and exporters at present
    version,    \* node -> which of its reports its exporter shows
    overlapped  \* history: scrapes that have run beside another one

trackerVars == <<scope, metrics, recorded>>
clusterVars == <<cluster, version>>
vars == <<trackerVars, pc, using, pending, sample, copied, clusterVars, overlapped>>

Empty == [n \in Nodes |-> None]

Init ==
    /\ scope \in Scopes
    /\ metrics = Empty /\ recorded = Empty
    /\ pc = [s \in Scrapers |-> "idle"]
    /\ using = [s \in Scrapers |-> None]
    /\ pending = [s \in Scrapers |-> {}]
    /\ sample = [s \in Scrapers |-> None]
    /\ copied = [s \in Scrapers |-> Empty]
    /\ cluster \in Clusters
    /\ version = [n \in Nodes |-> 0]
    /\ overlapped = {}

Goto(s, a, b) == pc[s] = a /\ pc' = [pc EXCEPT ![s] = b]

-----------------------------------------------------------------------------
(* Scrape: what is read from an exporter *)

\* int64(x), for a float64 x: beyond the range of int64 the language leaves the
\* result open; amd64 has one value for everything, arm64 takes the nearest.
ToInt64(x) ==
    IF x \in Int64 THEN x
    ELSE IF Platform = "amd64" \/ x = NegInf THEN MinInt
    ELSE IF x = PosInf THEN MaxInt
    ELSE 0

\* The difference of two numbers of type int64 wraps around.
Wrap(d) ==
    IF d > MaxInt THEN d - 2 * (MaxInt + 1)
    ELSE IF d < MinInt THEN d + 2 * (MaxInt + 1)
    ELSE d

\* An absent metric counts as the default total, or as nothing used.
Total(figures) == IF figures.total = None THEN DefaultTotal ELSE ToInt64(figures.total)
Used(figures) == IF figures.used = None THEN 0 ELSE ToInt64(figures.used)

Metrics_Unclamped(figures, time) ==
    [total |-> Total(figures), used |-> Used(figures),
     available |-> Wrap(Total(figures) - Used(figures)), lastUpdate |-> time]

Metrics(figures, time) ==
    LET free == Wrap(Total(figures) - Used(figures)) IN
    [total |-> Total(figures), used |-> Used(figures),
     available |-> IF free > 0 THEN free ELSE 0, lastUpdate |-> time]

Current(n) == Metrics(Report[n][version[n]], version[n])
Answers(n) == n \in cluster.exporters \ cluster.silent

-----------------------------------------------------------------------------
(* scrapeMetrics *)

Active(s) == pc[s] # "idle"

\* A scrape begins.  It and those it meets have overlapped.
Begin(s) ==
    LET others == {t \in Scrapers \ {s} : Active(t)} IN
    /\ Goto(s, "idle", "discover")
    /\ overlapped' = IF others = {} THEN overlapped \ {s}
                                    ELSE overlapped \union others \union {s}

\* (variant: go t.scrapeMetrics at every tick, whatever still runs)
Tick_Concurrent ==
    /\ \E s \in Scrapers : Goto(s, "idle", "discover")
    /\ UNCHANGED <<trackerVars, using, pending, sample, copied, clusterVars, overlapped>>

\* Start: the initial scrape, then one for every tick.
Tick ==
    /\ Begin("ticker")
    /\ UNCHANGED <<trackerVars, using, pending, sample, copied, clusterVars>>

\* UpdatePodSelector, UpdateNodeSelector: a rescrape in a goroutine of its own.
UpdateSelector(s, sc) ==
    /\ Begin(s)
    /\ scope' = sc
    /\ UNCHANGED <<metrics, recorded, using, pending, sample, copied, clusterVars>>

UpdateNamespace(sc) ==
    /\ scope' = sc
    /\ UNCHANGED <<metrics, recorded, pc, using, pending, sample, copied, clusterVars,
                   overlapped>>

\* DiscoverEndpoints: copy the selectors under the lock,
CopySelectors(s) ==
    /\ Goto(s, "discover", "list")
    /\ using' = [using EXCEPT ![s] = scope]
    /\ UNCHANGED <<trackerVars, pending, sample, copied, clusterVars, overlapped>>

\* list pods and nodes (an error ends the scrape),
ListNodes(s) ==
    /\ Goto(s, "list", "lookup")
    /\ pending' = [pending EXCEPT ![s] = cluster.hosts[using[s]]]
    /\ using' = [using EXCEPT ![s] = None]
    /\ UNCHANGED <<trackerVars, sample, copied, clusterVars, overlapped>>

ListFails(s) ==
    /\ Goto(s, "list", "idle")
    /\ using' = [using EXCEPT ![s] = None]
    /\ UNCHANGED <<trackerVars, pending, sample, copied, clusterVars, overlapped>>

\* and look up an exporter for each node: those without one are left out, and
\* so are the ones in missed, whose lookup failed or came too early.
FindExporters(s, missed) ==
    /\ Goto(s, "lookup", "scrape")
    /\ pending' = [pending EXCEPT ![s] = (@ \intersect cluster.exporters) \ missed]
    /\ UNCHANGED <<trackerVars, using, sample, copied, clusterVars, overlapped>>

Scrape(s, n) ==
    /\ Goto(s, "scrape", "store")
    /\ n \in pending[s] /\ Answers(n)
    /\ sample' = [sample EXCEPT ![s] = <<n, Current(n)>>]
    /\ UNCHANGED <<trackerVars, using, pending, copied, clusterVars, overlapped>>

ScrapeFails_EndsScrape(s, n) ==
    /\ Goto(s, "scrape", "idle")
    /\ n \in pending[s]
    /\ pending' = [pending EXCEPT ![s] = {}]
    /\ UNCHANGED <<trackerVars, using, sample, copied, clusterVars, overlapped>>

\* The loop continues with the other endpoints.
ScrapeFails(s, n) ==
    /\ pc[s] = "scrape"
    /\ n \in pending[s]
    /\ pending' = [pending EXCEPT ![s] = @ \ {n}]
    /\ UNCHANGED <<trackerVars, pc, using, sample, copied, clusterVars, overlapped>>

\* t.metrics[endpoint.NodeName] = nodeMetrics
Store(s) ==
    /\ Goto(s, "store", "scrape")
    /\ metrics' = [metrics EXCEPT ![sample[s][1]] = sample[s][2]]
    /\ pending' = [pending EXCEPT ![s] = @ \ {sample[s][1]}]
    /\ sample' = [sample EXCEPT ![s] = None]
    /\ UNCHANGED <<scope, recorded, using, copied, clusterVars, overlapped>>

\* The scrape is over, after a copy for the instrumentation if there is one.
CopyMetrics(s) ==
    /\ pending[s] = {}
    /\ IF Instrumented
         THEN /\ Goto(s, "scrape", "record")
              /\ copied' = [copied EXCEPT ![s] = metrics]
         ELSE Goto(s, "scrape", "idle") /\ UNCHANGED copied
    /\ UNCHANGED <<trackerVars, using, pending, sample, clusterVars, overlapped>>

\* OTelInstrumentation.RecordMetrics
RecordMetrics(s) ==
    /\ Goto(s, "record", "idle")
    /\ recorded' = copied[s]
    /\ copied' = [copied EXCEPT ![s] = Empty]
    /\ UNCHANGED <<scope, metrics, using, pending, sample, clusterVars, overlapped>>

ScrapeStep(s) ==
    \/ s = "ticker" /\ Tick
    \/ CopySelectors(s)
    \/ ListNodes(s)
    \/ ListFails(s)
    \/ \E missed \in SUBSET Nodes : FindExporters(s, missed)
    \/ \E n \in Nodes : Scrape(s, n)
    \/ \E n \in Nodes : ScrapeFails(s, n)
    \/ Store(s)
    \/ CopyMetrics(s)
    \/ RecordMetrics(s)

Update ==
    \/ \E s \in Rescrapes, sc \in Scopes : UpdateSelector(s, sc)
    \/ \E sc \in Scopes : UpdateNamespace(sc)

-----------------------------------------------------------------------------
(* The cluster *)

\* Pods come and go, exporters too, and some stop answering.
ClusterChanges(c) ==
    /\ cluster' = c
    /\ UNCHANGED <<trackerVars, pc, using, pending, sample, copied, version, overlapped>>

\* The figures of a node change.
UsageChanges(n) ==
    /\ version[n] < MaxChanges
    /\ version' = [version EXCEPT ![n] = @ + 1]
    /\ UNCHANGED <<trackerVars, pc, using, pending, sample, copied, cluster, overlapped>>

Cluster ==
    \/ \E c \in Clusters : ClusterChanges(c)
    \/ \E n \in Nodes : UsageChanges(n)

Next == (\E s \in Scrapers : ScrapeStep(s)) \/ Update \/ Cluster

Spec == Init /\ [][Next]_vars

\* The ticker keeps firing, and timeouts end every exchange of a scrape.
FairSpec == Spec /\ \A s \in Scrapers : WF_vars(ScrapeStep(s))

-----------------------------------------------------------------------------
(* What readers get *)

Known == {n \in Nodes : metrics[n] # None}

\* GetNodeWithMostAvailableVRAM: the map is visited in any order, so each of
\* these may be returned; there is an error if there is none.
NodesWithMostAvailableVRAM ==
    {n \in Known : /\ metrics[n].available > 0
                   /\ \A q \in Known : metrics[q].available <= metrics[n].available}

-----------------------------------------------------------------------------
(* Properties *)

MaybeMetrics == [Nodes -> MetricsRecord \union {None}]

\* Types of the tracker and its scrapes.  What is stored are whole samples, and
\* "available must never be negative", whatever the exporters report: a negative
\* total, NaN, an infinity (only that: total and used may well be negative, and
\* what is available may be wrong, see Wrap).
TypeOK ==
    /\ scope \in Scopes
    /\ metrics \in MaybeMetrics
    /\ recorded \in MaybeMetrics
    /\ pc \in [Scrapers -> {"idle", "discover", "list", "lookup", "scrape", "store",
                            "record"}]
    /\ using \in [Scrapers -> Scopes \union {None}]
    /\ pending \in [Scrapers -> SUBSET Nodes]
    /\ sample \in [Scrapers -> (Nodes \X MetricsRecord) \union {None}]
    /\ copied \in [Scrapers -> MaybeMetrics]
    /\ cluster \in Clusters
    /\ version \in [Nodes -> 0 .. MaxChanges]
    /\ overlapped \subseteq Scrapers

\* A scrape has a sample exactly between reading and storing it, and selectors
\* when it lists by them.
InHand ==
    \A s \in Scrapers : /\ pc[s] = "store" <=> sample[s] # None
                        /\ pc[s] = "list" => using[s] # None

\* Scrapes that run side by side know of it.
OverlapIsNoted ==
    \A s, t \in Scrapers : Active(s) /\ Active(t) /\ s # t => s \in overlapped

\* Nothing stems from the future, and a scrape that is alone has a sample at
\* least as new as the one it replaces.
SamplesInOrder ==
    /\ \A n \in Nodes : metrics[n] # None => metrics[n].lastUpdate <= version[n]
    /\ \A s \in Scrapers : sample[s] # None =>
        LET n == sample[s][1] IN
        /\ sample[s][2].lastUpdate <= version[n]
        /\ s \in overlapped \/ metrics[n] = None
             \/ metrics[n].lastUpdate <= sample[s][2].lastUpdate

\* The inductive invariant behind the next property.
VInv == TypeOK /\ InHand /\ OverlapIsNoted /\ SamplesInOrder

\* "GetMetrics returns current VRAM metrics": the sample of a node is never
\* replaced by an older one, unless the scrape that stores it has run beside
\* another, which only an update of the selectors brings about.
OlderOnlyByOverlap ==
    [][\A n \in Nodes :
         metrics[n] # None =>
            /\ metrics'[n] # None
            /\ \/ metrics'[n].lastUpdate >= metrics[n].lastUpdate
               \/ \E s \in overlapped : sample[s] # None /\ sample'[s] = None]_vars

\* Something changes in the cluster or the configuration, or an exchange fails
\* that could have succeeded.
Disturbance ==
    \/ Cluster
    \/ Update
    \/ \E s \in Scrapers : ListFails(s)
    \/ \E s \in Scrapers, n \in cluster.exporters :
         pc[s] = "lookup" /\ n \in pending[s] /\ n \notin pending'[s]
    \/ \E s \in Scrapers, n \in Nodes : Answers(n) /\ ScrapeFails(s, n)

\* Nodes with model servers and an exporter that answers.
Healthy == {n \in cluster.hosts[scope] : Answers(n)}

Exact(view) == \A n \in Healthy : view[n] = Current(n)

\* Once cluster and configuration are left alone, the figures of every healthy
\* node become current and stay so, in the tracker and in the exported gauges,
\* whatever older samples were under way and however many exporters stay silent.
FiguresConverge ==
    <>[][~ Disturbance]_vars =>
        <>[](Exact(metrics) /\ (Instrumented => Exact(recorded)))

=============================================================================
