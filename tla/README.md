# Verification of the ROCm llama.cpp endpoint picker

TLA+ models, TLC runs and TLAPS proofs for the endpoint picker in `src/`: a
Go program that plugs on-demand model loading, a warm-pod filter, duplicate
removal and VRAM scoring into the Gateway API Inference Extension.
`PROJECT.json` lists components, runs, mutants, hazards and theorems, and maps
every modelling definition to the lines it stands for.

## 1. Inventory

| Part | State | Operations | Interacts with |
|---|---|---|---|
| Model loader (`plugins/modelloader`) | `loadedModels`, `loadingModels`, one `loadResult` per load | `PreRequest` (many at once), `InvalidateLoadedModel`, `ClearLoadedModelsCache` | asks and loads on the llama-servers by HTTP; marks and retracts in the tracker |
| Model tracker (`modeltracker`) | `loaded`, `podIP`, `dupObs`, `firstPoll` | `MarkLoaded`, `MarkUnloaded`, `IsLoaded`; one goroutine: `pollOnce`, `resolveDuplicates` | polls and unloads on the servers; calls the loader back after an unload; reads pressure |
| Loaded-model filter (`plugins/filter`) | none of its own | `Filter` | reads the tracker pod by pod, writes the pod-state cache |
| Pod-state cache (`podstate`) | last load figure per pod | `Update`, `Pressure` | between filter and tracker |
| Router (`router`) | `models`, `loadingModels`, a Kubernetes Lease per model | `GetModelEndpoint`, discovery, `UpdatePodSelector` | other replicas, through the API server |
| Pool manager and controller (`pool`, `controller`) | pools, default pool | `UpsertPool`, `DeletePool`, `Reconcile` | start a router and a VRAM tracker per pool |
| VRAM tracker, discovery, scraper, instrumentation (`vram`) | metrics per node, selectors, exported copy | `scrapeMetrics` (several at once), selector updates, best node | API server, exporters; read by scorer and router |
| VRAM scorer (`plugins/scorer`) | none | `Score` | VRAM tracker, API server |
| Telemetry, version, registration | none that is read back | | |

`cmd/epp/main.go` assembles loader, tracker, filter, cache, VRAM tracker and
scorer.  Router, pool manager and controller are described in the repository's
README as components but are not wired into that binary at this commit; only
tests construct them.

Hard behaviour, and what makes each part correct:

- *Loader.* Concurrent calls for one pod and model, each of which may be
  cancelled at any point.  Loads must be single-flight; every way out of a load
  must wake its waiters with the right outcome; a call that reports success
  must leave the model loaded; the cache must not outlive the model.
- *Tracker.* A slow poll that is overtaken by marks and retractions, failed
  queries that keep the old set object, and a dedup pass that acts on a
  snapshot.  The grace window must be consecutive; the pass must not remove the
  last copy; unloads must be announced; the view must recover from anything.
  The shipped deployment runs two replicas of all this over the same pods.
- *Filter.* Reads several pods without a common lock.
- *Router.* Mutual exclusion by two locks, one in memory and one a lease that
  survives crashes; a lost answer to Create; a failed release, whose Delete may
  still arrive later, when the lease is another call's; a discovery that replaces
  the map.
- *VRAM tracker.* A scrape of the ticker and scrapes of selector updates side by
  side; exporters that vanish, stop answering or report nonsense.  Figures must
  become current, available VRAM must not be negative, and scores must rank by it.
- *Pool manager.* An informer that lags, reads that fail, discoveries by an old
  selector.  The default must be a registered pool; pools must come to mirror
  the API objects.

`PROJECT.json` "hazards" has the complete list with line numbers.

## 2. Modules

| Module | Models |
|---|---|
| `ModelLoader` | `loader.go`: one process per `PreRequest` call; an action is one critical section of `Plugin.mu`, one HTTP exchange or one call into the tracker |
| `CoalescedLoads` | abstract specification of what the loader promises its callers: one leads, others follow, all are told the same at once |
| `LoadCoalescing` | the refinement mapping from `ModelLoader` to it |
| `ModelTracker` | `tracker.go`: the polling goroutine, with marks of other goroutines between its steps |
| `DedupHistory` | `ModelTracker` with history variables: the last observations, the marks retracted since the snapshot |
| `LoadedModelFilter` | `loaded_model.go` and `podstate/cache.go`: `Filter`, one pod at a time |
| `EndpointPicker` | loader, tracker and filter composed as in `main.go` (INSTANCE), with llama-server pods; answers, once free parameters, now come from the servers |
| `CacheCoherence` | `EndpointPicker` with one history variable, for the loader's cache |
| `ReplicatedDedup` | two instances of `ModelTracker` over the same servers |
| `Router` | `router.go`: `GetModelEndpoint` in both phases, leases, discovery, crashes |
| `LeaseHistory` | `Router` with history variables: the leases left behind, and those removed under a call that was loading |
| `VRAMTracker` | `vram/*.go`: scrapes, selectors, metrics, the copy for the gauges |
| `VRAMScorer` | `scorer/vram.go`: `Score` over the metrics of `VRAMTracker` |
| `PoolManager` | `pool/manager.go` and the controller, with API server, informer and work queue around them and the routers' discoveries |
| `...Proofs` | the theorems (section 4) |
| `MC...` | TLC instances, with symmetry sets where no liveness is checked |

How state corresponds:

- A `loadResult` (or `LoadingState`) is named after the call that created it;
  `result[r]` is `"pending"` until `done` is closed.  It is a heap object that
  outlives its call while someone waits on it, hence the guard of `Return`.
- `loadKey` is the pair of pod and model.
- `Tracker.loaded` is split into its keys (`tracked`) and the sets.  `kept`
  names pods whose old set *object* is in `next`: marks made before the commit
  still reach it, as they do in the code, where the set is shared, not copied.
- `dupObs` stops at `GracePolls`; the code only compares it with that number.
- Pods and models of the tracker are numbers because `pickLoser` and the list
  of ripe models use their order.
- `status` of a server is `unloaded`, `loading` or `loaded`; `loaded` stands for
  each of the values `loaded`, `running` and the empty one, which all code
  treats alike.
- In `Router` a call with a done ctx fails each API and HTTP exchange; `found`
  holds results of discoveries that have not been stored yet.  A Create or Delete
  that failed for its call, or whose process crashed, may be lost or may be under
  way still (`late`); it then takes effect in a step of its own (`Arrive`), right
  away or long after the call has returned.  `GetLease` sees the API server's
  current state: the one client that `main.go` creates is `crclient.New`, which
  reads without a cache.  (The controller is run by a manager, whose client does
  have one: hence the lagging informer of `PoolManager`.)
- In `VRAMTracker` namespace and selectors are one value, `scope`; the time of a
  sample is the number of the report it was made from.  The lookup of exporters
  is one step: a node found early in it whose exporter then vanishes cannot be
  scraped anyway.  Pods and nodes are listed in one step too.
- A figure of an exporter is any float64: a number, NaN or too large in either
  direction (`PosInf`, `NegInf`; the infinities are among these).  `ToInt64` is
  the conversion `int64(x)`, which Go leaves to the implementation outside the
  range, for the two platforms the program is built for; `Wrap` is the
  subtraction of two int64.  Fractions are left out.
- In `VRAMScorer` a score is an integer, a multiple of some smallest difference,
  and the division rounds: what is claimed about scores does not depend on exact
  arithmetic.  How fine the scores are is the constant `Resolution`; it is
  assumed to separate the threshold from nothing, which float64 does by far.
- In `PoolManager` pools are numbered as they are allocated, because the code
  compares pointers; a deleted pool keeps its goroutines.  The contexts of pool
  goroutines are those of `Reconcile`, which controller-runtime does not cancel
  unless a reconciliation timeout is configured; none is.

`EndpointPicker` takes a set `Faults`: `query` (a query fails), `post` (a load
request is refused), `load` (a load fails), `unload` (an unload fails), `lost`
(the server acts but the answer is lost), `evict` (a server drops a model by
itself: `--models-max`, restart), `pods` (a listing misses pods).

The choice of the pod by scorers and picker is arbitrary among what the filter
returns.  `pickLoser` and the unload exchange form one step.

## 3. Runs

Runs that pass:

| Run | Properties | Instance |
|---|---|---|
| `loader` | `TypeOK`, `SingleFlight`, `LoadingIsOwned`, `NoLostWaiter`, `EveryCallReturns`, `ImplementsCoalescing` (refinement) | 3 calls, 1 key |
| `tracker` | `TypeOK`, `GraceRespected`, `KeepsACopy`, `EveryUnloadIsAnnounced`, `NoStarvation` | 2 pods, 2 models, grace 2, 1 unload per cycle, 2 pressure levels |
| `picker_served` | `ServedMeansLoaded` | 2 calls, 1 pod, faults query, post, load, lost, pods |
| `picker_converge` | `StaleOnlyByRace`, `Converges` | 1 call, 2 pods, grace 2, every fault but pods |
| `router_safety` | `TypeOK`, `LeaseLostOnlyToLateDelete`, `SecondLoaderOnlyByLateDelete`, `LoadingIsOwned`, `LeakOnlyByFailure` | 2 replicas, 2 calls at a time, 1 model, 2 late requests |
| `vram` | `TypeOK`, `ScoreRanksByVRAM`, `OlderOnlyByOverlap`, `FiguresConverge` | 2 nodes, 2 scopes, ticker and 1 more scrape, 2 reports per node, 4 shapes of the cluster |
| `pools` | `TypeOK`, `DefaultIsRegistered`, `PoolsConverge` | 2 pools, 2 specs, 5 edits |

Runs that end in a violation, each of a statement in the repository (see
"findings" for the quotation):

| Run | What happens |
|---|---|
| `loader_retract` | a waiter that gives up retracts the mark of a load that goes on |
| `picker_stalecache` | unload and announcement between the server's answer and the cache insertion: the entry is stale for good |
| `dedup_replicas` | two replicas with different pressure data choose different losers of one duplicate; both copies are unloaded |
| `router_waiters` | one value in `Done`, several waiters |
| `router_leasettl` | nobody reads the lease duration |

Notes on these results:

- Both passing picker runs check `CacheCoherence`; its history variable restricts
  no step of `EndpointPicker`.
- `picker_converge` complements `picker_stalecache`: a stale entry of the cache
  is being announced, or stems from that race, or the server dropped the model
  without the tracker's knowledge (eviction, restart, lost answer to an unload).
  Neither of the last two is ever repaired: entries do not expire.
- In `dedup_replicas` both trackers act correctly on their own views.  With one
  pressure level, that is with equal data, both choose the same pod and a copy
  remains.  The deployment has two replicas, which see different requests, but
  the profile in `deployments/epp/epp.yaml` does not list the loaded-model filter,
  which collects the data: as shipped all pressures are zero.  Within
  one replica the last copy can go as well, if the other server evicts its own
  between the poll and the unload.
- The comment at `router.go:253`, "ensures only one replica loads", is not
  guaranteed: a call is cancelled during its Delete, the next call of the same
  replica finds the lease, takes it for its own (`router.go:623`) and loads; the
  Delete arrives, by name (`router.go:659`), and a second replica acquires the
  lease and loads too.  `SecondLoaderOnlyByLateDelete` says that this is the only
  way, and `LeaseLostOnlyToLateDelete` that no lease goes in another.
- Both rest on distinct replica names.  The mutant gives all replicas the name
  `unknown-replica`, which is what the code does without `POD_NAME`, and which
  `deployments/epp/epp.yaml` does not set.  Two routers of one process, for two
  pools of one namespace, share their name and lease names too and are not
  excluded from each other.
- In `router_leasettl` the lease is left by a crash, by a release whose ctx was
  done, or by a Create that took effect although its call was told otherwise.
- `NoStarvation` claims less than the comment at `tracker.go:639`.  It holds while
  at most `GracePolls * MaxUnloadsPerCycle` models are duplicated at a time, and
  says so in the formula; with more, the order by name starves the last one (13
  models under the defaults; two with a grace window of one, as TLC shows if the
  condition is removed).
- `KeepsACopy` is about what the pass does by itself: a mark that the loader
  retracts between snapshot and unmark is excused, and then the last mark may go
  until the next poll.
- `Converges` is about recovery after faults and requests cease.  It says nothing
  about a single `Filter` call that sees one pod before and another after a
  commit of the tracker.
- `TypeOK` of `VRAMTracker` has the assertion of the repository's fuzz test,
  that what is available is not negative.  It does not say that the number is
  right: on amd64 a total of NaN becomes the smallest int64, the subtraction wraps
  around, and the node looks almost infinitely free.
- `ScoreRanksByVRAM` is about the order of scores only.  It takes no side on
  scores below the threshold: `vram.go:40` and `vram.go:58` call the threshold the
  minimum "for a positive score", while the code gives 0.1 below it.
- `FiguresConverge` is about nodes that have model servers and an exporter that
  answers.  Figures of nodes that are gone are never removed, and
  `GetNodeWithMostAvailableVRAM` may return one; the router's load then fails
  with `ErrNoPodsOnNode` as long as that node looks the emptiest.
- `ConcurrentLoadLimit` is never read.

**Bounds.** Named in the configurations: calls, pods, models, replicas,
`GracePolls`, `MaxUnloadsPerCycle`, `Levels` (pressure values), `MaxDiscoveries`
(unfinished discoveries, of all replicas), `Connections` (late requests for leases),
`Rescrapes` (scrapes beside the ticker's), `MaxChanges` (changes of the figures of
a node), `MaxInt` (the largest int64) and `Resolution` (of scores), `Clusters`,
`MaxEdits` (changes of InferencePools).  Single-flight and mutual exclusion take
two calls to violate; in `loader` a third can be a waiter of a finished load whose
process has been reused.  In the router, whose calls recur as often as they like,
two at a time are one per replica, or a loading and a waiting one; and two late
requests can be a Create and a Delete of one lease, in any order.
Two pods make a duplicate; a grace window of two is the smallest that can be
interrupted; two models show the order of ripe models.  Two scrapes are the
fewest that overlap; the reports include a total that is absent, negative and NaN,
on amd64; the clusters include a silent and a missing exporter and scopes that select
different nodes.  Five edits are enough to create two pools, delete the default,
create it again and change it.  Except for edits and reports, operations recur
for ever, so the runs cover unbounded sequences of them.  What the proofs cover
does not depend on bounds.  `pools` does not check for deadlock: without pools
and without edits the manager has nothing to do.

**Fairness.** The Go scheduler runs goroutines that can run, every HTTP client
has a timeout (`ModelLoadTimeoutSeconds`, `PollTimeout`, the router's and the
scraper's constants), so an exchange ends, `waitForModelLoaded` has a deadline,
and tickers keep firing.  That is weak fairness of each call's steps, of the
polling goroutine, of each scrape and of each discovery.  Of the servers only
that a load ends, one way or the other; of the API machinery that the informer
catches up, and strong fairness of taking a key from the work queue, which is
first in, first out while the worker is now busy and now free.  No fairness is
asked of cancellations, new requests, crashes, evictions, edits or successful
answers.  `Converges`, `FiguresConverge` and `PoolsConverge` further assume that
disturbances cease, and say so in the formula.

**Mutants.** For each property of a passing run, a variant of one definition that
makes a plausible mistake (suffix `_...`, before the definition it varies); TLC
finds the property violated with it.

## 4. Proofs

All theorems hold for arbitrary sets of calls, pods, models, replicas, nodes and
pools, from the assumptions named in the modules (`NoneAssumption`,
`TrackerAssumption`, `RouterAssumption`, `VRAMAssumption`, `ThresholdAssumption`,
`NodesAssumption`, `PoolAssumption`, `PickerAssumption`: the null value differs from real ones,
tracker keys, models and pressure levels are natural numbers and 0, the pressure
of an unknown pod, is one of them, reports have figures of type float64, scores
are fine enough to tell the threshold from nothing, nodes are finitely many).

- **`ModelLoaderProofs`** proves `TypeCorrect`, `LoadsAreOwned`, `OneLoadPerKey`
  and `WaitersAreServed`.  `SingleFlight` alone is not inductive: it needs that
  `loadingModels` is exact (`LoadingIsOwned`), because that is what the check
  under the lock consults.  `NoLostWaiter` needs `LoadProgress`: a call that
  has not become a primary holds no result, and one in flight has not published.
- **`LoadCoalescingProofs`** proves `LoaderImplementsCoalescing`: the plugin
  refines `CoalescedLoads`.  Calls that wait are "following" until the result
  they wait for is stored, and "told" from then on; so the deferred function of
  `loadModel` is one announcement.  The step that needs the invariant is that
  one: whoever waits for this load has its key (`NoLostWaiter`), and whoever has
  its key and has not been told waits for this load (`LoadingIsOwned`).
- **`ModelTrackerProofs`** proves the invariant `TInv` of the tracker: its types,
  that every model on the ripe list is a mature duplicate of tracked pods, and
  that the victim is one of its holders.  It follows that the victim is still
  tracked when it is unmarked, so `MarkUnloaded` calls the observer.
- **`DedupProofs`** proves `TrackerTypeCorrect`, `GraceIsRespected`,
  `DedupKeepsACopy` and `UnloadsAreAnnounced` for any grace window and throttle.
  The invariant `HIInv` is `TInv` together with two facts about the history: it
  ties `dupObs` to the observations made (`CountsObservations`) and accounts for
  each mark of the snapshot (`MarksAccountedFor`): still there, retracted by the
  loader, or just removed by the pass itself.
- **`PickerProofs`** is about the composition, with every fault.
  - `PickerInvariance` and `PickerImplementsComponents`: each step of
    `EndpointPicker` is a step of `ModelLoader` or leaves it alone, and the same
    of `ModelTracker`, so their specifications, and with them the theorems above,
    hold of the assembled program.  This is not automatic: the arguments with
    which the components call each other must be ones the called module allows,
    which takes the other's invariant (the tracker announces a pod and a model of
    the pool because its victim holds the model; the loader marks a key because
    it has one; the filter has written a pressure for every pod).
  - `CacheIsCoherent` (`StaleOnlyByRace`).  The invariant `CInv` adds
    `AnswersAccountedFor`: a call about to insert an entry has a positive answer
    of the server, or the model has been dropped since and that is on record.
    When a server drops a model, this is announced or recorded; and an
    announcement lasts until it has removed the entry, because the pass has one
    victim at a time (`VictimIsHolder`) and never takes the silent return of
    `MarkUnloaded`.
  - `ServedUnlessDropped` (`ServedMeansLoaded` for any number of pods, in every
    behaviour in which no server drops a model) and `OnePodServes` (the same from
    conditions on the constants, those of the run: with one pod there are no
    duplicates, so the tracker unloads nothing).  `KnowledgeIsTrue` is the
    invariant: every entry of the cache, every call past a positive answer and
    every published success is right.  A waiter inherits the success of a call
    with the same key (`NoLostWaiter`).

  The theorems of the components are reached through instances of their proof
  modules (`LP`, `TP`); the lemmas `...Same` say that these define what the
  instances `L` and `T` of `EndpointPicker` define.
- **`RouterProofs`** proves `RouterTypeCorrect` and `RegistrationsAreOwned` from
  `RInv`, and `LeasesLeakOnlyByFailure`: a lease appears only by Create and its
  holder goes only by Delete or in a crash, and each of these either reports
  success or is recorded as a failure.  Under `PodNameSet` it also proves
  `LeaseNamesItsHolder` and `LeaseExcludes`, from `LInv`.  The argument: a call
  that loads finds its replica's name on the lease, unless the model is in
  `undercut`; equal names mean equal replicas; one replica has one registered call
  per model.  So as long as a model is not in `undercut` the Delete of a call can
  only hit its own lease, and the only step that takes the lease from a loading
  call is the arrival of a Delete that nobody waits for, which puts the model
  there.
- **`VRAMProofs`** proves `VRAMTypeCorrect` (conversion, wrap-around and clamp
  yield numbers of type int64 from every float64, on both platforms) and
  `OnlyOverlapGoesBack`.
  The invariant `VInv` says that scrapes which run side by side are noted as
  such, that nothing stored or read is ahead of the exporter, and that a scrape
  which is alone has a sample at least as new as the one it will replace.  It
  also proves `ScoresRankByVRAM`: the scores need the largest free VRAM of the
  known nodes to exist, which for an arbitrary finite set is shown by looking at
  a smallest subset without a largest element (inclusion is well-founded on the
  subsets of a finite set); that rounding keeps their order is a fact about
  division.
- **`PoolManagerProofs`** proves `DefaultPoolIsRegistered`, from `PInv`: pools
  have numbers and `Reconcile` has a key whenever it has read something.  And it
  proves `PoolTypeCorrect`, in which the bound on the number of pools is the hard
  part: `EditsPayForPools` counts, with the pools allocated, the InferencePools
  that are on their way to become one (not yet in the informer's cache, not yet
  read, read and not yet created), and shows that only edits add to the sum.

Only model-checked: liveness (`EveryCallReturns`, `NoStarvation`, `Converges`,
`FiguresConverge`, `PoolsConverge`), which is beyond the proof system.  Every
invariant and every action property of a passing run, and the refinement of
`CoalescedLoads`, is proved.

## 5. Not modelled

Telemetry (`telemetry.go`, `genai.go`) sets up exporters and records
measurements, and version information is a constant: both are written and never
read back, so there is no behaviour of the system that depends on them.  The
gauges of the VRAM instrumentation are covered up to the copy they show.
`StaticDiscovery`, `StaticScraper`, `NoopInstrumentation`, `SetMetrics`,
`SetLoaded` and `SetPodIP` are aids of tests.  Parsing of configuration, building
of URLs, HTTP bodies, log messages and the plugin framework itself are outside
the models; what the framework does (choosing a pod, cancelling a request) is an
arbitrary choice.  `NewTrackerWithMeter` stores a nil instrumentation in an
interface that is not nil if gauges cannot be created; the model has an
instrumentation or none.

## 6. Plan

Done: all modules of section 2, their runs, and a proof of each safety property
the runs check.  Left: sufficient conditions for the statements that the five
violating runs refute (for instance, that two replicas with equal pressure data
keep a copy; that a router which updates the lease when it adopts it, and deletes
only the version it knows, gives exclusion without an exception), and the
refinement of `CoalescedLoads` by the assembled picker.
