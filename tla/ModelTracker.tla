---------------------------- MODULE ModelTracker ----------------------------
(***************************************************************************)
(* The model tracker (internal/modeltracker/tracker.go): a per-pod view of *)
(* the loaded models, refreshed by one polling goroutine and patched by    *)
(* the in-band marks of the model-loader plugin, and the dedup pass that   *)
(* unloads a model held by several pods from the least loaded of them.     *)
(*                                                                         *)
(* Each action is one critical section of Tracker.mu or one HTTP exchange  *)
(* of the polling goroutine.  What the pods answer and the pressure scores *)
(* are parameters, so this module alone allows every environment.          *)
(***************************************************************************)
EXTENDS Naturals, FiniteSets

CONSTANTS
    Pods,               \* tracker keys, i.e. pod IPs, in their string order
    Models,             \* model names, in their string order
    GracePolls,         \* dedupGracePolls
    MaxUnloadsPerCycle,
    Levels              \* values of PressureProvider.Pressure

ASSUME TrackerAssumption ==
    /\ Pods \subseteq Nat
    /\ Models \subseteq Nat
    /\ Levels \subseteq Nat
    /\ GracePolls \in Nat \ {0}
    /\ MaxUnloadsPerCycle \in Nat \ {0}

VARIABLES
    tracked,    \* the keys of Tracker.loaded
    loaded,     \* Tracker.loaded, {} for a pod that is not tracked
    podIP,      \* the keys of Tracker.podIP (key and address are the same)
    firstPoll,  \* Tracker.firstPoll
    dupObs,     \* Tracker.dupObs; 0 stands for no entry
    pollPc,     \* where the polling goroutine stands
    listed,     \* pollOnce: the pods of this cycle that have an address
    todo,       \* pollOnce: those not yet queried
    next,       \* pollOnce: the keys of next
    answer,     \* pollOnce: next[key] of a pod that answered
    kept,       \* pollOnce: pods whose previous set object is in next
    holders,    \* resolveDuplicates: the snapshot dup
    ripe,       \* resolveDuplicates: the models of ripeList still to be visited
    issued,     \* resolveDuplicates: unloads issued in this cycle
    victim      \* resolveDuplicates: loserKey of the unload in progress

viewVars  == <<tracked, loaded, firstPoll>>
pollVars  == <<listed, todo, next, answer, kept>>
dedupVars == <<dupObs, holders, ripe, issued, victim>>
vars == <<viewVars, podIP, pollPc, pollVars, dedupVars>>

Init ==
    /\ tracked = {} /\ podIP = {} /\ firstPoll = FALSE
    /\ loaded = [p \in Pods |-> {}]
    /\ dupObs = [m \in Models |-> 0]
    /\ pollPc = "idle"
    /\ listed = {} /\ todo = {} /\ next = {} /\ kept = {}
    /\ answer = [p \in Pods |-> {}]
    /\ holders = [m \in Models |-> {}]
    /\ ripe = {} /\ issued = 0 /\ victim = {}

-----------------------------------------------------------------------------
(* Readers and in-band marks, called by the scheduling plugins *)

IsLoaded(p, m) == firstPoll /\ p \in tracked /\ m \in loaded[p]

MarkLoaded_KnownPodsOnly(p, m) ==
    /\ loaded' = [loaded EXCEPT ![p] = @ \union {m}]
    /\ firstPoll' = TRUE
    /\ UNCHANGED <<tracked, podIP, pollPc, pollVars, dedupVars>>

MarkLoaded(p, m) ==
    /\ loaded' = [loaded EXCEPT ![p] = @ \union {m}]
    /\ tracked' = tracked \union {p}
    /\ firstPoll' = TRUE
    /\ UNCHANGED <<podIP, pollPc, pollVars, dedupVars>>

\* The critical section of MarkUnloaded.  The unload observer is called after
\* it, and only if the pod is tracked.
Unmark(p, m) == loaded' = [loaded EXCEPT ![p] = @ \ {m}]

MarkUnloaded_DropsEmptyPod(p, m) ==
    /\ Unmark(p, m)
    /\ tracked' = IF loaded[p] \subseteq {m} THEN tracked \ {p} ELSE tracked
    /\ UNCHANGED <<firstPoll, podIP, pollPc, pollVars, dedupVars>>

MarkUnloaded(p, m) ==
    /\ Unmark(p, m)
    /\ UNCHANGED <<tracked, firstPoll, podIP, pollPc, pollVars, dedupVars>>

-----------------------------------------------------------------------------
(* pollOnce.  A failed listPods changes nothing. *)

PollStart(pods) ==
    /\ pollPc = "idle" /\ pollPc' = "poll"
    /\ listed' = pods
    /\ todo' = pods
    /\ UNCHANGED <<viewVars, podIP, next, answer, kept, dedupVars>>

\* queryPod returns the models whose status is loaded, running or absent.
QueryPod(p, models) ==
    /\ pollPc = "poll" /\ p \in todo
    /\ todo' = todo \ {p}
    /\ next' = next \union {p}
    /\ answer' = [answer EXCEPT ![p] = models]
    /\ UNCHANGED <<viewVars, podIP, pollPc, listed, kept, dedupVars>>

\* next[key] = prev, if there is one: the set itself, not a copy of it, so that
\* marks made until the commit still land in it.
QueryPodFails(p) ==
    /\ pollPc = "poll" /\ p \in todo
    /\ todo' = todo \ {p}
    /\ next' = next \union ({p} \intersect tracked)
    /\ kept' = kept \union ({p} \intersect tracked)
    /\ UNCHANGED <<viewVars, podIP, pollPc, listed, answer, dedupVars>>

PollCommit_MergesView ==
    /\ pollPc = "poll" /\ pollPc' = "resolve"
    /\ todo = {}
    /\ tracked' = tracked \union next
    /\ loaded' = [p \in Pods |-> loaded[p] \union answer[p]]
    /\ podIP' = listed
    /\ firstPoll' = TRUE
    /\ listed' = {} /\ next' = {} /\ kept' = {}
    /\ answer' = [p \in Pods |-> {}]
    /\ UNCHANGED <<todo, dedupVars>>

PollCommit ==
    /\ pollPc = "poll" /\ pollPc' = "resolve"
    /\ todo = {}
    /\ tracked' = next
    /\ loaded' = [p \in Pods |-> IF p \in kept THEN loaded[p] ELSE answer[p]]
    /\ podIP' = listed
    /\ firstPoll' = TRUE
    /\ listed' = {} /\ next' = {} /\ kept' = {}
    /\ answer' = [p \in Pods |-> {}]
    /\ UNCHANGED <<todo, dedupVars>>

-----------------------------------------------------------------------------
(* resolveDuplicates *)

Holders(m) == {p \in tracked : m \in loaded[p]}
IsDuplicate_OneHolder(pods) == \E p \in pods : TRUE

IsDuplicate(pods) == \E p, q \in pods : p # q
AtMost(n, bound) == IF n > bound THEN bound ELSE n

Observed_NeverResets(m, pods) ==
    IF IsDuplicate(pods) THEN AtMost(dupObs[m] + 1, GracePolls) ELSE dupObs[m]

\* dupObs after one more observation.  The count is only compared with
\* GracePolls, so it stops there.
Observed(m, pods) ==
    IF IsDuplicate(pods) THEN AtMost(dupObs[m] + 1, GracePolls) ELSE 0

\* The loop over ripeList goes on, or ends when nothing is left or the throttle
\* is reached.
VisitNext(models, n) ==
    /\ issued' = n
    /\ IF models # {} /\ n < MaxUnloadsPerCycle
         THEN pollPc' = "unload" /\ ripe' = models
         ELSE pollPc' = "idle" /\ ripe' = {}

\* The snapshot and phase 1.  The two critical sections make one step: nothing
\* but this goroutine touches dupObs.
ResolveDuplicates ==
    /\ pollPc = "resolve"
    /\ holders' = [m \in Models |-> Holders(m)]
    /\ dupObs' = [m \in Models |-> Observed(m, Holders(m))]
    /\ VisitNext({m \in Models : dupObs'[m] >= GracePolls}, 0)
    /\ UNCHANGED <<viewVars, podIP, pollVars, victim>>

\* The next model of ripeList, which is sorted by name.
First(models) == CHOOSE m \in models : \A n \in models : m <= n
Visited == First(ripe)

\* pickLoser: lowest pressure, ties broken by the order of the keys.
PickLoser(pods, pressure) ==
    CHOOSE p \in pods :
        \A q \in pods : \/ pressure[p] < pressure[q]
                        \/ pressure[p] = pressure[q] /\ p <= q

\* The loser has no address in the snapshot of podIP (which only this goroutine
\* changes, so podIP itself serves), or the unload call fails.
DedupSkip(pressure) ==
    /\ pollPc = "unload"
    /\ PickLoser(holders[Visited], pressure) \notin podIP
    /\ VisitNext(ripe \ {Visited}, issued)
    /\ UNCHANGED <<viewVars, podIP, pollVars, dupObs, holders, victim>>

UnloadModelFails(pressure) ==
    /\ pollPc = "unload"
    /\ PickLoser(holders[Visited], pressure) \in podIP
    /\ VisitNext(ripe \ {Visited}, issued)
    /\ UNCHANGED <<viewVars, podIP, pollVars, dupObs, holders, victim>>

UnloadModel(pressure) ==
    /\ pollPc = "unload" /\ pollPc' = "unmark"
    /\ PickLoser(holders[Visited], pressure) \in podIP
    /\ victim' = {PickLoser(holders[Visited], pressure)}
    /\ UNCHANGED <<viewVars, podIP, pollVars, dupObs, holders, ripe, issued>>

\* t.MarkUnloaded(loserKey, r.model)
DedupUnmark ==
    /\ pollPc = "unmark"
    /\ \E p \in victim :
        /\ Unmark(p, Visited)
        /\ pollPc' = IF p \in tracked THEN "notify" ELSE "reset"
    /\ UNCHANGED <<tracked, firstPoll, podIP, pollVars, dedupVars>>

\* MarkUnloaded calls the unload observer.
DedupNotify ==
    /\ pollPc = "notify" /\ pollPc' = "reset"
    /\ UNCHANGED <<viewVars, podIP, pollVars, dedupVars>>

DedupReset_KeepsCount ==
    /\ pollPc = "reset"
    /\ VisitNext(ripe \ {Visited}, issued + 1)
    /\ victim' = {}
    /\ UNCHANGED <<viewVars, podIP, pollVars, holders, dupObs>>

\* delete(t.dupObs, r.model)
DedupReset ==
    /\ pollPc = "reset"
    /\ dupObs' = [dupObs EXCEPT ![Visited] = 0]
    /\ VisitNext(ripe \ {Visited}, issued + 1)
    /\ victim' = {}
    /\ UNCHANGED <<viewVars, podIP, pollVars, holders>>

-----------------------------------------------------------------------------
Poll ==
    \/ \E pods \in SUBSET Pods : PollStart(pods)
    \/ \E p \in Pods, models \in SUBSET Models : QueryPod(p, models)
    \/ \E p \in Pods : QueryPodFails(p)
    \/ PollCommit

Unload ==
    \/ \E pressure \in [Pods -> Levels] : DedupSkip(pressure)
    \/ \E pressure \in [Pods -> Levels] : UnloadModelFails(pressure)
    \/ \E pressure \in [Pods -> Levels] : UnloadModel(pressure)
    \/ DedupUnmark
    \/ DedupNotify

\* What the polling goroutine does next.
PollStep == Poll \/ ResolveDuplicates \/ Unload \/ DedupReset

Mark ==
    \/ \E p \in Pods, m \in Models : MarkLoaded(p, m)
    \/ \E p \in Pods, m \in Models : MarkUnloaded(p, m)

Next == PollStep \/ Mark

Spec == Init /\ [][Next]_vars

-----------------------------------------------------------------------------
(* Properties *)

\* Types; a pod that is not tracked has no models, and whoever has written to
\* the view has also opened it to readers (IsLoaded ignores nothing).
TypeOK ==
    /\ tracked \subseteq Pods
    /\ loaded \in [Pods -> SUBSET Models]
    /\ \A p \in Pods : loaded[p] # {} => p \in tracked /\ firstPoll
    /\ podIP \subseteq Pods
    /\ firstPoll \in BOOLEAN
    /\ dupObs \in [Models -> 0 .. GracePolls]
    /\ pollPc \in {"idle", "poll", "resolve", "unload", "unmark", "notify", "reset"}
    /\ listed \subseteq Pods
    /\ pollPc # "poll" => listed = {}
    /\ todo \subseteq listed
    /\ next \subseteq listed
    /\ kept \subseteq next \intersect tracked
    /\ answer \in [Pods -> SUBSET Models]
    /\ \A p \in Pods : answer[p] # {} => p \in next
    /\ holders \in [Models -> SUBSET Pods]
    /\ ripe \subseteq Models
    /\ issued \in 0 .. MaxUnloadsPerCycle
    /\ victim \subseteq Pods

Duplicates == {m \in Models : IsDuplicate(holders[m])}

\* A model that stays duplicated is visited again and again, as long as no more
\* models are duplicated at a time than the throttle lets through in the grace
\* window.  (tracker.go promises it without that condition: "Deterministic ordering
\* across cycles so the per-cycle throttle doesn't starve any one model when
\* several are ripe".  But with more lasting duplicates, the first names are ripe
\* again before the last has had its turn, and the order starves it.)
NoStarvation ==
    \A m \in Models :
        <>[](/\ m \in Duplicates
             /\ Cardinality(Duplicates) <= GracePolls * MaxUnloadsPerCycle)
            => []<>(pollPc = "unload" /\ Visited = m)

-----------------------------------------------------------------------------
(* The inductive invariant of the tracker *)

Deduping == {"unload", "unmark", "notify", "reset"}

\* While the pass runs, its list is not empty, the throttle leaves room, and
\* every model on the list is a mature duplicate of tracked pods.
RipeAreDuplicates ==
    pollPc \in Deduping =>
        /\ ripe # {} /\ issued < MaxUnloadsPerCycle
        /\ \A m \in ripe : /\ dupObs[m] = GracePolls
                           /\ IsDuplicate(holders[m])
                           /\ holders[m] \subseteq tracked

\* There is exactly one victim at a time, a holder of the visited model.
VictimIsHolder ==
    pollPc \in {"unmark", "notify", "reset"} =>
        \E p \in holders[Visited] : victim = {p}

\* Holds in every reachable state (ModelTrackerProofs).
TInv == TypeOK /\ RipeAreDuplicates /\ VictimIsHolder

=============================================================================
