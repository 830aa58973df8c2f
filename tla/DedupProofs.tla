----------------------------- MODULE DedupProofs -----------------------------
(***************************************************************************)
(* Proofs about the dedup pass of the model tracker, for any number of     *)
(* pods and models, any grace window and any throttle: a model is visited  *)
(* only after a full grace window, the pass keeps a copy in the view, and  *)
(* every unload is announced.  The invariant is HIInv of DedupHistory: the *)
(* invariant TInv of the tracker, which ModelTrackerProofs has, and what   *)
(* relates the tracker to the history variables.                           *)
(***************************************************************************)
EXTENDS DedupHistory, ModelTrackerProofs

\* The history variables only watch: every step is one of the tracker.
LEMMA HistoryWatches == [HNext]_<<vars, historyVars>> => [Next]_vars
  <1>1. HNext => Next
    BY DEF HNext, HResolveDuplicates, HDedupReset, HMarkLoaded, HMarkUnloaded,
           Next, PollStep, Mark
  <1> QED BY <1>1

\* The part of HIInv that is about the history variables.
HistoryInv == HTypeOK /\ CountsObservations /\ MarksAccountedFor

\* Nothing has been observed at the start.
LEMMA HInitHIInv == HInit => HIInv
  <1> SUFFICES ASSUME HInit PROVE HIInv
    OBVIOUS
  <1> USE TrackerAssumption DEF HInit
  <1>1. TInv
    BY InitTInv
  <1>2. HTypeOK
    BY DEF HTypeOK
  <1>3. CountsObservations
    <2>1. \A m \in Models : dupObs[m] = 0 /\ 1 .. dupObs[m] = {}
      BY DEF Init
    <2> QED BY <2>1 DEF CountsObservations
  <1>4. MarksAccountedFor
    BY DEF Init, MarksAccountedFor, Deduping
  <1> QED BY <1>1, <1>2, <1>3, <1>4 DEF HIInv

\* Listing, querying and committing never run inside the dedup pass, and leave
\* the observations alone.
LEMMA PollHistory == HIInv /\ Poll /\ UNCHANGED historyVars => HistoryInv'
  <1> SUFFICES ASSUME HIInv, Poll, UNCHANGED historyVars PROVE HistoryInv'
    OBVIOUS
  <1> USE DEF HIInv, historyVars
  <1>1. pollPc' \in {"poll", "resolve"} /\ UNCHANGED dedupVars
    BY DEF Poll, PollStart, QueryPod, QueryPodFails, PollCommit
  <1>2. HTypeOK' /\ CountsObservations'
    BY <1>1 DEF HTypeOK, CountsObservations, dedupVars
  <1>3. MarksAccountedFor'
    BY <1>1 DEF MarksAccountedFor, Deduping
  <1> QED BY <1>2, <1>3 DEF HistoryInv

\* The snapshot counts one more observation and lists the mature duplicates.
LEMMA ResolveHistory == HIInv /\ HResolveDuplicates => HistoryInv'
  <1> SUFFICES ASSUME HIInv, HResolveDuplicates PROVE HistoryInv'
    OBVIOUS
  <1> USE TrackerAssumption DEF HIInv, TInv
  <1>1. \A m \in Models :
           /\ dupObs[m] \in 0 .. GracePolls
           /\ dupObs'[m] = IF IsDuplicate(Holders(m))
                             THEN AtMost(dupObs[m] + 1, GracePolls) ELSE 0
           /\ holders'[m] = Holders(m)
    BY DEF Observed, TypeOK, HResolveDuplicates, ResolveDuplicates
  <1>2. HTypeOK'
    BY DEF HTypeOK, HResolveDuplicates
  <1>3. CountsObservations'
    <2> SUFFICES ASSUME NEW m \in Models, NEW i \in 1 .. dupObs'[m]
                 PROVE  m \in observed'[i]
      BY DEF CountsObservations
    <2>1. IsDuplicate(Holders(m)) /\ i <= dupObs[m] + 1 /\ i \in 1 .. GracePolls
      BY <1>1 DEF AtMost
    <2>2. CASE i = 1
      BY <2>1, <2>2 DEF HResolveDuplicates
    <2>3. CASE i # 1
      <3>1. i - 1 \in 1 .. dupObs[m]
        BY <1>1, <2>1, <2>3
      <3>2. m \in observed[i - 1]
        BY <3>1 DEF CountsObservations
      <3> QED BY <2>1, <2>3, <3>2 DEF HResolveDuplicates
    <2> QED BY <2>2, <2>3
  <1>4. MarksAccountedFor'
    <2>1. ripe' \subseteq Models /\ UNCHANGED viewVars
      BY DEF HResolveDuplicates, ResolveDuplicates, VisitNext
    <2>2. \A m \in ripe' : \A q \in holders'[m] : m \in loaded[q]
      BY <1>1, <2>1 DEF Holders
    <2> QED BY <2>1, <2>2 DEF MarksAccountedFor, viewVars
  <1> QED BY <1>2, <1>3, <1>4 DEF HistoryInv

\* Visiting a ripe model: only unmarking the victim takes a mark out of the view.
LEMMA UnloadHistory == HIInv /\ Unload /\ UNCHANGED historyVars => HistoryInv'
  <1> SUFFICES ASSUME HIInv, Unload, UNCHANGED historyVars PROVE HistoryInv'
    OBVIOUS
  <1> USE DEF HIInv, TInv, historyVars
  <1>1. UNCHANGED dupObs
    BY DEF Unload, DedupSkip, UnloadModelFails, UnloadModel, DedupUnmark, DedupNotify,
           dedupVars
  <1>2. HTypeOK' /\ CountsObservations'
    BY <1>1 DEF HTypeOK, CountsObservations
  <1>3. ASSUME VisitNext(ripe \ {Visited}, issued), pollPc = "unload",
               UNCHANGED <<viewVars, holders>>
        PROVE  MarksAccountedFor'
    <2>1. ripe' \subseteq ripe
      BY <1>3 DEF VisitNext
    <2> QED BY <1>3, <2>1 DEF MarksAccountedFor, viewVars, Deduping
  <1>4. ASSUME NEW pressure \in [Pods -> Levels], UnloadModel(pressure)
        PROVE  MarksAccountedFor'
    BY <1>4 DEF UnloadModel, MarksAccountedFor, viewVars, Deduping
  <1>5. ASSUME DedupUnmark PROVE MarksAccountedFor'
    <2>1. PICK p \in victim : Unmark(p, Visited)
      BY <1>5 DEF DedupUnmark
    <2>2. /\ pollPc = "unmark" /\ pollPc' \in {"notify", "reset"}
          /\ UNCHANGED dedupVars
      BY <1>5 DEF DedupUnmark
    <2>3. Visited' = Visited
      BY <2>2 DEF Visited, dedupVars
    <2>4. /\ p \in Pods
          /\ loaded'[p] = loaded[p] \ {Visited}
          /\ \A q \in Pods : q # p => loaded'[q] = loaded[q]
      BY <2>1 DEF Unmark, TypeOK
    <2> SUFFICES ASSUME NEW m \in ripe, NEW q \in holders[m]
                 PROVE  \/ m \in loaded'[q] \/ <<q, m>> \in retracted'
                        \/ m = Visited /\ q \in victim
      BY <2>2, <2>3 DEF MarksAccountedFor, dedupVars
    <2>5. m \in loaded[q] \/ <<q, m>> \in retracted
      BY <2>2 DEF MarksAccountedFor, Deduping
    <2>6. q \in Pods
      BY DEF TypeOK
    <2> QED BY <2>1, <2>4, <2>5, <2>6
  <1>6. ASSUME DedupNotify PROVE MarksAccountedFor'
    <2>1. /\ pollPc = "notify" /\ pollPc' = "reset" /\ UNCHANGED <<viewVars, dedupVars>>
      BY <1>6 DEF DedupNotify
    <2>2. Visited' = Visited
      BY <2>1 DEF Visited, dedupVars
    <2> QED BY <2>1, <2>2 DEF MarksAccountedFor, viewVars, dedupVars, Deduping
  <1>7. MarksAccountedFor'
    BY <1>3, <1>4, <1>5, <1>6 DEF Unload, DedupSkip, UnloadModelFails
  <1> QED BY <1>2, <1>7 DEF HistoryInv

\* After an unload the count and the observations of the model start anew.
LEMMA ResetHistory == HIInv /\ HDedupReset => HistoryInv'
  <1> SUFFICES ASSUME HIInv, HDedupReset PROVE HistoryInv'
    OBVIOUS
  <1> USE TrackerAssumption DEF HIInv, TInv, HDedupReset, DedupReset
  <1>1. pollPc' \in {"idle", "unload"} /\ ripe' \subseteq ripe \ {Visited}
    BY DEF VisitNext
  <1>2. Visited \in Models
    BY VisitedIsRipe DEF Deduping
  <1>3. /\ \A m \in Models : dupObs[m] \in 0 .. GracePolls
        /\ \A m \in Models : m # Visited => dupObs'[m] = dupObs[m]
        /\ dupObs'[Visited] = 0
    BY <1>2 DEF TypeOK
  <1>4. HTypeOK'
    BY DEF HTypeOK
  <1>5. CountsObservations'
    <2> SUFFICES ASSUME NEW m \in Models, NEW i \in 1 .. dupObs'[m]
                 PROVE  m \in observed'[i]
      BY DEF CountsObservations
    <2>1. m # Visited
      BY <1>3
    <2>2. i \in 1 .. dupObs[m] /\ i \in 1 .. GracePolls
      BY <1>3, <2>1
    <2> QED BY <2>1, <2>2 DEF CountsObservations
  <1>6. MarksAccountedFor'
    BY <1>1 DEF MarksAccountedFor, viewVars, Deduping
  <1> QED BY <1>4, <1>5, <1>6 DEF HistoryInv

\* A mark of the loader only adds to the view; a retraction is recorded.
LEMMA MarkHistory ==
  ASSUME HIInv, NEW p \in Pods, NEW m \in Models,
         HMarkLoaded(p, m) \/ HMarkUnloaded(p, m)
  PROVE  HistoryInv'
  <1> USE DEF HIInv, TInv, HMarkLoaded, MarkLoaded, HMarkUnloaded, MarkUnloaded, Unmark
  <1>1. UNCHANGED <<pollPc, dedupVars, observed>>
    OBVIOUS
  <1>2. Visited' = Visited
    BY <1>1 DEF Visited, dedupVars
  <1>3. HTypeOK' /\ CountsObservations'
    BY <1>1 DEF HTypeOK, CountsObservations, dedupVars
  <1>4. /\ \A q \in Pods : q # p => loaded'[q] = loaded[q]
        /\ \A n : n # m => (n \in loaded'[p] <=> n \in loaded[p])
        /\ m \in loaded'[p] \/ <<p, m>> \in retracted'
        /\ \A q, n : q # p \/ n # m => (<<q, n>> \in retracted' <=> <<q, n>> \in retracted)
    BY DEF TypeOK
  <1>5. MarksAccountedFor'
    <2> SUFFICES ASSUME pollPc \in Deduping, NEW n \in ripe, NEW q \in holders[n]
                 PROVE  \/ n \in loaded'[q] \/ <<q, n>> \in retracted'
                        \/ pollPc \in {"notify", "reset"} /\ n = Visited /\ q \in victim
      BY <1>1, <1>2 DEF MarksAccountedFor, dedupVars
    <2>1. q \in Pods
      BY DEF TypeOK
    <2>2. \/ n \in loaded[q] \/ <<q, n>> \in retracted
          \/ pollPc \in {"notify", "reset"} /\ n = Visited /\ q \in victim
      BY DEF MarksAccountedFor
    <2>3. CASE q = p /\ n = m
      BY <1>4, <2>3
    <2>4. CASE q # p \/ n # m
      BY <1>4, <2>1, <2>2, <2>4
    <2> QED BY <2>3, <2>4
  <1> QED BY <1>3, <1>5 DEF HistoryInv

\* The invariant holds in every reachable state of the tracker.
THEOREM HInvariance == HSpec => []HIInv
  <1>1. HIInv /\ [HNext]_<<vars, historyVars>> => HIInv'
    <2> SUFFICES ASSUME HIInv, [HNext]_<<vars, historyVars>> PROVE HIInv'
      OBVIOUS
    <2>1. TInv'
      BY NextTInv, HistoryWatches DEF HIInv
    <2>2. CASE UNCHANGED <<vars, historyVars>>
      <3>1. UNCHANGED <<viewVars, pollPc, dedupVars, observed, retracted>>
        BY <2>2 DEF vars, historyVars
      <3>2. Visited' = Visited
        BY <3>1 DEF Visited, dedupVars
      <3>3. HTypeOK' /\ CountsObservations'
        BY <3>1 DEF HIInv, HTypeOK, CountsObservations, dedupVars
      <3>4. MarksAccountedFor'
        BY <3>1, <3>2 DEF HIInv, MarksAccountedFor, viewVars, dedupVars
      <3> QED BY <2>1, <3>3, <3>4 DEF HIInv
    <2>3. CASE HNext
      <3>1. HistoryInv'
        BY <2>3, PollHistory, ResolveHistory, UnloadHistory, ResetHistory, MarkHistory
        DEF HNext
      <3> QED BY <2>1, <3>1 DEF HIInv, HistoryInv
    <2> QED BY <2>2, <2>3
  <1> QED BY <1>1, HInitHIInv, PTL DEF HSpec

\* The state of the tracker is well typed, and what it holds is visible to
\* readers, in every reachable state.
THEOREM TrackerTypeCorrect == HSpec => []TypeOK
  <1>1. HIInv => TypeOK
    BY DEF HIInv, TInv
  <1> QED BY <1>1, HInvariance, PTL

\* No model is unloaded before a full grace window of consecutive observations.
THEOREM GraceIsRespected == HSpec => []GraceRespected
  <1>1. HIInv => GraceRespected
    BY DEF HIInv, TInv, GraceRespected, RipeAreDuplicates, CountsObservations, Deduping,
           TypeOK
  <1> QED BY <1>1, HInvariance, PTL

\* The dedup pass alone never removes the last copy from the view.
THEOREM DedupKeepsACopy == HSpec => []KeepsACopy
  <1>1. HIInv => KeepsACopy
    <2> SUFFICES ASSUME HIInv, pollPc \in {"unmark", "notify", "reset"}
                 PROVE  \E q \in Pods \ victim :
                           Visited \in loaded[q] \/ <<q, Visited>> \in retracted
      BY DEF KeepsACopy
    <2>1. /\ Visited \in ripe /\ IsDuplicate(holders[Visited])
          /\ holders[Visited] \in SUBSET Pods
      BY VisitedIsRipe DEF HIInv, Deduping
    <2>2. PICK p \in holders[Visited] : victim = {p}
      BY DEF HIInv, TInv, VictimIsHolder
    <2>3. PICK q \in holders[Visited] : q # p
      BY <2>1, <2>2 DEF IsDuplicate
    <2> QED BY <2>1, <2>2, <2>3 DEF HIInv, MarksAccountedFor, Deduping
  <1> QED BY <1>1, HInvariance, PTL

\* The unload observer is called for every successful dedup unload.
THEOREM UnloadsAreAnnounced == HSpec => EveryUnloadIsAnnounced
  <1>1. HIInv /\ [HNext]_<<vars, historyVars>> =>
          [pollPc = "unmark" => pollPc' \in {"unmark", "notify"}]_<<vars, historyVars>>
    BY HistoryWatches, UnmarkAnnounces DEF HIInv
  <1> QED BY <1>1, HInvariance, PTL DEF HSpec, EveryUnloadIsAnnounced

=============================================================================
