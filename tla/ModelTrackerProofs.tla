------------------------- MODULE ModelTrackerProofs -------------------------
(***************************************************************************)
(* Proofs about ModelTracker for any number of pods and models, any grace  *)
(* window and any throttle: the invariant TInv, and that the dedup pass    *)
(* announces every unload.  DedupProofs adds the history variables,        *)
(* PickerProofs the other components.                                      *)
(***************************************************************************)
EXTENDS ModelTracker, WellFoundedInduction, TLAPS

\* A non-empty set of naturals has a least element.
LEMMA LeastNatural ==
  ASSUME NEW S \in SUBSET Nat, S # {}
  PROVE  \E m \in S : \A n \in S : m <= n
  <1> DEFINE less == {pair \in Nat \X Nat : pair[1] < pair[2]}
  <1>1. IsWellFoundedOn(less, Nat)
    BY NatLessThanWellFounded DEF OpToRel
  <1>2. \A x, y \in Nat : <<y, x>> \in less <=> y < x
    OBVIOUS
  <1> HIDE DEF less
  <1>3. PICK m \in S : \A n \in S : <<n, m>> \notin less
    BY <1>1, WFMin
  <1>4. \A n \in S : ~ (n < m)
    BY <1>2, <1>3
  <1> QED BY <1>4

\* The model visited next is one of the ripe models.
LEMMA FirstIsMember ==
  ASSUME NEW models \in SUBSET Models, models # {}
  PROVE  First(models) \in models
  BY LeastNatural, TrackerAssumption DEF First

\* pickLoser returns one of the holders, whatever the pressure scores are, and
\* no holder has a lower score.
LEMMA LoserIsHolder ==
  ASSUME NEW pods \in SUBSET Pods, pods # {}, NEW pressure \in [Pods -> Levels]
  PROVE  /\ PickLoser(pods, pressure) \in pods
         /\ \A q \in pods : pressure[PickLoser(pods, pressure)] <= pressure[q]
  <1> DEFINE scores == {pressure[p] : p \in pods}
  <1>1. \A p \in pods : pressure[p] \in Nat
    BY TrackerAssumption
  <1>2. PICK s \in scores : \A t \in scores : s <= t
    <2>1. scores # {} /\ scores \in SUBSET Nat
      BY <1>1
    <2> QED BY <2>1, LeastNatural
  <1> DEFINE lowest == {p \in pods : pressure[p] = s}
  <1>3. lowest # {} /\ lowest \in SUBSET Nat
    BY TrackerAssumption
  <1>4. PICK p \in lowest : \A q \in lowest : p <= q
    BY <1>3, LeastNatural
  <1>5. \A q \in pods : \/ pressure[p] < pressure[q]
                        \/ pressure[p] = pressure[q] /\ p <= q
    BY <1>1, <1>2, <1>4
  <1>6. p \in pods
    BY <1>4
  <1> HIDE DEF scores, lowest
  <1>7. /\ PickLoser(pods, pressure) \in pods
        /\ \A q \in pods :
             \/ pressure[PickLoser(pods, pressure)] < pressure[q]
             \/ /\ pressure[PickLoser(pods, pressure)] = pressure[q]
                /\ PickLoser(pods, pressure) <= q
    BY <1>5, <1>6 DEF PickLoser
  <1> QED BY <1>1, <1>7

\* The tracker starts empty and idle.
LEMMA InitTInv == Init => TInv
  <1> SUFFICES ASSUME Init PROVE TInv
    OBVIOUS
  <1> USE TrackerAssumption DEF Init
  <1>1. TypeOK
    <2>1. 0 \in 0 .. GracePolls /\ 0 \in 0 .. MaxUnloadsPerCycle
      OBVIOUS
    <2>2. /\ dupObs \in [Models -> 0 .. GracePolls]
          /\ issued \in 0 .. MaxUnloadsPerCycle
      BY <2>1
    <2>3. /\ loaded \in [Pods -> SUBSET Models] /\ answer \in [Pods -> SUBSET Models]
          /\ holders \in [Models -> SUBSET Pods]
          /\ \A p \in Pods : loaded[p] = {} /\ answer[p] = {}
      OBVIOUS
    <2> QED BY <2>2, <2>3 DEF TypeOK
  <1>2. RipeAreDuplicates /\ VictimIsHolder
    BY DEF RipeAreDuplicates, VictimIsHolder, Deduping
  <1> QED BY <1>1, <1>2 DEF TInv

\* Listing, querying and committing never run inside the dedup pass.
LEMMA PollTInv == TInv /\ Poll => TInv'
  <1> SUFFICES ASSUME TInv, Poll PROVE TInv'
    OBVIOUS
  <1> USE TrackerAssumption DEF TInv
  <1>1. /\ pollPc \in {"idle", "poll"} /\ pollPc' \in {"poll", "resolve"}
        /\ UNCHANGED dedupVars
    BY DEF Poll, PollStart, QueryPod, QueryPodFails, PollCommit, TypeOK
  <1>2. TypeOK'
    <2>1. ASSUME NEW pods \in SUBSET Pods, PollStart(pods) PROVE TypeOK'
      BY <2>1 DEF PollStart, TypeOK, viewVars, dedupVars
    <2>2. ASSUME NEW p \in Pods, NEW models \in SUBSET Models, QueryPod(p, models)
          PROVE  TypeOK'
      BY <2>2 DEF QueryPod, TypeOK, viewVars, dedupVars
    <2>3. ASSUME NEW p \in Pods, QueryPodFails(p) PROVE TypeOK'
      BY <2>3 DEF QueryPodFails, TypeOK, viewVars, dedupVars
    <2>4. ASSUME PollCommit PROVE TypeOK'
      BY <2>4 DEF PollCommit, TypeOK, dedupVars
    <2> QED BY <2>1, <2>2, <2>3, <2>4 DEF Poll
  <1>3. RipeAreDuplicates' /\ VictimIsHolder'
    BY <1>1 DEF RipeAreDuplicates, VictimIsHolder, Deduping
  <1> QED BY <1>2, <1>3

\* The snapshot counts one more observation and lists the mature duplicates.
LEMMA ResolveTInv == TInv /\ ResolveDuplicates => TInv'
  <1> SUFFICES ASSUME TInv, ResolveDuplicates PROVE TInv'
    OBVIOUS
  <1> USE TrackerAssumption DEF TInv
  <1> DEFINE mature == {m \in Models : dupObs'[m] >= GracePolls}
  <1>1. \A m \in Models :
           /\ dupObs[m] \in 0 .. GracePolls
           /\ dupObs'[m] = IF IsDuplicate(Holders(m))
                             THEN AtMost(dupObs[m] + 1, GracePolls) ELSE 0
           /\ holders'[m] = Holders(m)
    BY DEF Observed, TypeOK, ResolveDuplicates
  <1>2. \A m \in Models : dupObs'[m] \in 0 .. GracePolls
    BY <1>1 DEF AtMost
  <1>3. \A m \in Models : dupObs'[m] # 0 => IsDuplicate(holders'[m])
    BY <1>1
  <1>4. /\ pollPc' \in {"idle", "unload"} /\ issued' = 0 /\ ripe' \subseteq mature
        /\ pollPc' = "unload" => ripe' # {}
    BY DEF VisitNext, ResolveDuplicates
  <1>5. \A m \in Models : holders'[m] \subseteq tracked /\ holders'[m] \subseteq Pods
    BY <1>1 DEF Holders, TypeOK
  <1>6. UNCHANGED <<viewVars, podIP, pollVars, victim>>
    BY DEF ResolveDuplicates
  <1>7. TypeOK'
    <2>2. dupObs' \in [Models -> 0 .. GracePolls]
      BY <1>2 DEF ResolveDuplicates
    <2>3. holders' \in [Models -> SUBSET Pods]
      BY <1>5 DEF ResolveDuplicates
    <2>4. pollPc = "resolve"
      BY DEF ResolveDuplicates
    <2> HIDE DEF mature
    <2>5. ripe' \subseteq Models
      BY <1>4 DEF mature
    <2> QED BY <1>4, <1>6, <2>2, <2>3, <2>4, <2>5 DEF TypeOK, viewVars, pollVars
  <1>8. RipeAreDuplicates'
    <2>1. \A m \in ripe' : m \in Models /\ dupObs'[m] = GracePolls /\ dupObs'[m] # 0
      BY <1>2, <1>4
    <2>2. tracked' = tracked
      BY <1>6 DEF viewVars
    <2>3. issued' < MaxUnloadsPerCycle
      BY <1>4
    <2> HIDE DEF mature
    <2>4. \A m \in ripe' : IsDuplicate(holders'[m]) /\ holders'[m] \subseteq tracked'
      BY <1>3, <1>5, <2>1, <2>2
    <2>5. pollPc' \in Deduping => ripe' # {}
      BY <1>4 DEF Deduping
    <2> QED BY <2>1, <2>3, <2>4, <2>5 DEF RipeAreDuplicates
  <1>9. VictimIsHolder'
    BY <1>4 DEF VictimIsHolder
  <1> QED BY <1>7, <1>8, <1>9

\* The pass is at one of its ripe models, which pods hold that are tracked.
LEMMA VisitedIsRipe ==
  ASSUME TInv, pollPc \in Deduping
  PROVE  /\ Visited \in ripe /\ Visited \in Models /\ ripe \in SUBSET Models
         /\ IsDuplicate(holders[Visited]) /\ holders[Visited] \in SUBSET Pods
         /\ holders[Visited] \subseteq tracked
  BY FirstIsMember DEF Visited, TInv, TypeOK, RipeAreDuplicates

\* Visiting a ripe model: skipped, failed, or unloaded from one holder.
LEMMA UnloadTInv == TInv /\ Unload => TInv'
  <1> SUFFICES ASSUME TInv, Unload PROVE TInv'
    OBVIOUS
  <1> USE TrackerAssumption DEF TInv
  <1>0. pollPc \in Deduping
    BY DEF Unload, DedupSkip, UnloadModelFails, UnloadModel, DedupUnmark,
           DedupNotify, Deduping
  <1>1. Visited \in ripe /\ ripe \in SUBSET Models
    BY <1>0, VisitedIsRipe
  <1>2. ASSUME VisitNext(ripe \ {Visited}, issued), pollPc = "unload",
               UNCHANGED <<viewVars, podIP, pollVars, dupObs, holders, victim>>
        PROVE  TInv'
    <2>1. /\ pollPc' \in {"idle", "unload"} /\ issued' = issued /\ ripe' \subseteq ripe
          /\ pollPc' = "unload" => ripe' # {}
      BY <1>2 DEF VisitNext
    <2>2. TypeOK'
      BY <1>2, <2>1 DEF TypeOK, viewVars, pollVars
    <2>3. RipeAreDuplicates'
      BY <1>0, <1>2, <2>1 DEF RipeAreDuplicates, viewVars, Deduping
    <2>4. VictimIsHolder'
      BY <2>1 DEF VictimIsHolder
    <2> QED BY <2>2, <2>3, <2>4
  <1>3. ASSUME NEW pressure \in [Pods -> Levels], UnloadModel(pressure) PROVE TInv'
    <2> USE <1>3 DEF UnloadModel
    <2> DEFINE loser == PickLoser(holders[Visited], pressure)
    <2>1. IsDuplicate(holders[Visited]) /\ holders[Visited] \in SUBSET Pods
      BY <1>0, VisitedIsRipe
    <2>2. loser \in holders[Visited]
      BY <2>1, LoserIsHolder DEF IsDuplicate
    <2>3. Visited' = Visited
      BY DEF Visited
    <2> HIDE DEF loser
    <2>4. victim' = {loser}
      BY DEF loser
    <2>5. TypeOK'
      BY <2>1, <2>2, <2>4 DEF TypeOK, viewVars, pollVars
    <2>6. RipeAreDuplicates'
      BY <1>0 DEF RipeAreDuplicates, viewVars, Deduping
    <2>7. VictimIsHolder'
      BY <2>2, <2>3, <2>4 DEF VictimIsHolder
    <2> QED BY <2>5, <2>6, <2>7
  <1>4. ASSUME DedupUnmark PROVE TInv'
    <2>1. PICK p \in victim : Unmark(p, Visited)
      BY <1>4 DEF DedupUnmark
    <2>2. /\ pollPc = "unmark" /\ pollPc' \in {"notify", "reset"}
          /\ UNCHANGED <<tracked, firstPoll, podIP, pollVars, dedupVars>>
      BY <1>4 DEF DedupUnmark
    <2>3. Visited' = Visited
      BY <2>2 DEF Visited, dedupVars
    <2>4. /\ p \in Pods
          /\ loaded' \in [Pods -> SUBSET Models]
          /\ loaded'[p] = loaded[p] \ {Visited}
          /\ \A q \in Pods : q # p => loaded'[q] = loaded[q]
      BY <2>1 DEF Unmark, TypeOK
    <2>5. TypeOK'
      BY <2>2, <2>4 DEF TypeOK, dedupVars, pollVars
    <2>6. RipeAreDuplicates'
      BY <2>2 DEF RipeAreDuplicates, dedupVars, Deduping
    <2>7. VictimIsHolder'
      BY <2>2, <2>3 DEF VictimIsHolder, dedupVars
    <2> QED BY <2>5, <2>6, <2>7
  <1>5. ASSUME DedupNotify PROVE TInv'
    <2>1. /\ pollPc = "notify" /\ pollPc' = "reset"
          /\ UNCHANGED <<viewVars, podIP, pollVars, dedupVars>>
      BY <1>5 DEF DedupNotify
    <2>2. Visited' = Visited
      BY <2>1 DEF Visited, dedupVars
    <2>3. TypeOK'
      BY <2>1 DEF TypeOK, viewVars, pollVars, dedupVars
    <2>4. RipeAreDuplicates'
      BY <2>1 DEF RipeAreDuplicates, viewVars, dedupVars, Deduping
    <2>5. VictimIsHolder'
      BY <2>1, <2>2 DEF VictimIsHolder, dedupVars
    <2> QED BY <2>3, <2>4, <2>5
  <1> QED BY <1>2, <1>3, <1>4, <1>5 DEF Unload, DedupSkip, UnloadModelFails

\* After an unload the count of the model starts anew.
LEMMA ResetTInv == TInv /\ DedupReset => TInv'
  <1> SUFFICES ASSUME TInv, DedupReset PROVE TInv'
    OBVIOUS
  <1> USE TrackerAssumption DEF TInv, DedupReset
  <1>1. Visited \in ripe /\ ripe \in SUBSET Models
    BY VisitedIsRipe DEF Deduping
  <1>2. issued \in Nat /\ issued + 1 <= MaxUnloadsPerCycle
    BY DEF RipeAreDuplicates, Deduping, TypeOK
  <1>3. /\ pollPc' \in {"idle", "unload"} /\ issued' = issued + 1
        /\ ripe' \subseteq ripe \ {Visited}
        /\ pollPc' = "unload" => ripe' # {} /\ issued' < MaxUnloadsPerCycle
    BY <1>2 DEF VisitNext
  <1>4. /\ dupObs' \in [Models -> 0 .. GracePolls]
        /\ \A m \in Models : m # Visited => dupObs'[m] = dupObs[m]
        /\ dupObs'[Visited] = 0
    BY <1>1 DEF TypeOK
  <1>5. TypeOK'
    BY <1>2, <1>3, <1>4 DEF TypeOK, viewVars, pollVars
  <1>6. RipeAreDuplicates'
    BY <1>1, <1>3, <1>4 DEF RipeAreDuplicates, viewVars, Deduping
  <1>7. VictimIsHolder'
    BY <1>3 DEF VictimIsHolder
  <1> QED BY <1>5, <1>6, <1>7

\* A mark or a retraction of the loader changes the models of one pod.
LEMMA MarkTInv ==
  ASSUME TInv, NEW p \in Pods, NEW m \in Models, MarkLoaded(p, m) \/ MarkUnloaded(p, m)
  PROVE  TInv'
  <1> USE DEF TInv, MarkLoaded, MarkUnloaded, Unmark
  <1>1. Visited' = Visited
    BY DEF Visited, dedupVars
  <1>2. TypeOK'
    <2>1. CASE MarkLoaded(p, m)
      BY <2>1 DEF TypeOK, pollVars, dedupVars
    <2>2. CASE MarkUnloaded(p, m)
      BY <2>2 DEF TypeOK, pollVars, dedupVars
    <2> QED BY <2>1, <2>2
  <1>3. RipeAreDuplicates' /\ VictimIsHolder'
    BY <1>1 DEF RipeAreDuplicates, VictimIsHolder, dedupVars
  <1> QED BY <1>2, <1>3

\* Every step of the tracker preserves its invariant.
LEMMA NextTInv == TInv /\ [Next]_vars => TInv'
  <1> SUFFICES ASSUME TInv, [Next]_vars PROVE TInv'
    OBVIOUS
  <1>1. CASE UNCHANGED vars
    <2>1. UNCHANGED <<viewVars, podIP, pollPc, pollVars, dedupVars>>
      BY <1>1 DEF vars
    <2>2. Visited' = Visited
      BY <2>1 DEF Visited, dedupVars
    <2>3. TypeOK'
      BY <2>1 DEF TInv, TypeOK, viewVars, pollVars, dedupVars
    <2> QED BY <2>1, <2>2, <2>3 DEF TInv, RipeAreDuplicates, VictimIsHolder, viewVars,
                                    dedupVars
  <1> QED BY <1>1, PollTInv, ResolveTInv, UnloadTInv, ResetTInv, MarkTInv
          DEF Next, PollStep, Mark

\* MarkUnloaded never takes its silent return for the victim of the dedup pass:
\* the victim is still tracked when the pass unmarks it.
LEMMA UnmarkAnnounces ==
  ASSUME TInv, [Next]_vars, pollPc = "unmark"
  PROVE  pollPc' \in {"unmark", "notify"}
  <1>1. CASE DedupUnmark
    <2>1. PICK p \in victim : pollPc' = IF p \in tracked THEN "notify" ELSE "reset"
      BY <1>1 DEF DedupUnmark
    <2>2. holders[Visited] \subseteq tracked
      BY VisitedIsRipe DEF Deduping
    <2>3. p \in tracked
      BY <2>1, <2>2 DEF TInv, VictimIsHolder
    <2> QED BY <2>1, <2>3
  <1>2. CASE UNCHANGED pollPc
    BY <1>2
  <1> QED
    BY <1>1, <1>2
    DEF vars, Next, PollStep, Mark, Poll, PollStart, QueryPod, QueryPodFails, PollCommit,
        Unload, DedupSkip, UnloadModelFails, UnloadModel, DedupNotify,
        ResolveDuplicates, DedupReset, MarkLoaded, MarkUnloaded

\* The invariant holds in every reachable state of the tracker.
THEOREM TrackerInvariance == Spec => []TInv
  BY InitTInv, NextTInv, PTL DEF Spec

=============================================================================
