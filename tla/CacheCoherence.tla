--------------------------- MODULE CacheCoherence ---------------------------
(***************************************************************************)
(* EndpointPicker with a history variable for the coherence of the model   *)
(* loader's cache: the keys whose model a server dropped without the       *)
(* tracker's knowledge, or while a call stood between the server's         *)
(* positive answer and the insertion into the cache.                       *)
(***************************************************************************)
EXTENDS EndpointPicker

VARIABLE overtaken

\* Calls that know the model to be loaded and have not yet noted it.
AboutToCache(k) ==
    \E r \in Requests : pc[r] \in {"confirm", "store"} /\ key[r] = k

\* The server loses the model in this step and nobody will announce it: an
\* eviction, a restart, or an unload whose answer is lost.
SilentlyDropped(k) == ServerHas(k) /\ ~ ServerHas(k)' /\ ~ Announcing(k)'

CInit == Init /\ overtaken = {}

CNext ==
    /\ Next
    /\ overtaken' = {k \in Pods \X Models :
                        /\ ~ ServerHas(k)'
                        /\ k \in overtaken \/ AboutToCache(k) \/ SilentlyDropped(k)}

CSpec == CInit /\ [][CNext]_<<vars, overtaken>>

CFairSpec == CSpec /\ Fairness

\* The unload observer keeps the cache coherent but for two gaps: an entry is
\* stale only while its unload is being announced, or if a call had its answer
\* from the server before the unload and inserts the entry after it, or if the
\* server dropped the model and the tracker was not told.
StaleOnlyByRace ==
    \A k \in loadedModels : ServerHas(k) \/ Announcing(k) \/ k \in overtaken

\* A call about to make an entry has its answer from the server, and if the
\* server has dropped the model since, that is on record.
AnswersAccountedFor ==
    \A k \in Pods \X Models : AboutToCache(k) => ServerHas(k) \/ k \in overtaken

\* The inductive invariant.
CInv == PickerInv /\ StaleOnlyByRace /\ AnswersAccountedFor

=============================================================================
