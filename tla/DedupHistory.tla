---------------------------- MODULE DedupHistory ----------------------------
(***************************************************************************)
(* ModelTracker with two history variables, for the safety of the dedup    *)
(* pass: what the last GracePolls observations were, and what the loader   *)
(* retracted behind the back of the pass.                                  *)
(***************************************************************************)
EXTENDS ModelTracker

VARIABLES
    observed,   \* observed[i]: models seen duplicated i observations ago and
                \* not unloaded since
    retracted   \* marks MarkUnloaded has removed since the last snapshot

historyVars == <<observed, retracted>>

HInit ==
    /\ Init
    /\ observed = [i \in 1 .. GracePolls |-> {}]
    /\ retracted = {}

HResolveDuplicates ==
    /\ ResolveDuplicates
    /\ observed' = [i \in 1 .. GracePolls |->
                      IF i = 1 THEN {m \in Models : IsDuplicate(Holders(m))}
                               ELSE observed[i - 1]]
    /\ retracted' = {}

HDedupReset ==
    /\ DedupReset
    /\ observed' = [i \in 1 .. GracePolls |-> observed[i] \ {Visited}]
    /\ UNCHANGED retracted

HMarkLoaded(p, m) ==
    /\ MarkLoaded(p, m)
    /\ retracted' = retracted \ {<<p, m>>}
    /\ UNCHANGED observed

HMarkUnloaded(p, m) ==
    /\ MarkUnloaded(p, m)
    /\ retracted' = retracted \union {<<p, m>>}
    /\ UNCHANGED observed

HNext ==
    \/ (Poll \/ Unload) /\ UNCHANGED historyVars
    \/ HResolveDuplicates
    \/ HDedupReset
    \/ \E p \in Pods, m \in Models : HMarkLoaded(p, m)
    \/ \E p \in Pods, m \in Models : HMarkUnloaded(p, m)

HSpec == HInit /\ [][HNext]_<<vars, historyVars>>

\* The ticker keeps firing and PollTimeout ends every HTTP exchange.
HFairSpec == HSpec /\ WF_vars(PollStep)

-----------------------------------------------------------------------------
(* Properties *)

\* Types of the history variables.
HTypeOK ==
    /\ observed \in [1 .. GracePolls -> SUBSET Models]
    /\ retracted \subseteq Pods \X Models

\* The dedup pass visits a model only if each of the last GracePolls polls found
\* it on two pods, counting from its previous unload: the grace window starts
\* anew whenever the duplicate disappears and after every unload.
GraceRespected ==
    pollPc \in {"unload", "unmark"} =>
        \A m \in ripe, i \in 1 .. GracePolls : m \in observed[i]

\* Whatever the interleaving with the loader's marks, the dedup pass by itself
\* never takes the last copy out of the view: when it unmarks its victim, some
\* other pod still has the mark unless a failed load has retracted it meanwhile.
KeepsACopy ==
    pollPc \in {"unmark", "notify", "reset"} =>
        \E q \in Pods \ victim : Visited \in loaded[q] \/ <<q, Visited>> \in retracted

\* A successful unload is always announced to the unload observer: MarkUnloaded
\* never takes its silent return for the dedup victim.
EveryUnloadIsAnnounced ==
    [][pollPc = "unmark" => pollPc' \in {"unmark", "notify"}]_<<vars, historyVars>>

-----------------------------------------------------------------------------
(* The inductive strengthening of GraceRespected and KeepsACopy *)

\* dupObs never runs ahead of the observations actually made.
CountsObservations ==
    \A m \in Models : \A i \in 1 .. dupObs[m] : m \in observed[i]

\* Of every mark in the snapshot it is known what became of it.
MarksAccountedFor ==
    pollPc \in Deduping =>
        \A m \in ripe : \A q \in holders[m] :
            \/ m \in loaded[q]
            \/ <<q, m>> \in retracted
            \/ pollPc \in {"notify", "reset"} /\ m = Visited /\ q \in victim

\* Holds in every reachable state (DedupProofs).
HIInv ==
    /\ TInv
    /\ HTypeOK
    /\ CountsObservations
    /\ MarksAccountedFor

=============================================================================
