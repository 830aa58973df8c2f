--------------------------- MODULE ReplicatedDedup ---------------------------
(***************************************************************************)
(* Two replicas of the endpoint picker (deployments/epp/epp.yaml), each    *)
(* with a model tracker and pressure data of its own, over the same        *)
(* llama-server pods.  No requests: the pods have their models already.    *)
(*                                                                         *)
(* The variables of the second replica have the suffix 2.                  *)
(***************************************************************************)
EXTENDS Naturals, FiniteSets

CONSTANTS Pods, Models, GracePolls, MaxUnloadsPerCycle, Levels

VARIABLES
    tracked, loaded, podIP, firstPoll, dupObs, pollPc, listed, todo, next, answer,
    kept, holders, ripe, issued, victim,
    tracked2, loaded2, podIP2, firstPoll2, dupObs2, pollPc2, listed2, todo2, next2,
    answer2, kept2, holders2, ripe2, issued2, victim2,
    servers     \* pod -> models it has loaded

T1 == INSTANCE ModelTracker
T2 == INSTANCE ModelTracker
      WITH tracked <- tracked2, loaded <- loaded2, podIP <- podIP2,
           firstPoll <- firstPoll2, dupObs <- dupObs2, pollPc <- pollPc2,
           listed <- listed2, todo <- todo2, next <- next2, answer <- answer2,
           kept <- kept2, holders <- holders2, ripe <- ripe2, issued <- issued2,
           victim <- victim2

vars1 == <<tracked, loaded, podIP, firstPoll, dupObs, pollPc, listed, todo, next,
           answer, kept, holders, ripe, issued, victim>>
vars2 == <<tracked2, loaded2, podIP2, firstPoll2, dupObs2, pollPc2, listed2, todo2,
           next2, answer2, kept2, holders2, ripe2, issued2, victim2>>
vars == <<vars1, vars2, servers>>

Init == T1!Init /\ T2!Init /\ servers \in [Pods -> SUBSET Models]

Pressures == [Pods -> Levels]

\* The steps of a tracker that leave the servers alone.  An unload is refused by
\* a server that does not have the model.
Quiet1 ==
    /\ \/ T1!PollStart(Pods)
       \/ \E p \in Pods : T1!QueryPod(p, servers[p])
       \/ T1!PollCommit \/ T1!ResolveDuplicates
       \/ \E pressure \in Pressures :
            /\ T1!UnloadModelFails(pressure)
            /\ T1!Visited \notin servers[T1!PickLoser(holders[T1!Visited], pressure)]
       \/ T1!DedupUnmark \/ T1!DedupNotify \/ T1!DedupReset
    /\ UNCHANGED <<vars2, servers>>

Quiet2 ==
    /\ \/ T2!PollStart(Pods)
       \/ \E p \in Pods : T2!QueryPod(p, servers[p])
       \/ T2!PollCommit \/ T2!ResolveDuplicates
       \/ \E pressure \in Pressures :
            /\ T2!UnloadModelFails(pressure)
            /\ T2!Visited \notin servers[T2!PickLoser(holders2[T2!Visited], pressure)]
       \/ T2!DedupUnmark \/ T2!DedupNotify \/ T2!DedupReset
    /\ UNCHANGED <<vars1, servers>>

Takes(p, m) ==
    /\ m \in servers[p]
    /\ servers' = [servers EXCEPT ![p] = @ \ {m}]

Unload1 ==
    /\ \E pressure \in Pressures : T1!UnloadModel(pressure)
    /\ \E p \in victim' : Takes(p, T1!Visited)
    /\ UNCHANGED vars2

Unload2 ==
    /\ \E pressure \in Pressures : T2!UnloadModel(pressure)
    /\ \E p \in victim2' : Takes(p, T2!Visited)
    /\ UNCHANGED vars1

Next == Quiet1 \/ Quiet2 \/ Unload1 \/ Unload2

Spec == Init /\ [][Next]_vars

-----------------------------------------------------------------------------
(* Properties *)

Servers(m) == {p \in Pods : m \in servers[p]}

\* "At worst we pick a sub-optimal winner; we never unload the last copy": when a
\* dedup pass has unloaded a model from its victim, another server has it.
LastCopyKept ==
    /\ pollPc = "unmark" => Servers(T1!Visited) # {}
    /\ pollPc2 = "unmark" => Servers(T2!Visited) # {}

=============================================================================
