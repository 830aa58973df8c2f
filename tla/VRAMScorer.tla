----------------------------- MODULE VRAMScorer -----------------------------
(***************************************************************************)
(* The VRAM scorer plugin (internal/plugins/scorer/vram.go) on top of the  *)
(* VRAM tracker: Score turns a snapshot of the metrics into one score per  *)
(* candidate pod.  A score is a multiple of the smallest difference that   *)
(* float64 makes between scores; 10 * Resolution of them are the score 1.  *)
(***************************************************************************)
EXTENDS VRAMTracker, FiniteSetsExt

CONSTANTS
    Threshold,  \* thresholdBytes; NewVRAMScorer replaces values below 1 GB
    Resolution  \* minScore, in the units of a score

\* A score is precise enough to tell a node at the threshold from one without
\* VRAM, whatever the node with most VRAM has: 1 GB in 2^33 GB.
ASSUME ThresholdAssumption ==
    /\ Threshold \in 1 .. MaxInt
    /\ Resolution \in Nat \ {0}
    /\ 9 * Resolution * Threshold >= MaxInt

\* A cluster has finitely many nodes.
ASSUME NodesAssumption == IsFiniteSet(Nodes)

\* The largest available VRAM of any known node, 0 if there is none.
MaxAvailable == Max({0} \union {metrics[n].available : n \in Known})

Score_ShareOfNode(node) ==
    IF node \notin Known THEN 0
    ELSE IF metrics[node].available < Threshold THEN Resolution
    ELSE Resolution + (9 * Resolution * metrics[node].available)
                        \div Max({1, metrics[node].total})

\* The score of a pod on the given node; None if the API listing of its
\* namespace failed or did not show the pod.
Score(node) ==
    IF node \notin Known THEN 0                                        \* scores 0
    ELSE IF metrics[node].available < Threshold THEN Resolution        \* minScore
    ELSE IF MaxAvailable > 0
      THEN Resolution + (9 * Resolution * metrics[node].available) \div MaxAvailable
    ELSE 5 * Resolution                                                \* defaultScore

-----------------------------------------------------------------------------
(* Properties *)

\* "Endpoints with more available VRAM get higher scores": more never gives a
\* lower score (rounding may make two equal), and a node at the threshold scores
\* higher than one below it.  No pod scores higher than one on the node that
\* the router would load on, and a pod of an unknown node not higher than any.
ScoreRanksByVRAM ==
    \A n \in Known :
        /\ Score(None) <= Score(n)
        /\ \A q \in Known :
             /\ metrics[n].available <= metrics[q].available => Score(n) <= Score(q)
             /\ metrics[n].available < Threshold /\ Threshold <= metrics[q].available
                  => Score(n) < Score(q)
             /\ q \in NodesWithMostAvailableVRAM => Score(n) <= Score(q)

=============================================================================
