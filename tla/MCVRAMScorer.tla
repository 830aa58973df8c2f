---------------------------- MODULE MCVRAMScorer ----------------------------
(* TLC instance of VRAMScorer.  Figures are in GB: at first node 1 has less   *)
(* room than node 2, which does not report its total and counts as a card of  *)
(* the default size.  Then node 1 reports NaN as its total, which wraps       *)
(* around to a huge available VRAM, and node 2 a negative total.              *)
EXTENDS VRAMScorer

MCNodes == 1 .. 2

MCReport ==
    << [v \in 0 .. 1 |-> [total |-> IF v = 0 THEN 8 ELSE NaN, used |-> 2]],
       [v \in 0 .. 1 |-> IF v = 0 THEN [total |-> None, used |-> 20]
                                 ELSE [total |-> -1, used |-> None]] >>

\* All is well; the scopes differ; one exporter is silent and one pod is gone.
MCClusters ==
    {[hosts |-> [sc \in Scopes |-> MCNodes], exporters |-> MCNodes, silent |-> {}],
     [hosts |-> [sc \in Scopes |-> IF sc = 1 THEN {1} ELSE {2}],
      exporters |-> MCNodes, silent |-> {}],
     [hosts |-> [sc \in Scopes |-> MCNodes], exporters |-> MCNodes, silent |-> {1}],
     [hosts |-> [sc \in Scopes |-> MCNodes], exporters |-> {2}, silent |-> {}]}

=============================================================================
