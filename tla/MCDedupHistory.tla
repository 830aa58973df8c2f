--------------------------- MODULE MCDedupHistory ---------------------------
(* TLC instance of DedupHistory. *)
EXTENDS DedupHistory

=============================================================================
