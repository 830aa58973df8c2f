------------------------------ MODULE MCRouter ------------------------------
(* TLC instance of Router, for its liveness: no symmetry. *)
EXTENDS Router

=============================================================================
