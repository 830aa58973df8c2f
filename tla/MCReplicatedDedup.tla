-------------------------- MODULE MCReplicatedDedup --------------------------
(* TLC instance of ReplicatedDedup. *)
EXTENDS ReplicatedDedup
=============================================================================
