--------------------------- MODULE MCLeaseHistory ---------------------------
(* TLC instance of LeaseHistory: its constant sets are sets of equals. *)
EXTENDS LeaseHistory, TLC

Symmetric ==
    Permutations(Requests) \union Permutations(Replicas) \union Permutations(Connections)

=============================================================================
