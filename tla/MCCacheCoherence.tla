-------------------------- MODULE MCCacheCoherence --------------------------
(* TLC instance of CacheCoherence: the requests are interchangeable. *)
EXTENDS CacheCoherence, TLC

Symmetric == Permutations(Requests)

=============================================================================
