---------------------------- MODULE MCModelLoader ----------------------------
(* TLC instance of ModelLoader. *)
EXTENDS LoadCoalescing

=============================================================================
