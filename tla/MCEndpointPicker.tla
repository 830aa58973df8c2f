-------------------------- MODULE MCEndpointPicker --------------------------
(* TLC instance of EndpointPicker. *)
EXTENDS EndpointPicker

=============================================================================
