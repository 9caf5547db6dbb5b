------------------------ MODULE MCRuntimeSupervisor ------------------------
(* RuntimeSupervisor for TLC: the bounds are given in the configurations. *)
EXTENDS RuntimeSupervisor

=============================================================================
