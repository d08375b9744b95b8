---------------------------- MODULE MCManagedRun ----------------------------
(* An instance of ManagedRun for TLC. *)
EXTENDS ManagedRun, TLC
=============================================================================
