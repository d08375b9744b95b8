------------------------------ MODULE MCMlJobs ------------------------------
(* Instances of MlJobs for TLC. *)
EXTENDS MlJobs, TLC
CONSTANTS r1, r2
AnyRun == Permutations({r1, r2})
AllOps == Ops
NoClaim == Ops \ {"claim"}
=============================================================================
