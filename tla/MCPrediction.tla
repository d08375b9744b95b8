---------------------------- MODULE MCPrediction ----------------------------
(* An instance of Prediction for TLC: keys and calls are interchangeable. *)
EXTENDS Prediction, TLC

Symmetry == Permutations(Keys) \cup Permutations(Calls)
=============================================================================
