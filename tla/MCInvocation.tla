---------------------------- MODULE MCInvocation ----------------------------
(* Small instances of Invocation for TLC. *)
EXTENDS Invocation

AllKinds == ToolKinds
WriteKinds == {"train", "predict"}
=============================================================================
