----------------------------- MODULE MCAgentRun -----------------------------
(* Instances of AgentRun for TLC: which kinds of tool the model may call. *)
EXTENDS AgentRun, TLC
CONSTANTS c1, c2, c3
ToolKinds == (c1 :> "plain") @@ (c2 :> "confirm")
MixedKinds == (c1 :> "ask") @@ (c2 :> "batch") @@ (c3 :> "ask")
=============================================================================
