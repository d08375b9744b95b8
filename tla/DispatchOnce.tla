---------------------------- MODULE DispatchOnce ----------------------------
(***************************************************************************)
(* What an AgentRun promises about its tool calls, without versions,       *)
(* claims, checkpoints or crashes: a call is fenced while the run is not   *)
(* stopped and nothing else is in flight, driven at most once behind its   *)
(* fence, and recorded at most once, after it was driven.  A stop forbids  *)
(* new fences and new drives of calls that were not fenced, nothing else.  *)
(***************************************************************************)
EXTENDS Integers

CONSTANTS Calls

VARIABLES
  phase,     \* per call: open, fenced, recorded
  driven,    \* the calls handed to their executor
  stopped    \* the user's stop is durable

vars == <<phase, driven, stopped>>

TypeOK ==
  /\ phase \in [Calls -> {"open", "fenced", "recorded"}]
  /\ driven \subseteq Calls
  /\ stopped \in BOOLEAN

Init ==
  /\ phase = [c \in Calls |-> "open"]
  /\ driven = {}
  /\ stopped = FALSE

Fence(c) ==
  /\ ~stopped
  /\ phase[c] = "open"
  /\ \A d \in Calls : phase[d] # "fenced"
  /\ phase' = [phase EXCEPT ![c] = "fenced"]
  /\ UNCHANGED <<driven, stopped>>

Drive(c) ==
  /\ phase[c] = "fenced"
  /\ c \notin driven
  /\ driven' = driven \cup {c}
  /\ UNCHANGED <<phase, stopped>>

Record(c) ==
  /\ phase[c] = "fenced"
  /\ c \in driven
  /\ phase' = [phase EXCEPT ![c] = "recorded"]
  /\ UNCHANGED <<driven, stopped>>

Stop ==
  /\ ~stopped
  /\ stopped' = TRUE
  /\ UNCHANGED <<phase, driven>>

Next == Stop \/ \E c \in Calls : Fence(c) \/ Drive(c) \/ Record(c)

Spec == Init /\ [][Next]_vars
=============================================================================
