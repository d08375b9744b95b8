---------------------------- MODULE TrainingSlot ----------------------------
(***************************************************************************)
(* What the training service promises its users, without claims, leases,   *)
(* artifacts, retries or crashes: accepted training runs wait for the only *)
(* slot; the run that holds it leaves it exactly once, published or        *)
(* dropped, and never comes back; a run whose cancellation was accepted is *)
(* not published; and a scope is closed only when nothing waits or holds   *)
(* the slot, after which nothing is accepted.                              *)
(***************************************************************************)
CONSTANTS Runs

VARIABLES
  place,      \* per run: new, waiting, held, published, dropped
  cancelled,  \* runs whose cancellation was accepted
  closed      \* the scope of the runs is closed

vars == <<place, cancelled, closed>>

TypeOK ==
  /\ place \in [Runs -> {"new", "waiting", "held", "published", "dropped"}]
  /\ cancelled \subseteq Runs
  /\ closed \in BOOLEAN

Init ==
  /\ place = [r \in Runs |-> "new"]
  /\ cancelled = {}
  /\ closed = FALSE

Move(r, from, to) == place[r] = from /\ place' = [place EXCEPT ![r] = to]

Accept(r) ==
  /\ ~closed
  /\ Move(r, "new", "waiting")
  /\ UNCHANGED <<cancelled, closed>>

Take(r) ==
  /\ \A s \in Runs : place[s] # "held"
  /\ Move(r, "waiting", "held")
  /\ UNCHANGED <<cancelled, closed>>

Publish(r) ==
  /\ r \notin cancelled
  /\ Move(r, "held", "published")
  /\ UNCHANGED <<cancelled, closed>>

Drop(r) ==
  /\ Move(r, "held", "dropped")
  /\ UNCHANGED <<cancelled, closed>>

Cancel(r) ==
  /\ \/ Move(r, "waiting", "dropped")
     \/ place[r] = "held" /\ place' = place
  /\ cancelled' = cancelled \cup {r}
  /\ UNCHANGED closed

Close ==
  /\ \A r \in Runs : place[r] \notin {"waiting", "held"}
  /\ closed' = TRUE
  /\ UNCHANGED <<place, cancelled>>

Next ==
  \/ Close
  \/ \E r \in Runs : Accept(r) \/ Take(r) \/ Publish(r) \/ Drop(r) \/ Cancel(r)

Spec == Init /\ [][Next]_vars
=============================================================================
