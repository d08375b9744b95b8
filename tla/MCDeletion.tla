----------------------------- MODULE MCDeletion -----------------------------
(* Instances of Deletion for TLC: each cast of requests names what the       *)
(* clients ask for; every one has two deletions under way.                   *)
EXTENDS Deletion, TLC

Nothing == [what \in Asked |-> 0]
MCRequests ==
  {[Nothing EXCEPT !["image"] = 2, !["review"] = 1, !["delete"] = 2, !["crash"] = 1,
                   !["fault"] = 2],
   [Nothing EXCEPT !["turn"] = 1, !["delete"] = 2, !["resume"] = 1, !["crash"] = 1,
                   !["fault"] = 2],
   [Nothing EXCEPT !["dataset"] = 2, !["recheck"] = 1, !["delete"] = 2, !["resume"] = 1,
                   !["crash"] = 1, !["fault"] = 2],
   [Nothing EXCEPT !["dataset"] = 1, !["turn"] = 1, !["delete"] = 2, !["fault"] = 1]}

Symmetry == Permutations(Uploaders) \cup Permutations(Senders)
            \cup Permutations(Deleters) \cup Permutations(Deletions)
=============================================================================
