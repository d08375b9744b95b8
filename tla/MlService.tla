----------------------------- MODULE MlService -----------------------------
(***************************************************************************)
(* The ML service of one scope: its training runs, the artifacts that      *)
(* their packages are published from, the objects behind the artifacts,    *)
(* and the closing of the scope (services/materials_ml, application.py).   *)
(*                                                                         *)
(* Repository transactions are serialised by an advisory lock: each is one *)
(* action.  Object storage is never touched inside a transaction, so every *)
(* operation that needs it is several actions with the storage in between. *)
(***************************************************************************)
EXTENDS Naturals, FiniteSets

CONSTANTS
  Runs,         \* the training runs that users may submit
  MemberCount,  \* files of a model package (MEMBERS: four)
  CloseOps      \* operation ids of close requests

ASSUME MemberAssumption == MemberCount \in Nat \ {0}

VARIABLES
  runs,    \* ml_training_run rows
  arts,    \* ml_artifact status per run and package member
  objs,    \* the members whose object is in the bucket
  errs,    \* the artifacts with a maintenance_error
  scope,   \* ml_scope row
  closes,  \* ml_scope_close: the recorded answer of each close operation
  mt       \* the artifact the maintenance thread is reconciling

service == <<runs, arts, objs, errs, scope, closes, mt>>

Members == 1..MemberCount
Terminal == {"SUCCEEDED", "FAILED", "CANCELLED"}
ArtStatus == {"none", "PENDING", "AVAILABLE", "DELETING", "DELETED"}

\* claim: the claim (and worker session) that owns the run, 0 for none; fresh:
\* the last heartbeat is at most LEASE_SECONDS old.
RunRow ==
  [status: {"none", "PENDING", "RUNNING"} \cup Terminal, claim: Nat,
   fresh: BOOLEAN, cancel: BOOLEAN, recovery: BOOLEAN, stopped: BOOLEAN]
NoRow ==
  [status |-> "none", claim |-> 0, fresh |-> FALSE, cancel |-> FALSE,
   recovery |-> FALSE, stopped |-> FALSE]

\* Where a reconciliation stands, and what it works on.
Stages == {"read", "delete", "drop", "fetch", "adopt"}
Jobs == [at: Stages, run: Runs, member: Members]
NoJob == [at |-> "none"]

ServiceTypeOK ==
  /\ runs \in [Runs -> RunRow]
  /\ arts \in [Runs -> [Members -> ArtStatus]]
  /\ objs \in [Runs -> SUBSET Members]
  /\ errs \subseteq Runs \X Members
  /\ scope \in [status: {"OPEN", "CLOSED"}, cleanup: BOOLEAN]
  /\ closes \in [CloseOps -> {"none", "BUSY", "CLOSED"}]
  /\ mt \in Jobs \cup {NoJob}

ServiceInit ==
  /\ runs = [r \in Runs |-> NoRow]
  /\ arts = [r \in Runs |-> [m \in Members |-> "none"]]
  /\ objs = [r \in Runs |-> {}]
  /\ errs = {}
  /\ scope = [status |-> "OPEN", cleanup |-> FALSE]
  /\ closes = [o \in CloseOps |-> "none"]
  /\ mt = NoJob

-----------------------------------------------------------------------------
(* Rows *)

Open == scope.status = "OPEN"
Active(r) == runs[r].claim # 0 /\ ~runs[r].stopped
Owned(r, k) == Open /\ runs[r].claim = k
OwnedLive(r, k) == Owned(r, k) /\ runs[r].fresh /\ ~runs[r].recovery
\* Slip: a cancellation that was accepted does not stop the publication.
PublishableCancelled(row) == row.status = "RUNNING"
Publishable(row) == row.status = "RUNNING" /\ ~row.cancel
PackageReady(r) == \A m \in Members : arts[r][m] = "AVAILABLE"

\* TrainingRun.finish.
Finished(row, status) ==
  [row EXCEPT !.status = status, !.stopped = TRUE, !.recovery = FALSE]

\* Slip: a run that already ended is not marked stopped.
ConvergedOnce(row) ==
  IF row.status \in Terminal THEN row
  ELSE Finished(row, IF row.cancel THEN "CANCELLED" ELSE "FAILED")
\* What stopped and recover make of a run whose process is known to be gone.
Converged(row) ==
  IF row.status \in Terminal THEN [row EXCEPT !.stopped = TRUE]
  ELSE Finished(row, IF row.cancel THEN "CANCELLED" ELSE "FAILED")

\* Slip: the package of a published run is discarded as well.
DiscardedAll(pack, row) ==
  [m \in Members |-> IF pack[m] \in {"PENDING", "AVAILABLE"} THEN "DELETING" ELSE pack[m]]
\* _discard_artifacts, after the run became row.
Discarded(pack, row) ==
  IF row.status = "SUCCEEDED" THEN pack
  ELSE [m \in Members |-> IF pack[m] \in {"PENDING", "AVAILABLE"} THEN "DELETING" ELSE pack[m]]

-----------------------------------------------------------------------------
(* Transactions of the resource API *)

Submit(r) ==
  /\ Open
  /\ runs[r].status = "none"
  /\ runs' = [runs EXCEPT ![r].status = "PENDING"]
  /\ UNCHANGED <<arts, objs, errs, scope, closes, mt>>

\* A run that waits is cancelled at once, but a claimed one keeps its process
\* until the worker reports it; a running one is only asked to stop.
Cancel(r) ==
  /\ runs[r].status \in {"PENDING", "RUNNING"}
  /\ LET asked == [runs[r] EXCEPT !.cancel = TRUE] IN
     runs' = [runs EXCEPT ![r] =
       IF asked.status = "RUNNING" THEN asked
       ELSE [Finished(asked, "CANCELLED") EXCEPT !.stopped = (asked.claim = 0)]]
  /\ UNCHANGED <<arts, objs, errs, scope, closes, mt>>

\* Slip: a run that ended is not waited for.
ScopeBusyActive == \E r \in Runs : runs[r].status \in {"PENDING", "RUNNING"}
ScopeBusy ==
  \E r \in Runs :
    /\ runs[r].status # "none"
    /\ \/ runs[r].status \in {"PENDING", "RUNNING"}
       \/ runs[r].recovery
       \/ ~runs[r].stopped

CloseScope(o) ==
  /\ closes[o] = "none"
  /\ LET busy == Open /\ ScopeBusy IN
     /\ closes' = [closes EXCEPT ![o] = IF busy THEN "BUSY" ELSE "CLOSED"]
     /\ scope' = IF busy \/ ~Open THEN scope ELSE [status |-> "CLOSED", cleanup |-> TRUE]
  /\ UNCHANGED <<runs, arts, objs, errs, mt>>

-----------------------------------------------------------------------------
(* Transactions of the worker API *)

\* A claim key that was answered before is answered with the same run.
ClaimedBy(k) == {r \in Runs : runs[r].claim = k}
Claimable ==
  IF \E r \in Runs : Active(r) THEN {} ELSE {r \in Runs : runs[r].status = "PENDING"}

Claim(r, k) ==
  /\ runs' = [runs EXCEPT ![r].claim = k, ![r].fresh = TRUE]
  /\ UNCHANGED <<arts, objs, errs, scope, closes, mt>>

Startable(r, k) ==
  OwnedLive(r, k) /\ (runs[r].status = "RUNNING" \/ (runs[r].status = "PENDING" /\ ~runs[r].cancel))
StartRun(r) ==
  /\ runs' = [runs EXCEPT ![r].status = "RUNNING"]
  /\ UNCHANGED <<arts, objs, errs, scope, closes, mt>>

Converge(r) ==
  /\ runs' = [runs EXCEPT ![r] = Converged(@)]
  /\ arts' = [arts EXCEPT ![r] = Discarded(@, Converged(runs[r]))]
  /\ UNCHANGED <<objs, errs, scope, closes, mt>>
\* recover does nothing to a run whose process was already reported.
RecoverRun(r) == IF runs[r].stopped THEN UNCHANGED service ELSE Converge(r)

Uploadable(r, k, m) ==
  /\ OwnedLive(r, k)
  /\ Publishable(runs[r])
  /\ arts[r][m] \in {"none", "PENDING", "AVAILABLE"}
UploadIntent(r, m) ==
  /\ arts' = [arts EXCEPT ![r][m] = IF @ = "none" THEN "PENDING" ELSE @]
  /\ UNCHANGED <<runs, objs, errs, scope, closes, mt>>

PutObject(r, m) ==
  /\ objs' = [objs EXCEPT ![r] = @ \cup {m}]
  /\ UNCHANGED <<runs, arts, errs, scope, closes, mt>>

\* The second transaction of complete repeats every check of the first.
CanPublish(r, k) == OwnedLive(r, k) /\ Publishable(runs[r]) /\ PackageReady(r)
Publish(r) ==
  /\ runs' = [runs EXCEPT ![r] = Finished(@, "SUCCEEDED")]
  /\ UNCHANGED <<arts, objs, errs, scope, closes, mt>>

-----------------------------------------------------------------------------
(* Maintenance *)

\* Thirty seconds without an accepted heartbeat.
Expire(r) ==
  /\ Active(r) /\ runs[r].fresh
  /\ runs' = [runs EXCEPT ![r].fresh = FALSE]
  /\ UNCHANGED <<arts, objs, errs, scope, closes, mt>>

RequireRecovery(r) ==
  /\ Active(r) /\ ~runs[r].fresh /\ ~runs[r].recovery
  /\ runs' = [runs EXCEPT ![r].recovery = TRUE]
  /\ UNCHANGED <<arts, objs, errs, scope, closes, mt>>

\* clean_closed_scopes: everything not yet deleted is released, and the scope is
\* clean once nothing is left to delete and no failure is unrepaired.
CleanScope ==
  /\ ~Open /\ scope.cleanup
  /\ arts' = [r \in Runs |-> Discarded(arts[r], NoRow)]
  /\ scope' = [scope EXCEPT !.cleanup =
       errs # {} \/ \E r \in Runs, m \in Members : arts[r][m] \notin {"none", "DELETED"}]
  /\ UNCHANGED <<runs, objs, errs, closes, mt>>

\* One stage of reconcile_artifact for member m of run r: the artifacts, objects
\* and errors after it, and the stage to go on with.  The status read at first
\* may be stale at every later stage.
Reconciled(r, m, at) ==
  LET status == arts[r][m]
      On(to) == [arts |-> arts, objs |-> objs, errs |-> errs, to |-> to]
      Mark(s) == [On("end") EXCEPT !.arts[r][m] = s]
  IN  CASE at = "read" ->
             On(IF status = "AVAILABLE" THEN "end"
                ELSE IF status = "PENDING" THEN "fetch" ELSE "delete")
        [] at = "delete" -> [On("drop") EXCEPT !.objs[r] = @ \ {m}]
        [] at = "drop" ->
             [IF status = "DELETING" THEN Mark("DELETED") ELSE On("end")
                EXCEPT !.errs = @ \ {<<r, m>>}]
        [] at = "fetch" -> On(IF m \in objs[r] THEN "adopt" ELSE "end")
        [] at = "adopt" ->
             IF status # "PENDING" THEN On("end")
             ELSE Mark(IF Publishable(runs[r]) /\ ~runs[r].recovery THEN "AVAILABLE"
                       ELSE "DELETING")

\* Slip: what was deleted is never looked at again.
MaintainPickOnce(r, m) ==
  /\ mt = NoJob
  /\ arts[r][m] \in {"PENDING", "DELETING"}
  /\ mt' = [at |-> Reconciled(r, m, "read").to, run |-> r, member |-> m]
  /\ UNCHANGED <<runs, arts, objs, errs, scope, closes>>
\* The maintenance thread takes the due artifacts one after the other; the
\* status that decides is the one reconcile_artifact reads.
MaintainPick(r, m) ==
  /\ mt = NoJob
  /\ arts[r][m] \in {"PENDING", "DELETING", "DELETED"}
  /\ mt' = [at |-> Reconciled(r, m, "read").to, run |-> r, member |-> m]
  /\ UNCHANGED <<runs, arts, objs, errs, scope, closes>>

MaintainStep ==
  /\ mt # NoJob
  /\ LET next == Reconciled(mt.run, mt.member, mt.at) IN
     /\ arts' = next.arts /\ objs' = next.objs /\ errs' = next.errs
     /\ mt' = IF next.to = "end" THEN NoJob ELSE [mt EXCEPT !.at = next.to]
  /\ UNCHANGED <<runs, scope, closes>>

ServiceNext ==
  \/ \E r \in Runs : Submit(r) \/ Cancel(r) \/ Expire(r) \/ RequireRecovery(r)
  \/ \E o \in CloseOps : CloseScope(o)
  \/ \E r \in Runs, m \in Members : MaintainPick(r, m)
  \/ MaintainStep
  \/ CleanScope
=============================================================================
