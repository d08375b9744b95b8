------------------------------- MODULE MlJobs -------------------------------
(***************************************************************************)
(* The training worker (worker.py, windows.py) against the ML service: one *)
(* process that claims a run, starts a gated child in a named job object,  *)
(* releases it once the service confirmed the start, uploads the package,  *)
(* asks for its publication and reports that the child is gone.            *)
(*                                                                         *)
(* A request is served in one or more service actions.  The worker may     *)
(* stop waiting for any of them, or die; the request it leaves behind may  *)
(* be served later, at any time, or never.                                 *)
(*                                                                         *)
(* The heartbeat thread changes nothing in the service but the age of the  *)
(* lease (see Expire).  What it tells the worker, that the run is          *)
(* cancelled or the lease lost, may be old or missing: at each place where *)
(* the worker looks at it, it may also find a reason to stop.              *)
(***************************************************************************)
EXTENDS MlService

CONSTANTS
  NoRun,
  LateOps,         \* requests the service may serve after the worker gave up
  MaxCrashes,      \* bound: deaths of the worker process
  MaxGiveUps,      \* bound: requests whose answer is lost or late
  MaxUnconfirmed,  \* bound: process stops that cannot be confirmed
  MaxFaults        \* bound: all of these together

ASSUME JobsAssumption ==
  /\ NoRun \notin Runs
  /\ MaxCrashes \in Nat /\ MaxGiveUps \in Nat /\ MaxUnconfirmed \in Nat /\ MaxFaults \in Nat

VARIABLES
  wk,       \* the worker process
  late,     \* requests the worker no longer waits for
  child,    \* the training child of each run, in the job of its claim
  faults    \* crashes, give-ups and unconfirmed stops so far

vars == <<runs, arts, objs, errs, scope, closes, mt, wk, late, child, faults>>

Ops == {"claim", "recover", "input", "start", "status", "upload", "complete", "stopped"}
ASSUME LateAssumption == LateOps \subseteq Ops
Calls == [op: Ops, run: Runs \cup {NoRun}, key: Nat, member: 0..MemberCount,
          at: Stages \cup {"begin", "put", "verify", "publish"}]
NoCall == [op |-> "none"]

WorkerPc == {"down", "recover", "recovering", "claim", "input", "setup", "start",
  "started", "release", "train", "upload", "complete", "published", "again", "stop",
  "close", "stopped"}

\* key: the claim request, and the claim granted to it; proc: the worker holds
\* the JobProcess.
Workers ==
  [pc: WorkerPc, key: Nat, run: Runs \cup {NoRun}, proc: BOOLEAN,
   call: Calls \cup {NoCall}]

ChildStates == {"none", "gated", "training", "done", "failed"}
Alive(r) == child[r] \in {"gated", "training"}

TypeInv ==
  /\ ServiceTypeOK
  /\ wk \in Workers
  /\ late \subseteq Calls
  /\ child \in [Runs -> ChildStates]
  /\ faults \in [crashes: 0..MaxCrashes, giveups: 0..MaxGiveUps,
                 unconfirmed: 0..MaxUnconfirmed]

Init ==
  /\ ServiceInit
  /\ wk = [pc |-> "down", key |-> 0, run |-> NoRun, proc |-> FALSE, call |-> NoCall]
  /\ late = {}
  /\ child = [r \in Runs |-> "none"]
  /\ faults = [crashes |-> 0, giveups |-> 0, unconfirmed |-> 0]

FaultsLeft == faults.crashes + faults.giveups + faults.unconfirmed < MaxFaults

-----------------------------------------------------------------------------
(* What the worker does next *)

At(pc) == [wk EXCEPT !.pc = pc, !.call = NoCall]
Ask(pc, op, m) ==
  [wk EXCEPT !.pc = pc,
     !.call = [op |-> op, run |-> wk.run, key |-> wk.key, member |-> m, at |-> "begin"]]
Down == [At("down") EXCEPT !.run = NoRun, !.proc = FALSE]

\* run: a fresh key for each claim, kept while the answer is uncertain.
NextClaim ==
  [wk EXCEPT !.pc = "claim", !.key = @ + 1, !.run = NoRun,
     !.call = [op |-> "claim", run |-> NoRun, key |-> wk.key + 1, member |-> 0,
               at |-> "begin"]]
Execute(r) ==
  [wk EXCEPT !.pc = "input", !.run = r,
     !.call = [op |-> "input", run |-> r, key |-> wk.key, member |-> 0, at |-> "begin"]]

\* Before each upload the heartbeat is looked at.
UploadNext(m) ==
  IF m > MemberCount THEN {Ask("complete", "complete", 0)}
  ELSE {Ask("upload", "upload", m), At("stop")}

\* An answer: ok with the row it shows (of run), refused (4xx), or none (lost).
Answer(kind, r) ==
  [kind |-> kind, run |-> r, row |-> IF r = NoRun THEN NoRow ELSE runs[r]]

\* The confirmation of a start, unless the lease was lost meanwhile.
Confirmed(row) == {At("stop")} \cup (IF Publishable(row) THEN {At("release")} ELSE {})

\* The worker's reactions to the answer it waits for.
Heard(a) ==
  LET ok == a.kind = "ok" IN
  CASE wk.pc = "recovering" -> {IF ok THEN NextClaim ELSE Down}
    [] wk.pc = "claim" -> {IF a.run # NoRun THEN Execute(a.run) ELSE wk}
    [] wk.pc = "input" -> {IF ok THEN At("setup") ELSE At("stop")}
    [] wk.pc = "start" -> IF ok THEN Confirmed(a.row) ELSE {Ask("started", "status", 0)}
    [] wk.pc = "started" -> IF ok THEN Confirmed(a.row) ELSE {At("stop")}
    [] wk.pc = "upload" -> IF ok THEN UploadNext(wk.call.member + 1) ELSE {At("stop")}
    [] wk.pc = "complete" -> {IF ok THEN At("close") ELSE Ask("published", "status", 0)}
    [] wk.pc = "published" ->
         {IF ~ok THEN At("stop")
          ELSE IF a.row.status = "SUCCEEDED" THEN At("close") ELSE Ask("again", "complete", 0)}
    [] wk.pc = "again" -> {IF ok THEN At("close") ELSE At("stop")}
    [] wk.pc = "stopped" ->
         {IF ok THEN NextClaim ELSE IF a.kind = "refused" THEN Down ELSE wk}

-----------------------------------------------------------------------------
(* Serving a request c: the worker waits for it, or it is a late one *)

Pending(c, waited) == IF waited THEN c = wk.call /\ c # NoCall ELSE c \in late

Reply(c, waited, a) ==
  IF waited THEN wk' \in Heard(a) /\ late' = late
  ELSE late' = late \ {c} /\ wk' = wk

Continue(c, waited, at) ==
  IF waited THEN wk' = [wk EXCEPT !.call.at = at] /\ late' = late
  ELSE late' = (late \ {c}) \cup {[c EXCEPT !.at = at]} /\ wk' = wk

Refuse(c, waited) == Reply(c, waited, Answer("refused", NoRun)) /\ UNCHANGED service

ServeClaim(c, waited) ==
  \/ \E r \in ClaimedBy(c.key) : Reply(c, waited, Answer("ok", r)) /\ UNCHANGED service
  \/ /\ ClaimedBy(c.key) = {}
     /\ \E r \in Claimable : Claim(r, c.key) /\ Reply(c, waited, Answer("ok", r))
  \/ /\ ClaimedBy(c.key) = {} /\ Claimable = {}
     /\ Reply(c, waited, Answer("ok", NoRun)) /\ UNCHANGED service

ServeInput(c, waited) ==
  IF OwnedLive(c.run, c.key) /\ runs[c.run].status \in {"PENDING", "RUNNING"}
     /\ ~runs[c.run].cancel
  THEN Reply(c, waited, Answer("ok", c.run)) /\ UNCHANGED service
  ELSE Refuse(c, waited)

ServeStart(c, waited) ==
  IF Startable(c.run, c.key)
  THEN /\ StartRun(c.run)
       /\ Reply(c, waited, [Answer("ok", c.run) EXCEPT !.row.status = "RUNNING"])
  ELSE Refuse(c, waited)

ServeStatus(c, waited) ==
  IF Owned(c.run, c.key)
  THEN Reply(c, waited, Answer("ok", c.run)) /\ UNCHANGED service
  ELSE Refuse(c, waited)

ServeStopped(c, waited) ==
  IF Owned(c.run, c.key)
  THEN Converge(c.run) /\ Reply(c, waited, Answer("ok", c.run))
  ELSE Refuse(c, waited)

ServeRecover(c, waited) ==
  IF runs[c.run].claim = c.key
  THEN RecoverRun(c.run) /\ Reply(c, waited, Answer("ok", c.run))
  ELSE Refuse(c, waited)

\* upload_member: the intent, the object, and the reconciliation that makes the
\* artifact available; whatever became of it, the upload is answered.
ServeUpload(c, waited) ==
  \/ /\ c.at = "begin"
     /\ IF Uploadable(c.run, c.key, c.member)
        THEN UploadIntent(c.run, c.member) /\ Continue(c, waited, "put")
        ELSE Refuse(c, waited)
  \/ /\ c.at = "put"
     /\ PutObject(c.run, c.member)
     /\ Continue(c, waited, "read")
  \/ /\ c.at \in Stages
     /\ LET next == Reconciled(c.run, c.member, c.at) IN
        /\ arts' = next.arts /\ objs' = next.objs /\ errs' = next.errs
        /\ IF next.to # "end" THEN Continue(c, waited, next.to)
           ELSE Reply(c, waited, Answer(IF Open THEN "ok" ELSE "refused", c.run))
     /\ UNCHANGED <<runs, scope, closes, mt>>

\* complete: both transactions check everything; between them the package is
\* read back and verified, which may refuse it.
ServeComplete(c, waited) ==
  \/ /\ c.at \in {"begin", "publish"}
     /\ IF Owned(c.run, c.key) /\ runs[c.run].status = "SUCCEEDED"
        THEN Reply(c, waited, Answer("ok", c.run)) /\ UNCHANGED service
        ELSE IF ~CanPublish(c.run, c.key) THEN Refuse(c, waited)
        ELSE IF c.at = "begin" THEN Continue(c, waited, "verify") /\ UNCHANGED service
        ELSE Publish(c.run) /\ Reply(c, waited, Answer("ok", c.run))
  \/ /\ c.at = "verify"
     /\ \/ objs[c.run] = Members /\ Continue(c, waited, "publish") /\ UNCHANGED service
        \/ Refuse(c, waited)

Serve(c, waited) ==
  /\ Pending(c, waited)
  /\ \/ c.op = "claim" /\ ServeClaim(c, waited)
     \/ c.op = "recover" /\ ServeRecover(c, waited)
     \/ c.op = "input" /\ ServeInput(c, waited)
     \/ c.op = "start" /\ ServeStart(c, waited)
     \/ c.op = "status" /\ ServeStatus(c, waited)
     \/ c.op = "upload" /\ ServeUpload(c, waited)
     \/ c.op = "complete" /\ ServeComplete(c, waited)
     \/ c.op = "stopped" /\ ServeStopped(c, waited)
  /\ UNCHANGED <<child, faults>>

-----------------------------------------------------------------------------
(* The worker's own steps *)

\* Slip: a job that cannot be opened is taken for gone.
KillNothing(r) == child' = child
Kill(r) == child' = [child EXCEPT ![r] = IF Alive(r) THEN "failed" ELSE @]

\* A stop that cannot be confirmed ends the worker, which leaves the recovery to
\* its successor.
Unconfirmed ==
  /\ faults.unconfirmed < MaxUnconfirmed /\ FaultsLeft
  /\ faults' = [faults EXCEPT !.unconfirmed = @ + 1]

Start ==
  /\ wk.pc = "down"
  /\ wk' = At("recover")
  /\ UNCHANGED <<child, faults>>

\* recover: every claim listed is resolved after its job is empty.
Recover ==
  /\ wk.pc = "recover"
  /\ \/ /\ \A r \in Runs : ~Active(r)
        /\ wk' = NextClaim
        /\ UNCHANGED <<child, faults>>
     \/ \E r \in Runs :
          /\ Active(r)
          /\ \/ /\ Kill(r) /\ UNCHANGED faults
                /\ wk' = [wk EXCEPT !.pc = "recovering",
                     !.call = [op |-> "recover", run |-> r, key |-> runs[r].claim,
                               member |-> 0, at |-> "begin"]]
             \/ Unconfirmed /\ wk' = Down /\ UNCHANGED child

\* JobProcess: a constructor that fails leaves the worker without a process to
\* stop, also when the child it started could not be confirmed gone.
SetUp ==
  /\ wk.pc = "setup"
  /\ \/ /\ child' = [child EXCEPT ![wk.run] = "gated"]
        /\ wk' = [Ask("start", "start", 0) EXCEPT !.proc = TRUE]
        /\ UNCHANGED faults
     \/ wk' = At("stop") /\ UNCHANGED <<child, faults>>
     \/ /\ Unconfirmed
        /\ child' = [child EXCEPT ![wk.run] = "gated"]
        /\ wk' = At("stop")

Release ==
  /\ wk.pc = "release"
  /\ IF child[wk.run] = "gated"
     THEN child' = [child EXCEPT ![wk.run] = "training"] /\ wk' = At("train")
     ELSE child' = child /\ wk' = At("stop")
  /\ UNCHANGED faults

\* The poll loop: a child that ended well is uploaded; one that failed, that is
\* cancelled, or that is out of lease or time is stopped.
Train ==
  /\ wk.pc = "train"
  /\ wk' \in IF child[wk.run] = "done" THEN UploadNext(1) ELSE {At("stop")}
  /\ UNCHANGED <<child, faults>>

StopChild ==
  /\ wk.pc \in {"stop", "close"}
  /\ LET then == IF wk.pc = "close" THEN NextClaim ELSE Ask("stopped", "stopped", 0) IN
     \/ /\ wk' = [then EXCEPT !.proc = FALSE]
        /\ IF wk.proc THEN Kill(wk.run) ELSE child' = child
        /\ UNCHANGED faults
     \/ wk.proc /\ Unconfirmed /\ wk' = Down /\ UNCHANGED child

WorkerStep ==
  /\ Start \/ Recover \/ SetUp \/ Release \/ Train \/ StopChild
  /\ UNCHANGED <<service, late>>

-----------------------------------------------------------------------------
(* What goes wrong *)

LeftBehind == late \cup (IF wk.call.op \in LateOps THEN {wk.call} ELSE {})

GiveUp ==
  /\ wk.call # NoCall
  /\ faults.giveups < MaxGiveUps /\ FaultsLeft
  /\ faults' = [faults EXCEPT !.giveups = @ + 1]
  /\ wk' \in Heard(Answer("lost", NoRun))
  /\ late' = LeftBehind
  /\ UNCHANGED <<service, child>>

\* A reconciliation fails: the storage refuses, which is noted at the artifact and
\* at a closed scope, or the service itself fails.
MaintainFails ==
  /\ mt # NoJob
  /\ faults.giveups < MaxGiveUps /\ FaultsLeft
  /\ faults' = [faults EXCEPT !.giveups = @ + 1]
  /\ mt' = NoJob
  /\ \/ UNCHANGED <<errs, scope>>
     \/ /\ errs' = errs \cup {<<mt.run, mt.member>>}
        /\ scope' = IF Open THEN scope ELSE [scope EXCEPT !.cleanup = TRUE]
  /\ UNCHANGED <<runs, arts, objs, closes, wk, late, child>>

\* The process dies; its job objects close with it, but the child may be seen for
\* a while.
Crash ==
  /\ wk.pc # "down"
  /\ faults.crashes < MaxCrashes /\ FaultsLeft
  /\ faults' = [faults EXCEPT !.crashes = @ + 1]
  /\ wk' = Down
  /\ late' = LeftBehind
  /\ UNCHANGED <<service, child>>

\* The child ends by itself, or with the job of a worker that is gone.
ChildEnds(r) ==
  /\ \/ child[r] = "training" /\ child' = [child EXCEPT ![r] = "done"]
     \/ Alive(r) /\ child' = [child EXCEPT ![r] = "failed"]
  /\ UNCHANGED <<service, wk, late, faults>>

Next ==
  \/ ServiceNext /\ UNCHANGED <<wk, late, child, faults>>
  \/ Serve(wk.call, TRUE)
  \/ \E c \in late : Serve(c, FALSE)
  \/ WorkerStep
  \/ GiveUp \/ MaintainFails \/ Crash
  \/ \E r \in Runs : ChildEnds(r)

Spec == Init /\ [][Next]_vars

\* The worker process runs and is restarted; the service answers requests whose
\* caller waits; the maintenance task takes the due artifacts in the order of
\* their last check, so none is passed over for ever.
Fairness ==
  /\ WF_vars(WorkerStep)
  /\ WF_vars(Serve(wk.call, TRUE))
  /\ \A r \in Runs, m \in Members :
       SF_vars(MaintainPick(r, m) /\ UNCHANGED <<wk, late, child, faults>>)
  /\ WF_vars(MaintainStep /\ UNCHANGED <<wk, late, child, faults>>)
  /\ WF_vars(CleanScope /\ UNCHANGED <<wk, late, child, faults>>)

FairSpec == Spec /\ Fairness

-----------------------------------------------------------------------------
(* Correctness *)

\* A released child trains the run that the service shows RUNNING under a claim
\* and not yet reported stopped, and no other child trains at the same time.
TrainingIsOwned ==
  \A r \in Runs :
    child[r] = "training" =>
      /\ runs[r].status = "RUNNING" /\ Active(r)
      /\ \A s \in Runs \ {r} : child[s] # "training"

\* Until its scope closes, a published model is whole: its artifacts are
\* available and their objects stored, whatever cleanups and late uploads ran.
ModelIsWhole ==
  \A r \in Runs :
    runs[r].status = "SUCCEEDED" /\ Open => PackageReady(r) /\ objs[r] = Members

\* Once a run that failed or was cancelled is reported stopped, nothing of its
\* package is or becomes available.
NothingLeaks ==
  \A r \in Runs :
    runs[r].status \in {"FAILED", "CANCELLED"} /\ runs[r].stopped =>
      \A m \in Members : arts[r][m] \in {"none", "DELETING", "DELETED"}

\* A package is published as a whole or not at all, between uploads, late
\* requests, reconciliations and recoveries (complete, reconcile_artifact).
PackageIsWhole == TypeInv /\ ModelIsWhole /\ NothingLeaks

\* A closed scope has no work left: its runs ended and no child is alive that
\* could still be released.
ClosedIsQuiet ==
  ~Open => \A r \in Runs :
    /\ runs[r].status = "none" \/ (runs[r].status \in Terminal /\ runs[r].stopped)
    /\ child[r] # "training"

Place(r) ==
  LET row == runs[r] IN
  IF row.status = "none" THEN "new"
  ELSE IF row.status = "SUCCEEDED" THEN "published"
  ELSE IF row.status \in Terminal /\ row.stopped THEN "dropped"
  ELSE IF row.claim = 0 THEN "waiting" ELSE "held"

Slot == INSTANCE TrainingSlot WITH
  place <- [r \in Runs |-> Place(r)],
  cancelled <- {r \in Runs : runs[r].cancel},
  closed <- ~Open

\* The service keeps the promise of TrainingSlot: one run at a time, left once,
\* never published after its cancellation was accepted.
KeepsSlot == Slot!Spec

\* A claimed run is resolved: published, failed or cancelled, its process gone.
ClaimsResolve == \A r \in Runs : (runs[r].claim # 0) ~> runs[r].stopped

\* The object of a discarded artifact disappears, also when it is stored after
\* the artifact was deleted.
ObjectsVanish ==
  \A r \in Runs, m \in Members :
    (arts[r][m] \in {"DELETING", "DELETED"} /\ m \in objs[r]) ~> (m \notin objs[r])

\* A closed scope becomes clean.
ScopeIsCleaned == (~Open) ~> (~Open /\ ~scope.cleanup)

\* In the end every claimed run is resolved and the storage is clean, object by
\* object and scope by scope (worker.py:run, maintain, reconcile_artifact).
AllIsSettled == ClaimsResolve /\ ObjectsVanish /\ ScopeIsCleaned
=============================================================================
