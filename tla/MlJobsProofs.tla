---------------------------- MODULE MlJobsProofs ----------------------------
(***************************************************************************)
(* Theorems about module MlJobs, for every number of runs, members,        *)
(* crashes and late requests: a child trains for its own running row, a    *)
(* package is published whole or not at all, a closed scope is quiet, and  *)
(* the service and its worker together implement TrainingSlot.             *)
(*                                                                         *)
(* The argument: the claim keys order the sessions of the worker.  Every   *)
(* request, however late, names the claim it was made under, and one that  *)
(* ends a run was only sent when the child of that claim could train no    *)
(* more.                                                                   *)
(***************************************************************************)
EXTENDS MlJobs, TLAPS

-----------------------------------------------------------------------------
(* The inductive invariant *)

\* Where the worker has not yet released a child under its current claim.
Early == {"claim", "input", "setup", "start", "started", "release"}
\* Where it works on the run it claimed.
Busy == {"input", "setup", "start", "started", "release", "train", "upload", "complete",
         "published", "again", "stop", "close", "stopped"}
\* Where it has not yet started one.
Fresh == {"claim", "input", "setup"}
\* Where it holds the process of its child.
Hold == {"start", "started", "release", "train", "upload", "complete", "published",
         "again", "close"}
\* Requests by which a run ends.
Settling == {"stopped", "recover", "complete"}
Gone == {"DELETING", "DELETED"}

\* The fields of a run.
RowOk(row) ==
  /\ row.status = "none" => row.claim = 0 /\ ~row.stopped /\ ~row.cancel
  /\ row.status = "PENDING" => ~row.stopped /\ ~row.cancel
  /\ row.status = "RUNNING" => ~row.stopped /\ row.claim # 0
  /\ row.status \in {"SUCCEEDED", "FAILED"} => row.stopped /\ row.claim # 0
  /\ row.status = "CANCELLED" /\ row.claim = 0 => row.stopped

\* Rows: one claim is at work at a time, and no key is newer than the worker's.
RowsOk ==
  /\ \A r \in Runs : RowOk(runs[r]) /\ runs[r].claim <= wk.key
  /\ \A r, s \in Runs : Active(r) /\ Active(s) => r = s

\* Packages: nothing is stored of a run that has not started, what is available
\* has its object, a published package is whole, a dropped one is discarded.
PackOk(r) ==
  /\ runs[r].status \in {"none", "PENDING"} => \A m \in Members : arts[r][m] = "none"
  /\ \A m \in Members : arts[r][m] = "AVAILABLE" => m \in objs[r]
  /\ runs[r].status = "SUCCEEDED" /\ Open => PackageReady(r)
  /\ runs[r].status \in {"FAILED", "CANCELLED"} /\ runs[r].stopped =>
       \A m \in Members : arts[r][m] \in {"none"} \cup Gone
PacksOk == \A r \in Runs : PackOk(r)

\* A reconciliation at stage at: what it found holds, or the artifact is gone.
StageOk(r, m, at) ==
  /\ at \in {"put"} \cup Stages => arts[r][m] # "none"
  /\ at \in {"delete", "drop"} => arts[r][m] \in Gone
  /\ at = "adopt" => m \in objs[r] \/ arts[r][m] \in Gone
JobOk == mt # NoJob => StageOk(mt.run, mt.member, mt.at)

\* A request, waited for by the worker v or late: it names the run of its claim;
\* one that ends the run was sent when the child of that claim could train no more.
CallOk(c, v) ==
  /\ c.key # 0 /\ c.key <= v.key
  /\ c.op # "claim" => c.run \in Runs /\ runs[c.run].claim = c.key
  /\ c.op = "upload" =>
       /\ c.member \in Members /\ c.at \in {"begin", "put"} \cup Stages
       /\ StageOk(c.run, c.member, c.at)
  /\ c.op \in Settling =>
       /\ child[c.run] # "training"
       /\ v.pc \in Early => c.key # v.key
CallsOk ==
  /\ wk.call # NoCall => CallOk(wk.call, wk)
  /\ \A c \in late : CallOk(c, wk)

\* The request the worker v waits for at its place.
Asked(v) ==
  \/ v.pc = "recovering" /\ v.call.op = "recover"
  \/ /\ v.call.key = v.key
     /\ \/ v.pc = "claim" /\ v.call.op = "claim"
        \/ /\ v.call.run = v.run
           /\ \/ v.pc = "input" /\ v.call.op = "input"
              \/ v.pc = "start" /\ v.call.op = "start"
              \/ v.pc \in {"started", "published"} /\ v.call.op = "status"
              \/ v.pc = "upload" /\ v.call.op = "upload"
              \/ v.pc \in {"complete", "again"} /\ v.call.op = "complete"
              \/ v.pc = "stopped" /\ v.call.op = "stopped"

\* The worker v and its child: while it works, the run of its claim is its own; a
\* child of that run trains only between its release and the end of the job.
Works(v) ==
  /\ v.call # NoCall => Asked(v)
  /\ v.pc \in Busy => v.run \in Runs /\ runs[v.run].claim = v.key
  /\ v.pc \in Busy \cup {"claim"} => v.key # 0
  /\ v.pc \in Fresh => \A r \in Runs : runs[r].claim = v.key => child[r] = "none"
  /\ v.pc \in Busy /\ child[v.run] = "training" =>
       v.pc = "train" \/ (v.pc = "stop" /\ v.proc)
  /\ v.pc \in Hold => v.proc
  /\ v.pc = "release" => runs[v.run].status = "RUNNING"
WorkerOk == Works(wk)

ChildrenOk ==
  \A r \in Runs :
    /\ child[r] # "none" => runs[r].claim # 0
    /\ child[r] = "training" => runs[r].status = "RUNNING"

Ended(r) == runs[r].status = "none" \/ (runs[r].status \in Terminal /\ runs[r].stopped)
ClosedOk == ~Open => \A r \in Runs : Ended(r)

JobsInv ==
  /\ TypeInv
  /\ RowsOk /\ PacksOk /\ JobOk /\ CallsOk /\ WorkerOk /\ ChildrenOk /\ ClosedOk

-----------------------------------------------------------------------------
(* What a step does to a row *)

\* The row q as the row p shows it: the same up to the age of its lease.
Ages(q, p) ==
  p.status = q.status /\ p.claim = q.claim /\ p.cancel = q.cancel /\ p.stopped = q.stopped
Submits(q, p) ==
  /\ q.status = "none" /\ p.status = "PENDING"
  /\ p.claim = q.claim /\ p.cancel = q.cancel /\ p.stopped = q.stopped
Cancels(q, p) ==
  /\ p.cancel /\ p.claim = q.claim
  /\ \/ q.status = "RUNNING" /\ p.status = "RUNNING" /\ p.stopped = q.stopped
     \/ q.status = "PENDING" /\ p.status = "CANCELLED" /\ (p.stopped <=> q.claim = 0)
Takes(q, p) ==
  /\ q.status = "PENDING" /\ p.status = "PENDING"
  /\ q.claim = 0 /\ p.claim # 0 /\ p.claim <= wk.key
  /\ p.cancel = q.cancel /\ p.stopped = q.stopped
Starts(q, p) ==
  /\ q.status \in {"PENDING", "RUNNING"} /\ q.claim # 0 /\ p.status = "RUNNING"
  /\ p.claim = q.claim /\ p.cancel = q.cancel /\ p.stopped = q.stopped
Drops(q, p) ==
  /\ q.claim # 0 /\ p.stopped
  /\ q.status \in Terminal => p.status = q.status
  /\ q.status \notin Terminal => p.status \in {"FAILED", "CANCELLED"}
  /\ p.claim = q.claim /\ p.cancel = q.cancel
Publishes(q, p) ==
  /\ q.status = "RUNNING" /\ ~q.cancel /\ q.claim # 0
  /\ p.status = "SUCCEEDED" /\ p.stopped
  /\ p.claim = q.claim /\ p.cancel = q.cancel

\* The child of r trains no more, and no session can still release it.
Quiet(r) ==
  /\ child[r] # "training"
  /\ wk.pc \in Early => runs[r].claim # wk.key

\* A transaction on the row of r that leaves its package alone, and one that
\* drops the run and discards it.
Turns(r, p) ==
  \/ Ages(runs[r], p) \/ Cancels(runs[r], p) \/ Starts(runs[r], p)
  \/ Open /\ Submits(runs[r], p)
  \/ Takes(runs[r], p) /\ \A s \in Runs : ~Active(s)
  \/ Publishes(runs[r], p) /\ Quiet(r) /\ PackageReady(r)
Row(r, p) == runs' = [runs EXCEPT ![r] = p]
Turned(r) ==
  \E p \in RunRow : Row(r, p) /\ Turns(r, p) /\ UNCHANGED <<arts, objs, scope>>
Dropped(r) ==
  \E p \in RunRow :
    /\ Row(r, p) /\ Drops(runs[r], p) /\ Quiet(r)
    /\ arts' = [arts EXCEPT ![r] = Discarded(@, p)]
    /\ UNCHANGED <<objs, scope>>

\* Storing: an intent, an object, a stage of a reconciliation.
Intends(r, m) ==
  /\ runs[r].status = "RUNNING"
  /\ arts' = [arts EXCEPT ![r][m] = IF @ = "none" THEN "PENDING" ELSE @]
  /\ objs' = objs
Puts(r, m) == objs' = [objs EXCEPT ![r] = @ \cup {m}] /\ arts' = arts
Reconciles(r, m) ==
  \E at \in Stages :
    /\ StageOk(r, m, at)
    /\ arts' = Reconciled(r, m, at).arts
    /\ objs' = Reconciled(r, m, at).objs
Stored ==
  /\ UNCHANGED <<runs, scope>>
  /\ \E r \in Runs, m \in Members : Intends(r, m) \/ Puts(r, m) \/ Reconciles(r, m)

\* Closing, and the cleaning of a closed scope.
Closes ==
  /\ \A r \in Runs : Ended(r)
  /\ scope'.status = "CLOSED"
  /\ UNCHANGED <<runs, arts, objs>>
Cleans ==
  /\ ~Open /\ scope'.status = scope.status
  /\ arts' = [r \in Runs |-> Discarded(arts[r], NoRow)]
  /\ UNCHANGED <<runs, objs>>
Rests == scope'.status = scope.status /\ UNCHANGED <<runs, arts, objs>>

\* What a step of the system may do to the tables of the service.
ServiceMove ==
  \/ \E r \in Runs : Turned(r) \/ Dropped(r)
  \/ Stored \/ Closes \/ Cleans \/ Rests

-----------------------------------------------------------------------------
(* Tables *)

\* The fields of a row.
LEMMA RowType ==
  ASSUME runs \in [Runs -> RunRow], NEW r \in Runs
  PROVE  /\ runs[r] \in RunRow
         /\ runs[r].status \in {"none", "PENDING", "RUNNING"} \cup Terminal
         /\ runs[r].claim \in Nat
         /\ runs[r].fresh \in BOOLEAN /\ runs[r].cancel \in BOOLEAN
         /\ runs[r].recovery \in BOOLEAN /\ runs[r].stopped \in BOOLEAN
BY DEF RunRow

\* The row of another run stays, that of r becomes p.
LEMMA RowFacts ==
  ASSUME runs \in [Runs -> RunRow], NEW r \in Runs, NEW p \in RunRow, Row(r, p)
  PROVE  /\ runs' \in [Runs -> RunRow]
         /\ runs'[r] = p
         /\ \A s \in Runs : s # r => runs'[s] = runs[s]
BY DEF Row

\* The artifacts of a package after it was discarded.
LEMMA DiscardFacts ==
  ASSUME NEW pack \in [Members -> ArtStatus], NEW p
  PROVE  /\ Discarded(pack, p) \in [Members -> ArtStatus]
         /\ p.status = "SUCCEEDED" => Discarded(pack, p) = pack
         /\ \A m \in Members :
              /\ Discarded(pack, p)[m] \in {pack[m], "DELETING"}
              /\ pack[m] = "none" => Discarded(pack, p)[m] = "none"
              /\ pack[m] \in Gone => Discarded(pack, p)[m] = pack[m]
              /\ p.status # "SUCCEEDED" => Discarded(pack, p)[m] \in {"none"} \cup Gone
BY DEF Discarded, ArtStatus, Gone

\* One stage of a reconciliation: what becomes of the artifact and of the object,
\* what stays as it is, and where it goes on.
LEMMA StageFacts ==
  ASSUME ServiceTypeOK, NEW r \in Runs, NEW m \in Members, NEW at \in Stages
  PROVE  LET next == Reconciled(r, m, at) IN
         /\ next.arts \in [Runs -> [Members -> ArtStatus]]
         /\ next.objs \in [Runs -> SUBSET Members]
         /\ next.errs \subseteq Runs \X Members
         /\ next.to \in Stages \cup {"end"}
         /\ \A s \in Runs, n \in Members : <<s, n>> # <<r, m>> =>
              /\ next.arts[s][n] = arts[s][n]
              /\ n \in next.objs[s] <=> n \in objs[s]
         /\ at \in {"read", "fetch"} => next.arts = arts /\ next.objs = objs
         /\ at = "read" =>
              \/ next.to = "end"
              \/ next.to = "fetch"
              \/ next.to = "delete" /\ arts[r][m] \notin {"AVAILABLE", "PENDING"}
         /\ at = "fetch" => next.to = "end" \/ (next.to = "adopt" /\ m \in objs[r])
         /\ at = "delete" =>
              next.arts = arts /\ next.to = "drop" /\ m \notin next.objs[r]
         /\ at = "drop" =>
              /\ next.objs = objs /\ next.to = "end"
              /\ next.arts[r][m] = IF arts[r][m] = "DELETING" THEN "DELETED" ELSE arts[r][m]
         /\ at = "adopt" =>
              /\ next.objs = objs /\ next.to = "end"
              /\ arts[r][m] # "PENDING" => next.arts = arts
              /\ arts[r][m] = "PENDING" =>
                   next.arts[r][m] = IF Publishable(runs[r]) /\ ~runs[r].recovery
                                     THEN "AVAILABLE" ELSE "DELETING"
<1> DEFINE next == Reconciled(r, m, at)
           status == arts[r][m]
           On(to) == [arts |-> arts, objs |-> objs, errs |-> errs, to |-> to]
           marked(s) == [arts EXCEPT ![r][m] = s]
<1>0. /\ arts \in [Runs -> [Members -> ArtStatus]] /\ objs \in [Runs -> SUBSET Members]
      /\ errs \subseteq Runs \X Members
  BY DEF ServiceTypeOK
<1>1. \A s \in ArtStatus :
        /\ marked(s) \in [Runs -> [Members -> ArtStatus]]
        /\ marked(s)[r][m] = s
        /\ \A t \in Runs, n \in Members : <<t, n>> # <<r, m>> => marked(s)[t][n] = arts[t][n]
  BY <1>0
<1>2. CASE at = "read"
  <2>1. next = On(IF status = "AVAILABLE" THEN "end"
                  ELSE IF status = "PENDING" THEN "fetch" ELSE "delete")
    BY <1>2 DEF Reconciled
  <2> QED BY <2>1, <1>2, <1>0 DEF Stages
<1>3. CASE at = "delete"
  <2>1. next = [On("drop") EXCEPT !.objs[r] = @ \ {m}]
    BY <1>3 DEF Reconciled
  <2>2. /\ next.arts = arts /\ next.errs = errs /\ next.to = "drop"
        /\ next.objs = [objs EXCEPT ![r] = @ \ {m}]
    BY <2>1
  <2> QED BY <2>2, <1>3, <1>0 DEF Stages
<1>4. CASE at = "drop"
  <2>1. next = [IF status = "DELETING" THEN [On("end") EXCEPT !.arts[r][m] = "DELETED"]
                ELSE On("end") EXCEPT !.errs = @ \ {<<r, m>>}]
    BY <1>4 DEF Reconciled
  <2>2. /\ next.arts = IF status = "DELETING" THEN marked("DELETED") ELSE arts
        /\ next.objs = objs /\ next.errs = errs \ {<<r, m>>} /\ next.to = "end"
    BY <2>1
  <2>3. "DELETED" \in ArtStatus
    BY DEF ArtStatus
  <2> HIDE DEF next, marked
  <2>4. next.arts \in [Runs -> [Members -> ArtStatus]]
    BY <2>2, <2>3, <1>0, <1>1
  <2>7. next.errs \subseteq Runs \X Members
    BY <2>2, <1>0
  <2>5. next.arts[r][m] = IF status = "DELETING" THEN "DELETED" ELSE status
    BY <2>2, <2>3, <1>1
  <2>6. \A s \in Runs, n \in Members : <<s, n>> # <<r, m>> => next.arts[s][n] = arts[s][n]
    BY <2>2, <2>3, <1>1
  <2> QED BY <2>2, <2>4, <2>5, <2>6, <2>7, <1>4, <1>0 DEF next
<1>5. CASE at = "fetch"
  <2>1. next = On(IF m \in objs[r] THEN "adopt" ELSE "end")
    BY <1>5 DEF Reconciled
  <2> QED BY <2>1, <1>5, <1>0 DEF Stages
<1>6. CASE at = "adopt"
  <2> DEFINE s == IF Publishable(runs[r]) /\ ~runs[r].recovery THEN "AVAILABLE"
                  ELSE "DELETING"
  <2>1. next = IF status # "PENDING" THEN On("end")
               ELSE [On("end") EXCEPT !.arts[r][m] = s]
    BY <1>6 DEF Reconciled
  <2>2. /\ next.arts = IF status # "PENDING" THEN arts ELSE marked(s)
        /\ next.objs = objs /\ next.errs = errs /\ next.to = "end"
    BY <2>1
  <2>3. s \in ArtStatus
    BY DEF ArtStatus
  <2> HIDE DEF next, marked
  <2> QED BY <2>2, <2>3, <1>6, <1>0, <1>1 DEF next
<1> QED BY <1>2, <1>3, <1>4, <1>5, <1>6 DEF Stages

-----------------------------------------------------------------------------
(* A service move keeps the tables in order *)

\* What a move lets everybody else rely on: a claim is kept, a running run keeps
\* running until its child is quiet, no claim is newer than the worker's key.
RunsOn ==
  \A r \in Runs :
    /\ runs[r].claim # 0 => runs'[r].claim = runs[r].claim
    /\ runs[r].status = "RUNNING" => runs'[r].status = "RUNNING" \/ Quiet(r)
    /\ runs'[r].claim <= wk.key

\* What is stored stays, until its artifact is gone.
ArtOn(r, m) ==
  /\ arts[r][m] # "none" => arts'[r][m] # "none"
  /\ arts[r][m] \in Gone => arts'[r][m] \in Gone
  /\ m \in objs[r] => m \in objs'[r] \/ arts'[r][m] \in Gone
ArtsOn == \A r \in Runs, m \in Members : ArtOn(r, m)

\* The part of RowsOk that does not depend on the worker moving on.
RowsFine ==
  /\ \A r \in Runs : RowOk(runs[r])
  /\ \A r, s \in Runs : Active(r) /\ Active(s) => r = s

\* A row after a transaction: whole, and only a claim makes it active.
LEMMA TurnRow ==
  ASSUME ServiceTypeOK, wk \in Workers, RowsOk, NEW r \in Runs, NEW p \in RunRow,
         Turns(r, p) \/ Drops(runs[r], p)
  PROVE  /\ RowOk(p)
         /\ p.claim <= wk.key
         /\ p.claim # 0 /\ ~p.stopped =>
              Active(r) \/ \A s \in Runs : ~Active(s)
         /\ runs[r].claim # 0 => p.claim = runs[r].claim
         /\ runs[r].status = "RUNNING" =>
              p.status = "RUNNING" \/ Drops(runs[r], p) \/ Publishes(runs[r], p)
<1> DEFINE q == runs[r]
<1>1. /\ q.status \in {"none", "PENDING", "RUNNING"} \cup Terminal
      /\ q.claim \in Nat /\ q.cancel \in BOOLEAN /\ q.stopped \in BOOLEAN
  BY RowType DEF ServiceTypeOK
<1>2. RowOk(q) /\ q.claim <= wk.key
  BY DEF RowsOk
<1>3. /\ p.status \in {"none", "PENDING", "RUNNING"} \cup Terminal
      /\ p.claim \in Nat /\ p.cancel \in BOOLEAN /\ p.stopped \in BOOLEAN
  BY DEF RunRow
<1>4. Active(r) <=> q.claim # 0 /\ ~q.stopped
  BY DEF Active
<1> HIDE DEF q
<1>5. CASE Ages(q, p)
  BY <1>1, <1>2, <1>3, <1>4, <1>5 DEF Ages, RowOk, q, Drops, Publishes
<1>6. CASE Cancels(q, p)
  BY <1>1, <1>2, <1>3, <1>4, <1>6 DEF Cancels, RowOk, q, Terminal
<1>7. CASE Starts(q, p)
  BY <1>1, <1>2, <1>3, <1>4, <1>7 DEF Starts, RowOk, q, Terminal
<1>8. CASE Submits(q, p)
  BY <1>1, <1>2, <1>3, <1>4, <1>8 DEF Submits, RowOk, q, Terminal
<1>9. CASE Takes(q, p) /\ \A s \in Runs : ~Active(s)
  BY <1>1, <1>2, <1>3, <1>4, <1>9 DEF Takes, RowOk, q, Terminal
<1>10. CASE Publishes(q, p)
  BY <1>1, <1>2, <1>3, <1>4, <1>10 DEF Publishes, RowOk, q, Terminal
<1>11. CASE Drops(q, p)
  BY <1>1, <1>2, <1>3, <1>4, <1>11 DEF Drops, RowOk, q, Terminal
<1> QED BY <1>5, <1>6, <1>7, <1>8, <1>9, <1>10, <1>11 DEF Turns, q

\* Every move that changes a row turns or drops it.
LEMMA MoveRow ==
  ASSUME ServiceMove
  PROVE  \/ runs' = runs
         \/ \E r \in Runs, p \in RunRow :
              Row(r, p) /\ (Turns(r, p) \/ (Drops(runs[r], p) /\ Quiet(r)))
BY DEF ServiceMove, Turned, Dropped, Stored, Closes, Cleans, Rests

\* The rows stay in order.
LEMMA MoveRows ==
  ASSUME ServiceTypeOK, wk \in Workers, RowsOk, ServiceMove
  PROVE  runs' \in [Runs -> RunRow] /\ RowsFine' /\ RunsOn
<1>0. runs \in [Runs -> RunRow]
  BY DEF ServiceTypeOK
<1>1. CASE runs' = runs
  <2>1. \A r \in Runs : RowOk(runs'[r]) /\ runs'[r].claim <= wk.key
    BY <1>1 DEF RowsOk
  <2>2. \A r, s \in Runs : Active(r)' /\ Active(s)' => r = s
    BY <1>1 DEF RowsOk, Active
  <2> QED BY <2>1, <2>2, <1>0, <1>1 DEF RowsFine, RunsOn
<1>2. ASSUME NEW r \in Runs, NEW p \in RunRow, Row(r, p),
             Turns(r, p) \/ (Drops(runs[r], p) /\ Quiet(r))
      PROVE  runs' \in [Runs -> RunRow] /\ RowsFine' /\ RunsOn
  <2>1. /\ runs' \in [Runs -> RunRow]
        /\ runs'[r] = p
        /\ \A s \in Runs : s # r => runs'[s] = runs[s]
    BY <1>0, <1>2, RowFacts
  <2>2. /\ RowOk(p)
        /\ p.claim <= wk.key
        /\ p.claim # 0 /\ ~p.stopped => Active(r) \/ \A s \in Runs : ~Active(s)
        /\ runs[r].claim # 0 => p.claim = runs[r].claim
        /\ runs[r].status = "RUNNING" =>
             p.status = "RUNNING" \/ Drops(runs[r], p) \/ Publishes(runs[r], p)
    BY <1>2, TurnRow
  <2>3. \A s \in Runs : RowOk(runs'[s]) /\ runs'[s].claim <= wk.key
    BY <2>1, <2>2 DEF RowsOk
  <2>4. \A s, t \in Runs : Active(s)' /\ Active(t)' => s = t
    <3>1. \A s \in Runs : s # r => (Active(s)' <=> Active(s))
      BY <2>1 DEF Active
    <3>2. Active(r)' => Active(r) \/ \A s \in Runs : ~Active(s)
      BY <2>1, <2>2 DEF Active
    <3> QED BY <3>1, <3>2 DEF RowsOk
  <2>5. p.status # "RUNNING" /\ runs[r].status = "RUNNING" => Quiet(r)
    <3>1. Turns(r, p) /\ Drops(runs[r], p) /\ runs[r].status = "RUNNING" /\ p.status # "RUNNING"
            => Publishes(runs[r], p)
      BY DEF Turns, Ages, Cancels, Starts, Submits, Takes
    <3>2. Turns(r, p) /\ Publishes(runs[r], p) /\ runs[r].status = "RUNNING" => Quiet(r)
      BY DEF Turns, Ages, Cancels, Starts, Submits, Takes, Publishes
    <3> QED BY <1>2, <2>2, <3>1, <3>2, Zenon
  <2>6. RunsOn
    BY <2>1, <2>2, <2>3, <2>5 DEF RunsOn
  <2> QED BY <2>1, <2>3, <2>4, <2>6 DEF RowsFine
<1> QED BY <1>1, <1>2, MoveRow

\* A closed scope stays closed and quiet, and is closed when all has ended.
LEMMA MoveClosed ==
  ASSUME ServiceTypeOK, RowsOk, ClosedOk, ServiceMove
  PROVE  ClosedOk' /\ (~Open => ~Open')
<1>0. runs \in [Runs -> RunRow]
  BY DEF ServiceTypeOK
<1>1. ASSUME NEW r \in Runs, NEW p \in RunRow, Row(r, p),
             Turns(r, p) \/ (Drops(runs[r], p) /\ Quiet(r)),
             scope' = scope
      PROVE  ClosedOk' /\ (~Open => ~Open')
  <2>1. /\ runs'[r] = p
        /\ \A s \in Runs : s # r => runs'[s] = runs[s]
    BY <1>0, <1>1, RowFacts
  <2>2. RowOk(runs[r])
    BY DEF RowsOk
  <2>3. ~Open /\ Ended(r) =>
          p.status = "none" \/ (p.status \in Terminal /\ p.stopped)
    <3> SUFFICES ASSUME ~Open, Ended(r)
                 PROVE  p.status = "none" \/ (p.status \in Terminal /\ p.stopped)
      OBVIOUS
    <3>1. CASE Drops(runs[r], p)
      BY <2>2, <3>1 DEF Drops, Ended, RowOk, Terminal
    <3>2. CASE Turns(r, p)
      BY <3>2 DEF Turns, Ages, Cancels, Starts, Submits, Takes, Publishes, Ended, Terminal
    <3> QED BY <3>1, <3>2, <1>1
  <2> QED BY <1>1, <2>1, <2>3 DEF ClosedOk, Ended, Open
<1>2. CASE \E r \in Runs : Turned(r) \/ Dropped(r)
  BY <1>1, <1>2 DEF Turned, Dropped
<1>3. CASE Stored
  BY <1>3 DEF Stored, ClosedOk, Ended, Open
<1>4. CASE Closes
  BY <1>4 DEF Closes, ClosedOk, Ended, Open
<1>5. CASE Cleans
  BY <1>5 DEF Cleans, ClosedOk, Ended, Open
<1>6. CASE Rests
  BY <1>6 DEF Rests, ClosedOk, Ended, Open
<1> QED BY <1>2, <1>3, <1>4, <1>5, <1>6 DEF ServiceMove

-----------------------------------------------------------------------------
(* A service move keeps the packages in order *)

\* Three parts of PackOk, as facts about one artifact.
LEMMA PackFacts ==
  ASSUME NEW r \in Runs, NEW m \in Members, PackOk(r)
  PROVE  /\ runs[r].status \in {"none", "PENDING"} => arts[r][m] = "none"
         /\ arts[r][m] = "AVAILABLE" => m \in objs[r]
         /\ runs[r].status = "SUCCEEDED" /\ Open => arts[r][m] = "AVAILABLE"
         /\ runs[r].status \in {"FAILED", "CANCELLED"} /\ runs[r].stopped =>
              arts[r][m] \in {"none"} \cup Gone
BY DEF PackOk, PackageReady

\* A package that keeps its artifacts and objects is in order under a row that
\* ended where the package allows it.
LEMMA PackTurns ==
  ASSUME ServiceTypeOK, RowsOk, PacksOk, NEW r \in Runs, Turned(r)
  PROVE  PacksOk' /\ ArtsOn
<1>1. PICK p \in RunRow : Row(r, p) /\ Turns(r, p)
  BY DEF Turned
<1>2. arts' = arts /\ objs' = objs /\ scope' = scope
  BY DEF Turned
<1>3. /\ runs'[r] = p
      /\ \A s \in Runs : s # r => runs'[s] = runs[s]
  BY <1>1, RowFacts DEF ServiceTypeOK
<1>4. PackOk(r) /\ RowOk(runs[r])
  BY DEF PacksOk, RowsOk
<1>5. /\ p.status \in {"none", "PENDING"} => runs[r].status \in {"none", "PENDING"}
      /\ p.status = "SUCCEEDED" => runs[r].status = "SUCCEEDED" \/ PackageReady(r)
      /\ p.status \in {"FAILED", "CANCELLED"} /\ p.stopped =>
           \/ runs[r].status = "PENDING"
           \/ runs[r].status = p.status /\ runs[r].stopped
  BY <1>1 DEF Turns, Ages, Cancels, Starts, Submits, Takes, Publishes
<1>6. PackOk(r)'
  <2>1. (Open' <=> Open) /\ (PackageReady(r)' <=> PackageReady(r))
    BY <1>2 DEF Open, PackageReady
  <2>2. \A m \in Members : p.status \in {"none", "PENDING"} => arts[r][m] = "none"
    BY <1>4, <1>5 DEF PackOk
  <2>3. p.status = "SUCCEEDED" /\ Open => PackageReady(r)
    BY <1>4, <1>5 DEF PackOk
  <2>4. p.status \in {"FAILED", "CANCELLED"} /\ p.stopped =>
          \A m \in Members : arts[r][m] \in {"none"} \cup Gone
    BY <1>4, <1>5 DEF PackOk
  <2> QED BY <1>2, <1>3, <1>4, <2>1, <2>2, <2>3, <2>4 DEF PackOk
<1>7. \A s \in Runs : s # r => PackOk(s)'
  BY <1>2, <1>3 DEF PacksOk, PackOk, Open, PackageReady
<1>8. ArtsOn
  BY <1>2 DEF ArtsOn, ArtOn
<1> QED BY <1>6, <1>7, <1>8 DEF PacksOk

\* A dropped run discards its package, a published one keeps it.
LEMMA PackDrops ==
  ASSUME ServiceTypeOK, RowsOk, PacksOk, NEW r \in Runs, Dropped(r)
  PROVE  PacksOk' /\ ArtsOn /\ arts' \in [Runs -> [Members -> ArtStatus]]
<1>1. PICK p \in RunRow :
        /\ Row(r, p) /\ Drops(runs[r], p)
        /\ arts' = [arts EXCEPT ![r] = Discarded(@, p)]
  BY DEF Dropped
<1>2. objs' = objs /\ scope' = scope
  BY DEF Dropped
<1>3. /\ runs'[r] = p
      /\ \A s \in Runs : s # r => runs'[s] = runs[s]
  BY <1>1, RowFacts DEF ServiceTypeOK
<1>4. PackOk(r) /\ RowOk(runs[r])
  BY DEF PacksOk, RowsOk
<1> DEFINE pack == Discarded(arts[r], p)
<1>5. /\ pack \in [Members -> ArtStatus]
      /\ p.status = "SUCCEEDED" => pack = arts[r]
      /\ \A m \in Members :
           /\ pack[m] \in {arts[r][m], "DELETING"}
           /\ arts[r][m] = "none" => pack[m] = "none"
           /\ arts[r][m] \in Gone => pack[m] = arts[r][m]
           /\ p.status # "SUCCEEDED" => pack[m] \in {"none"} \cup Gone
  BY DiscardFacts DEF ServiceTypeOK
<1>6. /\ arts' \in [Runs -> [Members -> ArtStatus]]
      /\ arts'[r] = pack
      /\ \A s \in Runs : s # r => arts'[s] = arts[s]
  BY <1>1, <1>5 DEF ServiceTypeOK
<1> HIDE DEF pack
<1>7. p.status \in Terminal /\ (p.status = "SUCCEEDED" => runs[r].status = "SUCCEEDED")
  BY <1>1 DEF Drops, Terminal
<1>8. PackOk(r)'
  <2>1. \A m \in Members : arts'[r][m] = "AVAILABLE" => m \in objs'[r]
    BY <1>2, <1>4, <1>5, <1>6 DEF PackOk
  <2>2. runs'[r].status = "SUCCEEDED" /\ Open' => PackageReady(r)'
    BY <1>2, <1>3, <1>4, <1>5, <1>6, <1>7 DEF PackOk, PackageReady, Open
  <2>3. runs'[r].status # "SUCCEEDED" => \A m \in Members : arts'[r][m] \in {"none"} \cup Gone
    BY <1>3, <1>5, <1>6
  <2>4. runs'[r].status \notin {"none", "PENDING"}
    BY <1>3, <1>7 DEF Terminal
  <2> QED BY <2>1, <2>2, <2>3, <2>4 DEF PackOk
<1>9. \A s \in Runs : s # r => PackOk(s)'
  BY <1>2, <1>3, <1>6 DEF PacksOk, PackOk, Open, PackageReady
<1>10. ArtsOn
  BY <1>2, <1>5, <1>6 DEF ArtsOn, ArtOn, Gone
<1> QED BY <1>6, <1>8, <1>9, <1>10 DEF PacksOk

\* An artifact that stays, and one that its package still allows.
Kept(r, m) == arts'[r][m] = arts[r][m] /\ (m \in objs[r] => m \in objs'[r])
Fine(r, m) ==
  /\ runs[r].status \in {"none", "PENDING"} => arts'[r][m] = "none"
  /\ arts'[r][m] = "AVAILABLE" => m \in objs'[r]
  /\ runs[r].status = "SUCCEEDED" /\ Open => arts'[r][m] = "AVAILABLE"
  /\ runs[r].status \in {"FAILED", "CANCELLED"} /\ runs[r].stopped =>
       arts'[r][m] \in {"none"} \cup Gone

\* What stays goes on and is still allowed.
LEMMA KeptFine ==
  ASSUME NEW r \in Runs, NEW m \in Members, PackOk(r), Kept(r, m)
  PROVE  ArtOn(r, m) /\ Fine(r, m)
BY PackFacts DEF Kept, ArtOn, Fine

\* An intent, an object and a stage keep every artifact going and allowed.
LEMMA ArtStores ==
  ASSUME ServiceTypeOK, PacksOk, NEW r \in Runs, NEW m \in Members,
         UNCHANGED <<runs, scope>>,
         Intends(r, m) \/ Puts(r, m) \/ Reconciles(r, m)
  PROVE  /\ \A s \in Runs, n \in Members : ArtOn(s, n) /\ Fine(s, n)
         /\ arts' \in [Runs -> [Members -> ArtStatus]]
         /\ objs' \in [Runs -> SUBSET Members]
<1>0. /\ arts \in [Runs -> [Members -> ArtStatus]] /\ objs \in [Runs -> SUBSET Members]
      /\ \A s \in Runs : PackOk(s)
  BY DEF ServiceTypeOK, PacksOk
<1>1. \A s \in Runs, n \in Members : Kept(s, n) => ArtOn(s, n) /\ Fine(s, n)
  BY <1>0, KeptFine
<1>2. CASE Puts(r, m)
  <2>1. arts' = arts /\ objs' \in [Runs -> SUBSET Members]
    BY <1>0, <1>2 DEF Puts
  <2>2. \A s \in Runs, n \in Members : n \in objs[s] => n \in objs'[s]
    BY <1>0, <1>2 DEF Puts
  <2>3. \A s \in Runs, n \in Members : Kept(s, n)
    BY <2>1, <2>2 DEF Kept
  <2> QED BY <1>0, <1>1, <2>1, <2>3
<1>3. CASE Intends(r, m)
  <2>1. /\ arts' \in [Runs -> [Members -> ArtStatus]] /\ objs' = objs
        /\ arts'[r][m] = IF arts[r][m] = "none" THEN "PENDING" ELSE arts[r][m]
        /\ \A s \in Runs, n \in Members : <<s, n>> # <<r, m>> => arts'[s][n] = arts[s][n]
    BY <1>0, <1>3 DEF Intends, ArtStatus
  <2>2. runs[r].status = "RUNNING"
    BY <1>3 DEF Intends
  <2>3. ArtOn(r, m) /\ Fine(r, m)
    BY <1>0, <2>1, <2>2, PackFacts DEF Gone, ArtOn, Fine
  <2>4. \A s \in Runs, n \in Members : <<s, n>> # <<r, m>> => Kept(s, n)
    BY <2>1 DEF Kept
  <2>5. \A s \in Runs, n \in Members : ArtOn(s, n) /\ Fine(s, n)
    BY <1>1, <2>3, <2>4
  <2> QED BY <1>0, <2>1, <2>5
<1>4. CASE Reconciles(r, m)
  <2>1. PICK at \in Stages :
          /\ StageOk(r, m, at)
          /\ arts' = Reconciled(r, m, at).arts
          /\ objs' = Reconciled(r, m, at).objs
    BY <1>4 DEF Reconciles
  <2>2. /\ arts' \in [Runs -> [Members -> ArtStatus]]
        /\ objs' \in [Runs -> SUBSET Members]
        /\ \A s \in Runs, n \in Members : <<s, n>> # <<r, m>> => Kept(s, n)
    BY <2>1, StageFacts DEF Kept
  <2>3. CASE at \in {"read", "fetch"}
    <3>1. Kept(r, m)
      BY <2>1, <2>3, StageFacts DEF Kept
    <3> QED BY <1>1, <2>2, <3>1
  <2>4. CASE at = "delete"
    <3>1. arts' = arts /\ arts[r][m] \in Gone
      BY <2>1, <2>4, StageFacts DEF StageOk
    <3>2. ArtOn(r, m) /\ Fine(r, m)
      BY <1>0, <3>1, PackFacts DEF Gone, ArtOn, Fine
    <3> QED BY <1>1, <2>2, <3>2
  <2>5. CASE at = "drop"
    <3>1. /\ objs' = objs /\ arts[r][m] \in Gone
          /\ arts'[r][m] = IF arts[r][m] = "DELETING" THEN "DELETED" ELSE arts[r][m]
      BY <2>1, <2>5, StageFacts DEF StageOk
    <3>2. ArtOn(r, m) /\ Fine(r, m)
      BY <1>0, <3>1, PackFacts DEF Gone, ArtOn, Fine
    <3> QED BY <1>1, <2>2, <3>2
  <2>6. CASE at = "adopt"
    <3>1. /\ objs' = objs
          /\ arts[r][m] # "PENDING" => arts' = arts
          /\ arts[r][m] = "PENDING" =>
               arts'[r][m] = IF Publishable(runs[r]) /\ ~runs[r].recovery
                             THEN "AVAILABLE" ELSE "DELETING"
      BY <2>1, <2>6, StageFacts
    <3>2. arts[r][m] = "PENDING" => m \in objs[r]
      BY <2>1, <2>6 DEF StageOk, Gone
    <3>3. arts[r][m] # "PENDING" => ArtOn(r, m) /\ Fine(r, m)
      BY <1>1, <3>1 DEF Kept
    <3>4. arts[r][m] = "PENDING" => ArtOn(r, m) /\ Fine(r, m)
      BY <1>0, <3>1, <3>2, PackFacts DEF Gone, Publishable, ArtOn, Fine
    <3> QED BY <1>1, <2>2, <3>3, <3>4
  <2> QED BY <2>3, <2>4, <2>5, <2>6 DEF Stages
<1> QED BY <1>2, <1>3, <1>4

\* They keep every package in order.
LEMMA PackStores ==
  ASSUME ServiceTypeOK, PacksOk, NEW r \in Runs, NEW m \in Members,
         UNCHANGED <<runs, scope>>,
         Intends(r, m) \/ Puts(r, m) \/ Reconciles(r, m)
  PROVE  /\ PacksOk' /\ ArtsOn
         /\ arts' \in [Runs -> [Members -> ArtStatus]]
         /\ objs' \in [Runs -> SUBSET Members]
<1>1. /\ \A s \in Runs, n \in Members : ArtOn(s, n) /\ Fine(s, n)
      /\ arts' \in [Runs -> [Members -> ArtStatus]]
      /\ objs' \in [Runs -> SUBSET Members]
  BY ArtStores
<1>2. runs' = runs /\ (Open' <=> Open)
  BY DEF Open
<1>3. PacksOk'
  BY <1>1, <1>2 DEF PacksOk, PackOk, PackageReady, Fine
<1> QED BY <1>1, <1>3 DEF ArtsOn

\* Cleaning a closed scope discards every package.
LEMMA PackCleans ==
  ASSUME ServiceTypeOK, PacksOk, Cleans
  PROVE  /\ PacksOk' /\ ArtsOn
         /\ arts' \in [Runs -> [Members -> ArtStatus]]
<1>1. /\ \A r \in Runs : arts'[r] = Discarded(arts[r], NoRow)
      /\ arts' = [r \in Runs |-> Discarded(arts[r], NoRow)]
      /\ runs' = runs /\ objs' = objs /\ ~Open'
  BY DEF Cleans, Open
<1>2. NoRow.status # "SUCCEEDED"
  BY DEF NoRow
<1>3. ASSUME NEW r \in Runs
      PROVE  /\ arts'[r] \in [Members -> ArtStatus]
             /\ \A m \in Members :
                  /\ arts[r][m] = "none" => arts'[r][m] = "none"
                  /\ arts[r][m] \in Gone => arts'[r][m] = arts[r][m]
                  /\ arts'[r][m] \in {arts[r][m], "DELETING"}
                  /\ arts'[r][m] \in {"none"} \cup Gone
  <2>1. arts[r] \in [Members -> ArtStatus]
    BY DEF ServiceTypeOK
  <2> QED BY <1>1, <1>2, <2>1, DiscardFacts
<1>4. PacksOk'
  <2> SUFFICES ASSUME NEW r \in Runs PROVE PackOk(r)'
    BY DEF PacksOk
  <2> QED BY <1>1, <1>3 DEF PacksOk, PackOk, Gone
<1>5. ArtsOn
  BY <1>1, <1>3 DEF ArtsOn, ArtOn, Gone
<1>6. arts' \in [Runs -> [Members -> ArtStatus]]
  BY <1>1, <1>3
<1> QED BY <1>4, <1>5, <1>6

\* The packages stay in order.
LEMMA MovePacks ==
  ASSUME ServiceTypeOK, RowsOk, PacksOk, ServiceMove
  PROVE  /\ PacksOk' /\ ArtsOn
         /\ arts' \in [Runs -> [Members -> ArtStatus]]
         /\ objs' \in [Runs -> SUBSET Members]
<1>0. /\ arts \in [Runs -> [Members -> ArtStatus]] /\ objs \in [Runs -> SUBSET Members]
  BY DEF ServiceTypeOK
<1>1. ASSUME NEW r \in Runs, Turned(r)
      PROVE  /\ PacksOk' /\ ArtsOn
             /\ arts' \in [Runs -> [Members -> ArtStatus]]
             /\ objs' \in [Runs -> SUBSET Members]
  BY <1>0, <1>1, PackTurns DEF Turned
<1>2. ASSUME NEW r \in Runs, Dropped(r)
      PROVE  /\ PacksOk' /\ ArtsOn
             /\ arts' \in [Runs -> [Members -> ArtStatus]]
             /\ objs' \in [Runs -> SUBSET Members]
  BY <1>0, <1>2, PackDrops DEF Dropped
<1>3. CASE Stored
  BY <1>3, PackStores DEF Stored
<1>4. CASE Cleans
  BY <1>0, <1>4, PackCleans DEF Cleans
<1>5. CASE Closes \/ Rests
  <2>1. runs' = runs /\ arts' = arts /\ objs' = objs /\ (Open' => Open)
    BY <1>5 DEF Closes, Rests, Open
  <2> QED BY <1>0, <2>1 DEF PacksOk, PackOk, PackageReady, ArtsOn, ArtOn
<1> QED BY <1>1, <1>2, <1>3, <1>4, <1>5 DEF ServiceMove

-----------------------------------------------------------------------------
(* A service move is a step of TrainingSlot *)

\* The place of a row.
PlaceOf(row) ==
  IF row.status = "none" THEN "new"
  ELSE IF row.status = "SUCCEEDED" THEN "published"
  ELSE IF row.status \in Terminal /\ row.stopped THEN "dropped"
  ELSE IF row.claim = 0 THEN "waiting" ELSE "held"
Places == [r \in Runs |-> Place(r)]
Cancelled == {r \in Runs : runs[r].cancel}

\* Where a run stands, in terms of its row.
LEMMA PlaceFacts ==
  ASSUME ServiceTypeOK, RowsOk, NEW r \in Runs
  PROVE  /\ Place(r) = PlaceOf(runs[r])
         /\ Places[r] = PlaceOf(runs[r])
         /\ Place(r) = "held" <=> runs[r].status # "SUCCEEDED" /\ Active(r)
         /\ Place(r) = "waiting" <=> runs[r].status = "PENDING" /\ runs[r].claim = 0
         /\ Ended(r) => Place(r) \notin {"waiting", "held"}
<1>1. Place(r) = PlaceOf(runs[r]) /\ Places[r] = PlaceOf(runs[r])
  BY DEF Place, PlaceOf, Places
<1>2. RowOk(runs[r])
  BY DEF RowsOk
<1>3. runs[r].status \in {"none", "PENDING", "RUNNING"} \cup Terminal
  BY RowType DEF ServiceTypeOK
<1> DEFINE q == runs[r]
<1>4. Active(r) <=> q.claim # 0 /\ ~q.stopped
  BY DEF Active
<1>5. Ended(r) <=> q.status = "none" \/ (q.status \in Terminal /\ q.stopped)
  BY DEF Ended
<1> HIDE DEF q
<1>6. /\ PlaceOf(q) = "held" <=> q.status # "SUCCEEDED" /\ q.claim # 0 /\ ~q.stopped
      /\ PlaceOf(q) = "waiting" <=> q.status = "PENDING" /\ q.claim = 0
      /\ q.status = "none" \/ (q.status \in Terminal /\ q.stopped) =>
           PlaceOf(q) \notin {"waiting", "held"}
  BY <1>2, <1>3 DEF q, PlaceOf, RowOk, Terminal
<1> QED BY <1>1, <1>4, <1>5, <1>6 DEF q

\* A transaction on one row moves that run alone.
LEMMA PlaceMoves ==
  ASSUME ServiceTypeOK, NEW r \in Runs, NEW p \in RunRow, Row(r, p)
  PROVE  /\ Places' = [Places EXCEPT ![r] = PlaceOf(p)]
         /\ p.cancel => Cancelled' = Cancelled \cup {r}
         /\ p.cancel = runs[r].cancel => Cancelled' = Cancelled
<1>1. /\ runs'[r] = p
      /\ \A s \in Runs : s # r => runs'[s] = runs[s]
  BY RowFacts DEF ServiceTypeOK
<1>2. \A s \in Runs : Place(s)' = IF s = r THEN PlaceOf(p) ELSE Place(s)
  BY <1>1 DEF Place, PlaceOf
<1>3. Places' = [Places EXCEPT ![r] = PlaceOf(p)]
  BY <1>2 DEF Places
<1>4. /\ p.cancel => Cancelled' = Cancelled \cup {r}
      /\ p.cancel = runs[r].cancel => Cancelled' = Cancelled
  BY <1>1 DEF Cancelled
<1> QED BY <1>3, <1>4

\* Each kind of transaction moves its run as TrainingSlot allows.
LEMMA TurnMoves ==
  ASSUME ServiceTypeOK, RowsOk, NEW r \in Runs, NEW p \in RunRow, Row(r, p),
         scope' = scope,
         Turns(r, p) \/ (Drops(runs[r], p) /\ Quiet(r))
  PROVE  Slot!Next \/ UNCHANGED Slot!vars
<1> DEFINE q == runs[r]
<1>1. /\ Places' = [Places EXCEPT ![r] = PlaceOf(p)]
      /\ p.cancel => Cancelled' = Cancelled \cup {r}
      /\ p.cancel = q.cancel => Cancelled' = Cancelled
  BY PlaceMoves
<1>2. /\ Places[r] = PlaceOf(q) /\ Places[r] = Place(r)
      /\ Place(r) = "held" <=> q.status # "SUCCEEDED" /\ Active(r)
      /\ Place(r) = "waiting" <=> q.status = "PENDING" /\ q.claim = 0
  BY PlaceFacts
<1>3. RowOk(q) /\ (Active(r) <=> q.claim # 0 /\ ~q.stopped)
  BY DEF RowsOk, Active
<1>4. /\ q.status \in {"none", "PENDING", "RUNNING"} \cup Terminal
      /\ q.cancel \in BOOLEAN /\ q.stopped \in BOOLEAN
      /\ p.status \in {"none", "PENDING", "RUNNING"} \cup Terminal
      /\ p.cancel \in BOOLEAN /\ p.stopped \in BOOLEAN
  BY RowType DEF ServiceTypeOK, RunRow
<1>5. Open' = Open
  BY DEF Open
<1>6. Places = [s \in Runs |-> Place(s)] /\ Cancelled = {s \in Runs : runs[s].cancel}
  BY DEF Places, Cancelled
<1>7. Places' = [s \in Runs |-> Place(s)'] /\ Cancelled' = {s \in Runs : runs'[s].cancel}
  BY DEF Places, Cancelled
<1>8. PlaceOf(p) = Places[r] => Places' = Places
  BY <1>1 DEF Places
<1>9. Places' = Places /\ Cancelled' = Cancelled => UNCHANGED Slot!vars
  BY <1>5, <1>6, <1>7 DEF Slot!vars
<1> HIDE DEF q
<1>10. CASE Ages(q, p)
  <2>1. PlaceOf(p) = PlaceOf(q) /\ p.cancel = q.cancel
    BY <1>10 DEF Ages, PlaceOf
  <2> QED BY <1>1, <1>2, <1>8, <1>9, <2>1
<1>11. CASE Starts(q, p)
  <2>1. PlaceOf(p) = PlaceOf(q) /\ p.cancel = q.cancel
    BY <1>3, <1>11 DEF Starts, PlaceOf, RowOk, Terminal
  <2> QED BY <1>1, <1>2, <1>8, <1>9, <2>1
<1>12. CASE Submits(q, p) /\ Open
  <2>1. /\ PlaceOf(q) = "new" /\ PlaceOf(p) = "waiting" /\ p.cancel = q.cancel
    BY <1>3, <1>12 DEF Submits, PlaceOf, RowOk, Terminal
  <2>2. Slot!Accept(r)
    BY <1>1, <1>2, <1>5, <1>6, <1>7, <1>12, <2>1 DEF Slot!Accept, Slot!Move
  <2> QED BY <2>2 DEF Slot!Next
<1>13. CASE Takes(q, p) /\ \A s \in Runs : ~Active(s)
  <2>1. /\ PlaceOf(q) = "waiting" /\ PlaceOf(p) = "held" /\ p.cancel = q.cancel
    BY <1>3, <1>13 DEF Takes, PlaceOf, RowOk, Terminal
  <2>2. \A s \in Runs : Places[s] # "held"
    BY <1>13, PlaceFacts
  <2>3. Slot!Take(r)
    BY <1>1, <1>2, <1>5, <1>6, <1>7, <2>1, <2>2 DEF Slot!Take, Slot!Move
  <2> QED BY <2>3 DEF Slot!Next
<1>14. CASE Publishes(q, p)
  <2>1. /\ PlaceOf(q) = "held" /\ PlaceOf(p) = "published" /\ p.cancel = q.cancel
        /\ r \notin Cancelled
    BY <1>3, <1>6, <1>14 DEF Publishes, PlaceOf, RowOk, Terminal, q
  <2>2. Slot!Publish(r)
    BY <1>1, <1>2, <1>5, <1>6, <1>7, <2>1 DEF Slot!Publish, Slot!Move
  <2> QED BY <2>2 DEF Slot!Next
<1>15. CASE Drops(q, p)
  <2>1. /\ p.cancel = q.cancel
        /\ \/ PlaceOf(p) = PlaceOf(q)
           \/ PlaceOf(q) = "held" /\ PlaceOf(p) = "dropped"
    BY <1>3, <1>4, <1>15 DEF Drops, PlaceOf, RowOk, Terminal
  <2>2. PlaceOf(q) = "held" /\ PlaceOf(p) = "dropped" => Slot!Drop(r)
    BY <1>1, <1>2, <1>5, <1>6, <1>7, <2>1 DEF Slot!Drop, Slot!Move
  <2> QED BY <1>1, <1>2, <1>8, <1>9, <2>1, <2>2 DEF Slot!Next
<1>16. CASE Cancels(q, p)
  <2>1. /\ p.cancel
        /\ \/ PlaceOf(p) = "held" /\ PlaceOf(q) = "held"
           \/ PlaceOf(q) = "waiting" /\ PlaceOf(p) = "dropped"
    BY <1>3, <1>4, <1>16 DEF Cancels, PlaceOf, RowOk, Terminal
  <2>2. Slot!Cancel(r)
    BY <1>1, <1>2, <1>5, <1>6, <1>7, <1>8, <2>1 DEF Slot!Cancel, Slot!Move
  <2> QED BY <2>2 DEF Slot!Next
<1> QED BY <1>10, <1>11, <1>12, <1>13, <1>14, <1>15, <1>16 DEF Turns, q

\* A service move is a step of TrainingSlot, or none.
LEMMA MoveSlot ==
  ASSUME ServiceTypeOK, RowsOk, ServiceMove
  PROVE  Slot!Next \/ UNCHANGED Slot!vars
<1>1. CASE \E r \in Runs : Turned(r) \/ Dropped(r)
  BY <1>1, TurnMoves DEF Turned, Dropped
<1>2. ASSUME runs' = runs, Open' = Open
      PROVE  UNCHANGED Slot!vars
  BY <1>2 DEF Slot!vars, Place
<1>3. CASE Stored \/ Cleans \/ Rests
  BY <1>2, <1>3 DEF Stored, Cleans, Rests, Open
<1>4. CASE Closes
  <2>1. \A r \in Runs : Places[r] \notin {"waiting", "held"}
    BY <1>4, PlaceFacts DEF Closes, Places
  <2>2. runs' = runs /\ ~Open'
    BY <1>4 DEF Closes, Open
  <2>3. Slot!Close
    BY <2>1, <2>2 DEF Slot!Close, Places, Place
  <2> QED BY <2>3 DEF Slot!Next
<1> QED BY <1>1, <1>3, <1>4 DEF ServiceMove

-----------------------------------------------------------------------------
(* What the worker does with an answer *)

\* An answer the service gives: a claimed run carries the claim of the request, a
\* start is confirmed by the row as it is then.
AnswerOk(a) ==
  /\ a.kind \in {"ok", "refused", "lost"}
  /\ wk.pc = "claim" /\ a.run # NoRun => a.run \in Runs /\ runs'[a.run].claim = wk.key
  /\ wk.pc \in {"start", "started"} /\ a.kind = "ok" /\ Publishable(a.row) =>
       runs'[wk.run].status = "RUNNING"

\* The worker stays with its key or takes the next one; only a new key leads back
\* to where a child is not released yet.
Forth ==
  \/ wk'.key = wk.key /\ (wk'.pc \in Early => wk.pc \in Early)
  \/ wk'.key = wk.key + 1

\* Only the worker releases a child, that of its own run.
ChildOn ==
  \A r \in Runs :
    child'[r] = "training" => child[r] = "training" \/ (wk.pc = "release" /\ r = wk.run)

\* The fields of the worker.
LEMMA WorkerFields ==
  ASSUME wk \in Workers
  PROVE  /\ wk.pc \in WorkerPc /\ wk.key \in Nat /\ wk.run \in Runs \cup {NoRun}
         /\ wk.proc \in BOOLEAN /\ wk.call \in Calls \cup {NoCall}
         /\ wk = [pc |-> wk.pc, key |-> wk.key, run |-> wk.run, proc |-> wk.proc,
                  call |-> wk.call]
BY DEF Workers

\* A request differs from none.
LEMMA SomeCall ==
  ASSUME NEW c \in Calls
  PROVE  c # NoCall /\ c.op \in Ops /\ c.op # "none"
<1>1. c.op \in Ops /\ c.op # "none"
  BY DEF Calls, Ops
<1>2. NoCall.op = "none"
  BY DEF NoCall
<1> QED BY <1>1, <1>2

\* The worker goes to pc without a request.
LEMMA AtFields ==
  ASSUME wk \in Workers, NEW pc \in WorkerPc
  PROVE  /\ At(pc) \in Workers
         /\ At(pc).pc = pc /\ At(pc).key = wk.key /\ At(pc).run = wk.run
         /\ At(pc).proc = wk.proc /\ At(pc).call = NoCall
<1>1. At(pc) = [wk EXCEPT !.pc = pc, !.call = NoCall]
  BY DEF At
<1> QED BY <1>1 DEF Workers

\* The worker sends a request about its run.
LEMMA AskFields ==
  ASSUME wk \in Workers, wk.run \in Runs, NEW pc \in WorkerPc, NEW op \in Ops,
         NEW m \in 0..MemberCount
  PROVE  /\ Ask(pc, op, m) \in Workers
         /\ Ask(pc, op, m).pc = pc /\ Ask(pc, op, m).key = wk.key
         /\ Ask(pc, op, m).run = wk.run /\ Ask(pc, op, m).proc = wk.proc
         /\ Ask(pc, op, m).call \in Calls
         /\ Ask(pc, op, m).call.op = op /\ Ask(pc, op, m).call.run = wk.run
         /\ Ask(pc, op, m).call.key = wk.key /\ Ask(pc, op, m).call.member = m
         /\ Ask(pc, op, m).call.at = "begin"
<1> DEFINE c == [op |-> op, run |-> wk.run, key |-> wk.key, member |-> m, at |-> "begin"]
<1>1. Ask(pc, op, m) = [wk EXCEPT !.pc = pc, !.call = c]
  BY DEF Ask
<1>2. /\ c \in Calls
      /\ c.op = op /\ c.run = wk.run /\ c.key = wk.key /\ c.member = m /\ c.at = "begin"
  BY WorkerFields DEF Calls
<1> HIDE DEF c
<1>3. /\ Ask(pc, op, m) \in Workers
      /\ Ask(pc, op, m).pc = pc /\ Ask(pc, op, m).key = wk.key
      /\ Ask(pc, op, m).run = wk.run /\ Ask(pc, op, m).proc = wk.proc
      /\ Ask(pc, op, m).call = c
  BY <1>1, <1>2 DEF Workers
<1> QED BY <1>2, <1>3

\* The worker asks for its next claim.
LEMMA NextFields ==
  ASSUME wk \in Workers
  PROVE  /\ NextClaim \in Workers
         /\ NextClaim.pc = "claim" /\ NextClaim.key = wk.key + 1
         /\ NextClaim.proc = wk.proc
         /\ NextClaim.call \in Calls
         /\ NextClaim.call.op = "claim" /\ NextClaim.call.key = wk.key + 1
<1> DEFINE c == [op |-> "claim", run |-> NoRun, key |-> wk.key + 1, member |-> 0,
                 at |-> "begin"]
<1>1. NextClaim = [wk EXCEPT !.pc = "claim", !.key = wk.key + 1, !.run = NoRun, !.call = c]
  BY DEF NextClaim
<1>2. c \in Calls /\ c.op = "claim" /\ c.key = wk.key + 1
  BY WorkerFields, MemberAssumption DEF Calls, Ops
<1> HIDE DEF c
<1>3. NextClaim = [pc |-> "claim", key |-> wk.key + 1, run |-> NoRun, proc |-> wk.proc,
                   call |-> c]
  BY <1>1, WorkerFields
<1>4. wk.key + 1 \in Nat /\ "claim" \in WorkerPc /\ wk.proc \in BOOLEAN
  BY WorkerFields DEF WorkerPc
<1>5. NextClaim \in Workers
  BY <1>2, <1>3, <1>4 DEF Workers
<1>6. /\ NextClaim.pc = "claim" /\ NextClaim.key = wk.key + 1
      /\ NextClaim.proc = wk.proc /\ NextClaim.call = c
  BY <1>3
<1> QED BY <1>2, <1>5, <1>6

\* The worker turns to the run it was given.
LEMMA ExecuteFields ==
  ASSUME wk \in Workers, NEW r \in Runs
  PROVE  /\ Execute(r) \in Workers
         /\ Execute(r).pc = "input" /\ Execute(r).key = wk.key /\ Execute(r).run = r
         /\ Execute(r).call \in Calls
         /\ Execute(r).call.op = "input" /\ Execute(r).call.run = r
         /\ Execute(r).call.key = wk.key
<1> DEFINE c == [op |-> "input", run |-> r, key |-> wk.key, member |-> 0, at |-> "begin"]
<1>1. Execute(r) = [wk EXCEPT !.pc = "input", !.run = r, !.call = c]
  BY DEF Execute
<1>2. c \in Calls /\ c.op = "input" /\ c.run = r /\ c.key = wk.key
  BY WorkerFields, MemberAssumption DEF Calls, Ops
<1> HIDE DEF c
<1>3. /\ Execute(r) \in Workers
      /\ Execute(r).pc = "input" /\ Execute(r).key = wk.key /\ Execute(r).run = r
      /\ Execute(r).call = c
  BY <1>1, <1>2 DEF Workers, WorkerPc
<1> QED BY <1>2, <1>3

\* The worker is gone.
LEMMA DownFields ==
  ASSUME wk \in Workers
  PROVE  /\ Down \in Workers /\ Down.pc = "down" /\ Down.key = wk.key /\ Down.call = NoCall
<1>1. Down = [At("down") EXCEPT !.run = NoRun, !.proc = FALSE]
  BY DEF Down
<1>2. At("down") \in Workers /\ At("down").pc = "down" /\ At("down").key = wk.key
      /\ At("down").call = NoCall
  BY AtFields DEF WorkerPc
<1> HIDE DEF Down
<1> QED BY <1>1, <1>2 DEF Workers

\* What holds of a worker after a step.
Able == wk' \in Workers /\ WorkerOk' /\ (wk'.call # NoCall => CallOk(wk.call, wk)')

\* What a working worker may still rely on after a service move.
LEMMA BusyOn ==
  ASSUME WorkerOk, RunsOn, wk.pc \in Busy
  PROVE  wk.run \in Runs /\ wk.key # 0 /\ runs'[wk.run].claim = wk.key
BY DEF WorkerOk, Works, RunsOn

\* No child of a claim that has not started one.
LEMMA FreshOn ==
  ASSUME WorkerOk, ChildrenOk, RunsOn, child' = child, wk.pc \in Fresh
  PROVE  \A r \in Runs : runs'[r].claim = wk.key => child'[r] = "none"
<1> SUFFICES ASSUME NEW r \in Runs, runs'[r].claim = wk.key PROVE child[r] = "none"
  OBVIOUS
<1>1. runs[r].claim = wk.key => child[r] = "none"
  BY DEF WorkerOk, Works
<1>2. runs[r].claim = 0 => child[r] = "none"
  BY DEF ChildrenOk
<1> QED BY <1>1, <1>2 DEF RunsOn

\* The next claim is newer than every claim there is.
LEMMA NextAble ==
  ASSUME wk \in Workers, wk' = NextClaim,
         \A r \in Runs : runs'[r].claim \in Nat /\ runs'[r].claim <= wk.key
  PROVE  Able /\ Forth
<1>1. /\ wk' \in Workers
      /\ wk'.pc = "claim" /\ wk'.key = wk.key + 1
      /\ wk'.call \in Calls
      /\ wk'.call.op = "claim" /\ wk'.call.key = wk.key + 1
      /\ wk.key \in Nat
  BY NextFields, WorkerFields
<1>2. \A r \in Runs : runs'[r].claim # wk'.key
  BY <1>1
<1>3. WorkerOk'
  <2>1. Asked(wk)'
    BY <1>1 DEF Asked
  <2> QED BY <1>1, <1>2, <2>1 DEF WorkerOk, Works, Busy, Hold
<1>4. CallOk(wk.call, wk)'
  BY <1>1 DEF CallOk, Settling
<1> QED BY <1>1, <1>3, <1>4 DEF Able, Forth

\* A worker that is down relies on nothing.
LEMMA DownAble ==
  ASSUME wk \in Workers, wk' = Down
  PROVE  Able /\ Forth
<1>1. wk' \in Workers /\ wk'.pc = "down" /\ wk'.key = wk.key /\ wk'.call = NoCall
  BY DownFields
<1>2. WorkerOk'
  BY <1>1 DEF WorkerOk, Works, Busy, Fresh, Hold
<1> QED BY <1>1, <1>2 DEF Able, Forth, Early

\* The worker stops: its child is still in its hand, or trains no more.
LEMMA StopAble ==
  ASSUME wk \in Workers, wk.pc \in Busy, wk' = At("stop"), WorkerOk, RunsOn,
         child'[wk.run] = "training" => child[wk.run] = "training",
         wk.pc = "train" => wk.proc
  PROVE  Able /\ Forth
<1>1. /\ wk' \in Workers /\ wk'.pc = "stop" /\ wk'.key = wk.key /\ wk'.run = wk.run
      /\ wk'.proc = wk.proc /\ wk'.call = NoCall
  BY AtFields DEF WorkerPc
<1>2. wk.run \in Runs /\ wk.key # 0 /\ runs'[wk.run].claim = wk.key
  BY BusyOn
<1>3. child[wk.run] = "training" => wk.proc
  BY DEF WorkerOk, Works
<1>4. WorkerOk'
  BY <1>1, <1>2, <1>3 DEF WorkerOk, Works, Fresh, Hold
<1> QED BY <1>1, <1>4 DEF Able, Forth, Early

\* The worker asks about its run.
LEMMA AskAble ==
  ASSUME wk \in Workers, WorkerOk, RunsOn, wk.pc \in Busy,
         NEW pc \in WorkerPc, NEW op \in Ops, NEW m \in 0..MemberCount,
         wk' = [Ask(pc, op, m) EXCEPT !.proc = wk'.proc], wk'.proc \in BOOLEAN,
         \/ pc = "start" /\ op = "start" /\ wk'.proc /\ wk.pc = "setup"
         \/ pc = "started" /\ op = "status" /\ wk'.proc /\ wk.pc = "start"
         \/ pc = "upload" /\ op = "upload" /\ m \in Members /\ wk'.proc
         \/ pc = "complete" /\ op = "complete" /\ wk'.proc
         \/ pc = "published" /\ op = "status" /\ wk'.proc
         \/ pc = "again" /\ op = "complete" /\ wk'.proc
         \/ pc = "stopped" /\ op = "stopped",
         child'[wk.run] # "training"
  PROVE  Able /\ Forth /\ wk'.pc = pc
<1> DEFINE v == Ask(pc, op, m)
<1>0. wk.run \in Runs /\ wk.key # 0 /\ runs'[wk.run].claim = wk.key /\ wk.key \in Nat
  BY BusyOn, WorkerFields
<1>1. /\ v \in Workers
      /\ v.pc = pc /\ v.key = wk.key /\ v.run = wk.run
      /\ v.call \in Calls
      /\ v.call.op = op /\ v.call.run = wk.run
      /\ v.call.key = wk.key /\ v.call.member = m /\ v.call.at = "begin"
  BY <1>0, AskFields
<1> HIDE DEF v
<1>2. /\ wk' \in Workers
      /\ wk'.pc = pc /\ wk'.key = wk.key /\ wk'.run = wk.run
      /\ wk'.call = v.call
  <2>1. wk' = [v EXCEPT !.proc = wk'.proc]
    BY DEF v
  <2> QED BY <1>1, <2>1, Zenon DEF Workers
<1>3. Asked(wk)'
  BY <1>1, <1>2 DEF Asked
<1>4. WorkerOk'
  BY <1>0, <1>2, <1>3 DEF WorkerOk, Works, Fresh, Hold
<1>5. CallOk(wk.call, wk)'
  <2>1. wk'.call.op \in Settling => wk'.pc \notin Early
    BY <1>1, <1>2 DEF Settling, Early
  <2>2. wk'.call.op = "upload" =>
          /\ wk'.call.member \in Members /\ wk'.call.at \in {"begin", "put"} \cup Stages
          /\ StageOk(wk.call.run, wk.call.member, wk.call.at)'
    BY <1>1, <1>2 DEF StageOk, Stages
  <2> QED BY <1>0, <1>1, <1>2, <2>1, <2>2 DEF CallOk
<1>6. Forth
  BY <1>2 DEF Forth, Early
<1> QED BY <1>2, <1>4, <1>5, <1>6 DEF Able

\* The worker goes on to its setup, to the release of its child, or to its end.
LEMMA GoAble ==
  ASSUME wk \in Workers, WorkerOk, ChildrenOk, RunsOn, child' = child, NEW pc, wk' = At(pc),
         \/ pc = "setup" /\ wk.pc = "input"
         \/ pc = "release" /\ wk.pc \in {"start", "started"} /\ runs'[wk.run].status = "RUNNING"
         \/ pc = "close" /\ wk.pc \in {"complete", "published", "again"}
  PROVE  Able /\ Forth
<1>0. wk.pc \in Busy /\ pc \in WorkerPc /\ wk.pc \notin {"train", "stop"}
  BY DEF Busy, WorkerPc
<1>1. /\ wk' \in Workers /\ wk'.pc = pc /\ wk'.key = wk.key /\ wk'.run = wk.run
      /\ wk'.proc = wk.proc /\ wk'.call = NoCall
  BY <1>0, AtFields
<1>2. wk.run \in Runs /\ wk.key # 0 /\ runs'[wk.run].claim = wk.key
  BY <1>0, BusyOn
<1>3. child[wk.run] # "training"
  BY <1>0 DEF WorkerOk, Works
<1>4. pc = "setup" => \A r \in Runs : runs'[r].claim = wk.key => child'[r] = "none"
  BY FreshOn DEF Fresh
<1>5. pc # "setup" => wk.proc
  BY DEF WorkerOk, Works, Hold
<1>6. WorkerOk'
  BY <1>1, <1>2, <1>3, <1>4, <1>5 DEF WorkerOk, Works, Fresh, Hold
<1> QED BY <1>1, <1>6 DEF Able, Forth, Early

\* The worker turns to the run whose claim it was granted.
LEMMA ExecuteAble ==
  ASSUME wk \in Workers, WorkerOk, ChildrenOk, RunsOn, child' = child, wk.pc = "claim",
         NEW r \in Runs, runs'[r].claim = wk.key, wk' = Execute(r)
  PROVE  Able /\ Forth
<1>1. /\ wk' \in Workers
      /\ wk'.pc = "input" /\ wk'.key = wk.key /\ wk'.run = r
      /\ wk'.call \in Calls
      /\ wk'.call.op = "input" /\ wk'.call.run = r
      /\ wk'.call.key = wk.key
      /\ wk.key \in Nat
  BY ExecuteFields, WorkerFields
<1>2. wk.key # 0
  BY DEF WorkerOk, Works
<1>3. \A s \in Runs : runs'[s].claim = wk.key => child'[s] = "none"
  BY FreshOn DEF Fresh
<1>4. Asked(wk)'
  BY <1>1 DEF Asked
<1>5. WorkerOk'
  BY <1>1, <1>2, <1>3, <1>4 DEF WorkerOk, Works, Fresh, Hold
<1>6. CallOk(wk.call, wk)'
  BY <1>1, <1>2 DEF CallOk, Settling
<1> QED BY <1>1, <1>5, <1>6 DEF Able, Forth, Early

\* A request the worker or nobody waits for stays in order.
LEMMA CallStays ==
  ASSUME wk \in Workers, WorkerOk, RunsOn, ArtsOn, ChildOn, Forth,
         NEW c \in Calls, CallOk(c, wk)
  PROVE  CallOk(c, wk)'
<1>0. c.key \in Nat /\ wk.key \in Nat /\ c.member \in 0..MemberCount
  BY WorkerFields DEF Calls
<1>1. c.key # 0 /\ c.key <= wk'.key
  BY <1>0 DEF CallOk, Forth
<1>2. c.op # "claim" => c.run \in Runs /\ runs'[c.run].claim = c.key
  BY DEF CallOk, RunsOn
<1>3. c.op = "upload" =>
        /\ c.member \in Members /\ c.at \in {"begin", "put"} \cup Stages
        /\ StageOk(c.run, c.member, c.at)'
  <2> SUFFICES ASSUME c.op = "upload"
               PROVE  /\ c.member \in Members /\ c.at \in {"begin", "put"} \cup Stages
                      /\ StageOk(c.run, c.member, c.at)'
    OBVIOUS
  <2>1. /\ c.member \in Members /\ c.at \in {"begin", "put"} \cup Stages
        /\ StageOk(c.run, c.member, c.at) /\ c.run \in Runs
    BY DEF CallOk
  <2>2. ArtOn(c.run, c.member)
    BY <2>1 DEF ArtsOn
  <2> QED BY <2>1, <2>2 DEF StageOk, ArtOn
<1>4. c.op \in Settling =>
        /\ child'[c.run] # "training"
        /\ wk'.pc \in Early => c.key # wk'.key
  <2> SUFFICES ASSUME c.op \in Settling
               PROVE  /\ child'[c.run] # "training"
                      /\ wk'.pc \in Early => c.key # wk'.key
    OBVIOUS
  <2>1. /\ c.run \in Runs /\ runs[c.run].claim = c.key
        /\ child[c.run] # "training"
        /\ wk.pc \in Early => c.key # wk.key
        /\ c.key <= wk.key
    BY DEF CallOk, Settling
  <2>2. wk.pc = "release" => runs[wk.run].claim = wk.key /\ wk.pc \in Early
    BY DEF WorkerOk, Works, Busy, Early
  <2>3. child'[c.run] # "training"
    BY <2>1, <2>2 DEF ChildOn
  <2>4. wk'.pc \in Early => c.key # wk'.key
    BY <1>0, <2>1 DEF Forth
  <2> QED BY <2>3, <2>4
<1> QED BY <1>1, <1>2, <1>3, <1>4 DEF CallOk

\* A worker that goes on waiting.
LEMMA StayAble ==
  ASSUME wk \in Workers, WorkerOk, ChildrenOk, RunsOn, ArtsOn, ChildOn, child' = child,
         wk' = wk,
         wk.call # NoCall => CallOk(wk.call, wk)
  PROVE  Able /\ Forth
<1>1. Forth
  BY DEF Forth
<1>2. ASSUME wk.call # NoCall PROVE CallOk(wk.call, wk)'
  <2>1. PICK c \in Calls : c = wk.call
    BY <1>2, WorkerFields
  <2>2. CallOk(c, wk)'
    BY <1>1, <1>2, <2>1, CallStays
  <2>3. wk.call' = c
    BY <2>1
  <2> QED BY <2>2, <2>3 DEF CallOk
<1>3. wk.pc \in Fresh => \A r \in Runs : runs'[r].claim = wk.key => child'[r] = "none"
  BY FreshOn
<1>4. wk.pc \in Busy => wk.run \in Runs /\ runs'[wk.run].claim = wk.key
  BY BusyOn
<1>5. Asked(wk)' <=> Asked(wk)
  BY DEF Asked
<1>6. wk.pc = "release" => runs'[wk.run].status = "RUNNING"
  <2> SUFFICES ASSUME wk.pc = "release" PROVE runs'[wk.run].status = "RUNNING"
    OBVIOUS
  <2>1. wk.run \in Runs /\ runs[wk.run].claim = wk.key /\ runs[wk.run].status = "RUNNING"
    BY DEF WorkerOk, Works, Busy
  <2>2. ~Quiet(wk.run)
    BY <2>1 DEF Quiet, Early
  <2> QED BY <2>1, <2>2 DEF RunsOn
<1>7. WorkerOk'
  BY <1>3, <1>4, <1>5, <1>6 DEF WorkerOk, Works
<1> QED BY <1>1, <1>2, <1>7 DEF Able

\* A request of the worker as it is, for AskAble.
LEMMA AskSame ==
  ASSUME wk \in Workers, wk.run \in Runs, NEW pc \in WorkerPc, NEW op \in Ops,
         NEW m \in 0..MemberCount, wk' = Ask(pc, op, m)
  PROVE  /\ wk' = [Ask(pc, op, m) EXCEPT !.proc = wk'.proc]
         /\ wk'.proc = wk.proc /\ wk'.proc \in BOOLEAN
<1> DEFINE v == Ask(pc, op, m)
<1>1. v \in Workers /\ v.proc = wk.proc
  BY AskFields
<1> HIDE DEF v
<1>2. v = [v EXCEPT !.proc = v.proc] /\ v.proc \in BOOLEAN
  BY <1>1 DEF Workers
<1>3. wk' = v
  BY DEF v
<1> QED BY <1>1, <1>2, <1>3 DEF v

\* Every reaction to an answer leaves the worker able to go on.
LEMMA HeardAble ==
  ASSUME wk \in Workers, WorkerOk, ChildrenOk, RunsOn, ArtsOn, child' = child,
         \A r \in Runs : runs'[r].claim \in Nat,
         wk.call # NoCall, CallOk(wk.call, wk),
         NEW a, AnswerOk(a), wk' \in Heard(a)
  PROVE  Able /\ Forth
<1>0. /\ Asked(wk) /\ wk.call \in Calls
      /\ ChildOn
      /\ \A r \in Runs : runs'[r].claim \in Nat /\ runs'[r].claim <= wk.key
  BY WorkerFields DEF WorkerOk, Works, ChildOn, RunsOn
<1>1. ASSUME wk' = NextClaim PROVE Able /\ Forth
  BY <1>0, <1>1, NextAble
<1>2. ASSUME wk' = At("stop"), wk.pc \in Busy, wk.pc # "train" PROVE Able /\ Forth
  BY <1>2, StopAble
<1>3. ASSUME wk' = wk PROVE Able /\ Forth
  BY <1>0, <1>3, StayAble
<1>4. ASSUME NEW pc \in WorkerPc, NEW op \in Ops, NEW m \in 0..MemberCount,
             wk' = Ask(pc, op, m), wk.pc \in Busy, wk.pc \notin {"train", "stop"},
             \/ pc = "started" /\ op = "status" /\ wk.pc = "start"
             \/ pc = "upload" /\ op = "upload" /\ m \in Members /\ wk.pc \in Hold
             \/ pc = "complete" /\ op = "complete" /\ wk.pc \in Hold
             \/ pc = "published" /\ op = "status" /\ wk.pc \in Hold
             \/ pc = "again" /\ op = "complete" /\ wk.pc \in Hold
      PROVE  Able /\ Forth
  <2>1. wk.run \in Runs
    BY <1>4, BusyOn
  <2>2. /\ wk' = [Ask(pc, op, m) EXCEPT !.proc = wk'.proc]
        /\ wk'.proc = wk.proc /\ wk'.proc \in BOOLEAN
    BY <1>4, <2>1, AskSame
  <2>3. wk.pc \in Hold
    BY <1>4 DEF Hold
  <2>4. wk.proc /\ child'[wk.run] # "training"
    BY <1>4, <2>3 DEF WorkerOk, Works
  <2> QED BY <1>4, <2>2, <2>4, AskAble
<1>5. ASSUME NEW m \in 1..(MemberCount + 1), wk' \in UploadNext(m), wk.pc = "upload"
      PROVE  Able /\ Forth
  <2>1. CASE wk' = At("stop")
    BY <1>2, <1>5, <2>1 DEF Busy
  <2>2. CASE m > MemberCount
    <3>1. wk' = Ask("complete", "complete", 0)
      BY <1>5, <2>2 DEF UploadNext
    <3> QED BY <1>4, <1>5, <3>1, MemberAssumption DEF Busy, Hold, WorkerPc, Ops
  <2>3. CASE m \in Members /\ wk' = Ask("upload", "upload", m)
    BY <1>4, <1>5, <2>3, MemberAssumption DEF Busy, Hold, WorkerPc, Ops, Members
  <2> QED BY <1>5, <2>1, <2>2, <2>3, MemberAssumption DEF UploadNext, Members
<1>6. CASE wk.pc = "recovering"
  <2>1. wk' = NextClaim \/ wk' = Down
    BY <1>6 DEF Heard
  <2> QED BY <1>1, <2>1, DownAble
<1>7. CASE wk.pc = "claim"
  <2>1. wk' = IF a.run # NoRun THEN Execute(a.run) ELSE wk
    BY <1>7 DEF Heard
  <2>2. a.run # NoRun => a.run \in Runs /\ runs'[a.run].claim = wk.key
    BY <1>7 DEF AnswerOk
  <2> QED BY <1>3, <1>7, <2>1, <2>2, ExecuteAble
<1>8. CASE wk.pc = "input"
  <2>1. wk' = IF a.kind = "ok" THEN At("setup") ELSE At("stop")
    BY <1>8 DEF Heard
  <2> QED BY <1>2, <1>8, <2>1, GoAble DEF Busy
<1>9. CASE wk.pc \in {"start", "started"}
  <2>1. \/ wk' = At("stop")
        \/ wk' = At("release") /\ a.kind = "ok" /\ Publishable(a.row)
        \/ wk' = Ask("started", "status", 0) /\ wk.pc = "start"
    BY <1>9 DEF Heard, Confirmed
  <2>2. CASE wk' = At("stop")
    BY <1>2, <1>9, <2>2 DEF Busy
  <2>3. CASE wk' = At("release") /\ a.kind = "ok" /\ Publishable(a.row)
    <3>1. runs'[wk.run].status = "RUNNING"
      BY <1>9, <2>3 DEF AnswerOk
    <3> QED BY <1>9, <2>3, <3>1, GoAble
  <2>4. CASE wk' = Ask("started", "status", 0) /\ wk.pc = "start"
    BY <1>4, <2>4, MemberAssumption DEF Busy, WorkerPc, Ops
  <2> QED BY <2>1, <2>2, <2>3, <2>4
<1>10. CASE wk.pc = "upload"
  <2>1. wk' = At("stop") \/ wk' \in UploadNext(wk.call.member + 1)
    BY <1>10 DEF Heard
  <2>2. wk.call.member \in 0..MemberCount
    BY <1>0 DEF Calls
  <2>3. wk.call.member + 1 \in 1..(MemberCount + 1)
    BY <2>2, MemberAssumption
  <2> QED BY <1>2, <1>5, <1>10, <2>1, <2>3 DEF Busy
<1>11. CASE wk.pc \in {"complete", "published", "again"}
  <2>1. \/ wk' = At("close") \/ wk' = At("stop")
        \/ wk' = Ask("published", "status", 0)
        \/ wk' = Ask("again", "complete", 0)
    BY <1>11 DEF Heard
  <2>2. CASE wk' = At("close")
    BY <1>11, <2>2, GoAble
  <2>3. CASE wk' = At("stop")
    BY <1>2, <1>11, <2>3 DEF Busy
  <2>4. CASE wk' = Ask("published", "status", 0)
    BY <1>4, <1>11, <2>4, MemberAssumption DEF Busy, Hold, WorkerPc, Ops
  <2>5. CASE wk' = Ask("again", "complete", 0)
    BY <1>4, <1>11, <2>5, MemberAssumption DEF Busy, Hold, WorkerPc, Ops
  <2> QED BY <2>1, <2>2, <2>3, <2>4, <2>5
<1>12. CASE wk.pc = "stopped"
  <2>1. wk' = NextClaim \/ wk' = Down \/ wk' = wk
    BY <1>12 DEF Heard
  <2> QED BY <1>1, <1>3, <1>12, <2>1, DownAble
<1> QED BY <1>0, <1>6, <1>7, <1>8, <1>9, <1>10, <1>11, <1>12 DEF Asked

-----------------------------------------------------------------------------
(* What a served request does *)

\* A request that somebody made, and the worker at its place if it waits for it.
Made(c, waited) ==
  /\ c \in Calls /\ CallOk(c, wk)
  /\ waited => c = wk.call /\ Asked(wk)

Later == Stages \cup {"put", "verify", "publish"}

\* How a served request ends: with an answer, or further on.
Served(c, waited) ==
  \/ \E a : (waited => AnswerOk(a)) /\ Reply(c, waited, a)
  \/ \E at \in Later :
       /\ Continue(c, waited, at)
       /\ c.op \in {"upload", "complete"}
       /\ c.op = "upload" => at \in {"put"} \cup Stages /\ StageOk(c.run, c.member, at)'

\* The tables that serving a request leaves alone, or keeps well formed.
Untouched == scope' = scope /\ closes' = closes /\ mt' = mt /\ errs' \subseteq Runs \X Members

\* What a request says of its run.
LEMMA MadeFacts ==
  ASSUME NEW c, NEW waited \in BOOLEAN, Made(c, waited)
  PROVE  /\ c.op \in Ops /\ c.key \in Nat \ {0} /\ c.key <= wk.key
         /\ c.op # "claim" =>
              /\ c.run \in Runs /\ runs[c.run].claim = c.key /\ runs[c.run].claim # 0
              /\ c.run # NoRun
         /\ c.op = "upload" =>
              /\ c.member \in Members /\ c.at \in {"begin", "put"} \cup Stages
              /\ StageOk(c.run, c.member, c.at)
         /\ c.op \in Settling => Quiet(c.run)
         /\ waited /\ wk.pc = "claim" => c.op = "claim" /\ c.key = wk.key
         /\ waited /\ wk.pc = "start" => c.op = "start" /\ c.run = wk.run
         /\ waited /\ wk.pc = "started" => c.op = "status" /\ c.run = wk.run
<1>1. c.op \in Ops /\ c.key \in Nat /\ CallOk(c, wk)
  BY DEF Made, Calls
<1>2. c.op \in Settling => c.op # "claim"
  BY DEF Settling
<1>3. c.op \in Settling => Quiet(c.run)
  BY <1>1, <1>2 DEF CallOk, Quiet
<1>4. /\ waited /\ wk.pc = "claim" => c.op = "claim" /\ c.key = wk.key
      /\ waited /\ wk.pc = "start" => c.op = "start" /\ c.run = wk.run
      /\ waited /\ wk.pc = "started" => c.op = "status" /\ c.run = wk.run
  BY DEF Made, Asked
<1> QED BY <1>1, <1>3, <1>4, JobsAssumption DEF CallOk

\* A refusal changes nothing.
LEMMA RefuseServed ==
  ASSUME ServiceTypeOK, NEW c, NEW waited \in BOOLEAN, Made(c, waited), Refuse(c, waited)
  PROVE  ServiceMove /\ Served(c, waited) /\ Untouched
<1> DEFINE a == Answer("refused", NoRun)
<1>1. a.kind = "refused" /\ a.run = NoRun
  BY DEF Answer
<1>2. Reply(c, waited, a) /\ UNCHANGED service
  BY DEF Refuse
<1> HIDE DEF a
<1>3. waited => AnswerOk(a)
  BY <1>1, MadeFacts DEF AnswerOk
<1>4. Rests
  BY <1>2 DEF Rests, service
<1> QED BY <1>2, <1>3, <1>4 DEF Served, Untouched, ServiceMove, service, ServiceTypeOK

\* An answer that changes nothing.
LEMMA ReplyServed ==
  ASSUME ServiceTypeOK, NEW c, NEW waited \in BOOLEAN, NEW a, waited => AnswerOk(a),
         Reply(c, waited, a), UNCHANGED service
  PROVE  ServiceMove /\ Served(c, waited) /\ Untouched
<1>1. Rests
  BY DEF Rests, service
<1> QED BY <1>1 DEF Served, Untouched, ServiceMove, service, ServiceTypeOK

\* claim: a run that waits is taken, when none is at work.
LEMMA ClaimServed ==
  ASSUME ServiceTypeOK, RowsOk, wk \in Workers, NEW c, NEW waited \in BOOLEAN,
         Made(c, waited), c.op = "claim", ServeClaim(c, waited)
  PROVE  ServiceMove /\ Served(c, waited) /\ Untouched
<1>0. /\ c.key \in Nat \ {0} /\ c.key <= wk.key
      /\ waited => wk.pc \notin {"start", "started"}
      /\ waited /\ wk.pc = "claim" => c.key = wk.key
  BY MadeFacts
<1>1. ASSUME NEW r \in Runs, runs'[r].claim = c.key
      PROVE  waited => AnswerOk(Answer("ok", r))
  <2>1. Answer("ok", r).kind = "ok" /\ Answer("ok", r).run = r
    BY DEF Answer
  <2> QED BY <1>0, <1>1, <2>1 DEF AnswerOk
<1>2. waited => AnswerOk(Answer("ok", NoRun))
  <2>1. Answer("ok", NoRun).kind = "ok" /\ Answer("ok", NoRun).run = NoRun
    BY DEF Answer
  <2> QED BY <1>0, <2>1 DEF AnswerOk
<1>3. ASSUME NEW r \in ClaimedBy(c.key), Reply(c, waited, Answer("ok", r)), UNCHANGED service
      PROVE  ServiceMove /\ Served(c, waited) /\ Untouched
  <2>1. r \in Runs /\ runs'[r].claim = c.key
    BY <1>3 DEF ClaimedBy, service
  <2> QED BY <1>1, <1>3, <2>1, ReplyServed
<1>4. ASSUME NEW r \in Claimable, Claim(r, c.key), Reply(c, waited, Answer("ok", r))
      PROVE  ServiceMove /\ Served(c, waited) /\ Untouched
  <2>1. r \in Runs /\ runs[r].status = "PENDING" /\ \A s \in Runs : ~Active(s)
    BY <1>4 DEF Claimable
  <2>2. runs[r] \in RunRow /\ RowOk(runs[r])
    BY <2>1, RowType DEF ServiceTypeOK, RowsOk
  <2> DEFINE p == [runs[r] EXCEPT !.claim = c.key, !.fresh = TRUE]
  <2>3. runs' = [runs EXCEPT ![r] = p]
    BY <1>4, <2>1 DEF Claim, ServiceTypeOK
  <2>4. /\ p \in RunRow
        /\ p.status = runs[r].status /\ p.claim = c.key
        /\ p.cancel = runs[r].cancel /\ p.stopped = runs[r].stopped
    BY <1>0, <2>2 DEF RunRow
  <2> HIDE DEF p
  <2>5. runs[r].claim = 0
    BY <2>1, <2>2 DEF RowOk, Active
  <2>6. Takes(runs[r], p)
    BY <1>0, <2>1, <2>4, <2>5 DEF Takes
  <2>7. Turned(r)
    BY <1>4, <2>1, <2>3, <2>4, <2>6 DEF Turned, Row, Turns, Claim
  <2>8. runs'[r].claim = c.key
    BY <2>1, <2>3, <2>4 DEF ServiceTypeOK
  <2>9. ServiceMove
    BY <2>1, <2>7 DEF ServiceMove
  <2>10. Served(c, waited)
    BY <1>1, <1>4, <2>1, <2>8 DEF Served
  <2> QED BY <1>4, <2>9, <2>10 DEF Claim, Untouched, ServiceTypeOK
<1>5. CASE Reply(c, waited, Answer("ok", NoRun)) /\ UNCHANGED service
  BY <1>2, <1>5, ReplyServed
<1> QED BY <1>3, <1>4, <1>5 DEF ServeClaim

\* input: nothing changes.
LEMMA InputServed ==
  ASSUME ServiceTypeOK, NEW c, NEW waited \in BOOLEAN, Made(c, waited), c.op = "input",
         ServeInput(c, waited)
  PROVE  ServiceMove /\ Served(c, waited) /\ Untouched
<1>1. Answer("ok", c.run).kind = "ok"
  BY DEF Answer
<1>2. waited => AnswerOk(Answer("ok", c.run))
  BY <1>1, MadeFacts DEF AnswerOk
<1> QED BY <1>2, RefuseServed, ReplyServed DEF ServeInput

\* start: the run is running, and the answer says so.
LEMMA StartServed ==
  ASSUME ServiceTypeOK, NEW c, NEW waited \in BOOLEAN, Made(c, waited), c.op = "start",
         ServeStart(c, waited)
  PROVE  ServiceMove /\ Served(c, waited) /\ Untouched
<1>0. /\ c.run \in Runs /\ runs[c.run].claim # 0 /\ c.run # NoRun
      /\ waited /\ wk.pc = "start" => c.run = wk.run
      /\ waited => wk.pc \notin {"claim", "started"}
  BY MadeFacts
<1>1. CASE Refuse(c, waited)
  BY <1>1, RefuseServed
<1>2. CASE Startable(c.run, c.key)
  <2> DEFINE a == [Answer("ok", c.run) EXCEPT !.row.status = "RUNNING"]
             r == c.run
             p == [runs[r] EXCEPT !.status = "RUNNING"]
  <2>1. StartRun(r) /\ Reply(c, waited, a)
    BY <1>2 DEF ServeStart
  <2>2. a.kind = "ok"
    BY DEF Answer
  <2>3. runs[r] \in RunRow
    BY <1>0, RowType DEF ServiceTypeOK
  <2>4. runs' = [runs EXCEPT ![r] = p]
    BY <1>0, <2>1 DEF StartRun, ServiceTypeOK
  <2>5. /\ p \in RunRow
        /\ p.status = "RUNNING" /\ p.claim = runs[r].claim
        /\ p.cancel = runs[r].cancel /\ p.stopped = runs[r].stopped
    BY <2>3 DEF RunRow
  <2> HIDE DEF p, a
  <2>6. runs[r].status \in {"PENDING", "RUNNING"}
    BY <1>2 DEF Startable
  <2>7. Starts(runs[r], p)
    BY <1>0, <2>5, <2>6 DEF Starts
  <2>8. Turned(r)
    BY <2>1, <2>4, <2>5, <2>7 DEF Turned, Row, Turns, StartRun
  <2>9. runs'[r].status = "RUNNING"
    BY <1>0, <2>4, <2>5 DEF ServiceTypeOK
  <2>10. waited => AnswerOk(a)
    BY <1>0, <2>2, <2>9 DEF AnswerOk
  <2>11. ServiceMove /\ Served(c, waited)
    BY <1>0, <2>1, <2>8, <2>10 DEF ServiceMove, Served
  <2> QED BY <2>1, <2>11 DEF StartRun, Untouched, ServiceTypeOK
<1> QED BY <1>1, <1>2 DEF ServeStart

\* The status of a run: the row as it is.
LEMMA StatusServed ==
  ASSUME ServiceTypeOK, NEW c, NEW waited \in BOOLEAN, Made(c, waited), c.op = "status",
         ServeStatus(c, waited)
  PROVE  ServiceMove /\ Served(c, waited) /\ Untouched
<1>0. /\ c.run \in Runs /\ c.run # NoRun
      /\ waited /\ wk.pc = "started" => c.run = wk.run
      /\ waited => wk.pc \notin {"claim", "start"}
  BY MadeFacts
<1>1. CASE Refuse(c, waited)
  BY <1>1, RefuseServed
<1>2. CASE Reply(c, waited, Answer("ok", c.run)) /\ UNCHANGED service
  <2>1. /\ Answer("ok", c.run).kind = "ok" /\ Answer("ok", c.run).run = c.run
        /\ Answer("ok", c.run).row = runs[c.run]
    BY <1>0 DEF Answer
  <2>2. runs' = runs
    BY <1>2 DEF service
  <2>3. waited => AnswerOk(Answer("ok", c.run))
    BY <1>0, <2>1, <2>2 DEF AnswerOk, Publishable
  <2> QED BY <1>2, <2>3, ReplyServed
<1> QED BY <1>1, <1>2 DEF ServeStatus

\* What stopped and recover make of a run of a claim: it is dropped.
LEMMA ConvergeMoves ==
  ASSUME ServiceTypeOK, NEW r \in Runs, runs[r].claim # 0, Quiet(r), Converge(r)
  PROVE  ServiceMove /\ Untouched
<1> DEFINE q == runs[r]
           p == Converged(q)
<1>1. q \in RunRow
  BY RowType DEF ServiceTypeOK
<1>2. /\ p \in RunRow
      /\ p.stopped /\ p.claim = q.claim /\ p.cancel = q.cancel
      /\ q.status \in Terminal => p.status = q.status
      /\ q.status \notin Terminal => p.status \in {"FAILED", "CANCELLED"}
  <2>1. CASE q.status \in Terminal
    BY <1>1, <2>1 DEF Converged, RunRow
  <2>2. CASE q.status \notin Terminal
    BY <1>1, <2>2 DEF Converged, Finished, RunRow, Terminal
  <2> QED BY <2>1, <2>2
<1>3. /\ runs' = [runs EXCEPT ![r] = p]
      /\ arts' = [arts EXCEPT ![r] = Discarded(@, p)]
  BY DEF Converge, ServiceTypeOK
<1> HIDE DEF p
<1>4. Drops(q, p)
  BY <1>2 DEF Drops
<1>5. Dropped(r)
  BY <1>2, <1>3, <1>4 DEF Dropped, Row, Converge
<1> QED BY <1>5 DEF ServiceMove, Untouched, Converge, ServiceTypeOK

\* stopped: the run is dropped.
LEMMA StoppedServed ==
  ASSUME ServiceTypeOK, NEW c, NEW waited \in BOOLEAN, Made(c, waited), c.op = "stopped",
         ServeStopped(c, waited)
  PROVE  ServiceMove /\ Served(c, waited) /\ Untouched
<1>0. c.run \in Runs /\ runs[c.run].claim # 0 /\ Quiet(c.run)
  BY MadeFacts DEF Settling
<1>1. CASE Refuse(c, waited)
  BY <1>1, RefuseServed
<1>2. CASE Converge(c.run) /\ Reply(c, waited, Answer("ok", c.run))
  <2>1. Answer("ok", c.run).kind = "ok"
    BY DEF Answer
  <2>2. waited => AnswerOk(Answer("ok", c.run))
    BY <2>1, MadeFacts DEF AnswerOk
  <2>3. Served(c, waited)
    BY <1>2, <2>2 DEF Served
  <2> QED BY <1>0, <1>2, <2>3, ConvergeMoves
<1> QED BY <1>1, <1>2 DEF ServeStopped

\* recover: the run is dropped, unless it was reported before.
LEMMA RecoverServed ==
  ASSUME ServiceTypeOK, NEW c, NEW waited \in BOOLEAN, Made(c, waited), c.op = "recover",
         ServeRecover(c, waited)
  PROVE  ServiceMove /\ Served(c, waited) /\ Untouched
<1>0. c.run \in Runs /\ runs[c.run].claim # 0 /\ Quiet(c.run)
  BY MadeFacts DEF Settling
<1>1. CASE Refuse(c, waited)
  BY <1>1, RefuseServed
<1>2. CASE RecoverRun(c.run) /\ Reply(c, waited, Answer("ok", c.run))
  <2>1. Answer("ok", c.run).kind = "ok"
    BY DEF Answer
  <2>2. waited => AnswerOk(Answer("ok", c.run))
    BY <2>1, MadeFacts DEF AnswerOk
  <2>3. Served(c, waited)
    BY <1>2, <2>2 DEF Served
  <2>4. CASE UNCHANGED service
    BY <1>2, <2>2, <2>4, ReplyServed
  <2> QED BY <1>0, <1>2, <2>3, <2>4, ConvergeMoves DEF RecoverRun
<1> QED BY <1>1, <1>2 DEF ServeRecover

\* A stage of a reconciliation finds what the next one relies on.
LEMMA StageNext ==
  ASSUME ServiceTypeOK, NEW r \in Runs, NEW m \in Members, NEW at \in Stages,
         StageOk(r, m, at),
         arts' = Reconciled(r, m, at).arts, objs' = Reconciled(r, m, at).objs,
         NEW to, to = Reconciled(r, m, at).to, to # "end"
  PROVE  to \in Stages /\ StageOk(r, m, to)'
<1> DEFINE next == Reconciled(r, m, at)
<1>1. arts[r][m] \in ArtStatus
  BY DEF ServiceTypeOK
<1>2. to \in Stages
  BY StageFacts
<1>3. CASE at = "read"
  <2>1. arts' = arts /\ objs' = objs
    BY <1>3, StageFacts
  <2>2. to = "fetch" \/ (to = "delete" /\ arts[r][m] \notin {"AVAILABLE", "PENDING"})
    BY <1>3, StageFacts
  <2> QED BY <1>1, <1>2, <1>3, <2>1, <2>2 DEF StageOk, Stages, ArtStatus, Gone
<1>4. CASE at = "fetch"
  <2>1. arts' = arts /\ objs' = objs
    BY <1>4, StageFacts
  <2>2. to = "adopt" /\ m \in objs[r]
    BY <1>4, StageFacts
  <2> QED BY <1>1, <1>2, <1>4, <2>1, <2>2 DEF StageOk, Stages
<1>5. CASE at = "delete"
  <2>1. arts' = arts /\ to = "drop"
    BY <1>5, StageFacts
  <2> QED BY <1>1, <1>2, <1>5, <2>1 DEF StageOk, Stages
<1>6. CASE at \in {"drop", "adopt"}
  <2>1. to = "end"
    BY <1>6, StageFacts
  <2> QED BY <2>1
<1> QED BY <1>3, <1>4, <1>5, <1>6 DEF Stages

\* upload: an intent, an object, the stages of a reconciliation.
LEMMA UploadServed ==
  ASSUME ServiceTypeOK, NEW c, NEW waited \in BOOLEAN, Made(c, waited), c.op = "upload",
         ServeUpload(c, waited)
  PROVE  ServiceMove /\ Served(c, waited) /\ Untouched
<1>0. /\ c.run \in Runs /\ c.member \in Members
      /\ StageOk(c.run, c.member, c.at)
      /\ waited => wk.pc \notin {"claim", "start", "started"}
  BY MadeFacts
<1>1. CASE Refuse(c, waited)
  BY <1>1, RefuseServed
<1>2. CASE /\ Uploadable(c.run, c.key, c.member) /\ UploadIntent(c.run, c.member)
           /\ Continue(c, waited, "put")
  <2>1. Intends(c.run, c.member) /\ UNCHANGED <<runs, scope>>
    BY <1>2 DEF Intends, Uploadable, Publishable, UploadIntent
  <2>2. arts'[c.run][c.member] # "none"
    BY <1>0, <1>2 DEF UploadIntent, ServiceTypeOK
  <2>3. StageOk(c.run, c.member, "put")'
    BY <2>2 DEF StageOk, Stages
  <2>4. Served(c, waited)
    BY <1>2, <2>3 DEF Served, Later
  <2>5. ServiceMove
    BY <1>0, <2>1 DEF ServiceMove, Stored
  <2> QED BY <1>2, <2>4, <2>5 DEF Untouched, UploadIntent, ServiceTypeOK
<1>3. CASE c.at = "put" /\ PutObject(c.run, c.member) /\ Continue(c, waited, "read")
  <2>1. Puts(c.run, c.member) /\ UNCHANGED <<runs, scope>>
    BY <1>3 DEF Puts, PutObject
  <2>2. StageOk(c.run, c.member, "read")'
    BY <1>0, <1>3 DEF StageOk, PutObject
  <2>3. Served(c, waited)
    BY <1>3, <2>2 DEF Served, Later, Stages
  <2>4. ServiceMove
    BY <1>0, <2>1 DEF ServiceMove, Stored
  <2> QED BY <1>3, <2>3, <2>4 DEF Untouched, PutObject, ServiceTypeOK
<1>4. ASSUME c.at \in Stages,
             arts' = Reconciled(c.run, c.member, c.at).arts,
             objs' = Reconciled(c.run, c.member, c.at).objs,
             errs' = Reconciled(c.run, c.member, c.at).errs,
             UNCHANGED <<runs, scope, closes, mt>>,
             IF Reconciled(c.run, c.member, c.at).to # "end"
             THEN Continue(c, waited, Reconciled(c.run, c.member, c.at).to)
             ELSE Reply(c, waited, Answer(IF Open THEN "ok" ELSE "refused", c.run))
      PROVE  ServiceMove /\ Served(c, waited) /\ Untouched
  <2>1. Reconciles(c.run, c.member)
    BY <1>0, <1>4 DEF Reconciles
  <2>2. ServiceMove
    BY <1>0, <1>4, <2>1 DEF ServiceMove, Stored
  <2>3. Untouched
    BY <1>0, <1>4, StageFacts DEF Untouched
  <2>4. PICK to : to = Reconciled(c.run, c.member, c.at).to
    OBVIOUS
  <2>5. CASE to # "end"
    <3>1. to \in Stages /\ StageOk(c.run, c.member, to)'
      BY <1>0, <1>4, <2>4, <2>5, StageNext
    <3>2. Continue(c, waited, to)
      BY <1>4, <2>4, <2>5
    <3> QED BY <2>2, <2>3, <3>1, <3>2 DEF Served, Later
  <2>6. CASE to = "end"
    <3>1. PICK a : a = Answer(IF Open THEN "ok" ELSE "refused", c.run)
      OBVIOUS
    <3>2. a.kind \in {"ok", "refused"}
      BY <3>1 DEF Answer
    <3>3. Reply(c, waited, a)
      BY <1>4, <2>4, <2>6, <3>1
    <3>4. waited => AnswerOk(a)
      BY <1>0, <3>2 DEF AnswerOk
    <3> QED BY <2>2, <2>3, <3>3, <3>4 DEF Served
  <2> QED BY <2>5, <2>6
<1>5. ASSUME c.at \in Stages, ServeUpload(c, waited)
      PROVE  ServiceMove /\ Served(c, waited) /\ Untouched
  <2>1. c.at \notin {"begin", "put"}
    BY <1>5 DEF Stages
  <2> QED BY <1>4, <1>5, <2>1, Zenon DEF ServeUpload
<1>6. c.at = "begin" \/ c.at = "put" \/ c.at \in Stages
  BY DEF ServeUpload
<1> QED BY <1>1, <1>2, <1>3, <1>5, <1>6 DEF ServeUpload, Stages

\* complete: a verified package is published, if every check still holds.
LEMMA CompleteServed ==
  ASSUME ServiceTypeOK, NEW c, NEW waited \in BOOLEAN, Made(c, waited), c.op = "complete",
         ServeComplete(c, waited)
  PROVE  ServiceMove /\ Served(c, waited) /\ Untouched
<1>0. /\ c.run \in Runs /\ runs[c.run].claim # 0 /\ Quiet(c.run)
      /\ waited => wk.pc \notin {"claim", "start", "started"}
  BY MadeFacts DEF Settling
<1>1. CASE Refuse(c, waited)
  BY <1>1, RefuseServed
<1>2. waited => AnswerOk(Answer("ok", c.run))
  <2>1. Answer("ok", c.run).kind = "ok"
    BY DEF Answer
  <2> QED BY <1>0, <2>1 DEF AnswerOk
<1>3. CASE Reply(c, waited, Answer("ok", c.run)) /\ UNCHANGED service
  BY <1>2, <1>3, ReplyServed
<1>4. CASE /\ CanPublish(c.run, c.key) /\ Publish(c.run)
           /\ Reply(c, waited, Answer("ok", c.run))
  <2> DEFINE r == c.run
             q == runs[r]
             p == Finished(q, "SUCCEEDED")
  <2>1. q \in RunRow
    BY <1>0, RowType DEF ServiceTypeOK
  <2>2. /\ p \in RunRow
        /\ p.status = "SUCCEEDED" /\ p.stopped /\ p.claim = q.claim /\ p.cancel = q.cancel
    BY <2>1 DEF Finished, RunRow, Terminal
  <2>3. runs' = [runs EXCEPT ![r] = p]
    BY <1>0, <1>4 DEF Publish, ServiceTypeOK
  <2> HIDE DEF p
  <2>4. q.status = "RUNNING" /\ ~q.cancel /\ PackageReady(r)
    BY <1>4 DEF CanPublish, Publishable
  <2>5. Publishes(q, p)
    BY <1>0, <2>2, <2>4 DEF Publishes
  <2>6. Turned(r)
    BY <1>0, <1>4, <2>2, <2>3, <2>4, <2>5 DEF Turned, Row, Turns, Publish
  <2>7. ServiceMove /\ Served(c, waited)
    BY <1>0, <1>2, <1>4, <2>6 DEF ServiceMove, Served
  <2> QED BY <1>4, <2>7 DEF Publish, Untouched, ServiceTypeOK
<1>5. ASSUME NEW at \in {"verify", "publish"}, Continue(c, waited, at), UNCHANGED service
      PROVE  ServiceMove /\ Served(c, waited) /\ Untouched
  <2>1. Rests
    BY <1>5 DEF Rests, service
  <2>2. Served(c, waited)
    BY <1>5 DEF Served, Later
  <2> QED BY <1>5, <2>1, <2>2 DEF ServiceMove, Untouched, service, ServiceTypeOK
<1> QED BY <1>1, <1>3, <1>4, <1>5, Zenon DEF ServeComplete

\* Serving any request.
LEMMA ServeServed ==
  ASSUME ServiceTypeOK, RowsOk, wk \in Workers, NEW c, NEW waited \in BOOLEAN,
         Made(c, waited), Serve(c, waited)
  PROVE  ServiceMove /\ Served(c, waited) /\ Untouched /\ UNCHANGED <<child, faults>>
<1>1. CASE c.op = "claim" /\ ServeClaim(c, waited)
  BY <1>1, ClaimServed DEF Serve
<1>2. CASE c.op = "recover" /\ ServeRecover(c, waited)
  BY <1>2, RecoverServed DEF Serve
<1>3. CASE c.op = "input" /\ ServeInput(c, waited)
  BY <1>3, InputServed DEF Serve
<1>4. CASE c.op = "start" /\ ServeStart(c, waited)
  BY <1>4, StartServed DEF Serve
<1>5. CASE c.op = "status" /\ ServeStatus(c, waited)
  BY <1>5, StatusServed DEF Serve
<1>6. CASE c.op = "upload" /\ ServeUpload(c, waited)
  BY <1>6, UploadServed DEF Serve
<1>7. CASE c.op = "complete" /\ ServeComplete(c, waited)
  BY <1>7, CompleteServed DEF Serve
<1>8. CASE c.op = "stopped" /\ ServeStopped(c, waited)
  BY <1>8, StoppedServed DEF Serve
<1> QED BY <1>1, <1>2, <1>3, <1>4, <1>5, <1>6, <1>7, <1>8 DEF Serve

-----------------------------------------------------------------------------
(* A step keeps the invariant *)

\* A reconciliation in progress goes on where nobody else took it forward.
LEMMA JobStays ==
  ASSUME ServiceTypeOK, JobOk, ArtsOn, mt' = mt
  PROVE  JobOk'
<1> SUFFICES ASSUME mt # NoJob PROVE StageOk(mt.run, mt.member, mt.at)'
  BY DEF JobOk
<1>1. mt \in Jobs /\ StageOk(mt.run, mt.member, mt.at)
  BY DEF ServiceTypeOK, JobOk
<1>2. mt.run \in Runs /\ mt.member \in Members
  BY <1>1 DEF Jobs
<1>3. ArtOn(mt.run, mt.member)
  BY <1>2 DEF ArtsOn
<1> QED BY <1>1, <1>3 DEF StageOk, ArtOn

\* The children belong to claims and to running rows, when only the service moves.
LEMMA ChildrenStay ==
  ASSUME ServiceTypeOK, ChildrenOk, RunsOn, child' = child
  PROVE  ChildrenOk' /\ ChildOn
<1>1. ChildOn
  BY DEF ChildOn
<1>2. ASSUME NEW r \in Runs
      PROVE  /\ child'[r] # "none" => runs'[r].claim # 0
             /\ child'[r] = "training" => runs'[r].status = "RUNNING"
  <2>1. child[r] = "training" => ~Quiet(r)
    BY DEF Quiet
  <2> QED BY <2>1 DEF ChildrenOk, RunsOn
<1> QED BY <1>1, <1>2 DEF ChildrenOk

\* The tables after a service move.
LEMMA MoveAll ==
  ASSUME JobsInv, ServiceMove
  PROVE  /\ runs' \in [Runs -> RunRow]
         /\ arts' \in [Runs -> [Members -> ArtStatus]]
         /\ objs' \in [Runs -> SUBSET Members]
         /\ RowsFine' /\ PacksOk' /\ ClosedOk'
         /\ RunsOn /\ ArtsOn
         /\ \A r \in Runs : runs'[r].claim \in Nat /\ runs'[r].claim <= wk.key
<1>1. /\ ServiceTypeOK /\ wk \in Workers
      /\ RowsOk /\ PacksOk /\ ClosedOk
  BY DEF JobsInv, TypeInv
<1>2. /\ runs' \in [Runs -> RunRow] /\ RowsFine' /\ RunsOn
  BY <1>1, MoveRows
<1>3. /\ PacksOk' /\ ArtsOn
      /\ arts' \in [Runs -> [Members -> ArtStatus]]
      /\ objs' \in [Runs -> SUBSET Members]
  BY <1>1, MovePacks
<1>4. ClosedOk'
  BY <1>1, MoveClosed
<1>5. \A r \in Runs : runs'[r].claim \in Nat /\ runs'[r].claim <= wk.key
  BY <1>2 DEF RunsOn, RunRow
<1> QED BY <1>2, <1>3, <1>4, <1>5

\* What remains to be said of a step beside its service move.
Typed ==
  /\ errs' \subseteq Runs \X Members
  /\ scope' \in [status: {"OPEN", "CLOSED"}, cleanup: BOOLEAN]
  /\ closes' \in [CloseOps -> {"none", "BUSY", "CLOSED"}]
  /\ mt' \in Jobs \cup {NoJob}
  /\ child' \in [Runs -> ChildStates]
  /\ faults' \in [crashes: 0..MaxCrashes, giveups: 0..MaxGiveUps,
                  unconfirmed: 0..MaxUnconfirmed]
Lasting == \A c \in late' : c \in Calls /\ (CallOk(c, wk) \/ CallOk(c, wk)')

\* A step whose parts are in order keeps the invariant.
LEMMA Finish ==
  ASSUME JobsInv, ServiceMove, Typed, JobOk', Able, Forth, ChildOn, ChildrenOk', Lasting
  PROVE  JobsInv'
<1>0. /\ ServiceTypeOK /\ wk \in Workers /\ WorkerOk /\ RowsOk
  BY DEF JobsInv, TypeInv
<1>1. /\ runs' \in [Runs -> RunRow]
      /\ arts' \in [Runs -> [Members -> ArtStatus]]
      /\ objs' \in [Runs -> SUBSET Members]
      /\ RowsFine' /\ PacksOk' /\ ClosedOk'
      /\ RunsOn /\ ArtsOn
      /\ \A r \in Runs : runs'[r].claim \in Nat /\ runs'[r].claim <= wk.key
  BY MoveAll
<1>2. late' \subseteq Calls
  BY DEF Lasting
<1>3. ASSUME NEW c \in late' PROVE CallOk(c, wk)'
  <2>1. c \in Calls /\ (CallOk(c, wk) \/ CallOk(c, wk)')
    BY <1>3 DEF Lasting
  <2> QED BY <1>0, <1>1, <2>1, CallStays
<1>4. CallsOk'
  BY <1>3 DEF CallsOk, Able
<1>5. TypeInv'
  BY <1>1, <1>2 DEF TypeInv, ServiceTypeOK, Typed, Able
<1>6. RowsOk'
  <2>1. \A r \in Runs : runs'[r].claim <= wk'.key
    BY <1>0, <1>1, WorkerFields DEF Forth
  <2> QED BY <1>1, <2>1 DEF RowsOk, RowsFine
<1> QED BY <1>1, <1>4, <1>5, <1>6 DEF JobsInv, Able

\* A request that goes on to another stage is the same otherwise.
LEMMA AtStage ==
  ASSUME NEW c \in Calls, NEW at \in Later, NEW d, d = [c EXCEPT !.at = at]
  PROVE  /\ d \in Calls
         /\ d.op = c.op /\ d.run = c.run /\ d.key = c.key /\ d.member = c.member
         /\ d.at = at
BY DEF Calls, Later

\* It stays in order when its stage does.
LEMMA StageStays ==
  ASSUME wk \in Workers, WorkerOk, RunsOn, ArtsOn, ChildOn, Forth,
         NEW c \in Calls, CallOk(c, wk), NEW at \in Later, NEW d, d = [c EXCEPT !.at = at],
         c.op = "upload" => at \in {"put"} \cup Stages /\ StageOk(c.run, c.member, at)'
  PROVE  CallOk(d, wk)'
<1>1. CallOk(c, wk)'
  BY CallStays
<1>2. /\ d.op = c.op /\ d.run = c.run /\ d.key = c.key /\ d.member = c.member
      /\ d.at = at
  BY AtStage
<1> QED BY <1>1, <1>2 DEF CallOk

\* A worker that waits for the next stage of its request.
LEMMA WaitAble ==
  ASSUME wk \in Workers, WorkerOk, ChildrenOk, RunsOn, ArtsOn, child' = child,
         NEW c \in Calls, c = wk.call, CallOk(c, wk), NEW at \in Later,
         c.op \in {"upload", "complete"},
         c.op = "upload" => at \in {"put"} \cup Stages /\ StageOk(c.run, c.member, at)',
         wk' = [wk EXCEPT !.call.at = at]
  PROVE  Able /\ Forth
<1>1. PICK d : d = [c EXCEPT !.at = at]
  OBVIOUS
<1>2. /\ d \in Calls
      /\ d.op = c.op /\ d.run = c.run /\ d.key = c.key /\ d.member = c.member
      /\ d.at = at
  BY <1>1, AtStage
<1>3. wk' = [wk EXCEPT !.call = d]
  BY <1>1
<1>4. /\ wk' \in Workers
      /\ wk'.pc = wk.pc /\ wk'.key = wk.key /\ wk'.run = wk.run /\ wk'.proc = wk.proc
      /\ wk'.call = d
  BY <1>2, <1>3 DEF Workers
<1>5. wk.call # NoCall /\ Asked(wk)
  BY SomeCall DEF WorkerOk, Works
<1>6. wk.pc \in {"upload", "complete", "again"} /\ Asked(wk)'
  BY <1>2, <1>4, <1>5 DEF Asked
<1>7. wk.run \in Runs /\ wk.key # 0 /\ runs'[wk.run].claim = wk.key
  BY <1>6, BusyOn DEF Busy
<1>8. wk.proc /\ child[wk.run] # "training"
  BY <1>6 DEF WorkerOk, Works, Busy, Hold
<1>9. WorkerOk'
  BY <1>4, <1>6, <1>7, <1>8 DEF WorkerOk, Works, Fresh, Hold
<1>10. ChildOn /\ Forth
  BY <1>4 DEF ChildOn, Forth
<1>11. CallOk(wk.call, wk)'
  <2>1. CallOk(d, wk)'
    BY <1>1, <1>10, StageStays
  <2> QED BY <1>4, <2>1 DEF CallOk
<1> QED BY <1>4, <1>9, <1>10, <1>11 DEF Able

\* Serving a request, waited for or late.
LEMMA ServeStep ==
  ASSUME JobsInv, NEW c, NEW waited \in BOOLEAN, Pending(c, waited), Serve(c, waited)
  PROVE  JobsInv' /\ ServiceMove
<1>0. /\ ServiceTypeOK /\ wk \in Workers /\ WorkerOk /\ RowsOk /\ ChildrenOk /\ CallsOk
      /\ late \subseteq Calls
  BY DEF JobsInv, TypeInv
<1>1. Made(c, waited)
  <2>1. CASE waited
    <3>1. c = wk.call /\ c # NoCall
      BY <2>1 DEF Pending
    <3>2. c \in Calls /\ Asked(wk) /\ CallOk(c, wk)
      BY <1>0, <3>1, WorkerFields DEF WorkerOk, Works, CallsOk
    <3> QED BY <3>1, <3>2 DEF Made
  <2>2. CASE ~waited
    BY <1>0, <2>2 DEF Pending, Made, CallsOk
  <2> QED BY <2>1, <2>2
<1>2. /\ c \in Calls /\ CallOk(c, wk)
      /\ waited => c = wk.call
  BY <1>1 DEF Made
<1>3. ServiceMove /\ Served(c, waited) /\ Untouched /\ UNCHANGED <<child, faults>>
  BY <1>0, <1>1, ServeServed
<1>4. /\ RunsOn /\ ArtsOn
      /\ \A r \in Runs : runs'[r].claim \in Nat
  BY <1>3, MoveAll
<1>5. ChildrenOk' /\ ChildOn
  BY <1>0, <1>3, <1>4, ChildrenStay
<1>6. JobOk'
  BY <1>0, <1>3, <1>4, JobStays DEF JobsInv, Untouched
<1>7. Typed
  BY <1>0, <1>3 DEF Typed, Untouched, ServiceTypeOK, JobsInv, TypeInv
<1>8. wk.call # NoCall => CallOk(wk.call, wk)
  BY <1>0 DEF CallsOk
<1>9. \A d \in late : d \in Calls /\ CallOk(d, wk)
  BY <1>0 DEF CallsOk
<1>10. CASE waited
  <2>1. wk.call = c /\ wk.call # NoCall
    BY <1>2, <1>10, SomeCall
  <2>2. ASSUME NEW a, AnswerOk(a), Reply(c, waited, a) PROVE Able /\ Forth /\ late' = late
    <3>1. wk' \in Heard(a) /\ late' = late
      BY <1>10, <2>2 DEF Reply
    <3> QED BY <1>0, <1>3, <1>4, <1>8, <2>1, <2>2, <3>1, HeardAble
  <2>3. ASSUME NEW at \in Later, Continue(c, waited, at), c.op \in {"upload", "complete"},
               c.op = "upload" => at \in {"put"} \cup Stages /\ StageOk(c.run, c.member, at)'
        PROVE  Able /\ Forth /\ late' = late
    <3>1. wk' = [wk EXCEPT !.call.at = at] /\ late' = late
      BY <1>10, <2>3 DEF Continue
    <3> QED BY <1>0, <1>2, <1>3, <1>4, <2>1, <2>3, <3>1, WaitAble
  <2>4. Able /\ Forth /\ late' = late
    BY <1>3, <1>10, <2>2, <2>3 DEF Served
  <2>5. Lasting
    BY <1>9, <2>4 DEF Lasting
  <2> QED BY <1>3, <1>5, <1>6, <1>7, <2>4, <2>5, Finish
<1>11. CASE ~waited
  <2>1. wk' = wk
    BY <1>3, <1>11 DEF Served, Reply, Continue
  <2>2. Able /\ Forth
    BY <1>0, <1>3, <1>4, <1>5, <1>8, <2>1, StayAble
  <2>3. ASSUME NEW a, Reply(c, waited, a) PROVE Lasting
    <3>1. late' \subseteq late
      BY <1>11, <2>3 DEF Reply
    <3> QED BY <1>9, <3>1 DEF Lasting
  <2>4. ASSUME NEW at \in Later, Continue(c, waited, at),
               c.op = "upload" => at \in {"put"} \cup Stages /\ StageOk(c.run, c.member, at)'
        PROVE  Lasting
    <3>1. PICK d : d = [c EXCEPT !.at = at]
      OBVIOUS
    <3>2. late' \subseteq late \cup {d}
      BY <1>11, <2>4, <3>1 DEF Continue
    <3>3. d \in Calls /\ CallOk(d, wk)'
      BY <1>0, <1>2, <1>4, <1>5, <2>2, <2>4, <3>1, AtStage, StageStays
    <3> QED BY <1>9, <3>2, <3>3 DEF Lasting
  <2>5. Lasting
    BY <1>3, <2>3, <2>4 DEF Served
  <2> QED BY <1>3, <1>5, <1>6, <1>7, <2>2, <2>5, Finish
<1> QED BY <1>3, <1>10, <1>11

\* A step of the service: only the tables move.
LEMMA ServiceAlone ==
  ASSUME JobsInv, ServiceMove, UNCHANGED <<wk, late, child>>, Typed, JobOk'
  PROVE  JobsInv'
<1>0. /\ ServiceTypeOK /\ wk \in Workers /\ WorkerOk /\ RowsOk /\ ChildrenOk /\ CallsOk
      /\ late \subseteq Calls
  BY DEF JobsInv, TypeInv
<1>1. RunsOn /\ ArtsOn
  BY MoveAll
<1>2. ChildrenOk' /\ ChildOn
  BY <1>0, <1>1, ChildrenStay
<1>3. Able /\ Forth
  BY <1>0, <1>1, <1>2, StayAble DEF CallsOk
<1>4. Lasting
  BY <1>0 DEF Lasting, CallsOk
<1> QED BY <1>2, <1>3, <1>4, Finish

\* A transaction of the resource API or of the maintenance on one row.
LEMMA RowStep ==
  ASSUME ServiceTypeOK, NEW r \in Runs,
         Submit(r) \/ Cancel(r) \/ Expire(r) \/ RequireRecovery(r)
  PROVE  ServiceMove /\ UNCHANGED <<errs, scope, closes, mt>>
<1> DEFINE q == runs[r]
<1>0. q \in RunRow
  BY RowType DEF ServiceTypeOK
<1>1. CASE Submit(r)
  <2> DEFINE p == [q EXCEPT !.status = "PENDING"]
  <2>1. runs' = [runs EXCEPT ![r] = p]
    BY <1>1 DEF Submit, ServiceTypeOK
  <2>2. /\ p \in RunRow
        /\ p.status = "PENDING" /\ p.claim = q.claim /\ p.cancel = q.cancel
        /\ p.stopped = q.stopped
    BY <1>0 DEF RunRow
  <2> HIDE DEF p
  <2>3. Submits(q, p) /\ Open
    BY <1>1, <2>2 DEF Submits, Submit
  <2>4. Turned(r)
    BY <1>1, <2>1, <2>2, <2>3 DEF Turned, Row, Turns, Submit
  <2> QED BY <1>1, <2>4 DEF ServiceMove, Submit
<1>2. CASE Cancel(r)
  <2> DEFINE asked == [q EXCEPT !.cancel = TRUE]
             p == IF asked.status = "RUNNING" THEN asked
                  ELSE [Finished(asked, "CANCELLED") EXCEPT !.stopped = (asked.claim = 0)]
  <2>1. runs' = [runs EXCEPT ![r] = p]
    BY <1>2 DEF Cancel
  <2>2. /\ asked \in RunRow
        /\ asked.status = q.status /\ asked.claim = q.claim /\ asked.cancel
        /\ asked.stopped = q.stopped
    BY <1>0 DEF RunRow
  <2> HIDE DEF asked
  <2>3. Finished(asked, "CANCELLED") =
          [asked EXCEPT !.status = "CANCELLED", !.stopped = TRUE, !.recovery = FALSE]
    BY DEF Finished
  <2>4. /\ p \in RunRow /\ p.claim = q.claim /\ p.cancel
        /\ p.status = IF q.status = "RUNNING" THEN "RUNNING" ELSE "CANCELLED"
        /\ p.stopped <=> IF q.status = "RUNNING" THEN q.stopped ELSE q.claim = 0
    <3>1. CASE q.status = "RUNNING"
      BY <2>2, <3>1
    <3>2. CASE q.status # "RUNNING"
      <4>1. p = [asked EXCEPT !.status = "CANCELLED", !.stopped = (asked.claim = 0),
                              !.recovery = FALSE]
        BY <2>2, <2>3, <3>2 DEF RunRow
      <4> HIDE DEF p
      <4> QED BY <2>2, <3>2, <4>1 DEF RunRow, Terminal
    <3> QED BY <3>1, <3>2
  <2> HIDE DEF p
  <2>5. q.status \in {"PENDING", "RUNNING"}
    BY <1>2 DEF Cancel
  <2>6. q.stopped \in BOOLEAN /\ p.stopped \in BOOLEAN
    BY <1>0, <2>4 DEF RunRow
  <2>7. Cancels(q, p)
    BY <2>4, <2>5, <2>6 DEF Cancels
  <2>8. Turned(r)
    BY <1>2, <2>1, <2>4, <2>7 DEF Turned, Row, Turns, Cancel
  <2> QED BY <1>2, <2>8 DEF ServiceMove, Cancel
<1>3. CASE Expire(r)
  <2> DEFINE p == [q EXCEPT !.fresh = FALSE]
  <2>1. runs' = [runs EXCEPT ![r] = p]
    BY <1>3 DEF Expire, ServiceTypeOK
  <2>2. p \in RunRow /\ Ages(q, p)
    BY <1>0 DEF RunRow, Ages
  <2> HIDE DEF p
  <2>3. Turned(r)
    BY <1>3, <2>1, <2>2 DEF Turned, Row, Turns, Expire
  <2> QED BY <1>3, <2>3 DEF ServiceMove, Expire
<1>4. CASE RequireRecovery(r)
  <2> DEFINE p == [q EXCEPT !.recovery = TRUE]
  <2>1. runs' = [runs EXCEPT ![r] = p]
    BY <1>4 DEF RequireRecovery, ServiceTypeOK
  <2>2. p \in RunRow /\ Ages(q, p)
    BY <1>0 DEF RunRow, Ages
  <2> HIDE DEF p
  <2>3. Turned(r)
    BY <1>4, <2>1, <2>2 DEF Turned, Row, Turns, RequireRecovery
  <2> QED BY <1>4, <2>3 DEF ServiceMove, RequireRecovery
<1> QED BY <1>1, <1>2, <1>3, <1>4

\* Closing a scope.
LEMMA CloseStep ==
  ASSUME JobsInv, NEW o \in CloseOps, CloseScope(o)
  PROVE  /\ ServiceMove /\ UNCHANGED <<errs, mt>>
         /\ closes' \in [CloseOps -> {"none", "BUSY", "CLOSED"}]
         /\ scope' \in [status: {"OPEN", "CLOSED"}, cleanup: BOOLEAN]
<1>0. /\ closes \in [CloseOps -> {"none", "BUSY", "CLOSED"}]
      /\ scope \in [status: {"OPEN", "CLOSED"}, cleanup: BOOLEAN]
      /\ runs \in [Runs -> RunRow]
      /\ RowsOk
  BY DEF JobsInv, TypeInv, ServiceTypeOK
<1>1. UNCHANGED <<runs, arts, objs, errs, mt>>
  BY DEF CloseScope
<1>2. closes' \in [CloseOps -> {"none", "BUSY", "CLOSED"}]
  BY <1>0 DEF CloseScope
<1>3. \/ scope' = scope
      \/ Open /\ ~ScopeBusy /\ scope' = [status |-> "CLOSED", cleanup |-> TRUE]
  BY DEF CloseScope
<1>4. CASE scope' = scope
  BY <1>0, <1>1, <1>2, <1>4 DEF ServiceMove, Rests
<1>5. CASE ~ScopeBusy /\ scope' = [status |-> "CLOSED", cleanup |-> TRUE]
  <2>1. ASSUME NEW r \in Runs PROVE Ended(r)
    <3>1. /\ runs[r].status \in {"none", "PENDING", "RUNNING"} \cup Terminal
          /\ runs[r].stopped \in BOOLEAN
      BY <1>0, RowType
    <3> QED BY <1>5, <3>1 DEF ScopeBusy, Ended
  <2>2. Closes
    BY <1>1, <1>5, <2>1 DEF Closes
  <2> QED BY <1>1, <1>2, <1>5, <2>2 DEF ServiceMove
<1> QED BY <1>3, <1>4, <1>5

\* The maintenance thread takes an artifact, and goes on with it.
LEMMA PickStep ==
  ASSUME ServiceTypeOK, NEW r \in Runs, NEW m \in Members, MaintainPick(r, m)
  PROVE  /\ Rests /\ UNCHANGED <<errs, scope, closes>>
         /\ mt' \in Jobs \cup {NoJob} /\ JobOk'
<1>1. /\ arts[r][m] \in {"PENDING", "DELETING", "DELETED"}
      /\ mt' = [at |-> Reconciled(r, m, "read").to, run |-> r, member |-> m]
      /\ UNCHANGED <<runs, arts, objs, errs, scope, closes>>
  BY DEF MaintainPick
<1>2. PICK to : to = Reconciled(r, m, "read").to
  OBVIOUS
<1>3. /\ to = IF arts[r][m] = "PENDING" THEN "fetch" ELSE "delete"
  BY <1>1, <1>2 DEF Reconciled
<1>4. mt' = [at |-> to, run |-> r, member |-> m]
  BY <1>1, <1>2
<1>5. mt' \in Jobs
  BY <1>3, <1>4 DEF Jobs, Stages
<1>6. mt'.run = r /\ mt'.member = m /\ mt'.at = to
  BY <1>4
<1>7. StageOk(mt.run, mt.member, mt.at)'
  BY <1>1, <1>3, <1>6 DEF StageOk, Gone
<1> QED BY <1>1, <1>5, <1>7 DEF JobOk, Rests

\* One stage of the maintenance.
LEMMA MaintainMoves ==
  ASSUME ServiceTypeOK, JobOk, MaintainStep
  PROVE  /\ ServiceMove /\ UNCHANGED <<scope, closes>>
         /\ errs' \subseteq Runs \X Members
         /\ mt' \in Jobs \cup {NoJob} /\ JobOk'
<1>0. mt # NoJob /\ mt \in Jobs
  BY DEF MaintainStep, ServiceTypeOK
<1>1. PICK r \in Runs, m \in Members, at \in Stages : mt = [at |-> at, run |-> r, member |-> m]
  BY <1>0 DEF Jobs
<1>2. mt.run = r /\ mt.member = m /\ mt.at = at
  BY <1>1
<1>3. /\ arts' = Reconciled(r, m, at).arts
      /\ objs' = Reconciled(r, m, at).objs
      /\ errs' = Reconciled(r, m, at).errs
      /\ UNCHANGED <<runs, scope, closes>>
      /\ mt' = IF Reconciled(r, m, at).to = "end" THEN NoJob
               ELSE [mt EXCEPT !.at = Reconciled(r, m, at).to]
  BY <1>2, Zenon DEF MaintainStep
<1>4. StageOk(r, m, at)
  BY <1>0, <1>2 DEF JobOk
<1>5. ServiceMove
  BY <1>3, <1>4 DEF ServiceMove, Stored, Reconciles
<1>6. errs' \subseteq Runs \X Members
  BY <1>3, StageFacts
<1>7. PICK to : to = Reconciled(r, m, at).to
  OBVIOUS
<1>8. CASE to = "end"
  BY <1>3, <1>5, <1>6, <1>7, <1>8 DEF JobOk
<1>9. CASE to # "end"
  <2>1. to \in Stages /\ StageOk(r, m, to)'
    BY <1>3, <1>4, <1>7, <1>9, StageNext
  <2>2. mt' = [at |-> to, run |-> r, member |-> m]
    BY <1>1, <1>3, <1>7, <1>9
  <2>3. mt' \in Jobs /\ mt'.run = r /\ mt'.member = m /\ mt'.at = to
    BY <2>1, <2>2 DEF Jobs
  <2>4. StageOk(mt.run, mt.member, mt.at)'
    BY <2>1, <2>3 DEF StageOk
  <2> QED BY <1>3, <1>5, <1>6, <2>3, <2>4 DEF JobOk
<1> QED BY <1>8, <1>9

\* Any step of the service.
LEMMA ServiceStep ==
  ASSUME JobsInv, ServiceNext, UNCHANGED <<wk, late, child, faults>>
  PROVE  JobsInv' /\ ServiceMove
<1>0. /\ ServiceTypeOK /\ wk \in Workers /\ JobOk /\ RowsOk /\ PacksOk
  BY DEF JobsInv, TypeInv
<1>1. /\ child' \in [Runs -> ChildStates]
      /\ faults' \in [crashes: 0..MaxCrashes, giveups: 0..MaxGiveUps,
                      unconfirmed: 0..MaxUnconfirmed]
      /\ errs \subseteq Runs \X Members
      /\ scope \in [status: {"OPEN", "CLOSED"}, cleanup: BOOLEAN]
      /\ closes \in [CloseOps -> {"none", "BUSY", "CLOSED"}]
      /\ mt \in Jobs \cup {NoJob}
  BY DEF JobsInv, TypeInv, ServiceTypeOK
<1>2. ASSUME ServiceMove, UNCHANGED <<errs, closes, mt>>,
             scope' \in [status: {"OPEN", "CLOSED"}, cleanup: BOOLEAN]
      PROVE  JobsInv'
  <2>1. JobOk'
    BY <1>0, <1>2, JobStays, MoveAll
  <2>2. Typed
    BY <1>1, <1>2 DEF Typed
  <2> QED BY <1>2, <2>1, <2>2, ServiceAlone
<1>3. ASSUME NEW r \in Runs, Submit(r) \/ Cancel(r) \/ Expire(r) \/ RequireRecovery(r)
      PROVE  JobsInv' /\ ServiceMove
  <2>1. ServiceMove /\ UNCHANGED <<errs, scope, closes, mt>>
    BY <1>0, <1>3, RowStep
  <2> QED BY <1>1, <1>2, <2>1
<1>4. ASSUME NEW o \in CloseOps, CloseScope(o)
      PROVE  JobsInv' /\ ServiceMove
  <2>1. /\ ServiceMove /\ UNCHANGED <<errs, mt>>
        /\ closes' \in [CloseOps -> {"none", "BUSY", "CLOSED"}]
        /\ scope' \in [status: {"OPEN", "CLOSED"}, cleanup: BOOLEAN]
    BY <1>4, CloseStep
  <2>2. JobOk'
    BY <1>0, <2>1, JobStays, MoveAll
  <2>3. Typed
    BY <1>1, <2>1 DEF Typed
  <2> QED BY <2>1, <2>2, <2>3, ServiceAlone
<1>5. ASSUME NEW r \in Runs, NEW m \in Members, MaintainPick(r, m)
      PROVE  JobsInv' /\ ServiceMove
  <2>1. /\ Rests /\ UNCHANGED <<errs, scope, closes>>
        /\ mt' \in Jobs \cup {NoJob} /\ JobOk'
    BY <1>0, <1>5, PickStep
  <2>2. ServiceMove /\ Typed
    BY <1>1, <2>1 DEF Typed, ServiceMove
  <2> QED BY <2>1, <2>2, ServiceAlone
<1>6. CASE MaintainStep
  <2>1. /\ ServiceMove /\ UNCHANGED <<scope, closes>>
        /\ errs' \subseteq Runs \X Members
        /\ mt' \in Jobs \cup {NoJob} /\ JobOk'
    BY <1>0, <1>6, MaintainMoves
  <2>2. Typed
    BY <1>1, <2>1 DEF Typed
  <2> QED BY <2>1, <2>2, ServiceAlone
<1>7. CASE CleanScope
  <2> DEFINE left == errs # {} \/ \E r \in Runs, m \in Members : arts[r][m] \notin {"none", "DELETED"}
  <2>1. /\ ~Open /\ scope' = [scope EXCEPT !.cleanup = left]
        /\ arts' = [r \in Runs |-> Discarded(arts[r], NoRow)]
        /\ UNCHANGED <<runs, objs, errs, closes, mt>>
    BY <1>7 DEF CleanScope
  <2>2. left \in BOOLEAN
    OBVIOUS
  <2> HIDE DEF left
  <2>3. /\ scope' \in [status: {"OPEN", "CLOSED"}, cleanup: BOOLEAN]
        /\ scope'.status = scope.status
    BY <1>1, <2>1, <2>2
  <2>4. ServiceMove
    BY <2>1, <2>3 DEF ServiceMove, Cleans
  <2> QED BY <1>2, <2>1, <2>3, <2>4
<1> QED BY <1>3, <1>4, <1>5, <1>6, <1>7 DEF ServiceNext

-----------------------------------------------------------------------------
(* The worker's steps and what goes wrong *)

\* A step that leaves the service alone.
LEMMA WorkerAlone ==
  ASSUME JobsInv, UNCHANGED service, Able, Forth, ChildOn, ChildrenOk', Lasting,
         child' \in [Runs -> ChildStates],
         faults' \in [crashes: 0..MaxCrashes, giveups: 0..MaxGiveUps,
                      unconfirmed: 0..MaxUnconfirmed]
  PROVE  JobsInv' /\ ServiceMove
<1>1. ServiceMove
  BY DEF ServiceMove, Rests, service
<1>2. Typed
  BY DEF Typed, JobsInv, TypeInv, ServiceTypeOK, service
<1>3. JobOk'
  BY DEF JobsInv, JobOk, StageOk, service
<1> QED BY <1>1, <1>2, <1>3, Finish

\* When the service rests, everybody may rely on everything.
LEMMA Still ==
  ASSUME JobsInv, UNCHANGED service
  PROVE  /\ RunsOn /\ ArtsOn
         /\ \A r \in Runs : runs'[r].claim \in Nat /\ runs'[r].claim <= wk.key
BY MoveAll DEF ServiceMove, Rests, service

\* The late requests stay.
LEMMA LateStays ==
  ASSUME JobsInv, late' = late
  PROVE  Lasting
BY DEF JobsInv, TypeInv, CallsOk, Lasting

\* One more fault.
LEMMA FaultTypes ==
  ASSUME TypeInv
  PROVE  /\ faults.crashes < MaxCrashes =>
              [faults EXCEPT !.crashes = @ + 1] \in
                [crashes: 0..MaxCrashes, giveups: 0..MaxGiveUps, unconfirmed: 0..MaxUnconfirmed]
         /\ faults.giveups < MaxGiveUps =>
              [faults EXCEPT !.giveups = @ + 1] \in
                [crashes: 0..MaxCrashes, giveups: 0..MaxGiveUps, unconfirmed: 0..MaxUnconfirmed]
         /\ Unconfirmed =>
              faults' \in
                [crashes: 0..MaxCrashes, giveups: 0..MaxGiveUps, unconfirmed: 0..MaxUnconfirmed]
<1>1. faults \in [crashes: 0..MaxCrashes, giveups: 0..MaxGiveUps, unconfirmed: 0..MaxUnconfirmed]
  BY DEF TypeInv
<1>2. /\ faults.crashes < MaxCrashes => faults.crashes + 1 \in 0..MaxCrashes
      /\ faults.giveups < MaxGiveUps => faults.giveups + 1 \in 0..MaxGiveUps
      /\ faults.unconfirmed < MaxUnconfirmed => faults.unconfirmed + 1 \in 0..MaxUnconfirmed
  BY <1>1, JobsAssumption
<1> QED BY <1>1, <1>2 DEF Unconfirmed

\* Stopping a child: it trains no more.
LEMMA KillFacts ==
  ASSUME child \in [Runs -> ChildStates], NEW r \in Runs, Kill(r)
  PROVE  /\ child' \in [Runs -> ChildStates]
         /\ child'[r] # "training"
         /\ \A s \in Runs :
              /\ child'[s] = "training" => child[s] = "training"
              /\ child'[s] # "none" => child[s] # "none"
BY DEF Kill, Alive, ChildStates

\* The children stay in order when none is added and none released.
LEMMA ChildrenLess ==
  ASSUME JobsInv, UNCHANGED service,
         \A s \in Runs :
           /\ child'[s] = "training" => child[s] = "training"
           /\ child'[s] # "none" => child[s] # "none"
  PROVE  ChildrenOk' /\ ChildOn
BY DEF JobsInv, ChildrenOk, ChildOn, service

\* The worker starts.
LEMMA StartStep ==
  ASSUME JobsInv, Start, UNCHANGED <<service, late>>
  PROVE  JobsInv' /\ ServiceMove
<1>0. wk \in Workers /\ ChildrenOk /\ TypeInv
  BY DEF JobsInv, TypeInv
<1>1. wk' = At("recover") /\ UNCHANGED <<child, faults>>
  BY DEF Start
<1>2. wk' \in Workers /\ wk'.pc = "recover" /\ wk'.key = wk.key /\ wk'.call = NoCall
  BY <1>0, <1>1, AtFields DEF WorkerPc
<1>3. Able /\ Forth
  BY <1>2 DEF Able, Forth, WorkerOk, Works, Busy, Fresh, Hold, Early
<1>4. ChildrenOk' /\ ChildOn
  BY <1>1, ChildrenLess DEF service
<1> QED BY <1>0, <1>1, <1>3, <1>4, LateStays, WorkerAlone DEF TypeInv

\* The worker looks at a claim of an earlier session, whose child it stops.
LEMMA RecoverStep ==
  ASSUME JobsInv, Recover, UNCHANGED <<service, late>>
  PROVE  JobsInv' /\ ServiceMove
<1>0. wk \in Workers /\ ChildrenOk /\ TypeInv /\ RowsOk /\ ServiceTypeOK /\ wk.pc = "recover"
  BY DEF JobsInv, TypeInv, Recover
<1>1. /\ RunsOn /\ ArtsOn
      /\ \A r \in Runs : runs'[r].claim \in Nat /\ runs'[r].claim <= wk.key
  BY Still
<1>2. CASE wk' = NextClaim /\ UNCHANGED <<child, faults>>
  <2>1. Able /\ Forth
    BY <1>0, <1>1, <1>2, NextAble
  <2>2. ChildrenOk' /\ ChildOn
    BY <1>2, ChildrenLess
  <2> QED BY <1>0, <1>2, <2>1, <2>2, LateStays, WorkerAlone DEF TypeInv
<1>3. CASE Unconfirmed /\ wk' = Down /\ UNCHANGED child
  <2>1. Able /\ Forth
    BY <1>0, <1>3, DownAble
  <2>2. ChildrenOk' /\ ChildOn
    BY <1>3, ChildrenLess
  <2> QED BY <1>0, <1>3, <2>1, <2>2, LateStays, FaultTypes, WorkerAlone DEF TypeInv
<1>4. ASSUME NEW r \in Runs, Active(r), Kill(r), UNCHANGED faults,
             wk' = [wk EXCEPT !.pc = "recovering",
                      !.call = [op |-> "recover", run |-> r, key |-> runs[r].claim,
                                member |-> 0, at |-> "begin"]]
      PROVE  JobsInv' /\ ServiceMove
  <2>1. PICK d : d = [op |-> "recover", run |-> r, key |-> runs[r].claim,
                      member |-> 0, at |-> "begin"]
    OBVIOUS
  <2>2. runs[r].claim \in Nat /\ runs[r].claim # 0 /\ runs[r].claim <= wk.key
    BY <1>0, <1>4, RowType DEF ServiceTypeOK, Active, RowsOk
  <2>3. d \in Calls /\ d.op = "recover" /\ d.run = r /\ d.key = runs[r].claim
    BY <2>1, <2>2, MemberAssumption DEF Calls, Ops
  <2>4. wk' = [wk EXCEPT !.pc = "recovering", !.call = d]
    BY <1>4, <2>1
  <2>5. wk' \in Workers /\ wk'.pc = "recovering" /\ wk'.key = wk.key /\ wk'.call = d
    BY <1>0, <2>3, <2>4 DEF Workers, WorkerPc
  <2>6. /\ child' \in [Runs -> ChildStates]
        /\ child'[r] # "training"
        /\ \A s \in Runs :
             /\ child'[s] = "training" => child[s] = "training"
             /\ child'[s] # "none" => child[s] # "none"
    BY <1>0, <1>4, KillFacts DEF TypeInv
  <2>7. ChildrenOk' /\ ChildOn
    BY <2>6, ChildrenLess
  <2>8. Asked(wk)'
    BY <2>3, <2>5 DEF Asked
  <2>9. WorkerOk'
    BY <2>5, <2>8 DEF WorkerOk, Works, Busy, Fresh, Hold
  <2>10. CallOk(wk.call, wk)'
    <3>1. runs' = runs
      BY DEF service
    <3> QED BY <2>2, <2>3, <2>5, <2>6, <3>1 DEF CallOk, Early, Settling
  <2>11. Able /\ Forth
    BY <2>5, <2>9, <2>10 DEF Able, Forth, Early
  <2> QED BY <1>0, <1>4, <2>6, <2>7, <2>11, LateStays, WorkerAlone DEF TypeInv
<1> QED BY <1>2, <1>3, <1>4 DEF Recover

\* The worker starts a gated child, or fails to.
LEMMA SetUpStep ==
  ASSUME JobsInv, SetUp, UNCHANGED <<service, late>>
  PROVE  JobsInv' /\ ServiceMove
<1>0. /\ wk \in Workers /\ ChildrenOk /\ TypeInv /\ WorkerOk /\ wk.pc = "setup"
      /\ child \in [Runs -> ChildStates]
  BY DEF JobsInv, TypeInv, SetUp
<1>1. /\ RunsOn /\ ArtsOn
  BY Still
<1>2. /\ wk.pc \in Busy /\ wk.run \in Runs /\ runs[wk.run].claim # 0
      /\ child[wk.run] = "none"
  BY <1>0 DEF WorkerOk, Works, Busy, Fresh
<1>3. ASSUME child' = [child EXCEPT ![wk.run] = "gated"]
      PROVE  /\ child' \in [Runs -> ChildStates]
             /\ child'[wk.run] # "training"
             /\ ChildrenOk' /\ ChildOn
  <2>1. /\ child' \in [Runs -> ChildStates]
        /\ child'[wk.run] = "gated"
        /\ \A r \in Runs : r # wk.run => child'[r] = child[r]
    BY <1>0, <1>2, <1>3 DEF ChildStates
  <2>2. runs' = runs
    BY DEF service
  <2> QED BY <1>0, <1>2, <2>1, <2>2 DEF ChildrenOk, ChildOn
<1>4. CASE /\ child' = [child EXCEPT ![wk.run] = "gated"]
           /\ wk' = [Ask("start", "start", 0) EXCEPT !.proc = TRUE]
           /\ UNCHANGED faults
  <2>0. Ask("start", "start", 0) \in Workers
    BY <1>0, <1>2, AskFields, MemberAssumption DEF WorkerPc, Ops
  <2>1. wk'.proc
    BY <1>4, <2>0 DEF Workers
  <2>2. wk'.proc \in BOOLEAN /\ wk' = [Ask("start", "start", 0) EXCEPT !.proc = wk'.proc]
    BY <1>4, <2>0 DEF Workers
  <2>3. Able /\ Forth
    <3>1. "start" \in WorkerPc /\ "start" \in Ops /\ 0 \in 0..MemberCount
      BY MemberAssumption DEF WorkerPc, Ops
    <3> QED BY <1>0, <1>1, <1>2, <1>3, <1>4, <2>1, <2>2, <3>1, AskAble
  <2> QED BY <1>0, <1>3, <1>4, <2>3, LateStays, WorkerAlone DEF TypeInv
<1>5. CASE wk' = At("stop") /\ UNCHANGED <<child, faults>>
  <2>1. Able /\ Forth
    BY <1>0, <1>1, <1>2, <1>5, StopAble
  <2>2. ChildrenOk' /\ ChildOn
    BY <1>5, ChildrenLess
  <2> QED BY <1>0, <1>5, <2>1, <2>2, LateStays, WorkerAlone DEF TypeInv
<1>6. CASE /\ Unconfirmed
           /\ child' = [child EXCEPT ![wk.run] = "gated"]
           /\ wk' = At("stop")
  <2>1. Able /\ Forth
    BY <1>0, <1>1, <1>2, <1>3, <1>6, StopAble
  <2> QED BY <1>0, <1>3, <1>6, <2>1, LateStays, FaultTypes, WorkerAlone
<1> QED BY <1>4, <1>5, <1>6 DEF SetUp

\* The worker releases its child: its run is running, and nothing that ends it is
\* under way.
LEMMA ReleaseStep ==
  ASSUME JobsInv, Release, UNCHANGED <<service, late>>
  PROVE  JobsInv' /\ ServiceMove
<1>0. /\ wk \in Workers /\ ChildrenOk /\ TypeInv /\ WorkerOk /\ wk.pc = "release"
      /\ child \in [Runs -> ChildStates]
  BY DEF JobsInv, TypeInv, Release
<1>1. /\ RunsOn /\ ArtsOn
  BY Still
<1>2. /\ wk.pc \in Busy /\ wk.run \in Runs /\ runs[wk.run].claim = wk.key /\ wk.key # 0
      /\ runs[wk.run].status = "RUNNING" /\ wk.proc
  BY <1>0 DEF WorkerOk, Works, Busy, Hold
<1>3. UNCHANGED faults
  BY DEF Release
<1>4. CASE child' = child /\ wk' = At("stop")
  <2>1. Able /\ Forth
    BY <1>0, <1>1, <1>2, <1>4, StopAble
  <2>2. ChildrenOk' /\ ChildOn
    BY <1>4, ChildrenLess
  <2> QED BY <1>0, <1>3, <1>4, <2>1, <2>2, LateStays, WorkerAlone DEF TypeInv
<1>5. CASE child' = [child EXCEPT ![wk.run] = "training"] /\ wk' = At("train")
  <2>1. /\ child' \in [Runs -> ChildStates]
        /\ child'[wk.run] = "training"
        /\ \A r \in Runs : r # wk.run => child'[r] = child[r]
    BY <1>0, <1>2, <1>5 DEF ChildStates
  <2>2. runs' = runs
    BY DEF service
  <2>3. ChildrenOk' /\ ChildOn
    BY <1>0, <1>2, <2>1, <2>2 DEF ChildrenOk, ChildOn
  <2>4. /\ wk' \in Workers /\ wk'.pc = "train" /\ wk'.key = wk.key /\ wk'.run = wk.run
        /\ wk'.proc = wk.proc /\ wk'.call = NoCall
    BY <1>0, <1>5, AtFields DEF WorkerPc
  <2>5. WorkerOk'
    BY <1>2, <2>2, <2>4 DEF WorkerOk, Works, Fresh
  <2>6. Able /\ Forth
    BY <2>4, <2>5 DEF Able, Forth, Early
  <2> QED BY <1>0, <1>3, <2>1, <2>3, <2>6, LateStays, WorkerAlone DEF TypeInv
<1> QED BY <1>4, <1>5 DEF Release

\* The worker finds its child done, or a reason to stop it.
LEMMA TrainStep ==
  ASSUME JobsInv, Train, UNCHANGED <<service, late>>
  PROVE  JobsInv' /\ ServiceMove
<1>0. /\ wk \in Workers /\ ChildrenOk /\ TypeInv /\ WorkerOk /\ wk.pc = "train"
  BY DEF JobsInv, TypeInv, Train
<1>1. /\ RunsOn /\ ArtsOn
  BY Still
<1>2. wk.pc \in Busy /\ wk.run \in Runs /\ wk.proc
  BY <1>0 DEF WorkerOk, Works, Busy, Hold
<1>3. UNCHANGED <<child, faults>>
  BY DEF Train
<1>4. ChildrenOk' /\ ChildOn
  BY <1>3, ChildrenLess
<1>5. ASSUME Able, Forth PROVE JobsInv' /\ ServiceMove
  BY <1>0, <1>3, <1>4, <1>5, LateStays, WorkerAlone DEF TypeInv
<1>6. CASE wk' = At("stop")
  BY <1>0, <1>1, <1>2, <1>3, <1>5, <1>6, StopAble
<1>7. CASE child[wk.run] = "done" /\ wk' = Ask("upload", "upload", 1)
  <2>1. 1 \in Members /\ 1 \in 0..MemberCount /\ "upload" \in WorkerPc /\ "upload" \in Ops
    BY MemberAssumption DEF Members, WorkerPc, Ops
  <2>2. /\ wk' = [Ask("upload", "upload", 1) EXCEPT !.proc = wk'.proc]
        /\ wk'.proc = wk.proc /\ wk'.proc \in BOOLEAN
    BY <1>0, <1>2, <1>7, <2>1, AskSame
  <2>3. child'[wk.run] # "training"
    BY <1>3, <1>7
  <2> QED BY <1>0, <1>1, <1>2, <1>5, <2>1, <2>2, <2>3, AskAble
<1> QED BY <1>6, <1>7, MemberAssumption DEF Train, UploadNext

\* The worker ends the job of its run.
LEMMA StopStep ==
  ASSUME JobsInv, StopChild, UNCHANGED <<service, late>>
  PROVE  JobsInv' /\ ServiceMove
<1>0. /\ wk \in Workers /\ ChildrenOk /\ TypeInv /\ WorkerOk /\ wk.pc \in {"stop", "close"}
      /\ child \in [Runs -> ChildStates]
  BY DEF JobsInv, TypeInv, StopChild
<1>1. /\ RunsOn /\ ArtsOn
      /\ \A r \in Runs : runs'[r].claim \in Nat /\ runs'[r].claim <= wk.key
  BY Still
<1>2. wk.pc \in Busy /\ wk.run \in Runs
  BY <1>0 DEF WorkerOk, Works, Busy
<1>3. CASE wk.proc /\ Unconfirmed /\ wk' = Down /\ UNCHANGED child
  <2>1. Able /\ Forth
    BY <1>0, <1>3, DownAble
  <2>2. ChildrenOk' /\ ChildOn
    BY <1>3, ChildrenLess
  <2> QED BY <1>0, <1>3, <2>1, <2>2, LateStays, FaultTypes, WorkerAlone
<1>4. ASSUME IF wk.proc THEN Kill(wk.run) ELSE child' = child
      PROVE  /\ child' \in [Runs -> ChildStates]
             /\ child'[wk.run] # "training"
             /\ ChildrenOk' /\ ChildOn
  <2>1. /\ child' \in [Runs -> ChildStates]
        /\ child'[wk.run] # "training"
        /\ \A s \in Runs :
             /\ child'[s] = "training" => child[s] = "training"
             /\ child'[s] # "none" => child[s] # "none"
    <3>1. CASE wk.proc
      BY <1>0, <1>2, <1>4, <3>1, KillFacts
    <3>2. CASE ~wk.proc
      <4>1. child[wk.run] # "training"
        BY <1>0, <1>2, <3>2 DEF WorkerOk, Works
      <4> QED BY <1>0, <1>4, <3>2, <4>1
    <3> QED BY <3>1, <3>2
  <2> QED BY <2>1, ChildrenLess
<1>5. CASE /\ wk.pc = "close" /\ wk' = [NextClaim EXCEPT !.proc = FALSE]
           /\ IF wk.proc THEN Kill(wk.run) ELSE child' = child
           /\ UNCHANGED faults
  <2>1. /\ NextClaim \in Workers
        /\ NextClaim.pc = "claim" /\ NextClaim.key = wk.key + 1
        /\ NextClaim.call \in Calls
        /\ NextClaim.call.op = "claim" /\ NextClaim.call.key = wk.key + 1
    BY <1>0, NextFields
  <2>2. PICK n : n = NextClaim
    OBVIOUS
  <2>3. wk' = [n EXCEPT !.proc = FALSE]
    BY <1>5, <2>2
  <2>4. /\ wk' \in Workers /\ wk'.pc = "claim" /\ wk'.key = wk.key + 1
        /\ wk'.call \in Calls /\ wk'.call.op = "claim" /\ wk'.call.key = wk.key + 1
    BY <2>1, <2>2, <2>3 DEF Workers
  <2>5. wk.key \in Nat
    BY <1>0, WorkerFields
  <2>6. \A r \in Runs : runs'[r].claim # wk'.key
    BY <1>1, <2>4, <2>5
  <2>7. Asked(wk)'
    BY <2>4 DEF Asked
  <2>8. WorkerOk'
    BY <2>4, <2>5, <2>6, <2>7 DEF WorkerOk, Works, Busy, Hold
  <2>9. CallOk(wk.call, wk)'
    BY <2>4, <2>5 DEF CallOk, Settling
  <2>10. Able /\ Forth
    BY <2>4, <2>8, <2>9 DEF Able, Forth
  <2> QED BY <1>0, <1>4, <1>5, <2>10, LateStays, WorkerAlone DEF TypeInv
<1>6. CASE /\ wk' = [Ask("stopped", "stopped", 0) EXCEPT !.proc = FALSE]
           /\ IF wk.proc THEN Kill(wk.run) ELSE child' = child
           /\ UNCHANGED faults
  <2>1. "stopped" \in WorkerPc /\ "stopped" \in Ops /\ 0 \in 0..MemberCount
    BY MemberAssumption DEF WorkerPc, Ops
  <2>2. Ask("stopped", "stopped", 0) \in Workers
    BY <1>0, <1>2, <2>1, AskFields
  <2>3. /\ wk'.proc \in BOOLEAN
        /\ wk' = [Ask("stopped", "stopped", 0) EXCEPT !.proc = wk'.proc]
    BY <1>6, <2>2 DEF Workers
  <2>4. Able /\ Forth
    BY <1>0, <1>1, <1>2, <1>4, <1>6, <2>1, <2>3, AskAble
  <2> QED BY <1>0, <1>4, <1>6, <2>4, LateStays, WorkerAlone DEF TypeInv
<1> QED BY <1>0, <1>3, <1>5, <1>6 DEF StopChild


\* What the worker leaves behind is in order.
LEMMA LeftLasting ==
  ASSUME JobsInv, late' = LeftBehind
  PROVE  Lasting
<1>0. wk \in Workers /\ CallsOk /\ late \subseteq Calls
  BY DEF JobsInv, TypeInv
<1> SUFFICES ASSUME NEW c \in late' PROVE c \in Calls /\ CallOk(c, wk)
  BY DEF Lasting
<1>1. c \in late \/ (wk.call.op \in LateOps /\ c = wk.call)
  BY DEF LeftBehind
<1>2. CASE c \in late
  BY <1>0, <1>2 DEF CallsOk
<1>3. CASE wk.call.op \in LateOps /\ c = wk.call
  <2>1. wk.call # NoCall
    <3>1. "none" \notin LateOps
      BY LateAssumption, SMT DEF Ops
    <3>2. NoCall.op = "none"
      BY DEF NoCall
    <3> QED BY <1>3, <3>1, <3>2
  <2> QED BY <1>0, <1>3, <2>1, WorkerFields DEF CallsOk
<1> QED BY <1>1, <1>2, <1>3

\* The worker stops waiting for an answer.
LEMMA GiveUpStep ==
  ASSUME JobsInv, GiveUp
  PROVE  JobsInv' /\ ServiceMove
<1>0. /\ wk \in Workers /\ ChildrenOk /\ TypeInv /\ WorkerOk /\ CallsOk /\ wk.call # NoCall
      /\ CallOk(wk.call, wk)
  BY DEF JobsInv, TypeInv, GiveUp, CallsOk
<1>1. UNCHANGED <<service, child>> /\ late' = LeftBehind
  BY DEF GiveUp
<1>2. /\ RunsOn /\ ArtsOn
      /\ \A r \in Runs : runs'[r].claim \in Nat
  BY <1>1, Still
<1>3. PICK a : a = Answer("lost", NoRun)
  OBVIOUS
<1>4. AnswerOk(a)
  BY <1>3 DEF Answer, AnswerOk
<1>5. wk' \in Heard(a)
  BY <1>3 DEF GiveUp
<1>6. Able /\ Forth
  BY <1>0, <1>1, <1>2, <1>4, <1>5, HeardAble
<1>7. ChildrenOk' /\ ChildOn
  BY <1>1, ChildrenLess
<1>8. faults' \in [crashes: 0..MaxCrashes, giveups: 0..MaxGiveUps,
                   unconfirmed: 0..MaxUnconfirmed]
  BY <1>0, FaultTypes DEF GiveUp
<1> QED BY <1>0, <1>1, <1>6, <1>7, <1>8, LeftLasting, WorkerAlone DEF TypeInv

\* The worker process dies.
LEMMA CrashStep ==
  ASSUME JobsInv, Crash
  PROVE  JobsInv' /\ ServiceMove
<1>0. wk \in Workers /\ TypeInv
  BY DEF JobsInv, TypeInv
<1>1. UNCHANGED <<service, child>> /\ late' = LeftBehind /\ wk' = Down
  BY DEF Crash
<1>2. Able /\ Forth
  BY <1>0, <1>1, DownAble
<1>3. ChildrenOk' /\ ChildOn
  BY <1>1, ChildrenLess
<1>4. faults' \in [crashes: 0..MaxCrashes, giveups: 0..MaxGiveUps,
                   unconfirmed: 0..MaxUnconfirmed]
  BY <1>0, FaultTypes DEF Crash
<1> QED BY <1>0, <1>1, <1>2, <1>3, <1>4, LeftLasting, WorkerAlone DEF TypeInv

\* A reconciliation fails.
LEMMA FailsStep ==
  ASSUME JobsInv, MaintainFails
  PROVE  JobsInv' /\ ServiceMove
<1>0. TypeInv /\ mt \in Jobs /\ UNCHANGED <<wk, late, child>>
  BY DEF JobsInv, TypeInv, ServiceTypeOK, MaintainFails
<1>1. mt.run \in Runs /\ mt.member \in Members
  BY <1>0 DEF Jobs
<1>2. scope \in [status: {"OPEN", "CLOSED"}, cleanup: BOOLEAN] /\ errs \subseteq Runs \X Members
  BY <1>0 DEF TypeInv, ServiceTypeOK
<1>3. errs' \subseteq Runs \X Members
  BY <1>1, <1>2 DEF MaintainFails
<1>4. /\ scope' \in [status: {"OPEN", "CLOSED"}, cleanup: BOOLEAN]
      /\ scope'.status = scope.status
  BY <1>2 DEF MaintainFails
<1>5. faults' \in [crashes: 0..MaxCrashes, giveups: 0..MaxGiveUps,
                   unconfirmed: 0..MaxUnconfirmed]
  BY <1>0, FaultTypes DEF MaintainFails
<1>6. ServiceMove
  BY <1>4 DEF ServiceMove, Rests, MaintainFails
<1>7. Typed
  BY <1>0, <1>3, <1>4, <1>5 DEF Typed, TypeInv, ServiceTypeOK, MaintainFails
<1>8. JobOk'
  BY DEF JobOk, MaintainFails
<1> QED BY <1>0, <1>6, <1>7, <1>8, ServiceAlone

\* A child ends: the worker still finds what it relies on.
LEMMA ChildStep ==
  ASSUME JobsInv, NEW r \in Runs, ChildEnds(r)
  PROVE  JobsInv' /\ ServiceMove
<1>0. /\ wk \in Workers /\ WorkerOk /\ ChildrenOk /\ TypeInv /\ CallsOk
      /\ child \in [Runs -> ChildStates]
  BY DEF JobsInv, TypeInv
<1>1. UNCHANGED <<service, wk, late, faults>> /\ runs' = runs
  BY DEF ChildEnds, service
<1>2. /\ child' \in [Runs -> ChildStates]
      /\ child'[r] \in {"done", "failed"} /\ child[r] # "none"
      /\ \A s \in Runs : s # r => child'[s] = child[s]
  BY <1>0 DEF ChildEnds, Alive, ChildStates
<1>3. ChildrenOk' /\ ChildOn
  <2>1. \A s \in Runs :
          /\ child'[s] = "training" => child[s] = "training"
          /\ child'[s] # "none" => child[s] # "none"
    BY <1>2
  <2> QED BY <1>1, <2>1, ChildrenLess
<1>4. RunsOn /\ ArtsOn
  BY <1>1, Still
<1>5. Forth
  BY <1>1 DEF Forth
<1>6. WorkerOk'
  <2>1. Asked(wk)' <=> Asked(wk)
    BY <1>1 DEF Asked
  <2>2. wk.pc \in Fresh => \A s \in Runs : runs[s].claim = wk.key => child'[s] = "none"
    BY <1>0, <1>2 DEF WorkerOk, Works
  <2>3. wk.pc \in Busy /\ child'[wk.run] = "training" => child[wk.run] = "training"
    BY <1>0, <1>2 DEF WorkerOk, Works
  <2> QED BY <1>0, <1>1, <2>1, <2>2, <2>3 DEF WorkerOk, Works
<1>7. ASSUME wk.call # NoCall PROVE CallOk(wk.call, wk)'
  <2>1. PICK c \in Calls : c = wk.call
    BY <1>0, <1>7, WorkerFields
  <2>2. CallOk(c, wk)'
    BY <1>0, <1>3, <1>4, <1>5, <1>7, <2>1, CallStays DEF CallsOk
  <2>3. wk.call' = c
    BY <1>1, <2>1
  <2> QED BY <2>2, <2>3 DEF CallOk
<1>8. Able
  BY <1>0, <1>1, <1>6, <1>7 DEF Able
<1> QED BY <1>0, <1>1, <1>2, <1>3, <1>5, <1>8, LateStays, WorkerAlone DEF TypeInv

\* Nothing happens.
LEMMA NoStep ==
  ASSUME JobsInv, UNCHANGED vars
  PROVE  JobsInv' /\ ServiceMove
<1>0. TypeInv /\ CallsOk
  BY DEF JobsInv
<1>1. UNCHANGED <<service, wk, late, child, faults>>
  BY DEF vars, service
<1>2. ServiceMove
  BY <1>1 DEF ServiceMove, Rests, service
<1>3. Typed
  BY <1>0, <1>1 DEF Typed, TypeInv, ServiceTypeOK, service
<1>4. JobOk'
  BY <1>1 DEF JobsInv, JobOk, StageOk, service
<1> QED BY <1>1, <1>2, <1>3, <1>4, ServiceAlone

\* The worker's own steps.
LEMMA WorkerMoves ==
  ASSUME JobsInv, WorkerStep
  PROVE  JobsInv' /\ ServiceMove
<1>1. UNCHANGED <<service, late>>
  BY DEF WorkerStep
<1> QED BY <1>1, StartStep, RecoverStep, SetUpStep, ReleaseStep, TrainStep, StopStep
     DEF WorkerStep

\* The request that the worker waits for is served.
LEMMA WaitedStep ==
  ASSUME JobsInv, Serve(wk.call, TRUE)
  PROVE  JobsInv' /\ ServiceMove
<1>1. PICK c : c = wk.call
  OBVIOUS
<1>2. PICK waited \in BOOLEAN : waited = TRUE
  OBVIOUS
<1>3. Serve(c, waited)
  BY <1>1, <1>2
<1>4. Pending(c, waited)
  BY <1>3 DEF Serve
<1> QED BY <1>3, <1>4, ServeStep

\* Every step keeps the invariant, and is a move of the service.
LEMMA NextStep ==
  ASSUME JobsInv, [Next]_vars
  PROVE  JobsInv' /\ ServiceMove
<1>1. CASE ServiceNext /\ UNCHANGED <<wk, late, child, faults>>
  BY <1>1, ServiceStep
<1>2. CASE Serve(wk.call, TRUE)
  BY <1>2, WaitedStep
<1>3. ASSUME NEW c \in late, Serve(c, FALSE) PROVE JobsInv' /\ ServiceMove
  <2>1. Pending(c, FALSE)
    BY <1>3 DEF Serve
  <2> QED BY <1>3, <2>1, ServeStep
<1>4. CASE WorkerStep
  BY <1>4, WorkerMoves
<1>5. CASE GiveUp \/ MaintainFails \/ Crash
  BY <1>5, GiveUpStep, FailsStep, CrashStep
<1>6. CASE \E r \in Runs : ChildEnds(r)
  BY <1>6, ChildStep
<1>7. CASE UNCHANGED vars
  BY <1>7, NoStep
<1> QED BY <1>1, <1>2, <1>3, <1>4, <1>5, <1>6, <1>7 DEF Next

\* At the start nothing has been claimed.
LEMMA InitInv ==
  ASSUME Init
  PROVE  JobsInv
<1>1. /\ runs = [r \in Runs |-> NoRow] /\ arts = [r \in Runs |-> [m \in Members |-> "none"]]
      /\ objs = [r \in Runs |-> {}] /\ errs = {} /\ mt = NoJob
      /\ scope = [status |-> "OPEN", cleanup |-> FALSE]
      /\ closes = [o \in CloseOps |-> "none"]
      /\ late = {} /\ child = [r \in Runs |-> "none"]
      /\ wk = [pc |-> "down", key |-> 0, run |-> NoRun, proc |-> FALSE, call |-> NoCall]
      /\ faults = [crashes |-> 0, giveups |-> 0, unconfirmed |-> 0]
  BY DEF Init, ServiceInit
<1>2. /\ NoRow \in RunRow /\ NoRow.status = "none" /\ NoRow.claim = 0
      /\ ~NoRow.cancel /\ ~NoRow.stopped
  BY DEF NoRow, RunRow, Terminal
<1>3. ServiceTypeOK
  BY <1>1, <1>2 DEF ServiceTypeOK, ArtStatus
<1>4. TypeInv
  BY <1>1, <1>3, JobsAssumption DEF TypeInv, Workers, WorkerPc, ChildStates
<1>5. RowsOk
  BY <1>1, <1>2 DEF RowsOk, RowOk, Active
<1>6. PacksOk
  BY <1>1, <1>2 DEF PacksOk, PackOk
<1>7. JobOk /\ CallsOk
  BY <1>1 DEF JobOk, CallsOk
<1>8. WorkerOk
  BY <1>1 DEF WorkerOk, Works, Busy, Fresh, Hold
<1>9. ChildrenOk /\ ClosedOk
  BY <1>1, <1>2 DEF ChildrenOk, ClosedOk, Open
<1> QED BY <1>4, <1>5, <1>6, <1>7, <1>8, <1>9 DEF JobsInv

-----------------------------------------------------------------------------
(* The theorems *)

\* The invariant holds: requests, however late, name the claim they were made
\* under, and what ends a run is sent only when its child can train no more
\* (worker.py:run, application.py:claim, worker_stopped, recover, complete).
THEOREM JobsInvHolds == Spec => []JobsInv
<1>1. Init => JobsInv
  BY InitInv
<1>2. JobsInv /\ [Next]_vars => JobsInv'
  BY NextStep
<1> QED BY <1>1, <1>2, PTL DEF Spec

\* A child trains only for its own run, which is RUNNING under a claim, and never
\* beside another, through crashes, lost answers, late requests and stops that
\* could not be confirmed (worker.py:run, windows.py:JobProcess).
THEOREM TrainingStaysOwned == Spec => []TrainingIsOwned
<1>1. JobsInv => TrainingIsOwned
  <2> SUFFICES ASSUME JobsInv, NEW r \in Runs, child[r] = "training"
               PROVE  /\ runs[r].status = "RUNNING" /\ Active(r)
                      /\ \A s \in Runs \ {r} : child[s] # "training"
    BY DEF TrainingIsOwned
  <2>1. \A s \in Runs : child[s] = "training" => runs[s].status = "RUNNING" /\ Active(s)
    BY DEF JobsInv, ChildrenOk, RowsOk, RowOk, Active
  <2> QED BY <2>1 DEF JobsInv, RowsOk
<1> QED BY <1>1, JobsInvHolds, PTL

\* While its scope is open a published model has all its artifacts and their
\* objects, and of a run that was dropped nothing is or becomes available
\* (application.py:complete, upload_member, reconcile_artifact).
THEOREM PackagesStayWhole == Spec => []PackageIsWhole
<1>1. JobsInv => PackageIsWhole
  <2> SUFFICES ASSUME JobsInv PROVE TypeInv /\ ModelIsWhole /\ NothingLeaks
    BY DEF PackageIsWhole
  <2>1. TypeInv /\ ServiceTypeOK /\ PacksOk
    BY DEF JobsInv, TypeInv
  <2>2. ASSUME NEW r \in Runs, runs[r].status = "SUCCEEDED", Open
        PROVE  PackageReady(r) /\ objs[r] = Members
    <3>1. PackageReady(r) /\ \A m \in Members : arts[r][m] = "AVAILABLE" => m \in objs[r]
      BY <2>1, <2>2 DEF PacksOk, PackOk
    <3>2. objs[r] \subseteq Members
      BY <2>1 DEF ServiceTypeOK
    <3> QED BY <3>1, <3>2 DEF PackageReady
  <2>3. ASSUME NEW r \in Runs, runs[r].status \in {"FAILED", "CANCELLED"}, runs[r].stopped,
               NEW m \in Members
        PROVE  arts[r][m] \in {"none", "DELETING", "DELETED"}
    BY <2>1, <2>3 DEF PacksOk, PackOk, Gone
  <2> QED BY <2>1, <2>2, <2>3 DEF ModelIsWhole, NothingLeaks
<1> QED BY <1>1, JobsInvHolds, PTL

\* A scope that was closed has no run left to finish and no child that trains
\* (application.py:close_scope).
THEOREM ClosedStaysQuiet == Spec => []ClosedIsQuiet
<1>1. JobsInv => ClosedIsQuiet
  <2> SUFFICES ASSUME JobsInv, ~Open, NEW r \in Runs
               PROVE  /\ Ended(r)
                      /\ child[r] # "training"
    BY DEF ClosedIsQuiet, Ended
  <2>1. Ended(r)
    BY DEF JobsInv, ClosedOk
  <2>2. child[r] = "training" => runs[r].status = "RUNNING"
    BY DEF JobsInv, ChildrenOk
  <2> QED BY <2>1, <2>2 DEF Ended, Terminal
<1> QED BY <1>1, JobsInvHolds, PTL

\* The service and its worker implement TrainingSlot: one run at a time holds the
\* slot, it leaves it once, and no run is published after its cancellation was
\* accepted (application.py:claim, cancel, complete, worker_stopped).
THEOREM SlotIsKept == Spec => KeepsSlot
<1>1. Init => Slot!Init
  <2> SUFFICES ASSUME Init PROVE Slot!Init
    OBVIOUS
  <2>1. runs = [r \in Runs |-> NoRow] /\ scope.status = "OPEN"
    BY DEF Init, ServiceInit
  <2>2. NoRow.status = "none" /\ ~NoRow.cancel
    BY DEF NoRow
  <2>3. \A r \in Runs : Place(r) = "new" /\ ~runs[r].cancel
    BY <2>1, <2>2 DEF Place
  <2> QED BY <2>1, <2>3 DEF Slot!Init, Open
<1>2. JobsInv /\ [Next]_vars => [Slot!Next]_(Slot!vars)
  <2>1. JobsInv => ServiceTypeOK /\ RowsOk
    BY DEF JobsInv, TypeInv
  <2> QED BY <2>1, NextStep, MoveSlot
<1> QED BY <1>1, <1>2, JobsInvHolds, PTL DEF Spec, Slot!Spec, KeepsSlot
=============================================================================
