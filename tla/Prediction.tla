----------------------------- MODULE Prediction -----------------------------
(***************************************************************************)
(* Predictions of the ML service and the dataset they read                 *)
(* (prediction_application.py, request_execution.py, mcp_adapter.py and    *)
(* the dataset and artifact parts of application.py).  A prediction has no *)
(* queue: the call that created it computes it, in a supervised child      *)
(* process, and owns its cancellation; a call with the same idempotency    *)
(* key only reads it.  The result is an object in the store, announced by  *)
(* a row before it is uploaded and adopted afterwards by whoever comes     *)
(* first: the call, the maintenance or the next start of the service.      *)
(*                                                                         *)
(* The service serialises its transactions (an advisory lock), so each one *)
(* is one action.  What happens between them interleaves.                  *)
(***************************************************************************)
EXTENDS Naturals, FiniteSets

CONSTANTS
  Keys,        \* idempotency keys: each names at most one prediction
  Calls,       \* requests to predict that may be in progress
  Data,        \* the dataset, as an owner of an artifact
  None,
  MaxRequests, \* bound: requests to predict, replays included
  MaxFaults,   \* bound: lost transactions, lost uploads, unconfirmed stops
  MaxCrashes   \* bound: exits of the service process

ASSUME PredictionAssumption ==
  /\ Data \notin Keys
  /\ None \notin Calls \cup Keys
  /\ MaxRequests \in Nat
  /\ MaxFaults \in Nat
  /\ MaxCrashes \in Nat

VARIABLES
  pred,    \* the predictions, by key
  call,    \* the calls
  cap,     \* the call that holds prediction_capacity
  reg,     \* prediction_calls: the registered call of a prediction
  proc,    \* the child process of a prediction
  art,     \* artifact rows, of the predictions and of the dataset
  obj,     \* objects in the store; "late" is an upload still on its way
  data,    \* the status of the dataset row
  user,    \* one cancellation over HTTP
  job,     \* reconciliations of artifacts: by an upload, by the maintenance
  sys

vars == <<pred, call, cap, reg, proc, art, obj, data, user, job, sys>>

Owners == Keys \cup {Data}
Terminal == {"SUCCEEDED", "FAILED", "CANCELLED"}
Ended(p) == pred[p].st \in Terminal
Exists(p) == pred[p].st # "none"

Predictions ==
  [st: {"none", "PENDING", "RUNNING"} \cup Terminal, cancel: BOOLEAN,
   stopped: BOOLEAN, publishing: BOOLEAN]
NoPrediction == [st |-> "none", cancel |-> FALSE, stopped |-> FALSE, publishing |-> FALSE]

\* owner: CallCancellation.owner; made: this call created the prediction (kept
\* apart from owner only to say who may cancel); event: its cancellation event.
CallPc == {"idle", "insert", "register", "prepare", "start",
           "release", "wait", "stop", "stopGood", "intent", "put", "publish",
           "finish", "return", "poll", "clean", "cleanFinish"}
CallStates == [pc: CallPc, key: Keys \cup {None}, owner: BOOLEAN, made: BOOLEAN, event: BOOLEAN]
NoCall ==
  [pc |-> "idle", key |-> None, owner |-> FALSE, made |-> FALSE, event |-> FALSE]

NoUser == [pc |-> "idle", key |-> None]
Status == {"none", "PENDING", "AVAILABLE", "FAILED", "DELETING", "DELETED"}
Workers == {"upload", "maintain"}
NoJob == [at |-> "idle", of |-> Data]
Jobs == [at: {"idle", "put", "read", "delete", "drop", "adopt", "refuse"}, of: Owners]

Init ==
  /\ pred = [p \in Keys |-> NoPrediction]
  /\ call = [c \in Calls |-> NoCall]
  /\ cap = None
  /\ reg = [p \in Keys |-> None]
  /\ proc = [p \in Keys |-> "none"]
  /\ art = [o \in Owners |-> "none"]
  /\ obj = [o \in Owners |-> "none"]
  /\ data = "none"
  /\ user = NoUser
  /\ job = [w \in Workers |-> NoJob]
  /\ sys = [boot |-> FALSE, requests |-> 0, faults |-> 0, crashes |-> 0]

-----------------------------------------------------------------------------
(* Rows *)

Up == ~sys.boot
Fault == sys.faults < MaxFaults /\ sys' = [sys EXCEPT !.faults = @ + 1]
Fine == sys' = sys

\* Prediction.finish on a row whose process is known to be gone.
Finished(row, cancelled) ==
  IF row.st \in Terminal THEN row
  ELSE LET asked == row.cancel \/ cancelled
       IN  [row EXCEPT !.stopped = TRUE, !.cancel = asked,
                       !.st = IF asked THEN "CANCELLED" ELSE "FAILED"]

\* Slip: the artifact of a prediction that failed is kept.
KeptArtifact(status, row) == status
\* _finish_prediction: what it announced is deleted unless it succeeded.
Discarded(status, row) ==
  IF row.st # "SUCCEEDED" /\ status \in {"PENDING", "AVAILABLE", "FAILED"}
    THEN "DELETING" ELSE status

FinishTx(p, cancelled) ==
  LET row == Finished(pred[p], cancelled)
  IN  pred' = [pred EXCEPT ![p] = row] /\ art' = [art EXCEPT ![p] = Discarded(@, row)]

\* Slip: a cancellation that was accepted does not stop the publication.
PublishableAnyway(row) == row.st = "RUNNING" /\ row.stopped /\ row.publishing
Publishable(row) == row.st = "RUNNING" /\ row.stopped /\ row.publishing /\ ~row.cancel

\* reconcile_prediction, for an artifact that was read as PENDING.
AdoptTx(p) ==
  IF art[p] # "PENDING" THEN UNCHANGED <<pred, art>>
  ELSE IF Publishable(pred[p])
    THEN /\ art' = [art EXCEPT ![p] = "AVAILABLE"]
         /\ pred' = [pred EXCEPT ![p].st = "SUCCEEDED"]
  ELSE IF pred[p].cancel \/ Ended(p)
    THEN /\ art' = [art EXCEPT ![p] = "DELETING"]
         /\ pred' = IF ~Ended(p) /\ pred[p].stopped
                      THEN [pred EXCEPT ![p].st = "CANCELLED"] ELSE pred
  ELSE UNCHANGED <<pred, art>>

\* request_prediction_cancel.
RequestTx(p) ==
  pred' = IF Exists(p) /\ ~Ended(p) THEN [pred EXCEPT ![p].cancel = TRUE] ELSE pred

-----------------------------------------------------------------------------
(* The call: predict_model *)

At(c, pc) == Up /\ call[c].pc = pc
Key(c) == call[c].key
Row(c) == pred[Key(c)]
Go(c, pc) == call' = [call EXCEPT ![c].pc = pc]
Cancelled(c) == call[c].event \/ Row(c).cancel

Idle(c) == call' = [call EXCEPT ![c] = NoCall]

\* The end of predict_model: the capacity and the registration are given back.
GiveBack(c) ==
  /\ cap' = IF cap = c THEN None ELSE cap
  /\ reg' = [p \in Keys |-> IF reg[p] = c THEN None ELSE reg[p]]

\* An error leaves the call cancelled, and it cleans up what it owns.
Failed(calls, c) ==
  IF calls[c].owner THEN [calls EXCEPT ![c].event = TRUE, ![c].pc = "clean"]
  ELSE [calls EXCEPT ![c] = NoCall]
Error(c) == call' = Failed(call, c) /\ GiveBack(c)

\* Slip: whoever asks for a prediction may cancel it.
ReplayOwns(calls, c) == [calls EXCEPT ![c].pc = "return", ![c].owner = TRUE]
\* One originating call owns cancellation; an idempotent replay owns nothing.
Replay(calls, c) == [calls EXCEPT ![c].pc = "return"]

\* The lookup of the key, and the checks of the model and the dataset.
Begin(c, p) ==
  LET begun == [call EXCEPT ![c].key = p] IN
  /\ At(c, "idle")
  /\ sys.requests < MaxRequests
  /\ sys' = [sys EXCEPT !.requests = @ + 1]
  /\ \/ Exists(p) /\ call' = Replay(begun, c)
     \/ ~Exists(p) /\ data = "AVAILABLE" /\ call' = [begun EXCEPT ![c].pc = "insert"]
  /\ UNCHANGED <<pred, cap, reg, proc, art, obj, data, user, job>>

\* No prediction may begin while the stop of another one is unconfirmed.
OthersStopped == \A p \in Keys : Exists(p) => pred[p].stopped

DataAvailable == data = "AVAILABLE"

\* The capacity is taken without waiting, then one transaction looks the key up
\* again and creates the prediction; else the capacity is given back.
Insert(c) ==
  LET made == [pred EXCEPT ![Key(c)].st = "PENDING"]
      mine == [call EXCEPT ![c].owner = TRUE, ![c].made = TRUE]
      refused == IF Exists(Key(c)) THEN Replay(call, c) ELSE Failed(call, c)
  IN
  /\ At(c, "insert")
  /\ IF cap # None \/ Exists(Key(c)) \/ ~OthersStopped \/ ~DataAvailable
       THEN call' = refused /\ UNCHANGED <<pred, cap, sys>>
     ELSE \/ pred' = made /\ call' = [mine EXCEPT ![c].pc = "register"] /\ cap' = c /\ Fine
          \/ /\ Fault
             /\ pred' \in {pred, made}   \* the owner also names a lost receipt
             /\ call' = Failed(mine, c)
             /\ cap' = cap
  /\ UNCHANGED <<reg, proc, art, obj, data, user, job>>

Register(c) ==
  /\ At(c, "register")
  /\ reg' = [reg EXCEPT ![Key(c)] = c]
  /\ Go(c, "prepare")
  /\ UNCHANGED <<pred, cap, proc, art, obj, data, user, job, sys>>

-----------------------------------------------------------------------------
(* The computation: _execute_prediction *)

\* The model is loaded and the child created behind its gate, or that fails.
Prepare(c) ==
  /\ At(c, "prepare")
  /\ \/ Go(c, "finish") /\ proc' = proc
     \/ ~Cancelled(c) /\ Go(c, "start") /\ proc' = [proc EXCEPT ![Key(c)] = "gated"]
  /\ UNCHANGED <<pred, cap, reg, art, obj, data, user, job, sys>>

\* _start_prediction; a lost receipt is settled by reading the row again.
Start(c) ==
  LET running == [pred EXCEPT ![Key(c)].st = "RUNNING"] IN
  /\ At(c, "start")
  /\ IF Row(c).st # "PENDING" \/ Row(c).cancel
       THEN Go(c, "stop") /\ UNCHANGED <<pred, sys>>
     ELSE \/ pred' = running /\ Go(c, "release") /\ Fine
          \/ Go(c, "stop") /\ UNCHANGED <<pred, sys>>   \* its deadline, or a dead child
          \/ Fault /\ pred' = pred /\ Go(c, "stop")
          \/ Fault /\ pred' = running /\ Go(c, "release")
  /\ UNCHANGED <<cap, reg, proc, art, obj, data, user, job>>

Release(c) ==
  /\ At(c, "release")
  /\ IF Cancelled(c) THEN Go(c, "stop") /\ proc' = proc
     ELSE Go(c, "wait") /\ proc' = [proc EXCEPT ![Key(c)] = "released"]
  /\ UNCHANGED <<pred, cap, reg, art, obj, data, user, job, sys>>

\* The child ends, its deadline passes, or a cancellation is seen.
Wait(c) ==
  /\ At(c, "wait")
  /\ \/ Go(c, "stop")
     \/ ~Cancelled(c) /\ Go(c, "stopGood")
  /\ UNCHANGED <<pred, cap, reg, proc, art, obj, data, user, job, sys>>

\* Slip: a stop that could not be confirmed is taken for a stop.
StopTrusted(c, next) == Go(c, next) /\ UNCHANGED <<cap, reg>>
\* The failure propagates: nothing terminal is claimed.
StopUnconfirmed(c, next) == Error(c)

\* JobProcess.stop: the tree is gone, descendants included, or it is unknown.
StopProc(c) ==
  \E good \in BOOLEAN :
    LET next == IF good /\ ~Cancelled(c) THEN "intent" ELSE "finish" IN
    /\ At(c, IF good THEN "stopGood" ELSE "stop")
    /\ \/ proc' = [proc EXCEPT ![Key(c)] = "none"] /\ Fine /\ Go(c, next) /\ UNCHANGED <<cap, reg>>
       \/ Fault /\ proc' = proc /\ StopUnconfirmed(c, next)
    /\ UNCHANGED <<pred, art, obj, data, user, job>>

\* _prediction_publication_intent, one transaction; a lost receipt is settled
\* by looking for the artifact.
Intent(c) ==
  LET p == Key(c)
      announced == [pred EXCEPT ![p].stopped = TRUE, ![p].publishing = TRUE]
  IN
  /\ At(c, "intent")
  /\ IF Row(c).cancel \/ Row(c).st # "RUNNING"
       THEN Go(c, "finish") /\ UNCHANGED <<pred, art, sys>>
     ELSE \/ /\ Fine \/ Fault
             /\ pred' = announced
             /\ art' = [art EXCEPT ![p] = "PENDING"]
             /\ Go(c, "put")
          \/ Fault /\ Go(c, "finish") /\ UNCHANGED <<pred, art>>
  /\ UNCHANGED <<cap, reg, proc, obj, data, user, job>>

\* An error behind the announcement: a result that is refused finishes the
\* prediction, an outcome that is unknown leaves the announcement to whoever
\* reconciles it; a cancelled call finishes the prediction anyway.
GiveUp(c) ==
  \E next \in {"finish", "return"} : (call[c].event => next = "finish") /\ Go(c, next)

\* StoragePort.put; an upload whose outcome is unknown may still arrive.
Put(c) ==
  LET p == Key(c) IN
  /\ At(c, "put")
  /\ \/ /\ obj' = [obj EXCEPT ![p] = "there"]
        /\ Go(c, IF call[c].event THEN "finish" ELSE "publish")
        /\ Fine
     \/ /\ Fault
        /\ \E o \in {"none", "late"} : obj' = [obj EXCEPT ![p] = o]
        /\ GiveUp(c)
  /\ UNCHANGED <<pred, cap, reg, proc, art, data, user, job>>

Publish(c) ==
  /\ At(c, "publish")
  /\ \/ AdoptTx(Key(c)) /\ Fine /\ Go(c, "return")
     \/ /\ Fault
        /\ AdoptTx(Key(c)) \/ UNCHANGED <<pred, art>>
        /\ GiveUp(c)
  /\ UNCHANGED <<cap, reg, proc, obj, data, user, job>>

Finish(c) ==
  /\ At(c, "finish")
  /\ \/ FinishTx(Key(c), call[c].event) /\ Fine /\ Go(c, "return") /\ UNCHANGED <<cap, reg>>
     \/ /\ Fault
        /\ FinishTx(Key(c), call[c].event) \/ UNCHANGED <<pred, art>>
        /\ Error(c)
  /\ UNCHANGED <<proc, obj, data, user, job>>

\* The row is read for the answer, or that fails; execute_prediction then cleans
\* up after a cancelled call.  An agent's request waits for a row that has not
\* ended, the one over HTTP does not.
Return(c) ==
  /\ At(c, "return")
  /\ \/ /\ Fine
        /\ GiveBack(c)
        /\ IF call[c].event /\ call[c].owner THEN Go(c, "clean")
           ELSE Idle(c) \/ (~Ended(Key(c)) /\ Go(c, "poll"))
     \/ Fault /\ Error(c)
  /\ UNCHANGED <<pred, proc, art, obj, data, user, job>>

\* The request is answered, fails, or ends with its time (Lost and Ask, before).
Poll(c) ==
  /\ At(c, "poll")
  /\ Idle(c)
  /\ UNCHANGED <<pred, cap, reg, proc, art, obj, data, user, job, sys>>

-----------------------------------------------------------------------------
(* Cancellation: request_execution.py, cancel_prediction *)

\* The client is gone, or its time is over.  The event comes first.
Lost(c) ==
  /\ Up
  /\ call[c].pc \notin {"idle", "clean", "cleanFinish"}
  /\ ~call[c].event
  /\ call' = [call EXCEPT ![c].event = TRUE]
  /\ UNCHANGED <<pred, cap, reg, proc, art, obj, data, user, job, sys>>

\* signal_prediction_cancel: the durable request of the owner, which may fail.
Ask(c) ==
  /\ Up
  /\ call[c].event
  /\ call[c].owner
  /\ call[c].pc \notin {"idle", "clean", "cleanFinish"}
  /\ Exists(Key(c)) /\ ~Row(c).cancel
  /\ RequestTx(Key(c))
  /\ UNCHANGED <<call, cap, reg, proc, art, obj, data, user, job, sys>>

\* cancel_prediction by the owner, whose registration is gone: recover_job
\* stops the process by its name, then the row is finished.
Clean(c) ==
  LET p == Key(c) IN
  /\ At(c, "clean")
  /\ RequestTx(p)
  /\ IF ~Exists(p) \/ Ended(p) THEN Idle(c) /\ UNCHANGED <<proc, sys>>
     ELSE \/ proc' = [proc EXCEPT ![p] = "none"] /\ Fine /\ Go(c, "cleanFinish")
          \/ Fault /\ proc' = proc /\ Idle(c)
  /\ UNCHANGED <<cap, reg, art, obj, data, user, job>>

CleanFinish(c) ==
  /\ At(c, "cleanFinish")
  /\ Idle(c)
  /\ \/ FinishTx(Key(c), TRUE) /\ Fine
     \/ Fault /\ UNCHANGED <<pred, art>>
  /\ UNCHANGED <<cap, reg, proc, obj, data, user, job>>

\* Over HTTP: a registered call is told and does the work itself.
UserAsk(p) ==
  /\ Up
  /\ user.pc = "idle"
  /\ Exists(p) /\ ~Ended(p)
  /\ RequestTx(p)
  /\ user' = [pc |-> "asked", key |-> p]
  /\ UNCHANGED <<call, cap, reg, proc, art, obj, data, job, sys>>

UserTell ==
  LET p == user.key IN
  /\ Up
  /\ user.pc = "asked"
  /\ IF reg[p] # None
       THEN /\ call' = [call EXCEPT ![reg[p]].event = TRUE]
            /\ user' = NoUser
            /\ UNCHANGED <<proc, sys>>
     ELSE /\ call' = call
          /\ \/ /\ proc' = [proc EXCEPT ![p] = "none"]
                /\ user' = [user EXCEPT !.pc = "finish"] /\ Fine
             \/ Fault /\ proc' = proc /\ user' = NoUser
  /\ UNCHANGED <<pred, cap, reg, art, obj, data, job>>

UserFinish ==
  /\ Up
  /\ user.pc = "finish"
  /\ FinishTx(user.key, TRUE)
  /\ user' = NoUser
  /\ UNCHANGED <<call, cap, reg, proc, obj, data, job, sys>>

-----------------------------------------------------------------------------
(* The dataset: upload_dataset, delete_dataset *)

JobGo(w, at) == job' = [job EXCEPT ![w].at = at]
JobDone(w) == job' = [job EXCEPT ![w] = NoJob]

\* The row and the announcement of its object, then the upload; a replay of
\* the same key uploads again as long as the dataset is pending.
Upload ==
  /\ Up
  /\ job["upload"].at = "idle"
  /\ \/ /\ data = "none"
        /\ data' = "PENDING"
        /\ art' = [art EXCEPT ![Data] = "PENDING"]
     \/ data = "PENDING" /\ UNCHANGED <<data, art>>
  /\ job' = [job EXCEPT !["upload"] = [at |-> "put", of |-> Data]]
  /\ UNCHANGED <<pred, call, cap, reg, proc, obj, user, sys>>

UploadPut ==
  /\ Up
  /\ job["upload"].at = "put"
  /\ \/ obj' = [obj EXCEPT ![Data] = "there"] /\ JobGo("upload", "read") /\ Fine
     \/ /\ Fault
        /\ obj' = [obj EXCEPT ![Data] = IF @ = "there" THEN @ ELSE "late"]
        /\ JobDone("upload")
  /\ UNCHANGED <<pred, call, cap, reg, proc, art, data, user>>

DeleteData ==
  /\ Up
  /\ data \in {"PENDING", "AVAILABLE", "FAILED"}
  /\ \A p \in Keys : ~Exists(p)
  /\ data' = "DELETING"
  /\ art' = [art EXCEPT ![Data] = IF @ = "DELETED" THEN @ ELSE "DELETING"]
  /\ UNCHANGED <<pred, call, cap, reg, proc, obj, user, job, sys>>

-----------------------------------------------------------------------------
(* reconcile_artifact, by an upload or by the maintenance *)

InJob(w, at) == Up /\ job[w].at = at
Of(w) == job[w].of

\* What the object is found to be: absent, readable, or refused by a check.
\* The maintenance takes deleted artifacts too, for an upload that arrives late
\* (due_artifacts).
Read(w, o) ==
  /\ IF w = "upload" THEN InJob(w, "read") /\ o = Data ELSE InJob(w, "idle")
  /\ art' = [art EXCEPT ![o] = IF @ = "FAILED" THEN "DELETING" ELSE @]
  /\ \E at \in {"idle", "delete", "adopt", "refuse"} :
       /\ at = "delete" <=> art[o] \in {"FAILED", "DELETING", "DELETED"}
       /\ at \in {"adopt", "refuse"} <=> art[o] = "PENDING" /\ obj[o] = "there"
       /\ job' = [job EXCEPT ![w] = IF at = "idle" THEN NoJob ELSE [at |-> at, of |-> o]]
  /\ UNCHANGED <<pred, call, cap, reg, proc, obj, data, user, sys>>

Delete(w) ==
  /\ InJob(w, "delete")
  /\ \/ obj' = [obj EXCEPT ![Of(w)] = IF @ = "there" THEN "none" ELSE @] /\ JobGo(w, "drop") /\ Fine
     \/ Fault /\ obj' = obj /\ JobDone(w)
  /\ UNCHANGED <<pred, call, cap, reg, proc, art, data, user>>

Drop(w) ==
  /\ InJob(w, "drop")
  /\ art' = [art EXCEPT ![Of(w)] = IF @ = "DELETING" THEN "DELETED" ELSE @]
  /\ data' = IF Of(w) = Data /\ data = "DELETING" THEN "DELETED" ELSE data
  /\ JobDone(w)
  /\ UNCHANGED <<pred, call, cap, reg, proc, obj, user, sys>>

DataPending == art[Data] = "PENDING" /\ data = "PENDING"

Adopt(w) ==
  /\ InJob(w, "adopt")
  /\ JobDone(w)
  /\ IF Of(w) # Data THEN AdoptTx(Of(w)) /\ data' = data
     ELSE /\ pred' = pred
          /\ data' = IF DataPending THEN "AVAILABLE" ELSE data
          /\ art' = IF DataPending THEN [art EXCEPT ![Data] = "AVAILABLE"] ELSE art
  /\ UNCHANGED <<call, cap, reg, proc, obj, user, sys>>

\* A check that failed for good: in maintain the artifact fails and its owner
\* with it; an upload only reports it.
Refuse(w) ==
  LET o == Of(w) IN
  /\ InJob(w, "refuse")
  /\ JobDone(w)
  /\ IF w = "upload" \/ art[o] # "PENDING" THEN UNCHANGED <<pred, art, data>>
     ELSE /\ art' = [art EXCEPT ![o] = "FAILED"]
          /\ data' = IF o = Data /\ data = "PENDING" THEN "FAILED" ELSE data
          /\ pred' = IF o \in Keys /\ pred[o].stopped
                       THEN [pred EXCEPT ![o] = Finished(@, FALSE)] ELSE pred
  /\ UNCHANGED <<call, cap, reg, proc, obj, user, sys>>

-----------------------------------------------------------------------------
(* Uploads that arrive late; the process *)

Arrive(o) ==
  /\ obj[o] = "late"
  /\ obj' = [obj EXCEPT ![o] = "there"]
  /\ UNCHANGED <<pred, call, cap, reg, proc, art, data, user, job, sys>>

\* A crash; or a shutdown, whose calls and supervised children end first.
Crash ==
  /\ sys.crashes < MaxCrashes
  /\ sys' = [sys EXCEPT !.boot = TRUE, !.crashes = @ + 1]
  /\ call' = [c \in Calls |-> NoCall]
  /\ cap' = None
  /\ reg' = [p \in Keys |-> None]
  /\ user' = NoUser
  /\ job' = [w \in Workers |-> NoJob]
  /\ UNCHANGED <<pred, proc, art, obj, data>>

Resumable(p) == pred[p].stopped /\ pred[p].publishing /\ ~pred[p].cancel

\* recover_predictions, before requests are served.
Recover(p) ==
  /\ sys.boot
  /\ Exists(p) /\ ~Ended(p)
  /\ proc' = [proc EXCEPT ![p] = "none"]
  /\ IF Resumable(p) THEN obj[p] = "there" /\ AdoptTx(p) ELSE FinishTx(p, FALSE)
  /\ UNCHANGED <<call, cap, reg, obj, data, user, job, sys>>

Serve ==
  /\ sys.boot
  /\ \A p \in Keys : Exists(p) => Ended(p) \/ (Resumable(p) /\ obj[p] # "there")
  /\ sys' = [sys EXCEPT !.boot = FALSE]
  /\ UNCHANGED <<pred, call, cap, reg, proc, art, obj, data, user, job>>

-----------------------------------------------------------------------------
CallNext(c) ==
  \/ \E p \in Keys : Begin(c, p)
  \/ Insert(c) \/ Register(c) \/ Prepare(c) \/ Start(c)
  \/ Release(c) \/ Wait(c) \/ StopProc(c) \/ Intent(c) \/ Put(c) \/ Publish(c)
  \/ Finish(c) \/ Return(c) \/ Poll(c) \/ Lost(c) \/ Ask(c) \/ Clean(c) \/ CleanFinish(c)
UserNext == (\E p \in Keys : UserAsk(p)) \/ UserTell \/ UserFinish
DataNext == Upload \/ UploadPut \/ DeleteData
JobNext ==
  \/ \E w \in Workers : \E o \in Owners : Read(w, o)
  \/ \E w \in Workers : Delete(w) \/ Drop(w) \/ Adopt(w) \/ Refuse(w)
ProcessNext == Crash \/ (\E p \in Keys : Recover(p)) \/ Serve

Next ==
  \/ \E c \in Calls : CallNext(c)
  \/ UserNext \/ DataNext \/ JobNext \/ ProcessNext
  \/ \E o \in Owners : Arrive(o)

Spec == Init /\ [][Next]_vars

-----------------------------------------------------------------------------
\* The capacity is only held by a call that computes.
TypeOK ==
  /\ pred \in [Keys -> Predictions]
  /\ call \in [Calls -> CallStates]
  /\ cap \in {c \in Calls : call[c].pc \notin {"idle", "insert", "poll", "clean", "cleanFinish"}}
            \cup {None}
  /\ reg \in [Keys -> Calls \cup {None}]
  /\ proc \in [Keys -> {"none", "gated", "released"}]
  /\ art \in [Owners -> Status]
  /\ obj \in [Owners -> {"none", "late", "there"}]
  /\ data \in Status
  /\ user \in [pc: {"idle", "asked", "finish"}, key: Keys \cup {None}]
  /\ job \in [Workers -> Jobs]
  /\ sys \in [boot: BOOLEAN, requests: 0..MaxRequests, faults: 0..MaxFaults, crashes: 0..MaxCrashes]

\* A row says that its process was stopped only when nothing computes for it
\* any more, whoever ended it: the call, a cancellation, its own cleanup or the
\* next start (process_stopped).
StoppedIsDead == \A p \in Keys : pred[p].stopped => proc[p] # "released"

\* At most one prediction computes, also when the stop of one is unconfirmed
\* and its call has given the capacity back (PREDICTION_RECOVERY_REQUIRED).
OneComputation == \A p, q \in Keys : proc[p] = "released" /\ proc[q] = "released" => p = q

\* The processes agree with the rows, through lost acknowledgements, unconfirmed
\* stops and restarts (_execute_prediction, recover_predictions).
OneChild == TypeOK /\ StoppedIsDead /\ OneComputation

\* A prediction that succeeded has its result in the store, and one that ended
\* otherwise leaves no artifact that could still become available, whatever
\* arrived late or was reconciled meanwhile (_finish_prediction,
\* reconcile_prediction).
ResultIsWhole ==
  \A p \in Keys :
    /\ pred[p].st = "SUCCEEDED" => art[p] = "AVAILABLE" /\ obj[p] = "there"
    /\ pred[p].st \in {"FAILED", "CANCELLED"} => art[p] \notin {"PENDING", "AVAILABLE"}

\* The dataset is available exactly with its artifact, and its object is there,
\* although an upload, the maintenance and a deletion work on it at the same time.
DataIsWhole ==
  /\ data = "AVAILABLE" <=> art[Data] = "AVAILABLE"
  /\ data = "AVAILABLE" => obj[Data] = "there"

\* What a prediction was computed from stays: a dataset is not deleted under a
\* call that passed its checks before (delete_dataset, predict_model).
DataHeld == \A p \in Keys : Exists(p) => data = "AVAILABLE"

\* A dataset is whole while it is offered and stays while it is used
\* (upload_dataset, delete_dataset, maintain, predict_model).
DatasetsAreSafe == DataIsWhole /\ DataHeld

\* What is published is there and what is given up is not offered, for results
\* and for the datasets they read.
ObjectsAreWhole == ResultIsWhole /\ DatasetsAreSafe

\* A cancellation that was accepted keeps the prediction from succeeding, up to
\* the transaction that publishes it; and only its user or the call that created
\* it cancels a prediction: the loss of a replaying call is none of its business
\* (CallCancellation).
CancelIsKept ==
  [][\A p \in Keys :
       /\ pred[p].cancel /\ pred'[p].st = "SUCCEEDED" => pred[p].st = "SUCCEEDED"
       /\ pred'[p].cancel /\ ~pred[p].cancel =>
            \/ user'.pc = "asked" /\ user'.key = p
            \/ \E c \in Calls : call[c].key = p /\ call[c].made /\ call[c].event]_vars
=============================================================================
