------------------------------ MODULE Deletion ------------------------------
(***************************************************************************)
(* The deletion of a conversation and everything that races with it        *)
(* (application/conversation_cleanup.py, ml_resources.py, ebsd_assets.py,  *)
(* asset_service.py and infrastructure/db/ml_resources.py,                 *)
(* conversation_cleanup.py; the scope of the ML service,                   *)
(* resource_application.py).                                               *)
(*                                                                         *)
(* A conversation that uses the ML service is deleted in steps: a fence on *)
(* its row, the closing of its scope in the service, the local deletion,   *)
(* the removal of its objects from the store.  Each step may be repeated,  *)
(* by another request or after a restart.  Meanwhile images are uploaded   *)
(* or produced, datasets are uploaded to the service and a turn calls it.  *)
(*                                                                         *)
(* A transaction locks the conversation row first, so it is one action.    *)
(* Calls of the store and of the service happen between transactions.      *)
(***************************************************************************)
EXTENDS Naturals, FiniteSets

CONSTANTS
  Uploaders,   \* requests that upload (or reconcile) one image with one key
  Senders,     \* requests that upload (or reconcile) one dataset with one key
  Deleters,    \* requests that delete the conversation
  Deletions,   \* identities of deletion operations
  None,
  Requests     \* bound: what the clients ask for, and how much goes wrong

Asked == {"image", "review", "turn", "dataset", "recheck", "delete", "resume",
          "crash", "fault"}
ASSUME RequestsAssumption == Requests \subseteq [Asked -> Nat]
ASSUME NamesAssumption == None \notin Deletions

VARIABLES
  conv,     \* the conversation row
  del,      \* conversation_deletion rows: they outlive the conversation
  scope,    \* the scope of the conversation in the ML service
  row,      \* asset rows
  obj,      \* objects in the store
  record,   \* cleanup records of the assets' objects
  drain,    \* the cleanup of one record
  up,       \* requests for the uploaded image
  maker,    \* the thread that stores the produced image
  turn,     \* the agent's turn
  inv,      \* its call of the ML service: an invocation row
  op,       \* the dataset's upload row (ml_resource_operation)
  send,     \* requests for the dataset
  net,      \* requests on their way to the ML service
  remote,   \* what the ML service has: the dataset and the call's job
  agent,    \* the deleters
  left      \* what may still be asked for

vars == <<conv, del, scope, row, obj, record, drain, up, maker, turn, inv, op,
          send, net, remote, agent, left>>
images == <<row, obj, record, drain, up, maker>>
datasets == <<op, send>>
calls == <<turn, inv>>
service == <<scope, net, remote>>

Uploaded == "uploaded"
Produced == "produced"
Assets == {Uploaded, Produced}

NoDeletion == [st |-> "none", got |-> "none", ver |-> 0]
NoSend == [pc |-> "idle", ver |-> 0, seen |-> 0, saw |-> "none", again |-> FALSE]
NoAgent == [pc |-> "idle", op |-> None, got |-> "none"]

Init ==
  /\ conv = [alive |-> TRUE, fence |-> None, ver |-> 0, bound |-> FALSE]
  /\ del = [d \in Deletions |-> NoDeletion]
  /\ scope = [closed |-> FALSE, said |-> [d \in Deletions |-> "NOT_FOUND"]]
  /\ row = [a \in Assets |-> "none"]
  \* the object key may already be taken by something else
  /\ obj \in {[a \in Assets |-> IF a \in taken THEN "foreign" ELSE "none"] :
                taken \in SUBSET {Produced}}
  /\ record = [a \in Assets |-> "none"]
  /\ drain = [a \in Assets |-> "idle"]
  /\ up = [u \in Uploaders |-> "idle"]
  /\ maker = "idle"
  /\ turn = "idle"
  /\ inv = "none"
  /\ op = [st |-> "none", known |-> FALSE, ver |-> 0]
  /\ send = [s \in Senders |-> NoSend]
  /\ net = {}
  /\ remote = [data |-> "none", job |-> "none"]
  /\ agent = [d \in Deleters |-> NoAgent]
  /\ left \in Requests

Ask(what) == left[what] > 0 /\ left' = [left EXCEPT ![what] = @ - 1]
Writable == conv.alive /\ conv.fence = None

(***************************************************************************)
(* Images (ebsd_assets.py, asset_service.py).                              *)
(***************************************************************************)
\* A plausible slip: the deletion does not look for uploads in progress.
InProgressNever == FALSE

\* upload_in_progress: an upload is registered until it ends, however it ends.
InProgress == \E u \in Uploaders : up[u] \in {"put", "commit"}

\* _upload, first transaction: the stable row is created or found again.
UploadImage(u) ==
  /\ up[u] = "idle"
  /\ Ask("image")
  /\ Writable
  /\ row[Uploaded] \in {"none", "PENDING"}
  /\ row' = [row EXCEPT ![Uploaded] = "PENDING"]
  /\ up' = [up EXCEPT ![u] = "put"]
  /\ UNCHANGED <<obj, record, drain, maker, conv, del, agent, datasets, calls, service>>

\* The first transaction's or the store's answer is lost: the request ends
\* with an error and the row stays PENDING.
DropImage(u) ==
  /\ up[u] = "put"
  /\ Ask("fault")
  /\ up' = [up EXCEPT ![u] = "idle"]
  /\ \E stored \in {obj[Uploaded], "own"} : obj' = [obj EXCEPT ![Uploaded] = stored]
  /\ UNCHANGED <<row, record, drain, maker, conv, del, agent, datasets, calls, service>>

\* MinioStorageService.put: an equal object under the key is not written again.
PutImage(u) ==
  /\ up[u] = "put"
  /\ obj' = [obj EXCEPT ![Uploaded] = "own"]
  /\ up' = [up EXCEPT ![u] = "commit"]
  /\ UNCHANGED <<row, record, drain, maker, conv, del, agent, left, datasets, calls, service>>

\* reconcile_upload reads the object of a PENDING row; it is not registered.
ReviewImage(u) ==
  /\ up[u] = "idle"
  /\ Ask("review")
  /\ row[Uploaded] = "PENDING"
  /\ obj[Uploaded] = "own"
  /\ up' = [up EXCEPT ![u] = "found"]
  /\ UNCHANGED <<row, obj, record, drain, maker, conv, del, agent, datasets, calls, service>>

\* Second transaction of both.
CommitImage(u) ==
  /\ up[u] \in {"commit", "found"}
  /\ up' = [up EXCEPT ![u] = "idle"]
  /\ row' = IF Writable /\ row[Uploaded] = "PENDING"
              THEN [row EXCEPT ![Uploaded] = "AVAILABLE"]
              ELSE row
  /\ UNCHANGED <<obj, record, drain, maker, conv, del, agent, left, datasets, calls, service>>

\* _create_pending: only for a running tool run, whose turn it is.
MakeImage ==
  /\ turn = "running"
  /\ maker = "idle"
  /\ row[Produced] = "none"
  /\ row' = [row EXCEPT ![Produced] = "PENDING"]
  /\ maker' = "put"
  /\ UNCHANGED <<obj, record, drain, up, conv, del, agent, left, datasets, calls, service>>

\* _finalize: the image cannot be decoded or encoded, or the store refuses.
MakeFails ==
  /\ maker = "put"
  /\ Ask("fault")
  /\ row' = [row EXCEPT ![Produced] = "FAILED"]
  /\ maker' = "idle"
  /\ UNCHANGED <<obj, record, drain, up, conv, del, agent, datasets, calls, service>>

\* put: the object is stored, or its answer is lost and it may be stored.
MakeStored ==
  /\ maker = "put"
  /\ obj[Produced] # "foreign"
  /\ obj' = [obj EXCEPT ![Produced] = "own"]
  /\ maker' = "commit"
  /\ UNCHANGED <<row, record, drain, up, conv, del, agent, left, datasets, calls, service>>

MakeUnknown ==
  /\ maker \in {"put", "commit"}
  /\ obj[Produced] # "foreign"
  /\ Ask("fault")
  /\ \E stored \in {obj[Produced], "own"} : obj' = [obj EXCEPT ![Produced] = stored]
  /\ maker' = "idle"
  /\ UNCHANGED <<row, record, drain, up, conv, del, agent, datasets, calls, service>>

\* _compensate_mismatched_object: somebody else's object is left alone.
MakeConflicts ==
  /\ maker = "put"
  /\ obj[Produced] = "foreign"
  /\ row' = [row EXCEPT ![Produced] = "ORPHANED"]
  /\ maker' = "idle"
  /\ UNCHANGED <<obj, record, drain, up, conv, del, agent, left, datasets, calls, service>>

\* _commit_available.
MakeAvailable ==
  /\ maker = "commit"
  /\ row' = IF row[Produced] \in {"PENDING", "ORPHANED"}
              THEN [row EXCEPT ![Produced] = "AVAILABLE"]
              ELSE row
  /\ maker' = "idle"
  /\ UNCHANGED <<obj, record, drain, up, conv, del, agent, left, datasets, calls, service>>

(***************************************************************************)
(* The cleanup of a record (_attempt, _persist_outcome).                   *)
(***************************************************************************)
LookObject(a) ==
  /\ record[a] = "PENDING"
  /\ drain[a] = "idle"
  /\ CASE obj[a] = "none" -> drain' = [drain EXCEPT ![a] = "gone"] /\ UNCHANGED record
       [] obj[a] = "own" -> drain' = [drain EXCEPT ![a] = "mine"] /\ UNCHANGED record
       [] OTHER -> record' = [record EXCEPT ![a] = "SAFETY_BLOCKED"] /\ UNCHANGED drain
  /\ UNCHANGED <<row, obj, up, maker, conv, del, agent, left, datasets, calls, service>>

\* storage.delete: done, and the answer may be lost; the record stays PENDING.
DeleteObject(a) ==
  /\ drain[a] = "mine"
  /\ obj' = [obj EXCEPT ![a] = "none"]
  /\ \/ drain' = [drain EXCEPT ![a] = "gone"] /\ UNCHANGED left
     \/ drain' = [drain EXCEPT ![a] = "idle"] /\ Ask("fault")
  /\ UNCHANGED <<row, record, up, maker, conv, del, agent, datasets, calls, service>>

CompleteRecord(a) ==
  /\ drain[a] = "gone"
  /\ drain' = [drain EXCEPT ![a] = "idle"]
  /\ record' = IF record[a] = "PENDING" THEN [record EXCEPT ![a] = "COMPLETED"] ELSE record
  /\ UNCHANGED <<row, obj, up, maker, conv, del, agent, left, datasets, calls, service>>

(***************************************************************************)
(* The turn, its call of the ML service, and the service.                  *)
(***************************************************************************)
StartTurn ==
  /\ turn = "idle"
  /\ Ask("turn")
  /\ Writable
  /\ turn' = "running"
  /\ UNCHANGED <<conv, del, agent, inv, images, datasets, service>>

\* SQLAlchemyInvocationRunRepository.add binds the scope in the transaction
\* that inserts the row; then the call leaves.
StartCall ==
  /\ turn = "running"
  /\ inv = "none"
  /\ Writable
  /\ inv' = "RUNNING"
  /\ conv' = [conv EXCEPT !.bound = TRUE]
  /\ net' = net \cup {"start"}
  /\ UNCHANGED <<del, agent, left, turn, scope, remote, images, datasets>>

\* The service answers that it started a job, which goes on by itself; or no
\* answer comes (reconcile_mcp, recover_mcp).
CallAnswered ==
  /\ inv = "RUNNING"
  /\ \/ remote.job # "none" /\ inv' = "SUCCEEDED" /\ UNCHANGED left
     \/ inv' = "UNKNOWN" /\ Ask("fault")
  /\ UNCHANGED <<conv, del, agent, turn, images, datasets, service>>

\* A lookup that finds the job ended; FOUND is stored with its state.
CallFound ==
  /\ inv = "UNKNOWN"
  /\ conv.alive
  /\ remote.job = "ended"
  /\ inv' = "FOUND"
  /\ UNCHANGED <<conv, del, agent, left, turn, images, datasets, service>>

\* The turn ends, or is stopped or given up after a crash; its threads have ended.
EndTurn ==
  /\ turn \in {"running", "interrupted"}
  /\ maker = "idle"
  /\ turn' = "idle"
  /\ UNCHANGED <<conv, del, agent, left, inv, images, datasets, service>>

\* A request reaches the service: require_open, then the idempotent intent.
ArriveStart ==
  /\ "start" \in net
  /\ net' = net \ {"start"}
  /\ remote' = IF ~scope.closed /\ remote.job = "none"
                 THEN [remote EXCEPT !.job = "running"] ELSE remote
  /\ UNCHANGED <<conv, del, agent, left, scope, images, datasets, calls>>

ArriveUpload ==
  /\ "upload" \in net
  /\ net' = net \ {"upload"}
  /\ remote' = IF ~scope.closed /\ remote.data = "none"
                 THEN [remote EXCEPT !.data = "PENDING"] ELSE remote
  /\ UNCHANGED <<conv, del, agent, left, scope, images, datasets, calls>>

JobEnds ==
  /\ remote.job = "running"
  /\ remote' = [remote EXCEPT !.job = "ended"]
  /\ UNCHANGED <<conv, del, agent, left, scope, net, images, datasets, calls>>

DatasetEnds ==
  /\ remote.data = "PENDING"
  /\ remote' = [remote EXCEPT !.data = "ENDED"]
  /\ UNCHANGED <<conv, del, agent, left, scope, net, images, datasets, calls>>

(***************************************************************************)
(* Dataset uploads (MLResources.upload, reconcile_upload).                 *)
(***************************************************************************)
AskUpload(s) ==
  /\ send[s].pc = "idle"
  /\ Ask("dataset")
  /\ Writable
  /\ send' = [send EXCEPT ![s] = [NoSend EXCEPT !.pc = "asked", !.ver = conv.ver]]
  /\ UNCHANGED <<conv, del, agent, op, images, calls, service>>

\* The epoch read before the request was prepared must still hold.
RecordUpload(s) ==
  /\ send[s].pc = "asked"
  /\ IF Writable /\ conv.ver = send[s].ver
       THEN /\ conv' = [conv EXCEPT !.bound = TRUE]
            /\ op' = IF op.st = "none" THEN [op EXCEPT !.st = "DISPATCHED"] ELSE op
            /\ send' = [send EXCEPT ![s].pc = IF op.st = "none" THEN "send" ELSE "read",
                                    ![s].again = op.st # "none"]
       ELSE /\ send' = [send EXCEPT ![s] = NoSend]
            /\ UNCHANGED <<conv, op>>
  /\ UNCHANGED <<del, agent, left, images, calls, service>>

\* client.upload: whatever it answers, the original upload is looked up next.
SendUpload(s) ==
  /\ send[s].pc = "send"
  /\ net' = net \cup {"upload"}
  /\ send' = [send EXCEPT ![s].pc = "read", ![s].again = FALSE]
  /\ UNCHANGED <<conv, del, agent, left, op, scope, remote, images, calls>>

\* reconcile_upload by itself: recover_uploads at the start, or the API.
Recheck(s) ==
  /\ send[s].pc = "idle"
  /\ Ask("recheck")
  /\ op.st \notin {"none", "RESOLVED"}
  /\ send' = [send EXCEPT ![s] = [NoSend EXCEPT !.pc = "read"]]
  /\ UNCHANGED <<conv, del, agent, op, images, calls, service>>

ReadUpload(s) ==
  /\ send[s].pc = "read"
  /\ send' = [send EXCEPT ![s] = IF op.st = "RESOLVED" THEN NoSend
                                 ELSE [@ EXCEPT !.pc = "look", !.seen = op.ver]]
  /\ UNCHANGED <<conv, del, agent, left, op, images, calls, service>>

LookUpload(s) ==
  /\ send[s].pc = "look"
  /\ \/ send' = [send EXCEPT ![s].pc = "adopt", ![s].saw = remote.data] /\ UNCHANGED left
     \/ send' = [send EXCEPT ![s].pc = "adopt", ![s].saw = "UNAVAILABLE"] /\ Ask("fault")
  /\ UNCHANGED <<conv, del, agent, op, images, calls, service>>

\* What the reconciliation writes: a result found is registered (which the
\* fence forbids), anything else is only noted.
Adopted(s) ==
  CASE send[s].saw = "ENDED" -> [st |-> "RESOLVED", known |-> TRUE, ver |-> op.ver + 1]
    [] send[s].saw = "PENDING" -> [st |-> "REMOTE_PENDING", known |-> TRUE, ver |-> op.ver + 1]
    [] OTHER -> [op EXCEPT !.st = IF op.known THEN @ ELSE "OUTCOME_UNKNOWN", !.ver = @ + 1]

Found(s) == send[s].saw \in {"PENDING", "ENDED"}
Adopts(s) ==
  /\ conv.alive
  /\ op.ver = send[s].seen
  /\ op.st # "RESOLVED"
  /\ Found(s) => Writable

AdoptUpload(s) ==
  /\ send[s].pc = "adopt"
  /\ op' = IF Adopts(s) THEN Adopted(s) ELSE op
  \* Only a replay that learns that its upload is pending goes on.
  /\ send' = [send EXCEPT ![s] =
                IF @.again /\ conv.alive /\ op'.st = "REMOTE_PENDING"
                  THEN [@ EXCEPT !.pc = "resume"] ELSE NoSend]
  /\ UNCHANGED <<conv, del, agent, left, images, calls, service>>

ResumeUpload(s) ==
  /\ send[s].pc = "resume"
  /\ IF Writable /\ conv.ver = send[s].ver /\ op.st # "RESOLVED"
       THEN /\ op' = [op EXCEPT !.st = "DISPATCHED", !.ver = @ + 1]
            /\ send' = [send EXCEPT ![s].pc = "send"]
       ELSE /\ send' = [send EXCEPT ![s] = NoSend]
            /\ UNCHANGED op
  /\ UNCHANGED <<conv, del, agent, left, images, calls, service>>

(***************************************************************************)
(* The deletion (MLDeletionCoordinator, ConversationCleanupService).       *)
(***************************************************************************)
\* A plausible slip: an unknown call is taken for a finished one.
IdleReported ==
  /\ turn = "idle"
  /\ row[Uploaded] # "PENDING"
  /\ op.st \in {"none", "RESOLVED"}
  /\ inv \in {"none", "SUCCEEDED", "UNKNOWN", "FOUND"}

\* assert_idle and current_activity_exists, in the caller's transaction.
Idle ==
  /\ turn = "idle"
  /\ row[Uploaded] # "PENDING"
  /\ op.st \in {"none", "RESOLVED"}
  /\ inv \in {"none", "SUCCEEDED", "FOUND"}

\* begin_delete: join the deletion under way, or start one; a conversation
\* that never used the service needs no coordination.
BeginDelete(a) ==
  /\ agent[a].pc = "idle"
  /\ Ask("delete")
  /\ conv.alive
  /\ \/ /\ conv.fence # None
        /\ agent' = [agent EXCEPT ![a] = [NoAgent EXCEPT !.pc = "look", !.op = conv.fence]]
        /\ UNCHANGED <<conv, del>>
     \/ /\ conv.fence = None /\ Idle /\ ~conv.bound
        /\ agent' = [agent EXCEPT ![a] = [NoAgent EXCEPT !.pc = "local"]]
        /\ UNCHANGED <<conv, del>>
     \/ \E d \in Deletions :
          /\ conv.fence = None /\ Idle /\ conv.bound
          /\ del[d].st = "none"
          /\ conv' = [conv EXCEPT !.fence = d, !.ver = @ + 1]
          /\ del' = [del EXCEPT ![d] = [st |-> "DELETE_PENDING", got |-> "none", ver |-> conv.ver + 1]]
          /\ agent' = [agent EXCEPT ![a] = [NoAgent EXCEPT !.pc = "look", !.op = d]]
  /\ UNCHANGED <<images, datasets, calls, service>>

\* reconcile by itself: recover at the start, or the API.
ResumeDelete(a) ==
  /\ agent[a].pc = "idle"
  /\ Ask("resume")
  /\ \E d \in Deletions :
       /\ del[d].st \in {"DELETE_PENDING", "RECONCILING"}
       /\ agent' = [agent EXCEPT ![a] = [NoAgent EXCEPT !.pc = "look", !.op = d]]
  /\ UNCHANGED <<conv, del, images, datasets, calls, service>>

LookClose(a) ==
  LET d == agent[a].op IN
  /\ agent[a].pc = "look"
  /\ \/ /\ agent' = [agent EXCEPT ![a] =
               IF scope.said[d] = "NOT_FOUND" THEN [@ EXCEPT !.pc = "close"]
               ELSE [@ EXCEPT !.pc = "fact", !.got = scope.said[d]]]
        /\ UNCHANGED left
     \/ /\ agent' = [agent EXCEPT ![a].pc = "fact", ![a].got = "UNKNOWN"]
        /\ Ask("fault")
  /\ UNCHANGED <<conv, del, images, datasets, calls, service>>

\* ResourceApplication.close_scope: the first answer to an operation stands.
Busy == ~scope.closed /\ (remote.data = "PENDING" \/ remote.job = "running")
\* A plausible slip: every request to close is decided afresh.
AnswerAfresh(d) == IF Busy THEN "BUSY" ELSE "CLOSED"

Answer(d) == IF scope.said[d] # "NOT_FOUND" THEN scope.said[d]
             ELSE IF Busy THEN "BUSY" ELSE "CLOSED"
CloseScope(a) ==
  LET d == agent[a].op IN
  /\ agent[a].pc = "close"
  /\ scope' = [closed |-> scope.closed \/ Answer(d) = "CLOSED",
               said |-> [scope.said EXCEPT ![d] = Answer(d)]]
  /\ \/ agent' = [agent EXCEPT ![a].pc = "fact", ![a].got = Answer(d)] /\ UNCHANGED left
     \/ agent' = [agent EXCEPT ![a].pc = "fact", ![a].got = "UNKNOWN"] /\ Ask("fault")
  /\ UNCHANGED <<conv, del, net, remote, images, datasets, calls>>

\* A plausible slip: any deletion of a live conversation may record its fact.
UnderFenceAlive(d) == conv.alive

\* The fence on the row is the one this deletion put up.
UnderFence(d) == conv.alive /\ conv.fence = d /\ conv.ver = del[d].ver

\* deletion_fact: under the fence of this very deletion; a closed scope is
\* never unlearned, a busy one ends the deletion and lifts the fence.
Fact(a) ==
  LET d == agent[a].op
      got == IF del[d].got = "CLOSED" THEN "CLOSED" ELSE agent[a].got IN
  /\ agent[a].pc = "fact"
  /\ IF UnderFence(d)
       THEN /\ del' = [del EXCEPT ![d].st = IF got = "BUSY" THEN "REJECTED_BUSY" ELSE "RECONCILING",
                                  ![d].got = got]
            /\ conv' = IF got = "BUSY" THEN [conv EXCEPT !.fence = None, !.ver = @ + 1] ELSE conv
            /\ agent' = [agent EXCEPT ![a] = IF got = "CLOSED" THEN [@ EXCEPT !.pc = "local"] ELSE NoAgent]
       ELSE /\ agent' = [agent EXCEPT ![a] = NoAgent]
            /\ UNCHANGED <<conv, del>>
  /\ UNCHANGED <<left, images, datasets, calls, service>>

\* require_closed_scope, or the guards of the uncoordinated path.
MayDelete(d) ==
  IF d = None THEN conv.fence = None /\ ~conv.bound
  ELSE UnderFence(d) /\ del[d].got = "CLOSED"

\* _delete_local: one transaction (a refusal leaves nothing behind).
DeleteLocal(a) ==
  LET d == agent[a].op IN
  /\ agent[a].pc = "local"
  /\ agent' = [agent EXCEPT ![a] = NoAgent]
  /\ IF conv.alive /\ MayDelete(d) /\ ~InProgress /\ Idle
       THEN /\ conv' = [conv EXCEPT !.alive = FALSE]
            /\ record' = [b \in Assets |-> IF row[b] # "none" THEN "PENDING" ELSE record[b]]
            /\ row' = [b \in Assets |-> "none"]
            /\ del' = IF d = None THEN del ELSE [del EXCEPT ![d].st = "COMPLETED"]
       ELSE UNCHANGED <<conv, record, row, del>>
  /\ UNCHANGED <<obj, drain, up, maker, left, datasets, calls, service>>

(***************************************************************************)
(* The process dies with its threads and its guard; at the next start      *)
(* recover_stale orphans what an earlier process left PENDING, unless the  *)
(* database refuses; running rows are interrupted, calls become unknown.   *)
(***************************************************************************)
Crash ==
  /\ Ask("crash")
  /\ up' = [u \in Uploaders |-> "idle"]
  /\ maker' = "idle"
  /\ drain' = [b \in Assets |-> "idle"]
  /\ send' = [s \in Senders |-> NoSend]
  /\ agent' = [a \in Deleters |-> NoAgent]
  /\ turn' = IF turn = "running" THEN "interrupted" ELSE turn
  /\ inv' = IF inv = "RUNNING" THEN "UNKNOWN" ELSE inv
  /\ row' \in {row, [row EXCEPT ![Produced] = IF @ = "PENDING" THEN "ORPHANED" ELSE @]}
  /\ UNCHANGED <<conv, del, obj, record, op, service>>

Next ==
  \/ \E u \in Uploaders :
       UploadImage(u) \/ DropImage(u) \/ PutImage(u) \/ ReviewImage(u) \/ CommitImage(u)
  \/ MakeImage \/ MakeFails \/ MakeStored \/ MakeUnknown \/ MakeConflicts \/ MakeAvailable
  \/ \E a \in Assets : LookObject(a) \/ DeleteObject(a) \/ CompleteRecord(a)
  \/ StartTurn \/ StartCall \/ CallAnswered \/ CallFound \/ EndTurn
  \/ ArriveStart \/ ArriveUpload \/ JobEnds \/ DatasetEnds
  \/ \E s \in Senders :
       \/ AskUpload(s) \/ RecordUpload(s) \/ SendUpload(s) \/ Recheck(s)
       \/ ReadUpload(s) \/ LookUpload(s) \/ AdoptUpload(s) \/ ResumeUpload(s)
  \/ \E a \in Deleters :
       \/ BeginDelete(a) \/ ResumeDelete(a) \/ LookClose(a) \/ CloseScope(a)
       \/ Fact(a) \/ DeleteLocal(a)
  \/ Crash

Spec == Init /\ [][Next]_vars

(***************************************************************************)
(* Properties.                                                             *)
(***************************************************************************)
TypeOK ==
  /\ conv \in [alive : BOOLEAN, fence : Deletions \cup {None}, ver : Nat, bound : BOOLEAN]
  /\ del \in [Deletions ->
       [st : {"none", "DELETE_PENDING", "RECONCILING", "REJECTED_BUSY", "COMPLETED"},
        got : {"none", "UNKNOWN", "BUSY", "CLOSED"}, ver : Nat]]
  /\ scope \in [closed : BOOLEAN, said : [Deletions -> {"NOT_FOUND", "BUSY", "CLOSED"}]]
  /\ row \in [Assets -> {"none", "PENDING", "AVAILABLE", "FAILED", "ORPHANED"}]
  /\ obj \in [Assets -> {"none", "own", "foreign"}]
  /\ record \in [Assets -> {"none", "PENDING", "COMPLETED", "SAFETY_BLOCKED"}]
  /\ op \in [st : {"none", "DISPATCHED", "OUTCOME_UNKNOWN", "REMOTE_PENDING", "RESOLVED"},
             known : BOOLEAN, ver : Nat]
  /\ remote \in [data : {"none", "PENDING", "ENDED"}, job : {"none", "running", "ended"}]

\* Every object of ours has a row or a cleanup record that will still look for
\* it, whatever uploads, crashes and repeated deletions happen; an image that
\* is announced as available is in the store.
ObjectsAreTracked ==
  /\ TypeOK
  /\ \A a \in Assets :
       /\ obj[a] = "own" => row[a] # "none" \/ record[a] = "PENDING"
       /\ row[a] = "AVAILABLE" => obj[a] = "own"

\* The platform and the service agree about every decided deletion, and the
\* service never closes the scope of a conversation that can still be written.
DecisionIsShared ==
  /\ \A d \in Deletions :
       /\ del[d].st = "REJECTED_BUSY" => scope.said[d] = "BUSY"
       /\ del[d].st = "COMPLETED" => scope.said[d] = "CLOSED"
  /\ scope.closed => ~Writable
  /\ ~conv.alive /\ conv.bound => scope.closed

\* Nothing starts in the ML service for a conversation that is fenced or
\* deleted: no request sent before the fence is still waiting to have an effect.
\* What is not ours is never removed, and a decided deletion and a settled
\* cleanup record stay as they are.
DecidedStays ==
  [][/\ ~Writable => \/ remote' = remote
                     \/ remote.job = "running" /\ remote'.job = "ended" /\ remote'.data = remote.data
     /\ \A a \in Assets :
          /\ obj[a] = "foreign" => obj'[a] = "foreign"
          /\ record[a] \in {"COMPLETED", "SAFETY_BLOCKED"} => record'[a] = record[a]
     /\ \A d \in Deletions :
          del[d].st \in {"REJECTED_BUSY", "COMPLETED"} => del'[d] = del[d]]_vars
=============================================================================
