------------------------------ MODULE ManagedRun ------------------------------
(***************************************************************************)
(* One managed task: its rows (task, tool_run with the committed           *)
(* tool_result, invocation_run) and the calls that compute it: the first   *)
(* call of the tool, then the retries of a failed one, each a tool call of *)
(* an agent run of its own (agent_tools.py, tool_execution.py,             *)
(* result_service.py and the managed half of tool_invocations.py).         *)
(*                                                                         *)
(* The conversation admits one active run at a time.  Stopping a run ends  *)
(* it for the conversation at once, but not the thread that drives its     *)
(* call: that one goes on, beside the calls of the next runs.              *)
(*                                                                         *)
(* A database transaction is one action.  It may fail, and then it may     *)
(* have been applied all the same; where the code reads the rows again to  *)
(* find out, that may succeed or fail in turn.  Batches have a module of   *)
(* their own.  The computation is a request to the GPU runtime, which goes *)
(* on with it when nobody waits for the answer any more.                   *)
(***************************************************************************)
EXTENDS GpuRuntime

CONSTANTS
  MaxFaults,   \* bound: failed database transactions
  MaxStops,    \* bound: calls that the user stops
  MaxCrashes   \* bound: process exits

ASSUME ManagedAssumption ==
  /\ MaxCalls \in Nat \ {0}
  /\ MaxFaults \in Nat /\ MaxStops \in Nat /\ MaxCrashes \in Nat

VARIABLES
  db,      \* the rows: task, run (by attempt), inv (by call)
  call,    \* the agent's record of each call
  w,       \* the thread that drives a dispatched call
  sys      \* bounds

vars == <<db, call, w, sys, req, sends>>

Calls == 1..MaxCalls
None == 0   \* no call, no attempt, no selected result
MaxTries == 3   \* attempts of the output and of the result transaction

\* Task: the selected attempt and the selected result, which is named by the
\* attempt that it belongs to.
Tasks == [st: {"none", "READY", "RUNNING"} \cup Outcomes,
          run: Attempts \cup {None}, res: Attempts \cup {None}]
\* Task.__post_init__: no row is built that its own checks refuse.
WholeTask(t) == t.res # None => t.run # None
NoTask == [st |-> "none", run |-> None, res |-> None]

\* ToolRun: the call it was made for, its recorded output, its ToolResult; cut
\* when it ended as PROCESS_INTERRUPTED.
Runs == [st: {"none", "PENDING", "RUNNING"} \cup Outcomes, call: Calls \cup {None},
         out: Outcomes \cup {"none"}, res: Outcomes \cup {"none"}, cut: BOOLEAN]
\* ToolRun.__post_init__ and the checks of the table.
WholeRun(r) == r.st = "PENDING" => r.out = "none" /\ r.res = "none"
NoRun == [st |-> "none", call |-> None, out |-> "none", res |-> "none", cut |-> FALSE]

\* InvocationRun: the attempt it names, and dispatch_started_at.
Invocations ==
  [st: {"none", "PENDING", "RUNNING", "SUCCEEDED", "FAILED", "DENIED", "OUTCOME_UNKNOWN"},
   run: Attempts \cup {None}, sent: BOOLEAN]
NoInvocation == [st |-> "none", run |-> None, sent |-> FALSE]

\* The agent's record: a FAILED observation that may be retried, or "closed"
\* for one that may not; over: the run ended without an observation.
Observed == Outcomes \cup {"closed"}
CallStates == [st: {"none", "prep", "fenced", "over"}, stopped: BOOLEAN,
               obs: Observed \cup {"none", "unknown"}]
NoCall == [st |-> "none", stopped |-> FALSE, obs |-> "none"]

WorkPc == {"idle", "claim", "mark", "create", "start", "invoke", "wait", "record", "assets",
           "assetfail", "result", "final", "failrun", "select", "finfail", "finunk",
           "end", "lost"}
Idle == [pc |-> "idle", try |-> 1, out |-> "none"]
Workers == [pc: WorkPc, try: 1..MaxTries, out: Outcomes \cup {"none"}]

Init ==
  /\ db = [task |-> NoTask, run |-> [a \in Attempts |-> NoRun],
           inv |-> [c \in Calls |-> NoInvocation]]
  /\ call = [c \in Calls |-> NoCall]
  /\ w = [c \in Calls |-> Idle]
  /\ GpuInit
  /\ sys = [faults |-> 0, crashes |-> 0]

-----------------------------------------------------------------------------
(* Rows *)

Task == db.task
Run(a) == db.run[a]
Inv(c) == db.inv[c]

Made == {a \in Attempts : Run(a).st # "none"}
Active == {a \in Attempts : Run(a).st \in {"PENDING", "RUNNING"}}
Latest == IF Made = {} THEN None ELSE CHOOSE a \in Made : \A b \in Made : b <= a

\* The attempt of a call.
Own(c) == IF \E a \in Made : Run(a).call = c
            THEN CHOOSE a \in Made : Run(a).call = c ELSE None

Fault == sys.faults < MaxFaults /\ sys' = [sys EXCEPT !.faults = @ + 1]

Go(c, pc) == [w EXCEPT ![c] = [Idle EXCEPT !.pc = pc]]
\* The same, with the output in hand.
Hold(c, pc) == [w EXCEPT ![c].pc = pc, ![c].try = 1]
At(c, pc) == w[c].pc = pc

\* A transaction of the thread of c that writes new.
Tx(c, new, next, broken) ==
  \/ db' = new /\ w' = next /\ sys' = sys
  \/ Fault /\ db' \in {db, new} /\ w' = broken

\* The same, when a failure reads the rows again: what was applied is found.
Reread(c, new, next, broken) ==
  \/ Tx(c, new, next, broken)
  \/ Fault /\ db' = new /\ w' = next

\* The same, when what was not applied is repeated.
Repeated(c, new, next, broken) ==
  \/ Reread(c, new, next, broken)
  \/ w[c].try < MaxTries /\ Fault /\ db' = db /\ w' = [w EXCEPT ![c].try = @ + 1]

-----------------------------------------------------------------------------
(* The agent: submission, preparation, fence, stop *)

Prep(c) == call[c].st = "prep" /\ ~call[c].stopped
Over(c) == [call EXCEPT ![c].st = "over"]

\* The conversation admits a new run when the earlier ones have ended.
Ended(c) == call[c].st = "over" \/ call[c].obs \in Observed \/ call[c].stopped

\* A retry is offered for a failed call.
Submit(c) ==
  /\ call[c].st = "none"
  /\ \A d \in Calls : d < c => call[d].st # "none" /\ Ended(d)
  /\ c > 1 => \E d \in Calls : call[d].obs = "FAILED"
  /\ call' = [call EXCEPT ![c].st = "prep"]
  /\ UNCHANGED <<db, w, sys, gpuVars>>

\* A transaction of the preparation, which is replayed when the run is resumed.
PrepTx(c, new) ==
  \/ db' = new /\ sys' = sys /\ call' = call
  \/ Fault /\ db' \in {db, new} /\ call' \in {call, Over(c)}

\* _save_revision: the task of the first call, with complete input.
Resolve(c) ==
  /\ Prep(c) /\ c = 1 /\ Task.st = "none"
  /\ PrepTx(c, [db EXCEPT !.task.st = "READY"])
  /\ UNCHANGED <<w, gpuVars>>

\* Slip: a task that succeeded may be computed once more.
RetryableEver(c) == Active = {} /\ Task.st \in Outcomes
\* The task ended short of a success, no attempt is active, and the selection
\* is that of a failed attempt or of its result.
Retryable(c) ==
  /\ Task.st \in {"FAILED", "PARTIALLY_SUCCEEDED"}
  /\ Active = {}
  /\ \/ Task.run = None /\ Task.res = None /\ Made = {} /\ Task.st = "FAILED"
     \/ /\ Task.st = "FAILED" /\ Task.run # None /\ Task.res = None
        /\ Run(Task.run).st = "FAILED" /\ Run(Task.run).res = "none"
     \/ /\ Task.res # None /\ Task.res = Task.run
        /\ Run(Task.run).st = Task.st /\ Run(Task.run).res = Task.st

Reserved(c) ==
  [db EXCEPT !.task.st = "RUNNING",
             !.run[Latest + 1] = [NoRun EXCEPT !.st = "PENDING", !.call = c]]

\* reserve_retry_attempt: once per idempotency key.
Reserve(c) ==
  /\ Prep(c) /\ c > 1 /\ Own(c) = None
  /\ IF Retryable(c) THEN PrepTx(c, Reserved(c))
     ELSE call' = Over(c) /\ UNCHANGED <<db, sys>>
  /\ UNCHANGED <<w, gpuVars>>

\* execute_managed and execute_managed_retry, deferred: the invocation row.
Insert(c) ==
  /\ Prep(c) /\ Inv(c).st = "none"
  /\ IF c = 1 THEN Task.st # "none" ELSE Own(c) # None
  /\ PrepTx(c, [db EXCEPT !.inv[c] = [NoInvocation EXCEPT !.st = "PENDING",
                                                          !.run = IF c = 1 THEN None ELSE Own(c)]])
  /\ UNCHANGED <<w, gpuVars>>

\* The dispatch fence, then the thread.
Fence(c) ==
  /\ Prep(c) /\ Inv(c).st # "none"
  /\ call' = [call EXCEPT ![c].st = "fenced"]
  /\ w' = Go(c, "claim")
  /\ UNCHANGED <<db, sys, gpuVars>>

\* store.stop: what was not fenced ends here, a thread goes on.
Stop(c) ==
  /\ call[c].st \in {"prep", "fenced"} /\ ~call[c].stopped
  /\ call[c].obs \in {"none", "unknown"}
  /\ Cardinality({d \in Calls : call[d].stopped}) < MaxStops
  /\ call' = [call EXCEPT ![c].stopped = TRUE,
                          ![c].st = IF @ = "prep" THEN "over" ELSE @]
  /\ UNCHANGED <<db, w, sys, gpuVars>>

\* Its second transaction, for a call that was not fenced.
StopClose(c) ==
  /\ call[c].stopped /\ call[c].st = "over" /\ Inv(c).st = "PENDING"
  /\ db' = [db EXCEPT !.inv[c].st = "FAILED"]
  /\ UNCHANGED <<call, w, sys, gpuVars>>

-----------------------------------------------------------------------------
(* The thread: _drive_managed, _dispatch_managed, _dispatch_managed_retry *)

Claim(c) ==
  /\ At(c, "claim")
  /\ IF Inv(c).st # "PENDING" THEN w' = Go(c, "end") /\ UNCHANGED <<db, sys>>
     ELSE \/ Tx(c, [db EXCEPT !.inv[c].st = "RUNNING"], Go(c, "mark"), Go(c, "lost"))
          \/ Tx(c, [db EXCEPT !.inv[c].st = "DENIED"], Go(c, "end"), Go(c, "lost"))
  /\ UNCHANGED <<call, gpuVars>>

\* dispatch_started_at; its failure is not looked into.
Mark(c) ==
  /\ At(c, "mark")
  /\ IF Inv(c).st # "RUNNING" THEN w' = Go(c, "end") /\ UNCHANGED <<db, sys>>
     ELSE Tx(c, [db EXCEPT !.inv[c].sent = TRUE],
             Go(c, IF c = 1 THEN "create" ELSE "start"), Go(c, "lost"))
  /\ UNCHANGED <<call, gpuVars>>

\* _create_initial_pending_attempt.  A stopped run may not set a task RUNNING.
Create(c) ==
  /\ At(c, "create")
  /\ \/ /\ Task.st = "READY" /\ Made = {} /\ ~call[c].stopped
        /\ Reread(c, [db EXCEPT !.task.st = "RUNNING",
                                !.run[1] = [NoRun EXCEPT !.st = "PENDING", !.call = c]],
                  Go(c, "start"), Go(c, "finunk"))
     \/ w' = Go(c, "finfail") /\ UNCHANGED <<db, sys>>   \* refused, not authorized
  /\ UNCHANGED <<call, gpuVars>>

\* _start_pending_attempt: an attempt that has already started is not invoked.
Startable(c) == Run(Own(c)).st = "PENDING" /\ Task.st = "RUNNING"

\* execute_reserved_retry, and the second half of a first call.
StartRun(c) ==
  /\ At(c, "start")
  /\ IF Startable(c)
       THEN Reread(c, [db EXCEPT !.run[Own(c)].st = "RUNNING"], Go(c, "invoke"), Go(c, "finunk"))
     ELSE w' = Go(c, "finfail") /\ UNCHANGED <<db, sys>>
  /\ UNCHANGED <<call, gpuVars>>

\* Slip: an error whose code is not known to leave the outcome open.
LostIsFailure(c) == Go(c, "finfail")
\* A request that was not answered, or not with a valid answer to it, leaves
\* the outcome open.
LostAnswer(c) == Go(c, "finunk")

\* The request of an attempt.  A refused connection is a definite failure; when
\* the time of the call is spent nothing is sent, and the outcome is open.
Send(c) ==
  /\ At(c, "invoke")
  /\ \/ req' = [req EXCEPT ![Own(c)] = "way"] /\ w' = Go(c, "wait")
     \/ UNCHANGED req /\ w' \in {Go(c, "failrun"), LostAnswer(c)}
  /\ UNCHANGED <<db, call, sys, sends>>

\* An output that passes the checks of its contents, an error the runtime is
\* sure of, or what the client makes nothing of.
Receive(c) ==
  /\ At(c, "wait") /\ req[Own(c)] \in Replies
  /\ \/ /\ req[Own(c)] \in Outcomes
        /\ w' = [Go(c, "record") EXCEPT ![c].out = req[Own(c)]]
     \/ req[Own(c)] = "error" /\ w' = Go(c, "failrun")
     \/ w' = LostAnswer(c)
  /\ req' = [req EXCEPT ![Own(c)] = "gone"]
  /\ UNCHANGED <<db, call, sys, sends>>

\* The time is up, or the connection breaks; the runtime does not notice.
GiveUp(c) ==
  /\ At(c, "wait") /\ req[Own(c)] \notin Replies
  /\ w' = LostAnswer(c)
  /\ UNCHANGED <<db, call, sys, gpuVars>>

Record(c) ==
  /\ At(c, "record")
  /\ IF Run(Own(c)).st # "RUNNING" THEN w' = Go(c, "finfail") /\ UNCHANGED <<db, sys>>
     ELSE Repeated(c, [db EXCEPT !.run[Own(c)].out = w[c].out], Hold(c, "assets"), Go(c, "finunk"))
  /\ UNCHANGED <<call, gpuVars>>

\* create_from_output, see Assets.  What it cannot vouch for stays open.
SaveAssets(c) ==
  /\ At(c, "assets")
  /\ w' \in {Hold(c, "result"), Go(c, "finunk"), Go(c, "assetfail")}
  /\ UNCHANGED <<db, call, sys, gpuVars>>

\* What failed for good: the attempt, and the task that selects it.
Failed(a) == [db EXCEPT !.run[a].st = "FAILED", !.task = [st |-> "FAILED", run |-> a, res |-> None]]

AssetFail(c) ==
  /\ At(c, "assetfail")
  /\ IF Task.st = "RUNNING" /\ Run(Own(c)).st = "RUNNING"
       THEN Tx(c, Failed(Own(c)), Go(c, "finfail"), Go(c, "finunk"))
     ELSE w' = Go(c, "finfail") /\ UNCHANGED <<db, sys>>
  /\ UNCHANGED <<call, gpuVars>>

\* _require_initial_selection_empty, _validate_retry_selection.
Selectable(c) ==
  /\ Task.st = "RUNNING" /\ Run(Own(c)).st = "RUNNING" /\ Run(Own(c)).out = w[c].out
  /\ IF c = 1 THEN Task.run = None /\ Task.res = None
     ELSE /\ Active = {Own(c)} /\ Own(c) = Latest
          /\ Task.run # None /\ Task.run < Own(c)
          /\ IF Task.res = None
               THEN Run(Task.run).st = "FAILED" /\ Run(Task.run).res = "none"
             ELSE Task.res = Task.run /\ Run(Task.run).res = Run(Task.run).st

\* Slip: the result is linked to the task, the attempt is left running.
ResultAlone(a, out) == [db EXCEPT !.run[a].res = out, !.task = [st |-> out, run |-> a, res |-> a]]
\* The result, the attempt and the task, with the selection, in one transaction.
Committed(a, out) ==
  [db EXCEPT !.run[a].st = out, !.run[a].res = out, !.task = [st |-> out, run |-> a, res |-> a]]

Result(c) ==
  /\ At(c, "result")
  /\ IF Selectable(c)
       THEN Repeated(c, Committed(Own(c), w[c].out), Go(c, "final"), Go(c, "finunk"))
     ELSE w' = Go(c, "finfail") /\ UNCHANGED <<db, sys>>
  /\ UNCHANGED <<call, gpuVars>>

\* _persist_runtime_failure, then _select_failed_execution.
FailRun(c) ==
  /\ At(c, "failrun")
  /\ IF Run(Own(c)).st # "RUNNING" THEN w' = Go(c, "finfail") /\ UNCHANGED <<db, sys>>
     ELSE Reread(c, [db EXCEPT !.run[Own(c)].st = "FAILED"], Go(c, "select"), Go(c, "finunk"))
  /\ UNCHANGED <<call, gpuVars>>

Select(c) ==
  /\ At(c, "select")
  /\ IF Task.st # "RUNNING" THEN w' = Go(c, "finfail") /\ UNCHANGED <<db, sys>>
     ELSE Tx(c, Failed(Own(c)), Go(c, "finfail"), Go(c, "finunk"))
  /\ UNCHANGED <<call, gpuVars>>

\* Slip: the status of the task is used for the invocation.
StatusOfTask(failed) == IF failed THEN "FAILED" ELSE "PARTIALLY_SUCCEEDED"
Status(failed) == IF failed THEN "FAILED" ELSE "SUCCEEDED"

\* The invocation takes the status of the result the task selects; a retry
\* whose attempt is not selected is said to have persisted nothing.
Final(c) ==
  /\ At(c, "final")
  /\ IF Inv(c).st # "RUNNING" THEN w' = Go(c, "end") /\ UNCHANGED <<db, sys>>
     ELSE LET st == IF c = 1 THEN Status(Run(Task.res).res = "FAILED")
                    ELSE Status(Task.run # Own(c) \/ Task.st = "FAILED")
          IN  Tx(c, [db EXCEPT !.inv[c].st = st,
                               !.inv[c].run = IF c = 1 THEN Task.run ELSE @],
                 Go(c, "end"), Go(c, "lost"))
  /\ UNCHANGED <<call, gpuVars>>

\* _finalize_managed_failure: the latest attempt of the task decides.
FailedStatus(c) ==
  Status(Latest = None \/ Run(Latest).res \in {"none", "FAILED"})

FinFail(c) ==
  /\ At(c, "finfail")
  /\ IF Inv(c).st # "RUNNING" THEN w' = Go(c, "end") /\ UNCHANGED <<db, sys>>
     ELSE Tx(c, [db EXCEPT !.inv[c].st = FailedStatus(c), !.inv[c].run = Latest],
             Go(c, "end"), Go(c, "lost"))
  /\ UNCHANGED <<call, gpuVars>>

\* _finalize_unknown.
FinUnknown(c) ==
  /\ At(c, "finunk")
  /\ IF Inv(c).st # "RUNNING" THEN w' = Go(c, "end") /\ UNCHANGED <<db, sys>>
     ELSE Tx(c, [db EXCEPT !.inv[c].st = "OUTCOME_UNKNOWN"], Go(c, "end"), Go(c, "lost"))
  /\ UNCHANGED <<call, gpuVars>>

-----------------------------------------------------------------------------
(* The observation: repair, and complete() of the agent runtime *)

\* Slip: whatever the task selects is taken.
MismatchIgnored(c) == FALSE
\* The result that the task selects, unless the invocation names another one.
Mismatch(c) == Task.res # None /\ Inv(c).run # None /\ Inv(c).run # Task.res

\* The task failed because its latest attempt was interrupted.
Cut == Latest # None /\ Run(Latest).cut

\* What repair reads; it brings an open invocation row up to the result.
Repaired(c) ==
  IF Task.res # None
    THEN [obs |-> Run(Task.res).res,
          db |-> IF Inv(c).st \in {"RUNNING", "OUTCOME_UNKNOWN"}
                   THEN [db EXCEPT !.inv[c].st = Status(Run(Task.res).res = "FAILED"),
                                   !.inv[c].run = Task.res]
                 ELSE db]
  ELSE [obs |-> CASE Inv(c).st = "OUTCOME_UNKNOWN" -> "unknown"
                  [] Inv(c).st = "FAILED" ->
                       IF Task.st = "FAILED" /\ ~Cut THEN "FAILED" ELSE "closed"
                  [] OTHER -> "none",
        db |-> db]

\* Without an observation a database error leaves the outcome open, any other
\* error closes the call (fail_execution).
Observation(c) ==
  IF Repaired(c).obs # "none" THEN Repaired(c).obs
  ELSE IF At(c, "lost") THEN "unknown" ELSE "closed"

\* The thread is done: its call gets an observation.  A result of another
\* attempt is not taken for it, and ends the run.
Observe(c) ==
  /\ w[c].pc \in {"end", "lost"}
  /\ w' = [w EXCEPT ![c] = Idle]
  /\ IF call[c].obs \in Observed \/ Mismatch(c)
       THEN /\ call' = IF call[c].obs \in Observed THEN call ELSE Over(c)
            /\ UNCHANGED <<db, sys>>
     ELSE \/ /\ db' = Repaired(c).db /\ sys' = sys
             /\ call' = [call EXCEPT ![c].obs = Observation(c)]
          \/ Fault /\ db' \in {db, Repaired(c).db} /\ call' = call
  /\ UNCHANGED gpuVars

\* A resumed or recovered run, whose thread is gone, looks again; without an
\* observation it stays as it is.
Resume(c) ==
  /\ call[c].st = "fenced" /\ ~call[c].stopped /\ At(c, "idle")
  /\ call[c].obs \in {"none", "unknown"}
  /\ ~Mismatch(c) /\ Repaired(c).obs # "none"
  /\ \/ /\ db' = Repaired(c).db /\ sys' = sys
        /\ call' = [call EXCEPT ![c].obs = Repaired(c).obs]
     \/ Fault /\ db' \in {db, Repaired(c).db} /\ call' = call
  /\ UNCHANGED <<w, gpuVars>>

\* recover_stale: attempts of an earlier process are failed, and their task with
\* them, which keeps its selection.
Interrupted ==
  [db EXCEPT
     !.run = [a \in Attempts |->
                IF a \in Active THEN [Run(a) EXCEPT !.st = "FAILED", !.cut = TRUE] ELSE Run(a)],
     !.task.st = IF Active # {} /\ @ \in {"READY", "RUNNING"} THEN "FAILED" ELSE @]

\* A process exit and the start of the next one, which goes on without this
\* recovery when the database refuses it.
Crash ==
  /\ sys.crashes < MaxCrashes
  /\ w' = [c \in Calls |-> Idle]
  /\ \/ db' = Interrupted /\ sys' = [sys EXCEPT !.crashes = @ + 1]
     \/ /\ sys.faults < MaxFaults /\ db' = db
        /\ sys' = [sys EXCEPT !.crashes = @ + 1, !.faults = @ + 1]
  /\ req' = [a \in Attempts |-> IF req[a] \in Replies THEN "gone" ELSE req[a]]
  /\ UNCHANGED <<call, sends>>

-----------------------------------------------------------------------------
Agent(c) ==
  \/ Submit(c) \/ Resolve(c) \/ Reserve(c) \/ Insert(c) \/ Fence(c)
  \/ Stop(c) \/ StopClose(c) \/ Observe(c) \/ Resume(c)
Thread(c) ==
  \/ Claim(c) \/ Mark(c) \/ Create(c) \/ StartRun(c) \/ Send(c) \/ Receive(c)
  \/ GiveUp(c) \/ Record(c) \/ SaveAssets(c) \/ AssetFail(c) \/ Result(c) \/ FailRun(c) \/ Select(c)
  \/ Final(c) \/ FinFail(c) \/ FinUnknown(c)

\* The thread of an attempt waits for its answer.
Heard(a) == \E c \in Calls : At(c, "wait") /\ Own(c) = a
Serve(a) == Start(a) \/ Refuse(a, Heard(a)) \/ Finish(a, Heard(a))
Runtime == (Exit \/ \E a \in Attempts : Serve(a)) /\ UNCHANGED <<db, call, w, sys>>

Next == Crash \/ Runtime \/ \E c \in Calls : Agent(c) \/ Thread(c)

Spec == Init /\ [][Next]_vars

-----------------------------------------------------------------------------
TypeOK ==
  /\ db \in [task: Tasks, run: [Attempts -> Runs], inv: [Calls -> Invocations]]
  /\ WholeTask(Task) /\ \A a \in Attempts : WholeRun(Run(a))
  /\ call \in [Calls -> CallStates]
  /\ w \in [Calls -> Workers]
  /\ req \in [Attempts -> Requests]
  /\ sends \in [Attempts -> Nat]
  /\ sys \in [faults: 0..MaxFaults, crashes: 0..MaxCrashes]

\* What the task selects is whole: a result and the attempt that made it, both
\* with the status the task ended with; a result is never found without its
\* terminal attempt (_commit_result_once, _terminalize_tool_run_and_select_result).
SelectionIsWhole ==
  /\ Task.res # None => Task.run = Task.res /\ Run(Task.res).res # "none"
  /\ Task.st \in Outcomes /\ ~Cut => Task.run # None /\ Run(Task.run).st = Task.st
  /\ Cut => Task.st = "FAILED" /\ Task.run < Latest
  /\ \A a \in Attempts : Run(a).res # "none" => Run(a).st = Run(a).res /\ Run(a).out = Run(a).res

\* At most one attempt is in progress; it is the latest one, its task is
\* RUNNING, and no later attempt is selected (reserve_retry_attempt).
OneActive ==
  /\ Cardinality(Active) <= 1
  /\ \A a \in Active : Task.st = "RUNNING" /\ a = Latest /\ Task.run < a
  /\ \A c \in Calls : Cardinality({a \in Made : Run(a).call = c}) <= 1

\* An attempt is computed at most once, after its call was marked and started,
\* over stops, crashes, replays and lost transactions (_start_pending_attempt).
SentOnce ==
  \A a \in Attempts : sends[a] > 0 =>
    sends[a] = 1 /\ Inv(Run(a).call).sent /\ Run(a).st \notin {"none", "PENDING"}

\* Two attempts never compute at the same time, although a restart may offer the
\* next one while the runtime still works on the one before (_execute).
OneComputes == Cardinality(Computing) <= 1

\* No computation runs twice, neither in one attempt nor in two of them
\* (reserve_retry_attempt, _start_pending_attempt, _execute).
ComputedOnce == TypeOK /\ OneActive /\ SentOnce /\ OneComputes

\* As long as an attempt was sent and its outcome is open, or its request is on
\* its way or computing, nothing reports its call as failed, neither the
\* invocation row nor the observation (architecture notes: no definite failure
\* for a dispatched operation without an answer).
NoFalseFailure ==
  \A c \in Calls :
    (Inv(c).st = "FAILED" \/ call[c].obs \in {"FAILED", "closed"}) /\ Own(c) # None
      => /\ sends[Own(c)] = 0 \/ (Run(Own(c)).st # "RUNNING" /\ ~Run(Own(c)).cut)
         /\ ~Pending(Own(c))

\* A call that was not stopped reports its own attempt, and reports it
\* correctly: not the older result that the task still selects, and not the
\* attempt of another call (_finalize_managed_failure, repair).
OwnOutcome ==
  \A c \in Calls : ~call[c].stopped =>
    /\ Inv(c).run # None => Inv(c).run = Own(c)
    /\ Own(c) # None => CASE Inv(c).st = "SUCCEEDED" -> Run(Own(c)).res \in Successes
                          [] Inv(c).st = "FAILED" -> Run(Own(c)).res \notin Successes
                          [] OTHER -> TRUE
    /\ call[c].obs \in Successes =>
         Own(c) # None /\ Run(Own(c)).res = call[c].obs
    /\ call[c].obs = "FAILED" /\ Own(c) # None => Run(Own(c)).st = "FAILED"

\* Behind a final observation no invocation row is left open, whatever was lost
\* while it was written (complete, repair, fail_execution).
NothingOpen ==
  \A c \in Calls : call[c].obs \in Observed /\ At(c, "idle") =>
    Inv(c).st \notin {"RUNNING", "OUTCOME_UNKNOWN"}

\* An observation is final exactly when the outcome behind it is, and it is of
\* that outcome.
OutcomeIsSettled == NoFalseFailure /\ OwnOutcome /\ NothingOpen

\* What has ended stays as it ended, and the selection only moves on to a later
\* attempt: a slow thread of a stopped call does not undo the retry.
TerminalIsKept ==
  [][/\ \A a \in Attempts :
          /\ Run(a).st \in Outcomes => db'.run[a] = Run(a)
          /\ Run(a).out # "none" => db'.run[a].out = Run(a).out
     /\ \A c \in Calls :
          Inv(c).st \in {"SUCCEEDED", "FAILED", "DENIED"} => db'.inv[c] = Inv(c)
     /\ Task.run <= db'.task.run
     /\ Task.st = "SUCCEEDED" => db'.task = Task]_vars
=============================================================================
