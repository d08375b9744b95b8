------------------------------ MODULE AgentRun ------------------------------
(***************************************************************************)
(* One AgentRun of the backend: its durable row (module AgentRow), the     *)
(* worker task that advances it through model and tool calls               *)
(* (application/agent_runtime.py, AgentRuntime), the shielded receipt task *)
(* that drives a dispatched tool, the user's stop, reply, confirmation and *)
(* resume, the recovery scan, and crashes and shutdowns of the process.    *)
(*                                                                         *)
(* Every access to the row is one short transaction, hence one atomic      *)
(* step; everything between two of them interleaves.  The worker keeps a   *)
(* private copy of the row (loc) that it mutates before each save, also    *)
(* when the save then fails.                                               *)
(***************************************************************************)
EXTENDS AgentRow

CONSTANTS
  MaxRetries,   \* model_retry_max_retries
  MaxCrashes,   \* bound: process exits (crash or the end of a shutdown)
  MaxFaults,    \* bound: database errors the save retries did not absorb
  MaxResumes    \* bound: accepted user resumes

ASSUME BoundAssumption ==
  /\ MaxRetries \in Nat
  /\ MaxCrashes \in Nat
  /\ MaxFaults \in Nat
  /\ MaxResumes \in Nat

VARIABLES
  run,      \* the agent_run row
  msgs,     \* message rows and what they showed: questions, cards, answers
  loc,      \* the worker's copy of the row
  w,        \* the worker: where it is and its local variables
  rt,       \* the receipt task of the last dispatched call
  sdk,      \* the durable LangGraph checkpoint of the run
  inv,      \* Invocation status per tool call (its idempotency key)
  user,     \* stop request in flight, consents given, resumes used
  sys,      \* process: shutting down, crashes and faults so far
  drives    \* history: times a call was handed to the executor

vars == <<run, msgs, loc, w, rt, sdk, inv, user, sys, drives>>

\* Where the SDK graph stands: the node to run next.
At(node) == [node |-> node, call |-> None]
AtTool(c) == [node |-> "tools", call |-> c]
Positions == {At(node) : node \in {"none", "model", "final"}} \cup {AtTool(c) : c \in CallIds}

InvocationStatus == {"none", "PENDING", "PENDING_CONFIRMATION", "RUNNING",
  "SUCCEEDED", "FAILED", "OUTCOME_UNKNOWN", "DENIED", "REJECTED", "EXPIRED"}

WorkerPc == {"idle", "read", "claim", "graph", "calling", "inserted", "prepared",
  "confirmed", "await", "awaited", "found", "recorded", "interrupted", "fail", "conflict",
  "raised", "closing", "dying"}

\* cur: index of current_call in calls; att: attempt_no; dec: the resume
\* payload of this advance; replay: replay_checkpoint; code: the error that
\* the exception handler of advance is about to persist.
Workers ==
  [pc: WorkerPc, pos: Positions, cur: Nat, att: Nat,
   dec: {"none", "respond", "approve", "reject"}, replay: BOOLEAN, code: ErrorCodes]
IdleWorker ==
  [pc |-> "idle", pos |-> At("none"), cur |-> 0, att |-> 0, dec |-> "none",
   replay |-> FALSE, code |-> "none"]

\* st: none, or spawned with the fence, or driving the tool, or holding the
\* answer of the executor.  version, claim: the execution owner it carries.
ReceiptTasks ==
  [st: {"none", "start", "running", "finished"}, call: CallIds \cup {None},
   out: {"none", "SUCCEEDED", "FAILED", "OUTCOME_UNKNOWN", "RAISED"},
   version: Nat, claim: Nat]
NoTask == [st |-> "none", call |-> None, out |-> "none", version |-> 0, claim |-> 0]

Init ==
  /\ run = NewRow
  /\ msgs = [questions |-> {}, cards |-> {}, answers |-> 0]
  /\ loc = NewRow
  /\ w = [IdleWorker EXCEPT !.pc = "read"]
  /\ rt = NoTask
  /\ sdk = At("none")
  /\ inv = [c \in CallIds |-> "none"]
  /\ user = [stop |-> "none", consents |-> {}, resumes |-> 0]
  /\ sys = [closing |-> FALSE, crashes |-> 0, faults |-> 0]
  /\ drives = [c \in CallIds |-> 0]

-----------------------------------------------------------------------------
(* Saving the worker's copy *)

\* Slip: the question is stored before the row takes its new waiting version.
PostedEarly(r) ==
  [questions |-> IF r.pending_message = "question"
                   THEN msgs.questions \cup {<<r.waiting_version - 1, r.question>>}
                   ELSE msgs.questions,
   cards |-> msgs.cards,
   answers |-> msgs.answers + (IF r.pending_message = "answer" THEN 1 ELSE 0)]

\* The message row a save inserts, and the card a waiting row displays.
Posted(r) ==
  [questions |-> IF r.pending_message = "question"
                   THEN msgs.questions \cup {<<r.waiting_version, r.question>>}
                   ELSE msgs.questions,
   cards |-> IF r.status = "WAITING_FOR_CONFIRMATION"
               THEN msgs.cards \cup {<<r.waiting_version, r.pending_execution.call>>}
               ELSE msgs.cards,
   answers |-> msgs.answers + (IF r.pending_message = "answer" THEN 1 ELSE 0)]

Store(r) == run' = Saved(r) /\ msgs' = Posted(r)

SaveOk(r) ==
  /\ SaveAccepted(run, r)
  /\ Valid(run, r)
  /\ Store(r)
  /\ loc' = Saved(r)
  /\ sys' = sys

\* A database error that outlives the retries of save: nothing was written, or
\* it was and no answer came back, or the row was saved and the write of the
\* process record that persist does next failed.
SaveFault(r) ==
  /\ sys.faults < MaxFaults
  /\ sys' = [sys EXCEPT !.faults = @ + 1]
  /\ \/ UNCHANGED <<run, msgs>> /\ loc' = r
     \/ /\ SaveAccepted(run, r) /\ Valid(run, r)
        /\ Store(r)
        /\ loc' \in {r, Saved(r)}

\* AgentConflictError: advance returns without another write.
SaveConflict(r) ==
  /\ ~SaveAccepted(run, r)
  /\ loc' = r
  /\ UNCHANGED <<run, msgs, sys>>

\* The ValueError of validate_transition, raised before anything is written.
SaveInvalid(r) ==
  /\ SaveAccepted(run, r)
  /\ ~Valid(run, r)
  /\ loc' = r
  /\ UNCHANGED <<run, msgs, sys>>

\* The SDK ends its stream, on success or not, only after its checkpoint
\* writer has drained.
\* What the handlers of advance still look at is current_call and the error.
Left(v, pc, code) == [IdleWorker EXCEPT !.pc = pc, !.code = code, !.cur = v.cur]
Exit(pc, code) == w' = Left(w, pc, code) /\ sdk' = w.pos
Broken == Left(w, "fail", "DEPENDENCY_UNAVAILABLE")

\* persist() followed by the rest of the step; next holds current_call already.
Persist(r, next) ==
  \/ /\ SaveOk(r)
     /\ w' = next
     /\ sdk' = IF next.pc = "fail" THEN w.pos ELSE sdk
  \/ SaveConflict(r) /\ w' = Left(next, "conflict", "none") /\ sdk' = w.pos
  \/ SaveFault(r) /\ w' = Left(next, "fail", "DEPENDENCY_UNAVAILABLE") /\ sdk' = w.pos
  \/ SaveInvalid(r) /\ w' = Left(next, "fail", "FATAL") /\ sdk' = w.pos

\* An exception inside the graph.
Raise(code) ==
  /\ Exit("fail", code)
  /\ UNCHANGED <<run, msgs, loc, sys>>

Go(pc) == [w EXCEPT !.pc = pc]

\* The tool node returns its ToolMessage: the next node is the model again.
ToolDone == [w EXCEPT !.pc = "graph", !.pos = At("model")]

\* observation_message: only a successful result lets the loop go on; a batch
\* that ended, even failed, is reported to the model as its result.
Message(c, outcome) ==
  IF outcome = "SUCCEEDED" \/ KindOf[c] = "batch"
    THEN ToolDone
    ELSE Left(w, "fail", "FATAL")
-----------------------------------------------------------------------------
(* The worker: schedule's work() loop around advance *)

external == <<rt, inv, user, drives>>

\* advance reads the row.  A resumed question takes its reply from the last
\* user message, which fails outside every handler of advance when the run has
\* no reply yet.
Read ==
  /\ w.pc = "read"
  /\ LET asked == run.question # None
         decided == run.confirmation_response # "none"
     IN  IF run.status # "PENDING" THEN w' = IdleWorker /\ loc' = NewRow
         ELSE IF asked /\ ~decided /\ run.last_reply = None
           THEN w' = [IdleWorker EXCEPT !.pc = "raised"] /\ loc' = NewRow
         ELSE /\ w' = [IdleWorker EXCEPT
                         !.pc = "claim",
                         !.dec = IF decided THEN run.confirmation_response
                                 ELSE IF asked THEN "respond" ELSE "none",
                         !.replay = run.recovery_replay /\ ~decided /\ ~asked]
              /\ loc' = [run EXCEPT !.status = "RUNNING", !.claim = run.version + 1,
                                    !.recovery_replay = FALSE]
  /\ UNCHANGED <<run, msgs, sdk, sys, external>>

\* work() cannot read the row, or the finally clause of the advance that ended
\* could not close the process record.
CloseoutFault ==
  /\ w.pc = "read"
  /\ sys.faults < MaxFaults
  /\ sys' = [sys EXCEPT !.faults = @ + 1]
  /\ w' = Go("raised")
  /\ UNCHANGED <<run, msgs, loc, sdk, external>>

\* The claim is saved before the handlers of advance: a database error goes to
\* work() itself.  The SDK then starts from fresh input or from the checkpoint.
Claim ==
  /\ w.pc = "claim"
  /\ \/ /\ SaveOk(loc)
        /\ LET start == IF w.replay \/ w.dec # "none" THEN sdk ELSE At("model")
           IN  w' = IF start.node = "none"
                      THEN Left(w, "fail", "FATAL")
                      ELSE [w EXCEPT !.pc = "graph", !.pos = start]
     \/ SaveConflict(loc) /\ w' = Go("conflict")
     \/ SaveFault(loc) /\ w' = Go("raised")
  /\ UNCHANGED <<sdk, external>>

\* LangGraph writes its checkpoint behind the running graph.
Checkpoint ==
  /\ w.pc \in {"graph", "calling", "inserted", "prepared", "confirmed", "await",
              "awaited", "found", "recorded"}
  /\ sdk # w.pos
  /\ sdk' = w.pos
  /\ UNCHANGED <<run, msgs, loc, w, sys, external>>

AtNode(node) == w.pc = "graph" /\ w.pos.node = node

\* before_model: budget check, then the reservation is durable before the
\* provider is called.
BeforeModel ==
  /\ AtNode("model")
  /\ IF BudgetSpent(loc) THEN Raise("FATAL")
     ELSE LET r == [loc EXCEPT !.calls = Append(@, "RUNNING")]
          IN  Persist(r, [w EXCEPT !.pc = "calling", !.cur = Len(r.calls),
                                   !.att = @ + 1])
  /\ UNCHANGED external

\* on_model: the response settles the call; a marker whose SDK checkpoint was
\* lost is dropped on replay; a tool-call id is never accepted twice.
Settled(r, status) ==
  [r EXCEPT !.calls[w.cur] = status, !.llm_tokens = @ + 1]

Unfinished(r) ==
  LET c == r.pending_tool_call
  IN  /\ c # None
      /\ r.pending_execution.call = None
      /\ r.question = None
      /\ r.observations[c] = "none"
      /\ r.answered[c] = None

Answered(r) ==
  IF w.replay /\ Unfinished(r) THEN [r EXCEPT !.pending_tool_call = None] ELSE r

OnModel ==
  /\ w.pc = "calling"
  /\ LET r == Answered(Settled(loc, "SUCCEEDED"))
         Next1(pos) == IF r.llm_tokens >= MaxTokens
                         THEN Left(w, "fail", "FATAL")
                         ELSE [w EXCEPT !.pc = "graph", !.pos = pos, !.att = 0]
     IN  \/ Persist(r, Next1(At("final")))
         \/ \E c \in CallIds :
              IF r.pending_tool_call # None \/ r.observations[c] # "none"
                   \/ r.answered[c] # None
                THEN /\ Exit("fail", "FATAL")
                     /\ loc' = r
                     /\ UNCHANGED <<run, msgs, sys>>
                ELSE Persist([r EXCEPT !.pending_tool_call = c], Next1(AtTool(c)))
  /\ UNCHANGED external

\* model_failure: the failed attempt is charged and persisted before the
\* backoff; a conflict is swallowed.  Temporary faults are retried.
ModelFailure(code, retry) ==
  LET r == Settled(loc, "FAILED")
      after == IF retry THEN Go("graph") ELSE Left(w, "fail", code)
  IN  /\ w.pc = "calling"
      /\ \/ SaveOk(r) /\ w' = after
         \/ SaveConflict(r) /\ w' = after
         \/ SaveFault(r) /\ w' = Broken
      /\ sdk' = IF w'.pc = "fail" THEN w.pos ELSE sdk
      /\ UNCHANGED external

\* Temporary faults are retried; a Retry-After, a configuration to correct or a
\* spent recovery window pause the run; a protocol error ends it.
ModelRetry == w.att <= MaxRetries /\ ModelFailure("none", TRUE)
ModelPaused == ModelFailure("LLM_TEMPORARILY_UNAVAILABLE", FALSE)
ModelRejected == ModelFailure("FATAL", FALSE)

-----------------------------------------------------------------------------
(* on_tool *)

Call == w.pos.call
Done(r, c) == IF r.pending_tool_call = c THEN [r EXCEPT !.pending_tool_call = None] ELSE r

\* A replayed tool node whose execution has its receipt: the observation is
\* returned again, never the call.
ReplayCompleted ==
  /\ AtNode("tools")
  /\ Executed(loc, Call)
  /\ IF loc.pending_tool_call = Call
       THEN Persist(Done(loc, Call), Message(Call, loc.observations[Call]))
       ELSE /\ w' = Message(Call, loc.observations[Call])
            /\ sdk' = IF w'.pc = "fail" THEN w.pos ELSE sdk
            /\ UNCHANGED <<run, msgs, loc, sys>>
  /\ UNCHANGED external

\* A replayed ask_user whose reply was already applied.
ReplayAnswered ==
  /\ AtNode("tools")
  /\ loc.answered[Call] # None
  /\ w' = ToolDone
  /\ UNCHANGED <<run, msgs, loc, sdk, sys, external>>

\* The call must be the one the row is waiting for.
Fresh == AtNode("tools") /\ ~Executed(loc, Call) /\ loc.answered[Call] = None
SourceMismatch ==
  /\ Fresh
  /\ loc.pending_tool_call # Call
  /\ Raise("FATAL")
  /\ UNCHANGED external
Handling == Fresh /\ loc.pending_tool_call = Call

\* ask_user: the question and the waiting status commit together, then the
\* node interrupts; when the row already holds a question, the resume payload
\* answers it.
AskUser ==
  /\ Handling
  /\ KindOf[Call] = "ask"
  /\ IF loc.question = None
       THEN Persist([loc EXCEPT !.question = Call, !.waiting_version = @ + 1,
                       !.pending_message = "question", !.status = "WAITING_FOR_USER"],
                    Go("interrupted"))
       ELSE IF w.dec = "none"
         THEN w' = Go("interrupted") /\ UNCHANGED <<run, msgs, loc, sdk, sys>>
       ELSE Persist([Done(loc, Call) EXCEPT !.answered[Call] = loc.last_reply,
                                            !.question = None],
                    [ToolDone EXCEPT !.dec = "none"])
  /\ UNCHANGED external

\* Argument resolution: missing input is reported to the model, an invalid
\* call or a spent tool budget ends the run, else the record is created.
Resolve ==
  /\ Handling
  /\ KindOf[Call] # "ask"
  /\ loc.pending_execution.call = None
  /\ \/ Persist([Done(loc, Call) EXCEPT !.observations[Call] = "NEEDS_INPUT"], ToolDone)
     \/ Raise("FATAL")
     \/ /\ loc.tool_executions < MaxToolExecutions
        /\ Persist([loc EXCEPT !.pending_execution = [NoExecution EXCEPT !.call = Call]],
                   Go("graph"))
  /\ UNCHANGED external

Ready == Handling /\ loc.pending_execution.call = Call
Record == loc.pending_execution

\* Slip: only the claim is compared, so that a stop changes nothing.
OwnerActiveByClaim(version, claim) == run.claim = claim

\* The execution owner every commit of a tool transaction is checked against.
OwnerActive(version, claim) ==
  run.version = version /\ run.status = "RUNNING" /\ run.claim = claim

\* _inactive_receipt_allowed: a stopped or interrupted run still commits for
\* the call it has fenced.  The status of an Invocation is set by an UPDATE
\* statement, which the check of the session's changed rows does not see, so
\* that the call may also be started there.
MayCommit(c, version, claim) ==
  \/ OwnerActive(version, claim)
  \/ /\ run.claim = claim
     /\ run.status = "INTERRUPTED" \/ Stopped(run)
     /\ Dispatched(run, c)

\* A database error in a transaction of prepare.
PrepareFault == sys.faults < MaxFaults /\ sys' = [sys EXCEPT !.faults = @ + 1]
PrepareBroken == Exit("fail", "DEPENDENCY_UNAVAILABLE")

\* What _prepare makes of the Invocation it is given.
Taken(status) ==
  IF status \in {"DENIED", "FAILED"} THEN Exit("fail", "FATAL")
  ELSE w' = Go("prepared") /\ sdk' = sdk

\* tools.prepare, first transaction: the Invocation of this tool-call key is
\* inserted PENDING, or found and returned as it is.  An insert whose
\* acknowledgement is lost is found as well, but for a batch.
Prepare ==
  /\ Ready
  /\ ~Record.prepared
  /\ LET inserted == [inv EXCEPT ![Call] = "PENDING"]
     IN  IF inv[Call] # "none"
           THEN Taken(inv[Call]) /\ UNCHANGED <<inv, sys>>
         ELSE IF ~OwnerActive(loc.version, loc.claim)
           THEN Exit("conflict", "none") /\ UNCHANGED <<inv, sys>>
         ELSE \/ inv' = inserted /\ w' = Go("inserted") /\ UNCHANGED <<sdk, sys>>
              \/ /\ KindOf[Call] # "batch"
                 /\ PrepareFault /\ inv' = inserted /\ Taken("PENDING")
              \/ PrepareFault /\ inv' \in {inv, inserted} /\ PrepareBroken
  /\ UNCHANGED <<run, msgs, loc, rt, user, drives>>

\* Slip: the policy lets every tool pass without asking.
AuthorizedSilently(c) == {"DENIED", "PENDING"}

\* The policy's decision: denied, to be confirmed by the user, or free to go.
Authorized(c) ==
  {"DENIED", IF KindOf[c] = "confirm" THEN "PENDING_CONFIRMATION" ELSE "PENDING"}

\* tools.prepare, second transaction (_authorize_initial), which a batch does
\* without.  Nothing repeats it when it is cut off: who finds the Invocation
\* next takes it as it is.
Authorize ==
  /\ w.pc = "inserted"
  /\ IF inv[Call] # "PENDING" \/ KindOf[Call] = "batch"
       THEN Taken(inv[Call]) /\ UNCHANGED <<inv, sys>>
     ELSE IF ~OwnerActive(loc.version, loc.claim)
       THEN Exit("conflict", "none") /\ UNCHANGED <<inv, sys>>
     ELSE \E status \in Authorized(Call) :
            LET decided == [inv EXCEPT ![Call] = status]
            IN  \/ inv' = decided /\ Taken(status) /\ sys' = sys
                \/ PrepareFault /\ inv' \in {inv, decided} /\ PrepareBroken
  /\ UNCHANGED <<run, msgs, loc, rt, user, drives>>

Prepared ==
  /\ w.pc = "prepared"
  /\ Persist([loc EXCEPT !.pending_execution.prepared = TRUE,
                         !.pending_execution.status =
                           IF inv[Call] = "PENDING_CONFIRMATION"
                             THEN "PENDING_CONFIRMATION" ELSE "PENDING"],
             Go("graph"))
  /\ UNCHANGED external

NeedsConsent == Ready /\ Record.prepared /\ ~Record.confirmed
                /\ Record.status = "PENDING_CONFIRMATION"

\* The confirmation card: shown once, then the node interrupts.
ShowCard ==
  /\ NeedsConsent
  /\ w.dec = "none"
  /\ IF Record.shown = 0
       THEN Persist([loc EXCEPT !.waiting_version = @ + 1,
                       !.pending_execution.shown = loc.waiting_version + 1,
                       !.status = "WAITING_FOR_CONFIRMATION"],
                    Go("interrupted"))
       ELSE w' = Go("interrupted") /\ UNCHANGED <<run, msgs, loc, sdk, sys>>
  /\ UNCHANGED external

\* tools.confirm: permission only.  The card may have expired before the
\* runtime looks at the clock, or between that and the service's own look.
ApplyDecision ==
  /\ NeedsConsent
  /\ w.dec \in {"approve", "reject"}
  /\ \/ Raise("FATAL") /\ UNCHANGED external
     \/ /\ inv' \in IF inv[Call] # "PENDING_CONFIRMATION" THEN {inv}
                     ELSE {[inv EXCEPT ![Call] = s] :
                             s \in {"EXPIRED", IF w.dec = "approve" THEN "PENDING"
                                               ELSE "REJECTED"}}
        /\ IF w.dec = "approve" /\ inv[Call] \in {"PENDING_CONFIRMATION", "PENDING"}
             THEN w' = Go("confirmed") /\ sdk' = sdk
             ELSE Exit("fail", "FATAL")
        /\ UNCHANGED <<run, msgs, loc, sys, rt, user, drives>>

Confirmed ==
  /\ w.pc = "confirmed"
  /\ Persist([loc EXCEPT !.pending_execution.confirmed = TRUE,
                         !.confirmation_response = "none"],
             [w EXCEPT !.pc = "graph", !.dec = "none"])
  /\ UNCHANGED external

Permitted == Ready /\ Record.prepared
             /\ (Record.status = "PENDING_CONFIRMATION" => Record.confirmed)

\* execute, first time: the dispatch fence is durable before the receipt task
\* that calls the tool exists.
DispatchFence ==
  /\ Permitted
  /\ ~Record.dispatched
  /\ IF loc.tool_executions >= MaxToolExecutions
       THEN Raise("FATAL") /\ rt' = rt
     ELSE LET r == [loc EXCEPT !.pending_execution.dispatched = TRUE,
                              !.pending_execution.status = "RUNNING",
                              !.tool_executions = @ + 1]
          IN  /\ Persist(r, Go("await"))
              /\ rt' = IF w'.pc # "await" THEN rt
                       ELSE [st |-> "start", call |-> Call, out |-> "none",
                             version |-> r.version + 1, claim |-> r.claim]
  /\ UNCHANGED <<inv, user, drives>>

\* execute, again, on a row already dispatched: a batch is continued under its
\* original Invocation, any other call is only looked up.
Continue ==
  /\ Permitted
  /\ Record.dispatched
  /\ IF inv[Call] = "PENDING" /\ ~MayCommit(Call, loc.version, loc.claim)
       THEN Exit("conflict", "none") /\ UNCHANGED <<inv, drives>>
     ELSE /\ inv' \in IF KindOf[Call] # "batch" \/ inv[Call] \in Outcomes THEN {inv}
                      ELSE {[inv EXCEPT ![Call] = s] : s \in Outcomes \cup {"OUTCOME_UNKNOWN"}}
          /\ drives' = IF inv[Call] = "PENDING"
                         THEN [drives EXCEPT ![Call] = @ + 1] ELSE drives
          /\ IF inv'[Call] \in Outcomes THEN w' = Go("found") /\ sdk' = sdk
             ELSE Exit("fail", "TOOL_OUTCOME_UNKNOWN")
  /\ UNCHANGED <<run, msgs, loc, sys, rt, user>>

\* store.receipt called by the worker for what it found.
Found ==
  /\ w.pc = "found"
  /\ IF OwnsReceipt(run, Call)
       THEN /\ run' = ReceiptRow(run, Call, inv[Call])
            /\ loc' = ReceiptRow(run, Call, inv[Call])
            /\ w' = Go("recorded")
            /\ sdk' = sdk
     ELSE Exit("conflict", "none") /\ UNCHANGED <<run, loc>>
  /\ UNCHANGED <<msgs, sys, external>>

Recorded ==
  /\ w.pc = "recorded"
  /\ Persist(Done(loc, Call), Message(Call, loc.observations[Call]))
  /\ UNCHANGED external

\* The worker is back from the shielded receipt task with the row it returned.
Awaited ==
  /\ w.pc = "awaited"
  /\ IF loc.status = "TERMINATED"
       THEN Exit("conflict", "none") /\ UNCHANGED <<run, msgs, loc, sys>>
     ELSE IF ~Executed(loc, Call) THEN Raise("TOOL_OUTCOME_UNKNOWN")
     ELSE Persist([loc EXCEPT !.pending_tool_call = None],
                  Message(Call, loc.observations[Call]))
  /\ UNCHANGED external

-----------------------------------------------------------------------------
(* Ends of an advance *)

\* __interrupt__: the pause the SDK reported becomes the waiting status.
Interrupted ==
  /\ w.pc = "interrupted"
  /\ sdk' = w.pos
  /\ LET waiting == IF loc.question # None THEN "WAITING_FOR_USER"
                    ELSE "WAITING_FOR_CONFIRMATION"
         r == [loc EXCEPT !.status = waiting]
     IN  IF loc.status = waiting
           THEN w' = Go("read") /\ UNCHANGED <<run, msgs, loc, sys>>
         ELSE \/ SaveOk(r) /\ w' = Go("read")
              \/ SaveConflict(r) /\ w' = Left(w, "conflict", "none")
              \/ SaveFault(r) /\ w' = Broken
  /\ UNCHANGED external

\* What every node may run into before it changes anything: the active time is
\* used up, the context or the budget is, a call does not pass its checks.
NodeRefused ==
  /\ w.pc = "graph"
  /\ Raise("FATAL")
  /\ UNCHANGED external

\* The final answer and the success of the run commit together.
FinalAnswer ==
  /\ AtNode("final")
  /\ \/ Raise("FATAL")
     \/ Persist([loc EXCEPT !.final_message = TRUE, !.pending_message = "answer",
                            !.question = None, !.status = "SUCCEEDED"],
                Go("read"))
  /\ UNCHANGED external

\* except Exception, first part: a call still open is settled by model_failure,
\* whose own errors are swallowed.
OpenCall == w.cur # 0 /\ loc.calls[w.cur] = "RUNNING"
FailSettle ==
  /\ w.pc = "fail"
  /\ OpenCall
  /\ LET r == Settled(loc, "FAILED")
     IN  SaveOk(r) \/ SaveConflict(r) \/ SaveFault(r)
  /\ UNCHANGED <<w, sdk, external>>

\* except Exception, second part: pause when the error is recoverable and neither
\* the budget nor the active time is spent, else terminate.
\* A status the table does not allow any more (the pause or the success was
\* saved before the error) leaves advance as a ValueError.
FailSave ==
  /\ w.pc = "fail"
  /\ ~OpenCall
  /\ \E code \in {IF BudgetSpent(loc) THEN "FATAL" ELSE w.code, "FATAL"} :
       LET r == [loc EXCEPT !.error_code = code, !.final_message = FALSE,
                   !.pending_message = "none",
                   !.status = IF code = "FATAL" THEN "TERMINATED" ELSE "INTERRUPTED"]
       IN \/ SaveOk(r) /\ w' = Go("read")
          \/ SaveConflict(r) /\ w' = Go("read")
          \/ SaveFault(r) /\ w' = Go("raised")
          \/ SaveInvalid(r) /\ w' = Go("raised")
  /\ UNCHANGED <<sdk, external>>

\* except AgentConflictError: return the row another writer owns.
Conflict ==
  /\ w.pc = "conflict"
  /\ w' = Go("read")
  /\ UNCHANGED <<run, msgs, loc, sdk, sys, external>>

\* work()'s own handler, also the end of a cancelled task: what it reads as
\* still active it marks interrupted, unless a reply made it the run of a later
\* submission than the one this task was started for.
Raised ==
  /\ w.pc = "raised"
  /\ \/ /\ run.status \in {"PENDING", "RUNNING"}
        /\ loc' = [run EXCEPT !.status = "INTERRUPTED",
                             !.error_code = "PROCESS_INTERRUPTED"]
        /\ w' = Go("closing")
     \/ /\ run.status \in {"PENDING", "RUNNING"} => run.last_reply # None
        /\ loc' = NewRow /\ w' = Go("dying")
  /\ UNCHANGED <<run, msgs, sdk, sys, external>>

RaisedSave ==
  /\ w.pc = "closing"
  /\ SaveOk(loc) \/ SaveConflict(loc) \/ SaveFault(loc)
  /\ w' = Go("dying")
  /\ UNCHANGED <<sdk, external>>

\* A resume or a decision accepted while the handler closes the process record
\* has marked the run scheduled again; the finally clause discards the mark.
Dying ==
  /\ w.pc = "dying"
  /\ w' = IdleWorker
  /\ loc' = NewRow
  /\ UNCHANGED <<run, msgs, sdk, sys, external>>

-----------------------------------------------------------------------------
(* The receipt task: shielded from the worker, dead only with the process *)

\* tools.execute up to the claim of the Invocation.  A bound resource that no
\* longer verifies fails the Invocation; a stale owner or an Invocation that is
\* not PENDING any more starts nothing and raises.
TaskStart ==
  /\ rt.st = "start"
  /\ drives' = [drives EXCEPT ![rt.call] = @ + 1]
  /\ \/ /\ inv[rt.call] = "PENDING" /\ MayCommit(rt.call, rt.version, rt.claim)
        /\ inv' = [inv EXCEPT ![rt.call] = "RUNNING"]
        /\ rt' = [rt EXCEPT !.st = "running"]
     \/ /\ inv[rt.call] = "PENDING"
        /\ inv' = [inv EXCEPT ![rt.call] = "FAILED"]
        /\ rt' = [rt EXCEPT !.st = "finished", !.out = "FAILED"]
     \/ /\ inv[rt.call] # "PENDING" \/ ~MayCommit(rt.call, rt.version, rt.claim)
        /\ inv' = inv
        /\ rt' = [rt EXCEPT !.st = "finished", !.out = "RAISED"]
  /\ UNCHANGED <<run, msgs, loc, w, sdk, user, sys>>

\* The tool answers, or its answer cannot be stored: repair then reads an
\* Invocation still RUNNING and reports an unknown outcome.
TaskFinish ==
  /\ rt.st = "running"
  /\ \/ \E out \in Outcomes \cup {"OUTCOME_UNKNOWN"} :
          /\ inv' = [inv EXCEPT ![rt.call] = out]
          /\ rt' = [rt EXCEPT !.st = "finished", !.out = out]
          /\ sys' = sys
     \/ /\ sys.faults < MaxFaults
        /\ sys' = [sys EXCEPT !.faults = @ + 1]
        /\ rt' = [rt EXCEPT !.st = "finished", !.out = "OUTCOME_UNKNOWN"]
        /\ inv' = inv
  /\ UNCHANGED <<run, msgs, loc, w, sdk, user, drives>>

\* The awaiting worker resumes with the returned row, or with the exception.
Wake(row) ==
  IF w.pc = "await" THEN w' = Go("awaited") /\ loc' = row /\ sdk' = sdk
  ELSE UNCHANGED <<w, loc, sdk>>
WakeWith(pc, code) ==
  IF w.pc = "await" THEN Exit(pc, code) /\ loc' = loc ELSE UNCHANGED <<w, loc, sdk>>

\* fail_execution: an exception of the executor is a failed observation.
Reported(out) == IF out = "RAISED" THEN "FAILED" ELSE out

\* receipt, fail_execution or mark_outcome_unknown, once the executor is done.
TaskRecord ==
  /\ rt.st = "finished"
  /\ rt' = NoTask
  /\ LET c == rt.call
         outcome == Reported(rt.out)
     IN  IF ~Dispatched(run, c) THEN run' = run /\ Wake(run)
         ELSE IF outcome = "OUTCOME_UNKNOWN" /\ CanMarkUnknown(run, c)
           THEN run' = MarkUnknownRow(run) /\ Wake(MarkUnknownRow(run))
         ELSE IF outcome \in Outcomes /\ OwnsReceipt(run, c)
           THEN /\ run' = ReceiptRow(run, c, outcome)
                /\ Wake(ReceiptRow(run, c, outcome))
         ELSE run' = run /\ WakeWith("conflict", "none")
  /\ UNCHANGED <<msgs, inv, user, sys, drives>>

\* The same transaction behind a database error, committed or not.
TaskRecordFault ==
  /\ rt.st = "finished"
  /\ rt.out # "RAISED"
  /\ sys.faults < MaxFaults
  /\ sys' = [sys EXCEPT !.faults = @ + 1]
  /\ rt' = NoTask
  /\ \/ run' = run
     \/ /\ rt.out \in Outcomes /\ OwnsReceipt(run, rt.call)
        /\ run' = ReceiptRow(run, rt.call, rt.out)
     \/ /\ rt.out = "OUTCOME_UNKNOWN" /\ CanMarkUnknown(run, rt.call)
        /\ run' = MarkUnknownRow(run)
  /\ WakeWith("fail", "DEPENDENCY_UNAVAILABLE")
  /\ UNCHANGED <<msgs, inv, user, drives>>

-----------------------------------------------------------------------------
(* The user *)

\* schedule: a task still closing is the owner, else a new one is created.
Schedule ==
  IF w.pc = "idle" THEN w' = Go("read") ELSE w' = w

Stop ==
  /\ ~sys.closing
  /\ user.stop \in {"none", "lost"}
  /\ \/ CanStop(run) /\ run' = StopRow(run)
     \/ Stopped(run) /\ run' = run      \* the request repeated after a crash
  /\ user' = [user EXCEPT !.stop = "committed"]
  /\ UNCHANGED <<msgs, loc, w, rt, sdk, inv, sys, drives>>

\* The second transaction of the same request: an Invocation that was never
\* dispatched is closed under its tool-call key.
StopSettle ==
  /\ user.stop = "committed"
  /\ user' = [user EXCEPT !.stop = "done"]
  /\ LET c == run.pending_execution.call
     IN  inv' = IF c = None \/ run.pending_execution.dispatched THEN inv
                ELSE CASE inv[c] = "PENDING" -> [inv EXCEPT ![c] = "FAILED"]
                       [] inv[c] = "PENDING_CONFIRMATION" -> [inv EXCEPT ![c] = "REJECTED"]
                       [] OTHER -> inv
  /\ UNCHANGED <<run, msgs, loc, w, rt, sdk, sys, drives>>

\* A reply or a decision addressed to a question or card the user was shown.
Reply ==
  /\ ~sys.closing
  /\ \E card \in msgs.questions : CanReply(run, card) /\ run' = ReplyRow(run, card)
  /\ Schedule
  /\ UNCHANGED <<msgs, loc, rt, sdk, inv, user, sys, drives>>

Decide ==
  /\ ~sys.closing
  /\ \E card \in msgs.cards, decision \in {"approve", "reject"} :
       /\ CanDecide(run, card)
       /\ run' = DecideRow(run, decision)
       /\ user' = IF decision = "approve"
                    THEN [user EXCEPT !.consents = @ \cup {card}] ELSE user
  /\ Schedule
  /\ UNCHANGED <<msgs, loc, rt, sdk, inv, sys, drives>>

\* resume, first part: the original receipt of a dispatched call is looked up
\* and, when it is there, recorded.
Reconcile ==
  /\ ~sys.closing
  /\ run.status = "INTERRUPTED"
  /\ sdk.node # "none"
  /\ LET c == run.pending_execution.call
     IN  /\ c # None
         /\ KindOf[c] # "batch"
         /\ OwnsReceipt(run, c)
         /\ inv[c] \in Outcomes
         /\ run' = ReceiptRow(run, c, inv[c])
  /\ UNCHANGED <<msgs, loc, w, rt, sdk, inv, user, sys, drives>>

\* resume, second part: back to PENDING under the version the user saw.
Resume ==
  /\ ~sys.closing
  /\ user.resumes < MaxResumes
  /\ CanResume(run)
  /\ sdk.node # "none" \/ (run.calls = <<>> /\ run.pending_tool_call = None)
  /\ run' = ResumeRow(run)
  /\ user' = [user EXCEPT !.resumes = @ + 1]
  /\ Schedule
  /\ UNCHANGED <<msgs, loc, rt, sdk, inv, sys, drives>>

-----------------------------------------------------------------------------
(* Recovery and the process *)

\* No live task protects the run from the scan, which holds the same lock as
\* every admission.
Unprotected == w.pc = "idle" /\ rt.st = "none" /\ ~sys.closing

\* Slip: the scan only looks for runs that a worker had claimed.
RecoverClaimed ==
  /\ Unprotected
  /\ run.status = "RUNNING"
  /\ run' = RecoverRow(run)
  /\ UNCHANGED <<msgs, loc, w, rt, sdk, inv, user, sys, drives>>

RecoverActive ==
  /\ Unprotected
  /\ run.status \in {"PENDING", "RUNNING"}
  /\ run' = RecoverRow(run)
  /\ UNCHANGED <<msgs, loc, w, rt, sdk, inv, user, sys, drives>>

\* A run whose SDK checkpoint never reached the database cannot continue.
RecoverNoCheckpoint ==
  /\ Unprotected
  /\ run.status \in {"INTERRUPTED"} \cup Waiting
  /\ sdk.node = "none"
  /\ run.calls # <<>> \/ run.pending_execution.call # None
  /\ run' = [Bump(run) EXCEPT !.status = "TERMINATED", !.error_code = "FATAL"]
  /\ UNCHANGED <<msgs, loc, w, rt, sdk, inv, user, sys, drives>>

\* The late receipt of a stopped run.
RecoverStopped ==
  /\ Unprotected
  /\ Stopped(run)
  /\ LET c == run.pending_execution.call
     IN  /\ c # None
         /\ OwnsReceipt(run, c)
         /\ inv[c] \in Outcomes
         /\ run' = ReceiptRow(run, c, inv[c])
  /\ UNCHANGED <<msgs, loc, w, rt, sdk, inv, user, sys, drives>>

\* Invocation recovery: what a dead process left running is unknown, and only
\* the operation's own receipt resolves an unknown outcome.
InvocationRecovery ==
  /\ \E c \in CallIds :
       \/ /\ inv[c] = "RUNNING" /\ rt.call # c
          /\ inv' = [inv EXCEPT ![c] = "OUTCOME_UNKNOWN"]
       \/ /\ inv[c] = "OUTCOME_UNKNOWN"
          /\ \E out \in Outcomes : inv' = [inv EXCEPT ![c] = out]
  /\ UNCHANGED <<run, msgs, loc, w, rt, sdk, user, sys, drives>>

\* The process dies: tasks, copies and the SDK's unwritten checkpoint with it.
\* A graceful shutdown ends the same way.
Crash ==
  /\ sys.crashes < MaxCrashes
  /\ sys' = [sys EXCEPT !.crashes = @ + 1, !.closing = FALSE]
  /\ w' = IdleWorker
  /\ loc' = NewRow
  /\ rt' = NoTask
  /\ user' = [user EXCEPT !.stop = IF @ = "committed" THEN "lost" ELSE @]
  /\ UNCHANGED <<run, msgs, sdk, inv, drives>>

\* close(): the worker is cancelled wherever it is; receipt tasks get time to
\* finish.  A model call in flight is settled by model_failure first.
Close ==
  /\ ~sys.closing
  /\ sys.crashes < MaxCrashes
  /\ w.pc # "idle"
  /\ \/ /\ w.pc = "calling"
        /\ LET r == Settled(loc, "FAILED")
           IN  IF SaveAccepted(run, r) THEN Store(r) /\ loc' = Saved(r)
               ELSE UNCHANGED <<run, msgs, loc>>
     \/ w.pc # "calling" /\ UNCHANGED <<run, msgs, loc>>
  /\ w' = Go(IF w.pc \in {"raised", "closing", "dying"} THEN "dying" ELSE "raised")
  /\ sys' = [sys EXCEPT !.closing = TRUE]
  /\ UNCHANGED <<sdk, external>>

-----------------------------------------------------------------------------
(* The specification *)

ModelStep == BeforeModel \/ OnModel \/ ModelRetry \/ ModelPaused \/ ModelRejected

ToolStep ==
  \/ ReplayCompleted \/ ReplayAnswered \/ SourceMismatch \/ AskUser \/ Resolve
  \/ Prepare \/ Authorize \/ Prepared \/ ShowCard \/ ApplyDecision \/ Confirmed
  \/ DispatchFence \/ Continue \/ Found \/ Recorded \/ Awaited

EndStep ==
  \/ Interrupted \/ NodeRefused \/ FinalAnswer \/ FailSettle \/ FailSave \/ Conflict
  \/ Raised \/ RaisedSave \/ Dying

WorkerNext ==
  Read \/ CloseoutFault \/ Claim \/ Checkpoint \/ ModelStep \/ ToolStep \/ EndStep

TaskNext == TaskStart \/ TaskFinish \/ TaskRecord \/ TaskRecordFault

UserNext == Stop \/ StopSettle \/ Reply \/ Decide \/ Reconcile \/ Resume

ScanNext == RecoverActive \/ RecoverNoCheckpoint \/ RecoverStopped

Next ==
  WorkerNext \/ TaskNext \/ UserNext \/ ScanNext \/ InvocationRecovery \/ Crash \/ Close

Spec == Init /\ [][Next]_vars

-----------------------------------------------------------------------------
(* Properties: the row and its ledgers *)

\* A question or card: its waiting version and the call it is about.
Cards == Nat \X (CallIds \cup {None})
Messages == [questions: SUBSET Cards, cards: SUBSET Cards, answers: Nat]
Requests == [stop: {"none", "committed", "done", "lost"},
             consents: SUBSET Cards, resumes: Nat]

\* Every variable keeps its type: the row the shape of AgentRun, the worker and
\* the receipt task the shape of advance's locals.
TypeOK ==
  /\ run \in AgentRunRow
  /\ loc \in AgentRunRow
  /\ msgs \in Messages
  /\ w \in Workers
  /\ rt \in ReceiptTasks
  /\ sdk \in Positions
  /\ inv \in [CallIds -> InvocationStatus]
  /\ user \in Requests
  /\ sys \in [closing: BOOLEAN, crashes: Nat, faults: Nat]
  /\ drives \in [CallIds -> Nat]

\* A tool call is handed to its executor only under a durable dispatch fence and,
\* unless it is the batch that a resume may continue, at most once, whatever
\* crashes, replays and resumes happen (the comments at execute: "No external
\* call precedes this dispatch fence", "Never dispatch a committed call twice").
DispatchAtMostOnce ==
  \A c \in CallIds :
    /\ drives[c] > 0 => Fenced(run, c)
    /\ KindOf[c] # "batch" => drives[c] <= 1

\* Every fenced call is charged exactly once to the tool budget of the run and
\* the budget is never exceeded, also across replays of the tool node.
ToolLedger ==
  /\ run.tool_executions = Cardinality({c \in CallIds : Fenced(run, c)})
  /\ run.tool_executions <= MaxToolExecutions

\* Every model call is charged exactly once, when it is settled: by its own
\* answer or failure, by a stop, by the recovery scan.
TokenLedger == run.llm_tokens + Cardinality(Outstanding(run)) = Len(run.calls)

\* An observation the model may explain is the outcome of the Invocation: never a
\* success it did not report, never a failure while its outcome is open.
ReceiptFaithful ==
  \A c \in CallIds :
    /\ run.observations[c] = "SUCCEEDED" => inv[c] = "SUCCEEDED"
    /\ run.observations[c] = "FAILED" =>
         inv[c] \notin {"RUNNING", "OUTCOME_UNKNOWN", "SUCCEEDED"}

\* What the row says of its calls is what happened: both budgets are charged once
\* for what was really used, whoever settles it (execute, reserve, _stop,
\* recover_interrupted), and the observations are the outcomes.
Ledgers == ToolLedger /\ TokenLedger /\ ReceiptFaithful

\* A tool that needs consent computes only after the user approved the card of
\* this very call.  What is left open is the gap between the two transactions of
\* prepare: after a crash or a database error, a call whose authorization was cut
\* off is dispatched without a card; a call whose card was put up never is.
ConsentBeforeStart ==
  \A c \in CallIds :
    KindOf[c] = "confirm" /\ inv[c] \in {"RUNNING", "OUTCOME_UNKNOWN"} \cup Outcomes =>
      \/ \E card \in user.consents : card[2] = c
      \/ inv[c] = "FAILED" /\ drives[c] = 0
      \/ /\ \A card \in msgs.cards : card[2] # c
         /\ sys.crashes + sys.faults > 0

\* A run that waits for its user has posted the question, or shows the card, its
\* status refers to.
WaitingIsAddressed ==
  /\ run.status = "WAITING_FOR_USER" =>
       <<run.waiting_version, run.question>> \in msgs.questions
  /\ run.status = "WAITING_FOR_CONFIRMATION" =>
       <<run.waiting_version, run.pending_execution.call>> \in msgs.cards

\* One published answer for a successful run, none for any other.
AnswerWithSuccess == msgs.answers = (IF run.status = "SUCCEEDED" THEN 1 ELSE 0)

\* The status of the row and what its user was shown never disagree, whichever
\* save was lost or repeated (_save_once writes both in one transaction).
StatusHasMessages == WaitingIsAddressed /\ AnswerWithSuccess

\* A dispatched call whose receipt is still missing.  A resume continues a batch,
\* so a batch is nothing the run waits for.
OwesReceipt(r) == r.pending_execution.dispatched
                  /\ KindOf[r.pending_execution.call] # "batch"

\* A successful run has no tool call whose outcome is still owed: the model never
\* explains a result that nobody knows.
SuccessOwesNothing == run.status = "SUCCEEDED" => ~OwesReceipt(run)

-----------------------------------------------------------------------------
(* Why a dispatched call is never driven again: the inductive invariant *)

\* A receipt task lives while the worker awaits it, or alone in a shutdown; and
\* what the worker looked up stays settled until it is recorded.
TaskIsOwned ==
  /\ sys.closing => w.pc \in {"raised", "closing", "dying", "idle"}
  /\ rt.st # "none" => w.pc = "await" \/ sys.closing
  /\ w.pc = "found" => inv[w.pos.call] \in Outcomes

\* The copies of the row that a step may still save, and those that are exactly
\* what the worker last saved or read.
Holding == WorkerPc \ {"idle", "read", "raised", "dying"}
Working == {"graph", "calling", "inserted", "prepared", "confirmed", "await", "found",
            "recorded", "interrupted"}

\* At most one drive, counting the one the receipt task is about to make.
Starting(c) == rt.st = "start" /\ rt.call = c
DrivenOnce ==
  \A c \in CallIds :
    KindOf[c] # "batch" => drives[c] <= 1 /\ (Starting(c) => drives[c] = 0)
DrivenBehindFence == \A c \in CallIds : drives[c] > 0 \/ Starting(c) => Fenced(run, c)

\* A copy as new as the row knows every fence of the row; one in the hands of
\* the graph invents none.
CopyKeepsFences ==
  /\ loc.version <= run.version
  /\ w.pc \in Holding /\ loc.version = run.version =>
       \A c \in CallIds : Fenced(run, c) => Fenced(loc, c)
  /\ w.pc \in Working /\ loc.version = run.version =>
       \A c \in CallIds : Dispatched(loc, c) => Fenced(run, c)

\* A row that is back at work, that a reply or a decision may put back to work,
\* or that ended well owes no receipt; nor does the copy the graph works on.
Settling == {"PENDING", "SUCCEEDED"} \cup Waiting
Rested(r) == r.status \in Settling => ~OwesReceipt(r)
Exclusive(r) ==
  r.pending_execution.dispatched =>
    r.pending_execution.call # None /\ ~Executed(r, r.pending_execution.call)
NothingOwed ==
  /\ Rested(run) /\ Rested(loc)
  /\ Exclusive(run) /\ Exclusive(loc)
  /\ w.pc \in {"claim"} \cup (Working \ {"await"}) => ~OwesReceipt(loc)
  /\ w.pc = "awaited" =>
       \/ loc.status = "TERMINATED" \/ ~Executed(loc, w.pos.call) \/ ~OwesReceipt(loc)

\* While the worker is inside the graph only a stop moves the row out of RUNNING,
\* and the row it awaits a receipt for keeps the dispatched call.
WorkerHolds ==
  /\ w.pc \in Working \ {"interrupted"} => run.status \in {"RUNNING", "TERMINATED"}
  /\ w.pc \in {"claim"} \cup (Working \ {"interrupted", "recorded"}) =>
       loc.status = "RUNNING"
  /\ w.pc = "recorded" => loc.status = "RUNNING" \/ run.status = "TERMINATED"
  /\ w.pc = "awaited" =>
       loc.status \in {"RUNNING", "TERMINATED"} \/ ~Executed(loc, w.pos.call)
  /\ w.pc = "await" =>
       rt.st # "none" /\ rt.call = w.pos.call /\ Dispatched(run, rt.call)

\* Stronger than DispatchAtMostOnce, and kept by every step of Next.
FenceInv ==
  TaskIsOwned /\ DrivenOnce /\ DrivenBehindFence /\ CopyKeepsFences /\ NothingOwed
  /\ WorkerHolds

-----------------------------------------------------------------------------
(* Properties: what a step may never do *)

\* After the stop is durable no Invocation is created, no call is fenced, and
\* only a call that was fenced before may still start (store.stop, commit); once
\* the request is served, an Invocation that was prepared but not dispatched is
\* closed, and the worker cannot create one behind it.
StopClosesPreparation ==
  user.stop = "done" =>
    \A c \in CallIds : inv[c] \in {"PENDING", "PENDING_CONFIRMATION"} => Fenced(run, c)
StopIsFinal ==
  /\ []StopClosesPreparation
  /\ [][Stopped(run) => \A c \in CallIds :
          /\ inv[c] = "none" => inv'[c] = "none"
          /\ Fenced(run', c) => Fenced(run, c)
          /\ inv'[c] = "RUNNING" => inv[c] = "RUNNING" \/ Fenced(run, c)]_vars

\* A terminal row never changes, but for the late receipt of a stopped run,
\* which leaves its status alone.
TerminalIsFinal ==
  [][run.status \in Terminal /\ run' # run =>
       /\ Stopped(run) /\ Stopped(run')
       /\ run.pending_execution.dispatched]_vars

\* Nothing a transaction committed is overwritten by the copy of another writer:
\* observations and applied replies stay, ledgers never shrink.
NothingIsLost ==
  [][/\ \A c \in CallIds :
          /\ run.observations[c] # "none" => run'.observations[c] = run.observations[c]
          /\ run.answered[c] # None => run'.answered[c] = run.answered[c]
     /\ run'.llm_tokens >= run.llm_tokens
     /\ Len(run'.calls) >= Len(run.calls)]_vars

-----------------------------------------------------------------------------
(* What holds without database faults *)

\* test_only_one_input_is_accepted_per_waiting_version (test_agent_control.py:178):
\* one input per question.  So a question is answered by the reply to it alone,
\* as long as every save of the worker was acknowledged.
ReplyAnswersQuestion ==
  sys.faults = 0 => \A c \in CallIds : run.answered[c] \in {None, c}

\* The conversation tells what happened to the run: its messages agree with its
\* status, and a reply is the answer to the question it followed.
ConversationIsTrue == StatusHasMessages /\ ReplyAnswersQuestion

-----------------------------------------------------------------------------
(* What must eventually happen, and the abstract promise *)

\* The event loop runs every task that can run, models and tools answer within
\* their timeouts, the recovery scan comes back every five seconds, and a
\* shutdown that began ends.  No fairness for users, faults or crashes.
Fairness ==
  /\ WF_vars(WorkerNext)
  /\ WF_vars(TaskNext)
  /\ WF_vars(ScanNext)
  /\ WF_vars(sys.closing /\ Crash)

FairSpec == Spec /\ Fairness

\* Accepted work never stays active for ever: it ends, waits for its user, or
\* becomes a resumable interruption, also when its worker died or lost a wakeup.
ActiveIsLeft == (run.status \in {"PENDING", "RUNNING"}) ~> (run.status \notin {"PENDING", "RUNNING"})

\* The result of a call that was dispatched before the stop is saved, however
\* late its receipt is known.
LateReceiptIsSaved ==
  \A c \in CallIds :
    (Stopped(run) /\ Dispatched(run, c) /\ inv[c] \in Outcomes) ~> Executed(run, c)

\* The batch may be driven again under its own Invocation; every other call keeps
\* the promise of DispatchOnce.
Single == {c \in CallIds : KindOf[c] # "batch"}
Phase(c) ==
  IF Executed(run, c) THEN "recorded" ELSE IF Dispatched(run, c) THEN "fenced" ELSE "open"

Promise == INSTANCE DispatchOnce WITH
  Calls <- Single,
  phase <- [c \in Single |-> Phase(c)],
  driven <- {c \in Single : drives[c] > 0},
  stopped <- Stopped(run)

KeepsPromise == Promise!Spec
=============================================================================
