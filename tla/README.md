# Materials Agent: specifications, model checking and proofs

This directory is the formal model of Materials Agent: TLA+ modules translated
from the source under `backend/`, `services/`, `zta35g-runtime/` and
`frontend/`, TLC configurations that check them on small instances, and proofs
checked by TLAPS of what matters most. Paths below are relative to the
repository root; `BE` stands for `backend/src/materialsagent`, `ML` for
`services/materials_ml/src/materials_ml_service`, `RTM` for
`zta35g-runtime/src/materialsagent_zta35g_runtime`. `PROJECT.json` names, for
every definition, the lines it models.

1. The system · 2. Modules · 3. State and code · 4. Runs · 5. Fairness ·
6. Proofs · 7. Where the code and its documents differ · 8. Not modelled

## 1. The system

A user talks to an assistant that may call materials-science tools. The backend
is one process (one event loop, a pool of threads, PostgreSQL, MinIO); the
models run in a GPU runtime; training and prediction run in a separate ML
service with its own database and worker. Every long activity is a durable row
advanced by short transactions. Between two transactions anything may happen: a
stop, a reply, a late receipt, a crash, a restart, a recovery scan. That is
where the system is hard to test, and what the modules below are about.

### Inventory

| Component | State | Operations | Interacts with | Hard behaviour | What makes it correct | Module |
| --- | --- | --- | --- | --- | --- | --- |
| AgentRun row (`BE/infrastructure/db/agent.py`, `BE/domain/models/agent.py`) | status, version, claim, calls, budget ledgers, pending execution, observations, question, confirmation | save (compare-and-swap), stop, reply, accept_confirmation, resume, receipt, mark_outcome_unknown, recover_interrupted | worker, receipt task, HTTP handlers, scan | five writers, one row; stale copies; a commit whose answer is lost | nothing committed is overwritten, terminal rows stay, ledgers are charged once | `AgentRow`, `AgentRun` |
| AgentRuntime worker (`BE/application/agent_runtime.py`, `sdk_agent_loop.py`) | running tasks, receipt tasks, the worker's copy, the SDK checkpoint | schedule, advance, model and tool nodes, interrupts, final answer, close, recovery scan | row, Invocation service, model provider | replay after a crash, checkpoint behind the row, shielded tasks, lost wakeups | no tool is driven twice, stop is final, accepted work never stays active for ever | `AgentRun` |
| Tool gateway and Invocation service (`BE/application/agent_tools.py`, `tool_invocations.py`) | Invocation row with version, lease, dispatch mark, identity, receipt | create, authorise, confirm, drive, commit, finalize, reconcile, recover | row, executors, ML service | lost answers, lost commits, overlapping lookups, a stop between fence and start | a failure is stated only when nothing happened, a result only of an effect that did | `Invocation` |
| Managed execution (`tool_execution.py`, `result_service.py`) | Task, ToolRun, ToolResult | revise, reserve, start, Runtime call, record, save files, commit, fail, retry | Invocation, GPU runtime, assets | slow threads of stopped calls, lost acknowledgements, late computations | one attempt computes, the selection is a whole result | `ManagedRun`, `GpuRuntime` |
| TC4 batches (`tc4_results.py`, `local_tc4.py`, `tool_run_item.py`, `RTM/tc4.py`) | a versioned row per image, receipts of the runtime, outbox | dispatch, receipt, resume, reconcile, collect, erase | agent run, runtime, deletion | two threads on one batch, lost answers, tombstones | one image at a time, rows and receipts tell one story | `Batch` |
| Drafts and arguments (`agent_tools.py`, `ml_resource_context.py`, `native_tool_protocol.py`, `unit_resolution.py`, `zta35g_input.py`) | shown references, draft, pending call, revisions | show, decode, bind, settle units, normalize, revise, repeat, retry | model, row, tasks | a proposal replayed on another frame, units carried to another resource | a call is executed with what the model was shown and the user stated | `Drafts` |
| Submission and admission (`db/agent.py`, `conversations.py`, `frontend/src/composables/useAgentRuns.ts`) | pending operation of a tab, keys, submissions, runs | send, retry, reply, decide, regenerate, resume, stop, reload | row | requests served late or twice, stale screens | every intention takes effect once, on what its user saw | `Submission` |
| Conversation deletion (`conversation_cleanup.py`, `db/conversation_cleanup.py`) | fence, deletion, cleanup records | delete, resume, drain, recover_stale | runs, assets, ML scope | deletion racing uploads and calls, lost answers of the far side | no object without a record, both sides agree | `Deletion` |
| Assets (`asset_service.py`, `ebsd_assets.py`, `storage/minio.py`) | asset rows, objects | announce, put, commit, compensate, reconcile | MinIO | an upload whose commit is lost | AVAILABLE implies the object is there | `Deletion` |
| ML resources (`ml_resources.py`, `db/ml_resources.py`) | upload rows, epochs | upload, replay, reconcile, close scope | ML service | uncertain remote answers | an upload starts nothing behind the fence | `Deletion`, `Drafts` |
| MCP executor (`mcp_executor.py`) | identity of a remote operation | prepare, send, validate, look up | ML service | response lost after commit | the same key never starts a second operation | `Invocation` |
| ML service: training (`ML/application.py`, `ML/resource_application.py`, `ML/infrastructure/`) | runs, artifacts, objects, models, scopes | submit, claim, heartbeat, start, files, complete, stopped, recover, cancel, close, maintain | worker, MinIO | late and repeated requests, storage outside transactions | one run holds the slot, a model is whole | `MlService`, `MlJobs`, `TrainingSlot` |
| ML training worker (`ML/worker.py`, `windows.py`, `child.py`) | claim key, run, child | recover, claim, execute, stop | ML service | dies anywhere, stops waiting | a child trains only for its own running row | `MlJobs` |
| ML service: predictions and datasets (`ML/prediction_application.py`, `request_execution.py`) | predictions, datasets, capacity | upload, predict, cancel, publish, delete, recover | child process, MinIO | cancellation racing publication, late uploads | one child, whole results, cancellations kept | `Prediction` |
| GPU runtime (`RTM/app.py`, `contracts.py`, `inference.py`) | execution lock | execute, refuse, answer, close | backend | busy lock, senders that gave up | one computation at a time, answers both sides accept | `GpuRuntime`, `Batch` |
| Research process display (`agent_process.py`, `useProcessStreams.ts`) | segments, revisions, epoch | upsert, snapshot, subscribe | worker, SSE clients | reconnects, late deltas | a display no decision reads | none |
| Registry construction, prompt assembly, projections, numerics, migrations | none across calls | validation, formatting, computing | | sequential | tests reach them | none |

### How the parts talk

HTTP handlers change the row and call `schedule` under `recovery_lock`; the
worker reads the row, claims it, and drives the SDK graph. The graph alternates
a model node and a tool node and writes its checkpoint behind the running graph;
the row is the authority, the checkpoint only says where to go on. A tool call
passes through: marker (`pending_tool_call_id`), draft, execution record,
Invocation, consent if needed, *dispatch fence* (the `dispatched` flag saved),
receipt task, receipt. The receipt task is shielded: it survives the worker's
cancellation and dies only with the process. Behind it a thread drives the
Invocation: locally, through MCP to the ML service, or through a managed
workflow to the GPU runtime. A conversation is deleted behind a fence that all
of them take before they write.

## 2. Modules

| Module | What it is |
| --- | --- |
| `AgentRow` | The row of one run as a record, and one operator per transaction: guard (`CanStop`, `OwnsReceipt`, ...) and effect (`StopRow`, `ReceiptRow`, ...). No variables. |
| `AgentRun` | The state machine around the row: worker, receipt task, checkpoint, Invocations, user, scan, crashes. Properties, liveness, refinement. |
| `DispatchOnce` | The abstract promise about tool dispatch; `AgentRun` implements it (`KeepsPromise`). |
| `AgentRunProofs` | Type correctness of `AgentRun`, the inductive invariants `FenceInv` and `PromiseInv`, the safety and action properties that follow, and that it implements `DispatchOnce`. |
| `ConversationProofs` | On top of these, the inductive invariant `TalkInv`: what is said in the conversation and the status of the run agree. |
| `Invocation` | One Invocation row, the gateway call that drives it, overlapping lookups, and the far side (effect, request, reply). Refines what `AgentRun` takes as one step, "the call is driven". |
| `InvocationProofs` | The inductive invariant `CallInv` and its consequences. |
| `GpuRuntime` | The execution endpoint of the GPU runtime: requests, lock, engine, answers, exits; and what the two sides check of an answer. |
| `ManagedRun` | Extends `GpuRuntime` by the rows of a managed task, the calls that compute it and the threads that drive them. |
| `ManagedProofs` | The inductive invariant `ManagedInv` of `ManagedRun` and its consequences. |
| `Batch` | A TC4 batch: agent call, managed rows, image rows, two threads, the runtime with receipts, the outbox. |
| `Drafts` | From a proposed call to executed arguments: frame, decoding, binding, units, normalization, draft, revision, repetition, retry. |
| `Submission` | Browser tabs, requests on their way, and the transactions that admit an operation. |
| `Deletion` | The deletion of a conversation with uploads, produced images, a call of the ML service, and both sides' rows. |
| `BatchDeletionProofs` | The inductive invariants `BatchInv` of `Batch` and `DeletionInv` of `Deletion`, their safety invariants, who may start an image, and what a decided deletion keeps. |
| `Prediction` | Predictions of the ML service, their capacity, child, publication and cancellation; the dataset they read. |
| `PredictionProofs` | The inductive invariant `PredictInv` of `Prediction`, its safety invariants and what it keeps of cancellations. |
| `SubmissionDraftsProofs` | The inductive invariants `SubmitInv` of `Submission` and `DraftsInv` of `Drafts`, their safety invariants, and what may happen to a run that waits, is paused or is stopped. |
| `TrainingSlot` | The abstract promise of the training service: one run holds the slot, leaves it once, is not published after its cancellation. |
| `MlService` | The rows, artifacts, objects and scope of the ML service: one operator per transaction, the stages of `reconcile_artifact`, users and maintenance. |
| `MlJobs` | Extends `MlService` by the training worker, its requests (waited for, or late), its children, crashes and failures; implements `TrainingSlot` (`KeepsSlot`). |
| `MlJobsProofs` | The inductive invariant `JobsInv` of `MlJobs`, its safety invariants, and that it implements `TrainingSlot`. |
| `MC...` | Instances for TLC: kinds of tools, casts of requests, offers of the model, symmetry. |

Three modules are the two sides of one interface. `AgentRun` drives a call in
one step and takes any outcome; `Invocation` is the inside of that step for
remote and local tools, `ManagedRun` and `Batch` for managed ones. `Submission`
takes a run's progress as one move; `AgentRun` is the inside of it. `Deletion`
takes a job of the ML service as a row that ends; `MlJobs` and `Prediction` are
the inside of that.

## 3. State and code

One action is one transaction, one HTTP exchange or one storage operation, or a
stretch of code that touches nothing shared. A database transaction may fail, and
then it may have been applied all the same; where the code reads again to find
out, the model does. Operators commented `Slip:` are plausible mistakes in the
operator below them. No specification uses them; each shows that a property
fails when the code is wrong.

### AgentRun

| Variable | Code |
| --- | --- |
| `run` | the `agent_run` row (`AgentRunRow.document`) |
| `msgs` | message rows of questions and answers, and the cards a waiting row shows |
| `loc` | `run` in `advance`: the worker's copy, mutated before each save, also when the save fails |
| `w` | where `work()` and `advance` stand, with `current_call`, `attempt_no`, the resume payload, `replay_checkpoint`, the error about to be stored |
| `rt` | the shielded task `complete()` with the row version and claim it carries as execution owner |
| `sdk` | the LangGraph checkpoint that reached the database |
| `inv` | Invocation status per tool-call key |
| `user` | the stop request between its two transactions, consents given, resumes used |
| `sys` | shutdown in progress, crashes and faults so far |
| `drives` | history: how often a call was handed to its executor |

`Persist` is `persist()`: the save succeeds, meets a conflict, meets a database
error that was or was not committed, or violates the transition table. A
tool-call id is a model value with a fixed kind (`plain`, `confirm`, `batch`,
`ask`); one settled model call costs one token unit; contents are left out; time
is a choice; the process record is represented by its failures only.

`tools.prepare` is two transactions, and so two actions: `Prepare` inserts the
Invocation as PENDING or finds it, `Authorize` decides it (`_authorize_initial`).
A stop, a crash or a database error may come between them or leave either of
them unacknowledged; who finds the Invocation later takes it as it is, and then
no card is put up (`Taken`). The worker's position between them is `inserted`. A
batch is inserted already decided. `PrepareFault` is a database error of either
transaction, with or without its effect. `NodeRefused` stands for every refusal
before a node changes anything: active time, context and token budgets, a
question or a call that does not pass its checks. `Raised` reads the row when the
task ends with an error; whether that row is still of the submission the task
was started for is left open when a reply has come in between.

### Invocation

| Variable | Code |
| --- | --- |
| `kind` | the tool: local STANDARD or SIDE_EFFECT, ML read, prediction, training |
| `row` | the `invocation_run` row: version, status, dispatch mark, identity, receipt, authorization |
| `gate` | what the agent's row allows: its record of the call, up to the dispatch |
| `gw` | where `prepare`, `execute`, `_drive_pending`, `_dispatch` stand |
| `look` | lookups of `reconcile_mcp`: the version they read and what they were told |
| `remote` | the effect, the request on its way, the reply, the requests sent |
| `sys` | process down, owner active, card expired, bounds |

`CallInv` holds the argument: the gate opens one drive; before the mark nothing
left, so nothing is outside; what is settled outside stays; a lookup is only
stored on the version it was asked at, and receipts only on settled rows.

### GpuRuntime and ManagedRun

| Variable | Code |
| --- | --- |
| `req` | the HTTP request of an attempt: on its way, computing (it holds the lock), answered, gone |
| `sends` | history: computations started for an attempt |
| `db` | the rows of the task, its ToolRuns with ToolResults, and the Invocations |
| `call` | the agent's record of each call: prepared, fenced, stopped, observation |
| `w` | the thread of each call: where `_drive_managed`, the workflow and the services stand, with the output in hand |
| `sys` | failures so far |

The client's view (`local_zta35g.py`): a refused connection is a definite
failure, an envelope of an error too; a timeout, a broken connection or an answer
that does not pass `_parse_output` leaves the outcome open, and the request goes
on without a sender. The runtime's view: a request computes or is refused; the
lock is given back however the engine ends; an exit drops every connection.
`ContractAssumption`, evaluated by TLC, compares the checks on an answer: every
result of the engine passes `build_execute_response`, and everything that passes
it is accepted by the client and can be committed by `result_service.py`, for
each set of outputs a task may ask for.

### Batch

| Variable | Code |
| --- | --- |
| `db` | agent run, Invocation, ToolRun, result, image rows with versions, outbox |
| `thr` | the thread the agent drives, and the one of a reconciliation |
| `posts` | images whose POST is on its way |
| `rt` | lock, receipts and files of the runtime |
| `sys` | shutdown in progress, bounds |

### Drafts

| Variable | Code |
| --- | --- |
| `refs`, `lost` | resource references of the conversation, newest first; datasets not AVAILABLE any more |
| `schema` | schema hash and version of the registered tools |
| `run` | the row: frame, pending call and map, draft, executions, retry target, messages |
| `worker`, `sdk` | the process that advances the run, and the durable checkpoint |
| `tasks` | managed tasks with their input revisions |
| `seen`, `said`, `sent` | history: what the model was shown, what the user asserted, what reached a tool |

Three tools stand for all: `train` takes a dataset with a column whose unit may
be declared, `lab` normalizes two parameters (tenths of an hour, degrees), and
`convert` only names units.

### Submission, Deletion, Prediction

| Variable | Code |
| --- | --- |
| `Submission`: `convs`, `runs`, `subs`, `ops`, `hits`, `tab`, `net` | conversations, run rows, submissions by key, what the user asked for, history of effects, the tabs (pending operation, shown runs), requests on their way |
| `Deletion`: `conv`, `del`, `scope` | conversation row with its fence, deletion rows, the scope in the ML service |
| `Deletion`: `row`, `obj`, `record`, `drain` | asset rows, objects, cleanup records, the drain of one record |
| `Deletion`: `up`, `maker`, `turn`, `inv`, `op`, `send`, `net`, `remote`, `agent`, `left` | upload requests, the producing thread, the agent's turn and call, dataset uploads, requests on their way, the far side, the deleters, bounds |
| `Prediction`: `pred`, `call`, `cap`, `reg`, `proc` | prediction rows, request threads, `prediction_capacity`, `prediction_calls`, the child |
| `Prediction`: `art`, `obj`, `data`, `user`, `job` | artifact rows, objects (also uploads still on their way), the dataset, a cancellation, reconciliations |

In `Prediction` a failed upload or publication either ends the row or leaves its
intent to the reconciliation (`GiveUp`): which one depends on the kind of the
error. The answer is read from the row (`Return`), which may fail; a request of
the agent then waits (`Poll`) until the row has ended or its own time is over.

### MlService and MlJobs

| Variable | Code |
| --- | --- |
| `runs` | `ml_training_run`: status, claim, cancel_requested, recovery_required, process_stopped; `fresh` compares heartbeat_at with `LEASE_SECONDS` |
| `arts`, `objs`, `errs` | artifact status of each package member, members whose object exists, artifacts with `maintenance_error` |
| `scope`, `closes` | `ml_scope` and `ml_scope_close` |
| `mt` | where the maintenance thread stands in `reconcile_artifact` |
| `wk` | where `Worker.run`, `recover`, `execute` stand, the claim key, the request it waits for |
| `late` | requests whose caller died or stopped waiting, with the stage they reached |
| `child`, `faults` | the child process of each run; failures so far |

A request is a record. `Serve(c, waited)` serves one stage of it, for a caller
that waits or for a late one; `GiveUp` and `Crash` move a request to `late`,
where it may be continued at any time or never. One scope and one dataset that
is AVAILABLE; the heartbeat thread is the free action `Expire` and a free reason
to stop.

## 4. Runs

A passing run is exhaustive for its instance. `CHECK_DEADLOCK FALSE` is set where
a finished system stops; the `Ml` runs keep the check, since the worker always
has a next step.

| Run | Instance and bounds | Distinct states | What it shows |
| --- | --- | --- | --- |
| `Tools` | `FairSpec`; a plain and a confirmed tool; 1 crash, 1 fault, 1 resume, 3 model calls | 0.58 M | dispatch at most once, ledgers and receipts true, a shown card is decided before computing, stop is final, nothing lost, implementation of `DispatchOnce`; active work is left, late receipts are saved |
| `Mixed` | ask, batch, ask; 1 crash, 1 fault, 2 resumes | 4.2 M | types, `FenceInv`, waiting states are addressed and answered by their own reply, terminal rows stay |
| `Calls` | five kinds of tool, 2 overlapping lookups, 3 faults, 1 crash | 0.26 M | `CallInv`; a stated outcome is true; what was found stays found |
| `Predict` | 2 callers, 2 keys, 1 fault, 1 crash, symmetric | 1.0 M | one child; published results and used datasets whole; cancellations kept |
| `Managed` | a call and two retries, both outputs; 1 fault, 1 stop, 1 crash; exits of the runtime and lost answers unbounded | 0.66 M | whole selections; one attempt, one computation; no false failure; what ended stays |
| `MlSlot` | 2 runs, 1 member, 1 failure of any kind | 0.82 M | a child trains for its own running row; implementation of `TrainingSlot` |
| `MlPackage` | `FairSpec`; 1 run, 2 members, a closing scope, 2 failures | 0.21 M | whole packages, quiet closed scopes; claims resolved, discarded objects vanish, closed scopes become clean |
| `Deletion` | 2 deletions with four casts of requests (images; a turn; datasets; a dataset and a turn), a crash, faults | see `MCDeletion` | every object tracked; both sides agree; nothing starts behind a fence |
| `Batch` | 2 images, 1 resume, 1 reconciliation, 1 failure of any kind | 1.0 M | one image at a time; records true; deletion leaves no trace; stopped runs start nothing |
| `Submission` | 2 tabs, 2 operations sent up to twice, 3 runs, 1 stop, 1 give-up or reload | 3.2 M | once per intention; one run at work; the right target |
| `Drafts` | 3 responses of the model among 20 offers, 2 messages, 1 crash, 1 change (upload, lost dataset, release), 1 retry | 3.0 M | bound as shown; trusted units; repeated calls kept |
| `Consent` | violation | | see section 7 |

Why the bounds are enough. The hazards are races between a few actors over one
row: two calls (one in flight, one before or after it), two lookups, two tabs,
two deleters, two training runs (one holds the slot, one waits), two package
members (a package can be half there). One failure hits every intermediate state;
where two failures are needed to do harm (lost answer, then restart) the run has
both. `Managed` needs three calls: a failed one, its retry, and a retry while the
thread or the request of the one before is still under way. `Mixed` needs two
questions and two resumes, since the second resume of a batch is the first that
meets its own charge. `Drafts` was also run with two changes (8.1 M states), with
the same result. `Managed` was also checked, with two calls, for tasks that ask
for one output only. Every property has a mutant of the code that breaks it.

## 5. Fairness

`AgentRun!Fairness`: weak fairness of the worker, of the receipt task and of the
scan, and of the end of a shutdown that began. The event loop runs every ready
task, models and tools have timeouts, `start_recovery_scan` returns every five
seconds, and a closing process exits. Users, crashes, faults and Invocation
reconciliation are not fair.

`MlJobs!Fairness`: weak fairness of the worker (whoever operates it restarts it
after it ends, and its waits have timeouts), of the service for a caller that
waits, of a maintenance step and of scope cleaning (a task every five seconds),
and strong fairness of picking each artifact that is due, because
`due_artifacts` orders them by `checked_at`. Users, leases, children, failures
and late requests are not fair: a late request may never be served.

The other modules state safety only. Where something may stay open for ever
there, section 7 says so.

## 6. Proofs

TLC covers small instances; the theorems hold for every value of the constants.
`AgentRun`: every set of tool-call ids, kinds, budgets and bounds, under
`BudgetAssumption`, `CallAssumption`, `BoundAssumption`. `Invocation`: every set
of kinds and lookups and every bound, under `InvocationAssumption`.
`ManagedRun`: every number of calls, stops, faults and process exits and every
set of outputs a task may ask for, under `ManagedAssumption`, `OutputsAssumption`
and, for the runtime it drives, `ContractAssumption`. `MlJobs`: every set of
runs, package size, set of requests that may be served late and every bound,
under `MemberAssumption` (a package has a file), `JobsAssumption` and
`LateAssumption` (late requests are requests of the worker). `Prediction`: every
set of keys and calls and every bound, under `PredictionAssumption`. `Submission`:
every number of tabs, operations, runs, moves and retries, under
`SubmissionAssumption`. `Deletion`: every set of deletions, requests and deleters,
under `NamesAssumption` and `RequestsAssumption`. `Drafts`: every set of
datasets, units and proposals, every state of the references and every bound; no
assumption on them is used. `Batch`: every batch the code
accepts (one to ten images) and every bound, under `BatchAssumption`; that there
are finitely many images is used where the first open one is taken.

| Theorem | Statement |
| --- | --- |
| `AgentRunProofs!TypeCorrect` | `Spec => []TypeOK`; one lemma per row operator, one step per action |
| `AgentRunProofs!TaskOwned` | a receipt task runs while its worker awaits it, or alone in a shutdown |
| `AgentRunProofs!FenceHolds` | `Spec => []FenceInv` |
| `AgentRunProofs!DispatchOnlyOnce` | `Spec => []DispatchAtMostOnce` |
| `AgentRunProofs!SuccessIsSettled` | `Spec => []SuccessOwesNothing` |
| `AgentRunProofs!PromiseHolds` | `Spec => []AllInv`: types, `FenceInv` and `PromiseInv` together |
| `AgentRunProofs!LedgersAreTrue` | `Spec => []Ledgers` |
| `AgentRunProofs!ConsentComesFirst` | `Spec => []ConsentBeforeStart`, from `ConsentInv`, which is inductive on top of `AllInv` |
| `AgentRunProofs!EndIsFinal` | `Spec => TerminalIsFinal` (action property) |
| `AgentRunProofs!NothingGetsLost` | `Spec => NothingIsLost` (action property) |
| `AgentRunProofs!StopClosesAll` | `Spec => StopIsFinal` (action property) |
| `AgentRunProofs!RunKeepsPromise` | `Spec => KeepsPromise`: `AgentRun` implements `DispatchOnce` |
| `ConversationProofs!ConversationStaysTrue` | `Spec => []ConversationIsTrue` |
| `InvocationProofs!CallInvariant` | `Spec => []CallInv` |
| `InvocationProofs!OutcomeTheorem`, `SendTheorem` | the invariants a reader cares about, from `CallInv` |
| `InvocationProofs!FoundTheorem` | the action property `FoundIsKept` |
| `ManagedProofs!ManagedInvHolds` | `Spec => []ManagedInv` |
| `ManagedProofs!NothingIsComputedTwice` | `Spec => []ComputedOnce` |
| `ManagedProofs!SelectionStaysWhole` | `Spec => []SelectionIsWhole` |
| `ManagedProofs!OutcomesAreSettled` | `Spec => []OutcomeIsSettled` |
| `ManagedProofs!EndedIsKept` | the action property `TerminalIsKept` |
| `MlJobsProofs!JobsInvHolds` | `Spec => []JobsInv` |
| `MlJobsProofs!TrainingStaysOwned` | `Spec => []TrainingIsOwned` |
| `MlJobsProofs!PackagesStayWhole` | `Spec => []PackageIsWhole` |
| `MlJobsProofs!ClosedStaysQuiet` | `Spec => []ClosedIsQuiet` |
| `MlJobsProofs!SlotIsKept` | `Spec => KeepsSlot`: `MlJobs` implements `TrainingSlot` |
| `PredictionProofs!PredictInvHolds` | `Spec => []PredictInv` |
| `PredictionProofs!OneChildHolds` | `Spec => []OneChild` |
| `PredictionProofs!ObjectsStayWhole` | `Spec => []ObjectsAreWhole` |
| `PredictionProofs!CancelsAreKept` | the action property `CancelIsKept` |
| `SubmissionDraftsProofs!SubmitInvHolds` | `Spec => []SubmitInv` |
| `SubmissionDraftsProofs!OncePerIntentionHolds` | `Spec => []OncePerIntention` |
| `SubmissionDraftsProofs!OneAtWorkHolds` | `Spec => []OneAtWork` |
| `SubmissionDraftsProofs!RightTargetHolds` | the action property `RightTarget` |
| `SubmissionDraftsProofs!SettledStaysSettled` | `DraftsSpec => []DraftsInv` |
| `SubmissionDraftsProofs!SentAsShown` | `DraftsSpec => []BoundAsShown` |
| `SubmissionDraftsProofs!OnlyStatedUnits` | `DraftsSpec => []UnitsAreTrusted` |
| `SubmissionDraftsProofs!SentOnceUnchanged` | `DraftsSpec => []CallsAreKept` |
| `BatchDeletionProofs!DeletionInvHolds` | `Spec => []DeletionInv` |
| `BatchDeletionProofs!ObjectsStayTracked` | `Spec => []ObjectsAreTracked` |
| `BatchDeletionProofs!DecisionStaysShared` | `Spec => []DecisionIsShared` |
| `BatchDeletionProofs!DecidedStaysHolds` | the action property `DecidedStays` |
| `BatchDeletionProofs!BatchInvHolds` | `BatchSpec => []BatchInv` |
| `BatchDeletionProofs!GoesOneAtATime` | `BatchSpec => []OneAtATime` |
| `BatchDeletionProofs!RecordsStayTrue` | `BatchSpec => []RecordsAreTrue` |
| `BatchDeletionProofs!DeletionCleansUp` | `BatchSpec => []CleanedUp` |
| `BatchDeletionProofs!OwnersStart` | the action property `OnlyOwnersStart` |

**The fence.** `DispatchAtMostOnce` is not inductive: from a state where the
worker's copy has forgotten a fence, a successful save would erase it and the
call could be driven again. `FenceInv` closes that: a copy as new as the row
knows every fence of the row (`CopyKeepsFences`; the version comparison of
`SaveAccepted` does the rest), a receipt task about to start has not driven its
call yet (`DrivenOnce`), only fenced calls are driven (`DrivenBehindFence`), a
row that may be put back to work owes no receipt (`NothingOwed`, which is why the
resume guard on dispatched calls is needed), and while the worker is inside the
graph only a stop moves the row out of RUNNING (`WorkerHolds`).

**The other promises of a run.** The ledgers and the consent are about rows that
two parties write: the worker saves a copy it read long before, and requests,
scans and receipts change the row meanwhile. `PromiseInv` says, in four parts,
why a save never undoes the others. `Rows`: the row and the copy are each
`Sound` (every settled model call is charged, one tool execution per fenced call,
a marked call has no observation, the fields of a phase go together) and
`Backed` by what they refer to: a prepared record has its Invocation, an approval
its card. `Copy`: a copy with the version of the row `Follows` it, that is
contains all its observations, replies, charges and its execution record, and
inside the graph is `InStep` with it. `Worker`: what the worker's locals say of
its copy at each place (`Place`). `Outside`: every Invocation, the receipt task
and the user's requests agree with the row, which holds again after every step
because of what a step may do to it: leave it alone, move it `Forward`,
mark an unknown outcome on a stopped run, or store a receipt of a call that was
driven (`Moves`). The action properties are read off these four cases, and so is
the refinement: a step of `AgentRun` fences, drives or settles calls only as
`DispatchOnce` allows.

**Consent.** An Invocation that is PENDING may be one the policy let go, one the
user approved, or one whose authorization was cut off, and nothing in the row
tells them apart. `ConsentBeforeStart` therefore says of every confirmed call that
has computed: its user approved its card, or it never showed one and there was a
crash or a database error. `ConsentInv` has two parts. A card that was put up
belongs to an Invocation that is waiting, refused or approved (`CardHolds`), whatever
fails afterwards. And while nothing has failed (`Clean`), a confirmed call nobody
approved is PENDING or further (`Passed`) only while its worker stands between
the two transactions of prepare, or behind a stop or a shutdown (`Unsettled`), and
it is never handed to a receipt task (`Handed`), since the permission of the tool
node is read from a record that was prepared after the authorization.

**The conversation.** A message is posted by the save that stores the status it
belongs to, but a save may fail or lose its acknowledgement, and the worker then
keeps, or drops, a copy that already has the next status. `TalkInv`, which is
proved on top of `AllInv`, follows message and status through this. `Letter`: a
message still to be posted sits in a copy with the status it belongs to;
`Enclosed`: a copy that would end or pause a run still at work has that message;
the row itself never has one left. So a save posts both or neither. `AtHand`: a
row asks its user or has an execution record, not both, and the question is the
pending call. `Addressed` says the same of the worker's locals at each place, and
`Replied` and `Answering` that the last reply is the one to the question that
stands, except while nobody has replied to it. These two, like
`ReplyAnswersQuestion`, speak of behaviours without faults: after a save that was
stored although it was reported as failed, a reply may meet another question.

**Gateway calls.** `OutcomeIsTrue` is not inductive either: a row FAILED says
nothing of a request still on its way. `CallInv` adds, position by position of
the gateway call, what may be outside (nothing before the mark, one request
behind it), that an outcome outside is final once it is there, that a lookup that
will be stored was asked at the version the row still has, and that a result is
only assembled from an effect that came about. Each transaction preserves all
parts together, so each action has one step per part it can disturb.

**Managed calls.** Three tables, the runtime and a thread per call have to agree
for `OutcomeIsSettled`, and the threads of a stopped call go on beside the next
one. `ManagedInv` has a global and a local part. Global: attempts are numbered in
the order of their calls, only the last is active, and it is ahead of the
selection (`Rows`); a call is admitted when the earlier ones have ended, and a
second one only when the first FAILED (`Chain`); the runtime computes at most
one attempt (`Requested`); between the failure of an attempt and its selection
nothing else is in progress (`Selecting`). Local: `Sound(c)` relates the thread of
call `c`, what the agent recorded, the Invocation, and the row, the request and
the computations of its own attempt. Its core is `Known`: whatever reports a
failure does so when the request of the attempt can compute nothing any more,
and either nothing was computed or the attempt ended by itself rather than by a
restart. A step of call `c` changes `Sound(c)` and touches another call only
through `recover_stale`, the end of the runtime or the selection; there
`Chain` and `Selecting` say in which places the others are.

**Training.** A request the worker gave up may be served at any later time, and
a worker that died is followed by one that knows nothing of it. What orders them
is the claim key: every session takes a new one, and a request, however late,
names the claim it was made under (`CallOk`). `stopped`, `recover` and
`complete`, by which a run ends, are sent only when the child of that claim can
train no more, and no later session releases a child under the same key; so a
late one finds a run whose child is quiet (`Settling`, `Early`). `Works` says at
each place of the worker that the run is its own and when its child may train,
which makes `TrainingIsOwned` inductive. For the packages, a reconciliation acts
on what it read before: `StageOk` says what each of its stages may still rely on,
or else the artifact has been discarded, after which nothing it does makes it
available (`PackOk`). The proof has two layers. Every step is a `ServiceMove`: it
turns one row, drops a run with its package, stores, cleans, closes or leaves the
tables alone. The moves keep rows, packages and the closed scope in order
(`MoveAll`), leave the worker what it relies on (`RunsOn`, `ArtsOn`), and are
steps of `TrainingSlot` (`MoveSlot`), which is the refinement.

**Predictions.** No queue orders the predictions, only the call that computes
one, and a call may fail anywhere and leave its row behind. `CallOk` says what a
computing call owns: the capacity, the row it made, and the fact that every other
prediction was stopped, which is checked once, in the transaction that creates
the row, and needed until the child is gone; from it `OneComputation` is
inductive. A child found stopped by somebody else is not released, since whoever
stops it has written the cancellation into the row before (`UserOk`, and the
cleanup of a lost call): stopped without a cancellation comes from the call
itself, or from the next start (`BootOk`: while it runs nothing else does).
For the objects, `JobOk` is what a reconciliation has read and may still rely on:
an object that was there stays, or the artifact was given up, and an artifact
that was given up never comes back; `RowOk` and `DataOk` tie the end of a row to
its artifact. The proof says for every step what it leaves of a prediction (`On`),
of an artifact (`Kept`), and, unless it is a step of its own call, of the facts
that call relies on (`Calm`); one lemma per part and one per action.

**Submissions.** A request may be served long after its tab gave it up, was
reloaded or sent it again. `OncePerIntention` says nothing of why such a request
does no harm; `SubmitInv` does. What has had its effect is `Passed`, for good: the
key of a message, reply, regeneration or retry is stored; a decided card never
stands again, because the run has gone on under that number or has a later one;
a resumed version is behind the run. A decision has no key to be found by, so
this is what makes a repeated one harmless. `RequestOk` says that a reply is sent
to the conversation of the run it answers, so that the check whether the
conversation is occupied protects that very run, which `Alone` needs.
And since a version of a run never changes its question or card (`AsSeen`), a
resume that names the current version is about the pause that was on the screen.
The proof separates what a step does to the runs (`RunPart`: no run goes back,
`Kept`), to the operations, to the requests and to the tabs; a row, request or
tab that was in order stays so whenever the runs only move forward, and each
action then accounts for the one it changes.

**Deletion.** Uploads, the thread of a turn, calls of the ML service and repeated
deletions each hold something from before the fence. `DeletionInv` says what each
may still rely on. An asset keeps its row while the conversation lives and its
cleanup record afterwards, and a record is looked at only when it exists
(`AssetOk`); whoever is about to commit an upload holds a row that only the
deletion removes, and then its own transaction finds the conversation gone
(`UploaderOk`, `MakerOk`). A live conversation is fenced by the one deletion that
is undecided, and what a deleter carries from the service is what the service
said for that deletion (`DeletionOk`, `AgentOk`, `ScopeOk`), which makes a second
request or a lost answer harmless. `CallOk` and `DatasetOk` say that a request on
its way belongs to a recorded call; the deletion commits only when all of these
have ended, so behind the fence nothing is left that could start something.

**Batches.** Two threads, a stop and the runtime touch the rows of a batch, and the
property is about their order. A thread writes the row of an image only at the
version that it read, so a row it writes is still the one it knows (`SeenOk`); an
image is marked as sent only when the rows read of all the earlier ones are final,
and final rows never change. Hence one image is open (`OrderInv`), and the request
and the computation on their way are of that image (`FlightInv`). The receipts of
the runtime only move forward, so what a thread was told stays true until a
tombstone replaces it (`RowOk`, `PlaceOk`), and a tombstone needs the deletion.
The thread of a reconciliation never sends (`CheckOk`); it works only on a stopped
run, which is what keeps it apart from the owner. The result is made of the final
rows (`ResultInv`), and a deletion leaves in the outbox what the runtime kept
(`DeletedInv`).

**Proposed calls.** A proposal passes through a resolver, a draft, a revision, a
pending call and a report, each committed on its own, while references change and
a restart may replay the last step from a checkpoint that is behind. None of the
three properties is inductive: they speak of what is sent, and nothing in them
says what will be. `DraftsInv` follows a call from its number on. Every call that
a worker or a checkpoint holds has a number of its own, under which the frame it
was made in is kept, also while its marker is pending (`Identified`). What was
resolved for it is bound as that frame shows it, has only units somebody stated,
and is the newest revision of its task (`Ready`, `Pending`); a draft that is still
open keeps a user's assertion only with the dataset it was made for (`OnFile`).
That this remains true until the call is sent rests on an order: a ready draft
has its pending call, a pending call keeps its marker, and a run in which a call
failed keeps that call's marker or has ended (`Reports`). So nothing is resolved,
and no revision is added, behind a failure, and a retry finds the input that
failed (`Failed`). Most steps settle nothing (`Calm`, `MarkerTaken`); `Resolve`,
`Record` and `Dispatch` hand one part of the invariant to the next. The units and
the two normalizations are lemmas about the operators (`UnitsStated`, `Accepted`).

Every invariant and every action property that a passing run checks is proved for
all constants; only liveness (`ActiveIsLeft`, `LateReceiptIsSaved` and
`AllIsSettled`) is left to TLC alone. Liveness under fairness and `ENABLED`,
induction over data, and recursive operators (none is used here) are out of the
prover's reach.

## 7. Where the code and its documents differ

`Consent` is a run that TLC finds violated. `create_from_proposal` inserts the
row as PENDING in one transaction and asks for the consent in a second one. When
the acknowledgement of the insert is lost, or the process dies between the two,
the existing row is returned PENDING, looks like one that needs no card, and is
dispatched unconfirmed, although `materials_ml_tools.py:96` registers every
writing ML tool with `confirmation_required=write`. `OutcomeIsTrue` and the
other properties of `Invocation` hold all the same. `AgentRun` has the same gap,
seen from the row: its `Prepare` finds a PENDING Invocation and the tool node
dispatches it (`agent_runtime.py:717`). `ConsentBeforeStart` is what remains true:
without a crash or a database error every confirmed call waits for its card, and
with them still every call whose card was put up.

The following were met while modelling; the models contain the behaviour, no run
of its own states it.

*Agent run.* A run whose budget is spent while a call's outcome is unknown is
terminated rather than paused, and its receipt is refused afterwards
(`agent_runtime.py:832-839`, `db/agent.py:659-660`). A resumed batch may call the
model before its receipt is known (`agent_runtime.py:160` against
`docs/architecture.md:46`). A settlement of a model call that is lost is not
settled by the scan (`agent_runtime.py:819-820`, `db/agent.py:485-504`). A
question whose save failed may take the reply to an earlier one
(`agent_runtime.py:652, 838-841, 294-300`; `test_agent_control.py:178`), which is
why `ReplyAnswersQuestion` is stated for runs whose saves were acknowledged. The
check of a stop at commit (`unit_of_work.py:273`) does not see UPDATE statements
and rows that were flushed before.

*Invocation.* The retry of a lost answer, while the task still selects the older
result, is refused with OBSERVATION_SOURCE_MISMATCH and terminates the run
(`agent_tools.py:761-762`; `docs/architecture.md:58` speaks of a pause).
`reconcile_mcp` keeps an identity only of receipts that were FOUND (1471-1474).
A raw timeout of a local STANDARD tool makes `_finalize_unknown` raise, and the
row stays RUNNING.

*Managed runs.* `recover_stale` fails every PENDING or RUNNING attempt of an
earlier process, also one whose computation may have taken place
(`docs/architecture.md:56, 58`); its task keeps the older selection, and one
that was PARTIALLY_SUCCEEDED becomes FAILED and cannot be retried. A run that
failed between the failure of its attempt and the selection leaves its task
RUNNING for ever (`agent_tools.py:287`). After a restart the retry of an earlier
failure may be admitted while the runtime still computes the interrupted
attempt; only the execution lock keeps the two apart (the mutant `LockIgnored`
shows it). A call whose time was spent before its request left is reported as
unknown although nothing was sent. A slow thread of a stopped retry may name the
next call's attempt in its own Invocation. `_terminalize_result_failure` is never
called.

*Batches.* A stop after DISPATCHED was committed, a reconciliation that finds no
receipt, and a late conflict of the first thread leave the Invocation FAILED and
the image OUTCOME_UNKNOWN for ever, which blocks the deletion
(`tool_invocations.py:700`). A resume replayed while the Invocation is still
PENDING and an image is unknown ends the run. A stop between the check and the
DISPATCHED commit reports a failure although images were computed
(`docs/architecture.md:48, 76`). An image refused as invalid, or a lost
acknowledgement of DISPATCHED, leaves it OUTCOME_UNKNOWN for ever.

*Drafts.* `decode_tool_arguments` refuses every unit assertion for the unit
conversion, which the resolver could take (`agent_tools.py:440-443`;
`test_unit_resolution.py:104` calls it directly): an annotated conversion stays
ambiguous. An annotation is remembered only while the same tool is proposed: with
another proposal in between, or one that leaves it out for a resource tool, the
inferred number goes on without its unit, against the comment at
`agent_tools.py:367-375`. A confirmed unit is forgotten the same way (comment at
415-417). A crash between the commit of a revision and the save of the run leaves
a READY task nobody names. An empty pending map is falsy, so a replay uses the
new frame and an invented reference may name what a restart finds
(`agent_runtime.py:644`); `BoundAsShown` therefore speaks of calls that were
shown something. The evidence of a unit is only checked to be part of the newest
message. A NEEDS_INPUT draft whose checkpoint is lost ends the run with
TOOL_CALL_SOURCE_MISMATCH (`agent_runtime.py:642-643`).

*Submission.* A stop pressed while an operation is not accepted yet reaches the
displayed run, clears the pending operation on success, and a request served
later is accepted and not stopped, although `useAgentRuns.ts:287` says that the
stop follows the acceptance. A pending operation with a wish to stop that is
refused for good can never be cleared. A definite refusal of a later attempt
drops an operation whose earlier attempt may still be accepted. The answer of a
stop replaces the shown row without looking at its version.

*Deletion.* An upload whose request never reached the service stays
OUTCOME_UNKNOWN and blocks the deletion (`ml_resources.py:127-135`), and so does
a terminated run with a dispatched call (`conversation_cleanup.py:303-304`). No
document promises otherwise.

*ML service.* A run that is cancelled before it starts leaves its scope BUSY until
maintenance (`application.py:309-310, 328-329, 475-477`). `MlPackage` leaves late
claims out (`NoClaim`): with them `ClaimsResolve` fails, because `claim` grants a
run to whatever session the request names, also to that of a worker that died;
the run is held until the next restart. A gated child whose stop was not
confirmed is hidden by the constructor's error (`windows.py:141-144`); it never
gets its release, which is why `TrainingIsOwned` holds. A prediction that is
PUBLISHING and whose upload never arrived stays RUNNING until its user cancels
it. The waiting run with the smallest random id is claimed first.

## 8. Not modelled

* The research process display: no decision reads it. Known to be delicate there:
  a crash between a terminal commit and `finish` leaves segments streaming in the
  history; an eviction between `channel()` and adding a listener resets a client
  to the changed segments only.
* Prompt assembly, token estimates, projections, formatting, artifacts, mock
  runtime, readiness, scripts, migrations: no state across calls.
* Numerics and model code: floating point.
* `local_ebsd.py` (the same exchange as `local_zta35g.py`), other tools' schemas,
  image references, legacy object identities, other buckets, reading assets,
  `AssetService.recover` (it has no caller).
* In `Batch`: spent active budgets, failures of the transaction that stores a
  receipt, images that are invalid when the batch is created, files left by an
  interrupted computation. Merged there: an asset's announcement, object and
  commit; the claim and the mark of the Invocation.
* In `ManagedRun`: the closing flag of the runtime and other holders of its lock
  are a free refusal; a lost dispatch of `create_from_output` is one choice.
* Merged in `Submission`: `_resume` stores a receipt found meanwhile and then
  accepts the resume at the version this leaves; the comparison of versions
  (`db/agent.py:133`) refuses it when anything came between, so what is observed
  is one step with either outcome. A decision reads the row before it is
  taken; the only thing a write in between can change is that an approval already
  recorded is refused rather than recognised, which `ServeDecision` allows.
* In `MlJobs`: FAILED artifacts whose object is corrupt.
* Liveness outside `AgentRun` and `MlJobs`.
