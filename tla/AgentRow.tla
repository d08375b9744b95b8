------------------------------ MODULE AgentRow ------------------------------
(***************************************************************************)
(* The durable row of one AgentRun and the short transactions that change  *)
(* it: backend infrastructure/db/agent.py (SQLAlchemyAgentStore) over      *)
(* domain/models/agent.py (AgentRun, ExecutionRecord, ModelCall).          *)
(*                                                                         *)
(* Every operator below takes a row and returns the row the transaction    *)
(* stores, or says whether the transaction accepts it.  Who may run which  *)
(* transaction, and when, is the business of module AgentRun.              *)
(*                                                                         *)
(* Data kept abstract: a provider tool-call id is a model value of         *)
(* CallIds, and one settled model call costs one unit of the token budget  *)
(* (the code charges the usage it observed or, when that is unknown, the   *)
(* reservation).  A claim is the version that took it; the code draws a    *)
(* fresh uuid, and versions only grow.                                     *)
(***************************************************************************)
EXTENDS Integers, Sequences, FiniteSets

CONSTANTS
  CallIds,            \* tool-call ids the model provider may choose
  None,               \* "no call": Python's None
  KindOf,             \* what the call with that id asks for
  MaxModelCalls,      \* budget.max_model_calls
  MaxTokens,          \* budget.max_llm_tokens, in settled model calls
  MaxToolExecutions   \* budget.max_tool_executions

ASSUME BudgetAssumption ==
  /\ MaxModelCalls \in Nat
  /\ MaxTokens \in Nat
  /\ MaxToolExecutions \in Nat

\* A standard tool, one that needs the user's consent, the TC4 batch that an
\* explicit resume may continue, and the SDK-only ask_user pseudo tool.
Kinds == {"plain", "confirm", "batch", "ask"}

ASSUME CallAssumption == None \notin CallIds /\ KindOf \in [CallIds -> Kinds]

Terminal == {"SUCCEEDED", "TERMINATED"}
Waiting == {"WAITING_FOR_USER", "WAITING_FOR_CONFIRMATION"}
Status == {"PENDING", "RUNNING", "INTERRUPTED"} \cup Waiting \cup Terminal

ErrorCodes == {"none", "PROCESS_INTERRUPTED", "TOOL_OUTCOME_UNKNOWN",
               "USER_STOPPED", "DEPENDENCY_UNAVAILABLE",
               "LLM_TEMPORARILY_UNAVAILABLE", "FATAL"}

\* The statuses of an ExecutionRecord before its receipt moves it out.
PendingStatus == {"PENDING", "PENDING_CONFIRMATION", "RUNNING", "OUTCOME_UNKNOWN"}

\* ExecutionRecord.  prepared: the Invocation id has been copied here;
\* shown: the waiting_version at which its confirmation card was shown.
\* Without a call: the run has no pending execution.
ExecutionRecord ==
  [call: CallIds \cup {None}, prepared: BOOLEAN, status: PendingStatus,
   shown: Nat, confirmed: BOOLEAN, dispatched: BOOLEAN]

NoExecution == [call |-> None, prepared |-> FALSE,
                status |-> "PENDING", shown |-> 0, confirmed |-> FALSE,
                dispatched |-> FALSE]

\* NEEDS_INPUT is the argument-resolution observation: it has no execution
\* record.  The other two are verified tool results, each with its record.
Outcomes == {"SUCCEEDED", "FAILED"}
Observations == {"none", "NEEDS_INPUT"} \cup Outcomes

AgentRunRow ==
  [status: Status, version: Nat, claim: Nat,
   calls: Seq({"RUNNING", "SUCCEEDED", "FAILED"}), llm_tokens: Nat,
   tool_executions: Nat, waiting_version: Nat,
   question: CallIds \cup {None},
   pending_execution: ExecutionRecord,
   observations: [CallIds -> Observations],
   pending_tool_call: CallIds \cup {None},
   last_reply: CallIds \cup {None},
   answered: [CallIds -> CallIds \cup {None}],
   confirmation_response: {"none", "approve", "reject"},
   recovery_replay: BOOLEAN, error_code: ErrorCodes,
   final_message: BOOLEAN, pending_message: {"none", "question", "answer"}]

\* A newly submitted run, as store.submit inserts it.
NewRow ==
  [status |-> "PENDING", version |-> 0, claim |-> 0, calls |-> <<>>,
   llm_tokens |-> 0, tool_executions |-> 0, waiting_version |-> 0,
   question |-> None, pending_execution |-> NoExecution,
   observations |-> [c \in CallIds |-> "none"], pending_tool_call |-> None,
   last_reply |-> None, answered |-> [c \in CallIds |-> None],
   confirmation_response |-> "none", recovery_replay |-> FALSE,
   error_code |-> "none", final_message |-> FALSE, pending_message |-> "none"]

\* AgentRun.validate_transition's table: what a save may turn a status into.
AllowedNext ==
  [s \in Status |->
     CASE s = "PENDING" -> {"RUNNING", "INTERRUPTED", "TERMINATED"}
       [] s = "RUNNING" -> Status \ {"PENDING"}
       [] s = "INTERRUPTED" -> {"PENDING", "INTERRUPTED", "TERMINATED"}
       [] s \in Waiting -> {"PENDING", "RUNNING", "TERMINATED"}
       [] s \in Terminal -> {}]

Dispatched(r, c) == r.pending_execution.call = c /\ r.pending_execution.dispatched
\* The execution records that hold an observation: results, never NEEDS_INPUT.
Executed(r, c) == r.observations[c] \in Outcomes
\* The call has passed the dispatch fence in this row.
Fenced(r, c) == Dispatched(r, c) \/ Executed(r, c)

Stopped(r) == r.status = "TERMINATED" /\ r.error_code = "USER_STOPPED"

Outstanding(r) == {i \in DOMAIN r.calls : r.calls[i] = "RUNNING"}

\* Slip: the running calls are closed, but nobody charges them.
SettleCallsUncharged(r) ==
  [r EXCEPT !.calls = [i \in DOMAIN r.calls |->
                         IF r.calls[i] = "RUNNING" THEN "FAILED" ELSE r.calls[i]]]
\* Slip: the reservation is given back instead of charged.
SettleCallsRefunded(r) ==
  [SettleCallsUncharged(r) EXCEPT !.llm_tokens = @ - Cardinality(Outstanding(r))]

\* Interrupted and stopped runs settle their running calls at the reservation.
SettleCalls(r) ==
  [r EXCEPT !.calls = [i \in DOMAIN r.calls |->
                         IF r.calls[i] = "RUNNING" THEN "FAILED" ELSE r.calls[i]],
            !.llm_tokens = @ + Cardinality(Outstanding(r))]

Bump(r) == [r EXCEPT !.version = @ + 1]

BudgetSpent(r) == r.llm_tokens >= MaxTokens \/ Len(r.calls) >= MaxModelCalls

-----------------------------------------------------------------------------
(* store.save: the compare-and-swap every step of the runtime goes through *)

\* Slip: the claim alone protects the row, as if only workers wrote it.
SaveAcceptedByClaim(stored, mine) ==
  stored.status = "RUNNING" => stored.claim = mine.claim

\* The stored row still is the one the writer read, and a running row is
\* written only by the holder of its claim.
SaveAccepted(stored, mine) ==
  /\ stored.version = mine.version
  /\ stored.status = "RUNNING" => stored.claim = mine.claim

\* Slip: a save is not checked against the transition table.
ValidAlways(stored, mine) == mine.status \in Status

\* validate_transition raises: its ValueError is no conflict.
Valid(stored, mine) == mine.status \in AllowedNext[stored.status]

\* pending_message becomes a message row in the same transaction.
Saved(mine) == [Bump(mine) EXCEPT !.pending_message = "none"]

-----------------------------------------------------------------------------
(* Transactions of users, of the receipt task and of the recovery scan *)

\* _stop
CanStop(r) == r.status \in {"PENDING", "RUNNING", "INTERRUPTED"}
StopRow(r) ==
  [Bump(SettleCalls(r)) EXCEPT !.status = "TERMINATED", !.error_code = "USER_STOPPED"]

\* accept_confirmation, for the card the user saw: waiting version and call.
CanDecide(r, card) ==
  /\ r.waiting_version = card[1]
  /\ r.pending_execution.call = card[2]
  /\ r.pending_execution.shown > 0
  /\ r.status = "WAITING_FOR_CONFIRMATION"
DecideRow(r, decision) ==
  [Bump(r) EXCEPT !.confirmation_response = decision, !.status = "PENDING"]

\* Slip: any reply is taken while some question is open.
CanReplyAny(r, card) == r.status = "WAITING_FOR_USER" /\ r.waiting_version > 0

\* submit with run_id: the reply to the question the user saw.
CanReply(r, card) ==
  /\ r.status = "WAITING_FOR_USER"
  /\ r.waiting_version = card[1]
  /\ r.question = card[2]
ReplyRow(r, card) == [Bump(r) EXCEPT !.status = "PENDING", !.last_reply = card[2]]

\* Slip: a call that was dispatched is resumed like any other.
CanResumeDispatched(r) == r.status = "INTERRUPTED" /\ ~BudgetSpent(r)
\* resume, with validate_resume and recovery_action.
CanResume(r) ==
  /\ r.status = "INTERRUPTED"
  /\ IF r.pending_execution.dispatched
       THEN KindOf[r.pending_execution.call] = "batch"
       ELSE ~BudgetSpent(r)
ResumeRow(r) ==
  [Bump(r) EXCEPT !.status = "PENDING", !.error_code = "none",
     !.recovery_replay = r.calls # <<>> \/ r.pending_tool_call # None]

\* Slip: the receipt of a stopped run is refused.
OwnsReceiptActive(r, c) == Dispatched(r, c) /\ r.status \in {"RUNNING", "INTERRUPTED"}

\* receipt: only the dispatched execution it names, only in these statuses.
OwnsReceipt(r, c) ==
  /\ Dispatched(r, c)
  /\ \/ r.status \in {"RUNNING", "INTERRUPTED"}
     \/ Stopped(r)
\* Slip: the execution is closed without its observation.
ReceiptRowLost(r, c, outcome) == [Bump(r) EXCEPT !.pending_execution = NoExecution]
\* Slip: the observed execution stays pending.
ReceiptRowPending(r, c, outcome) == [Bump(r) EXCEPT !.observations[c] = outcome]
ReceiptRow(r, c, outcome) ==
  [Bump(r) EXCEPT
     !.observations[c] = outcome,
     !.pending_execution = NoExecution,
     !.error_code = IF r.status = "INTERRUPTED" /\ @ = "TOOL_OUTCOME_UNKNOWN"
                      THEN "PROCESS_INTERRUPTED" ELSE @]

\* mark_outcome_unknown, for a dispatched execution the row still holds; what a
\* run that ended otherwise keeps is nobody's any more.
CanMarkUnknown(r, c) == Dispatched(r, c) /\ (r.status \in Terminal => Stopped(r))
MarkUnknownRow(r) ==
  LET q == [Bump(r) EXCEPT !.pending_execution.status = "OUTCOME_UNKNOWN"]
  IN  IF r.status \in Terminal THEN q
      ELSE [q EXCEPT !.status = "INTERRUPTED", !.error_code = "TOOL_OUTCOME_UNKNOWN"]

\* Slip: the restart takes a dispatched call for one that was never sent.
RecoverRowUnsent(r) ==
  [Bump(SettleCalls(r)) EXCEPT !.status = "INTERRUPTED", !.claim = 0,
     !.error_code = "PROCESS_INTERRUPTED", !.recovery_replay = TRUE,
     !.pending_execution.dispatched = FALSE]

\* recover_interrupted, for a row no live task of this process advances.
RecoverRow(r) ==
  LET q == [Bump(SettleCalls(r)) EXCEPT !.status = "INTERRUPTED", !.claim = 0,
              !.error_code = "PROCESS_INTERRUPTED", !.recovery_replay = TRUE]
  IN  IF r.pending_execution.dispatched
        THEN [q EXCEPT !.pending_execution.status = "OUTCOME_UNKNOWN",
                       !.error_code = "TOOL_OUTCOME_UNKNOWN"]
        ELSE q
=============================================================================
