--------------------------- MODULE AgentRunProofs ---------------------------
(***************************************************************************)
(* Theorems about module AgentRun, for every set of tool-call ids, every   *)
(* budget and every number of retries, crashes, faults and resumes.        *)
(***************************************************************************)
EXTENDS AgentRun, FiniteSetTheorems, TLAPS

-----------------------------------------------------------------------------
(* The transactions of AgentRow return rows *)

CallStatus == {"RUNNING", "SUCCEEDED", "FAILED"}

\* The running model calls of a row are finitely many.
LEMMA OutstandingType ==
  ASSUME NEW r \in AgentRunRow
  PROVE  Cardinality(Outstanding(r)) \in Nat
<1>1. r.calls \in Seq(CallStatus)
  BY Zenon DEF AgentRunRow, CallStatus
<1>2. IsFiniteSet(1..Len(r.calls))
  BY <1>1, FS_Interval
<1>3. Outstanding(r) \in SUBSET (1..Len(r.calls))
  BY <1>1 DEF Outstanding
<1>4. IsFiniteSet(Outstanding(r))
  BY <1>2, <1>3, FS_Subset
<1> QED BY <1>4, FS_CardinalityType

\* A new run is a row.
LEMMA NewRowType == NewRow \in AgentRunRow
<1>1. NoExecution \in ExecutionRecord
  BY DEF NoExecution, ExecutionRecord, PendingStatus
<1>2. <<>> \in Seq({"RUNNING", "SUCCEEDED", "FAILED"}) /\ 0 \in Nat
  OBVIOUS
<1> QED BY <1>1, <1>2, Zenon DEF NewRow, AgentRunRow, Status, ErrorCodes, Observations

\* The natural numbers of a row, and what is added to them.
LEMMA RowNumbers ==
  ASSUME NEW r \in AgentRunRow
  PROVE  /\ r.version \in Nat /\ r.version + 1 \in Nat /\ 0 \in Nat
         /\ r.llm_tokens \in Nat /\ r.llm_tokens + 1 \in Nat
         /\ r.llm_tokens + Cardinality(Outstanding(r)) \in Nat
         /\ r.tool_executions \in Nat /\ r.tool_executions + 1 \in Nat
         /\ r.waiting_version \in Nat /\ r.waiting_version + 1 \in Nat
<1>1. /\ r.version \in Nat /\ r.llm_tokens \in Nat
      /\ r.tool_executions \in Nat /\ r.waiting_version \in Nat
  BY Zenon DEF AgentRunRow
<1> QED BY <1>1, OutstandingType

\* Settling the calls of a stopped or recovered run.
LEMMA SettleCallsType ==
  ASSUME NEW r \in AgentRunRow
  PROVE  SettleCalls(r) \in AgentRunRow
<1> DEFINE calls == [i \in DOMAIN r.calls |->
                       IF r.calls[i] = "RUNNING" THEN "FAILED" ELSE r.calls[i]]
<1>1. r.calls \in Seq({"RUNNING", "SUCCEEDED", "FAILED"})
  BY Zenon DEF AgentRunRow
<1>2. calls \in Seq({"RUNNING", "SUCCEEDED", "FAILED"})
  BY <1>1
<1> QED BY <1>2, RowNumbers, Zenon DEF SettleCalls, AgentRunRow

\* A new version is a row.
LEMMA BumpType ==
  ASSUME NEW r \in AgentRunRow
  PROVE  Bump(r) \in AgentRunRow /\ Saved(r) \in AgentRunRow
<1>1. Bump(r) \in AgentRunRow
  BY RowNumbers, Zenon DEF Bump, AgentRunRow
<1> QED BY <1>1, Zenon DEF Saved, AgentRunRow

\* A member of each set the fields of a row range over.
LEMMA Members ==
  /\ "PENDING" \in Status /\ "RUNNING" \in Status /\ "INTERRUPTED" \in Status
  /\ "SUCCEEDED" \in Status /\ "TERMINATED" \in Status
  /\ "WAITING_FOR_USER" \in Status /\ "WAITING_FOR_CONFIRMATION" \in Status
  /\ "none" \in ErrorCodes /\ "PROCESS_INTERRUPTED" \in ErrorCodes
  /\ "TOOL_OUTCOME_UNKNOWN" \in ErrorCodes /\ "USER_STOPPED" \in ErrorCodes
  /\ "FATAL" \in ErrorCodes
  /\ "PENDING" \in PendingStatus /\ "RUNNING" \in PendingStatus
  /\ "PENDING_CONFIRMATION" \in PendingStatus /\ "OUTCOME_UNKNOWN" \in PendingStatus
  /\ "none" \in Observations /\ "NEEDS_INPUT" \in Observations
  /\ \A out \in Outcomes : out \in Observations
  /\ NoExecution \in ExecutionRecord
BY DEF Status, Waiting, Terminal, ErrorCodes, PendingStatus, Observations, Outcomes,
       NoExecution, ExecutionRecord

\* The transactions of the user, of the receipt task and of the scan.
LEMMA TransactionTypes ==
  ASSUME NEW r \in AgentRunRow
  PROVE  /\ StopRow(r) \in AgentRunRow
         /\ RecoverRow(r) \in AgentRunRow
         /\ ResumeRow(r) \in AgentRunRow
         /\ MarkUnknownRow(r) \in AgentRunRow
         /\ \A d \in {"approve", "reject"} : DecideRow(r, d) \in AgentRunRow
         /\ \A c : \A out \in Outcomes : ReceiptRow(r, c, out) \in AgentRunRow
         /\ \A card : card[2] \in CallIds \cup {None} => ReplyRow(r, card) \in AgentRunRow
<1>1. Bump(SettleCalls(r)) \in AgentRunRow /\ Bump(r) \in AgentRunRow
  BY SettleCallsType, BumpType
<1>2. StopRow(r) \in AgentRunRow
  BY <1>1, Members, Zenon DEF StopRow, AgentRunRow
<1>3. RecoverRow(r) \in AgentRunRow
  <2> DEFINE q == [Bump(SettleCalls(r)) EXCEPT !.status = "INTERRUPTED", !.claim = 0,
                     !.error_code = "PROCESS_INTERRUPTED", !.recovery_replay = TRUE]
  <2>1. q \in AgentRunRow
    BY <1>1, RowNumbers, Members, Zenon DEF AgentRunRow
  <2>2. [q EXCEPT !.pending_execution.status = "OUTCOME_UNKNOWN",
                  !.error_code = "TOOL_OUTCOME_UNKNOWN"] \in AgentRunRow
    BY <2>1, Members, ZenonT(60) DEF AgentRunRow, ExecutionRecord
  <2> QED BY <2>1, <2>2, Members, Zenon DEF RecoverRow
<1>4. ResumeRow(r) \in AgentRunRow
  <2>1. (r.calls # <<>> \/ r.pending_tool_call # None) \in BOOLEAN
    OBVIOUS
  <2> QED BY <1>1, <2>1, Members, ZenonT(60) DEF ResumeRow, AgentRunRow
<1>5. MarkUnknownRow(r) \in AgentRunRow
  <2> DEFINE q == [Bump(r) EXCEPT !.pending_execution.status = "OUTCOME_UNKNOWN"]
  <2>1. q \in AgentRunRow
    BY <1>1, Members, Zenon DEF AgentRunRow, ExecutionRecord
  <2>2. [q EXCEPT !.status = "INTERRUPTED", !.error_code = "TOOL_OUTCOME_UNKNOWN"]
          \in AgentRunRow
    BY <2>1, Members, Zenon DEF AgentRunRow
  <2> QED BY <2>1, <2>2, Members, Zenon DEF MarkUnknownRow
<1>6. \A d \in {"approve", "reject"} : DecideRow(r, d) \in AgentRunRow
  BY <1>1, Members, Zenon DEF DecideRow, AgentRunRow
<1>7. ASSUME NEW c, NEW out \in Outcomes
      PROVE  ReceiptRow(r, c, out) \in AgentRunRow
  <2> DEFINE b == Bump(r)
             seen == [b.observations EXCEPT ![c] = out]
             code == IF r.status = "INTERRUPTED" /\ b.error_code = "TOOL_OUTCOME_UNKNOWN"
                     THEN "PROCESS_INTERRUPTED" ELSE b.error_code
             q == [b EXCEPT !.observations = seen, !.pending_execution = NoExecution,
                            !.error_code = code]
  <2>1. ReceiptRow(r, c, out) = q
    <3>1. b \in AgentRunRow
      BY <1>1
    <3> HIDE DEF b
    <3>2. [b EXCEPT !.observations[c] = out, !.pending_execution = NoExecution,
             !.error_code = IF r.status = "INTERRUPTED" /\ @ = "TOOL_OUTCOME_UNKNOWN"
                            THEN "PROCESS_INTERRUPTED" ELSE @] = q
      BY <3>1, ZenonT(40) DEF AgentRunRow
    <3> USE DEF b
    <3> QED BY <3>2, Zenon DEF ReceiptRow
  <2>2. b \in AgentRunRow
    BY <1>1
  <2> HIDE DEF b
  <2>3. seen \in [CallIds -> Observations]
    <3>1. b.observations \in [CallIds -> Observations]
      BY <2>2, Zenon DEF AgentRunRow
    <3> QED BY <3>1, Members, Zenon
  <2>4. code \in ErrorCodes
    <3>1. b.error_code \in ErrorCodes
      BY <2>2, Zenon DEF AgentRunRow
    <3> QED BY <3>1, Members, Zenon
  <2> HIDE DEF seen, code
  <2>5. q \in AgentRunRow
    BY <2>2, <2>3, <2>4, Members, ZenonT(40) DEF AgentRunRow
  <2> USE DEF b, seen, code
  <2> QED BY <2>1, <2>5, Zenon
<1>8. ASSUME NEW card, card[2] \in CallIds \cup {None}
      PROVE  ReplyRow(r, card) \in AgentRunRow
  BY <1>1, <1>8, Members, Zenon DEF ReplyRow, AgentRunRow
<1> QED BY <1>2, <1>3, <1>4, <1>5, <1>6, <1>7, <1>8

-----------------------------------------------------------------------------
(* Type correctness *)

\* What the worker's steps may change, typed.
WorkerTyped ==
  /\ run \in AgentRunRow /\ loc \in AgentRunRow
  /\ msgs \in Messages
  /\ w \in Workers
  /\ sdk \in Positions
  /\ sys \in [closing: BOOLEAN, crashes: Nat, faults: Nat]

\* The places the worker goes to when a step is over.
LEMMA WorkerPlaces ==
  ASSUME w \in Workers
  PROVE  /\ IdleWorker \in Workers
         /\ w.pos \in Positions
         /\ \A pc \in WorkerPc : Go(pc) \in Workers
         /\ \A v \in Workers, pc \in WorkerPc, code \in ErrorCodes :
              Left(v, pc, code) \in Workers
         /\ ToolDone \in Workers
         /\ \A c, out : Message(c, out) \in Workers
<1>1. "graph" \in WorkerPc /\ "fail" \in WorkerPc /\ "idle" \in WorkerPc
  BY DEF WorkerPc
<1>2. At("none") \in Positions /\ At("model") \in Positions
  BY DEF Positions, At
<1>3. "none" \in ErrorCodes /\ "FATAL" \in ErrorCodes /\ 0 \in Nat
  BY Members
<1>4. IdleWorker \in Workers
  BY <1>1, <1>2, <1>3, Zenon DEF IdleWorker, Workers
<1>5. w.pos \in Positions
  BY Zenon DEF Workers
<1>6. \A pc \in WorkerPc : Go(pc) \in Workers
  BY Zenon DEF Go, Workers
<1>7. \A v \in Workers, pc \in WorkerPc, code \in ErrorCodes : Left(v, pc, code) \in Workers
  BY <1>4, Zenon DEF Left, Workers
<1>8. ToolDone \in Workers
  BY <1>1, <1>2, Zenon DEF ToolDone, Workers
<1>9. \A c, out : Message(c, out) \in Workers
  BY <1>1, <1>3, <1>7, <1>8, Zenon DEF Message
<1> QED BY <1>4, <1>5, <1>6, <1>7, <1>8, <1>9

\* Saving a row.
LEMMA PostedType ==
  ASSUME msgs \in Messages, NEW r \in AgentRunRow
  PROVE  Posted(r) \in Messages
<1>1. /\ r.waiting_version \in Nat
      /\ r.question \in CallIds \cup {None}
      /\ r.pending_execution.call \in CallIds \cup {None}
  BY Zenon DEF AgentRunRow, ExecutionRecord
<1>2. <<r.waiting_version, r.question>> \in Cards
      /\ <<r.waiting_version, r.pending_execution.call>> \in Cards
  BY <1>1, Zenon DEF Cards
<1>3. /\ msgs.questions \in SUBSET Cards /\ msgs.cards \in SUBSET Cards
      /\ msgs.answers \in Nat
  BY Zenon DEF Messages
<1>4. msgs.answers + (IF r.pending_message = "answer" THEN 1 ELSE 0) \in Nat
  BY <1>3
<1> QED BY <1>2, <1>3, <1>4 DEF Posted, Messages

\* Every outcome of a save keeps the types.
LEMMA SaveTypes ==
  ASSUME WorkerTyped, NEW r \in AgentRunRow
  PROVE  /\ SaveOk(r) \/ SaveFault(r) \/ SaveConflict(r) \/ SaveInvalid(r) =>
              /\ run' \in AgentRunRow /\ loc' \in AgentRunRow /\ msgs' \in Messages
              /\ sys' \in [closing: BOOLEAN, crashes: Nat, faults: Nat]
         /\ Store(r) => run' \in AgentRunRow /\ msgs' \in Messages
<1>1. Saved(r) \in AgentRunRow /\ Posted(r) \in Messages
  BY BumpType, PostedType DEF WorkerTyped
<1>2. sys.faults + 1 \in Nat
  BY DEF WorkerTyped
<1>3. [sys EXCEPT !.faults = sys.faults + 1]
        \in [closing: BOOLEAN, crashes: Nat, faults: Nat]
  BY <1>2, Zenon DEF WorkerTyped
<1>4. Store(r) => run' \in AgentRunRow /\ msgs' \in Messages
  BY <1>1, Zenon DEF Store
<1>5. SaveOk(r) => /\ run' \in AgentRunRow /\ loc' \in AgentRunRow /\ msgs' \in Messages
                   /\ sys' \in [closing: BOOLEAN, crashes: Nat, faults: Nat]
  BY <1>1, <1>4, Zenon DEF SaveOk, WorkerTyped
<1>6. SaveConflict(r) =>
        /\ run' \in AgentRunRow /\ loc' \in AgentRunRow /\ msgs' \in Messages
        /\ sys' \in [closing: BOOLEAN, crashes: Nat, faults: Nat]
  BY Zenon DEF SaveConflict, WorkerTyped
<1>8. SaveInvalid(r) =>
        /\ run' \in AgentRunRow /\ loc' \in AgentRunRow /\ msgs' \in Messages
        /\ sys' \in [closing: BOOLEAN, crashes: Nat, faults: Nat]
  BY Zenon DEF SaveInvalid, WorkerTyped
<1>7. SaveFault(r) =>
        /\ run' \in AgentRunRow /\ loc' \in AgentRunRow /\ msgs' \in Messages
        /\ sys' \in [closing: BOOLEAN, crashes: Nat, faults: Nat]
  BY <1>1, <1>3, <1>4 DEF SaveFault, WorkerTyped
<1> QED BY <1>4, <1>5, <1>6, <1>7, <1>8

\* persist() keeps the types.
LEMMA PersistTypes ==
  ASSUME WorkerTyped, NEW r \in AgentRunRow, NEW next \in Workers
  PROVE  Persist(r, next) => WorkerTyped'
<1>1. w.pos \in Positions /\ sdk \in Positions
  BY WorkerPlaces DEF WorkerTyped
<1>2. "none" \in ErrorCodes /\ "DEPENDENCY_UNAVAILABLE" \in ErrorCodes
      /\ "FATAL" \in ErrorCodes /\ "conflict" \in WorkerPc /\ "fail" \in WorkerPc
  BY DEF ErrorCodes, WorkerPc
<1>3. Left(next, "conflict", "none") \in Workers
      /\ Left(next, "fail", "FATAL") \in Workers
      /\ Left(next, "fail", "DEPENDENCY_UNAVAILABLE") \in Workers
  BY <1>2, WorkerPlaces, Zenon DEF WorkerTyped
<1> QED BY <1>1, <1>3, SaveTypes, Zenon DEF Persist, WorkerTyped

\* An exception keeps the types.
LEMMA RaiseTypes ==
  ASSUME WorkerTyped, NEW pc \in WorkerPc, NEW code \in ErrorCodes
  PROVE  /\ Exit(pc, code) => w' \in Workers /\ sdk' \in Positions
         /\ Raise(code) => WorkerTyped'
<1>1. "fail" \in WorkerPc
  BY DEF WorkerPc
<1>2. Exit(pc, code) => w' \in Workers /\ sdk' \in Positions
  BY WorkerPlaces, Zenon DEF Exit, WorkerTyped
<1>3. Exit("fail", code) => w' \in Workers /\ sdk' \in Positions
  BY <1>1, WorkerPlaces, Zenon DEF Exit, WorkerTyped
<1> QED BY <1>2, <1>3, Zenon DEF Raise, WorkerTyped

\* Settling a call and the other changes steps make to the worker's copy.
LEMMA CopyTypes ==
  ASSUME WorkerTyped
  PROVE  /\ \A r \in AgentRunRow, status \in {"RUNNING", "SUCCEEDED", "FAILED"} :
              Settled(r, status) \in AgentRunRow
         /\ \A r \in AgentRunRow : Answered(r) \in AgentRunRow
         /\ \A r \in AgentRunRow : \A c : Done(r, c) \in AgentRunRow
         /\ [loc EXCEPT !.pending_tool_call = None] \in AgentRunRow
<1>1. ASSUME NEW r \in AgentRunRow, NEW status \in {"RUNNING", "SUCCEEDED", "FAILED"}
      PROVE  Settled(r, status) \in AgentRunRow
  <2>1. r.calls \in Seq({"RUNNING", "SUCCEEDED", "FAILED"})
    BY Zenon DEF AgentRunRow
  <2>2. /\ r.calls \in [1..Len(r.calls) -> {"RUNNING", "SUCCEEDED", "FAILED"}]
        /\ Len(r.calls) \in Nat
    BY <2>1
  <2>3. [r.calls EXCEPT ![w.cur] = status]
          \in [1..Len(r.calls) -> {"RUNNING", "SUCCEEDED", "FAILED"}]
    BY <2>2, Zenon
  <2>4. [r.calls EXCEPT ![w.cur] = status] \in Seq({"RUNNING", "SUCCEEDED", "FAILED"})
    BY <2>2, <2>3
  <2> QED BY <2>4, RowNumbers, Zenon DEF Settled, AgentRunRow
<1>2. \A r \in AgentRunRow : [r EXCEPT !.pending_tool_call = None] \in AgentRunRow
  BY Zenon DEF AgentRunRow
<1> QED BY <1>1, <1>2, Zenon DEF Answered, Done, WorkerTyped

\* Every step of the worker up to the tool node.
LEMMA ModelTypes ==
  ASSUME WorkerTyped
  PROVE  Read \/ CloseoutFault \/ Claim \/ Checkpoint \/ ModelStep => WorkerTyped'
<1> USE DEF WorkerTyped
<1>0. /\ \A pc \in {"idle", "raised", "claim", "conflict", "graph", "calling", "fail"} :
           pc \in WorkerPc
      /\ \A code \in {"none", "FATAL", "LLM_TEMPORARILY_UNAVAILABLE",
                      "DEPENDENCY_UNAVAILABLE"} : code \in ErrorCodes
  BY DEF WorkerPc, ErrorCodes
<1>1. ASSUME Read PROVE WorkerTyped'
  <2>1. [run EXCEPT !.status = "RUNNING", !.claim = run.version + 1,
                    !.recovery_replay = FALSE] \in AgentRunRow
    BY RowNumbers, Members, Zenon DEF AgentRunRow
  <2>2. \A d \in {"none", "respond", "approve", "reject"}, b \in BOOLEAN :
          [IdleWorker EXCEPT !.pc = "claim", !.dec = d, !.replay = b] \in Workers
    BY <1>0, WorkerPlaces, Zenon DEF Workers
  <2>3. [IdleWorker EXCEPT !.pc = "raised"] \in Workers
    BY <1>0, WorkerPlaces, Zenon DEF Workers
  <2>4. /\ run.confirmation_response \in {"none", "approve", "reject"}
        /\ run.recovery_replay \in BOOLEAN
    BY Zenon DEF AgentRunRow
  <2>5. w' \in Workers
    BY <1>1, <2>2, <2>3, <2>4, WorkerPlaces DEF Read
  <2> QED BY <1>1, <2>1, <2>5, NewRowType, Zenon DEF Read
<1>2. ASSUME CloseoutFault PROVE WorkerTyped'
  <2>1. sys.faults + 1 \in Nat
    OBVIOUS
  <2>2. [sys EXCEPT !.faults = sys.faults + 1]
          \in [closing: BOOLEAN, crashes: Nat, faults: Nat]
    BY <2>1, Zenon
  <2> QED BY <1>0, <1>2, <2>2, WorkerPlaces, Zenon DEF CloseoutFault
<1>3. ASSUME Claim PROVE WorkerTyped'
  <2> DEFINE start == IF w.replay \/ w.dec # "none" THEN sdk ELSE At("model")
  <2>1. start \in Positions
    BY Zenon, WorkerPlaces DEF Positions, At
  <2>2. \A pos \in Positions : [w EXCEPT !.pc = "graph", !.pos = pos] \in Workers
    BY <1>0, Zenon DEF Workers
  <2>3. /\ [w EXCEPT !.pc = "graph", !.pos = start] \in Workers
        /\ Left(w, "fail", "FATAL") \in Workers
        /\ Go("conflict") \in Workers /\ Go("raised") \in Workers
    BY <1>0, <2>1, <2>2, WorkerPlaces, Zenon
  <2>4. w' \in Workers
    BY <1>3, <2>3 DEF Claim
  <2> QED BY <1>3, <2>4, SaveTypes, Zenon DEF Claim
<1>4. ASSUME Checkpoint PROVE WorkerTyped'
  BY <1>4, WorkerPlaces, Zenon DEF Checkpoint
<1>5. ASSUME BeforeModel PROVE WorkerTyped'
  <2> DEFINE r == [loc EXCEPT !.calls = Append(loc.calls, "RUNNING")]
             next == [w EXCEPT !.pc = "calling", !.cur = Len(r.calls), !.att = w.att + 1]
  <2>1. loc.calls \in Seq({"RUNNING", "SUCCEEDED", "FAILED"})
    BY Zenon DEF AgentRunRow
  <2>2. Append(loc.calls, "RUNNING") \in Seq({"RUNNING", "SUCCEEDED", "FAILED"})
        /\ Len(Append(loc.calls, "RUNNING")) \in Nat
    BY <2>1
  <2>3. r \in AgentRunRow
    BY <2>2, Zenon DEF AgentRunRow
  <2>4. r.calls = Append(loc.calls, "RUNNING")
    BY Zenon DEF AgentRunRow
  <2>5. w.att \in Nat
    BY Zenon DEF Workers
  <2>6. w.att + 1 \in Nat
    BY <2>5
  <2>7. next \in Workers
    BY <1>0, <2>2, <2>4, <2>6, Zenon DEF Workers
  <2> HIDE DEF r, next
  <2>8. Raise("FATAL") \/ Persist(r, next)
    BY <1>5, Zenon DEF BeforeModel, r, next
  <2> QED BY <1>0, <2>3, <2>7, <2>8, PersistTypes, RaiseTypes, Zenon
<1>6. ASSUME OnModel PROVE WorkerTyped'
  <2> DEFINE r == Answered(Settled(loc, "SUCCEEDED"))
             Next1(pos) == IF r.llm_tokens >= MaxTokens
                             THEN Left(w, "fail", "FATAL")
                             ELSE [w EXCEPT !.pc = "graph", !.pos = pos, !.att = 0]
  <2>1. r \in AgentRunRow
    BY CopyTypes, Zenon
  <2>2. At("final") \in Positions /\ \A c \in CallIds : AtTool(c) \in Positions
    BY DEF At, AtTool, Positions
  <2>3. \A pos \in Positions : Next1(pos) \in Workers
    <3>1. \A pos \in Positions :
            [w EXCEPT !.pc = "graph", !.pos = pos, !.att = 0] \in Workers
      BY <1>0, RowNumbers, Zenon DEF Workers
    <3> QED BY <1>0, <3>1, WorkerPlaces, Zenon
  <2>4. \A c \in CallIds : [r EXCEPT !.pending_tool_call = c] \in AgentRunRow
    BY <2>1, Zenon DEF AgentRunRow
  <2> HIDE DEF r, Next1
  <2>5. CASE Persist(r, Next1(At("final")))
    BY <2>1, <2>2, <2>3, <2>5, PersistTypes, Zenon
  <2>6. CASE \E c \in CallIds :
               Persist([r EXCEPT !.pending_tool_call = c], Next1(AtTool(c)))
    BY <2>2, <2>3, <2>4, <2>6, PersistTypes, Zenon
  <2>7. CASE Exit("fail", "FATAL") /\ loc' = r /\ UNCHANGED <<run, msgs, sys>>
    BY <1>0, <2>1, <2>7, RaiseTypes, Zenon
  <2> QED BY <1>6, <2>5, <2>6, <2>7, Zenon DEF OnModel, r, Next1
<1>7. ASSUME NEW code \in {"none", "FATAL", "LLM_TEMPORARILY_UNAVAILABLE"},
             NEW retry \in BOOLEAN, ModelFailure(code, retry)
      PROVE  WorkerTyped'
  <2>1. Settled(loc, "FAILED") \in AgentRunRow
    BY CopyTypes, Zenon
  <2>2. Go("graph") \in Workers /\ Left(w, "fail", code) \in Workers /\ Broken \in Workers
    BY <1>0, WorkerPlaces, Zenon DEF Broken
  <2>3. /\ w' \in Workers
        /\ SaveOk(Settled(loc, "FAILED")) \/ SaveFault(Settled(loc, "FAILED"))
             \/ SaveConflict(Settled(loc, "FAILED"))
        /\ sdk' \in Positions
    BY <1>7, <2>2, WorkerPlaces DEF ModelFailure
  <2> QED BY <2>1, <2>3, SaveTypes, Zenon
<1> QED BY <1>1, <1>2, <1>3, <1>4, <1>5, <1>6, <1>7
        DEF ModelStep, ModelRetry, ModelPaused, ModelRejected

\* The Invocation is inserted or authorized in this step, with the status s.
Recreated(s) ==
  /\ OwnerActive(loc.version, loc.claim)
  /\ inv' = [inv EXCEPT ![Call] = s]
  /\ \/ Prepare /\ inv[Call] = "none" /\ s = "PENDING"
     \/ /\ Authorize /\ inv[Call] = "PENDING" /\ KindOf[Call] # "batch"
        /\ s \in Authorized(Call)

\* The outcomes of the two transactions of prepare.
LEMMA PrepareShape ==
  ASSUME Prepare \/ Authorize
  PROVE  /\ Prepare => Ready /\ ~Record.prepared /\ w.pc = "graph"
         /\ Authorize => w.pc = "inserted"
         /\ UNCHANGED <<run, msgs, loc, rt, user, drives>>
         /\ sys' = sys \/ PrepareFault
         /\ \/ /\ inv' = inv
               /\ PrepareBroken \/ Exit("conflict", "none") \/ Exit("fail", "FATAL")
            \/ /\ inv' = inv /\ inv[Call] \notin {"DENIED", "FAILED"}
               /\ Prepare => inv[Call] # "none"
               /\ w' = Go("prepared") /\ sdk' = sdk
            \/ \E s : /\ Recreated(s)
                      /\ \/ PrepareBroken \/ Exit("fail", "FATAL")
                         \/ s # "DENIED" /\ w' = Go("prepared") /\ sdk' = sdk
                         \/ Prepare /\ w' = Go("inserted") /\ sdk' = sdk
<1>1. CASE Prepare
  <2>1. /\ Ready /\ ~Record.prepared /\ w.pc = "graph"
        /\ UNCHANGED <<run, msgs, loc, rt, user, drives>>
    BY <1>1, Zenon DEF Prepare, Ready, Handling, Fresh, AtNode
  <2>2. ~Authorize
    BY <2>1 DEF Authorize
  <2>3. sys' = sys \/ PrepareFault
    BY <1>1, Zenon DEF Prepare
  <2>4. \/ inv' = inv /\ inv[Call] # "none" /\ Taken(inv[Call])
        \/ inv' = inv /\ (Exit("conflict", "none") \/ PrepareBroken)
        \/ /\ inv[Call] = "none" /\ OwnerActive(loc.version, loc.claim)
           /\ inv' = [inv EXCEPT ![Call] = "PENDING"]
           /\ (w' = Go("inserted") /\ sdk' = sdk) \/ Taken("PENDING") \/ PrepareBroken
    BY <1>1 DEF Prepare
  <2>5. CASE inv' = inv /\ inv[Call] # "none" /\ Taken(inv[Call])
    BY <2>1, <2>2, <2>3, <2>5, Zenon DEF Taken
  <2>6. CASE inv' = inv /\ (Exit("conflict", "none") \/ PrepareBroken)
    BY <2>1, <2>2, <2>3, <2>6, Zenon
  <2>7. CASE /\ inv[Call] = "none" /\ OwnerActive(loc.version, loc.claim)
             /\ inv' = [inv EXCEPT ![Call] = "PENDING"]
             /\ (w' = Go("inserted") /\ sdk' = sdk) \/ Taken("PENDING") \/ PrepareBroken
    <3>1. Recreated("PENDING")
      BY <1>1, <2>7, Zenon DEF Recreated
    <3>2. Taken("PENDING") => w' = Go("prepared") /\ sdk' = sdk
      BY DEF Taken
    <3>3. "PENDING" # "DENIED"
      OBVIOUS
    <3>4. \/ PrepareBroken
          \/ "PENDING" # "DENIED" /\ w' = Go("prepared") /\ sdk' = sdk
          \/ Prepare /\ w' = Go("inserted") /\ sdk' = sdk
      BY <1>1, <2>7, <3>2, <3>3, Zenon
    <3> QED BY <2>1, <2>2, <2>3, <3>1, <3>4, Zenon
  <2> QED BY <2>4, <2>5, <2>6, <2>7, Zenon
<1>2. CASE Authorize
  <2>1. w.pc = "inserted" /\ UNCHANGED <<run, msgs, loc, rt, user, drives>>
    BY <1>2, Zenon DEF Authorize
  <2>2. ~Prepare
    BY <2>1 DEF Prepare, Ready, Handling, Fresh, AtNode
  <2>3. sys' = sys \/ PrepareFault
    BY <1>2, Zenon DEF Authorize
  <2>4. \/ inv' = inv /\ Taken(inv[Call])
        \/ inv' = inv /\ (Exit("conflict", "none") \/ PrepareBroken)
        \/ /\ inv[Call] = "PENDING" /\ KindOf[Call] # "batch"
           /\ OwnerActive(loc.version, loc.claim)
           /\ \E s \in Authorized(Call) :
                /\ inv' = [inv EXCEPT ![Call] = s]
                /\ Taken(s) \/ PrepareBroken
    BY <1>2 DEF Authorize
  <2>5. CASE inv' = inv /\ Taken(inv[Call])
    BY <2>1, <2>2, <2>3, <2>5, Zenon DEF Taken
  <2>6. CASE inv' = inv /\ (Exit("conflict", "none") \/ PrepareBroken)
    BY <2>1, <2>2, <2>3, <2>6, Zenon
  <2>7. CASE /\ inv[Call] = "PENDING" /\ KindOf[Call] # "batch"
             /\ OwnerActive(loc.version, loc.claim)
             /\ \E s \in Authorized(Call) :
                  /\ inv' = [inv EXCEPT ![Call] = s]
                  /\ Taken(s) \/ PrepareBroken
    <3>1. PICK s \in Authorized(Call) :
             inv' = [inv EXCEPT ![Call] = s] /\ (Taken(s) \/ PrepareBroken)
      BY <2>7
    <3>2. Recreated(s)
      BY <1>2, <2>7, <3>1, Zenon DEF Recreated
    <3>3. Taken(s) => \/ Exit("fail", "FATAL")
                      \/ s # "DENIED" /\ w' = Go("prepared") /\ sdk' = sdk
      BY Zenon DEF Taken
    <3> QED BY <2>1, <2>2, <2>3, <3>1, <3>2, <3>3, Zenon
  <2> QED BY <2>4, <2>5, <2>6, <2>7, Zenon
<1> QED BY <1>1, <1>2

\* The steps of the tool node; those that also touch other variables are typed
\* in the worker's part here and in the rest below.
LEMMA ToolTypes ==
  ASSUME WorkerTyped, w.pc = "found" => inv[w.pos.call] \in Outcomes
  PROVE  ToolStep => WorkerTyped'
<1> USE DEF WorkerTyped
<1>0. /\ \A pc \in {"graph", "inserted", "prepared", "confirmed", "interrupted", "await",
                    "found", "recorded", "conflict", "fail"} : pc \in WorkerPc
      /\ \A code \in {"none", "FATAL", "TOOL_OUTCOME_UNKNOWN", "DEPENDENCY_UNAVAILABLE"} :
            code \in ErrorCodes
  BY DEF WorkerPc, ErrorCodes
<1>1. /\ Go("graph") \in Workers /\ Go("prepared") \in Workers /\ Go("inserted") \in Workers
      /\ Go("confirmed") \in Workers /\ Go("interrupted") \in Workers
      /\ Go("await") \in Workers /\ Go("found") \in Workers /\ Go("recorded") \in Workers
      /\ ToolDone \in Workers
      /\ \A c, out : Message(c, out) \in Workers
  BY <1>0, WorkerPlaces, Zenon
<1>2. /\ Raise("FATAL") => WorkerTyped'
      /\ Raise("TOOL_OUTCOME_UNKNOWN") => WorkerTyped'
      /\ Exit("fail", "FATAL") => w' \in Workers /\ sdk' \in Positions
      /\ Exit("conflict", "none") => w' \in Workers /\ sdk' \in Positions
      /\ Exit("fail", "TOOL_OUTCOME_UNKNOWN") => w' \in Workers /\ sdk' \in Positions
      /\ PrepareBroken => w' \in Workers /\ sdk' \in Positions
  BY <1>0, RaiseTypes, Zenon DEF PrepareBroken
<1>3. \A r \in AgentRunRow, next \in Workers : Persist(r, next) => WorkerTyped'
  BY PersistTypes, Zenon
<1>4. ASSUME ReplayCompleted PROVE WorkerTyped'
  <2>1. CASE loc.pending_tool_call = Call
    BY <1>1, <1>3, <1>4, <2>1, CopyTypes, Zenon DEF ReplayCompleted
  <2>2. CASE loc.pending_tool_call # Call
    <3>1. w' \in Workers /\ UNCHANGED <<run, msgs, loc, sys>> /\ sdk' \in {w.pos, sdk}
      BY <1>1, <1>4, <2>2 DEF ReplayCompleted
    <3> QED BY <3>1, WorkerPlaces, Zenon
  <2> QED BY <2>1, <2>2
<1>5. ASSUME ReplayAnswered PROVE WorkerTyped'
  BY <1>1, <1>5, Zenon DEF ReplayAnswered
<1>6. ASSUME SourceMismatch PROVE WorkerTyped'
  BY <1>2, <1>6, Zenon DEF SourceMismatch
<1>7. ASSUME AskUser PROVE WorkerTyped'
  <2>1. Call = loc.pending_tool_call
    BY <1>7, Zenon DEF AskUser, Handling
  <2>2. Call \in CallIds \cup {None} /\ loc.last_reply \in CallIds \cup {None}
        /\ None \in CallIds \cup {None}
    BY <2>1, Zenon DEF AgentRunRow
  <2>3. [loc EXCEPT !.question = Call, !.waiting_version = loc.waiting_version + 1,
           !.pending_message = "question", !.status = "WAITING_FOR_USER"] \in AgentRunRow
    BY <2>2, RowNumbers, Members, Zenon DEF AgentRunRow
  <2>4. Done(loc, Call) \in AgentRunRow
    BY CopyTypes, Zenon
  <2>5. [Done(loc, Call) EXCEPT !.answered[Call] = loc.last_reply, !.question = None]
          \in AgentRunRow
    BY <2>2, <2>4, Zenon DEF AgentRunRow
  <2>6. [ToolDone EXCEPT !.dec = "none"] \in Workers
    BY <1>1, Zenon DEF Workers
  <2> QED BY <1>1, <1>3, <1>7, <2>3, <2>5, <2>6, Zenon DEF AskUser
<1>8. ASSUME Resolve PROVE WorkerTyped'
  <2>1. Call = loc.pending_tool_call
    BY <1>8, Zenon DEF Resolve, Handling
  <2>2. Call \in CallIds \cup {None}
    BY <2>1, Zenon DEF AgentRunRow
  <2>3. Done(loc, Call) \in AgentRunRow
    BY CopyTypes, Zenon
  <2>4. [Done(loc, Call) EXCEPT !.observations[Call] = "NEEDS_INPUT"] \in AgentRunRow
    BY <2>3, Members, Zenon DEF AgentRunRow
  <2>5. [NoExecution EXCEPT !.call = Call] \in ExecutionRecord
    BY <2>2, Members, Zenon DEF ExecutionRecord
  <2>6. [loc EXCEPT !.pending_execution = [NoExecution EXCEPT !.call = Call]] \in AgentRunRow
    BY <2>5, Zenon DEF AgentRunRow
  <2> QED BY <1>1, <1>2, <1>3, <1>8, <2>4, <2>6, Zenon DEF Resolve
<1>9. ASSUME Prepare \/ Authorize PROVE WorkerTyped'
  <2>1. w' \in Workers /\ sdk' \in Positions /\ UNCHANGED <<run, msgs, loc>>
    BY <1>1, <1>2, <1>9, PrepareShape, Zenon
  <2>2. sys.faults + 1 \in Nat
    OBVIOUS
  <2>3. PrepareFault => sys' \in [closing: BOOLEAN, crashes: Nat, faults: Nat]
    BY <2>2, Zenon DEF PrepareFault
  <2>4. sys' = sys \/ PrepareFault
    BY <1>9, PrepareShape, Zenon
  <2> QED BY <2>1, <2>3, <2>4, Zenon
<1>10. ASSUME Prepared PROVE WorkerTyped'
  <2>1. \A s \in PendingStatus :
          [loc EXCEPT !.pending_execution.prepared = TRUE,
                      !.pending_execution.status = s] \in AgentRunRow
    BY Zenon DEF AgentRunRow, ExecutionRecord
  <2> QED BY <1>1, <1>3, <1>10, <2>1, Members, Zenon DEF Prepared
<1>11. ASSUME ShowCard PROVE WorkerTyped'
  <2>1. [loc EXCEPT !.waiting_version = loc.waiting_version + 1,
           !.pending_execution.shown = loc.waiting_version + 1,
           !.status = "WAITING_FOR_CONFIRMATION"] \in AgentRunRow
    BY RowNumbers, Members, Zenon DEF AgentRunRow, ExecutionRecord
  <2> QED BY <1>1, <1>3, <1>11, <2>1, Zenon DEF ShowCard
<1>12. ASSUME ApplyDecision PROVE WorkerTyped'
  BY <1>1, <1>2, <1>12, Zenon DEF ApplyDecision
<1>13. ASSUME Confirmed PROVE WorkerTyped'
  <2>1. [loc EXCEPT !.pending_execution.confirmed = TRUE,
                    !.confirmation_response = "none"] \in AgentRunRow
    BY Zenon DEF AgentRunRow, ExecutionRecord
  <2>2. [w EXCEPT !.pc = "graph", !.dec = "none"] \in Workers
    BY <1>0, Zenon DEF Workers
  <2> QED BY <1>3, <1>13, <2>1, <2>2, Zenon DEF Confirmed
<1>14. ASSUME DispatchFence PROVE WorkerTyped'
  <2>1. [loc EXCEPT !.pending_execution.dispatched = TRUE,
                    !.pending_execution.status = "RUNNING",
                    !.tool_executions = loc.tool_executions + 1] \in AgentRunRow
    BY RowNumbers, Members, Zenon DEF AgentRunRow, ExecutionRecord
  <2> QED BY <1>1, <1>2, <1>3, <1>14, <2>1, Zenon DEF DispatchFence
<1>15. ASSUME Continue PROVE WorkerTyped'
  BY <1>1, <1>2, <1>15, Zenon DEF Continue
<1>16. ASSUME Found PROVE WorkerTyped'
  <2>1. ReceiptRow(run, Call, inv[Call]) \in AgentRunRow
    BY <1>16, TransactionTypes, Zenon DEF Found, Call
  <2> QED BY <1>1, <1>2, <1>16, <2>1, Zenon DEF Found
<1>17. ASSUME Recorded PROVE WorkerTyped'
  BY <1>1, <1>3, <1>17, CopyTypes, Zenon DEF Recorded
<1>18. ASSUME Awaited PROVE WorkerTyped'
  BY <1>1, <1>2, <1>3, <1>18, CopyTypes, Zenon DEF Awaited
<1> QED BY <1>4, <1>5, <1>6, <1>7, <1>8, <1>9, <1>10, <1>11, <1>12, <1>13, <1>14, <1>15,
           <1>16, <1>17, <1>18, Zenon DEF ToolStep

\* The row the exception handler of advance stores under an error code, and how
\* its save ends.
FailRow(code) ==
  [loc EXCEPT !.error_code = code, !.final_message = FALSE, !.pending_message = "none",
              !.status = IF code = "FATAL" THEN "TERMINATED" ELSE "INTERRUPTED"]
FailSaved(r) ==
  \/ SaveOk(r) /\ w' = Go("read")
  \/ SaveConflict(r) /\ w' = Go("read")
  \/ SaveFault(r) /\ w' = Go("raised")
  \/ SaveInvalid(r) /\ w' = Go("raised")

\* The handler stores the error at hand, or that the run cannot go on.
LEMMA FailShape ==
  ASSUME FailSave
  PROVE  \E code \in {IF BudgetSpent(loc) THEN "FATAL" ELSE w.code, "FATAL"} :
           FailSaved(FailRow(code))
BY DEF FailSave, FailSaved, FailRow

\* The ends of an advance.
LEMMA EndTypes ==
  ASSUME WorkerTyped
  PROVE  EndStep => WorkerTyped'
<1> USE DEF WorkerTyped
<1>0. /\ \A pc \in {"read", "conflict", "fail", "raised", "dying", "closing", "idle"} :
           pc \in WorkerPc
      /\ \A code \in {"none", "FATAL", "DEPENDENCY_UNAVAILABLE"} : code \in ErrorCodes
  BY DEF WorkerPc, ErrorCodes
<1>1. /\ Go("read") \in Workers /\ Go("raised") \in Workers /\ Go("dying") \in Workers
      /\ Go("closing") \in Workers
      /\ Left(w, "conflict", "none") \in Workers /\ Broken \in Workers
      /\ IdleWorker \in Workers /\ w.pos \in Positions
  BY <1>0, WorkerPlaces, Zenon DEF Broken
<1>2. \A r \in AgentRunRow, next \in Workers : Persist(r, next) => WorkerTyped'
  BY PersistTypes, Zenon
<1>3. Raise("FATAL") => WorkerTyped'
  BY <1>0, RaiseTypes, Zenon
<1>4. \A r \in AgentRunRow :
        SaveOk(r) \/ SaveFault(r) \/ SaveConflict(r) \/ SaveInvalid(r) =>
          /\ run' \in AgentRunRow /\ loc' \in AgentRunRow /\ msgs' \in Messages
          /\ sys' \in [closing: BOOLEAN, crashes: Nat, faults: Nat]
  BY SaveTypes, Zenon
<1>5. ASSUME Interrupted PROVE WorkerTyped'
  <2>1. \A s \in Status : [loc EXCEPT !.status = s] \in AgentRunRow
    BY Zenon DEF AgentRunRow
  <2> DEFINE waiting == IF loc.question # None THEN "WAITING_FOR_USER"
                        ELSE "WAITING_FOR_CONFIRMATION"
             r == [loc EXCEPT !.status = waiting]
  <2>2. r \in AgentRunRow
    BY <2>1, Members, Zenon
  <2>3. \/ UNCHANGED <<run, msgs, loc, sys>>
        \/ SaveOk(r) \/ SaveFault(r) \/ SaveConflict(r) \/ SaveInvalid(r)
    BY <1>5, Zenon DEF Interrupted
  <2>4. w' \in Workers /\ sdk' \in Positions
    BY <1>1, <1>5, Zenon DEF Interrupted
  <2> HIDE DEF r
  <2> QED BY <1>4, <2>2, <2>3, <2>4, Zenon
<1>6. ASSUME FinalAnswer PROVE WorkerTyped'
  <2>1. [loc EXCEPT !.final_message = TRUE, !.pending_message = "answer",
           !.question = None, !.status = "SUCCEEDED"] \in AgentRunRow
    BY Members, Zenon DEF AgentRunRow
  <2> QED BY <1>1, <1>2, <1>3, <1>6, <2>1, Zenon DEF FinalAnswer
<1>7. ASSUME FailSettle PROVE WorkerTyped'
  BY <1>4, <1>7, CopyTypes, Zenon DEF FailSettle
<1>8. ASSUME FailSave PROVE WorkerTyped'
  <2>0. PICK code \in {IF BudgetSpent(loc) THEN "FATAL" ELSE w.code, "FATAL"} :
          FailSaved(FailRow(code))
    BY <1>8, FailShape, Zenon
  <2> DEFINE r == FailRow(code)
  <2>1. w.code \in ErrorCodes
    BY Zenon DEF Workers
  <2>2. code \in ErrorCodes
    BY <1>0, <2>1
  <2>3. r \in AgentRunRow
    <3>1. (IF code = "FATAL" THEN "TERMINATED" ELSE "INTERRUPTED") \in Status
      BY Members, Zenon
    <3>2. \A e \in ErrorCodes, s \in Status :
            [loc EXCEPT !.error_code = e, !.final_message = FALSE,
               !.pending_message = "none", !.status = s] \in AgentRunRow
      BY Zenon DEF AgentRunRow
    <3> QED BY <2>2, <3>1, <3>2, Zenon DEF FailRow
  <2>4. /\ SaveOk(r) \/ SaveFault(r) \/ SaveConflict(r) \/ SaveInvalid(r)
        /\ w' = Go("read") \/ w' = Go("raised")
        /\ sdk' = sdk
    BY <1>8, <2>0, Zenon DEF FailSave, FailSaved
  <2> HIDE DEF r
  <2> QED BY <1>1, <1>4, <2>3, <2>4, Zenon
<1>9. ASSUME Conflict PROVE WorkerTyped'
  BY <1>1, <1>9, Zenon DEF Conflict
<1>10. ASSUME Raised PROVE WorkerTyped'
  <2>1. [run EXCEPT !.status = "INTERRUPTED", !.error_code = "PROCESS_INTERRUPTED"]
          \in AgentRunRow
    BY Members, Zenon DEF AgentRunRow
  <2> QED BY <1>1, <1>10, <2>1, NewRowType, Zenon DEF Raised
<1>11. ASSUME RaisedSave PROVE WorkerTyped'
  BY <1>1, <1>4, <1>11, Zenon DEF RaisedSave
<1>12. ASSUME Dying PROVE WorkerTyped'
  BY <1>1, <1>12, NewRowType, Zenon DEF Dying
<1>13. ASSUME NodeRefused PROVE WorkerTyped'
  BY <1>3, <1>13, Zenon DEF NodeRefused
<1> QED BY <1>5, <1>6, <1>7, <1>8, <1>9, <1>10, <1>11, <1>12, <1>13, Zenon DEF EndStep

\* The receipt task.
LEMMA TaskTypes ==
  ASSUME TypeOK
  PROVE  TaskNext => TypeOK'
<1> USE DEF TypeOK
<1>0. /\ "awaited" \in WorkerPc /\ "conflict" \in WorkerPc /\ "fail" \in WorkerPc
      /\ "none" \in ErrorCodes /\ "DEPENDENCY_UNAVAILABLE" \in ErrorCodes
      /\ NoTask \in ReceiptTasks
  BY DEF WorkerPc, ErrorCodes, NoTask, ReceiptTasks
<1>1. \A s \in {"start", "running", "finished"},
        out \in {"none", "SUCCEEDED", "FAILED", "OUTCOME_UNKNOWN", "RAISED"} :
        /\ [rt EXCEPT !.st = s, !.out = out] \in ReceiptTasks
        /\ [rt EXCEPT !.st = s] \in ReceiptTasks
  BY Zenon DEF ReceiptTasks
<1>2. \A s \in InvocationStatus : [inv EXCEPT ![rt.call] = s] \in [CallIds -> InvocationStatus]
  BY Zenon
<1>3. /\ \A s \in Outcomes \cup {"OUTCOME_UNKNOWN", "RUNNING"} : s \in InvocationStatus
      /\ \A s \in Outcomes \cup {"OUTCOME_UNKNOWN"} :
           s \in {"none", "SUCCEEDED", "FAILED", "OUTCOME_UNKNOWN", "RAISED"}
      /\ "FAILED" \in Outcomes
  BY DEF InvocationStatus, Outcomes
<1>4. [sys EXCEPT !.faults = sys.faults + 1]
        \in [closing: BOOLEAN, crashes: Nat, faults: Nat]
  <2>1. sys.faults + 1 \in Nat
    OBVIOUS
  <2> QED BY <2>1, Zenon
<1>5. Go("awaited") \in Workers /\ w.pos \in Positions
      /\ Left(w, "conflict", "none") \in Workers
      /\ Left(w, "fail", "DEPENDENCY_UNAVAILABLE") \in Workers
  BY <1>0, WorkerPlaces, Zenon
<1>6. /\ \A row \in AgentRunRow :
           Wake(row) => w' \in Workers /\ loc' \in AgentRunRow /\ sdk' \in Positions
      /\ WakeWith("conflict", "none") =>
           w' \in Workers /\ loc' \in AgentRunRow /\ sdk' \in Positions
      /\ WakeWith("fail", "DEPENDENCY_UNAVAILABLE") =>
           w' \in Workers /\ loc' \in AgentRunRow /\ sdk' \in Positions
  BY <1>5 DEF Wake, WakeWith, Exit
<1>11. /\ MarkUnknownRow(run) \in AgentRunRow
      /\ \A c : \A out \in Outcomes : ReceiptRow(run, c, out) \in AgentRunRow
  BY TransactionTypes, Zenon
<1>7. ASSUME TaskStart PROVE TypeOK'
  <2>1. [drives EXCEPT ![rt.call] = drives[rt.call] + 1] \in [CallIds -> Nat]
    <3>1. CASE rt.call \in CallIds
      <4>1. drives[rt.call] + 1 \in Nat
        BY <3>1
      <4> QED BY <4>1, Zenon
    <3>2. CASE rt.call \notin CallIds
      BY <3>2
    <3> QED BY <3>1, <3>2
  <2>2. inv' \in [CallIds -> InvocationStatus] /\ rt' \in ReceiptTasks
    BY <1>1, <1>2, <1>3, <1>7 DEF TaskStart
  <2> QED BY <1>7, <2>1, <2>2, Zenon DEF TaskStart
<1>8. ASSUME TaskFinish PROVE TypeOK'
  <2>1. inv' \in [CallIds -> InvocationStatus]
    BY <1>2, <1>3, <1>8, ZenonT(60) DEF TaskFinish
  <2>3. rt' \in ReceiptTasks
    <3>1. "finished" \in {"start", "running", "finished"}
      OBVIOUS
    <3> QED BY <1>1, <1>3, <1>8, <3>1, ZenonT(60) DEF TaskFinish
  <2>2. sys' \in [closing: BOOLEAN, crashes: Nat, faults: Nat]
    BY <1>4, <1>8 DEF TaskFinish
  <2> QED BY <1>8, <2>1, <2>2, <2>3, Zenon DEF TaskFinish
<1>9. ASSUME TaskRecord PROVE TypeOK'
  <2>1. /\ run' \in AgentRunRow /\ w' \in Workers /\ loc' \in AgentRunRow
        /\ sdk' \in Positions
    <3> DEFINE outcome == Reported(rt.out)
    <3> HIDE DEF outcome
    <3>1. \/ run' = run /\ Wake(run)
          \/ run' = MarkUnknownRow(run) /\ Wake(MarkUnknownRow(run))
          \/ /\ outcome \in Outcomes
             /\ run' = ReceiptRow(run, rt.call, outcome)
             /\ Wake(ReceiptRow(run, rt.call, outcome))
          \/ run' = run /\ WakeWith("conflict", "none")
      BY <1>9, Zenon DEF TaskRecord, outcome
    <3>2. CASE run' = run /\ Wake(run)
      BY <1>6, <3>2, Zenon
    <3>3. CASE run' = MarkUnknownRow(run) /\ Wake(MarkUnknownRow(run))
      BY <1>6, <1>11, <3>3, Zenon
    <3>4. CASE /\ outcome \in Outcomes
               /\ run' = ReceiptRow(run, rt.call, outcome)
               /\ Wake(ReceiptRow(run, rt.call, outcome))
      BY <1>6, <1>11, <3>4, Zenon
    <3>5. CASE run' = run /\ WakeWith("conflict", "none")
      BY <1>6, <3>5, Zenon
    <3> QED BY <3>1, <3>2, <3>3, <3>4, <3>5, Zenon
  <2> QED BY <1>0, <1>9, <2>1, Zenon DEF TaskRecord
<1>10. ASSUME TaskRecordFault PROVE TypeOK'
  <2>1. run' \in AgentRunRow
    BY <1>11, <1>10 DEF TaskRecordFault
  <2> QED BY <1>0, <1>4, <1>6, <1>10, <2>1, Zenon DEF TaskRecordFault
<1> QED BY <1>7, <1>8, <1>9, <1>10, Zenon DEF TaskNext

\* The requests of the user and the recovery scan.
LEMMA UserTypes ==
  ASSUME TypeOK
  PROVE  UserNext \/ ScanNext => TypeOK'
<1> USE DEF TypeOK
<1>0. "read" \in WorkerPc /\ {"FAILED", "REJECTED"} \subseteq InvocationStatus
  BY DEF WorkerPc, InvocationStatus
<1>1. Schedule => w' \in Workers
  BY <1>0, WorkerPlaces, Zenon DEF Schedule
<1>2. /\ StopRow(run) \in AgentRunRow /\ RecoverRow(run) \in AgentRunRow
      /\ ResumeRow(run) \in AgentRunRow
      /\ \A d \in {"approve", "reject"} : DecideRow(run, d) \in AgentRunRow
      /\ \A c : \A out \in Outcomes : ReceiptRow(run, c, out) \in AgentRunRow
      /\ \A card : card[2] \in CallIds \cup {None} => ReplyRow(run, card) \in AgentRunRow
  BY TransactionTypes, Zenon
<1>3. \A s \in {"none", "committed", "done", "lost"} : [user EXCEPT !.stop = s] \in Requests
  BY Zenon DEF Requests
<1>4. ASSUME Stop PROVE TypeOK'
  <2>1. user' \in Requests /\ run' \in AgentRunRow
    BY <1>2, <1>3, <1>4 DEF Stop
  <2> QED BY <1>4, <2>1, Zenon DEF Stop
<1>5. ASSUME StopSettle PROVE TypeOK'
  <2>1. user' \in Requests
    BY <1>3, <1>5 DEF StopSettle
  <2>2. \A c : \A s \in {"FAILED", "REJECTED"} :
          [inv EXCEPT ![c] = s] \in [CallIds -> InvocationStatus]
    BY <1>0, Zenon
  <2>3. inv' \in [CallIds -> InvocationStatus]
    BY <1>5, <2>2 DEF StopSettle
  <2> QED BY <1>5, <2>1, <2>3, Zenon DEF StopSettle
<1>6. ASSUME Reply PROVE TypeOK'
  <2>1. \A card \in Cards : card[2] \in CallIds \cup {None}
    BY DEF Cards
  <2>2. msgs.questions \subseteq Cards
    BY Zenon DEF Messages
  <2>3. run' \in AgentRunRow
    BY <1>2, <1>6, <2>1, <2>2, Zenon DEF Reply
  <2> QED BY <1>1, <1>6, <2>3, Zenon DEF Reply
<1>7. ASSUME Decide PROVE TypeOK'
  <2>1. PICK card \in msgs.cards, decision \in {"approve", "reject"} :
          /\ run' = DecideRow(run, decision)
          /\ user' = IF decision = "approve"
                       THEN [user EXCEPT !.consents = user.consents \cup {card}] ELSE user
    BY <1>7, Zenon DEF Decide
  <2>2. card \in Cards
    BY Zenon DEF Messages
  <2>3. user.consents \cup {card} \in SUBSET Cards
    <3>1. user.consents \in SUBSET Cards
      BY Zenon DEF Requests
    <3> QED BY <2>2, <3>1, Zenon
  <2>4. [user EXCEPT !.consents = user.consents \cup {card}] \in Requests
    BY <2>3, Zenon DEF Requests
  <2>5. run' \in AgentRunRow /\ user' \in Requests
    BY <1>2, <2>1, <2>4, Zenon
  <2> QED BY <1>1, <1>7, <2>5, Zenon DEF Decide
<1>8. ASSUME Reconcile PROVE TypeOK'
  BY <1>2, <1>8, Zenon DEF Reconcile
<1>9. ASSUME Resume PROVE TypeOK'
  <2>1. user.resumes \in Nat
    BY Zenon DEF Requests
  <2>2. user.resumes + 1 \in Nat
    BY <2>1
  <2>3. [user EXCEPT !.resumes = user.resumes + 1] \in Requests
    BY <2>2, Zenon DEF Requests
  <2> QED BY <1>1, <1>2, <1>9, <2>3, Zenon DEF Resume
<1>10. ASSUME RecoverActive PROVE TypeOK'
  BY <1>2, <1>10, Zenon DEF RecoverActive
<1>11. ASSUME RecoverNoCheckpoint PROVE TypeOK'
  <2>1. Bump(run) \in AgentRunRow
    BY BumpType
  <2>2. [Bump(run) EXCEPT !.status = "TERMINATED", !.error_code = "FATAL"] \in AgentRunRow
    BY <2>1, Members, Zenon DEF AgentRunRow
  <2> QED BY <1>11, <2>2, Zenon DEF RecoverNoCheckpoint
<1>12. ASSUME RecoverStopped PROVE TypeOK'
  BY <1>2, <1>12, Zenon DEF RecoverStopped
<1> QED BY <1>4, <1>5, <1>6, <1>7, <1>8, <1>9, <1>10, <1>11, <1>12, Zenon
        DEF UserNext, ScanNext

\* The Invocation recovery, crashes and shutdowns.
LEMMA ProcessTypes ==
  ASSUME TypeOK
  PROVE  InvocationRecovery \/ Crash \/ Close => TypeOK'
<1> USE DEF TypeOK
<1>1. ASSUME InvocationRecovery PROVE TypeOK'
  <2>1. \A c : \A s \in Outcomes \cup {"OUTCOME_UNKNOWN"} :
          [inv EXCEPT ![c] = s] \in [CallIds -> InvocationStatus]
    <3>1. Outcomes \cup {"OUTCOME_UNKNOWN"} \subseteq InvocationStatus
      BY DEF Outcomes, InvocationStatus
    <3> QED BY <3>1, Zenon
  <2>2. inv' \in [CallIds -> InvocationStatus]
    BY <1>1, <2>1 DEF InvocationRecovery
  <2> QED BY <1>1, <2>2, Zenon DEF InvocationRecovery
<1>2. ASSUME Crash PROVE TypeOK'
  <2>1. sys.crashes + 1 \in Nat
    OBVIOUS
  <2>2. [sys EXCEPT !.crashes = sys.crashes + 1, !.closing = FALSE]
          \in [closing: BOOLEAN, crashes: Nat, faults: Nat]
    BY <2>1, Zenon
  <2>3. user.stop \in {"none", "committed", "done", "lost"}
    BY Zenon DEF Requests
  <2>4. [user EXCEPT !.stop = IF user.stop = "committed" THEN "lost" ELSE user.stop]
          \in Requests
    BY <2>3, Zenon DEF Requests
  <2>5. NoTask \in ReceiptTasks
    BY DEF NoTask, ReceiptTasks
  <2> QED BY <1>2, <2>2, <2>4, <2>5, NewRowType, WorkerPlaces, Zenon DEF Crash
<1>3. ASSUME Close PROVE TypeOK'
  <2>0. WorkerTyped
    BY Zenon DEF WorkerTyped
  <2>1. "dying" \in WorkerPc /\ "raised" \in WorkerPc
    BY DEF WorkerPc
  <2>2. Go("dying") \in Workers /\ Go("raised") \in Workers
    BY <2>1, WorkerPlaces, Zenon
  <2>3. w' \in Workers
    BY <1>3, <2>2 DEF Close
  <2>4. Settled(loc, "FAILED") \in AgentRunRow
    BY <2>0, CopyTypes, Zenon
  <2>5. Saved(Settled(loc, "FAILED")) \in AgentRunRow
        /\ (Store(Settled(loc, "FAILED")) => run' \in AgentRunRow /\ msgs' \in Messages)
    BY <2>0, <2>4, BumpType, SaveTypes, Zenon
  <2>6. run' \in AgentRunRow /\ msgs' \in Messages /\ loc' \in AgentRunRow
    BY <1>3, <2>5, Zenon DEF Close
  <2>7. [sys EXCEPT !.closing = TRUE] \in [closing: BOOLEAN, crashes: Nat, faults: Nat]
    BY Zenon
  <2> QED BY <1>3, <2>3, <2>6, <2>7, Zenon DEF Close, external
<1> QED BY <1>1, <1>2, <1>3

\* What steps of the tool node change besides the worker's part.
LEMMA ToolRestTypes ==
  ASSUME TypeOK, ToolStep
  PROVE  /\ rt' \in ReceiptTasks
         /\ inv' \in [CallIds -> InvocationStatus]
         /\ drives' \in [CallIds -> Nat]
         /\ user' \in Requests
<1> USE DEF TypeOK
<1>0. {"DENIED", "PENDING_CONFIRMATION", "PENDING", "EXPIRED", "REJECTED",
       "OUTCOME_UNKNOWN"} \cup Outcomes \subseteq InvocationStatus
  BY DEF Outcomes, InvocationStatus
<1>1. \A c, s : s \in InvocationStatus =>
        [inv EXCEPT ![c] = s] \in [CallIds -> InvocationStatus]
  BY Zenon
<1>2. ASSUME Prepare \/ Authorize
      PROVE  inv' \in [CallIds -> InvocationStatus] /\ UNCHANGED <<rt, user, drives>>
  <2>1. \A s : Recreated(s) => inv' \in [CallIds -> InvocationStatus]
    BY <1>0, <1>1 DEF Recreated, Authorized
  <2> QED BY <1>2, <2>1, PrepareShape, Zenon
<1>3. ASSUME ApplyDecision
      PROVE  inv' \in [CallIds -> InvocationStatus] /\ UNCHANGED <<rt, user, drives>>
  BY <1>0, <1>1, <1>3 DEF ApplyDecision, external
<1>4. ASSUME DispatchFence
      PROVE  rt' \in ReceiptTasks /\ UNCHANGED <<inv, user, drives>>
  <2>1. Call = loc.pending_tool_call /\ loc.claim \in Nat
    BY <1>4, Zenon DEF DispatchFence, Permitted, Ready, Handling, AgentRunRow
  <2>2. Call \in CallIds \cup {None}
    BY <2>1, Zenon DEF AgentRunRow
  <2> DEFINE r == [loc EXCEPT !.pending_execution.dispatched = TRUE,
                              !.pending_execution.status = "RUNNING",
                              !.tool_executions = @ + 1]
  <2>3. r.version = loc.version /\ r.claim = loc.claim
    BY Zenon DEF AgentRunRow
  <2> HIDE DEF r
  <2>4. [st |-> "start", call |-> Call, out |-> "none", version |-> r.version + 1,
         claim |-> r.claim] \in ReceiptTasks
    BY <2>1, <2>2, <2>3, RowNumbers, Zenon DEF ReceiptTasks
  <2>5. \/ rt' = rt
        \/ rt' = [st |-> "start", call |-> Call, out |-> "none", version |-> r.version + 1,
                  claim |-> r.claim]
    BY <1>4, Zenon DEF DispatchFence, r
  <2> QED BY <1>4, <2>4, <2>5, Zenon DEF DispatchFence
<1>5. ASSUME Continue
      PROVE  /\ inv' \in [CallIds -> InvocationStatus] /\ drives' \in [CallIds -> Nat]
             /\ UNCHANGED <<rt, user>>
  <2>1. [drives EXCEPT ![Call] = drives[Call] + 1] \in [CallIds -> Nat]
    <3>1. CASE Call \in CallIds
      <4>1. drives[Call] + 1 \in Nat
        BY <3>1
      <4> QED BY <4>1, Zenon
    <3>2. CASE Call \notin CallIds
      BY <3>2
    <3> QED BY <3>1, <3>2
  <2>2. drives' = drives \/ drives' = [drives EXCEPT ![Call] = drives[Call] + 1]
    BY <1>5, Zenon DEF Continue
  <2>3. inv' \in [CallIds -> InvocationStatus]
    BY <1>0, <1>1, <1>5 DEF Continue
  <2> QED BY <1>5, <2>1, <2>2, <2>3, Zenon DEF Continue
<1>6. ASSUME ~Prepare, ~Authorize, ~ApplyDecision, ~DispatchFence, ~Continue
      PROVE  UNCHANGED external
  BY <1>6, Zenon DEF ToolStep, ReplayCompleted, ReplayAnswered, SourceMismatch, AskUser,
     Resolve, Prepared, ShowCard, Confirmed, Found, Recorded, Awaited
<1> QED BY <1>2, <1>3, <1>4, <1>5, <1>6, Zenon DEF external

\* Types are kept by every step that finds the looked-up receipt settled.
LEMMA TypesKept ==
  ASSUME TypeOK, w.pc = "found" => inv[w.pos.call] \in Outcomes, [Next]_vars
  PROVE  TypeOK'
<1>1. WorkerTyped
  BY Zenon DEF TypeOK, WorkerTyped
<1>2. ASSUME Read \/ CloseoutFault \/ Claim \/ Checkpoint \/ ModelStep \/ EndStep
      PROVE  TypeOK'
  <2>1. WorkerTyped'
    BY <1>1, <1>2, ModelTypes, EndTypes, Zenon
  <2>2. UNCHANGED external
    BY <1>2, Zenon DEF Read, CloseoutFault, Claim, Checkpoint, ModelStep, EndStep,
       BeforeModel, OnModel, ModelRetry, ModelPaused, ModelRejected, ModelFailure,
       Interrupted, NodeRefused, FinalAnswer, FailSettle, FailSave, Conflict, Raised,
       RaisedSave, Dying
  <2> QED BY <2>1, <2>2, Zenon DEF TypeOK, WorkerTyped, external
<1>3. ASSUME ToolStep PROVE TypeOK'
  BY <1>1, <1>3, ToolTypes, ToolRestTypes, Zenon DEF TypeOK, WorkerTyped
<1>4. ASSUME UNCHANGED vars PROVE TypeOK'
  BY <1>4, Zenon DEF TypeOK, vars
<1> QED BY <1>2, <1>3, <1>4, TaskTypes, UserTypes, ProcessTypes, Zenon DEF Next, WorkerNext

-----------------------------------------------------------------------------
(* Who holds the receipt task *)

\* Where the worker goes on and where it leaves to.
LEMMA PlacePcs ==
  ASSUME w \in Workers
  PROVE  /\ IdleWorker.pc = "idle"
         /\ \A pc : Go(pc).pc = pc /\ Go(pc).pos = w.pos
         /\ \A v, pc, code : Left(v, pc, code).pc = pc
         /\ ToolDone.pc = "graph"
         /\ \A c, out : Message(c, out).pc \in {"graph", "fail"}
<1>1. /\ IdleWorker.pc = "idle"
      /\ \A v, pc, code : Left(v, pc, code).pc = pc
  BY DEF IdleWorker, Left
<1>2. /\ \A pc : Go(pc).pc = pc /\ Go(pc).pos = w.pos
      /\ ToolDone.pc = "graph"
  BY Zenon DEF Workers, Go, ToolDone
<1> QED BY <1>1, <1>2 DEF Message

\* A save sends the worker on, to a conflict or to the handler.
LEMMA SavePcs ==
  ASSUME TypeOK, NEW r, NEW next
  PROVE  /\ SaveOk(r) \/ SaveFault(r) \/ SaveConflict(r) \/ SaveInvalid(r) => sys'.closing = sys.closing
         /\ Persist(r, next) => /\ sys'.closing = sys.closing
                                /\ w'.pc \in {next.pc, "conflict", "fail"}
<1>1. SaveOk(r) \/ SaveFault(r) \/ SaveConflict(r) \/ SaveInvalid(r) => sys'.closing = sys.closing
  BY Zenon DEF SaveOk, SaveFault, SaveConflict, SaveInvalid, TypeOK
<1>2. \A v, pc, code : Left(v, pc, code).pc = pc
  BY PlacePcs, Zenon DEF TypeOK
<1> QED BY <1>1, <1>2 DEF Persist

\* A step of the worker that neither starts a receipt task nor looks one up, and
\* inserts no Invocation but in Prepare.
Ordinary ==
  /\ sys'.closing = sys.closing /\ rt' = rt
  /\ w.pc \notin {"idle", "await"}
  /\ w'.pc \notin {"await", "found"}
  /\ w.pc \in {"raised", "closing", "dying"} => w'.pc \in {"closing", "dying", "idle"}
  /\ w'.pc = "inserted" => Prepare

\* Every step of the worker but DispatchFence and Continue is ordinary.
LEMMA OrdinarySteps ==
  ASSUME TypeOK
  PROVE  /\ Read \/ CloseoutFault \/ Claim \/ ModelStep \/ EndStep => Ordinary
         /\ ToolStep => Ordinary \/ DispatchFence \/ Continue
<1> USE DEF Ordinary
<1>0. /\ IdleWorker.pc = "idle"
      /\ \A pc : Go(pc).pc = pc
      /\ \A v, pc, code : Left(v, pc, code).pc = pc
      /\ ToolDone.pc = "graph"
      /\ \A c, out : Message(c, out).pc \in {"graph", "fail"}
      /\ Broken.pc = "fail"
  <2>1. w \in Workers
    BY Zenon DEF TypeOK
  <2>2. \A v, pc, code : Left(v, pc, code).pc = pc
    BY <2>1, PlacePcs, Zenon
  <2>3. Broken.pc = "fail"
    BY <2>2, Zenon DEF Broken
  <2> QED BY <2>1, <2>3, PlacePcs, Zenon
<1>1. \A r, next : Persist(r, next) =>
        sys'.closing = sys.closing /\ w'.pc \in {next.pc, "conflict", "fail"}
  BY SavePcs, Zenon
<1>2. \A r : SaveOk(r) \/ SaveFault(r) \/ SaveConflict(r) \/ SaveInvalid(r) => sys'.closing = sys.closing
  BY SavePcs, Zenon
<1>3. \A code : Raise(code) => w'.pc = "fail" /\ sys' = sys
  BY <1>0 DEF Raise, Exit
<1>4. \A pc, code : Exit(pc, code) => w'.pc = pc
  BY <1>0 DEF Exit
<1>5. ASSUME Read PROVE Ordinary
  <2> DEFINE decided == run.confirmation_response # "none"
             next == [IdleWorker EXCEPT
                        !.pc = "claim",
                        !.dec = IF decided THEN run.confirmation_response
                                ELSE IF run.question # None THEN "respond" ELSE "none",
                        !.replay = run.recovery_replay /\ ~decided /\ run.question = None]
             none == [IdleWorker EXCEPT !.pc = "raised"]
  <2>1. none.pc = "raised" /\ next.pc = "claim"
    BY DEF IdleWorker
  <2>2. w' = IdleWorker \/ w' = none \/ w' = next
    BY <1>5 DEF Read
  <2> HIDE DEF next, none
  <2> QED BY <1>0, <1>5, <2>1, <2>2 DEF Read, external
<1>6. ASSUME CloseoutFault PROVE Ordinary
  <2>1. sys'.closing = sys.closing
    BY <1>6, Zenon DEF CloseoutFault, TypeOK
  <2> QED BY <1>0, <1>6, <2>1 DEF CloseoutFault, external
<1>7. ASSUME Claim PROVE Ordinary
  <2> DEFINE next(pos) == [w EXCEPT !.pc = "graph", !.pos = pos]
  <2>1. \A pos : next(pos).pc = "graph"
    BY Zenon DEF TypeOK, Workers
  <2> HIDE DEF next
  <2>2. \/ w' = Left(w, "fail", "FATAL") \/ w' = Go("conflict") \/ w' = Go("raised")
        \/ \E pos : w' = next(pos)
    BY <1>7, Zenon DEF Claim, next
  <2> QED BY <1>0, <1>2, <1>7, <2>1, <2>2 DEF Claim, external
<1>8. ASSUME BeforeModel PROVE Ordinary
  <2> DEFINE next(n) == [w EXCEPT !.pc = "calling", !.cur = n, !.att = w.att + 1]
  <2>1. \A n : next(n).pc = "calling"
    BY Zenon DEF TypeOK, Workers
  <2> HIDE DEF next
  <2>2. Raise("FATAL") \/ \E r, n : Persist(r, next(n))
    BY <1>8, Zenon DEF BeforeModel, next
  <2> QED BY <1>1, <1>3, <1>8, <2>1, <2>2 DEF BeforeModel, AtNode, external
<1>9. ASSUME OnModel PROVE Ordinary
  <2> DEFINE r == Answered(Settled(loc, "SUCCEEDED"))
             Next1(pos) == IF r.llm_tokens >= MaxTokens
                             THEN Left(w, "fail", "FATAL")
                             ELSE [w EXCEPT !.pc = "graph", !.pos = pos, !.att = 0]
  <2>1. \A pos : [w EXCEPT !.pc = "graph", !.pos = pos, !.att = 0].pc = "graph"
    BY Zenon DEF TypeOK, Workers
  <2>2. \A pos : Next1(pos).pc \in {"fail", "graph"}
    <3> HIDE DEF r
    <3>1. Left(w, "fail", "FATAL").pc = "fail"
      BY DEF Left, IdleWorker
    <3>2. CASE r.llm_tokens >= MaxTokens
      BY <3>1, <3>2
    <3>3. CASE ~(r.llm_tokens >= MaxTokens)
      BY <2>1, <3>3
    <3> QED BY <3>2, <3>3
  <2> HIDE DEF r, Next1
  <2>3. CASE Persist(r, Next1(At("final")))
    <3>1. w.pc = "calling" /\ rt' = rt
      BY <1>9, Zenon DEF OnModel, external
    <3>2. sys'.closing = sys.closing /\ w'.pc \in {Next1(At("final")).pc, "conflict", "fail"}
      BY <1>1, <2>3, Zenon
    <3> QED BY <2>2, <3>1, <3>2
  <2>4. CASE \E c \in CallIds :
               Persist([r EXCEPT !.pending_tool_call = c], Next1(AtTool(c)))
    <3>1. PICK c \in CallIds :
             Persist([r EXCEPT !.pending_tool_call = c], Next1(AtTool(c)))
      BY <2>4, Zenon
    <3>2. w.pc = "calling" /\ rt' = rt
      BY <1>9, Zenon DEF OnModel, external
    <3> DEFINE q == [r EXCEPT !.pending_tool_call = c]
    <3> HIDE DEF q
    <3>3. Persist(q, Next1(AtTool(c)))
      BY <3>1, Zenon DEF q
    <3>4. sys'.closing = sys.closing /\ w'.pc \in {Next1(AtTool(c)).pc, "conflict", "fail"}
      BY <1>1, <3>3, Zenon
    <3> QED BY <2>2, <3>2, <3>4
  <2>5. CASE Exit("fail", "FATAL") /\ loc' = r /\ UNCHANGED <<run, msgs, sys>>
    <3>1. w.pc = "calling" /\ rt' = rt
      BY <1>9, Zenon DEF OnModel, external
    <3>2. sys' = sys /\ w'.pc = "fail"
      BY <1>4, <2>5, Zenon
    <3> QED BY <3>1, <3>2
  <2> QED BY <1>9, <2>3, <2>4, <2>5, Zenon DEF OnModel, r, Next1
<1>10. ASSUME NEW code, NEW retry, ModelFailure(code, retry) PROVE Ordinary
  BY <1>0, <1>2, <1>10 DEF ModelFailure, external
<1>11. ASSUME EndStep PROVE Ordinary
  <2>1. CASE Interrupted
    BY <1>0, <1>2, <2>1 DEF Interrupted, external
  <2>2. CASE FinalAnswer
    BY <1>0, <1>1, <1>3, <2>2 DEF FinalAnswer, AtNode, external
  <2>3. CASE FailSettle
    BY <1>2, <2>3 DEF FailSettle, external
  <2>4. CASE FailSave
    BY <1>0, <1>2, <2>4 DEF FailSave, external
  <2>5. CASE Conflict
    BY <1>0, <2>5 DEF Conflict, external
  <2>6. CASE Raised
    BY <1>0, <2>6 DEF Raised, external
  <2>7. CASE RaisedSave
    BY <1>0, <1>2, <2>7 DEF RaisedSave, external
  <2>8. CASE Dying
    BY <1>0, <2>8 DEF Dying, external
  <2>9. CASE NodeRefused
    BY <1>0, <1>3, <2>9 DEF NodeRefused, external
  <2> QED BY <1>11, <2>1, <2>2, <2>3, <2>4, <2>5, <2>6, <2>7, <2>8, <2>9, Zenon DEF EndStep
<1>12. ASSUME ToolStep, ~DispatchFence, ~Continue PROVE Ordinary
  <2> USE <1>0, <1>1, <1>3, <1>4
  <2>1. CASE ReplayCompleted
    BY <2>1 DEF ReplayCompleted, AtNode, external
  <2>2. CASE ReplayAnswered
    BY <2>2 DEF ReplayAnswered, AtNode, external
  <2>3. CASE SourceMismatch
    BY <2>3 DEF SourceMismatch, Fresh, AtNode, external
  <2>4. CASE AskUser
    <3> DEFINE next == [ToolDone EXCEPT !.dec = "none"]
    <3>1. next.pc = "graph"
      BY Zenon DEF ToolDone, TypeOK, Workers
    <3> HIDE DEF next
    <3>2. \/ \E r : Persist(r, Go("interrupted")) \/ Persist(r, next)
          \/ w' = Go("interrupted") /\ sys' = sys
      BY <2>4, Zenon DEF AskUser, next
    <3> QED BY <2>4, <3>1, <3>2 DEF AskUser, Handling, Fresh, AtNode, external
  <2>5. CASE Resolve
    BY <2>5 DEF Resolve, Handling, Fresh, AtNode, external
  <2>6. CASE Prepare \/ Authorize
    <3>1. /\ w.pc \in {"graph", "inserted"} /\ rt' = rt
          /\ sys'.closing = sys.closing
      <4>1. PrepareFault => sys'.closing = sys.closing
        BY Zenon DEF PrepareFault, TypeOK
      <4> QED BY <2>6, <4>1, PrepareShape, Zenon
    <3>2. \/ w'.pc \in {"fail", "conflict"} \/ w' = Go("prepared")
          \/ Prepare /\ w' = Go("inserted")
      <4>1. PrepareBroken \/ Exit("conflict", "none") \/ Exit("fail", "FATAL")
              => w'.pc \in {"fail", "conflict"}
        BY <1>4 DEF PrepareBroken
      <4> QED BY <2>6, <4>1, PrepareShape, Zenon
    <3> QED BY <3>1, <3>2
  <2>7. CASE Prepared
    BY <2>7 DEF Prepared, external
  <2>8. CASE ShowCard
    BY <2>8 DEF ShowCard, NeedsConsent, Ready, Handling, Fresh, AtNode, external
  <2>9. CASE ApplyDecision
    BY <2>9 DEF ApplyDecision, NeedsConsent, Ready, Handling, Fresh, AtNode, external
  <2>10. CASE Confirmed
    <3> DEFINE next == [w EXCEPT !.pc = "graph", !.dec = "none"]
    <3>1. next.pc = "graph"
      BY Zenon DEF TypeOK, Workers
    <3> HIDE DEF next
    <3>2. \E r : Persist(r, next)
      BY <2>10, Zenon DEF Confirmed, next
    <3> QED BY <2>10, <3>1, <3>2 DEF Confirmed, external
  <2>11. CASE Found
    BY <2>11 DEF Found, external
  <2>12. CASE Recorded
    BY <2>12 DEF Recorded, external
  <2>13. CASE Awaited
    BY <2>13 DEF Awaited, external
  <2> QED BY <1>12, <2>1, <2>2, <2>3, <2>4, <2>5, <2>6, <2>7, <2>8, <2>9, <2>10, <2>11,
             <2>12, <2>13, Zenon DEF ToolStep
<1> QED BY <1>5, <1>6, <1>7, <1>8, <1>9, <1>10, <1>11, <1>12, Zenon
        DEF ModelStep, ModelRetry, ModelPaused, ModelRejected

\* Every step leaves the receipt task to the worker that awaits it, or to the
\* shutdown.
LEMMA OwnedKept ==
  ASSUME TypeOK, TaskIsOwned, [Next]_vars
  PROVE  TaskIsOwned'
<1> USE DEF TaskIsOwned
<1>0. w \in Workers /\ sys \in [closing: BOOLEAN, crashes: Nat, faults: Nat]
  BY Zenon DEF TypeOK
<1>1. ASSUME Ordinary PROVE TaskIsOwned'
  BY <1>1 DEF Ordinary
<1>2. ASSUME Checkpoint PROVE TaskIsOwned'
  BY <1>2, Zenon DEF Checkpoint, external
<1>3. ASSUME DispatchFence PROVE TaskIsOwned'
  <2>1. w.pc = "graph" /\ ~sys.closing /\ rt.st = "none"
    BY <1>3 DEF DispatchFence, Permitted, Ready, Handling, Fresh, AtNode
  <2>2. \/ rt' = rt \/ w'.pc = "await"
    BY <1>3, Zenon DEF DispatchFence
  <2> DEFINE r == [loc EXCEPT !.pending_execution.dispatched = TRUE,
                              !.pending_execution.status = "RUNNING",
                              !.tool_executions = @ + 1]
  <2>3. Raise("FATAL") \/ Persist(r, Go("await"))
    BY <1>3, Zenon DEF DispatchFence
  <2> HIDE DEF r
  <2>4. /\ Go("await").pc = "await" /\ Left(w, "fail", "FATAL").pc = "fail"
    BY <1>0, PlacePcs DEF Left, IdleWorker
  <2>5. sys'.closing = sys.closing /\ w'.pc \in {"await", "conflict", "fail"}
    <3>1. CASE Raise("FATAL")
      BY <2>4, <3>1 DEF Raise, Exit
    <3>2. CASE Persist(r, Go("await"))
      BY <2>4, <3>2, SavePcs, Zenon
    <3> QED BY <2>3, <3>1, <3>2
  <2> QED BY <2>1, <2>2, <2>5
<1>4. ASSUME Continue PROVE TaskIsOwned'
  <2>1. /\ w.pc = "graph" /\ ~sys.closing /\ rt.st = "none"
        /\ rt' = rt /\ sys' = sys
    BY <1>4 DEF Continue, Permitted, Ready, Handling, Fresh, AtNode
  <2>2. \/ Exit("conflict", "none") \/ Exit("fail", "TOOL_OUTCOME_UNKNOWN")
        \/ w' = Go("found") /\ inv'[Call] \in Outcomes
    BY <1>4, Zenon DEF Continue
  <2>3. /\ Left(w, "conflict", "none").pc = "conflict"
        /\ Left(w, "fail", "TOOL_OUTCOME_UNKNOWN").pc = "fail"
        /\ Go("found").pc = "found" /\ Go("found").pos = w.pos
    BY <1>0, PlacePcs DEF Left, IdleWorker
  <2> QED BY <2>1, <2>2, <2>3 DEF Exit, Call
<1>5. ASSUME TaskNext PROVE TaskIsOwned'
  <2>0. /\ w.pc # "found"
        /\ sys'.closing = sys.closing
        /\ rt.st # "none"
        /\ w' = w \/ /\ rt' = NoTask /\ w.pc = "await"
                     /\ w'.pc \in {"awaited", "conflict", "fail"}
        /\ rt'.st = "none" \/ rt.st # "none"
    <3>1. /\ Go("awaited").pc = "awaited"
          /\ Left(w, "conflict", "none").pc = "conflict"
          /\ Left(w, "fail", "DEPENDENCY_UNAVAILABLE").pc = "fail"
      BY <1>0, PlacePcs DEF Left, IdleWorker
    <3>2. rt.st # "none"
      BY <1>5 DEF TaskNext, TaskStart, TaskFinish, TaskRecord, TaskRecordFault
    <3>3. w.pc # "found"
      BY <3>2
    <3>4. sys'.closing = sys.closing
      BY <1>0, <1>5, Zenon
         DEF TaskNext, TaskStart, TaskFinish, TaskRecord, TaskRecordFault
    <3>5. w' = w \/ /\ rt' = NoTask /\ w.pc = "await"
                    /\ \/ w' = Go("awaited") \/ w' = Left(w, "conflict", "none")
                       \/ w' = Left(w, "fail", "DEPENDENCY_UNAVAILABLE")
      BY <1>5, Zenon DEF TaskNext, TaskStart, TaskFinish, TaskRecord, TaskRecordFault,
         Wake, WakeWith, Exit
    <3> QED BY <3>1, <3>2, <3>3, <3>4, <3>5
  <2> QED BY <2>0 DEF NoTask
<1>6. ASSUME UserNext \/ ScanNext PROVE TaskIsOwned'
  <2>1. rt' = rt /\ sys' = sys
    BY <1>6, Zenon DEF UserNext, ScanNext, Stop, StopSettle, Reply, Decide, Reconcile,
       Resume, RecoverActive, RecoverNoCheckpoint, RecoverStopped
  <2>2. w' = w \/ (w' = Go("read") /\ w.pc = "idle" /\ ~sys.closing)
    BY <1>6, Zenon DEF UserNext, ScanNext, Stop, StopSettle, Reply, Decide, Reconcile,
       Resume, RecoverActive, RecoverNoCheckpoint, RecoverStopped, Schedule
  <2>3. Go("read").pc = "read"
    BY <1>0, PlacePcs, Zenon
  <2>4. ASSUME w.pc = "found", w' = w PROVE inv'[w.pos.call] \in Outcomes
    <3>1. CASE inv' = inv
      BY <2>4, <3>1
    <3>2. CASE StopSettle
      BY <2>4, <3>2 DEF StopSettle, TypeOK, Outcomes
    <3> QED BY <1>6, <3>1, <3>2, Zenon DEF UserNext, ScanNext, Stop, Reply, Decide,
           Reconcile, Resume, RecoverActive, RecoverNoCheckpoint, RecoverStopped
  <2> QED BY <2>1, <2>2, <2>3, <2>4
<1>7. ASSUME InvocationRecovery PROVE TaskIsOwned'
  <2>1. ASSUME w.pc = "found" PROVE inv'[w.pos.call] \in Outcomes
    <3>1. PICK c \in CallIds :
            /\ inv[c] \in {"RUNNING", "OUTCOME_UNKNOWN"}
            /\ \E out : inv' = [inv EXCEPT ![c] = out]
      BY <1>7 DEF InvocationRecovery
    <3>2. inv[w.pos.call] \in Outcomes
      BY <2>1
    <3>3. c # w.pos.call
      BY <3>1, <3>2 DEF Outcomes
    <3>4. inv'[w.pos.call] = inv[w.pos.call]
      BY <3>1, <3>3 DEF TypeOK
    <3> QED BY <3>2, <3>4
  <2> QED BY <1>7, <2>1 DEF InvocationRecovery
<1>8. ASSUME Crash PROVE TaskIsOwned'
  BY <1>0, <1>8 DEF Crash, NoTask, IdleWorker
<1>9. ASSUME Close PROVE TaskIsOwned'
  <2>1. Go("dying").pc = "dying" /\ Go("raised").pc = "raised"
    BY <1>0, PlacePcs, Zenon
  <2> QED BY <1>0, <1>9, <2>1 DEF Close, external
<1>10. ASSUME UNCHANGED vars PROVE TaskIsOwned'
  BY <1>10, Zenon DEF vars
<1> QED BY <1>1, <1>2, <1>3, <1>4, <1>5, <1>6, <1>7, <1>8, <1>9, <1>10, OrdinarySteps, Zenon
        DEF Next, WorkerNext

\* Types, and the ownership of the receipt task they need.
TypeInv == TypeOK /\ TaskIsOwned

\* The initial state is typed and owns no task.
LEMMA TypeInit == Init => TypeInv
<1> SUFFICES ASSUME Init PROVE TypeInv
  OBVIOUS
<1>1. NoTask \in ReceiptTasks /\ "read" \in WorkerPc /\ "none" \in InvocationStatus
      /\ At("none") \in Positions
  BY DEF NoTask, ReceiptTasks, WorkerPc, InvocationStatus, At, Positions
<1>2. IdleWorker \in Workers
  BY DEF IdleWorker, Workers, WorkerPc, ErrorCodes, At, Positions
<1>3. [IdleWorker EXCEPT !.pc = "read"] \in Workers
  BY <1>1, <1>2, Zenon DEF Workers
<1>4. [IdleWorker EXCEPT !.pc = "read"].pc = "read"
  BY DEF IdleWorker
<1>5. /\ msgs \in Messages /\ user \in Requests
      /\ sys \in [closing: BOOLEAN, crashes: Nat, faults: Nat]
      /\ inv \in [CallIds -> InvocationStatus] /\ drives \in [CallIds -> Nat]
  BY <1>1 DEF Init, Messages, Requests
<1>6. TypeOK
  BY <1>1, <1>3, <1>5, NewRowType, Zenon DEF Init, TypeOK
<1>7. TaskIsOwned
  BY <1>4 DEF Init, TaskIsOwned, NoTask
<1> QED BY <1>6, <1>7 DEF TypeInv

\* Every step keeps the types and the owner of the task.
LEMMA TypeStep == TypeInv /\ [Next]_vars => TypeInv'
<1> SUFFICES ASSUME TypeInv, [Next]_vars PROVE TypeInv'
  OBVIOUS
<1>1. w.pc = "found" => inv[w.pos.call] \in Outcomes
  BY DEF TypeInv, TaskIsOwned
<1> QED BY <1>1, TypesKept, OwnedKept DEF TypeInv

\* The row, the worker's copy, the worker and the receipt task always have the
\* shape of AgentRun and of the locals of advance.
THEOREM TypeCorrect == Spec => []TypeOK
<1>1. Spec => []TypeInv
  BY TypeInit, TypeStep, PTL DEF Spec
<1>2. TypeInv => TypeOK
  BY DEF TypeInv
<1> QED BY <1>1, <1>2, PTL

\* A receipt task outlives the worker that started it only in a shutdown.
THEOREM TaskOwned == Spec => []TaskIsOwned
<1>1. Spec => []TypeInv
  BY TypeInit, TypeStep, PTL DEF Spec
<1>2. TypeInv => TaskIsOwned
  BY DEF TypeInv
<1> QED BY <1>1, <1>2, PTL

-----------------------------------------------------------------------------
(***************************************************************************)
(* A dispatched tool call is never driven twice: FenceInv is inductive,    *)
(* and DispatchAtMostOnce follows from it, for every set of calls and      *)
(* every bound.                                                            *)
(*                                                                         *)
(* The argument: a call is driven by the receipt task its dispatch fence   *)
(* spawned, and only once because every copy of the row that may still be  *)
(* saved knows all fences of the row (versions order the writers), so no   *)
(* worker, resumed or replayed, reaches a second fence for the same call;  *)
(* and no row that still owes a receipt goes back to work.                 *)
(***************************************************************************)

\* Nothing the fence looks at differs between two rows.
Same(r, q) ==
  /\ q.pending_execution.call = r.pending_execution.call
  /\ q.pending_execution.dispatched = r.pending_execution.dispatched
  /\ q.observations = r.observations

\* Rows with the same execution record and observations have the same fences.
LEMMA SameFacts ==
  ASSUME NEW r, NEW q, Same(r, q)
  PROVE  /\ \A c : (Dispatched(q, c) <=> Dispatched(r, c))
         /\ \A c : (Executed(q, c) <=> Executed(r, c))
         /\ \A c : (Fenced(q, c) <=> Fenced(r, c))
         /\ Exclusive(q) <=> Exclusive(r)
         /\ OwesReceipt(q) <=> OwesReceipt(r)
BY DEF Same, Dispatched, Executed, Fenced, Exclusive, OwesReceipt

\* What the transactions of AgentRow leave alone.
LEMMA RowFacts ==
  ASSUME NEW r \in AgentRunRow
  PROVE  /\ Same(r, Bump(r)) /\ Bump(r).version = r.version + 1
         /\ Bump(r).status = r.status
         /\ Same(r, Saved(r)) /\ Saved(r).version = r.version + 1
         /\ Saved(r).status = r.status
         /\ Same(r, SettleCalls(r)) /\ SettleCalls(r).version = r.version
         /\ SettleCalls(r).status = r.status
<1>1. Bump(r) \in AgentRunRow
  BY BumpType
<1>2. /\ Same(r, Bump(r)) /\ Bump(r).version = r.version + 1
      /\ Bump(r).status = r.status
  BY Zenon DEF Same, Bump, AgentRunRow
<1>3. /\ Same(Bump(r), Saved(r)) /\ Saved(r).version = Bump(r).version
      /\ Saved(r).status = Bump(r).status
  BY <1>1, Zenon DEF Same, Saved, AgentRunRow
<1>4. /\ Same(r, SettleCalls(r)) /\ SettleCalls(r).version = r.version
      /\ SettleCalls(r).status = r.status
  BY Zenon DEF Same, SettleCalls, AgentRunRow
<1>5. Same(r, Saved(r))
  BY <1>2, <1>3, Zenon DEF Same
<1> QED BY <1>2, <1>3, <1>4, <1>5

\* A stop, a decision, a reply, a resume and a recovery keep every fence.
LEMMA TransactionFacts ==
  ASSUME NEW r \in AgentRunRow
  PROVE  /\ Same(r, StopRow(r)) /\ StopRow(r).version = r.version + 1
         /\ StopRow(r).status = "TERMINATED"
         /\ Same(r, RecoverRow(r)) /\ RecoverRow(r).version = r.version + 1
         /\ RecoverRow(r).status = "INTERRUPTED"
         /\ Same(r, ResumeRow(r)) /\ ResumeRow(r).version = r.version + 1
         /\ Same(r, MarkUnknownRow(r)) /\ MarkUnknownRow(r).version = r.version + 1
         /\ MarkUnknownRow(r).status
              = IF r.status \in Terminal THEN r.status ELSE "INTERRUPTED"
         /\ \A d : Same(r, DecideRow(r, d)) /\ DecideRow(r, d).version = r.version + 1
         /\ \A card : Same(r, ReplyRow(r, card)) /\ ReplyRow(r, card).version = r.version + 1
<1> DEFINE b == Bump(r)
           s == Bump(SettleCalls(r))
<1>1. /\ b \in AgentRunRow /\ Same(r, b) /\ b.version = r.version + 1
      /\ b.status = r.status
  BY BumpType, RowFacts
<1>2. SettleCalls(r) \in AgentRunRow
  BY SettleCallsType
<1>3. /\ s \in AgentRunRow /\ Same(SettleCalls(r), s)
      /\ s.version = SettleCalls(r).version + 1
  BY <1>2, BumpType, RowFacts
<1>4. Same(r, s) /\ s.version = r.version + 1
  <2>1. Same(r, SettleCalls(r)) /\ SettleCalls(r).version = r.version
    BY RowFacts
  <2> QED BY <1>3, <2>1 DEF Same
<1>5. \A x, y, z : Same(x, y) /\ Same(y, z) => Same(x, z)
  BY DEF Same
<1> HIDE DEF b, s
<1>6. /\ Same(s, StopRow(r)) /\ StopRow(r).version = s.version
      /\ StopRow(r).status = "TERMINATED"
  BY <1>3, Zenon DEF StopRow, Same, AgentRunRow, s
<1>7. /\ Same(s, RecoverRow(r)) /\ RecoverRow(r).version = s.version
      /\ RecoverRow(r).status = "INTERRUPTED"
  <2> DEFINE q == [s EXCEPT !.status = "INTERRUPTED", !.claim = 0,
                     !.error_code = "PROCESS_INTERRUPTED", !.recovery_replay = TRUE]
             u == [q EXCEPT !.pending_execution.status = "OUTCOME_UNKNOWN",
                            !.error_code = "TOOL_OUTCOME_UNKNOWN"]
  <2>1. /\ q \in AgentRunRow /\ Same(s, q) /\ q.version = s.version
        /\ q.status = "INTERRUPTED"
    BY <1>3, RowNumbers, Members, Zenon DEF Same, AgentRunRow
  <2> HIDE DEF q
  <2>2. Same(q, u) /\ u.version = q.version /\ u.status = q.status
    BY <2>1, Zenon DEF Same, AgentRunRow, ExecutionRecord
  <2>3. RecoverRow(r) = q \/ RecoverRow(r) = u
    BY DEF RecoverRow, q, s
  <2> HIDE DEF u
  <2> QED BY <1>5, <2>1, <2>2, <2>3
<1>8. Same(b, ResumeRow(r)) /\ ResumeRow(r).version = b.version
  BY <1>1, Zenon DEF ResumeRow, Same, AgentRunRow, b
<1>9. /\ Same(b, MarkUnknownRow(r)) /\ MarkUnknownRow(r).version = b.version
      /\ MarkUnknownRow(r).status = IF r.status \in Terminal THEN r.status ELSE "INTERRUPTED"
  <2> DEFINE q == [b EXCEPT !.pending_execution.status = "OUTCOME_UNKNOWN"]
             u == [q EXCEPT !.status = "INTERRUPTED", !.error_code = "TOOL_OUTCOME_UNKNOWN"]
  <2>1. /\ q \in AgentRunRow /\ Same(b, q) /\ q.version = b.version
        /\ q.status = b.status
    BY <1>1, Members, ZenonT(40) DEF Same, AgentRunRow, ExecutionRecord
  <2> HIDE DEF q
  <2>2. Same(q, u) /\ u.version = q.version /\ u.status = "INTERRUPTED"
    BY <2>1, Zenon DEF Same, AgentRunRow
  <2>3. MarkUnknownRow(r) = IF r.status \in Terminal THEN q ELSE u
    BY DEF MarkUnknownRow, q, b
  <2> HIDE DEF u
  <2> QED BY <1>1, <1>5, <2>1, <2>2, <2>3
<1>10. \A d : Same(b, DecideRow(r, d)) /\ DecideRow(r, d).version = b.version
  BY <1>1, Zenon DEF DecideRow, Same, AgentRunRow, b
<1>11. \A card : Same(b, ReplyRow(r, card)) /\ ReplyRow(r, card).version = b.version
  BY <1>1, Zenon DEF ReplyRow, Same, AgentRunRow, b
<1> QED BY <1>1, <1>4, <1>5, <1>6, <1>7, <1>8, <1>9, <1>10, <1>11

\* A receipt turns the fence of its call into an observation.
LEMMA ReceiptFacts ==
  ASSUME NEW r \in AgentRunRow, NEW c \in CallIds \cup {None}, NEW out \in Outcomes,
         Dispatched(r, c)
  PROVE  /\ ReceiptRow(r, c, out).version = r.version + 1
         /\ ReceiptRow(r, c, out).status = r.status
         /\ ~ReceiptRow(r, c, out).pending_execution.dispatched
         /\ \A d \in CallIds : Fenced(ReceiptRow(r, c, out), d) <=> Fenced(r, d)
<1> DEFINE q == ReceiptRow(r, c, out)
<1>1. /\ Bump(r) \in AgentRunRow /\ Bump(r).version = r.version + 1
      /\ Bump(r).status = r.status /\ Bump(r).observations = r.observations
  BY BumpType, RowFacts DEF Same
<1>2. /\ q.version = Bump(r).version /\ q.status = Bump(r).status
      /\ q.pending_execution = NoExecution
      /\ q.observations = [Bump(r).observations EXCEPT ![c] = out]
  BY <1>1, Zenon DEF ReceiptRow, AgentRunRow
<1>3. r.observations \in [CallIds -> Observations]
  BY Zenon DEF AgentRunRow
<1> HIDE DEF q
<1>4. ASSUME NEW d \in CallIds PROVE Fenced(q, d) <=> Fenced(r, d)
  <2>1. NoExecution.call = None /\ ~NoExecution.dispatched
    BY DEF NoExecution
  <2>2. CASE d = c
    BY <1>1, <1>2, <1>3, <2>2 DEF Fenced, Executed
  <2>3. CASE d # c
    <3>1. q.observations[d] = r.observations[d]
      BY <1>1, <1>2, <1>3, <2>3
    <3> QED BY <1>2, <2>1, <2>3, <3>1 DEF Fenced, Executed, Dispatched
  <2> QED BY <2>2, <2>3
<1>5. ~q.pending_execution.dispatched
  BY <1>2 DEF NoExecution
<1> QED BY <1>1, <1>2, <1>4, <1>5 DEF q

-----------------------------------------------------------------------------
(* Saving a copy *)

\* A copy the worker may try to save.
Savable(r) ==
  /\ r \in AgentRunRow
  /\ r.version = loc.version
  /\ \A c \in CallIds : Fenced(loc, c) => Fenced(r, c)
  /\ Exclusive(r)
  /\ Rested(r)

\* The copy is all there is, or the row is the saved copy.
SaveAny(r) ==
  \/ run' = run /\ loc' = r
  \/ run.version = r.version /\ run' = Saved(r) /\ loc' \in {r, Saved(r)}

\* Every outcome of a save stores the row or leaves it.
LEMMA SaveCases ==
  ASSUME NEW r
  PROVE  SaveOk(r) \/ SaveFault(r) \/ SaveConflict(r) \/ SaveInvalid(r) => SaveAny(r)
BY DEF SaveAny, SaveOk, SaveFault, SaveConflict, SaveInvalid, SaveAccepted, Store

\* What every attempt to save such a copy leaves behind.
Safe ==
  /\ \A c \in CallIds : Fenced(run, c) => Fenced(run', c)
  /\ loc'.version <= run'.version
  /\ loc'.version = run'.version =>
       \A c \in CallIds : Fenced(run', c) => Fenced(loc', c)
  /\ Rested(run') /\ Rested(loc')
  /\ Exclusive(run') /\ Exclusive(loc')

\* The worker is out of the graph, or on its way out.
Leaves == w'.pc \notin Working \cup {"claim", "awaited"}

\* What is saved has the fences of the copy and a new version.
LEMMA SavedRow ==
  ASSUME NEW r, Savable(r)
  PROVE  /\ Saved(r) \in AgentRunRow
         /\ Saved(r).version = loc.version + 1
         /\ Saved(r).status = r.status
         /\ \A c \in CallIds : Fenced(loc, c) => Fenced(Saved(r), c)
         /\ \A c : Dispatched(Saved(r), c) <=> Dispatched(r, c)
         /\ Exclusive(Saved(r)) /\ Rested(Saved(r))
         /\ OwesReceipt(Saved(r)) <=> OwesReceipt(r)
<1>1. r \in AgentRunRow
  BY Zenon DEF Savable
<1>2. /\ Saved(r) \in AgentRunRow /\ Same(r, Saved(r))
      /\ Saved(r).version = r.version + 1 /\ Saved(r).status = r.status
  BY <1>1, BumpType, RowFacts
<1> QED BY <1>2, SameFacts DEF Savable, Rested

\* Every attempt to save a savable copy is safe.
LEMMA SaveKeeps ==
  ASSUME TypeInv, FenceInv, w.pc \in Holding, NEW r, Savable(r), SaveAny(r)
  PROVE  Safe
<1>1. /\ loc.version <= run.version
      /\ loc.version = run.version => \A c \in CallIds : Fenced(run, c) => Fenced(loc, c)
      /\ Rested(run) /\ Exclusive(run)
      /\ run.version \in Nat /\ loc.version \in Nat
  BY RowNumbers DEF FenceInv, CopyKeepsFences, NothingOwed, TypeInv, TypeOK
<1>2. /\ r.version = loc.version /\ Exclusive(r) /\ Rested(r)
      /\ \A c \in CallIds : Fenced(loc, c) => Fenced(r, c)
  BY Zenon DEF Savable
<1>3. /\ Saved(r).version = loc.version + 1
      /\ \A c \in CallIds : Fenced(loc, c) => Fenced(Saved(r), c)
      /\ Exclusive(Saved(r)) /\ Rested(Saved(r))
      /\ \A c \in CallIds : Fenced(r, c) => Fenced(Saved(r), c)
  <2>1. Same(r, Saved(r))
    BY RowFacts, Zenon DEF Savable
  <2> QED BY <2>1, SavedRow, SameFacts
<1>4. CASE run' = run /\ loc' = r
  BY <1>1, <1>2, <1>4 DEF Safe
<1>5. CASE run.version = r.version /\ run' = Saved(r) /\ loc' \in {r, Saved(r)}
  BY <1>1, <1>2, <1>3, <1>5 DEF Safe
<1> QED BY <1>4, <1>5 DEF SaveAny

\* A save after which the worker leaves the graph.
LEMMA SaveLeaves ==
  ASSUME TypeInv, FenceInv, TaskIsOwned', w.pc \in Holding, UNCHANGED <<rt, drives>>,
         NEW r, Savable(r), SaveAny(r), Leaves
  PROVE  FenceInv'
<1>1. Safe
  BY SaveKeeps
<1>2. DrivenOnce' /\ DrivenBehindFence'
  BY <1>1 DEF FenceInv, DrivenOnce, DrivenBehindFence, Starting, Safe
<1>3. CopyKeepsFences' /\ NothingOwed' /\ WorkerHolds'
  BY <1>1 DEF CopyKeepsFences, NothingOwed, WorkerHolds, Safe, Leaves, Working
<1> QED BY <1>2, <1>3 DEF FenceInv

\* A save after which the worker goes on, or stops at an interrupt.
LEMMA SaveStays ==
  ASSUME TypeInv, FenceInv, TaskIsOwned', w.pc \in Holding, UNCHANGED <<rt, drives>>,
         NEW r, Savable(r), SaveOk(r), ~OwesReceipt(r),
         w'.pc \in {"graph", "calling", "inserted", "prepared", "confirmed", "interrupted"},
         w'.pc = "interrupted" \/ r.status = "RUNNING"
  PROVE  FenceInv'
<1>1. Safe
  BY SaveCases, SaveKeeps
<1>2. /\ run' = Saved(r) /\ loc' = Saved(r) /\ Saved(r).status = r.status
      /\ ~OwesReceipt(Saved(r))
  BY SavedRow DEF SaveOk, Store
<1>3. DrivenOnce' /\ DrivenBehindFence'
  BY <1>1 DEF FenceInv, DrivenOnce, DrivenBehindFence, Starting, Safe
<1>4. CopyKeepsFences'
  BY <1>1, <1>2 DEF CopyKeepsFences, Safe, Fenced
<1>5. NothingOwed'
  BY <1>1, <1>2 DEF NothingOwed, Safe
<1>6. WorkerHolds'
  BY <1>2 DEF WorkerHolds
<1> QED BY <1>3, <1>4, <1>5, <1>6 DEF FenceInv

\* persist() with either end.
LEMMA PersistKeeps ==
  ASSUME TypeInv, FenceInv, TaskIsOwned', w.pc \in Holding, UNCHANGED <<rt, drives>>,
         NEW r, Savable(r), NEW next, Persist(r, next),
         \/ next.pc \notin Working \cup {"claim", "awaited"}
         \/ /\ next.pc \in {"graph", "calling", "inserted", "prepared", "confirmed", "interrupted"}
            /\ ~OwesReceipt(r)
            /\ next.pc = "interrupted" \/ r.status = "RUNNING"
  PROVE  FenceInv'
<1>1. /\ Left(next, "conflict", "none").pc = "conflict"
      /\ Left(next, "fail", "DEPENDENCY_UNAVAILABLE").pc = "fail"
      /\ Left(next, "fail", "FATAL").pc = "fail"
  BY DEF Left, IdleWorker
<1>2. CASE SaveOk(r) /\ w' = next
  <2>1. CASE next.pc \notin Working \cup {"claim", "awaited"}
    <3>1. Leaves /\ SaveAny(r)
      BY <1>2, <2>1, SaveCases DEF Leaves
    <3> QED BY <3>1, SaveLeaves
  <2>2. CASE /\ next.pc \in {"graph", "calling", "inserted", "prepared", "confirmed", "interrupted"}
             /\ ~OwesReceipt(r)
             /\ next.pc = "interrupted" \/ r.status = "RUNNING"
    BY <1>2, <2>2, SaveStays
  <2> QED BY <2>1, <2>2
<1>3. CASE SaveAny(r) /\ w'.pc \in {"conflict", "fail"}
  <2>1. Leaves
    BY <1>3 DEF Leaves, Working
  <2> QED BY <1>3, <2>1, SaveLeaves
<1> QED BY <1>1, <1>2, <1>3, SaveCases DEF Persist

\* A step that touches neither the row nor the copy.
LEMMA LocalStep ==
  ASSUME TypeInv, FenceInv, TaskIsOwned', UNCHANGED <<run, loc, rt, drives>>,
         w.pc \in Holding,
         \/ Leaves
         \/ /\ w.pc \in {"graph", "inserted", "prepared", "confirmed"}
            /\ w'.pc \in {"graph", "inserted", "prepared", "confirmed", "interrupted"}
  PROVE  FenceInv'
<1>1. DrivenOnce' /\ DrivenBehindFence'
  BY DEF FenceInv, DrivenOnce, DrivenBehindFence, Starting
<1>2. CopyKeepsFences'
  BY DEF FenceInv, CopyKeepsFences, Leaves, Working
<1>3. NothingOwed'
  BY DEF FenceInv, NothingOwed, Leaves, Working
<1>4. WorkerHolds'
  BY DEF FenceInv, WorkerHolds, Leaves, Working
<1> QED BY <1>1, <1>2, <1>3, <1>4 DEF FenceInv

\* A copy that differs from the worker's only outside the fence is savable.
LEMMA SavableSame ==
  ASSUME TypeInv, FenceInv, NEW r \in AgentRunRow, Same(loc, r), r.version = loc.version,
         ~OwesReceipt(loc) \/ r.status = loc.status
           \/ r.status \notin Settling
  PROVE  Savable(r) /\ (OwesReceipt(r) <=> OwesReceipt(loc))
<1>1. Rested(loc) /\ Exclusive(loc)
  BY DEF FenceInv, NothingOwed
<1>2. /\ \A c \in CallIds : Fenced(loc, c) => Fenced(r, c)
      /\ Exclusive(r) /\ (OwesReceipt(r) <=> OwesReceipt(loc))
  BY <1>1, SameFacts
<1> QED BY <1>1, <1>2 DEF Savable, Rested

\* Steps that leave row, copy, worker and tasks alone.
LEMMA Untouched ==
  ASSUME FenceInv, TaskIsOwned', UNCHANGED <<run, loc, w, rt, drives>>
  PROVE  FenceInv'
BY DEF FenceInv, DrivenOnce, DrivenBehindFence, CopyKeepsFences, NothingOwed, WorkerHolds,
   Starting

\* The worker forgets its copy; a dying process forgets its receipt task too.
LEMMA Forget ==
  ASSUME TypeInv, FenceInv, TaskIsOwned', UNCHANGED <<run, drives>>,
         rt' \in {rt, NoTask}, w'.pc \notin Holding, loc' \in {NewRow, loc}
  PROVE  FenceInv'
<1>1. /\ NewRow.version = 0 /\ Rested(NewRow) /\ Exclusive(NewRow)
      /\ run.version \in Nat /\ loc.version <= run.version
  BY RowNumbers DEF NewRow, NoExecution, Rested, Exclusive, OwesReceipt, TypeInv, TypeOK,
     FenceInv, CopyKeepsFences
<1>2. DrivenOnce' /\ DrivenBehindFence'
  BY DEF FenceInv, DrivenOnce, DrivenBehindFence, Starting, NoTask
<1>3. CopyKeepsFences'
  BY <1>1 DEF CopyKeepsFences, Holding, Working, WorkerPc
<1>4. NothingOwed'
  BY <1>1 DEF FenceInv, NothingOwed, Holding, Working, WorkerPc
<1>5. WorkerHolds'
  BY DEF WorkerHolds, Holding, Working, WorkerPc
<1> QED BY <1>2, <1>3, <1>4, <1>5 DEF FenceInv

\* A transaction of the user or the scan: the copy of a worker is older now, so
\* that no save of it succeeds.
LEMMA RowMoves ==
  ASSUME TypeInv, FenceInv, TaskIsOwned', UNCHANGED <<loc, drives>>,
         run'.version = run.version + 1, Rested(run'), Exclusive(run'),
         \A c \in CallIds : Fenced(run, c) => Fenced(run', c),
         \/ w.pc \notin Working \cup {"claim", "awaited"} /\ rt' \in {rt, NoTask}
              /\ (w' = w \/ w' = Go("read"))
         \/ /\ w' = w /\ rt' = rt
            /\ w.pc \in {"claim", "awaited", "interrupted"}
         \/ w' = w /\ rt' = rt /\ Same(run, run') /\ run'.status = "TERMINATED"
  PROVE  FenceInv'
<1>1. /\ run.version \in Nat /\ loc.version \in Nat /\ loc.version <= run.version
      /\ w \in Workers
  BY RowNumbers DEF TypeInv, TypeOK, FenceInv, CopyKeepsFences
<1>2. DrivenOnce' /\ DrivenBehindFence'
  BY DEF FenceInv, DrivenOnce, DrivenBehindFence, Starting, NoTask
<1>3. CopyKeepsFences'
  BY <1>1 DEF CopyKeepsFences
<1>4. Go("read").pc = "read"
  BY <1>1, PlacePcs
<1>5. NothingOwed'
  <2>1. Rested(loc) /\ Exclusive(loc)
    BY DEF FenceInv, NothingOwed
  <2>2. CASE w' = w
    BY <2>1, <2>2 DEF FenceInv, NothingOwed
  <2>3. CASE w' = Go("read")
    BY <1>4, <2>1, <2>3 DEF NothingOwed, Working
  <2> QED BY <2>2, <2>3
<1>6. WorkerHolds'
  <2>1. CASE w'.pc \notin Working \cup {"claim", "awaited"}
    BY <2>1 DEF WorkerHolds, Working
  <2>2. CASE w' = w /\ w.pc \in {"claim", "awaited", "interrupted"}
    BY <2>2 DEF FenceInv, WorkerHolds, Working
  <2>3. CASE w' = w /\ rt' = rt /\ Same(run, run') /\ run'.status = "TERMINATED"
    <3>1. \A c : Dispatched(run', c) <=> Dispatched(run, c)
      BY <2>3, SameFacts
    <3> QED BY <2>3, <3>1 DEF FenceInv, WorkerHolds, Working
  <2> QED BY <1>4, <2>1, <2>2, <2>3 DEF Working
<1> QED BY <1>2, <1>3, <1>5, <1>6 DEF FenceInv

-----------------------------------------------------------------------------
(* The worker's own steps *)

\* What the steps below use of the types.
LEMMA WorkerFacts ==
  ASSUME TypeInv
  PROVE  /\ run \in AgentRunRow /\ loc \in AgentRunRow /\ w \in Workers
         /\ run.version \in Nat /\ loc.version \in Nat
         /\ WorkerTyped
BY RowNumbers DEF TypeInv, TypeOK, WorkerTyped

\* Leaving the graph with an exception.
LEMMA RaiseKeeps ==
  ASSUME TypeInv, FenceInv, TaskIsOwned', UNCHANGED <<rt, drives>>, w.pc \in Holding,
         NEW pc \in {"fail", "conflict"}, NEW code, Exit(pc, code), UNCHANGED <<run, loc>>
  PROVE  FenceInv'
<1>1. Leaves
  BY DEF Leaves, Exit, Left, IdleWorker, Working
<1> QED BY <1>1, LocalStep

\* advance up to its claim, and the model steps.
LEMMA FenceModel ==
  ASSUME TypeInv, FenceInv, TaskIsOwned',
         Read \/ CloseoutFault \/ Claim \/ Checkpoint \/ BeforeModel
  PROVE  FenceInv'
<1>0. /\ run \in AgentRunRow /\ loc \in AgentRunRow /\ w \in Workers
      /\ run.version \in Nat /\ loc.version \in Nat
  BY WorkerFacts
<1>00. /\ \A pc : Go(pc).pc = pc
       /\ Left(w, "fail", "FATAL").pc = "fail" /\ IdleWorker.pc = "idle"
  BY <1>0, PlacePcs
<1>1. ASSUME Read PROVE FenceInv'
  <2> DEFINE q == [run EXCEPT !.status = "RUNNING", !.claim = run.version + 1,
                              !.recovery_replay = FALSE]
  <2>1. /\ Same(run, q) /\ q.version = run.version /\ q.status = "RUNNING"
    BY <1>0, Zenon DEF Same, AgentRunRow
  <2> HIDE DEF q
  <2>2. UNCHANGED <<run, rt, drives>>
    BY <1>1, Zenon DEF Read, external
  <2>3. CASE w'.pc \in {"idle", "raised"} /\ loc' = NewRow
    BY <2>2, <2>3, Forget DEF Holding
  <2>4. CASE w'.pc = "claim" /\ loc' = q /\ run.status = "PENDING"
    <3>1. Rested(run) /\ Exclusive(run)
      BY DEF FenceInv, NothingOwed
    <3>2. /\ Rested(q) /\ Exclusive(q) /\ ~OwesReceipt(q)
          /\ \A c : Fenced(q, c) <=> Fenced(run, c)
      BY <2>1, <2>4, <3>1, SameFacts DEF Rested, Settling, Waiting
    <3>3. DrivenOnce' /\ DrivenBehindFence'
      BY <2>2 DEF FenceInv, DrivenOnce, DrivenBehindFence, Starting
    <3>4. CopyKeepsFences'
      BY <1>0, <2>1, <2>2, <2>4, <3>2 DEF CopyKeepsFences, Working
    <3>5. NothingOwed' /\ WorkerHolds'
      BY <2>1, <2>2, <2>4, <3>1, <3>2 DEF NothingOwed, WorkerHolds, Working
    <3> QED BY <3>3, <3>4, <3>5 DEF FenceInv
  <2>5. \/ w' = IdleWorker /\ loc' = NewRow
        \/ w' = [IdleWorker EXCEPT !.pc = "raised"] /\ loc' = NewRow
        \/ w'.pc = "claim" /\ loc' = q /\ run.status = "PENDING"
    BY <1>1 DEF Read, IdleWorker, q
  <2>6. IdleWorker.pc = "idle" /\ [IdleWorker EXCEPT !.pc = "raised"].pc = "raised"
    BY DEF IdleWorker
  <2> QED BY <2>3, <2>4, <2>5, <2>6
<1>2. ASSUME CloseoutFault PROVE FenceInv'
  <2>1. w'.pc = "raised" /\ UNCHANGED <<run, loc, rt, drives>>
    BY <1>00, <1>2, Zenon DEF CloseoutFault, external
  <2> QED BY <2>1, Forget DEF Holding
<1>3. ASSUME Claim PROVE FenceInv'
  <2>1. w.pc = "claim" /\ UNCHANGED <<rt, drives>>
    BY <1>3, Zenon DEF Claim, external
  <2>2. w.pc \in Holding /\ ~OwesReceipt(loc) /\ loc.status = "RUNNING"
    BY <2>1 DEF FenceInv, NothingOwed, WorkerHolds, Holding, WorkerPc
  <2>3. Savable(loc)
    BY <1>0, <2>2, SavableSame DEF Same
  <2> DEFINE start == IF w.replay \/ w.dec # "none" THEN sdk ELSE At("model")
  <2> HIDE DEF start
  <2>4. \/ SaveOk(loc) /\ w' = Left(w, "fail", "FATAL")
        \/ SaveOk(loc) /\ w' = [w EXCEPT !.pc = "graph", !.pos = start]
        \/ SaveConflict(loc) /\ w' = Go("conflict")
        \/ SaveFault(loc) /\ w' = Go("raised")
    BY <1>3, Zenon DEF Claim, start
  <2>5. [w EXCEPT !.pc = "graph", !.pos = start].pc = "graph"
    BY <1>0, Zenon DEF Workers
  <2>6. CASE SaveOk(loc) /\ w'.pc = "graph"
    BY <2>1, <2>2, <2>3, <2>6, SaveStays
  <2>7. CASE SaveAny(loc) /\ w'.pc \in {"fail", "conflict", "raised"}
    <3>1. Leaves
      BY <2>7 DEF Leaves, Working
    <3> QED BY <2>1, <2>2, <2>3, <2>7, <3>1, SaveLeaves
  <2> QED BY <1>00, <2>4, <2>5, <2>6, <2>7, SaveCases
<1>4. ASSUME Checkpoint PROVE FenceInv'
  <2>1. UNCHANGED <<run, loc, w, rt, drives>>
    BY <1>4, Zenon DEF Checkpoint, external
  <2> QED BY <2>1, Untouched
<1>5. ASSUME BeforeModel PROVE FenceInv'
  <2>1. w.pc = "graph" /\ UNCHANGED <<rt, drives>>
    BY <1>5, Zenon DEF BeforeModel, AtNode, external
  <2>2. w.pc \in Holding /\ ~OwesReceipt(loc) /\ loc.status = "RUNNING"
    BY <2>1 DEF FenceInv, NothingOwed, WorkerHolds, Holding, WorkerPc, Working
  <2> DEFINE r == [loc EXCEPT !.calls = Append(loc.calls, "RUNNING")]
             next == [w EXCEPT !.pc = "calling", !.cur = Len(r.calls), !.att = w.att + 1]
  <2>3. /\ Same(loc, r) /\ r.version = loc.version /\ r.status = loc.status
        /\ next.pc = "calling"
    BY <1>0, Zenon DEF Same, AgentRunRow, Workers
  <2>4. r \in AgentRunRow
    <3>1. Append(loc.calls, "RUNNING") \in Seq({"RUNNING", "SUCCEEDED", "FAILED"})
      BY <1>0 DEF AgentRunRow
    <3> QED BY <1>0, <3>1, Zenon DEF AgentRunRow
  <2>5. Raise("FATAL") \/ Persist(r, next)
    BY <1>5, Zenon DEF BeforeModel
  <2> HIDE DEF r, next
  <2>6. CASE Raise("FATAL")
    BY <2>1, <2>2, <2>6, RaiseKeeps DEF Raise
  <2>7. CASE Persist(r, next)
    <3>1. Savable(r) /\ ~OwesReceipt(r)
      BY <2>2, <2>3, <2>4, SavableSame
    <3> QED BY <2>1, <2>2, <2>3, <2>7, <3>1, PersistKeeps
  <2> QED BY <2>5, <2>6, <2>7
<1> QED BY <1>1, <1>2, <1>3, <1>4, <1>5

\* The settled call, the dropped marker and the finished marker are nothing the
\* fence looks at.
LEMMA CopyFacts ==
  ASSUME TypeInv
  PROVE  /\ \A r \in AgentRunRow, status \in {"SUCCEEDED", "FAILED"} :
              /\ Settled(r, status) \in AgentRunRow /\ Same(r, Settled(r, status))
              /\ Settled(r, status).version = r.version
              /\ Settled(r, status).status = r.status
         /\ \A r \in AgentRunRow :
              /\ Answered(r) \in AgentRunRow /\ Same(r, Answered(r))
              /\ Answered(r).version = r.version /\ Answered(r).status = r.status
         /\ \A r \in AgentRunRow : \A c :
              /\ Done(r, c) \in AgentRunRow /\ Same(r, Done(r, c))
              /\ Done(r, c).version = r.version /\ Done(r, c).status = r.status
<1>1. \A r \in AgentRunRow, status \in {"SUCCEEDED", "FAILED"} :
        /\ Settled(r, status) \in AgentRunRow /\ Same(r, Settled(r, status))
        /\ Settled(r, status).version = r.version
        /\ Settled(r, status).status = r.status
  <2> TAKE r \in AgentRunRow, status \in {"SUCCEEDED", "FAILED"}
  <2>1. Settled(r, status) \in AgentRunRow
    BY WorkerFacts, CopyTypes
  <2>2. /\ Same(r, Settled(r, status)) /\ Settled(r, status).version = r.version
        /\ Settled(r, status).status = r.status
    BY Zenon DEF Same, Settled, AgentRunRow
  <2> QED BY <2>1, <2>2
<1>2. \A r \in AgentRunRow :
        LET q == [r EXCEPT !.pending_tool_call = None]
        IN  /\ q \in AgentRunRow /\ Same(r, q)
            /\ q.version = r.version /\ q.status = r.status
  <2> TAKE r \in AgentRunRow
  <2>1. None \in CallIds \cup {None}
    OBVIOUS
  <2> QED BY <2>1, Zenon DEF Same, AgentRunRow
<1>3. \A r : Same(r, r)
  BY DEF Same
<1>4. \A r \in AgentRunRow :
        /\ Answered(r) \in AgentRunRow /\ Same(r, Answered(r))
        /\ Answered(r).version = r.version /\ Answered(r).status = r.status
  BY <1>2, <1>3 DEF Answered
<1>5. \A r \in AgentRunRow : \A c :
        /\ Done(r, c) \in AgentRunRow /\ Same(r, Done(r, c))
        /\ Done(r, c).version = r.version /\ Done(r, c).status = r.status
  BY <1>2, <1>3 DEF Done
<1> QED BY <1>1, <1>4, <1>5

\* The answer and the failure of a model call.
LEMMA FenceAnswer ==
  ASSUME TypeInv, FenceInv, TaskIsOwned', OnModel
  PROVE  FenceInv'
<1>1. w.pc = "calling" /\ UNCHANGED <<rt, drives>>
  BY Zenon DEF OnModel, external
<1>2. w.pc \in Holding /\ ~OwesReceipt(loc) /\ loc.status = "RUNNING"
  BY <1>1 DEF FenceInv, NothingOwed, WorkerHolds, Holding, WorkerPc, Working
<1>3. loc \in AgentRunRow /\ w \in Workers
  BY WorkerFacts
<1> DEFINE r == Answered(Settled(loc, "SUCCEEDED"))
           Next1(pos) == IF r.llm_tokens >= MaxTokens
                           THEN Left(w, "fail", "FATAL")
                           ELSE [w EXCEPT !.pc = "graph", !.pos = pos, !.att = 0]
           q(c) == [r EXCEPT !.pending_tool_call = c]
<1>4. /\ r \in AgentRunRow /\ Same(loc, r)
      /\ r.version = loc.version /\ r.status = "RUNNING"
  <2>1. "SUCCEEDED" \in {"SUCCEEDED", "FAILED"}
    OBVIOUS
  <2>2. /\ Settled(loc, "SUCCEEDED") \in AgentRunRow
        /\ Same(loc, Settled(loc, "SUCCEEDED"))
        /\ Settled(loc, "SUCCEEDED").version = loc.version
        /\ Settled(loc, "SUCCEEDED").status = "RUNNING"
    BY <1>2, <1>3, <2>1, CopyFacts
  <2> QED BY <2>2, CopyFacts DEF Same
<1> HIDE DEF r
<1>5. \A c \in CallIds :
        /\ q(c) \in AgentRunRow /\ Same(loc, q(c))
        /\ q(c).version = loc.version /\ q(c).status = "RUNNING"
  <2> TAKE c \in CallIds
  <2>1. c \in CallIds \cup {None}
    OBVIOUS
  <2> QED BY <1>4, <2>1, Zenon DEF Same, AgentRunRow
<1>6. \A pos : Next1(pos).pc \in {"fail", "graph"}
  <2>1. \A pos : [w EXCEPT !.pc = "graph", !.pos = pos, !.att = 0].pc = "graph"
    BY <1>3, Zenon DEF Workers
  <2>2. Left(w, "fail", "FATAL").pc = "fail"
    BY DEF Left, IdleWorker
  <2> QED BY <2>1, <2>2
<1>7. Savable(r) /\ ~OwesReceipt(r)
  BY <1>2, <1>4, SavableSame
<1>8. \A c \in CallIds : Savable(q(c)) /\ ~OwesReceipt(q(c))
  BY <1>2, <1>5, SavableSame
<1>9. \/ Persist(r, Next1(At("final")))
      \/ \E c \in CallIds : Persist(q(c), Next1(AtTool(c)))
      \/ Exit("fail", "FATAL") /\ loc' = r /\ UNCHANGED <<run, msgs, sys>>
  BY Zenon DEF OnModel, r
<1> HIDE DEF q, Next1
<1>10. \A pos : \/ Next1(pos).pc \notin Working \cup {"claim", "awaited"}
                \/ Next1(pos).pc = "graph"
  BY <1>6 DEF Working
<1>11. CASE Persist(r, Next1(At("final")))
  BY <1>1, <1>2, <1>4, <1>7, <1>10, <1>11, PersistKeeps
<1>12. CASE \E c \in CallIds : Persist(q(c), Next1(AtTool(c)))
  BY <1>1, <1>2, <1>5, <1>8, <1>10, <1>12, PersistKeeps
<1>13. CASE Exit("fail", "FATAL") /\ loc' = r /\ UNCHANGED <<run, msgs, sys>>
  <2>1. Leaves /\ SaveAny(r)
    BY <1>13 DEF Leaves, SaveAny, Exit, Left, IdleWorker, Working
  <2> QED BY <1>1, <1>2, <1>7, <2>1, SaveLeaves
<1> QED BY <1>9, <1>11, <1>12, <1>13

\* A failed model call leaves every fence alone.
LEMMA FenceModelFailure ==
  ASSUME TypeInv, FenceInv, TaskIsOwned', NEW code, NEW retry \in BOOLEAN,
         ModelFailure(code, retry)
  PROVE  FenceInv'
<1>1. w.pc = "calling" /\ UNCHANGED <<rt, drives>>
  BY Zenon DEF ModelFailure, external
<1>2. w.pc \in Holding /\ ~OwesReceipt(loc) /\ loc.status = "RUNNING"
  BY <1>1 DEF FenceInv, NothingOwed, WorkerHolds, Holding, WorkerPc, Working
<1> DEFINE r == Settled(loc, "FAILED")
<1>3. /\ r \in AgentRunRow /\ Same(loc, r)
      /\ r.version = loc.version /\ r.status = "RUNNING"
  BY <1>2, WorkerFacts, CopyFacts
<1>4. Savable(r) /\ ~OwesReceipt(r)
  BY <1>2, <1>3, SavableSame
<1>5. /\ Go("graph").pc = "graph" /\ Left(w, "fail", code).pc = "fail"
      /\ Broken.pc = "fail"
  BY WorkerFacts, PlacePcs DEF Broken
<1>6. \/ SaveOk(r) /\ w'.pc \in {"graph", "fail"}
      \/ SaveConflict(r) /\ w'.pc \in {"graph", "fail"}
      \/ SaveFault(r) /\ w'.pc = "fail"
  BY <1>5 DEF ModelFailure
<1> HIDE DEF r
<1>7. CASE SaveAny(r) /\ w'.pc = "fail"
  <2>1. Leaves
    BY <1>7 DEF Leaves, Working
  <2> QED BY <1>1, <1>2, <1>4, <1>7, <2>1, SaveLeaves
<1>8. CASE SaveOk(r) /\ w'.pc = "graph"
  BY <1>1, <1>2, <1>3, <1>4, <1>8, SaveStays
<1>9. CASE SaveConflict(r) /\ w'.pc = "graph"
  <2>1. run' = run /\ loc' = r /\ Safe
    BY <1>2, <1>4, <1>9, SaveCases, SaveKeeps DEF SaveConflict
  <2>2. DrivenOnce' /\ DrivenBehindFence'
    BY <1>1, <2>1 DEF FenceInv, DrivenOnce, DrivenBehindFence, Starting
  <2>3. \A c : Dispatched(r, c) <=> Dispatched(loc, c)
    BY <1>3, SameFacts
  <2>4. CopyKeepsFences'
    BY <1>1, <1>3, <2>1, <2>3 DEF FenceInv, CopyKeepsFences, Safe, Working
  <2>5. NothingOwed'
    BY <1>4, <1>9, <2>1 DEF NothingOwed, Safe
  <2>6. WorkerHolds'
    BY <1>1, <1>3, <1>9, <2>1 DEF FenceInv, WorkerHolds, Working
  <2> QED BY <2>2, <2>4, <2>5, <2>6 DEF FenceInv
<1> QED BY <1>6, <1>7, <1>8, <1>9, SaveCases
-----------------------------------------------------------------------------
(* The tool node *)

\* In the graph the copy is running and owes nothing but a batch.
LEMMA GraphFacts ==
  ASSUME TypeInv, FenceInv,
         w.pc \in {"graph", "inserted", "prepared", "confirmed", "interrupted", "found"}
  PROVE  /\ w.pc \in Holding /\ ~OwesReceipt(loc)
         /\ w.pc # "interrupted" => loc.status = "RUNNING"
         /\ \A c, out : \/ Message(c, out).pc \notin Working \cup {"claim", "awaited"}
                        \/ Message(c, out).pc = "graph"
         /\ \A pc : Go(pc).pc = pc
         /\ ToolDone.pc = "graph"
<1>1. /\ w.pc \in Holding /\ ~OwesReceipt(loc)
      /\ w.pc # "interrupted" => loc.status = "RUNNING"
  BY DEF FenceInv, NothingOwed, WorkerHolds, Holding, WorkerPc, Working
<1>2. /\ \A c, out : Message(c, out).pc \in {"graph", "fail"}
      /\ \A pc : Go(pc).pc = pc
      /\ ToolDone.pc = "graph"
  BY WorkerFacts, PlacePcs
<1> QED BY <1>1, <1>2 DEF Working

\* Replays: the recorded observation or the applied reply is returned again.
LEMMA FenceReplay ==
  ASSUME TypeInv, FenceInv, TaskIsOwned',
         ReplayCompleted \/ ReplayAnswered \/ SourceMismatch
  PROVE  FenceInv'
<1>1. w.pc = "graph" /\ UNCHANGED <<rt, drives>>
  BY Zenon DEF ReplayCompleted, ReplayAnswered, SourceMismatch, Fresh, AtNode, external
<1>2. /\ w.pc \in Holding /\ ~OwesReceipt(loc) /\ loc.status = "RUNNING"
      /\ \A c, out : \/ Message(c, out).pc \notin Working \cup {"claim", "awaited"}
                     \/ Message(c, out).pc = "graph"
      /\ ToolDone.pc = "graph"
  BY <1>1, GraphFacts
<1>3. CASE ReplayCompleted
  <2> DEFINE r == Done(loc, Call)
  <2>1. /\ r \in AgentRunRow /\ Same(loc, r)
        /\ r.version = loc.version /\ r.status = "RUNNING"
    BY <1>2, WorkerFacts, CopyFacts
  <2>2. Savable(r) /\ ~OwesReceipt(r)
    BY <1>2, <2>1, SavableSame
  <2>3. \/ Persist(r, Message(Call, loc.observations[Call]))
        \/ w' = Message(Call, loc.observations[Call]) /\ UNCHANGED <<run, loc>>
    BY <1>3, Zenon DEF ReplayCompleted
  <2> HIDE DEF r
  <2>4. CASE Persist(r, Message(Call, loc.observations[Call]))
    BY <1>1, <1>2, <2>1, <2>2, <2>4, PersistKeeps
  <2>5. CASE w' = Message(Call, loc.observations[Call]) /\ UNCHANGED <<run, loc>>
    BY <1>1, <1>2, <2>5, LocalStep DEF Leaves
  <2> QED BY <2>3, <2>4, <2>5
<1>4. CASE ReplayAnswered
  <2>1. w' = ToolDone /\ UNCHANGED <<run, loc>>
    BY <1>4, Zenon DEF ReplayAnswered
  <2> QED BY <1>1, <1>2, <2>1, LocalStep
<1>5. CASE SourceMismatch
  BY <1>1, <1>2, <1>5, RaiseKeeps DEF SourceMismatch, Raise
<1> QED BY <1>3, <1>4, <1>5

\* ask_user neither fences nor owes anything.
LEMMA FenceAsk ==
  ASSUME TypeInv, FenceInv, TaskIsOwned', AskUser
  PROVE  FenceInv'
<1>1. w.pc = "graph" /\ UNCHANGED <<rt, drives>>
  BY Zenon DEF AskUser, Handling, Fresh, AtNode, external
<1>2. /\ w.pc \in Holding /\ ~OwesReceipt(loc) /\ loc.status = "RUNNING"
      /\ Go("interrupted").pc = "interrupted"
  BY <1>1, GraphFacts
<1>3. loc \in AgentRunRow /\ w \in Workers /\ Call \in CallIds \cup {None}
  <2>1. Handling
    BY DEF AskUser
  <2> QED BY <2>1, WorkerFacts, Zenon DEF Handling, AgentRunRow
<1> DEFINE asked == [loc EXCEPT !.question = Call,
                       !.waiting_version = loc.waiting_version + 1,
                       !.pending_message = "question", !.status = "WAITING_FOR_USER"]
           replied == [Done(loc, Call) EXCEPT
                         !.answered[Call] = loc.last_reply, !.question = None]
           next == [ToolDone EXCEPT !.dec = "none"]
<1>4. /\ asked \in AgentRunRow /\ Same(loc, asked) /\ asked.version = loc.version
  BY <1>3, RowNumbers, Members, Zenon DEF Same, AgentRunRow
<1>5. /\ replied \in AgentRunRow /\ Same(loc, replied) /\ replied.version = loc.version
      /\ replied.status = "RUNNING"
  <2>1. /\ Done(loc, Call) \in AgentRunRow /\ Same(loc, Done(loc, Call))
        /\ Done(loc, Call).version = loc.version /\ Done(loc, Call).status = "RUNNING"
    BY <1>2, <1>3, CopyFacts
  <2>2. loc.last_reply \in CallIds \cup {None} /\ None \in CallIds \cup {None}
    BY <1>3, Zenon DEF AgentRunRow
  <2> QED BY <2>1, <2>2, Zenon DEF Same, AgentRunRow
<1>6. next.pc = "graph"
  BY <1>3, Zenon DEF ToolDone, Workers
<1>7. \/ Persist(asked, Go("interrupted"))
      \/ w' = Go("interrupted") /\ UNCHANGED <<run, loc>>
      \/ Persist(replied, next)
  BY Zenon DEF AskUser
<1> HIDE DEF asked, replied, next
<1>8. CASE Persist(asked, Go("interrupted"))
  <2>1. Savable(asked) /\ ~OwesReceipt(asked)
    BY <1>2, <1>4, SavableSame
  <2> QED BY <1>1, <1>2, <1>8, <2>1, PersistKeeps
<1>9. CASE w' = Go("interrupted") /\ UNCHANGED <<run, loc>>
  BY <1>1, <1>2, <1>9, LocalStep
<1>10. CASE Persist(replied, next)
  <2>1. Savable(replied) /\ ~OwesReceipt(replied)
    BY <1>2, <1>5, SavableSame
  <2> QED BY <1>1, <1>2, <1>5, <1>6, <1>10, <2>1, PersistKeeps
<1> QED BY <1>7, <1>8, <1>9, <1>10

\* A new execution record, or the observation that input is missing.
LEMMA FenceResolve ==
  ASSUME TypeInv, FenceInv, TaskIsOwned', Resolve
  PROVE  FenceInv'
<1>1. w.pc = "graph" /\ UNCHANGED <<rt, drives>>
  BY Zenon DEF Resolve, Handling, Fresh, AtNode, external
<1>2. /\ w.pc \in Holding /\ ~OwesReceipt(loc) /\ loc.status = "RUNNING"
      /\ Go("graph").pc = "graph" /\ ToolDone.pc = "graph"
  BY <1>1, GraphFacts
<1>3. /\ Handling /\ loc.pending_execution.call = None /\ ~Executed(loc, Call)
  BY Zenon DEF Resolve, Handling, Fresh
<1>4. loc \in AgentRunRow /\ Call \in CallIds \cup {None} /\ None \notin CallIds
  BY <1>3, WorkerFacts, CallAssumption, Zenon DEF Handling, AgentRunRow
<1>5. ~loc.pending_execution.dispatched
  BY <1>3 DEF FenceInv, NothingOwed, Exclusive
<1> DEFINE missing == [Done(loc, Call) EXCEPT !.observations[Call] = "NEEDS_INPUT"]
           created == [loc EXCEPT !.pending_execution = [NoExecution EXCEPT !.call = Call]]
<1>6. /\ missing \in AgentRunRow /\ missing.version = loc.version
      /\ missing.status = "RUNNING"
      /\ missing.pending_execution = Done(loc, Call).pending_execution
      /\ missing.observations = [Done(loc, Call).observations EXCEPT ![Call] = "NEEDS_INPUT"]
      /\ Same(loc, Done(loc, Call))
  <2>1. /\ Done(loc, Call) \in AgentRunRow /\ Same(loc, Done(loc, Call))
        /\ Done(loc, Call).version = loc.version /\ Done(loc, Call).status = "RUNNING"
    BY <1>2, <1>4, CopyFacts
  <2> QED BY <2>1, Members, Zenon DEF AgentRunRow
<1>7. /\ created \in AgentRunRow /\ created.version = loc.version
      /\ created.status = "RUNNING" /\ created.observations = loc.observations
      /\ ~created.pending_execution.dispatched
  <2>1. /\ [NoExecution EXCEPT !.call = Call] \in ExecutionRecord
        /\ ~[NoExecution EXCEPT !.call = Call].dispatched
    BY <1>4, Members DEF NoExecution, ExecutionRecord
  <2> QED BY <1>2, <1>4, <2>1, Zenon DEF AgentRunRow
<1>8. \/ Persist(missing, ToolDone)
      \/ Raise("FATAL")
      \/ Persist(created, Go("graph"))
  BY Zenon DEF Resolve
<1> HIDE DEF missing, created
<1>9. Savable(missing) /\ ~OwesReceipt(missing)
  <2>1. loc.observations \in [CallIds -> Observations]
    BY <1>4, Zenon DEF AgentRunRow
  <2>2. /\ ~missing.pending_execution.dispatched
        /\ \A c \in CallIds : Executed(loc, c) => Executed(missing, c)
    BY <1>3, <1>5, <1>6, <2>1 DEF Executed, Same
  <2> QED BY <1>5, <1>6, <2>2 DEF Savable, Fenced, Dispatched, Exclusive, Rested,
             OwesReceipt
<1>10. Savable(created) /\ ~OwesReceipt(created)
  BY <1>5, <1>7 DEF Savable, Fenced, Dispatched, Executed, Exclusive, Rested, OwesReceipt
<1>11. CASE Persist(missing, ToolDone)
  BY <1>1, <1>2, <1>6, <1>9, <1>11, PersistKeeps
<1>12. CASE Raise("FATAL")
  BY <1>1, <1>2, <1>12, RaiseKeeps DEF Raise
<1>13. CASE Persist(created, Go("graph"))
  BY <1>1, <1>2, <1>7, <1>10, <1>13, PersistKeeps
<1> QED BY <1>8, <1>11, <1>12, <1>13

\* The Invocation and the consent: none of it is the fence's business.
LEMMA FenceConsent ==
  ASSUME TypeInv, FenceInv, TaskIsOwned',
         Prepare \/ Authorize \/ Prepared \/ ShowCard \/ ApplyDecision \/ Confirmed
  PROVE  FenceInv'
<1>1. w.pc \in {"graph", "inserted", "prepared", "confirmed"} /\ UNCHANGED <<rt, drives>>
  BY DEF Prepare, Authorize, Prepared, ShowCard, ApplyDecision, Confirmed, NeedsConsent, Ready,
     Handling, Fresh, AtNode, external
<1>2. /\ w.pc \in Holding /\ ~OwesReceipt(loc) /\ loc.status = "RUNNING"
      /\ \A pc : Go(pc).pc = pc
  BY <1>1, GraphFacts
<1>3. loc \in AgentRunRow /\ w \in Workers
  BY WorkerFacts
<1>4. ASSUME NEW pc \in {"fail", "conflict"}, NEW code, Exit(pc, code),
             UNCHANGED <<run, loc>>
      PROVE  FenceInv'
  BY <1>1, <1>2, <1>4, RaiseKeeps
<1>5. ASSUME NEW pc \in {"inserted", "prepared", "confirmed", "interrupted"}, w' = Go(pc),
             UNCHANGED <<run, loc>>
      PROVE  FenceInv'
  BY <1>1, <1>2, <1>5, LocalStep
<1>6. CASE Prepare \/ Authorize
  <2>1. UNCHANGED <<run, loc>>
    BY <1>6, PrepareShape, Zenon
  <2>2. \/ Exit("conflict", "none") \/ Exit("fail", "FATAL")
        \/ Exit("fail", "DEPENDENCY_UNAVAILABLE")
        \/ w' = Go("prepared") \/ w' = Go("inserted")
    BY <1>6, PrepareShape, Zenon DEF PrepareBroken
  <2> QED BY <1>4, <1>5, <2>1, <2>2
<1>7. CASE Prepared
  <2> DEFINE status == IF inv[Call] = "PENDING_CONFIRMATION"
                         THEN "PENDING_CONFIRMATION" ELSE "PENDING"
             r == [loc EXCEPT !.pending_execution.prepared = TRUE,
                              !.pending_execution.status = status]
  <2>1. status \in PendingStatus
    BY Members
  <2> HIDE DEF status
  <2>2. /\ r \in AgentRunRow /\ Same(loc, r) /\ r.version = loc.version
        /\ r.status = "RUNNING"
    <3>1. /\ loc.pending_execution \in ExecutionRecord
          /\ r = [loc EXCEPT !.pending_execution =
                    [loc.pending_execution EXCEPT !.prepared = TRUE, !.status = status]]
      BY <1>3, Zenon DEF AgentRunRow
    <3> DEFINE e == [loc.pending_execution EXCEPT !.prepared = TRUE, !.status = status]
    <3>2. /\ e \in ExecutionRecord /\ e.call = loc.pending_execution.call
          /\ e.dispatched = loc.pending_execution.dispatched
      BY <2>1, <3>1, Zenon DEF ExecutionRecord
    <3> HIDE DEF e
    <3>3. r = [loc EXCEPT !.pending_execution = e]
      BY <3>1 DEF e
    <3> HIDE DEF r
    <3> QED BY <1>2, <1>3, <3>2, <3>3, Zenon DEF Same, AgentRunRow
  <2>3. Persist(r, Go("graph"))
    BY <1>7, Zenon DEF Prepared, status
  <2> HIDE DEF r
  <2>4. Savable(r) /\ ~OwesReceipt(r)
    BY <1>2, <2>2, SavableSame
  <2> QED BY <1>1, <1>2, <2>2, <2>3, <2>4, PersistKeeps
<1>8. CASE ShowCard
  <2> DEFINE r == [loc EXCEPT !.waiting_version = loc.waiting_version + 1,
                     !.pending_execution.shown = loc.waiting_version + 1,
                     !.status = "WAITING_FOR_CONFIRMATION"]
             e == [loc.pending_execution EXCEPT !.shown = loc.waiting_version + 1]
             q == [loc EXCEPT !.waiting_version = loc.waiting_version + 1,
                     !.pending_execution = e,
                     !.status = "WAITING_FOR_CONFIRMATION"]
  <2>1. /\ e \in ExecutionRecord /\ e.call = loc.pending_execution.call
        /\ e.dispatched = loc.pending_execution.dispatched
    <3>1. loc.pending_execution \in ExecutionRecord
      BY <1>3, Zenon DEF AgentRunRow
    <3> QED BY <1>3, <3>1, RowNumbers, Zenon DEF ExecutionRecord
  <2>2. r = q
    BY <1>3, Zenon DEF AgentRunRow
  <2> HIDE DEF e
  <2>3. q \in AgentRunRow /\ Same(loc, q) /\ q.version = loc.version
    BY <1>3, <2>1, RowNumbers, Members, Zenon DEF Same, AgentRunRow
  <2>4. \/ Persist(r, Go("interrupted"))
        \/ w' = Go("interrupted") /\ UNCHANGED <<run, loc>>
    BY <1>8, Zenon DEF ShowCard
  <2> HIDE DEF r, q
  <2>5. Savable(r) /\ ~OwesReceipt(r)
    BY <1>2, <2>2, <2>3, SavableSame
  <2>6. CASE Persist(r, Go("interrupted"))
    BY <1>1, <1>2, <2>5, <2>6, PersistKeeps
  <2> QED BY <1>5, <2>4, <2>6
<1>9. CASE ApplyDecision
  <2>1. UNCHANGED <<run, loc>>
    BY <1>9, Zenon DEF ApplyDecision, Raise
  <2>2. Exit("fail", "FATAL") \/ w' = Go("confirmed")
    BY <1>9, Zenon DEF ApplyDecision, Raise
  <2> QED BY <1>4, <1>5, <2>1, <2>2
<1>10. CASE Confirmed
  <2> DEFINE r == [loc EXCEPT !.pending_execution.confirmed = TRUE,
                              !.confirmation_response = "none"]
             e == [loc.pending_execution EXCEPT !.confirmed = TRUE]
             q == [loc EXCEPT !.pending_execution = e, !.confirmation_response = "none"]
             next == [w EXCEPT !.pc = "graph", !.dec = "none"]
  <2>1. /\ e \in ExecutionRecord /\ e.call = loc.pending_execution.call
        /\ e.dispatched = loc.pending_execution.dispatched
    <3>1. loc.pending_execution \in ExecutionRecord
      BY <1>3, Zenon DEF AgentRunRow
    <3> QED BY <1>3, <3>1, Zenon DEF ExecutionRecord
  <2>2. r = q
    BY <1>3, Zenon DEF AgentRunRow
  <2> HIDE DEF e
  <2>3. /\ q \in AgentRunRow /\ Same(loc, q) /\ q.version = loc.version
        /\ q.status = "RUNNING"
    BY <1>2, <1>3, <2>1, Zenon DEF Same, AgentRunRow
  <2>4. Persist(r, next)
    BY <1>10, Zenon DEF Confirmed
  <2>5. next.pc = "graph"
    BY <1>3, Zenon DEF Workers
  <2> HIDE DEF r, q, next
  <2>6. Savable(r) /\ ~OwesReceipt(r)
    BY <1>2, <2>2, <2>3, SavableSame
  <2> QED BY <1>1, <1>2, <2>2, <2>3, <2>4, <2>5, <2>6, PersistKeeps
<1> QED BY <1>6, <1>7, <1>8, <1>9, <1>10

\* The fence itself: a call behind it was never driven.
LEMMA FenceDispatch ==
  ASSUME TypeInv, FenceInv, TaskIsOwned', DispatchFence
  PROVE  FenceInv'
<1>1. w.pc = "graph" /\ w.pos.node = "tools" /\ drives' = drives
  BY Zenon DEF DispatchFence, Permitted, Ready, Handling, Fresh, AtNode
<1>2. /\ w.pc \in Holding /\ ~OwesReceipt(loc) /\ loc.status = "RUNNING"
      /\ \A pc : Go(pc).pc = pc
  BY <1>1, GraphFacts
<1>3. /\ ~loc.pending_execution.dispatched
      /\ loc.pending_execution.call = Call
      /\ ~Executed(loc, Call)
  BY Zenon DEF DispatchFence, Permitted, Ready, Handling, Fresh, Record
<1>4. /\ loc \in AgentRunRow /\ w \in Workers /\ Call \in CallIds /\ Call # None
      /\ drives \in [CallIds -> Nat]
  <2>1. w.pos \in Positions
    BY WorkerFacts, Zenon DEF Workers
  <2>2. Call \in CallIds
    BY <1>1, <2>1 DEF Positions, At, AtTool, Call
  <2> QED BY <2>2, WorkerFacts, CallAssumption DEF TypeInv, TypeOK
<1> DEFINE r == [loc EXCEPT !.pending_execution.dispatched = TRUE,
                            !.pending_execution.status = "RUNNING",
                            !.tool_executions = loc.tool_executions + 1]
           e == [loc.pending_execution EXCEPT !.dispatched = TRUE, !.status = "RUNNING"]
           q == [loc EXCEPT !.pending_execution = e,
                            !.tool_executions = loc.tool_executions + 1]
<1>5. e \in ExecutionRecord /\ e.call = Call /\ e.dispatched
  <2>1. loc.pending_execution \in ExecutionRecord
    BY <1>4, Zenon DEF AgentRunRow
  <2> QED BY <1>3, <2>1, Members, Zenon DEF ExecutionRecord
<1>6. r = q
  BY <1>4, Zenon DEF AgentRunRow
<1> HIDE DEF e
<1>7. /\ q \in AgentRunRow /\ q.version = loc.version /\ q.status = "RUNNING"
      /\ q.observations = loc.observations /\ q.pending_execution = e
  BY <1>2, <1>4, <1>5, RowNumbers, Zenon DEF AgentRunRow
<1> DEFINE task == [st |-> "start", call |-> Call, out |-> "none",
                    version |-> r.version + 1, claim |-> r.claim]
<1>8. \/ Raise("FATAL") /\ rt' = rt
      \/ Persist(r, Go("await")) /\ rt' = IF w'.pc # "await" THEN rt ELSE task
  BY Zenon DEF DispatchFence
<1> HIDE DEF r, q
<1>9. Savable(r)
  BY <1>3, <1>4, <1>5, <1>6, <1>7
     DEF Savable, Fenced, Dispatched, Executed, Exclusive, Rested, Settling, Waiting
<1>10. CASE Raise("FATAL") /\ rt' = rt
  BY <1>1, <1>2, <1>10, RaiseKeeps DEF Raise
<1>11. CASE SaveAny(r) /\ w'.pc \in {"conflict", "fail"} /\ rt' = rt
  <2>1. Leaves
    BY <1>11 DEF Leaves, Working
  <2> QED BY <1>1, <1>2, <1>9, <1>11, <2>1, SaveLeaves
<1>12. CASE SaveOk(r) /\ w' = Go("await") /\ rt' = task
  <2>1. Safe
    BY <1>2, <1>9, <1>12, SaveCases, SaveKeeps
  <2>2. /\ run' = Saved(r) /\ loc' = Saved(r) /\ Saved(r).status = "RUNNING"
        /\ run.version = loc.version /\ Dispatched(Saved(r), Call)
    BY <1>5, <1>6, <1>7, <1>9, <1>12, SavedRow
       DEF SaveOk, Store, SaveAccepted, Savable, Dispatched
  <2>3. drives[Call] = 0
    <3>1. Fenced(run, Call) => Fenced(loc, Call)
      BY <1>2, <1>4, <2>2 DEF FenceInv, CopyKeepsFences
    <3>2. ~Fenced(loc, Call)
      BY <1>3 DEF Fenced, Dispatched
    <3>3. ~(drives[Call] > 0)
      BY <1>4, <3>1, <3>2 DEF FenceInv, DrivenBehindFence
    <3> QED BY <1>4, <3>3
  <2>4. rt'.st = "start" /\ rt'.call = Call
    BY <1>12
  <2>5. DrivenOnce' /\ DrivenBehindFence'
    BY <1>1, <2>1, <2>2, <2>3, <2>4
       DEF FenceInv, DrivenOnce, DrivenBehindFence, Starting, Safe, Fenced
  <2>6. CopyKeepsFences'
    BY <2>1, <2>2 DEF CopyKeepsFences, Safe, Fenced
  <2>7. w'.pc = "await" /\ w'.pos.call = Call
    BY <1>4, <1>12, PlacePcs DEF Call
  <2>8. NothingOwed'
    BY <2>1, <2>7 DEF NothingOwed, Safe, Working
  <2>9. WorkerHolds'
    BY <2>2, <2>4, <2>7 DEF WorkerHolds, Working
  <2> QED BY <2>5, <2>6, <2>8, <2>9 DEF FenceInv
<1>13. /\ Left(Go("await"), "conflict", "none").pc = "conflict"
       /\ Left(Go("await"), "fail", "DEPENDENCY_UNAVAILABLE").pc = "fail"
       /\ Left(Go("await"), "fail", "FATAL").pc = "fail"
  BY DEF Left, IdleWorker
<1>14. ASSUME Persist(r, Go("await"))
       PROVE  \/ SaveOk(r) /\ w' = Go("await")
              \/ SaveAny(r) /\ w'.pc \in {"conflict", "fail"}
  BY <1>13, <1>14, SaveCases DEF Persist
<1> QED BY <1>2, <1>8, <1>10, <1>11, <1>12, <1>14

\* A dispatched call met again: only a batch is continued, and its receipt is
\* recorded like the task's.
LEMMA FenceContinue ==
  ASSUME TypeInv, FenceInv, TaskIsOwned', Continue
  PROVE  FenceInv'
<1>1. w.pc = "graph" /\ UNCHANGED <<run, loc, rt>>
  BY Zenon DEF Continue, Permitted, Ready, Handling, Fresh, AtNode
<1>2. /\ w.pc \in Holding /\ ~OwesReceipt(loc) /\ loc.status = "RUNNING"
      /\ \A pc : Go(pc).pc = pc
  BY <1>1, GraphFacts
<1>3. loc.pending_execution.dispatched /\ loc.pending_execution.call = Call
  BY Zenon DEF Continue, Permitted, Ready, Record
<1>4. KindOf[Call] = "batch" /\ Dispatched(loc, Call)
  BY <1>2, <1>3 DEF OwesReceipt, Dispatched
<1>5. drives \in [CallIds -> Nat]
  BY DEF TypeInv, TypeOK
<1>6. \/ Exit("conflict", "none") /\ drives' = drives
      \/ /\ w' = Go("found") \/ Exit("fail", "TOOL_OUTCOME_UNKNOWN")
         /\ \/ drives' = drives
            \/ /\ drives' = [drives EXCEPT ![Call] = drives[Call] + 1]
               /\ MayCommit(Call, loc.version, loc.claim)
  BY Zenon DEF Continue
<1>7. w'.pc \in {"conflict", "fail"} \/ w'.pc = "found"
  BY <1>2, <1>6 DEF Exit, Left, IdleWorker
<1>8. DrivenOnce'
  <2>1. ASSUME NEW c \in CallIds, KindOf[c] # "batch" PROVE drives'[c] = drives[c]
    BY <1>4, <1>5, <1>6, <2>1
  <2> QED BY <1>1, <2>1 DEF FenceInv, DrivenOnce, Starting
<1>9. DrivenBehindFence'
  <2>1. ASSUME NEW c \in CallIds, drives'[c] # drives[c] PROVE Fenced(run, c)
    <3>1. c = Call /\ MayCommit(c, loc.version, loc.claim)
      BY <1>5, <1>6, <2>1
    <3>2. CASE Dispatched(run, c)
      BY <3>2 DEF Fenced
    <3>3. CASE run.version = loc.version
      BY <1>1, <1>4, <3>1, <3>3 DEF FenceInv, CopyKeepsFences, Working
    <3> QED BY <3>1, <3>2, <3>3 DEF MayCommit, OwnerActive
  <2> QED BY <1>1, <2>1 DEF FenceInv, DrivenBehindFence, Starting
<1>10. CopyKeepsFences'
  BY <1>1, <1>2, <1>7 DEF FenceInv, CopyKeepsFences, Working
<1>11. NothingOwed'
  BY <1>1, <1>2, <1>7 DEF FenceInv, NothingOwed
<1>12. WorkerHolds'
  BY <1>1, <1>2, <1>7 DEF FenceInv, WorkerHolds, Working
<1> QED BY <1>8, <1>9, <1>10, <1>11, <1>12 DEF FenceInv

\* A receipt found by the worker closes the record it names.
LEMMA FenceReceipt ==
  ASSUME TypeInv, FenceInv, TaskIsOwned', Found \/ Recorded \/ Awaited
  PROVE  FenceInv'
<1>0. /\ run \in AgentRunRow /\ loc \in AgentRunRow /\ w \in Workers
      /\ \A pc : Go(pc).pc = pc
      /\ \A c, out : \/ Message(c, out).pc \notin Working \cup {"claim", "awaited"}
                     \/ Message(c, out).pc = "graph"
  BY WorkerFacts, PlacePcs DEF Working
<1>1. CASE Found
  <2>1. w.pc = "found" /\ UNCHANGED <<rt, drives>>
    BY <1>1, Zenon DEF Found, external
  <2>2. w.pc \in Holding
    BY <2>1, GraphFacts
  <2>3. \/ /\ OwnsReceipt(run, Call)
           /\ run' = ReceiptRow(run, Call, inv[Call])
           /\ loc' = ReceiptRow(run, Call, inv[Call])
           /\ w' = Go("recorded")
        \/ Exit("conflict", "none") /\ UNCHANGED <<run, loc>>
    BY <1>1, Zenon DEF Found
  <2>4. CASE Exit("conflict", "none") /\ UNCHANGED <<run, loc>>
    BY <2>1, <2>2, <2>4, RaiseKeeps
  <2>5. CASE /\ OwnsReceipt(run, Call)
             /\ run' = ReceiptRow(run, Call, inv[Call])
             /\ loc' = ReceiptRow(run, Call, inv[Call])
             /\ w' = Go("recorded")
    <3>1. /\ inv[Call] \in Outcomes /\ Dispatched(run, Call)
          /\ run.status \in {"RUNNING", "TERMINATED"}
      BY <2>1, <2>5
         DEF TypeInv, TaskIsOwned, OwnsReceipt, Call, FenceInv, WorkerHolds, Working
    <3>2. Call \in CallIds \cup {None}
      BY <1>0, <3>1, Zenon DEF Dispatched, AgentRunRow, ExecutionRecord
    <3>3. /\ run'.status = run.status /\ ~run'.pending_execution.dispatched
          /\ \A d \in CallIds : Fenced(run', d) <=> Fenced(run, d)
      BY <1>0, <2>5, <3>1, <3>2, ReceiptFacts
    <3>4. w'.pc = "recorded" /\ loc' = run'
      BY <1>0, <2>5
    <3>5. DrivenOnce' /\ DrivenBehindFence'
      BY <2>1, <3>3 DEF FenceInv, DrivenOnce, DrivenBehindFence, Starting
    <3>6. CopyKeepsFences'
      <4>1. run'.version \in Nat
        <5>1. run'.version = run.version + 1
          BY <1>0, <2>5, <3>1, <3>2, ReceiptFacts
        <5> QED BY <1>0, <5>1, RowNumbers
      <4> QED BY <3>4, <4>1 DEF CopyKeepsFences, Fenced
    <3>7. NothingOwed'
      BY <3>3, <3>4 DEF NothingOwed, Rested, Exclusive, OwesReceipt
    <3>8. WorkerHolds'
      BY <3>1, <3>3, <3>4 DEF WorkerHolds, Working
    <3> QED BY <3>5, <3>6, <3>7, <3>8 DEF FenceInv
  <2> QED BY <2>3, <2>4, <2>5
<1>2. CASE Recorded
  <2>1. w.pc = "recorded" /\ UNCHANGED <<rt, drives>>
    BY <1>2, Zenon DEF Recorded, external
  <2>2. /\ w.pc \in Holding /\ ~OwesReceipt(loc)
        /\ loc.status = "RUNNING" \/ run.status = "TERMINATED"
    BY <2>1 DEF FenceInv, NothingOwed, WorkerHolds, Holding, WorkerPc, Working
  <2> DEFINE r == Done(loc, Call)
             next == Message(Call, loc.observations[Call])
  <2>3. /\ r \in AgentRunRow /\ Same(loc, r)
        /\ r.version = loc.version /\ r.status = loc.status
    BY <1>0, CopyFacts
  <2>4. Savable(r) /\ ~OwesReceipt(r)
    BY <2>2, <2>3, SavableSame
  <2>5. Persist(r, next)
    BY <1>2, Zenon DEF Recorded
  <2>6. \/ next.pc \notin Working \cup {"claim", "awaited"} \/ next.pc = "graph"
    BY <1>0
  <2> HIDE DEF r, next
  <2>7. CASE loc.status = "RUNNING"
    BY <2>1, <2>2, <2>3, <2>4, <2>5, <2>6, <2>7, PersistKeeps
  <2>8. CASE run.status = "TERMINATED"
    <3>1. ~SaveOk(r)
      BY <2>8 DEF SaveOk, Valid, AllowedNext, Status, Terminal, Waiting
    <3>2. /\ Left(next, "conflict", "none").pc = "conflict"
          /\ Left(next, "fail", "DEPENDENCY_UNAVAILABLE").pc = "fail"
          /\ Left(next, "fail", "FATAL").pc = "fail"
      BY DEF Left, IdleWorker
    <3>3. SaveAny(r) /\ w'.pc \in {"conflict", "fail"}
      BY <2>5, <3>1, <3>2, SaveCases DEF Persist
    <3>4. Leaves
      BY <3>3 DEF Leaves, Working
    <3> QED BY <2>1, <2>2, <2>4, <3>3, <3>4, SaveLeaves
  <2> QED BY <2>2, <2>7, <2>8
<1>3. CASE Awaited
  <2>1. w.pc = "awaited" /\ UNCHANGED <<rt, drives>>
    BY <1>3, Zenon DEF Awaited, external
  <2>2. /\ w.pc \in Holding
        /\ loc.status \in {"RUNNING", "TERMINATED"} \/ ~Executed(loc, Call)
        /\ loc.status = "TERMINATED" \/ ~Executed(loc, Call) \/ ~OwesReceipt(loc)
    BY <2>1 DEF FenceInv, NothingOwed, WorkerHolds, Holding, WorkerPc, Call
  <2> DEFINE r == [loc EXCEPT !.pending_tool_call = None]
             next == Message(Call, loc.observations[Call])
  <2>3. /\ r \in AgentRunRow /\ Same(loc, r)
        /\ r.version = loc.version /\ r.status = loc.status
    <3>1. None \in CallIds \cup {None}
      OBVIOUS
    <3> QED BY <1>0, <3>1, Zenon DEF Same, AgentRunRow
  <2>4. \/ Exit("conflict", "none") /\ UNCHANGED <<run, loc>>
        \/ Exit("fail", "TOOL_OUTCOME_UNKNOWN") /\ UNCHANGED <<run, loc>>
        \/ /\ Persist(r, next) /\ loc.status # "TERMINATED" /\ Executed(loc, Call)
    BY <1>3, Zenon DEF Awaited, Raise
  <2>5. \/ next.pc \notin Working \cup {"claim", "awaited"} \/ next.pc = "graph"
    BY <1>0
  <2> HIDE DEF r, next
  <2>6. CASE \E pc \in {"fail", "conflict"} : \E code : Exit(pc, code) /\ UNCHANGED <<run, loc>>
    BY <2>1, <2>2, <2>6, RaiseKeeps
  <2>7. CASE Persist(r, next) /\ loc.status # "TERMINATED" /\ Executed(loc, Call)
    <3>1. loc.status = "RUNNING" /\ ~OwesReceipt(loc)
      BY <2>2, <2>7
    <3>2. Savable(r) /\ ~OwesReceipt(r)
      BY <2>3, <3>1, SavableSame
    <3> QED BY <2>1, <2>2, <2>3, <2>5, <2>7, <3>1, <3>2, PersistKeeps
  <2> QED BY <2>4, <2>6, <2>7
<1> QED BY <1>1, <1>2, <1>3

-----------------------------------------------------------------------------
(* Ends of an advance *)

\* The ends of an advance keep the fence.
LEMMA FenceEnd ==
  ASSUME TypeInv, FenceInv, TaskIsOwned', EndStep
  PROVE  FenceInv'
<1>0. /\ run \in AgentRunRow /\ loc \in AgentRunRow /\ w \in Workers
      /\ run.version \in Nat /\ loc.version \in Nat
      /\ \A pc : Go(pc).pc = pc
      /\ Left(w, "conflict", "none").pc = "conflict" /\ Broken.pc = "fail"
  BY WorkerFacts, PlacePcs DEF Broken
<1>1. ASSUME NEW r, Savable(r), SaveAny(r), w.pc \in Holding, UNCHANGED <<rt, drives>>,
             w'.pc \in {"read", "conflict", "fail", "raised", "dying"}
      PROVE  FenceInv'
  BY <1>1, SaveLeaves DEF Leaves, Working
<1>2. ASSUME w.pc \in Holding, UNCHANGED <<run, loc, rt, drives>>, w'.pc = "read"
      PROVE  FenceInv'
  BY <1>2, LocalStep DEF Leaves, Working
<1>3. CASE Interrupted
  <2>1. w.pc = "interrupted" /\ UNCHANGED <<rt, drives>>
    BY <1>3, Zenon DEF Interrupted, external
  <2>2. w.pc \in Holding /\ ~OwesReceipt(loc)
    BY <2>1, GraphFacts
  <2> DEFINE waiting == IF loc.question # None THEN "WAITING_FOR_USER"
                        ELSE "WAITING_FOR_CONFIRMATION"
             r == [loc EXCEPT !.status = waiting]
  <2>3. waiting \in Status
    BY Members
  <2> HIDE DEF waiting
  <2>4. r \in AgentRunRow /\ Same(loc, r) /\ r.version = loc.version
    BY <1>0, <2>3, Zenon DEF Same, AgentRunRow
  <2>5. \/ w' = Go("read") /\ UNCHANGED <<run, loc>>
        \/ SaveOk(r) /\ w' = Go("read")
        \/ SaveConflict(r) /\ w' = Left(w, "conflict", "none")
        \/ SaveFault(r) /\ w' = Broken
    BY <1>3, Zenon DEF Interrupted, waiting
  <2> HIDE DEF r
  <2>6. Savable(r)
    BY <2>2, <2>4, SavableSame
  <2> QED BY <1>0, <1>1, <1>2, <2>1, <2>2, <2>5, <2>6, SaveCases
<1>4. CASE FinalAnswer
  <2>1. w.pc = "graph" /\ UNCHANGED <<rt, drives>>
    BY <1>4, Zenon DEF FinalAnswer, AtNode, external
  <2>2. w.pc \in Holding /\ ~OwesReceipt(loc)
    BY <2>1, GraphFacts
  <2> DEFINE r == [loc EXCEPT !.final_message = TRUE, !.pending_message = "answer",
                              !.question = None, !.status = "SUCCEEDED"]
  <2>3. r \in AgentRunRow /\ Same(loc, r) /\ r.version = loc.version
    <3>1. None \in CallIds \cup {None}
      OBVIOUS
    <3> QED BY <1>0, <3>1, Members, ZenonT(60) DEF Same, AgentRunRow
  <2>4. Raise("FATAL") \/ Persist(r, Go("read"))
    BY <1>4, Zenon DEF FinalAnswer
  <2> HIDE DEF r
  <2>5. Savable(r)
    BY <2>2, <2>3, SavableSame
  <2>6. CASE Raise("FATAL")
    BY <2>1, <2>2, <2>6, RaiseKeeps DEF Raise
  <2>7. CASE Persist(r, Go("read"))
    <3>1. Go("read").pc \notin Working \cup {"claim", "awaited"}
      BY <1>0 DEF Working
    <3> QED BY <2>1, <2>2, <2>5, <2>7, <3>1, PersistKeeps
  <2> QED BY <2>4, <2>6, <2>7
<1>5. CASE FailSettle
  <2>1. w.pc = "fail" /\ w' = w /\ UNCHANGED <<rt, drives>>
    BY <1>5, Zenon DEF FailSettle, external
  <2> DEFINE r == Settled(loc, "FAILED")
  <2>2. /\ r \in AgentRunRow /\ Same(loc, r)
        /\ r.version = loc.version /\ r.status = loc.status
    BY <1>0, CopyFacts
  <2>3. SaveOk(r) \/ SaveConflict(r) \/ SaveFault(r)
    BY <1>5, Zenon DEF FailSettle
  <2> HIDE DEF r
  <2>4. Savable(r)
    BY <2>2, SavableSame
  <2> QED BY <1>1, <2>1, <2>3, <2>4, SaveCases DEF Holding, WorkerPc
<1>6. CASE FailSave
  <2>1. w.pc = "fail" /\ UNCHANGED <<rt, drives>>
    BY <1>6, Zenon DEF FailSave, external
  <2>0. PICK code \in {IF BudgetSpent(loc) THEN "FATAL" ELSE w.code, "FATAL"} :
          FailSaved(FailRow(code))
    BY <1>6, FailShape, Zenon
  <2> DEFINE status == IF code = "FATAL" THEN "TERMINATED" ELSE "INTERRUPTED"
             r == [loc EXCEPT !.error_code = code, !.final_message = FALSE,
                     !.pending_message = "none", !.status = status]
  <2>2. code \in ErrorCodes /\ status \in Status
        /\ status \notin Settling
    <3>1. w.code \in ErrorCodes
      BY <1>0, Zenon DEF Workers
    <3>2. "FATAL" \in ErrorCodes
      BY DEF ErrorCodes
    <3> QED BY <2>0, <3>1, <3>2, Members DEF Settling, Waiting
  <2> HIDE DEF status
  <2>3. /\ r \in AgentRunRow /\ Same(loc, r) /\ r.version = loc.version
        /\ r.status = status
    BY <1>0, <2>2, ZenonT(60) DEF Same, AgentRunRow
  <2>4. \/ SaveOk(r) /\ w' = Go("read")
        \/ SaveConflict(r) /\ w' = Go("read")
        \/ SaveFault(r) /\ w' = Go("raised")
        \/ SaveInvalid(r) /\ w' = Go("raised")
    BY <2>0, Zenon DEF FailSaved, FailRow, status
  <2> HIDE DEF r
  <2>5. Savable(r)
    BY <2>2, <2>3, SavableSame
  <2> QED BY <1>0, <1>1, <2>1, <2>4, <2>5, SaveCases DEF Holding, WorkerPc
<1>7. CASE Conflict
  <2>1. w.pc = "conflict" /\ w'.pc = "read" /\ UNCHANGED <<run, loc, rt, drives>>
    BY <1>0, <1>7, Zenon DEF Conflict, external
  <2> QED BY <1>2, <2>1 DEF Holding, WorkerPc
<1>8. CASE Raised
  <2>1. w.pc = "raised" /\ UNCHANGED <<run, rt, drives>>
    BY <1>8, Zenon DEF Raised, external
  <2> DEFINE q == [run EXCEPT !.status = "INTERRUPTED", !.error_code = "PROCESS_INTERRUPTED"]
  <2>2. Same(run, q) /\ q.version = run.version /\ q.status = "INTERRUPTED"
    BY <1>0, Zenon DEF Same, AgentRunRow
  <2>3. \/ loc' = NewRow /\ w'.pc = "dying"
        \/ loc' = q /\ w'.pc = "closing"
    BY <1>0, <1>8, Zenon DEF Raised
  <2> HIDE DEF q
  <2>4. CASE loc' = NewRow /\ w'.pc = "dying"
    BY <2>1, <2>4, Forget DEF Holding
  <2>5. CASE loc' = q /\ w'.pc = "closing"
    <3>1. Rested(run) /\ Exclusive(run)
      BY DEF FenceInv, NothingOwed
    <3>2. /\ Rested(q) /\ Exclusive(q)
          /\ \A c : Fenced(q, c) <=> Fenced(run, c)
      BY <2>2, <3>1, SameFacts DEF Rested, Settling, Waiting
    <3>3. DrivenOnce' /\ DrivenBehindFence'
      BY <2>1 DEF FenceInv, DrivenOnce, DrivenBehindFence, Starting
    <3>4. CopyKeepsFences'
      BY <1>0, <2>1, <2>2, <2>5, <3>2 DEF CopyKeepsFences, Working
    <3>5. NothingOwed' /\ WorkerHolds'
      BY <2>1, <2>5, <3>1, <3>2 DEF NothingOwed, WorkerHolds, Working
    <3> QED BY <3>3, <3>4, <3>5 DEF FenceInv
  <2> QED BY <2>3, <2>4, <2>5
<1>9. CASE RaisedSave
  <2>1. w.pc = "closing" /\ w'.pc = "dying" /\ UNCHANGED <<rt, drives>>
    BY <1>0, <1>9, Zenon DEF RaisedSave, external
  <2>2. SaveOk(loc) \/ SaveConflict(loc) \/ SaveFault(loc)
    BY <1>9, Zenon DEF RaisedSave
  <2>3. Savable(loc)
    BY <1>0, SavableSame DEF Same
  <2> QED BY <1>1, <2>1, <2>2, <2>3, SaveCases DEF Holding, WorkerPc
<1>10. CASE Dying
  <2>1. /\ w' = IdleWorker /\ loc' = NewRow /\ UNCHANGED <<run, rt, drives>>
    BY <1>10, Zenon DEF Dying, external
  <2> QED BY <2>1, Forget DEF Holding, IdleWorker
<1>11. CASE NodeRefused
  <2>1. w.pc = "graph" /\ Raise("FATAL") /\ UNCHANGED <<rt, drives>>
    BY <1>11, Zenon DEF NodeRefused, external
  <2>2. w.pc \in Holding /\ ~OwesReceipt(loc)
    BY <2>1, GraphFacts
  <2> QED BY <2>1, <2>2, RaiseKeeps DEF Raise
<1> QED BY <1>3, <1>4, <1>5, <1>6, <1>7, <1>8, <1>9, <1>10, <1>11, Zenon DEF EndStep

-----------------------------------------------------------------------------
(* The receipt task *)

\* The receipt task drives its call once and records it.
LEMMA FenceTask ==
  ASSUME TypeInv, FenceInv, TaskIsOwned', TaskNext
  PROVE  FenceInv'
<1>0. /\ run \in AgentRunRow /\ loc \in AgentRunRow /\ w \in Workers
      /\ run.version \in Nat /\ loc.version \in Nat /\ loc.version <= run.version
      /\ \A pc : Go(pc).pc = pc /\ Go(pc).pos = w.pos
      /\ drives \in [CallIds -> Nat] /\ rt \in ReceiptTasks
  BY WorkerFacts, PlacePcs DEF TypeInv, TypeOK, FenceInv, CopyKeepsFences
<1>1. rt.st # "none" /\ (w.pc = "await" \/ w.pc \notin Working \cup {"claim", "awaited"})
  <2>1. rt.st # "none"
    BY DEF TaskNext, TaskStart, TaskFinish, TaskRecord, TaskRecordFault
  <2> QED BY <2>1 DEF TypeInv, TaskIsOwned, Working
<1>2. CASE TaskStart
  <2>1. /\ rt.st = "start" /\ drives' = [drives EXCEPT ![rt.call] = drives[rt.call] + 1]
        /\ UNCHANGED <<run, loc, w>>
    BY <1>2, Zenon DEF TaskStart
  <2>2. rt'.st \in {"running", "finished"} /\ rt'.call = rt.call
    BY <1>0, <1>2 DEF TaskStart, ReceiptTasks
  <2>3. DrivenOnce'
    <3>1. ASSUME NEW c \in CallIds, KindOf[c] # "batch" PROVE drives'[c] <= 1
      <4>1. CASE c = rt.call
        BY <1>0, <2>1, <3>1, <4>1 DEF FenceInv, DrivenOnce, Starting
      <4>2. CASE c # rt.call
        BY <1>0, <2>1, <3>1, <4>2 DEF FenceInv, DrivenOnce
      <4> QED BY <4>1, <4>2
    <3> QED BY <2>2, <3>1 DEF DrivenOnce, Starting
  <2>4. DrivenBehindFence'
    <3>1. ASSUME NEW c \in CallIds, drives'[c] > 0 PROVE Fenced(run, c)
      <4>1. CASE c = rt.call
        BY <2>1, <4>1 DEF FenceInv, DrivenBehindFence, Starting
      <4>2. CASE c # rt.call
        BY <1>0, <2>1, <3>1, <4>2 DEF FenceInv, DrivenBehindFence
      <4> QED BY <4>1, <4>2
    <3> QED BY <2>1, <2>2, <3>1 DEF DrivenBehindFence, Starting
  <2>5. CopyKeepsFences' /\ NothingOwed' /\ WorkerHolds'
    BY <2>1, <2>2 DEF FenceInv, CopyKeepsFences, NothingOwed, WorkerHolds
  <2> QED BY <2>3, <2>4, <2>5 DEF FenceInv
<1>3. CASE TaskFinish
  <2>1. UNCHANGED <<run, loc, w, drives>>
    BY <1>3, Zenon DEF TaskFinish
  <2>2. rt'.st = "finished" /\ rt'.call = rt.call
    BY <1>0, <1>3 DEF TaskFinish, ReceiptTasks
  <2>3. DrivenOnce' /\ DrivenBehindFence'
    BY <2>1, <2>2 DEF FenceInv, DrivenOnce, DrivenBehindFence, Starting
  <2>4. CopyKeepsFences' /\ NothingOwed' /\ WorkerHolds'
    BY <2>1, <2>2 DEF FenceInv, CopyKeepsFences, NothingOwed, WorkerHolds
  <2> QED BY <2>3, <2>4 DEF FenceInv
<1> DEFINE Same1 == run' = run
           Unknown1 == /\ Dispatched(run, rt.call)
                       /\ run' = MarkUnknownRow(run)
           Receipt1 == \E out \in Outcomes : /\ Dispatched(run, rt.call)
                                             /\ run' = ReceiptRow(run, rt.call, out)
\* What the transaction leaves of the row, whoever waits for it.
<1>4. ASSUME Unknown1 \/ Receipt1
      PROVE  /\ run'.version = run.version + 1 /\ Rested(run') /\ Exclusive(run')
             /\ \A c \in CallIds : Fenced(run, c) <=> Fenced(run', c)
             /\ run.status \in {"RUNNING", "TERMINATED"} =>
                  \/ run'.status = "TERMINATED"
                  \/ run'.status = "INTERRUPTED" /\ ~Executed(run', rt.call)
                  \/ run'.status = "RUNNING" /\ ~run'.pending_execution.dispatched
  <2>0. Rested(run) /\ Exclusive(run)
    BY DEF FenceInv, NothingOwed
  <2>1. CASE Unknown1
    <3>1. /\ Same(run, run') /\ run'.version = run.version + 1
          /\ run'.status = IF run.status \in Terminal THEN run.status ELSE "INTERRUPTED"
      BY <1>0, <2>1, TransactionFacts
    <3>2. ~Executed(run, rt.call)
      BY <2>0, <2>1 DEF Exclusive, Dispatched
    <3> QED BY <2>0, <3>1, <3>2, SameFacts DEF Rested, Terminal, Settling, Waiting
  <2>2. CASE Receipt1
    <3>1. rt.call \in CallIds \cup {None}
      BY <1>0, Zenon DEF ReceiptTasks
    <3>2. /\ run'.version = run.version + 1 /\ run'.status = run.status
          /\ ~run'.pending_execution.dispatched
          /\ \A d \in CallIds : Fenced(run', d) <=> Fenced(run, d)
      BY <1>0, <2>2, <3>1, ReceiptFacts
    <3> QED BY <3>2 DEF Rested, Exclusive, OwesReceipt
  <2> QED BY <1>4, <2>1, <2>2
<1>5. /\ w.pc = "await" => /\ Dispatched(run, rt.call) /\ rt.call = w.pos.call
                           /\ run.status \in {"RUNNING", "TERMINATED"}
  BY DEF FenceInv, WorkerHolds, Working
<1>6. ASSUME Unknown1 \/ Receipt1, w' = w, w.pc # "await", loc' = loc, rt' = NoTask,
             drives' = drives
      PROVE  FenceInv'
  BY <1>1, <1>4, <1>6, RowMoves
<1>7. ASSUME Unknown1 \/ Receipt1, w.pc = "await", w' = Go("awaited"), loc' = run',
             rt' = NoTask, drives' = drives
      PROVE  FenceInv'
  <2>1. DrivenOnce' /\ DrivenBehindFence'
    BY <1>4, <1>7 DEF FenceInv, DrivenOnce, DrivenBehindFence, Starting, NoTask
  <2>2. w'.pc = "awaited" /\ w'.pos.call = rt.call
    BY <1>0, <1>5, <1>7
  <2>3. CopyKeepsFences'
    <3>1. run'.version \in Nat
      BY <1>0, <1>4, <1>7
    <3> QED BY <1>7, <2>2, <3>1 DEF CopyKeepsFences, Working
  <2>4. NothingOwed' /\ WorkerHolds'
    BY <1>4, <1>5, <1>7, <2>2 DEF NothingOwed, WorkerHolds, OwesReceipt, Working
  <2> QED BY <2>1, <2>3, <2>4 DEF FenceInv
<1>8. ASSUME Same1 \/ Unknown1 \/ Receipt1, w.pc = "await", loc' = loc, rt' = NoTask,
             w'.pc \in {"conflict", "fail"}, drives' = drives
      PROVE  FenceInv'
  <2>1. w.pc \in Holding /\ Rested(run) /\ Exclusive(run) /\ Rested(loc) /\ Exclusive(loc)
    BY <1>8 DEF Holding, WorkerPc, FenceInv, NothingOwed
  <2>2. DrivenOnce' /\ DrivenBehindFence'
    BY <1>4, <1>8 DEF FenceInv, DrivenOnce, DrivenBehindFence, Starting, NoTask
  <2>3. CopyKeepsFences'
    BY <1>0, <1>4, <1>8, <2>1 DEF FenceInv, CopyKeepsFences, Working
  <2>4. NothingOwed' /\ WorkerHolds'
    BY <1>4, <1>8, <2>1 DEF NothingOwed, WorkerHolds, Working
  <2> QED BY <2>2, <2>3, <2>4 DEF FenceInv
<1>9. ASSUME Same1, w' = w, w.pc # "await", loc' = loc, rt' = NoTask, drives' = drives
      PROVE  FenceInv'
  <2>1. DrivenOnce' /\ DrivenBehindFence'
    BY <1>9 DEF FenceInv, DrivenOnce, DrivenBehindFence, Starting, NoTask
  <2>2. CopyKeepsFences' /\ NothingOwed' /\ WorkerHolds'
    BY <1>9 DEF FenceInv, CopyKeepsFences, NothingOwed, WorkerHolds
  <2> QED BY <2>1, <2>2 DEF FenceInv
<1>10. /\ Left(w, "conflict", "none").pc = "conflict"
       /\ Left(w, "fail", "DEPENDENCY_UNAVAILABLE").pc = "fail"
  BY DEF Left, IdleWorker
<1>11. CASE TaskRecord
  <2> DEFINE outcome == Reported(rt.out)
  <2>1. rt' = NoTask /\ drives' = drives
    BY <1>11, Zenon DEF TaskRecord
  <2> HIDE DEF outcome
  <2>2. \/ Same1 /\ ~Dispatched(run, rt.call) /\ Wake(run)
        \/ /\ Dispatched(run, rt.call)
           /\ run' = MarkUnknownRow(run) /\ Wake(MarkUnknownRow(run))
        \/ \E out \in Outcomes : /\ Dispatched(run, rt.call)
                                 /\ run' = ReceiptRow(run, rt.call, out)
                                 /\ Wake(ReceiptRow(run, rt.call, out))
        \/ Same1 /\ WakeWith("conflict", "none")
    BY <1>11, Zenon DEF TaskRecord, outcome
  <2>3. CASE w.pc = "await"
    <3>1. \/ (Unknown1 \/ Receipt1) /\ w' = Go("awaited") /\ loc' = run'
          \/ Same1 /\ w' = Left(w, "conflict", "none") /\ loc' = loc
      BY <1>5, <2>2, <2>3, Zenon DEF Wake, WakeWith, Exit
    <3> HIDE DEF Same1, Unknown1, Receipt1
    <3> QED BY <1>7, <1>8, <1>10, <2>1, <2>3, <3>1
  <2>4. CASE w.pc # "await"
    <3>1. (Same1 \/ Unknown1 \/ Receipt1) /\ w' = w /\ loc' = loc
      BY <2>2, <2>4, Zenon DEF Wake, WakeWith
    <3> HIDE DEF Same1, Unknown1, Receipt1
    <3> QED BY <1>6, <1>9, <2>1, <2>4, <3>1
  <2> QED BY <2>3, <2>4
<1>12. CASE TaskRecordFault
  <2>1. rt' = NoTask /\ drives' = drives
    BY <1>12, Zenon DEF TaskRecordFault
  <2>2. WakeWith("fail", "DEPENDENCY_UNAVAILABLE")
    BY <1>12, Zenon DEF TaskRecordFault
  <2>3. Same1 \/ Unknown1 \/ Receipt1
    BY <1>12, Zenon DEF TaskRecordFault, OwnsReceipt, CanMarkUnknown
  <2> HIDE DEF Same1, Unknown1, Receipt1
  <2>4. CASE w.pc = "await"
    <3>1. w'.pc = "fail" /\ loc' = loc
      BY <1>10, <2>2, <2>4, Zenon DEF WakeWith, Exit
    <3> QED BY <1>8, <2>1, <2>3, <2>4, <3>1
  <2>5. CASE w.pc # "await"
    <3>1. w' = w /\ loc' = loc
      BY <2>2, <2>5, Zenon DEF WakeWith
    <3> QED BY <1>6, <1>9, <2>1, <2>3, <2>5, <3>1
  <2> QED BY <2>4, <2>5
<1> QED BY <1>2, <1>3, <1>11, <1>12, Zenon DEF TaskNext

-----------------------------------------------------------------------------
(* Users, scans, the process *)

\* The user's transactions and the scan keep the fence.
LEMMA FenceUser ==
  ASSUME TypeInv, FenceInv, TaskIsOwned', UserNext \/ ScanNext
  PROVE  FenceInv'
<1>0. /\ run \in AgentRunRow /\ w \in Workers /\ Rested(run) /\ Exclusive(run)
      /\ UNCHANGED <<loc, rt, drives>>
  BY WorkerFacts, Zenon DEF FenceInv, NothingOwed, UserNext, ScanNext, Stop, StopSettle,
     Reply, Decide, Reconcile, Resume, RecoverActive, RecoverNoCheckpoint, RecoverStopped
<1>1. w.pc \in Working \ {"interrupted"} => run.status \in {"RUNNING", "TERMINATED"}
  BY DEF FenceInv, WorkerHolds
\* A transaction that keeps the fence, on a run its worker has left.
<1>2. ASSUME Same(run, run'), run'.version = run.version + 1,
             ~OwesReceipt(run) \/ run'.status \notin Settling,
             run.status \notin {"RUNNING", "TERMINATED"} \/ w.pc = "idle",
             w' = w \/ (w.pc = "idle" /\ w' = Go("read"))
      PROVE  FenceInv'
  <2>1. /\ Rested(run') /\ Exclusive(run')
        /\ \A c \in CallIds : Fenced(run, c) => Fenced(run', c)
    BY <1>0, <1>2, SameFacts DEF Rested
  <2>2. CASE w.pc \in Working \cup {"claim", "awaited"}
    <3>1. w' = w /\ w.pc \in {"claim", "awaited", "interrupted"}
      BY <1>1, <1>2, <2>2 DEF Working
    <3> QED BY <1>0, <1>2, <2>1, <3>1, RowMoves
  <2>3. CASE w.pc \notin Working \cup {"claim", "awaited"}
    BY <1>0, <1>2, <2>1, <2>3, RowMoves
  <2> QED BY <2>2, <2>3
\* A receipt found by a scan or a resume.
<1>3. ASSUME NEW c \in CallIds \cup {None}, NEW out \in Outcomes, Dispatched(run, c),
             run' = ReceiptRow(run, c, out), w' = w,
             run.status \notin {"RUNNING", "TERMINATED"} \/ w.pc = "idle"
      PROVE  FenceInv'
  <2>1. /\ run'.version = run.version + 1 /\ ~run'.pending_execution.dispatched
        /\ \A d \in CallIds : Fenced(run, d) => Fenced(run', d)
    BY <1>0, <1>3, ReceiptFacts
  <2>2. Rested(run') /\ Exclusive(run')
    BY <2>1 DEF Rested, Exclusive, OwesReceipt
  <2>3. CASE w.pc \in Working \cup {"claim", "awaited"}
    <3>1. w.pc \in {"claim", "awaited", "interrupted"}
      BY <1>1, <1>3, <2>3 DEF Working
    <3> QED BY <1>0, <1>3, <2>1, <2>2, <3>1, RowMoves
  <2>4. CASE w.pc \notin Working \cup {"claim", "awaited"}
    BY <1>0, <1>3, <2>1, <2>2, <2>4, RowMoves
  <2> QED BY <2>3, <2>4
<1>4. run.pending_execution.call \in CallIds \cup {None}
  BY <1>0, Zenon DEF AgentRunRow, ExecutionRecord
<1>5. Schedule => w' = w \/ (w.pc = "idle" /\ w' = Go("read"))
  BY DEF Schedule
<1>6. CASE Stop
  <2>1. w' = w /\ (run' = StopRow(run) \/ run' = run)
    BY <1>6, Zenon DEF Stop
  <2>2. CASE run' = run
    BY <1>0, <2>1, <2>2, Untouched
  <2>3. CASE run' = StopRow(run)
    <3>1. Same(run, run') /\ run'.version = run.version + 1 /\ run'.status = "TERMINATED"
      BY <1>0, <2>3, TransactionFacts
    <3>2. /\ Rested(run') /\ Exclusive(run')
          /\ \A c \in CallIds : Fenced(run, c) => Fenced(run', c)
      BY <1>0, <3>1, SameFacts DEF Rested, Settling, Waiting
    <3> QED BY <1>0, <2>1, <3>1, <3>2, RowMoves
  <2> QED BY <2>1, <2>2, <2>3
<1>7. CASE StopSettle
  <2>1. UNCHANGED <<run, w>>
    BY <1>7, Zenon DEF StopSettle
  <2> QED BY <1>0, <2>1, Untouched
<1>8. CASE Reply
  <2>1. PICK card : CanReply(run, card) /\ run' = ReplyRow(run, card)
    BY <1>8, Zenon DEF Reply
  <2>2. Same(run, run') /\ run'.version = run.version + 1
    BY <1>0, <2>1, TransactionFacts
  <2>3. run.status = "WAITING_FOR_USER" /\ ~OwesReceipt(run)
    BY <1>0, <2>1 DEF CanReply, Rested, Settling, Waiting
  <2>4. w' = w \/ (w.pc = "idle" /\ w' = Go("read"))
    BY <1>5, <1>8, Zenon DEF Reply
  <2> QED BY <1>2, <2>2, <2>3, <2>4
<1>9. CASE Decide
  <2>1. PICK card, decision : CanDecide(run, card) /\ run' = DecideRow(run, decision)
    BY <1>9, Zenon DEF Decide
  <2>2. Same(run, run') /\ run'.version = run.version + 1
    BY <1>0, <2>1, TransactionFacts
  <2>3. run.status = "WAITING_FOR_CONFIRMATION" /\ ~OwesReceipt(run)
    BY <1>0, <2>1 DEF CanDecide, Rested, Settling, Waiting
  <2>4. w' = w \/ (w.pc = "idle" /\ w' = Go("read"))
    BY <1>5, <1>9, Zenon DEF Decide
  <2> QED BY <1>2, <2>2, <2>3, <2>4
<1>10. CASE Reconcile
  <2>1. /\ w' = w /\ run.status = "INTERRUPTED"
        /\ OwnsReceipt(run, run.pending_execution.call)
        /\ inv[run.pending_execution.call] \in Outcomes
        /\ run' = ReceiptRow(run, run.pending_execution.call,
                             inv[run.pending_execution.call])
    BY <1>10, Zenon DEF Reconcile
  <2>2. Dispatched(run, run.pending_execution.call)
    BY <2>1, Zenon DEF OwnsReceipt
  <2> QED BY <1>3, <1>4, <2>1, <2>2
<1>11. CASE Resume
  <2>1. CanResume(run) /\ run' = ResumeRow(run)
    BY <1>11, Zenon DEF Resume
  <2>2. Same(run, run') /\ run'.version = run.version + 1
    BY <1>0, <2>1, TransactionFacts
  <2>3. run.status = "INTERRUPTED" /\ ~OwesReceipt(run)
    BY <2>1 DEF CanResume, OwesReceipt
  <2>4. w' = w \/ (w.pc = "idle" /\ w' = Go("read"))
    BY <1>5, <1>11, Zenon DEF Resume
  <2> QED BY <1>2, <2>2, <2>3, <2>4
<1>12. CASE RecoverActive
  <2>1. w' = w /\ w.pc = "idle" /\ run' = RecoverRow(run)
    BY <1>12, Zenon DEF RecoverActive, Unprotected
  <2>2. Same(run, run') /\ run'.version = run.version + 1 /\ run'.status = "INTERRUPTED"
    BY <1>0, <2>1, TransactionFacts
  <2> QED BY <1>2, <2>1, <2>2 DEF Settling, Waiting
<1>13. CASE RecoverNoCheckpoint
  <2>1. /\ w' = w /\ w.pc = "idle"
        /\ run' = [Bump(run) EXCEPT !.status = "TERMINATED", !.error_code = "FATAL"]
    BY <1>13, Zenon DEF RecoverNoCheckpoint, Unprotected
  <2>2. Bump(run) \in AgentRunRow /\ Same(run, Bump(run))
        /\ Bump(run).version = run.version + 1
    BY <1>0, BumpType, RowFacts
  <2>3. Same(run, run') /\ run'.version = run.version + 1 /\ run'.status = "TERMINATED"
    BY <2>1, <2>2, Zenon DEF Same, AgentRunRow
  <2> QED BY <1>2, <2>1, <2>3 DEF Settling, Waiting
<1>14. CASE RecoverStopped
  <2>1. /\ w' = w /\ w.pc = "idle"
        /\ OwnsReceipt(run, run.pending_execution.call)
        /\ inv[run.pending_execution.call] \in Outcomes
        /\ run' = ReceiptRow(run, run.pending_execution.call,
                             inv[run.pending_execution.call])
    BY <1>14, Zenon DEF RecoverStopped, Unprotected
  <2>2. Dispatched(run, run.pending_execution.call)
    BY <2>1, Zenon DEF OwnsReceipt
  <2> QED BY <1>3, <1>4, <2>1, <2>2
<1> QED BY <1>6, <1>7, <1>8, <1>9, <1>10, <1>11, <1>12, <1>13, <1>14, Zenon
        DEF UserNext, ScanNext

\* Recovery of Invocations, a crash and a shutdown keep the fence.
LEMMA FenceProcess ==
  ASSUME TypeInv, FenceInv, TaskIsOwned', InvocationRecovery \/ Crash \/ Close
  PROVE  FenceInv'
<1>0. /\ loc \in AgentRunRow /\ \A pc : Go(pc).pc = pc
  BY WorkerFacts, PlacePcs
<1>1. CASE InvocationRecovery
  BY <1>1, Untouched, Zenon DEF InvocationRecovery
<1>2. CASE Crash
  <2>1. w' = IdleWorker /\ loc' = NewRow /\ rt' = NoTask /\ UNCHANGED <<run, drives>>
    BY <1>2, Zenon DEF Crash
  <2> QED BY <2>1, Forget DEF Holding, IdleWorker
<1>3. CASE Close
  <2>1. w'.pc \in {"dying", "raised"} /\ UNCHANGED <<rt, drives>>
    BY <1>0, <1>3 DEF Close, external
  <2> DEFINE r == Settled(loc, "FAILED")
  <2>2. \/ UNCHANGED <<run, loc>>
        \/ w.pc = "calling" /\ run.version = r.version /\ run' = Saved(r) /\ loc' = Saved(r)
    BY <1>3, Zenon DEF Close, SaveAccepted, Store
  <2>3. /\ r \in AgentRunRow /\ Same(loc, r)
        /\ r.version = loc.version /\ r.status = loc.status
    BY <1>0, CopyFacts
  <2> HIDE DEF r
  <2>4. CASE UNCHANGED <<run, loc>>
    BY <2>1, <2>4, Forget DEF Holding
  <2>5. CASE /\ w.pc = "calling" /\ run.version = r.version
             /\ run' = Saved(r) /\ loc' = Saved(r)
    <3>1. Savable(r)
      BY <2>3, SavableSame
    <3>2. SaveAny(r) /\ Leaves /\ w.pc \in Holding
      BY <2>1, <2>5 DEF SaveAny, Leaves, Working, Holding, WorkerPc
    <3> QED BY <2>1, <3>1, <3>2, SaveLeaves
  <2> QED BY <2>2, <2>4, <2>5
<1> QED BY <1>1, <1>2, <1>3

-----------------------------------------------------------------------------
(* The theorems *)

\* A submitted run has no fence and no drive.
LEMMA FenceInit == Init => FenceInv
<1> SUFFICES ASSUME Init PROVE FenceInv
  OBVIOUS
<1>1. /\ w.pc = "read" /\ rt.st = "none" /\ ~sys.closing
      /\ run = NewRow /\ loc = NewRow /\ drives = [c \in CallIds |-> 0]
  BY DEF Init, IdleWorker, NoTask
<1>2. /\ NewRow.version = 0 /\ ~NewRow.pending_execution.dispatched
  BY DEF NewRow, NoExecution
<1>3. TaskIsOwned
  BY <1>1 DEF TaskIsOwned
<1>4. DrivenOnce /\ DrivenBehindFence
  BY <1>1 DEF DrivenOnce, DrivenBehindFence, Starting
<1>5. CopyKeepsFences /\ NothingOwed /\ WorkerHolds
  BY <1>1, <1>2 DEF CopyKeepsFences, NothingOwed, WorkerHolds, Holding, Working, Rested,
     Exclusive, OwesReceipt
<1> QED BY <1>3, <1>4, <1>5 DEF FenceInv

\* Every step keeps the invariant.
LEMMA FenceStep == TypeInv /\ FenceInv /\ [Next]_vars => FenceInv'
<1> SUFFICES ASSUME TypeInv, FenceInv, [Next]_vars PROVE FenceInv'
  OBVIOUS
<1>1. TaskIsOwned'
  BY OwnedKept DEF TypeInv
<1>2. CASE UNCHANGED vars
  BY <1>1, <1>2, Untouched, Zenon DEF vars
<1>3. CASE WorkerNext
  <2>1. CASE ModelStep
    <3>1. ASSUME NEW code, NEW retry \in BOOLEAN, ModelFailure(code, retry)
          PROVE  FenceInv'
      BY <1>1, <3>1, FenceModelFailure
    <3> QED BY <1>1, <2>1, <3>1, FenceModel, FenceAnswer
            DEF ModelStep, ModelRetry, ModelPaused, ModelRejected
  <2>2. CASE ToolStep
    BY <1>1, <2>2, FenceReplay, FenceAsk, FenceResolve, FenceConsent, FenceDispatch,
       FenceContinue, FenceReceipt, Zenon DEF ToolStep
  <2> QED BY <1>1, <1>3, <2>1, <2>2, FenceModel, FenceEnd, Zenon DEF WorkerNext
<1> QED BY <1>1, <1>2, <1>3, FenceTask, FenceUser, FenceProcess, Zenon DEF Next

\* The inductive invariant holds in every reachable state.
THEOREM FenceHolds == Spec => []FenceInv
<1>1. Init => TypeInv /\ FenceInv
  BY TypeInit, FenceInit
<1>2. TypeInv /\ FenceInv /\ [Next]_vars => (TypeInv /\ FenceInv)'
  BY TypeStep, FenceStep
<1>3. Spec => [](TypeInv /\ FenceInv)
  BY <1>1, <1>2, PTL DEF Spec
<1> QED BY <1>3, PTL

\* Whatever crashes, replays, stops and resumes happen, a tool call reaches its
\* executor only behind a durable dispatch fence, and at most once unless it is
\* the batch that a resume continues under its own Invocation.
THEOREM DispatchOnlyOnce == Spec => []DispatchAtMostOnce
<1>1. FenceInv => DispatchAtMostOnce
  BY DEF FenceInv, DrivenOnce, DrivenBehindFence, DispatchAtMostOnce
<1> QED BY <1>1, FenceHolds, PTL

\* A run never ends in success while the outcome of a dispatched call is owed.
THEOREM SuccessIsSettled == Spec => []SuccessOwesNothing
<1>1. FenceInv => SuccessOwesNothing
  BY DEF FenceInv, NothingOwed, Rested, Settling, SuccessOwesNothing
<1> QED BY <1>1, FenceHolds, PTL

-----------------------------------------------------------------------------
(***************************************************************************)
(* What an AgentRun promises beside its fence, for every set of calls and  *)
(* every bound: the budgets are charged once, a tool that needs consent    *)
(* waits for it, a stop is final, nothing committed is lost, and the run   *)
(* implements DispatchOnce.                                                *)
(*                                                                         *)
(* The argument: every row that may still be saved is sound by itself and  *)
(* continues the row it was read from (Follows), so that a step moves the  *)
(* row only forward (Moves); and what the Invocations, the receipt task    *)
(* and the user's requests say agrees with the row after every such move.  *)
(***************************************************************************)

-----------------------------------------------------------------------------
(* The invariant *)

\* A row whose card the user may decide: prepared with a request for consent,
\* neither confirmed nor dispatched.
Asking(r) ==
  /\ r.pending_execution.prepared
  /\ r.pending_execution.status = "PENDING_CONFIRMATION"
  /\ ~r.pending_execution.confirmed
  /\ ~r.pending_execution.dispatched

\* The token budget: every call that is settled has been charged.
Budgeted(r) == r.llm_tokens + Cardinality(Outstanding(r)) = Len(r.calls)

\* The tool budget: one execution per call that passed the fence.
FencedCalls(r) == {c \in CallIds : Fenced(r, c)}
Charged(r) ==
  /\ IsFiniteSet(FencedCalls(r))
  /\ r.tool_executions = Cardinality(FencedCalls(r))
  /\ r.tool_executions <= MaxToolExecutions

\* A call with an execution record has no observation, and the marked call is
\* none that was reported as incomplete.
Marked(r) ==
  \A c \in CallIds :
    /\ r.pending_tool_call = c => r.observations[c] # "NEEDS_INPUT"
    /\ r.pending_execution.call = c => r.observations[c] = "none"

\* Which fields go together: a stop is an end, a wait for a decision and an
\* applied decision belong to a card, a dispatched record was prepared.
Phased(r) ==
  /\ r.error_code = "USER_STOPPED" => r.status = "TERMINATED"
  /\ r.status = "WAITING_FOR_CONFIRMATION" \/ r.confirmation_response # "none" => Asking(r)
  /\ r.pending_execution.dispatched =>
       r.pending_execution.prepared /\ r.pending_execution.status # "PENDING_CONFIRMATION"
  /\ r.pending_execution.prepared => r.pending_execution.call \in CallIds

\* What holds of every row by itself.
Sound(r) == Budgeted(r) /\ Charged(r) /\ Marked(r) /\ Phased(r)

\* A prepared record has its Invocation, an approval its card.  Whose card was
\* asked for stays undecided, or refused, until the user approves it; a record
\* without a card has an Invocation that waits for none.
Consented(c, u) == \E card \in u.consents : card[2] = c
Undecided == {"PENDING_CONFIRMATION", "REJECTED", "EXPIRED"}
CardHolds(c, i, u) == i[c] \in Undecided \/ Consented(c, u)
Created(r, i, u) ==
  LET e == r.pending_execution
  IN  /\ e.confirmed => e.prepared /\ Consented(e.call, u)
      /\ e.prepared =>
           /\ i[e.call] \notin {"none", "DENIED"}
           /\ e.status = "PENDING_CONFIRMATION" => CardHolds(e.call, i, u)
           /\ e.status # "PENDING_CONFIRMATION" /\ ~e.dispatched =>
                i[e.call] # "PENDING_CONFIRMATION"
Approved(r, u) ==
  r.confirmation_response = "approve" => Consented(r.pending_execution.call, u)
Backed(r, i, u) == Created(r, i, u) /\ Approved(r, u)

\* The Invocations j keep what the rows say of the Invocations i.
Decides(i, j, u) ==
  \A c \in CallIds :
    /\ i[c] \notin {"none", "DENIED"} => j[c] \notin {"none", "DENIED"}
    /\ CardHolds(c, i, u) => CardHolds(c, j, u)
    /\ i[c] # "PENDING_CONFIRMATION" => j[c] # "PENDING_CONFIRMATION"
Rows == Sound(run) /\ Sound(loc) /\ Backed(run, inv, user) /\ Backed(loc, inv, user)

\* The row r continues the row q without a receipt in between: observations and
\* replies stay, ledgers do not shrink, the execution record and its fence stay.
Follows(q, r) ==
  /\ \A c \in CallIds :
       /\ q.observations[c] # "none" => r.observations[c] = q.observations[c]
       /\ q.answered[c] # None => r.answered[c] = q.answered[c]
       /\ Executed(r, c) => Executed(q, c)
  /\ r.llm_tokens >= q.llm_tokens
  /\ Len(r.calls) >= Len(q.calls)
  /\ q.pending_execution.call # None => r.pending_execution.call = q.pending_execution.call
  /\ q.pending_execution.dispatched => r.pending_execution.dispatched
  /\ q.pending_execution.prepared => r.pending_execution.prepared
InStep(q, r) ==
  r.status = q.status /\ r.pending_execution.call = q.pending_execution.call

\* A copy as new as the row continues it; in the graph it is at the same place.
Copy ==
  loc.version = run.version =>
    /\ w.pc \in Holding => Follows(run, loc) /\ (Stopped(loc) => Stopped(run))
    /\ w.pc \in Working => InStep(run, loc)

\* What the worker's locals say of its copy, place by place.
Place(v, r) ==
  /\ v.code # "USER_STOPPED"
  /\ v.pc = "calling" => v.cur \in DOMAIN r.calls /\ r.calls[v.cur] = "RUNNING"
  /\ v.pc \in Working \cup {"claim", "awaited", "fail"} => v.cur <= Len(r.calls)
  /\ v.pc \in {"inserted", "prepared", "confirmed"} => r.pending_execution.call = v.pos.call
  /\ v.pc \in {"inserted", "prepared"} => ~r.pending_execution.prepared /\ v.pos.call \in CallIds
  /\ v.pc = "confirmed" => v.dec = "approve"
  /\ v.pc = "interrupted" =>
       r.error_code # "USER_STOPPED" /\ (r.question = None => Asking(r))
  /\ v.pc \in Working \cup {"claim", "awaited"} /\ v.dec = "approve" =>
       r.confirmation_response = "approve"
  /\ v.pc \in {"await", "awaited", "found", "recorded"} => v.dec # "approve"
Worker ==
  /\ Place(w, loc)
  /\ w.pc \in Working => w.cur <= Len(run.calls)
  /\ w.pc \in {"inserted", "prepared"} => inv[w.pos.call] \notin {"none", "DENIED"}

\* What the status of an Invocation says of the row, of the executor and of the
\* user's consents.
Started == {"RUNNING", "OUTCOME_UNKNOWN", "SUCCEEDED"}
Open == {"PENDING", "PENDING_CONFIRMATION"}
Invocations ==
  \A c \in CallIds :
    /\ inv[c] \in Open => run.pending_execution.call = c \/ Fenced(run, c)
    /\ inv[c] \in Started => drives[c] > 0
    /\ inv[c] = "FAILED" => drives[c] > 0 \/ (Stopped(run) /\ ~Dispatched(run, c))
    /\ inv[c] \in {"PENDING_CONFIRMATION", "REJECTED", "EXPIRED"} => KindOf[c] = "confirm"

\* What the receipt task knows of its call.
Receipt ==
  rt.st # "none" =>
    /\ rt.call \in CallIds /\ Dispatched(run, rt.call)
    /\ rt.st = "start" => drives[rt.call] = 0
    /\ rt.st # "start" => drives[rt.call] > 0
    /\ rt.st = "running" => inv[rt.call] = "RUNNING"
    /\ rt.st = "finished" =>
         /\ rt.out # "none"
         /\ rt.out \in Outcomes => inv[rt.call] = rt.out
         /\ rt.out = "RAISED" => inv[rt.call] \notin Started

\* A stop whose request was committed is in the row, and closes what was prepared.
Stopping ==
  /\ user.stop \in {"committed", "done"} => Stopped(run)
  /\ StopClosesPreparation

Outside == Invocations /\ Receipt /\ ReceiptFaithful /\ Stopping
PromiseInv == Rows /\ Copy /\ Worker /\ Outside

\* How a step moves the row: a save or a transaction of a run that has not ended,
\* the mark of an unknown outcome on a stopped one, or a receipt.
Forward ==
  /\ Follows(run, run')
  /\ run.status \notin Terminal
  /\ Stopped(run') => Same(run, run')
MarksStopped ==
  /\ Same(run, run') /\ Follows(run, run')
  /\ Stopped(run) /\ Stopped(run')
  /\ run.pending_execution.dispatched
Receives ==
  \E c \in CallIds, out \in Outcomes :
    OwnsReceipt(run, c) /\ drives[c] > 0 /\ run' = ReceiptRow(run, c, out)
Moves == run' = run \/ Forward \/ MarksStopped \/ Receives

-----------------------------------------------------------------------------
(* Rows that follow each other *)

\* The list of model calls has a length.
LEMMA RowLengths ==
  ASSUME NEW r \in AgentRunRow
  PROVE  Len(r.calls) \in Nat
BY DEF AgentRunRow

\* A row follows itself.
LEMMA FollowsSelf ==
  ASSUME NEW r \in AgentRunRow
  PROVE  Follows(r, r)
<1>1. r.llm_tokens \in Nat /\ Len(r.calls) \in Nat
  BY RowNumbers DEF AgentRunRow
<1> QED BY <1>1 DEF Follows

\* Following is transitive.
LEMMA FollowsOn ==
  ASSUME NEW p \in AgentRunRow, NEW q \in AgentRunRow, NEW r \in AgentRunRow,
         Follows(p, q), Follows(q, r)
  PROVE  Follows(p, r)
<1>1. /\ p.llm_tokens \in Nat /\ q.llm_tokens \in Nat /\ r.llm_tokens \in Nat
      /\ Len(p.calls) \in Nat /\ Len(q.calls) \in Nat /\ Len(r.calls) \in Nat
  BY RowNumbers DEF AgentRunRow
<1> QED BY <1>1 DEF Follows

\* Nothing a Follows looks at differs between two rows.
Even(r, q) ==
  /\ Same(r, q)
  /\ q.pending_execution.prepared = r.pending_execution.prepared
  /\ q.answered = r.answered
  /\ q.llm_tokens = r.llm_tokens
  /\ Len(q.calls) = Len(r.calls)

\* A row that changes nothing Follows looks at follows.
LEMMA EvenFollows ==
  ASSUME NEW r \in AgentRunRow, NEW q, Even(r, q)
  PROVE  Follows(r, q)
<1>1. r.llm_tokens \in Nat /\ Len(r.calls) \in Nat
  BY RowNumbers DEF AgentRunRow
<1> QED BY <1>1, SameFacts DEF Follows, Even, Same

\* A fence is kept by what follows.
LEMMA FollowsFence ==
  ASSUME NEW q, NEW r, Follows(q, r), NEW c \in CallIds
  PROVE  /\ Dispatched(q, c) => Dispatched(r, c)
         /\ Executed(q, c) <=> Executed(r, c)
         /\ Fenced(q, c) => Fenced(r, c)
<1>1. c # None
  BY CallAssumption
<1>2. Executed(q, c) => Executed(r, c)
  BY DEF Follows, Executed, Outcomes
<1> QED BY <1>1, <1>2 DEF Follows, Dispatched, Fenced

-----------------------------------------------------------------------------
(* Rows that are sound *)

\* Two rows with the same content, whatever their version and message.
Alike(r, q) ==
  /\ Same(r, q)
  /\ q.status = r.status /\ q.error_code = r.error_code
  /\ q.calls = r.calls /\ q.llm_tokens = r.llm_tokens
  /\ q.tool_executions = r.tool_executions
  /\ q.question = r.question /\ q.answered = r.answered
  /\ q.pending_execution = r.pending_execution
  /\ q.pending_tool_call = r.pending_tool_call
  /\ q.confirmation_response = r.confirmation_response

\* The token budget looks at the calls and the tokens alone.
LEMMA BudgetSame ==
  ASSUME NEW r, NEW q, q.calls = r.calls, q.llm_tokens = r.llm_tokens, Budgeted(r)
  PROVE  Budgeted(q)
BY DEF Budgeted, Outstanding

\* The tool budget looks at the fences and the count of executions alone.
LEMMA ChargeSame ==
  ASSUME NEW r, NEW q, Same(r, q), q.tool_executions = r.tool_executions, Charged(r)
  PROVE  Charged(q)
<1>1. FencedCalls(q) = FencedCalls(r)
  BY SameFacts DEF FencedCalls
<1> QED BY <1>1 DEF Charged

\* Dropping the marker of a tool call leaves the marks consistent.
LEMMA MarkSame ==
  ASSUME NEW r, NEW q, Same(r, q),
         q.pending_tool_call = r.pending_tool_call \/ q.pending_tool_call = None, Marked(r)
  PROVE  Marked(q)
BY CallAssumption DEF Marked, Same

\* Rows with the same content are sound, backed, stopped and in place alike.
LEMMA AlikeFacts ==
  ASSUME NEW r, NEW q, Alike(r, q)
  PROVE  /\ Sound(r) => Sound(q)
         /\ Created(r, inv, user) => Created(q, inv, user)
         /\ Approved(r, user) => Approved(q, user)
         /\ Backed(r, inv, user) => Backed(q, inv, user)
         /\ Even(r, q) /\ InStep(r, q)
         /\ Stopped(q) <=> Stopped(r)
         /\ \A v : Place(v, r) => Place(v, q)
         /\ \A p : Follows(p, r) => Follows(p, q)
<1>1. Budgeted(r) => Budgeted(q)
  BY BudgetSame DEF Alike
<1>2. Charged(r) => Charged(q)
  BY ChargeSame DEF Alike
<1>3. Marked(r) => Marked(q)
  BY MarkSame DEF Alike
<1>4. (Asking(r) <=> Asking(q)) /\ (Phased(r) => Phased(q))
  BY DEF Alike, Phased, Asking
<1>5. /\ Created(r, inv, user) => Created(q, inv, user)
      /\ Approved(r, user) => Approved(q, user)
  BY DEF Alike, Created, Approved
<1>6. /\ Even(r, q) /\ InStep(r, q)
      /\ Stopped(q) <=> Stopped(r)
  BY DEF Alike, Even, InStep, Stopped
<1>7. \A v : Place(v, r) => Place(v, q)
  BY <1>4 DEF Place, Alike
<1>8. \A p : Follows(p, r) => Follows(p, q)
  BY DEF Follows, Alike, Same, Executed
<1> QED BY <1>1, <1>2, <1>3, <1>4, <1>5, <1>6, <1>7, <1>8 DEF Sound, Backed

\* A new version has the same content, also without its message.
LEMMA BumpAlike ==
  ASSUME NEW r \in AgentRunRow
  PROVE  Alike(r, Bump(r)) /\ Alike(r, Saved(r))
<1>1. Bump(r) \in AgentRunRow /\ Alike(r, Bump(r))
  BY BumpType, Zenon DEF Alike, Same, Bump, AgentRunRow
<1>2. Alike(Bump(r), Saved(r))
  BY <1>1, Zenon DEF Alike, Same, Saved, AgentRunRow
<1> QED BY <1>1, <1>2 DEF Alike, Same

\* A stop and a recovery charge what is still running, and leave nothing open.
LEMMA SettleSound ==
  ASSUME NEW r \in AgentRunRow, Budgeted(r)
  PROVE  /\ Budgeted(SettleCalls(r))
         /\ SettleCalls(r).llm_tokens >= r.llm_tokens
         /\ Len(SettleCalls(r).calls) = Len(r.calls)
<1> DEFINE calls == [i \in DOMAIN r.calls |->
                       IF r.calls[i] = "RUNNING" THEN "FAILED" ELSE r.calls[i]]
           q == SettleCalls(r)
<1>1. /\ q.calls = calls
      /\ q.llm_tokens = r.llm_tokens + Cardinality(Outstanding(r))
  BY Zenon DEF SettleCalls, AgentRunRow
<1>2. r.calls \in Seq(CallStatus)
  BY Zenon DEF AgentRunRow, CallStatus
<1>3. Len(calls) = Len(r.calls) /\ DOMAIN calls = DOMAIN r.calls
  BY <1>2
<1>4. \A i \in DOMAIN calls : calls[i] # "RUNNING"
  BY <1>2
<1> HIDE DEF calls
<1>5. Outstanding(q) = {}
  BY <1>1, <1>4 DEF Outstanding
<1>6. /\ r.llm_tokens \in Nat /\ Cardinality(Outstanding(r)) \in Nat
      /\ Cardinality({}) = 0
  BY RowNumbers, OutstandingType, FS_EmptySet
<1> QED BY <1>1, <1>3, <1>5, <1>6 DEF Budgeted

\* A row just submitted is sound and owes nothing.
LEMMA NewRowBacked == Sound(NewRow) /\ Backed(NewRow, inv, user) /\ ~Stopped(NewRow)
<1>1. /\ NewRow.calls = <<>> /\ NewRow.llm_tokens = 0 /\ NewRow.tool_executions = 0
      /\ NewRow.observations = [c \in CallIds |-> "none"]
      /\ NewRow.pending_execution = NoExecution /\ NewRow.pending_tool_call = None
      /\ NewRow.status = "PENDING" /\ NewRow.error_code = "none"
      /\ NewRow.confirmation_response = "none"
  BY DEF NewRow
<1>2. /\ NoExecution.call = None /\ ~NoExecution.prepared /\ ~NoExecution.dispatched
      /\ ~NoExecution.confirmed
  BY DEF NoExecution
<1>3. Outstanding(NewRow) = {} /\ FencedCalls(NewRow) = {}
  BY <1>1, <1>2 DEF Outstanding, FencedCalls, Fenced, Dispatched, Executed, Outcomes
<1>4. IsFiniteSet({}) /\ Cardinality({}) = 0
  BY FS_EmptySet
<1>5. Budgeted(NewRow) /\ Charged(NewRow)
  BY <1>1, <1>3, <1>4, BudgetAssumption DEF Budgeted, Charged
<1>6. Marked(NewRow) /\ Phased(NewRow)
  BY <1>1, <1>2, CallAssumption DEF Marked, Phased
<1>7. Backed(NewRow, inv, user) /\ ~Stopped(NewRow)
  BY <1>1, <1>2 DEF Backed, Created, Approved, Stopped
<1> QED BY <1>5, <1>6, <1>7 DEF Sound

-----------------------------------------------------------------------------
(* The transactions keep rows sound *)

\* Two rows with the same ledgers and the same calls.
Content(r, q) ==
  /\ Same(r, q)
  /\ q.calls = r.calls /\ q.llm_tokens = r.llm_tokens
  /\ q.tool_executions = r.tool_executions
  /\ q.answered = r.answered
  /\ q.pending_tool_call = r.pending_tool_call \/ q.pending_tool_call = None
  /\ q.pending_execution.prepared = r.pending_execution.prepared
  /\ q.pending_execution.confirmed = r.pending_execution.confirmed
  /\ \/ q.pending_execution.status = r.pending_execution.status
     \/ q.pending_execution.status = "OUTCOME_UNKNOWN" /\ r.pending_execution.dispatched

\* A row with the same ledgers is as sound as its fields go together.
LEMMA ContentFacts ==
  ASSUME NEW r, NEW q, Content(r, q), Sound(r), Phased(q)
  PROVE  /\ Sound(q) /\ Even(r, q)
         /\ Created(r, inv, user) => Created(q, inv, user)
         /\ q.confirmation_response = r.confirmation_response /\ Approved(r, user) => Approved(q, user)
<1>1. Budgeted(q)
  BY BudgetSame DEF Content, Sound
<1>2. Charged(q)
  BY ChargeSame DEF Content, Sound
<1>3. Marked(q)
  BY MarkSame DEF Content, Sound
<1>4. /\ Even(r, q)
      /\ Created(r, inv, user) => Created(q, inv, user)
      /\ q.confirmation_response = r.confirmation_response /\ Approved(r, user) => Approved(q, user)
  BY DEF Content, Even, Created, Approved, Same, Phased
<1> QED BY <1>1, <1>2, <1>3, <1>4 DEF Sound

\* Keeping the ledgers is transitive.
LEMMA ContentOn ==
  ASSUME NEW p, NEW q, NEW r, Content(p, q), Content(q, r)
  PROVE  Content(p, r)
BY DEF Content, Same

\* A stop and a recovery first charge what still runs, under a new version.
LEMMA SettledFacts ==
  ASSUME NEW r \in AgentRunRow, Sound(r)
  PROVE  LET s == Bump(SettleCalls(r)) IN
         /\ s \in AgentRunRow /\ Sound(s) /\ Follows(r, s)
         /\ s.status = r.status /\ s.pending_execution = r.pending_execution
         /\ s.confirmation_response = r.confirmation_response
         /\ Created(r, inv, user) => Created(s, inv, user)
         /\ Approved(r, user) => Approved(s, user)
<1> DEFINE s == SettleCalls(r)
           b == Bump(s)
<1>1. /\ s \in AgentRunRow /\ Same(r, s) /\ s.status = r.status
      /\ s.tool_executions = r.tool_executions /\ s.answered = r.answered
      /\ s.pending_execution = r.pending_execution
      /\ s.pending_tool_call = r.pending_tool_call
      /\ s.confirmation_response = r.confirmation_response
      /\ s.error_code = r.error_code
  BY SettleCallsType, Zenon DEF SettleCalls, AgentRunRow, Same
<1>2. Budgeted(s) /\ s.llm_tokens >= r.llm_tokens /\ Len(s.calls) = Len(r.calls)
  BY SettleSound DEF Sound
<1> HIDE DEF s
<1>3. /\ Sound(s) /\ Follows(r, s)
      /\ Created(r, inv, user) => Created(s, inv, user)
      /\ Approved(r, user) => Approved(s, user)
  <2>1. Charged(s) /\ Marked(s)
    BY <1>1, ChargeSame, MarkSame DEF Sound
  <2>2. Phased(s)
    BY <1>1 DEF Sound, Phased, Asking
  <2>3. Follows(r, s)
    <3>1. Len(r.calls) \in Nat
      BY DEF AgentRunRow
    <3> QED BY <1>1, <1>2, <3>1 DEF Follows, Same, Executed
  <2>4. /\ Created(r, inv, user) => Created(s, inv, user)
        /\ Approved(r, user) => Approved(s, user)
    BY <1>1 DEF Created, Approved
  <2> QED BY <1>2, <2>1, <2>2, <2>3, <2>4 DEF Sound
<1>4. b \in AgentRunRow /\ Alike(s, b)
  BY <1>1, BumpType, BumpAlike
<1> HIDE DEF b
<1>5. Sound(b) /\ Follows(s, b)
  BY <1>1, <1>3, <1>4, AlikeFacts, EvenFollows
<1>6. Follows(r, b)
  BY <1>1, <1>3, <1>4, <1>5, FollowsOn
<1>7. /\ Created(r, inv, user) => Created(b, inv, user)
      /\ Approved(r, user) => Approved(b, user)
  BY <1>3, <1>4, AlikeFacts
<1>8. /\ b.status = r.status /\ b.pending_execution = r.pending_execution
      /\ b.confirmation_response = r.confirmation_response
  BY <1>1, <1>4 DEF Alike
<1> QED BY <1>4, <1>5, <1>6, <1>7, <1>8 DEF b, s

\* What a transaction leaves behind that does not touch an approval.
Carried(r, q) ==
  /\ Sound(q) /\ Follows(r, q)
  /\ Created(r, inv, user) => Created(q, inv, user)
  /\ Approved(r, user) => Approved(q, user)

\* A row that differs from a sound one in its status, error and claim alone.
LEMMA CarryContent ==
  ASSUME NEW r \in AgentRunRow, NEW b \in AgentRunRow, NEW q \in AgentRunRow,
         Sound(b), Follows(r, b), Created(r, inv, user) => Created(b, inv, user), Approved(r, user) => Approved(b, user),
         Content(b, q), q.confirmation_response = b.confirmation_response, Phased(q)
  PROVE  Carried(r, q)
<1>1. Sound(q) /\ Follows(b, q)
  BY ContentFacts, EvenFollows
<1>2. Follows(r, q)
  BY <1>1, FollowsOn
<1> QED BY <1>1, <1>2, ContentFacts DEF Carried

\* A stop charges what runs and ends the run.
LEMMA StopSound ==
  ASSUME NEW r \in AgentRunRow, Sound(r), r.status # "WAITING_FOR_CONFIRMATION"
  PROVE  Carried(r, StopRow(r)) /\ Stopped(StopRow(r)) /\ Same(r, StopRow(r))
<1> DEFINE b == Bump(SettleCalls(r))
           q == StopRow(r)
<1>1. /\ b \in AgentRunRow /\ Sound(b) /\ Follows(r, b)
      /\ b.status = r.status /\ b.pending_execution = r.pending_execution
      /\ b.confirmation_response = r.confirmation_response
      /\ Created(r, inv, user) => Created(b, inv, user)
      /\ Approved(r, user) => Approved(b, user)
  BY SettledFacts
<1> HIDE DEF b
<1>2. /\ Content(b, q) /\ q.status = "TERMINATED" /\ q.error_code = "USER_STOPPED"
      /\ q.pending_execution = b.pending_execution
      /\ q.confirmation_response = b.confirmation_response
  BY <1>1, Zenon DEF StopRow, Content, Same, AgentRunRow, b
<1>3. q \in AgentRunRow /\ Same(r, q)
  BY TransactionTypes, TransactionFacts
<1> HIDE DEF q
<1>4. Phased(q)
  BY <1>1, <1>2 DEF Phased, Asking, Sound
<1> QED BY <1>1, <1>2, <1>3, <1>4, CarryContent DEF Stopped, q

\* The recovery scan charges what ran and interrupts the run.
LEMMA RecoverSound ==
  ASSUME NEW r \in AgentRunRow, Sound(r), r.status \in {"PENDING", "RUNNING"}
  PROVE  Carried(r, RecoverRow(r)) /\ ~Stopped(RecoverRow(r))
<1> DEFINE b == Bump(SettleCalls(r))
           q == [b EXCEPT !.status = "INTERRUPTED", !.claim = 0,
                   !.error_code = "PROCESS_INTERRUPTED", !.recovery_replay = TRUE]
           u == [q EXCEPT !.pending_execution.status = "OUTCOME_UNKNOWN",
                          !.error_code = "TOOL_OUTCOME_UNKNOWN"]
<1>1. /\ b \in AgentRunRow /\ Sound(b) /\ Follows(r, b)
      /\ b.status = r.status /\ b.pending_execution = r.pending_execution
      /\ b.confirmation_response = r.confirmation_response
      /\ Created(r, inv, user) => Created(b, inv, user)
      /\ Approved(r, user) => Approved(b, user)
  BY SettledFacts
<1>2. RecoverRow(r) = IF r.pending_execution.dispatched THEN u ELSE q
  BY Zenon DEF RecoverRow
<1> HIDE DEF b
<1>3. /\ Content(b, q) /\ q.status = "INTERRUPTED" /\ q.error_code = "PROCESS_INTERRUPTED"
      /\ q.pending_execution = b.pending_execution
      /\ q.confirmation_response = b.confirmation_response
      /\ q \in AgentRunRow
  BY <1>1, RowNumbers, Members, Zenon DEF Content, Same, AgentRunRow
<1> HIDE DEF q
<1>4. /\ q.pending_execution.dispatched => Content(q, u)
      /\ u.status = "INTERRUPTED" /\ u.error_code = "TOOL_OUTCOME_UNKNOWN"
      /\ u.confirmation_response = q.confirmation_response
      /\ u \in AgentRunRow
      /\ u.pending_execution.dispatched = q.pending_execution.dispatched
      /\ u.pending_execution.prepared = q.pending_execution.prepared
      /\ u.pending_execution.call = q.pending_execution.call
      /\ u.pending_execution.status = "OUTCOME_UNKNOWN"
  BY <1>3, Members, ZenonT(60) DEF Content, Same, AgentRunRow, ExecutionRecord
<1> HIDE DEF u
<1>5. Phased(q)
  BY <1>1, <1>3 DEF Phased, Asking, Sound
<1>6. CASE ~r.pending_execution.dispatched
  <2>1. Carried(r, q)
    BY <1>1, <1>3, <1>5, CarryContent
  <2> QED BY <1>2, <1>3, <1>6, <2>1 DEF Stopped
<1>7. CASE r.pending_execution.dispatched
  <2>1. r.confirmation_response = "none"
    BY <1>7 DEF Sound, Phased, Asking
  <2>2. Phased(u)
    BY <1>1, <1>3, <1>4, <1>5, <2>1 DEF Phased
  <2>3. Content(b, u)
    BY <1>1, <1>3, <1>4, <1>7, ContentOn
  <2>4. Carried(r, u)
    BY <1>1, <1>3, <1>4, <2>2, <2>3, CarryContent
  <2> QED BY <1>2, <1>4, <1>7, <2>4 DEF Stopped
<1> QED BY <1>6, <1>7

\* A reply, a decision and a resume put the run back to work.
LEMMA ReturnSound ==
  ASSUME NEW r \in AgentRunRow, Sound(r)
  PROVE  /\ Carried(r, ResumeRow(r)) /\ ~Stopped(ResumeRow(r))
         /\ \A card : card[2] \in CallIds \cup {None} /\ r.status = "WAITING_FOR_USER" =>
              Carried(r, ReplyRow(r, card)) /\ ~Stopped(ReplyRow(r, card))
         /\ r.status = "WAITING_FOR_CONFIRMATION" =>
              \A d \in {"approve", "reject"} :
                LET q == DecideRow(r, d) IN
                /\ Sound(q) /\ Follows(r, q) /\ (Created(r, inv, user) => Created(q, inv, user))
                /\ q.confirmation_response = d /\ ~Stopped(q)
                /\ q.pending_execution = r.pending_execution
<1> DEFINE b == Bump(r)
<1>1. b \in AgentRunRow /\ Alike(r, b)
  BY BumpType, BumpAlike
<1>2. /\ Sound(b) /\ Follows(r, b)
      /\ Created(r, inv, user) => Created(b, inv, user)
      /\ Approved(r, user) => Approved(b, user)
      /\ b.status = r.status /\ b.pending_execution = r.pending_execution
      /\ b.confirmation_response = r.confirmation_response
  BY <1>1, AlikeFacts, EvenFollows DEF Alike
<1> HIDE DEF b
<1>3. Carried(r, ResumeRow(r)) /\ ~Stopped(ResumeRow(r))
  <2> DEFINE q == ResumeRow(r)
  <2>1. /\ Content(b, q) /\ q.status = "PENDING" /\ q.error_code = "none"
        /\ q.pending_execution = b.pending_execution
        /\ q.confirmation_response = b.confirmation_response
    BY <1>1, Zenon DEF ResumeRow, Content, Same, AgentRunRow, b
  <2>2. q \in AgentRunRow
    BY TransactionTypes
  <2> HIDE DEF q
  <2>3. Phased(q)
    BY <1>2, <2>1 DEF Phased, Asking, Sound
  <2>4. Carried(r, q)
    BY <1>1, <1>2, <2>1, <2>2, <2>3, CarryContent
  <2> QED BY <2>1, <2>4 DEF q, Stopped
<1>4. ASSUME NEW card, card[2] \in CallIds \cup {None}, r.status = "WAITING_FOR_USER"
      PROVE  Carried(r, ReplyRow(r, card)) /\ ~Stopped(ReplyRow(r, card))
  <2> DEFINE q == ReplyRow(r, card)
  <2>1. /\ Content(b, q) /\ q.status = "PENDING" /\ q.error_code = b.error_code
        /\ q.pending_execution = b.pending_execution
        /\ q.confirmation_response = b.confirmation_response
    BY <1>1, Zenon DEF ReplyRow, Content, Same, AgentRunRow, b
  <2>2. q \in AgentRunRow
    BY <1>4, TransactionTypes
  <2> HIDE DEF q
  <2>3. Phased(q)
    BY <1>2, <1>4, <2>1 DEF Phased, Asking, Sound
  <2>4. Carried(r, q)
    BY <1>1, <1>2, <2>1, <2>2, <2>3, CarryContent
  <2> QED BY <2>1, <2>4 DEF q, Stopped
<1>5. ASSUME NEW d \in {"approve", "reject"}, r.status = "WAITING_FOR_CONFIRMATION"
      PROVE  LET q == DecideRow(r, d) IN
             /\ Sound(q) /\ Follows(r, q) /\ (Created(r, inv, user) => Created(q, inv, user))
             /\ q.confirmation_response = d /\ ~Stopped(q)
             /\ q.pending_execution = r.pending_execution
  <2> DEFINE q == DecideRow(r, d)
  <2>1. /\ Content(b, q) /\ q.status = "PENDING" /\ q.error_code = b.error_code
        /\ q.pending_execution = b.pending_execution
        /\ q.confirmation_response = d
    BY <1>1, Zenon DEF DecideRow, Content, Same, AgentRunRow, b
  <2>2. q \in AgentRunRow
    BY TransactionTypes
  <2> HIDE DEF q
  <2>3. Phased(q)
    BY <1>2, <1>5, <2>1 DEF Phased, Asking, Sound
  <2>4. Sound(q) /\ Follows(b, q) /\ (Created(b, inv, user) => Created(q, inv, user))
    BY <1>1, <1>2, <2>1, <2>3, ContentFacts, EvenFollows
  <2>5. Follows(r, q)
    BY <1>1, <1>2, <2>2, <2>4, FollowsOn
  <2> QED BY <1>2, <2>1, <2>4, <2>5 DEF q, Stopped
<1> QED BY <1>3, <1>4, <1>5

\* The mark of an unknown outcome, for a record that was dispatched.
LEMMA MarkSound ==
  ASSUME NEW r \in AgentRunRow, Sound(r), r.pending_execution.dispatched,
         r.status \in Terminal => Stopped(r)
  PROVE  /\ Carried(r, MarkUnknownRow(r))
         /\ Stopped(MarkUnknownRow(r)) <=> r.status \in Terminal
<1> DEFINE b == Bump(r)
           q == [b EXCEPT !.pending_execution.status = "OUTCOME_UNKNOWN"]
           u == [q EXCEPT !.status = "INTERRUPTED", !.error_code = "TOOL_OUTCOME_UNKNOWN"]
<1>1. b \in AgentRunRow /\ Alike(r, b)
  BY BumpType, BumpAlike
<1>2. /\ Sound(b) /\ Follows(r, b)
      /\ Created(r, inv, user) => Created(b, inv, user)
      /\ Approved(r, user) => Approved(b, user)
      /\ b.status = r.status /\ b.pending_execution = r.pending_execution
      /\ b.error_code = r.error_code
      /\ b.confirmation_response = r.confirmation_response
      /\ b.pending_execution.dispatched
  BY <1>1, AlikeFacts, EvenFollows DEF Alike
<1>3. MarkUnknownRow(r) = IF r.status \in Terminal THEN q ELSE u
  BY DEF MarkUnknownRow
<1> HIDE DEF b
<1>4. /\ Content(b, q) /\ q.status = b.status /\ q.error_code = b.error_code
      /\ q.confirmation_response = b.confirmation_response
      /\ q \in AgentRunRow
      /\ q.pending_execution.dispatched = b.pending_execution.dispatched
      /\ q.pending_execution.prepared = b.pending_execution.prepared
      /\ q.pending_execution.call = b.pending_execution.call
      /\ q.pending_execution.status = "OUTCOME_UNKNOWN"
  BY <1>1, <1>2, Members, ZenonT(60) DEF Content, Same, AgentRunRow, ExecutionRecord
<1> HIDE DEF q
<1>5. /\ Content(q, u) /\ u.status = "INTERRUPTED" /\ u.error_code = "TOOL_OUTCOME_UNKNOWN"
      /\ u.confirmation_response = q.confirmation_response
      /\ u \in AgentRunRow
      /\ u.pending_execution = q.pending_execution
  BY <1>4, Members, Zenon DEF Content, Same, AgentRunRow
<1> HIDE DEF u
<1>6. /\ b.confirmation_response = "none" /\ b.status # "WAITING_FOR_CONFIRMATION"
  BY <1>2 DEF Sound, Phased, Asking
<1>7. Phased(q) /\ Phased(u)
  BY <1>2, <1>4, <1>5, <1>6 DEF Phased, Sound
<1>8. Carried(r, q)
  BY <1>1, <1>2, <1>4, <1>7, CarryContent
<1>9. Carried(r, u)
  <2>1. Content(b, u)
    BY <1>4, <1>5, ContentOn
  <2> QED BY <1>1, <1>2, <1>4, <1>5, <1>7, <2>1, CarryContent
<1> QED BY <1>2, <1>3, <1>4, <1>5, <1>8, <1>9 DEF Stopped

\* The run the scan ends because its checkpoint is gone.
LEMMA EndSound ==
  ASSUME NEW r \in AgentRunRow, Sound(r)
  PROVE  LET q == [Bump(r) EXCEPT !.status = "TERMINATED", !.error_code = "FATAL"] IN
         Carried(r, q) /\ ~Stopped(q)
<1> DEFINE b == Bump(r)
           q == [b EXCEPT !.status = "TERMINATED", !.error_code = "FATAL"]
<1>1. b \in AgentRunRow /\ Alike(r, b)
  BY BumpType, BumpAlike
<1>2. /\ Sound(b) /\ Follows(r, b)
      /\ Created(r, inv, user) => Created(b, inv, user)
      /\ Approved(r, user) => Approved(b, user)
  BY <1>1, AlikeFacts, EvenFollows DEF Alike
<1> HIDE DEF b
<1>3. /\ Content(b, q) /\ q.status = "TERMINATED" /\ q.error_code = "FATAL"
      /\ q.confirmation_response = b.confirmation_response
      /\ q.pending_execution = b.pending_execution
      /\ q \in AgentRunRow
  BY <1>1, Members, Zenon DEF Content, Same, AgentRunRow
<1> HIDE DEF q
<1>4. Phased(q)
  BY <1>2, <1>3 DEF Phased, Asking, Sound
<1>5. Carried(r, q)
  BY <1>1, <1>2, <1>3, <1>4, CarryContent
<1> QED BY <1>3, <1>5 DEF Stopped, q, b

\* A receipt closes the execution record and adds its observation.
LEMMA ReceiptSound ==
  ASSUME NEW r \in AgentRunRow, Sound(r), NEW c \in CallIds, NEW out \in Outcomes,
         OwnsReceipt(r, c)
  PROVE  LET q == ReceiptRow(r, c, out) IN
         /\ Sound(q) /\ Created(q, inv, user) /\ Approved(q, user)
         /\ q.confirmation_response = "none"
         /\ q.observations = [r.observations EXCEPT ![c] = out]
         /\ q.pending_execution.call = None /\ ~q.pending_execution.dispatched
         /\ q.answered = r.answered /\ q.llm_tokens = r.llm_tokens /\ q.calls = r.calls
         /\ Stopped(q) <=> Stopped(r)
         /\ r.observations[c] = "none"
<1> DEFINE b == Bump(r)
           q == ReceiptRow(r, c, out)
           code == IF r.status = "INTERRUPTED" /\ b.error_code = "TOOL_OUTCOME_UNKNOWN"
                     THEN "PROCESS_INTERRUPTED" ELSE b.error_code
<1>1. /\ b \in AgentRunRow /\ Alike(r, b)
      /\ Dispatched(r, c) /\ r.observations[c] = "none"
      /\ r.confirmation_response = "none" /\ r.status # "WAITING_FOR_CONFIRMATION"
  BY BumpType, BumpAlike DEF OwnsReceipt, Dispatched, Sound, Marked, Phased, Asking
<1>2. /\ q.observations = [b.observations EXCEPT ![c] = out]
      /\ q.pending_execution = NoExecution /\ q.status = b.status
      /\ q.error_code = code
      /\ q.calls = b.calls /\ q.llm_tokens = b.llm_tokens
      /\ q.tool_executions = b.tool_executions /\ q.answered = b.answered
      /\ q.pending_tool_call = b.pending_tool_call
      /\ q.confirmation_response = b.confirmation_response
  BY <1>1, ZenonT(40) DEF ReceiptRow, AgentRunRow
<1> HIDE DEF b, q
<1>3. /\ NoExecution.call = None /\ ~NoExecution.dispatched /\ ~NoExecution.prepared
      /\ ~NoExecution.confirmed
      /\ r.observations \in [CallIds -> Observations] /\ b.observations = r.observations
      /\ out # "none" /\ out # "NEEDS_INPUT"
  BY <1>1, Zenon DEF NoExecution, AgentRunRow, Outcomes, Alike, Same
<1>4. Budgeted(q)
  BY <1>1, <1>2, BudgetSame DEF Alike, Sound
<1>5. Charged(q)
  <2>1. \A d \in CallIds : Fenced(q, d) <=> Fenced(r, d)
    BY <1>1, ReceiptFacts DEF q
  <2>2. FencedCalls(q) = FencedCalls(r)
    BY <2>1 DEF FencedCalls
  <2> QED BY <1>1, <1>2, <2>2 DEF Alike, Charged, Sound
<1>6. Marked(q)
  BY <1>1, <1>2, <1>3, CallAssumption DEF Marked, Sound, Alike
<1>7. Phased(q)
  BY <1>1, <1>2, <1>3 DEF Phased, Sound, Alike
<1>8. Stopped(q) <=> Stopped(r)
  BY <1>1, <1>2 DEF Stopped, Alike
<1>9. Created(q, inv, user) /\ Approved(q, user)
  BY <1>1, <1>2, <1>3 DEF Created, Approved, Alike
<1> QED BY <1>1, <1>2, <1>3, <1>4, <1>5, <1>6, <1>7, <1>8, <1>9 DEF Sound, Alike, q

-----------------------------------------------------------------------------
(* What is outside the row agrees with every way the row moves *)

\* A move that is no receipt, and fences nothing once the run is stopped.
Quiet(q, r) ==
  /\ Follows(q, r)
  /\ Stopped(q) => Stopped(r) /\ \A c \in CallIds : Dispatched(r, c) => Dispatched(q, c)

\* A move that keeps the execution record and the observations is quiet.
LEMMA QuietSame ==
  ASSUME NEW q, NEW r, Same(q, r), Follows(q, r), Stopped(q) => Stopped(r)
  PROVE  Quiet(q, r)
BY SameFacts DEF Quiet

\* The Invocations and their executor stay, and no consent is withdrawn.
Elsewhere ==
  /\ inv' = inv /\ drives' = drives
  /\ user.consents \subseteq user'.consents

\* Invocations, observations and stop requests agree with the row after a quiet move.
LEMMA InvocationsKept ==
  ASSUME TypeInv, PromiseInv, Elsewhere, Quiet(run, run')
  PROVE  Invocations' /\ ReceiptFaithful' /\ (user'.stop = user.stop => Stopping')
<1>1. \A c \in CallIds : /\ Dispatched(run, c) => Dispatched(run', c)
                         /\ Executed(run, c) <=> Executed(run', c)
                         /\ Fenced(run, c) => Fenced(run', c)
  BY FollowsFence DEF Quiet
<1>2. \A c \in CallIds :
        /\ run.pending_execution.call = c => run'.pending_execution.call = c
        /\ run.observations[c] # "none" => run'.observations[c] = run.observations[c]
  BY CallAssumption DEF Quiet, Follows
<1>3. /\ inv' = inv /\ drives' = drives
      /\ \A c : Consented(c, user) => Consented(c, user')
  BY DEF Elsewhere, Consented
<1>4. Invocations'
  BY <1>1, <1>2, <1>3 DEF PromiseInv, Outside, Invocations, Quiet
<1>5. ReceiptFaithful'
  <2>1. \A c \in CallIds : run'.observations[c] \in Outcomes =>
          run'.observations[c] = run.observations[c]
    BY <1>1, <1>2 DEF Executed, Outcomes
  <2> QED BY <1>3, <2>1 DEF PromiseInv, Outside, ReceiptFaithful, Outcomes
<1>6. ASSUME user'.stop = user.stop PROVE Stopping'
  BY <1>1, <1>3, <1>6 DEF PromiseInv, Outside, Stopping, StopClosesPreparation, Quiet
<1> QED BY <1>4, <1>5, <1>6

\* The receipt task keeps its dispatched call through a quiet move.
LEMMA ReceiptKept ==
  ASSUME TypeInv, PromiseInv, inv' = inv, drives' = drives, Quiet(run, run'),
         rt' \in {rt, NoTask}
  PROVE  Receipt'
<1>1. \A c \in CallIds : Dispatched(run, c) => Dispatched(run', c)
  BY FollowsFence DEF Quiet
<1>2. NoTask.st = "none"
  BY DEF NoTask
<1> QED BY <1>1, <1>2 DEF PromiseInv, Outside, Receipt

\* A receipt that tells the truth.
Truthful(c, out) ==
  /\ out = "SUCCEEDED" => inv[c] = "SUCCEEDED"
  /\ out = "FAILED" => inv[c] \notin Started

\* A truthful receipt keeps everything outside the row in agreement with it.
LEMMA OutsideReceipt ==
  ASSUME TypeInv, PromiseInv, NEW c \in CallIds, NEW out \in Outcomes,
         OwnsReceipt(run, c), Truthful(c, out), run' = ReceiptRow(run, c, out),
         inv' = inv, drives' = drives, user' = user, rt'.st = "none"
  PROVE  Outside'
<1>1. /\ run'.observations = [run.observations EXCEPT ![c] = out]
      /\ run'.pending_execution.call = None /\ ~run'.pending_execution.dispatched
      /\ Stopped(run') <=> Stopped(run)
      /\ run \in AgentRunRow
  BY ReceiptSound DEF TypeInv, TypeOK, PromiseInv, Rows
<1>2. run.observations \in [CallIds -> Observations] /\ Dispatched(run, c)
  BY <1>1, Zenon DEF AgentRunRow, OwnsReceipt
<1>3. \A d \in CallIds : Fenced(run', d) <=> Fenced(run, d)
  BY <1>1, <1>2, ReceiptFacts
<1>4. Executed(run', c) /\ Fenced(run', c)
  BY <1>1, <1>2 DEF Executed, Fenced
<1>5. \A d \in CallIds : run.pending_execution.call = d => d = c
  BY <1>2 DEF Dispatched
<1>6. Invocations'
  BY <1>1, <1>3, <1>4, <1>5 DEF PromiseInv, Outside, Invocations, Dispatched
<1>7. Receipt'
  BY DEF Receipt
<1>8. ReceiptFaithful'
  BY <1>1, <1>2 DEF PromiseInv, Outside, ReceiptFaithful, Truthful, Started
<1>9. Stopping'
  BY <1>1, <1>3 DEF PromiseInv, Outside, Stopping, StopClosesPreparation
<1> QED BY <1>6, <1>7, <1>8, <1>9 DEF Outside

-----------------------------------------------------------------------------
(* Steps of others: the worker keeps a copy that is older than the row *)

\* A worker on its way out of advance says nothing of its copy.
LEMMA PlaceRead ==
  ASSUME w \in Workers, NEW r, Place(w, r), NEW pc \in {"read", "raised", "dying", "closing", "conflict"}
  PROVE  \A q : Place(Go(pc), q)
<1>1. Go(pc).pc = pc /\ Go(pc).code = w.code
  BY Zenon DEF Go, Workers
<1> QED BY <1>1 DEF Place, Working

\* The old copy keeps what backs it.
LEMMA BackedOn ==
  ASSUME NEW r, NEW i, NEW u, NEW v, Backed(r, i, u), u.consents \subseteq v.consents
  PROVE  Backed(r, i, v)
<1>1. \A c : Consented(c, u) => Consented(c, v)
  BY DEF Consented
<1> QED BY <1>1 DEF Backed, Created, Approved, CardHolds

\* Invocations that stay are decided as before.
LEMMA DecidesSelf == inv' = inv => Decides(inv, inv', user)
BY DEF Decides

\* A step of another writer leaves the worker with a copy older than the row.
LEMMA RowStep ==
  ASSUME TypeInv, FenceInv, PromiseInv, Elsewhere, Outside', loc' = loc,
         run' \in AgentRunRow,
         w' = w \/ (w'.pc \notin Working /\ Place(w', loc)),
         run'.version = run.version + 1, Len(run'.calls) >= Len(run.calls),
         Sound(run'), Backed(run', inv, user')
  PROVE  PromiseInv'
<1>1. /\ run.version \in Nat /\ loc.version \in Nat /\ loc.version <= run.version
      /\ w \in Workers /\ Len(run.calls) \in Nat /\ Len(run'.calls) \in Nat
      /\ w.cur \in Nat
  <2>1. run \in AgentRunRow /\ w \in Workers /\ run.version \in Nat /\ loc.version \in Nat
    BY WorkerFacts
  <2>2. Len(run.calls) \in Nat /\ Len(run'.calls) \in Nat
    BY <2>1, RowLengths
  <2>3. w.cur \in Nat
    BY <2>1, Zenon DEF Workers
  <2> QED BY <2>1, <2>2, <2>3 DEF FenceInv, CopyKeepsFences
<1>2. Rows'
  BY BackedOn DEF PromiseInv, Rows, Elsewhere
<1>3. Copy'
  BY <1>1 DEF Copy
<1>4. Worker'
  <2>1. CASE w' = w
    BY <1>1, <2>1 DEF PromiseInv, Worker, Elsewhere
  <2>2. CASE w'.pc \notin Working /\ Place(w', loc)
    BY <2>2 DEF Worker, Working
  <2> QED BY <2>1, <2>2
<1> QED BY <1>2, <1>3, <1>4 DEF PromiseInv

-----------------------------------------------------------------------------
(* Steps of the worker: it saves an edited copy, or tries to *)

\* What the worker makes of its copy before a save.
Edit(r) ==
  /\ r \in AgentRunRow /\ r.version = loc.version
  /\ Follows(loc, r)
  /\ Sound(r) /\ Backed(r, inv, user)
  /\ Stopped(r) => Stopped(loc)

\* The edit stays a copy, or it is saved over a run that has not ended.
Attempt(r) ==
  \/ run' = run /\ loc' = r
  \/ /\ run.version = r.version /\ run.status \notin Terminal
     /\ run' = Saved(r) /\ loc' \in {r, Saved(r)}

\* Every save is an attempt, accepted only over a run that has not ended.
LEMMA AttemptCases ==
  ASSUME TypeInv, NEW r
  PROVE  SaveOk(r) \/ SaveFault(r) \/ SaveConflict(r) \/ SaveInvalid(r) => Attempt(r)
<1>1. run.status \in Status
  BY WorkerFacts, Zenon DEF AgentRunRow
<1>2. Valid(run, r) => run.status \notin Terminal
  BY <1>1 DEF Valid, AllowedNext, Terminal, Waiting
<1> QED BY <1>2 DEF Attempt, SaveOk, SaveFault, SaveConflict, SaveInvalid, SaveAccepted, Store

\* An attempt to save an edited copy moves the row forward, or not at all.
LEMMA AttemptMoves ==
  ASSUME TypeInv, FenceInv, PromiseInv, w.pc \in Holding, NEW r, Edit(r), Attempt(r)
  PROVE  /\ Moves /\ Quiet(run, run')
         /\ Rows' \/ ~(inv' = inv /\ user' = user)
         /\ loc'.version = run'.version =>
              Follows(run', loc') /\ (Stopped(loc') => Stopped(run'))
         /\ Len(run'.calls) >= Len(run.calls)
<1>1. /\ run \in AgentRunRow /\ loc \in AgentRunRow /\ r \in AgentRunRow
      /\ r.version = loc.version /\ loc.version \in Nat
      /\ Saved(r) \in AgentRunRow /\ Alike(r, Saved(r))
      /\ Saved(r).version = r.version + 1
  BY WorkerFacts, BumpType, BumpAlike, RowFacts DEF Edit
<1>2. loc.version = run.version =>
        /\ Follows(run, loc) /\ (Stopped(loc) => Stopped(run))
        /\ Follows(run, r) /\ (Stopped(r) => Stopped(run))
  <2>1. loc.version = run.version => Follows(run, loc) /\ (Stopped(loc) => Stopped(run))
    BY DEF PromiseInv, Copy
  <2> QED BY <1>1, <2>1, FollowsOn DEF Edit
<1>3. CASE run' = run /\ loc' = r
  <2>1. Follows(run, run) /\ Len(run.calls) \in Nat
    BY <1>1, FollowsSelf, RowLengths
  <2>2. Moves /\ Quiet(run, run')
    BY <1>3, <2>1 DEF Moves, Quiet
  <2>3. inv' = inv /\ user' = user => Rows'
    BY <1>3 DEF PromiseInv, Rows, Edit
  <2> QED BY <1>1, <1>2, <1>3, <2>1, <2>2, <2>3
<1>4. CASE /\ run.version = r.version /\ run.status \notin Terminal
           /\ run' = Saved(r) /\ loc' \in {r, Saved(r)}
  <2>1. Follows(run, Saved(r)) /\ ~Stopped(run) /\ (Stopped(Saved(r)) <=> Stopped(r))
    BY <1>1, <1>2, <1>4, AlikeFacts DEF Stopped, Terminal
  <2>2. Moves /\ Quiet(run, run')
    BY <1>1, <1>2, <1>4, <2>1 DEF Moves, Forward, Quiet
  <2>3. Sound(Saved(r)) /\ Backed(Saved(r), inv, user)
    BY <1>1, AlikeFacts DEF Edit
  <2>4. inv' = inv /\ user' = user => Rows'
    BY <1>4, <2>3 DEF Rows, Edit
  <2>5. loc'.version = run'.version =>
          Follows(run', loc') /\ (Stopped(loc') => Stopped(run'))
    BY <1>1, <1>4, FollowsSelf
  <2> QED BY <1>4, <2>1, <2>2, <2>4, <2>5 DEF Follows
<1> QED BY <1>3, <1>4 DEF Attempt

\* The worker edits, saves or fails to save, and goes on.
LEMMA EditKeeps ==
  ASSUME TypeInv, FenceInv, PromiseInv, w.pc \in Holding, inv' = inv, drives' = drives,
         user' = user, Receipt', NEW r, Edit(r), Attempt(r),
         Place(w', r), w'.pc \notin {"inserted", "prepared"}, w' \in Workers,
         w'.pc \in Working =>
           \/ run' = loc'
           \/ w.pc \in Working /\ InStep(loc, r) /\ w'.cur <= Len(run.calls)
  PROVE  PromiseInv' /\ Moves
<1>1. /\ Moves /\ Quiet(run, run')
      /\ Rows'
      /\ loc'.version = run'.version =>
           Follows(run', loc') /\ (Stopped(loc') => Stopped(run'))
      /\ Len(run'.calls) >= Len(run.calls)
  BY AttemptMoves
<1>2. Elsewhere
  BY DEF Elsewhere
<1>3. Outside'
  BY <1>1, <1>2, InvocationsKept DEF Outside
<1>4. /\ run \in AgentRunRow /\ loc \in AgentRunRow /\ r \in AgentRunRow
      /\ r.version = loc.version /\ Alike(r, Saved(r))
      /\ Saved(r).version = r.version + 1 /\ loc.version \in Nat /\ run.version \in Nat
      /\ Saved(r).calls = r.calls
  BY WorkerFacts, BumpAlike, RowFacts DEF Edit, Alike
<1>5. Copy'
  <2>1. ASSUME loc'.version = run'.version, w'.pc \in Working PROVE InStep(run', loc')
    <3>1. CASE run' = loc'
      BY <3>1 DEF InStep
    <3>2. CASE w.pc \in Working /\ InStep(loc, r) /\ run' # loc'
      <4>1. run' = run /\ loc' = r
        BY <1>4, <2>1, <3>2 DEF Attempt
      <4>2. InStep(run, loc)
        BY <1>4, <2>1, <3>2, <4>1 DEF PromiseInv, Copy
      <4> QED BY <3>2, <4>1, <4>2 DEF InStep
    <3> QED BY <2>1, <3>1, <3>2
  <2> QED BY <1>1, <2>1 DEF Copy
<1>6. Worker'
  <2>1. Place(w', loc')
    BY <1>4, AlikeFacts DEF Attempt
  <2>2. w'.pc \in Working => w'.cur <= Len(run'.calls)
    <3>1. Len(run.calls) \in Nat /\ Len(r.calls) \in Nat
      BY <1>4, RowLengths
    <3>2. Len(run'.calls) \in Nat
      BY <1>4, <3>1 DEF Attempt
    <3>5. w'.cur \in Nat
      BY Zenon DEF Workers
    <3>3. CASE run' = loc'
      BY <2>1, <3>3 DEF Place
    <3>4. CASE w'.cur <= Len(run.calls)
      BY <1>1, <3>1, <3>2, <3>4, <3>5
    <3> QED BY <3>3, <3>4
  <2> QED BY <2>1, <2>2 DEF Worker
<1> QED BY <1>1, <1>3, <1>5, <1>6 DEF PromiseInv

\* Leaving the graph says nothing but the error that is left.
LEMMA PlaceLeft ==
  ASSUME NEW v, NEW r, v.cur <= Len(r.calls), NEW pc \in {"fail", "conflict"},
         NEW code, code # "USER_STOPPED"
  PROVE  Place(Left(v, pc, code), r)
<1>1. /\ Left(v, pc, code).pc = pc /\ Left(v, pc, code).code = code
      /\ Left(v, pc, code).cur = v.cur
  BY DEF Left, IdleWorker
<1> QED BY <1>1 DEF Place, Working

\* The receipt task waits while its row is edited.
LEMMA AttemptReceipt ==
  ASSUME TypeInv, FenceInv, PromiseInv, w.pc \in Holding, inv' = inv, drives' = drives,
         rt' \in {rt, NoTask}, NEW r, Edit(r), Attempt(r)
  PROVE  Receipt'
BY AttemptMoves, ReceiptKept

\* A save after which the worker goes anywhere but on in the graph.
LEMMA LeavesKeep ==
  ASSUME TypeInv, FenceInv, PromiseInv, TypeInv', w.pc \in Holding, UNCHANGED external,
         NEW r, Edit(r), Attempt(r), Place(w', r), w'.pc \notin Working
  PROVE  PromiseInv' /\ Moves
<1>1. inv' = inv /\ drives' = drives /\ user' = user /\ rt' = rt
  BY Zenon DEF external
<1>2. w' \in Workers
  BY Zenon DEF TypeInv, TypeOK
<1>3. Receipt'
  BY <1>1, AttemptReceipt
<1> QED BY <1>1, <1>2, <1>3, EditKeeps DEF Working

\* persist() of an edited copy.
LEMMA PersistPromise ==
  ASSUME TypeInv, FenceInv, PromiseInv, TypeInv', w.pc \in Holding, UNCHANGED external,
         NEW r, Edit(r), NEW next, Persist(r, next), Place(next, r), next.pc \notin {"inserted", "prepared"},
         next.cur <= Len(r.calls)
  PROVE  PromiseInv' /\ Moves
<1>1. inv' = inv /\ drives' = drives /\ user' = user /\ rt' = rt
  BY Zenon DEF external
<1>2. w' \in Workers
  BY Zenon DEF TypeInv, TypeOK
<1>3. Attempt(r)
  BY AttemptCases DEF Persist
<1>4. Receipt'
  BY <1>1, <1>3, AttemptReceipt
<1>5. CASE SaveOk(r) /\ w' = next
  <2>1. run' = loc'
    BY <1>5 DEF SaveOk, Store
  <2> QED BY <1>1, <1>2, <1>3, <1>4, <1>5, <2>1, EditKeeps
<1>6. CASE \/ w' = Left(next, "conflict", "none")
           \/ w' = Left(next, "fail", "DEPENDENCY_UNAVAILABLE")
           \/ w' = Left(next, "fail", "FATAL")
  <2>1. Place(w', r)
    BY <1>6, PlaceLeft
  <2>2. w'.pc \in {"conflict", "fail"}
    BY <1>6 DEF Left, IdleWorker
  <2> QED BY <1>3, <2>1, <2>2, LeavesKeep DEF Working
<1> QED BY <1>5, <1>6 DEF Persist

\* A step that leaves the row and the copy alone.
LEMMA LocalPromise ==
  ASSUME TypeInv, PromiseInv, run' = run, loc' = loc, Outside',
         user.consents \subseteq user'.consents,
         Decides(inv, inv', user),
         Place(w', loc),
         w'.pc \in Holding => w.pc \in Holding,
         w'.pc \in Working => w.pc \in Working /\ w'.cur = w.cur,
         w'.pc \in {"inserted", "prepared"} => inv'[w'.pos.call] \notin {"none", "DENIED"}
  PROVE  PromiseInv' /\ Moves
<1>1. Rows'
  <2>1. ASSUME NEW r, Sound(r), Backed(r, inv, user) PROVE Backed(r, inv', user')
    <3>0. \A c : Consented(c, user) => Consented(c, user')
      BY DEF Consented
    <3>1. Approved(r, user')
      BY <2>1, <3>0 DEF Backed, Approved
    <3>2. Created(r, inv', user')
      BY <2>1, <3>0 DEF Backed, Created, Sound, Phased, Decides, CardHolds
    <3> QED BY <3>1, <3>2 DEF Backed
  <2>2. Sound(run) /\ Sound(loc) /\ Backed(run, inv, user) /\ Backed(loc, inv, user)
    BY DEF PromiseInv, Rows
  <2>3. /\ Sound(run') /\ Sound(loc')
        /\ Backed(run', inv', user') /\ Backed(loc', inv', user')
    BY <2>1, <2>2
  <2> QED BY <2>3 DEF Rows
<1>2. Copy'
  BY DEF PromiseInv, Copy
<1>3. Worker'
  BY DEF PromiseInv, Worker
<1> QED BY <1>1, <1>2, <1>3 DEF PromiseInv, Moves

\* An exception or a conflict inside the graph.
LEMMA RaisePromise ==
  ASSUME TypeInv, FenceInv, PromiseInv, UNCHANGED external,
         w.pc \in Working \cup {"awaited"}, NEW pc \in {"fail", "conflict"},
         NEW code, code # "USER_STOPPED", Exit(pc, code), UNCHANGED <<run, loc>>
  PROVE  PromiseInv' /\ Moves
<1>1. inv' = inv /\ drives' = drives /\ user' = user /\ rt' = rt
  BY Zenon DEF external
<1>2. w' = Left(w, pc, code) /\ w'.pc = pc
  BY DEF Exit, Left, IdleWorker
<1>3. Place(w', loc)
  <2>1. w.cur <= Len(loc.calls)
    BY DEF PromiseInv, Worker, Place
  <2> QED BY <1>2, <2>1, PlaceLeft
<1>4. Outside'
  BY <1>1 DEF PromiseInv, Outside, Invocations, Receipt, ReceiptFaithful, Stopping,
     StopClosesPreparation
<1>5. w'.pc \notin Working /\ (w'.pc \in Holding => w.pc \in Holding) /\ w'.pc \notin {"inserted", "prepared"}
  BY <1>2 DEF Working, Holding, WorkerPc
<1> QED BY <1>1, <1>3, <1>4, <1>5, LocalPromise, DecidesSelf

-----------------------------------------------------------------------------
(* The copies the worker makes *)

\* An edit that leaves ledgers, calls and the approval as they are.
LEMMA EditContent ==
  ASSUME TypeInv, PromiseInv, NEW r \in AgentRunRow, r.version = loc.version,
         Content(loc, r), r.pending_execution = loc.pending_execution,
         r.confirmation_response = loc.confirmation_response,
         \/ r.status = loc.status /\ r.error_code = loc.error_code
         \/ /\ r.error_code # "USER_STOPPED"
            /\ r.status = "WAITING_FOR_CONFIRMATION" => Asking(loc)
  PROVE  Edit(r)
<1>1. loc \in AgentRunRow /\ Sound(loc) /\ Backed(loc, inv, user)
  BY WorkerFacts DEF PromiseInv, Rows
<1>2. Asking(r) <=> Asking(loc)
  BY DEF Asking
<1>3. Phased(r)
  BY <1>1, <1>2 DEF Sound, Phased
<1>4. Sound(r) /\ Backed(r, inv, user) /\ Follows(loc, r)
  BY <1>1, <1>3, ContentFacts, EvenFollows DEF Backed
<1>5. Stopped(r) => Stopped(loc)
  BY DEF Stopped
<1> QED BY <1>4, <1>5 DEF Edit

\* A settled call is charged as it is closed.
LEMMA SettledEdit ==
  ASSUME TypeInv, PromiseInv, w.cur \in DOMAIN loc.calls, loc.calls[w.cur] = "RUNNING",
         NEW status \in {"SUCCEEDED", "FAILED"}
  PROVE  LET q == Settled(loc, status) IN
         /\ Edit(q)
         /\ q.status = loc.status /\ q.pending_execution = loc.pending_execution
         /\ q.confirmation_response = loc.confirmation_response
         /\ q.question = loc.question /\ q.error_code = loc.error_code
         /\ q.observations = loc.observations /\ q.answered = loc.answered
         /\ q.pending_tool_call = loc.pending_tool_call
         /\ Len(q.calls) = Len(loc.calls)
<1> DEFINE q == Settled(loc, status)
<1>1. loc \in AgentRunRow /\ Sound(loc) /\ Backed(loc, inv, user)
  BY WorkerFacts DEF PromiseInv, Rows
<1>2. /\ q \in AgentRunRow /\ Same(loc, q) /\ q.version = loc.version
      /\ q.status = loc.status
  BY <1>1, CopyFacts
<1>3. /\ q.calls = [loc.calls EXCEPT ![w.cur] = status]
      /\ q.llm_tokens = loc.llm_tokens + 1
      /\ q.tool_executions = loc.tool_executions
      /\ q.pending_execution = loc.pending_execution
      /\ q.confirmation_response = loc.confirmation_response
      /\ q.question = loc.question /\ q.error_code = loc.error_code
      /\ q.observations = loc.observations /\ q.answered = loc.answered
      /\ q.pending_tool_call = loc.pending_tool_call
  BY <1>1, Zenon DEF Settled, AgentRunRow
<1> HIDE DEF q
<1>4. loc.calls \in Seq(CallStatus)
  BY <1>1, Zenon DEF AgentRunRow, CallStatus
<1>5. /\ DOMAIN q.calls = DOMAIN loc.calls /\ Len(q.calls) = Len(loc.calls)
      /\ Len(loc.calls) \in Nat /\ DOMAIN loc.calls = 1..Len(loc.calls)
  BY <1>3, <1>4
<1>6. Outstanding(q) = Outstanding(loc) \ {w.cur} /\ w.cur \in Outstanding(loc)
  BY <1>3, <1>5 DEF Outstanding
<1>7. IsFiniteSet(Outstanding(loc))
  <2>1. IsFiniteSet(1..Len(loc.calls)) /\ Outstanding(loc) \in SUBSET (1..Len(loc.calls))
    BY <1>5, FS_Interval DEF Outstanding
  <2> QED BY <2>1, FS_Subset
<1>8. Cardinality(Outstanding(q)) = Cardinality(Outstanding(loc)) - 1
  BY <1>6, <1>7, FS_RemoveElement
<1>9. /\ loc.llm_tokens \in Nat /\ Cardinality(Outstanding(loc)) \in Nat
  BY <1>1, RowNumbers, OutstandingType
<1>10. Budgeted(q)
  BY <1>1, <1>3, <1>5, <1>8, <1>9 DEF Sound, Budgeted
<1>11. Charged(q) /\ Marked(q)
  BY <1>1, <1>2, <1>3, ChargeSame, MarkSame DEF Sound
<1>12. Phased(q)
  BY <1>1, <1>2, <1>3 DEF Sound, Phased, Asking
<1>13. Backed(q, inv, user)
  BY <1>1, <1>3 DEF Backed, Created, Approved
<1>14. Follows(loc, q)
  BY <1>2, <1>3, <1>5, <1>9 DEF Follows, Same, Executed
<1>15. Stopped(q) => Stopped(loc)
  BY <1>2, <1>3 DEF Stopped
<1> QED BY <1>2, <1>3, <1>5, <1>10, <1>11, <1>12, <1>13, <1>14, <1>15 DEF Sound, Edit, q

\* An edit of an edit.
LEMMA EditOn ==
  ASSUME TypeInv, PromiseInv, NEW p, Edit(p), NEW r \in AgentRunRow, r.version = loc.version,
         Content(p, r), r.pending_execution = p.pending_execution,
         r.confirmation_response = p.confirmation_response,
         r.status = p.status, r.error_code = p.error_code
  PROVE  Edit(r)
<1>1. Phased(r)
  BY DEF Edit, Sound, Phased, Asking
<1>2. Sound(r) /\ Backed(r, inv, user) /\ Follows(p, r)
  BY <1>1, ContentFacts, EvenFollows DEF Backed, Edit
<1>3. Follows(loc, r)
  BY <1>2, WorkerFacts, FollowsOn DEF Edit
<1> QED BY <1>2, <1>3 DEF Edit, Stopped

-----------------------------------------------------------------------------
(* The actions of the worker *)

\* The worker takes a fresh copy of the row, or drops the one it had.
LEMMA FreshCopy ==
  ASSUME TypeInv, PromiseInv, Elsewhere, run' = run, rt' \in {rt, NoTask}, Stopping',
         Sound(loc'), Backed(loc', inv, user), ~Stopped(loc'),
         w'.pc \in Holding => Follows(run, loc'),
         w'.pc \notin Working, Place(w', loc')
  PROVE  PromiseInv' /\ Moves
<1>1. run \in AgentRunRow /\ Follows(run, run) /\ Quiet(run, run')
  BY WorkerFacts, FollowsSelf DEF Quiet
<1>2. Outside'
  BY <1>1, InvocationsKept, ReceiptKept DEF Outside, Elsewhere
<1>3. Rows'
  BY BackedOn DEF PromiseInv, Rows, Elsewhere
<1>4. Copy'
  BY DEF Copy
<1>5. Worker'
  BY DEF Worker, Working
<1> QED BY <1>2, <1>3, <1>4, <1>5 DEF PromiseInv, Moves

\* An idle worker, one that fails to read and one that claims.
LEMMA IdlePlaces ==
  /\ \A r : Place(IdleWorker, r) /\ Place([IdleWorker EXCEPT !.pc = "raised"], r)
  /\ IdleWorker.pc = "idle" /\ [IdleWorker EXCEPT !.pc = "raised"].pc = "raised"
  /\ \A dec, replay :
       LET v == [IdleWorker EXCEPT !.pc = "claim", !.dec = dec, !.replay = replay] IN
       v.pc = "claim" /\ v.dec = dec /\ v.code = "none" /\ v.cur = 0
BY DEF IdleWorker, Place, Working

\* What a step of the worker alone leaves outside.
LEMMA WorkerOutside ==
  ASSUME TypeInv, PromiseInv, UNCHANGED external
  PROVE  /\ Elsewhere /\ rt' = rt /\ inv' = inv /\ user' = user /\ drives' = drives
         /\ run' = run => Stopping'
<1>1. rt' = rt /\ inv' = inv /\ user' = user /\ drives' = drives
  BY Zenon DEF external
<1> QED BY <1>1 DEF Elsewhere, PromiseInv, Outside, Stopping, StopClosesPreparation

\* advance reads the row and claims it in its copy.
LEMMA PromiseRead ==
  ASSUME TypeInv, FenceInv, PromiseInv, Read
  PROVE  PromiseInv' /\ Moves
<1> DEFINE q == [run EXCEPT !.status = "RUNNING", !.claim = run.version + 1,
                            !.recovery_replay = FALSE]
           dec == IF run.confirmation_response # "none" THEN run.confirmation_response
                  ELSE IF run.question # None THEN "respond" ELSE "none"
<1>1. run' = run /\ UNCHANGED external
  BY Zenon DEF Read
<1>2. /\ run \in AgentRunRow /\ Sound(run) /\ Backed(run, inv, user)
      /\ w \in Workers
  BY WorkerFacts DEF PromiseInv, Rows
<1>3. /\ Content(run, q) /\ q.status = "RUNNING" /\ q.error_code = run.error_code
      /\ q.pending_execution = run.pending_execution
      /\ q.confirmation_response = run.confirmation_response
  BY <1>2, Zenon DEF Content, Same, AgentRunRow
<1> HIDE DEF q
<1>4. ASSUME run.status = "PENDING"
      PROVE  Sound(q) /\ Backed(q, inv, user) /\ Follows(run, q) /\ ~Stopped(q)
  <2>1. Phased(q)
    BY <1>2, <1>3, <1>4 DEF Sound, Phased, Asking
  <2> QED BY <1>2, <1>3, <2>1, ContentFacts, EvenFollows DEF Backed, Stopped
<1>5. \/ w' = IdleWorker /\ loc' = NewRow
      \/ w' = [IdleWorker EXCEPT !.pc = "raised"] /\ loc' = NewRow
      \/ /\ w' = [IdleWorker EXCEPT !.pc = "claim", !.dec = dec,
                    !.replay = run.recovery_replay /\ ~(run.confirmation_response # "none")
                               /\ ~(run.question # None)]
         /\ loc' = q /\ run.status = "PENDING"
  BY <1>2, Zenon DEF Read, q
<1>6. CASE /\ w' \in {IdleWorker, [IdleWorker EXCEPT !.pc = "raised"]}
           /\ loc' = NewRow
  <2>1. w'.pc \notin Holding /\ w'.pc \notin Working /\ Place(w', loc')
    BY <1>6, IdlePlaces DEF Holding, Working
  <2> QED BY <1>1, <1>6, <2>1, WorkerOutside, NewRowBacked, FreshCopy
<1>7. CASE /\ w'.pc = "claim" /\ w'.dec = dec /\ w'.code = "none" /\ w'.cur = 0
           /\ loc' = q /\ run.status = "PENDING"
  <2>1. w'.pc \notin Working /\ Place(w', loc')
    <3>1. Len(run.calls) \in Nat /\ Len(q.calls) = Len(run.calls)
      BY <1>2, <1>3, RowLengths DEF Content
    <3> QED BY <1>3, <1>7, <3>1 DEF Working, Place
  <2> QED BY <1>1, <1>4, <1>7, <2>1, WorkerOutside, FreshCopy
<1> DEFINE replay == run.recovery_replay /\ ~(run.confirmation_response # "none")
                       /\ ~(run.question # None)
           v == [IdleWorker EXCEPT !.pc = "claim", !.dec = dec, !.replay = replay]
<1>8. v.pc = "claim" /\ v.dec = dec /\ v.code = "none" /\ v.cur = 0
  BY IdlePlaces
<1>9. \/ w' = IdleWorker /\ loc' = NewRow
      \/ w' = [IdleWorker EXCEPT !.pc = "raised"] /\ loc' = NewRow
      \/ w' = v /\ loc' = q /\ run.status = "PENDING"
  BY <1>5
<1> HIDE DEF dec, replay, v
<1>10. CASE w' = v /\ loc' = q /\ run.status = "PENDING"
  BY <1>7, <1>8, <1>10
<1> QED BY <1>6, <1>9, <1>10

\* A copy is an edit of itself.
LEMMA EditSelf ==
  ASSUME TypeInv, PromiseInv
  PROVE  Edit(loc)
BY WorkerFacts, FollowsSelf DEF Edit, PromiseInv, Rows

\* A failed closeout, a conflict and the writes of the SDK checkpoint.
LEMMA PromiseCloseout ==
  ASSUME TypeInv, FenceInv, PromiseInv, CloseoutFault \/ Conflict \/ Checkpoint
  PROVE  PromiseInv' /\ Moves
<1>1. run' = run /\ loc' = loc /\ UNCHANGED external
  BY Zenon DEF CloseoutFault, Conflict, Checkpoint
<1>2. w' = Go("read") \/ w' = Go("raised") \/ w' = w
  BY DEF CloseoutFault, Conflict, Checkpoint
<1>3. Outside'
  BY <1>1, Zenon DEF PromiseInv, Outside, Invocations, Receipt, ReceiptFaithful, Stopping,
     StopClosesPreparation, Consented, external
<1>4. user' = user /\ inv' = inv /\ w \in Workers
  BY <1>1, WorkerFacts, Zenon DEF external
<1>5. CASE w' = w
  <2>1. Place(w', loc) /\ (w'.pc \in {"inserted", "prepared"} => inv'[w'.pos.call] \notin {"none", "DENIED"})
    BY <1>4, <1>5 DEF PromiseInv, Worker
  <2> QED BY <1>1, <1>3, <1>4, <1>5, <2>1, LocalPromise, DecidesSelf
<1>6. CASE w' = Go("read") \/ w' = Go("raised")
  <2>1. w'.pc \in {"read", "raised"} /\ Place(w', loc)
    BY <1>4, <1>6, PlacePcs, PlaceRead DEF PromiseInv, Worker
  <2>2. w'.pc \notin Working /\ w'.pc \notin Holding /\ w'.pc \notin {"inserted", "prepared"}
    BY <2>1 DEF Working, Holding
  <2> QED BY <1>1, <1>3, <1>4, <2>1, <2>2, LocalPromise, DecidesSelf
<1> QED BY <1>2, <1>5, <1>6

\* What the locals of the worker keep when it goes on.
LEMMA GoFacts ==
  ASSUME w \in Workers
  PROVE  /\ \A pc : LET v == Go(pc) IN
              v.pc = pc /\ v.pos = w.pos /\ v.cur = w.cur /\ v.dec = w.dec /\ v.code = w.code
         /\ \A v, pc, code : LET u == Left(v, pc, code) IN
              u.pc = pc /\ u.code = code /\ u.cur = v.cur /\ u.dec = "none"
         /\ /\ ToolDone.pc = "graph" /\ ToolDone.cur = w.cur /\ ToolDone.dec = w.dec
            /\ ToolDone.code = w.code
<1>1. \A pc : LET v == Go(pc) IN
        v.pc = pc /\ v.pos = w.pos /\ v.cur = w.cur /\ v.dec = w.dec /\ v.code = w.code
  BY Zenon DEF Go, Workers
<1>2. \A v, pc, code : LET u == Left(v, pc, code) IN
        u.pc = pc /\ u.code = code /\ u.cur = v.cur /\ u.dec = "none"
  BY DEF Left, IdleWorker
<1>3. /\ ToolDone.pc = "graph" /\ ToolDone.cur = w.cur /\ ToolDone.dec = w.dec
      /\ ToolDone.code = w.code
  BY Zenon DEF ToolDone, Workers
<1> QED BY <1>1, <1>2, <1>3

\* The places at which nothing is asked of the copy but its calls and approval.
LEMMA PlaceGraph ==
  ASSUME NEW v, NEW r, v.pc = "graph", v.code # "USER_STOPPED", v.cur <= Len(r.calls),
         v.dec = "approve" => r.confirmation_response = "approve"
  PROVE  Place(v, r)
BY DEF Place

\* The claim is saved before the graph starts.
LEMMA PromiseClaim ==
  ASSUME TypeInv, FenceInv, PromiseInv, TypeInv', Claim
  PROVE  PromiseInv' /\ Moves
<1>1. w.pc = "claim" /\ UNCHANGED external
  BY Zenon DEF Claim
<1>2. w.pc \in Holding /\ w \in Workers /\ w' \in Workers /\ w.pc # "graph"
  BY <1>1, WorkerFacts, Zenon DEF Holding, WorkerPc, TypeInv, TypeOK
<1>3. Edit(loc) /\ Attempt(loc)
  BY EditSelf, AttemptCases DEF Claim
<1>4. inv' = inv /\ drives' = drives /\ user' = user /\ rt' = rt
  BY <1>1, Zenon DEF external
<1>5. Place(w, loc)
  BY DEF PromiseInv, Worker
<1>6. CASE \/ w' = Left(w, "fail", "FATAL")
           \/ w' = Go("conflict") \/ w' = Go("raised")
  <2>1. w'.pc \in {"fail", "conflict", "raised"} /\ Place(w', loc)
    BY <1>1, <1>2, <1>5, <1>6, GoFacts, PlaceLeft, PlaceRead DEF Place
  <2> QED BY <1>1, <1>2, <1>3, <2>1, LeavesKeep DEF Working
<1>7. ASSUME NEW start, SaveOk(loc), w' = [w EXCEPT !.pc = "graph", !.pos = start]
      PROVE  PromiseInv' /\ Moves
  <2>1. w'.pc = "graph" /\ w'.cur = w.cur /\ w'.dec = w.dec /\ w'.code = w.code
    BY <1>2, <1>7, Zenon DEF Workers
  <2>2. Place(w', loc)
    BY <1>1, <1>5, <2>1, PlaceGraph DEF Place
  <2>3. run' = loc'
    BY <1>7 DEF SaveOk, Store
  <2>4. Receipt'
    BY <1>2, <1>3, <1>4, AttemptReceipt
  <2> QED BY <1>2, <1>3, <1>4, <2>1, <2>2, <2>3, <2>4, EditKeeps
<1> QED BY <1>6, <1>7 DEF Claim

\* In the graph: the facts every step starts from.
LEMMA GraphCopy ==
  ASSUME TypeInv, PromiseInv, w.pc \in Working
  PROVE  /\ w.pc \in Holding /\ w \in Workers /\ loc \in AgentRunRow /\ run \in AgentRunRow
         /\ Sound(loc) /\ Backed(loc, inv, user)
         /\ w.cur <= Len(loc.calls) /\ w.cur <= Len(run.calls)
         /\ w.code # "USER_STOPPED"
         /\ w.dec = "approve" => loc.confirmation_response = "approve"
<1>1. w.pc \in Holding
  BY DEF Working, Holding, WorkerPc
<1>2. Place(w, loc) /\ w.cur <= Len(run.calls)
  BY DEF PromiseInv, Worker
<1>3. w.cur <= Len(loc.calls) /\ w.code # "USER_STOPPED"
  BY <1>2 DEF Place
<1>4. w.dec = "approve" => loc.confirmation_response = "approve"
  BY <1>2 DEF Place
<1> QED BY <1>1, <1>2, <1>3, <1>4, WorkerFacts DEF PromiseInv, Rows

\* A reservation is a call that is not charged yet.
LEMMA ReservedEdit ==
  ASSUME TypeInv, PromiseInv
  PROVE  LET r == [loc EXCEPT !.calls = Append(@, "RUNNING")] IN
         /\ Edit(r) /\ r.confirmation_response = loc.confirmation_response
         /\ Len(r.calls) \in DOMAIN r.calls /\ r.calls[Len(r.calls)] = "RUNNING"
<1> DEFINE r == [loc EXCEPT !.calls = Append(@, "RUNNING")]
           n == Len(loc.calls) + 1
<1>1. loc \in AgentRunRow /\ Sound(loc) /\ Backed(loc, inv, user)
  BY WorkerFacts DEF PromiseInv, Rows
<1>2. loc.calls \in Seq(CallStatus) /\ "RUNNING" \in CallStatus
  BY <1>1, Zenon DEF AgentRunRow, CallStatus
<1>3. /\ Append(loc.calls, "RUNNING") \in Seq(CallStatus)
      /\ Len(Append(loc.calls, "RUNNING")) = n /\ n \in Nat /\ Len(loc.calls) \in Nat
      /\ DOMAIN Append(loc.calls, "RUNNING") = 1..n /\ DOMAIN loc.calls = 1..Len(loc.calls)
      /\ Append(loc.calls, "RUNNING")[n] = "RUNNING"
      /\ \A i \in 1..Len(loc.calls) : Append(loc.calls, "RUNNING")[i] = loc.calls[i]
  BY <1>2
<1>4. /\ r \in AgentRunRow /\ r.version = loc.version /\ Same(loc, r)
      /\ r.calls = Append(loc.calls, "RUNNING") /\ r.llm_tokens = loc.llm_tokens
      /\ r.tool_executions = loc.tool_executions /\ r.answered = loc.answered
      /\ r.pending_tool_call = loc.pending_tool_call
      /\ r.pending_execution = loc.pending_execution /\ r.status = loc.status
      /\ r.error_code = loc.error_code
      /\ r.confirmation_response = loc.confirmation_response
  BY <1>1, <1>3, Zenon DEF AgentRunRow, Same, CallStatus
<1> HIDE DEF r
<1>5. Outstanding(r) = Outstanding(loc) \cup {n} /\ n \notin Outstanding(loc)
  BY <1>3, <1>4 DEF Outstanding
<1>6. IsFiniteSet(Outstanding(loc))
  <2>1. IsFiniteSet(1..Len(loc.calls)) /\ Outstanding(loc) \in SUBSET (1..Len(loc.calls))
    BY <1>3, FS_Interval DEF Outstanding
  <2> QED BY <2>1, FS_Subset
<1>7. Cardinality(Outstanding(r)) = Cardinality(Outstanding(loc)) + 1
  BY <1>5, <1>6, FS_AddElement
<1>8. loc.llm_tokens \in Nat /\ Cardinality(Outstanding(loc)) \in Nat
  BY <1>1, RowNumbers, OutstandingType
<1>9. Budgeted(r)
  <2>1. Len(r.calls) = Len(loc.calls) + 1 /\ Len(loc.calls) \in Nat
    BY <1>3, <1>4
  <2>2. loc.llm_tokens + Cardinality(Outstanding(loc)) = Len(loc.calls)
    BY <1>1 DEF Sound, Budgeted
  <2>3. r.llm_tokens = loc.llm_tokens
    BY <1>4
  <2> QED BY <1>7, <1>8, <2>1, <2>2, <2>3 DEF Budgeted
<1>10. Charged(r) /\ Marked(r)
  BY <1>1, <1>4, ChargeSame, MarkSame DEF Sound
<1>11. Phased(r)
  BY <1>1, <1>4 DEF Sound, Phased, Asking
<1>12. Backed(r, inv, user)
  BY <1>1, <1>4 DEF Backed, Created, Approved
<1>13. Follows(loc, r)
  BY <1>3, <1>4, <1>8 DEF Follows, Same, Executed
<1>14. Stopped(r) => Stopped(loc)
  BY <1>4 DEF Stopped
<1> QED BY <1>3, <1>4, <1>9, <1>10, <1>11, <1>12, <1>13, <1>14 DEF Sound, Edit, r

\* The reservation of a model call is saved before the call.
LEMMA PromiseBeforeModel ==
  ASSUME TypeInv, FenceInv, PromiseInv, TypeInv', BeforeModel
  PROVE  PromiseInv' /\ Moves
<1>1. w.pc = "graph" /\ UNCHANGED external
  BY Zenon DEF BeforeModel, AtNode
<1>2. w.pc \in Working
  BY <1>1 DEF Working
<1>3. /\ w.pc \in Holding /\ w \in Workers /\ loc \in AgentRunRow
      /\ w.code # "USER_STOPPED"
      /\ w.dec = "approve" => loc.confirmation_response = "approve"
  BY <1>2, GraphCopy
<1>4. CASE Raise("FATAL")
  <2>1. Exit("fail", "FATAL") /\ UNCHANGED <<run, loc>>
    BY <1>4 DEF Raise
  <2> QED BY <1>1, <1>2, <2>1, RaisePromise
<1> DEFINE r == [loc EXCEPT !.calls = Append(@, "RUNNING")]
           next == [w EXCEPT !.pc = "calling", !.cur = Len(r.calls), !.att = @ + 1]
<1>5. /\ Edit(r) /\ r.confirmation_response = loc.confirmation_response
      /\ Len(r.calls) \in DOMAIN r.calls /\ r.calls[Len(r.calls)] = "RUNNING"
  BY ReservedEdit
<1>6. /\ next.pc = "calling" /\ next.cur = Len(r.calls) /\ next.dec = w.dec
      /\ next.code = w.code
  BY <1>3, Zenon DEF Workers
<1>7. Raise("FATAL") \/ Persist(r, next)
  BY DEF BeforeModel
<1> HIDE DEF r, next
<1>8. Len(r.calls) \in Nat
  BY <1>5, RowLengths DEF Edit
<1>9. Place(next, r) /\ next.cur <= Len(r.calls) /\ next.pc \notin {"inserted", "prepared"}
  BY <1>3, <1>5, <1>6, <1>8 DEF Place
<1> QED BY <1>1, <1>3, <1>4, <1>5, <1>7, <1>9, PersistPromise

\* Dropping the mark of the tool call.
LEMMA Unmark ==
  ASSUME NEW r \in AgentRunRow
  PROVE  LET q == [r EXCEPT !.pending_tool_call = None] IN
         /\ q \in AgentRunRow /\ Content(r, q) /\ q.version = r.version
         /\ q.pending_execution = r.pending_execution /\ q.status = r.status
         /\ q.confirmation_response = r.confirmation_response
         /\ q.error_code = r.error_code /\ q.question = r.question
         /\ q.pending_tool_call = None /\ q.observations = r.observations
         /\ q.answered = r.answered /\ q.calls = r.calls
BY Zenon DEF AgentRunRow, Content, Same

\* The answer of the model settles its call and may drop a stale marker.
LEMMA AnsweredEdit ==
  ASSUME TypeInv, PromiseInv, NEW r, Edit(r)
  PROVE  /\ Edit(Answered(r)) /\ Answered(r).calls = r.calls
         /\ Answered(r).confirmation_response = r.confirmation_response
<1> DEFINE q == [r EXCEPT !.pending_tool_call = None]
<1>1. r \in AgentRunRow /\ r.version = loc.version
  BY DEF Edit
<1>2. /\ q \in AgentRunRow /\ Content(r, q) /\ q.version = r.version
      /\ q.pending_execution = r.pending_execution /\ q.status = r.status
      /\ q.confirmation_response = r.confirmation_response
      /\ q.error_code = r.error_code /\ q.calls = r.calls
  BY <1>1, Unmark
<1>3. Answered(r) = r \/ Answered(r) = q
  BY DEF Answered
<1> HIDE DEF q
<1>4. Edit(q)
  BY <1>1, <1>2, EditOn
<1> QED BY <1>2, <1>3, <1>4

\* A call that was never seen is marked.
LEMMA MarkEdit ==
  ASSUME TypeInv, PromiseInv, NEW r, Edit(r), NEW c \in CallIds,
         r.pending_tool_call = None, r.observations[c] = "none"
  PROVE  LET q == [r EXCEPT !.pending_tool_call = c] IN
         /\ Edit(q) /\ q.calls = r.calls
         /\ q.confirmation_response = r.confirmation_response
<1> DEFINE q == [r EXCEPT !.pending_tool_call = c]
<1>1. /\ r \in AgentRunRow /\ r.version = loc.version
      /\ Sound(r) /\ Backed(r, inv, user) /\ Follows(loc, r) /\ (Stopped(r) => Stopped(loc))
  BY DEF Edit
<1>2. /\ q \in AgentRunRow /\ q.version = r.version /\ Same(r, q)
      /\ q.calls = r.calls /\ q.llm_tokens = r.llm_tokens
      /\ q.tool_executions = r.tool_executions /\ q.answered = r.answered
      /\ q.pending_tool_call = c
      /\ q.pending_execution = r.pending_execution /\ q.status = r.status
      /\ q.error_code = r.error_code
      /\ q.confirmation_response = r.confirmation_response
  BY <1>1, Zenon DEF AgentRunRow, Same
<1> HIDE DEF q
<1>3. Budgeted(q) /\ Charged(q)
  BY <1>1, <1>2, BudgetSame, ChargeSame DEF Sound
<1>4. Marked(q)
  BY <1>1, <1>2 DEF Sound, Marked, Same
<1>5. Phased(q)
  BY <1>1, <1>2 DEF Sound, Phased, Asking
<1>6. Backed(q, inv, user)
  BY <1>1, <1>2 DEF Backed, Created, Approved
<1>7. Follows(loc, q)
  BY <1>1, <1>2 DEF Follows, Same, Executed
<1>8. Stopped(q) => Stopped(loc)
  BY <1>1, <1>2 DEF Stopped
<1> QED BY <1>1, <1>2, <1>3, <1>4, <1>5, <1>6, <1>7, <1>8 DEF Sound, Edit, q

\* The answer of the model: a final text or one tool call.
LEMMA PromiseAnswer ==
  ASSUME TypeInv, FenceInv, PromiseInv, TypeInv', OnModel
  PROVE  PromiseInv' /\ Moves
<1>1. w.pc = "calling" /\ UNCHANGED external
  BY Zenon DEF OnModel
<1>2. w.pc \in Working /\ Place(w, loc)
  BY <1>1 DEF Working, PromiseInv, Worker
<1>3. /\ w.pc \in Holding /\ w \in Workers /\ loc \in AgentRunRow
      /\ w.code # "USER_STOPPED" /\ w.cur <= Len(loc.calls)
      /\ w.dec = "approve" => loc.confirmation_response = "approve"
  BY <1>2, GraphCopy
<1> DEFINE s == Settled(loc, "SUCCEEDED")
           r == Answered(s)
           Next1(pos) == IF r.llm_tokens >= MaxTokens
                           THEN Left(w, "fail", "FATAL")
                           ELSE [w EXCEPT !.pc = "graph", !.pos = pos, !.att = 0]
<1>4. /\ Edit(s) /\ Len(s.calls) = Len(loc.calls)
      /\ s.confirmation_response = loc.confirmation_response
  BY <1>1, <1>2, SettledEdit DEF Place
<1>5. /\ Edit(r) /\ Len(r.calls) = Len(loc.calls)
      /\ r.confirmation_response = loc.confirmation_response
  BY <1>4, AnsweredEdit
<1>6. ASSUME NEW pos, NEW q, Len(q.calls) = Len(loc.calls),
             q.confirmation_response = loc.confirmation_response
      PROVE  /\ Place(Next1(pos), q) /\ Next1(pos).cur <= Len(q.calls)
             /\ Next1(pos).pc \notin {"inserted", "prepared"}
  <2> DEFINE v == [w EXCEPT !.pc = "graph", !.pos = pos, !.att = 0]
             u == Left(w, "fail", "FATAL")
  <2>1. v.pc = "graph" /\ v.cur = w.cur /\ v.dec = w.dec /\ v.code = w.code
    BY <1>3, Zenon DEF Workers
  <2>2. u.pc = "fail" /\ u.cur = w.cur /\ Place(u, q)
    BY <1>3, <1>6, GoFacts, PlaceLeft
  <2>3. Next1(pos) = v \/ Next1(pos) = u
    OBVIOUS
  <2> HIDE DEF v, u, Next1
  <2>4. Place(v, q)
    BY <1>3, <1>6, <2>1, PlaceGraph
  <2> QED BY <1>3, <1>6, <2>1, <2>2, <2>3, <2>4
<1>7. \/ Persist(r, Next1(At("final")))
      \/ /\ Exit("fail", "FATAL")
         /\ loc' = r /\ UNCHANGED <<run, msgs, sys>>
      \/ \E c \in CallIds :
           /\ r.pending_tool_call = None /\ r.observations[c] = "none"
           /\ Persist([r EXCEPT !.pending_tool_call = c], Next1(AtTool(c)))
  BY DEF OnModel
<1> HIDE DEF s, r, Next1
<1>8. CASE Persist(r, Next1(At("final")))
  BY <1>1, <1>3, <1>5, <1>6, <1>8, PersistPromise
<1>9. CASE Exit("fail", "FATAL") /\ loc' = r /\ run' = run
  <2>1. w' = Left(w, "fail", "FATAL") /\ Attempt(r)
    BY <1>9 DEF Exit, Attempt
  <2>2. w'.pc = "fail" /\ Place(w', r)
    BY <1>3, <1>5, <2>1, GoFacts, PlaceLeft
  <2> QED BY <1>1, <1>3, <1>5, <2>1, <2>2, LeavesKeep DEF Working
<1>10. ASSUME NEW c \in CallIds, r.pending_tool_call = None, r.observations[c] = "none",
              Persist([r EXCEPT !.pending_tool_call = c], Next1(AtTool(c)))
       PROVE  PromiseInv' /\ Moves
  <2> DEFINE q == [r EXCEPT !.pending_tool_call = c]
  <2>1. Edit(q) /\ q.calls = r.calls /\ q.confirmation_response = r.confirmation_response
    BY <1>5, <1>10, MarkEdit
  <2> HIDE DEF q
  <2>2. /\ Place(Next1(AtTool(c)), q) /\ Next1(AtTool(c)).cur <= Len(q.calls)
        /\ Next1(AtTool(c)).pc \notin {"inserted", "prepared"}
    BY <1>5, <1>6, <2>1
  <2>3. Persist(q, Next1(AtTool(c)))
    BY <1>10 DEF q
  <2> QED BY <1>1, <1>3, <2>1, <2>2, <2>3, PersistPromise
<1> QED BY <1>7, <1>8, <1>9, <1>10

\* A failed model call is charged, then retried, paused or ended.
LEMMA PromiseModelFailure ==
  ASSUME TypeInv, FenceInv, PromiseInv, TypeInv', NEW code, code # "USER_STOPPED",
         NEW retry \in BOOLEAN, ModelFailure(code, retry)
  PROVE  PromiseInv' /\ Moves
<1> DEFINE r == Settled(loc, "FAILED")
<1>1. w.pc = "calling" /\ UNCHANGED external
  BY Zenon DEF ModelFailure
<1>2. w.pc \in Working /\ Place(w, loc)
  BY <1>1 DEF Working, PromiseInv, Worker
<1>3. /\ w.pc \in Holding /\ w \in Workers /\ w' \in Workers
      /\ w.code # "USER_STOPPED" /\ w.cur <= Len(loc.calls) /\ w.cur <= Len(run.calls)
      /\ w.dec = "approve" => loc.confirmation_response = "approve"
  BY <1>2, GraphCopy, WorkerFacts DEF TypeInv, TypeOK
<1>4. inv' = inv /\ drives' = drives /\ user' = user /\ rt' = rt
  BY <1>1, Zenon DEF external
<1>5. /\ Edit(r) /\ Len(r.calls) = Len(loc.calls) /\ InStep(loc, r)
      /\ r.confirmation_response = loc.confirmation_response
  BY <1>1, <1>2, SettledEdit DEF Place, InStep
<1>6. Attempt(r)
  BY AttemptCases DEF ModelFailure
<1>7. w' \in {Go("graph"), Left(w, "fail", code), Left(w, "fail", "DEPENDENCY_UNAVAILABLE")}
  BY DEF ModelFailure, Broken
<1> HIDE DEF r
<1>8. CASE w' = Go("graph")
  <2>1. w'.pc = "graph" /\ w'.cur = w.cur /\ w'.dec = w.dec /\ w'.code = w.code
    BY <1>3, <1>8, GoFacts
  <2>2. Place(w', r)
    BY <1>3, <1>5, <2>1, PlaceGraph
  <2>3. Receipt'
    BY <1>3, <1>4, <1>5, <1>6, AttemptReceipt
  <2> QED BY <1>2, <1>3, <1>4, <1>5, <1>6, <2>1, <2>2, <2>3, EditKeeps
<1>9. CASE w' \in {Left(w, "fail", code), Left(w, "fail", "DEPENDENCY_UNAVAILABLE")}
  <2>1. w'.pc = "fail" /\ Place(w', r)
    BY <1>3, <1>5, <1>9, GoFacts, PlaceLeft
  <2> QED BY <1>1, <1>3, <1>5, <1>6, <2>1, LeavesKeep DEF Working
<1> QED BY <1>7, <1>8, <1>9

\* The tool node returns to the model, or leaves the graph.
LEMMA MessagePlace ==
  ASSUME w \in Workers, w.code # "USER_STOPPED", NEW r, w.cur <= Len(r.calls),
         w.dec = "approve" => r.confirmation_response = "approve", NEW c, NEW out
  PROVE  /\ Place(Message(c, out), r) /\ Message(c, out).pc \in {"graph", "fail"}
         /\ Message(c, out).cur = w.cur /\ Message(c, out).cur <= Len(r.calls)
<1>1. Message(c, out) = ToolDone \/ Message(c, out) = Left(w, "fail", "FATAL")
  BY DEF Message
<1>2. /\ ToolDone.pc = "graph" /\ ToolDone.cur = w.cur /\ ToolDone.dec = w.dec
      /\ ToolDone.code = w.code
      /\ Left(w, "fail", "FATAL").pc = "fail" /\ Left(w, "fail", "FATAL").cur = w.cur
  BY GoFacts
<1>3. Place(ToolDone, r) /\ Place(Left(w, "fail", "FATAL"), r)
  BY <1>2, PlaceGraph, PlaceLeft
<1> QED BY <1>1, <1>2, <1>3

\* What is outside the row stays while nothing happens to it.
LEMMA OutsideSame ==
  ASSUME PromiseInv, run' = run, UNCHANGED external
  PROVE  Outside' /\ inv' = inv /\ user' = user /\ drives' = drives /\ rt' = rt
<1>1. inv' = inv /\ user' = user /\ drives' = drives /\ rt' = rt
  BY Zenon DEF external
<1> QED BY <1>1 DEF PromiseInv, Outside, Invocations, Receipt, ReceiptFaithful, Stopping,
   StopClosesPreparation

\* A step inside the graph that writes nothing.
LEMMA StayPromise ==
  ASSUME TypeInv, PromiseInv, run' = run, loc' = loc, UNCHANGED external,
         w.pc \in Working, Place(w', loc), w'.pc \notin {"inserted", "prepared"},
         w'.pc \in Holding => w'.cur = w.cur
  PROVE  PromiseInv' /\ Moves
<1>1. Outside' /\ inv' = inv /\ user' = user
  BY OutsideSame
<1>2. w.pc \in Holding /\ (w'.pc \in Working => w'.pc \in Holding)
  BY DEF Working, Holding, WorkerPc
<1> QED BY <1>1, <1>2, LocalPromise, DecidesSelf

\* A replayed tool node returns what the row knows, or refuses another call.
LEMMA PromiseReplay ==
  ASSUME TypeInv, FenceInv, PromiseInv, TypeInv',
         ReplayCompleted \/ ReplayAnswered \/ SourceMismatch
  PROVE  PromiseInv' /\ Moves
<1>1. w.pc = "graph" /\ UNCHANGED external
  BY Zenon DEF ReplayCompleted, ReplayAnswered, SourceMismatch, Fresh, AtNode
<1>2. w.pc \in Working
  BY <1>1 DEF Working
<1>3. /\ w.pc \in Holding /\ w \in Workers /\ loc \in AgentRunRow
      /\ w.code # "USER_STOPPED" /\ w.cur <= Len(loc.calls)
      /\ w.dec = "approve" => loc.confirmation_response = "approve"
  BY <1>2, GraphCopy
<1>4. CASE SourceMismatch
  <2>1. Exit("fail", "FATAL") /\ UNCHANGED <<run, loc>>
    BY <1>4 DEF SourceMismatch, Raise
  <2> QED BY <1>1, <1>2, <2>1, RaisePromise
<1>5. CASE ReplayAnswered
  <2>1. w' = ToolDone /\ run' = run /\ loc' = loc
    BY <1>5 DEF ReplayAnswered
  <2>2. w'.pc = "graph" /\ w'.cur = w.cur /\ w'.dec = w.dec /\ w'.code = w.code
    BY <1>3, <2>1, GoFacts
  <2>3. Place(w', loc)
    BY <1>3, <2>2, PlaceGraph
  <2> QED BY <1>1, <1>2, <2>1, <2>2, <2>3, StayPromise
<1>6. CASE ReplayCompleted
  <2> DEFINE out == loc.observations[Call]
             r == [loc EXCEPT !.pending_tool_call = None]
  <2>1. \/ Persist(r, Message(Call, out))
        \/ w' = Message(Call, out) /\ run' = run /\ loc' = loc
    BY <1>6 DEF ReplayCompleted, Done
  <2>2. /\ r \in AgentRunRow /\ Content(loc, r) /\ r.version = loc.version
        /\ r.pending_execution = loc.pending_execution /\ r.status = loc.status
        /\ r.confirmation_response = loc.confirmation_response
        /\ r.error_code = loc.error_code /\ r.calls = loc.calls
    BY <1>3, Unmark
  <2> HIDE DEF r, out
  <2>3. Edit(r)
    BY <2>2, EditContent
  <2>4. CASE Persist(r, Message(Call, out))
    <3>1. /\ Place(Message(Call, out), r) /\ Message(Call, out).pc \notin {"inserted", "prepared"}
          /\ Message(Call, out).cur <= Len(r.calls)
      BY <1>3, <2>2, MessagePlace
    <3> QED BY <1>1, <1>3, <2>3, <2>4, <3>1, PersistPromise
  <2>5. CASE w' = Message(Call, out) /\ run' = run /\ loc' = loc
    <3>1. Place(w', loc) /\ w'.pc \notin {"inserted", "prepared"} /\ w'.cur = w.cur
      BY <1>3, <2>5, MessagePlace
    <3> QED BY <1>1, <1>2, <2>5, <3>1, StayPromise
  <2> QED BY <2>1, <2>4, <2>5
<1> QED BY <1>4, <1>5, <1>6

\* At the tool node: the call, and what the row says of it.
LEMMA AtTheTool ==
  ASSUME TypeInv, FenceInv, PromiseInv, Handling
  PROVE  /\ w.pc = "graph" /\ w.pc \in Working /\ Call \in CallIds /\ Call # None
         /\ loc.pending_tool_call = Call /\ loc.answered[Call] = None
         /\ loc.observations[Call] = "none" /\ ~Executed(loc, Call)
         /\ loc.status = "RUNNING" /\ loc.error_code # "USER_STOPPED"
<1>1. /\ w.pc = "graph" /\ w.pos.node = "tools" /\ ~Executed(loc, Call)
      /\ loc.answered[Call] = None /\ loc.pending_tool_call = Call
  BY Zenon DEF Handling, Fresh, AtNode
<1>2. w.pos \in Positions
  BY WorkerFacts, WorkerPlaces
<1>3. Call \in CallIds
  BY <1>1, <1>2 DEF Positions, At, AtTool, Call
<1>4. loc \in AgentRunRow /\ Sound(loc)
  BY WorkerFacts DEF PromiseInv, Rows
<1>5. loc.observations[Call] \in Observations
  BY <1>3, <1>4, Zenon DEF AgentRunRow
<1>6. loc.observations[Call] = "none"
  BY <1>1, <1>3, <1>4, <1>5 DEF Executed, Observations, Sound, Marked
<1>7. loc.status = "RUNNING"
  BY <1>1 DEF FenceInv, WorkerHolds, Working
<1>8. loc.error_code # "USER_STOPPED"
  BY <1>4, <1>7 DEF Sound, Phased
<1> QED BY <1>1, <1>3, <1>6, <1>7, <1>8, CallAssumption DEF Working

\* An edit of the open question: replies are added, never taken back.
LEMMA EditReply ==
  ASSUME TypeInv, PromiseInv, NEW r \in AgentRunRow, r.version = loc.version, Same(loc, r),
         r.calls = loc.calls, r.llm_tokens = loc.llm_tokens,
         r.tool_executions = loc.tool_executions,
         r.pending_tool_call = loc.pending_tool_call \/ r.pending_tool_call = None,
         r.pending_execution = loc.pending_execution,
         r.confirmation_response = loc.confirmation_response,
         r.status = loc.status, r.error_code = loc.error_code,
         \A c \in CallIds : loc.answered[c] # None => r.answered[c] = loc.answered[c]
  PROVE  Edit(r)
<1>1. loc \in AgentRunRow /\ Sound(loc) /\ Backed(loc, inv, user)
  BY WorkerFacts DEF PromiseInv, Rows
<1>2. Budgeted(r) /\ Charged(r) /\ Marked(r)
  BY <1>1, BudgetSame, ChargeSame, MarkSame DEF Sound
<1>3. Phased(r)
  BY <1>1 DEF Sound, Phased, Asking
<1>4. Backed(r, inv, user)
  BY <1>1 DEF Backed, Created, Approved
<1>5. loc.llm_tokens \in Nat /\ Len(loc.calls) \in Nat
  BY <1>1, RowNumbers, RowLengths
<1>6. Follows(loc, r)
  BY <1>5 DEF Follows, Same, Executed
<1>7. Stopped(r) => Stopped(loc)
  BY DEF Stopped
<1> QED BY <1>2, <1>3, <1>4, <1>6, <1>7 DEF Edit, Sound

\* ask_user posts its question, waits, or takes the reply.
LEMMA PromiseAsk ==
  ASSUME TypeInv, FenceInv, PromiseInv, TypeInv', AskUser
  PROVE  PromiseInv' /\ Moves
<1>1. Handling /\ UNCHANGED external
  BY Zenon DEF AskUser
<1>2. /\ w.pc = "graph" /\ w.pc \in Working /\ Call \in CallIds /\ Call # None
      /\ loc.pending_tool_call = Call /\ loc.answered[Call] = None
      /\ loc.status = "RUNNING" /\ loc.error_code # "USER_STOPPED"
  BY <1>1, AtTheTool
<1>3. /\ w.pc \in Holding /\ w \in Workers /\ loc \in AgentRunRow
      /\ w.code # "USER_STOPPED" /\ w.cur <= Len(loc.calls)
      /\ w.dec = "approve" => loc.confirmation_response = "approve"
  BY <1>2, GraphCopy
<1> DEFINE r == [loc EXCEPT !.question = Call, !.waiting_version = @ + 1,
                   !.pending_message = "question", !.status = "WAITING_FOR_USER"]
           d == Done(loc, Call)
           q == [d EXCEPT !.answered[Call] = loc.last_reply, !.question = None]
           next == [ToolDone EXCEPT !.dec = "none"]
           v == Go("interrupted")
<1>4. /\ v.pc = "interrupted" /\ v.cur = w.cur /\ v.dec = w.dec /\ v.code = w.code
  BY <1>3, GoFacts
<1>5. \/ loc.question = None /\ Persist(r, v)
      \/ loc.question # None /\ w' = v /\ run' = run /\ loc' = loc
      \/ Persist(q, next)
  BY DEF AskUser
<1>6. CASE loc.question = None /\ Persist(r, v)
  <2>1. /\ r \in AgentRunRow /\ Content(loc, r) /\ r.version = loc.version
        /\ r.pending_execution = loc.pending_execution
        /\ r.confirmation_response = loc.confirmation_response
        /\ r.error_code = loc.error_code /\ r.calls = loc.calls
        /\ r.status = "WAITING_FOR_USER" /\ r.question = Call
    <3>1. /\ loc.waiting_version + 1 \in Nat /\ Call \in CallIds \cup {None}
          /\ "WAITING_FOR_USER" \in Status
      BY <1>2, <1>3, RowNumbers, Members
    <3>2. r \in AgentRunRow
      BY <1>3, <3>1, Zenon DEF AgentRunRow
    <3>3. /\ Same(loc, r) /\ r.calls = loc.calls /\ r.llm_tokens = loc.llm_tokens
          /\ r.tool_executions = loc.tool_executions /\ r.answered = loc.answered
          /\ r.pending_tool_call = loc.pending_tool_call
          /\ r.pending_execution = loc.pending_execution /\ r.version = loc.version
          /\ r.confirmation_response = loc.confirmation_response
          /\ r.error_code = loc.error_code
          /\ r.status = "WAITING_FOR_USER" /\ r.question = Call
      BY <1>3, Zenon DEF AgentRunRow, Same
    <3> QED BY <3>2, <3>3 DEF Content
  <2> HIDE DEF r, v, next
  <2>2. Edit(r)
    BY <1>2, <2>1, EditContent
  <2>3. Place(v, r)
    BY <1>2, <1>3, <1>4, <2>1 DEF Place
  <2> QED BY <1>1, <1>3, <1>4, <1>6, <2>1, <2>2, <2>3, PersistPromise
<1>7. CASE loc.question # None /\ w' = v /\ run' = run /\ loc' = loc
  <2> HIDE DEF r, v, next
  <2>1. Place(v, loc)
    BY <1>2, <1>3, <1>4, <1>7 DEF Place
  <2> QED BY <1>1, <1>2, <1>4, <1>7, <2>1, StayPromise
<1>8. CASE Persist(q, next)
  <2>1. /\ d \in AgentRunRow /\ Content(loc, d) /\ d.version = loc.version
        /\ d.pending_execution = loc.pending_execution /\ d.status = loc.status
        /\ d.confirmation_response = loc.confirmation_response
        /\ d.error_code = loc.error_code /\ d.calls = loc.calls
        /\ d.answered = loc.answered
    BY <1>2, <1>3, Unmark DEF Done
  <2>2. loc.last_reply \in CallIds \cup {None} /\ loc.answered \in [CallIds -> CallIds \cup {None}]
    BY <1>3, Zenon DEF AgentRunRow
  <2> HIDE DEF d
  <2>3. /\ q \in AgentRunRow /\ q.version = d.version /\ Same(d, q)
        /\ q.calls = d.calls /\ q.llm_tokens = d.llm_tokens
        /\ q.tool_executions = d.tool_executions
        /\ q.pending_tool_call = d.pending_tool_call
        /\ q.pending_execution = d.pending_execution
        /\ q.confirmation_response = d.confirmation_response
        /\ q.status = d.status /\ q.error_code = d.error_code
        /\ q.answered = [d.answered EXCEPT ![Call] = loc.last_reply]
    BY <2>1, <2>2, Zenon DEF AgentRunRow, Same
  <2> HIDE DEF q
  <2>4. \A c \in CallIds : loc.answered[c] # None => q.answered[c] = loc.answered[c]
    BY <1>2, <2>1, <2>2, <2>3
  <2>5. /\ Same(loc, q) /\ q.calls = loc.calls /\ q.llm_tokens = loc.llm_tokens
        /\ q.tool_executions = loc.tool_executions
        /\ q.pending_tool_call = loc.pending_tool_call \/ q.pending_tool_call = None
    BY <2>1, <2>3 DEF Content, Same
  <2>6. Edit(q)
    BY <2>1, <2>3, <2>4, <2>5, EditReply
  <2>7. next.pc = "graph" /\ next.cur = w.cur /\ next.dec = "none" /\ next.code = w.code
    BY <1>3, Zenon DEF Workers, ToolDone
  <2> HIDE DEF next
  <2>8. Place(next, q) /\ next.cur <= Len(q.calls) /\ next.pc \notin {"inserted", "prepared"}
    BY <1>3, <2>1, <2>3, <2>7, PlaceGraph
  <2> QED BY <1>1, <1>3, <1>8, <2>6, <2>8, PersistPromise
<1> QED BY <1>5, <1>6, <1>7, <1>8

\* An edit of the execution record.
LEMMA EditRecord ==
  ASSUME TypeInv, PromiseInv, NEW r \in AgentRunRow, r.version = loc.version,
         r.calls = loc.calls, r.llm_tokens = loc.llm_tokens,
         r.observations = loc.observations, r.answered = loc.answered,
         loc.pending_execution.call # None =>
           r.pending_execution.call = loc.pending_execution.call,
         loc.pending_execution.dispatched => r.pending_execution.dispatched,
         loc.pending_execution.prepared => r.pending_execution.prepared,
         Charged(r), Marked(r), Phased(r), Backed(r, inv, user), ~Stopped(r)
  PROVE  Edit(r)
<1>1. loc \in AgentRunRow /\ Sound(loc)
  BY WorkerFacts DEF PromiseInv, Rows
<1>2. Budgeted(r)
  BY <1>1, BudgetSame DEF Sound
<1>3. loc.llm_tokens \in Nat /\ Len(loc.calls) \in Nat
  BY <1>1, RowNumbers, RowLengths
<1>4. Follows(loc, r)
  BY <1>3 DEF Follows, Executed
<1> QED BY <1>2, <1>4 DEF Edit, Sound

\* Argument resolution reports missing input or creates the record.
LEMMA PromiseResolve ==
  ASSUME TypeInv, FenceInv, PromiseInv, TypeInv', Resolve
  PROVE  PromiseInv' /\ Moves
<1>1. Handling /\ UNCHANGED external /\ loc.pending_execution.call = None
  BY Zenon DEF Resolve
<1>2. /\ w.pc = "graph" /\ w.pc \in Working /\ Call \in CallIds /\ Call # None
      /\ loc.pending_tool_call = Call /\ loc.observations[Call] = "none"
      /\ loc.status = "RUNNING" /\ loc.error_code # "USER_STOPPED"
  BY <1>1, AtTheTool
<1>3. /\ w.pc \in Holding /\ w \in Workers /\ loc \in AgentRunRow /\ Sound(loc)
      /\ Backed(loc, inv, user)
      /\ w.code # "USER_STOPPED" /\ w.cur <= Len(loc.calls)
      /\ w.dec = "approve" => loc.confirmation_response = "approve"
  BY <1>2, GraphCopy
<1>4. /\ ~loc.pending_execution.prepared /\ ~loc.pending_execution.dispatched
      /\ loc.confirmation_response = "none"
  BY <1>1, <1>3, CallAssumption DEF Sound, Phased, Asking
<1> DEFINE d == Done(loc, Call)
           r == [d EXCEPT !.observations[Call] = "NEEDS_INPUT"]
           e == [NoExecution EXCEPT !.call = Call]
           q == [loc EXCEPT !.pending_execution = e]
           v == Go("graph")
<1>5. /\ v.pc = "graph" /\ v.cur = w.cur /\ v.dec = w.dec /\ v.code = w.code
      /\ ToolDone.pc = "graph" /\ ToolDone.cur = w.cur /\ ToolDone.dec = w.dec
      /\ ToolDone.code = w.code
  BY <1>3, GoFacts
<1>6. \/ Persist(r, ToolDone) \/ Raise("FATAL")
      \/ loc.tool_executions < MaxToolExecutions /\ Persist(q, v)
  BY DEF Resolve
<1>7. CASE Raise("FATAL")
  <2>1. Exit("fail", "FATAL") /\ UNCHANGED <<run, loc>>
    BY <1>7 DEF Raise
  <2> QED BY <1>1, <1>2, <2>1, RaisePromise
<1>8. CASE Persist(r, ToolDone)
  <2>1. /\ d \in AgentRunRow /\ Content(loc, d) /\ d.version = loc.version
        /\ d.pending_execution = loc.pending_execution /\ d.status = loc.status
        /\ d.confirmation_response = loc.confirmation_response
        /\ d.error_code = loc.error_code /\ d.calls = loc.calls
        /\ d.answered = loc.answered /\ d.observations = loc.observations
        /\ d.pending_tool_call = None
    BY <1>2, <1>3, Unmark DEF Done
  <2> HIDE DEF d
  <2>2. /\ r \in AgentRunRow /\ r.version = d.version
        /\ r.calls = d.calls /\ r.llm_tokens = d.llm_tokens /\ r.answered = d.answered
        /\ r.tool_executions = d.tool_executions
        /\ r.pending_tool_call = d.pending_tool_call
        /\ r.pending_execution = d.pending_execution
        /\ r.confirmation_response = d.confirmation_response
        /\ r.status = d.status /\ r.error_code = d.error_code
        /\ r.observations = [d.observations EXCEPT ![Call] = "NEEDS_INPUT"]
    BY <1>2, <2>1, Members, Zenon DEF AgentRunRow
  <2>3. loc.observations \in [CallIds -> Observations]
    BY <1>3, Zenon DEF AgentRunRow
  <2> HIDE DEF r
  <2>4. \A c \in CallIds : r.observations[c] = IF c = Call THEN "NEEDS_INPUT" ELSE loc.observations[c]
    BY <2>1, <2>2, <2>3
  <2>5. r.pending_execution = loc.pending_execution /\ r.pending_tool_call = None
    BY <2>1, <2>2
  <2>6. \A c \in CallIds : Executed(r, c) <=> Executed(loc, c)
    BY <1>2, <2>4 DEF Executed, Outcomes
  <2>7. \A c \in CallIds : Fenced(r, c) <=> Fenced(loc, c)
    BY <2>5, <2>6 DEF Fenced, Dispatched
  <2>8. FencedCalls(r) = FencedCalls(loc)
    BY <2>7 DEF FencedCalls
  <2>9. Charged(r)
    BY <1>3, <2>1, <2>2, <2>8 DEF Charged, Content, Sound
  <2>10. Marked(r)
    BY <1>1, <2>5, CallAssumption DEF Marked
  <2>11. Phased(r)
    BY <1>3, <2>1, <2>2 DEF Phased, Asking, Sound
  <2>12. Backed(r, inv, user) /\ ~Stopped(r) /\ Budgeted(r)
    <3>1. r.calls = loc.calls /\ r.llm_tokens = loc.llm_tokens
      BY <2>1, <2>2 DEF Content
    <3>2. Budgeted(r)
      BY <1>3, <3>1, BudgetSame DEF Sound
    <3>3. ~Stopped(r)
      BY <1>2, <2>1, <2>2 DEF Stopped
    <3>4. Backed(r, inv, user)
      BY <1>3, <1>4, <2>1, <2>2 DEF Backed, Created, Approved, Content
    <3> QED BY <3>2, <3>3, <3>4
  <2>13. Follows(loc, r)
    <3>1. loc.llm_tokens \in Nat /\ Len(loc.calls) \in Nat
      BY <1>3, RowNumbers, RowLengths
    <3> QED BY <1>2, <2>1, <2>2, <2>4, <2>5, <2>6, <3>1 DEF Follows, Content
  <2>14. Edit(r)
    BY <2>1, <2>2, <2>9, <2>10, <2>11, <2>12, <2>13 DEF Edit, Sound
  <2>15. Place(ToolDone, r) /\ ToolDone.cur <= Len(r.calls)
    BY <1>3, <1>5, <2>1, <2>2, PlaceGraph
  <2> QED BY <1>1, <1>3, <1>5, <1>8, <2>14, <2>15, PersistPromise
<1>9. CASE Persist(q, v)
  <2>1. /\ e \in ExecutionRecord /\ e.call = Call /\ ~e.prepared /\ ~e.dispatched
        /\ ~e.confirmed
    BY <1>2, Members, Zenon DEF NoExecution, ExecutionRecord
  <2> HIDE DEF e
  <2>2. /\ q \in AgentRunRow /\ q.version = loc.version
        /\ q.calls = loc.calls /\ q.llm_tokens = loc.llm_tokens /\ q.answered = loc.answered
        /\ q.tool_executions = loc.tool_executions
        /\ q.pending_tool_call = loc.pending_tool_call
        /\ q.pending_execution = e
        /\ q.confirmation_response = loc.confirmation_response
        /\ q.status = loc.status /\ q.error_code = loc.error_code
        /\ q.observations = loc.observations
    BY <1>3, <2>1, Zenon DEF AgentRunRow
  <2> HIDE DEF q, v
  <2>3. FencedCalls(q) = FencedCalls(loc)
    BY <1>4, <2>1, <2>2 DEF FencedCalls, Fenced, Dispatched, Executed
  <2>4. Charged(q)
    BY <1>3, <2>2, <2>3 DEF Charged, Sound
  <2>5. Marked(q)
    BY <1>2, <1>3, <2>1, <2>2 DEF Marked, Sound
  <2>6. Phased(q) /\ ~Stopped(q) /\ Backed(q, inv, user)
    BY <1>2, <1>4, <2>1, <2>2 DEF Phased, Stopped, Backed, Created, Approved
  <2>7. Edit(q)
    BY <1>1, <1>4, <2>1, <2>2, <2>4, <2>5, <2>6, EditRecord
  <2>8. Place(v, q) /\ v.cur <= Len(q.calls)
    BY <1>3, <1>5, <2>2, PlaceGraph
  <2> QED BY <1>1, <1>3, <1>5, <1>9, <2>7, <2>8, PersistPromise
<1> QED BY <1>6, <1>7, <1>8, <1>9

\* Only an active owner creates an Invocation: the row is the copy's, and runs.
LEMMA OwnerRow ==
  ASSUME TypeInv, PromiseInv, w.pc \in Working, OwnerActive(loc.version, loc.claim)
  PROVE  /\ run.status = "RUNNING" /\ ~Stopped(run) /\ Follows(run, loc)
         /\ run.pending_execution.call = loc.pending_execution.call
BY DEF OwnerActive, Stopped, PromiseInv, Copy, InStep, Working, Holding, WorkerPc

\* Where the two transactions of prepare find the worker.
LEMMA PreparePlace ==
  ASSUME TypeInv, FenceInv, PromiseInv, Prepare \/ Authorize
  PROVE  /\ w.pc \in {"graph", "inserted"} /\ w.pc \in Working /\ Call \in CallIds
         /\ loc.pending_execution.call = Call /\ ~loc.pending_execution.prepared
         /\ Authorize => inv[Call] \notin {"none", "DENIED"}
<1>1. CASE Prepare
  <2>1. /\ Ready /\ ~Record.prepared /\ w.pc = "graph" /\ (Authorize => w.pc = "inserted")
    BY <1>1, PrepareShape, Zenon
  <2>2. Handling /\ loc.pending_execution.call = Call /\ ~loc.pending_execution.prepared
    BY <2>1, Zenon DEF Ready, Record
  <2> QED BY <2>1, <2>2, AtTheTool
<1>2. CASE Authorize
  <2>1. w.pc = "inserted"
    BY <1>2, PrepareShape, Zenon
  <2>2. w.pc \in Working
    BY <2>1 DEF Working
  <2>3. Place(w, loc) /\ inv[Call] \notin {"none", "DENIED"}
    BY <2>1 DEF PromiseInv, Worker, Call
  <2> QED BY <2>1, <2>2, <2>3 DEF Place, Call
<1> QED BY <1>1, <1>2

\* An Invocation is inserted or authorized for the call the row is at, which has
\* no prepared record yet.
LEMMA RecreatedFacts ==
  ASSUME TypeInv, FenceInv, PromiseInv, Prepare \/ Authorize, NEW s, Recreated(s)
  PROVE  /\ ~Stopped(run) /\ run.status = "RUNNING" /\ run.pending_execution.call = Call
         /\ ~run.pending_execution.prepared
         /\ \A c \in CallIds : inv'[c] = IF c = Call THEN s ELSE inv[c]
         /\ inv[Call] \in {"none", "PENDING"}
         /\ s \in {"DENIED", "PENDING", "PENDING_CONFIRMATION"}
         /\ s = "PENDING_CONFIRMATION" => KindOf[Call] = "confirm"
         /\ Authorize /\ s = "PENDING" => KindOf[Call] # "confirm"
         /\ Prepare => inv[Call] = "none" /\ s = "PENDING"
<1>1. /\ w.pc \in Working /\ Call \in CallIds /\ ~loc.pending_execution.prepared
      /\ loc.pending_execution.call = Call
  BY PreparePlace
<1>2. /\ run.status = "RUNNING" /\ ~Stopped(run) /\ Follows(run, loc)
      /\ run.pending_execution.call = loc.pending_execution.call
  BY <1>1, OwnerRow DEF Recreated
<1>3. ~run.pending_execution.prepared
  BY <1>1, <1>2 DEF Follows
<1>4. inv \in [CallIds -> InvocationStatus] /\ inv' = [inv EXCEPT ![Call] = s]
  BY DEF TypeInv, TypeOK, Recreated
<1>5. Prepare => ~Authorize
  BY PrepareShape
<1>6. /\ inv[Call] \in {"none", "PENDING"}
      /\ s \in {"DENIED", "PENDING", "PENDING_CONFIRMATION"}
      /\ s = "PENDING_CONFIRMATION" => KindOf[Call] = "confirm"
      /\ Authorize /\ s = "PENDING" => KindOf[Call] # "confirm"
      /\ Prepare => inv[Call] = "none" /\ s = "PENDING"
  BY <1>5 DEF Recreated, Authorized
<1> QED BY <1>1, <1>2, <1>3, <1>4, <1>6

\* tools.prepare inserts the Invocation of the call and authorizes it, or finds it.
LEMMA PromisePrepare ==
  ASSUME TypeInv, FenceInv, PromiseInv, TypeInv', Prepare \/ Authorize
  PROVE  PromiseInv' /\ Moves
<1>1. /\ w.pc \in Working /\ Call \in CallIds
      /\ loc.pending_execution.call = Call /\ ~loc.pending_execution.prepared
      /\ Authorize => inv[Call] \notin {"none", "DENIED"}
  BY PreparePlace
<1>2. /\ w.pc \in Holding /\ w \in Workers /\ w.code # "USER_STOPPED"
      /\ w.cur <= Len(loc.calls) /\ w.cur <= Len(run.calls)
      /\ inv \in [CallIds -> InvocationStatus]
      /\ w.dec = "approve" => loc.confirmation_response = "approve"
  BY <1>1, GraphCopy DEF TypeInv, TypeOK
<1>3. run' = run /\ loc' = loc /\ rt' = rt /\ user' = user /\ drives' = drives
  BY PrepareShape, Zenon
<1>4. inv' = inv \/ \E s : Recreated(s)
  BY PrepareShape, Zenon
<1>5. /\ Outside'
      /\ Created(run, inv', user') /\ Created(loc, inv', user')
  <2>1. Created(run, inv, user) /\ Created(loc, inv, user) /\ Phased(run) /\ Phased(loc)
    BY DEF PromiseInv, Rows, Backed, Sound
  <2>2. CASE inv' = inv
    BY <1>3, <2>1, <2>2 DEF PromiseInv, Outside, Invocations, Receipt, ReceiptFaithful,
       Stopping, StopClosesPreparation
  <2>3. ASSUME NEW s, Recreated(s)
        PROVE  Outside' /\ Created(run, inv', user') /\ Created(loc, inv', user')
    <3>1. /\ ~Stopped(run) /\ run.pending_execution.call = Call
          /\ ~run.pending_execution.prepared
          /\ \A c \in CallIds : inv'[c] = IF c = Call THEN s ELSE inv[c]
          /\ inv[Call] \in {"none", "PENDING"}
          /\ s \in {"DENIED", "PENDING", "PENDING_CONFIRMATION"}
          /\ s = "PENDING_CONFIRMATION" => KindOf[Call] = "confirm"
      BY <2>3, RecreatedFacts
    <3>2. Invocations'
      BY <1>3, <3>1 DEF PromiseInv, Outside, Invocations, Open, Started
    <3>3. Receipt'
      BY <1>3, <3>1 DEF PromiseInv, Outside, Receipt, Started, Outcomes
    <3>4. ReceiptFaithful'
      BY <1>3, <3>1 DEF PromiseInv, Outside, ReceiptFaithful
    <3>5. Stopping'
      BY <1>3, <3>1 DEF PromiseInv, Outside, Stopping, StopClosesPreparation
    <3>6. Created(run, inv', user') /\ Created(loc, inv', user')
      BY <1>1, <1>3, <2>1, <3>1 DEF Created
    <3> QED BY <3>2, <3>3, <3>4, <3>5, <3>6 DEF Outside
  <2> QED BY <1>4, <2>2, <2>3
<1>6. Rows'
  <2>1. Sound(run) /\ Sound(loc) /\ Approved(run, user) /\ Approved(loc, user)
    BY DEF PromiseInv, Rows, Backed
  <2> QED BY <1>3, <1>5, <2>1 DEF Rows, Backed
<1>7. /\ Place(w', loc) /\ (w'.pc \in Working => w'.cur = w.cur)
      /\ w'.pc \in {"inserted", "prepared"} => inv'[w'.pos.call] \notin {"none", "DENIED"}
  <2>1. ASSUME NEW pc \in {"fail", "conflict"}, NEW code, code # "USER_STOPPED", Exit(pc, code)
        PROVE  Place(w', loc) /\ w'.pc = pc
    BY <1>2, <2>1, GoFacts, PlaceLeft DEF Exit
  <2>2. CASE PrepareBroken \/ Exit("conflict", "none") \/ Exit("fail", "FATAL")
    BY <2>1, <2>2 DEF PrepareBroken, Working
  <2>3. ASSUME NEW pc \in {"inserted", "prepared"}, w' = Go(pc),
               inv'[Call] \notin {"none", "DENIED"}
        PROVE  /\ Place(w', loc) /\ w'.cur = w.cur
               /\ inv'[w'.pos.call] \notin {"none", "DENIED"}
    <3>1. /\ w'.pc = pc /\ w'.pos = w.pos /\ w'.cur = w.cur /\ w'.dec = w.dec
          /\ w'.code = w.code
      BY <1>2, <2>3, GoFacts
    <3>2. Place(w', loc)
      BY <1>1, <1>2, <3>1 DEF Place, Call
    <3> QED BY <2>3, <3>1, <3>2 DEF Call
  <2>4. ASSUME NEW s, Recreated(s) PROVE inv'[Call] = s /\ (Prepare => s = "PENDING")
    BY <1>1, <2>4, RecreatedFacts
  <2>5. \/ PrepareBroken \/ Exit("conflict", "none") \/ Exit("fail", "FATAL")
        \/ w' \in {Go("inserted"), Go("prepared")} /\ inv'[Call] \notin {"none", "DENIED"}
    <3>1. CASE inv' = inv /\ inv[Call] \notin {"DENIED", "FAILED"}
               /\ (Prepare => inv[Call] # "none")
               /\ w' = Go("prepared")
      BY <1>1, <3>1
    <3>2. ASSUME NEW s, Recreated(s), s # "DENIED", w' = Go("prepared")
          PROVE  inv'[Call] \notin {"none", "DENIED"}
      BY <3>2, <2>4, RecreatedFacts
    <3>3. ASSUME NEW s, Recreated(s), Prepare, w' = Go("inserted")
          PROVE  inv'[Call] \notin {"none", "DENIED"}
      BY <3>3, <2>4
    <3> QED BY <3>1, <3>2, <3>3, PrepareShape, Zenon
  <2> QED BY <2>2, <2>3, <2>5
<1>8. Copy'
  BY <1>1, <1>2, <1>3 DEF PromiseInv, Copy
<1>9. Worker'
  BY <1>2, <1>3, <1>7 DEF Worker
<1> QED BY <1>3, <1>5, <1>6, <1>8, <1>9 DEF PromiseInv, Moves

\* The record takes over the prepared Invocation.
LEMMA PromisePrepared ==
  ASSUME TypeInv, FenceInv, PromiseInv, TypeInv', Prepared
  PROVE  PromiseInv' /\ Moves
<1>1. w.pc = "prepared" /\ UNCHANGED external
  BY Zenon DEF Prepared
<1>2. w.pc \in Working /\ Place(w, loc) /\ loc.status = "RUNNING"
      /\ inv[Call] \notin {"none", "DENIED"}
  BY <1>1 DEF Working, PromiseInv, Worker, FenceInv, WorkerHolds, Call
<1>3. /\ w.pc \in Holding /\ w \in Workers /\ loc \in AgentRunRow /\ Sound(loc)
      /\ Backed(loc, inv, user)
      /\ w.code # "USER_STOPPED" /\ w.cur <= Len(loc.calls)
      /\ w.dec = "approve" => loc.confirmation_response = "approve"
  BY <1>2, GraphCopy
<1>4. /\ ~loc.pending_execution.prepared /\ Call \in CallIds
      /\ loc.pending_execution.call = Call
  BY <1>1, <1>2 DEF Place, Call
<1>5. /\ ~loc.pending_execution.dispatched /\ loc.confirmation_response = "none"
      /\ loc.error_code # "USER_STOPPED"
  BY <1>2, <1>3, <1>4 DEF Sound, Phased, Asking
<1> DEFINE status == IF inv[Call] = "PENDING_CONFIRMATION"
                       THEN "PENDING_CONFIRMATION" ELSE "PENDING"
           e == [loc.pending_execution EXCEPT !.prepared = TRUE, !.status = status]
           r == [loc EXCEPT !.pending_execution.prepared = TRUE,
                            !.pending_execution.status = status]
           v == Go("graph")
<1>6. status \in PendingStatus
  BY Members
<1> HIDE DEF status
<1>7. /\ loc.pending_execution \in ExecutionRecord
      /\ r = [loc EXCEPT !.pending_execution = e]
  BY <1>3, Zenon DEF AgentRunRow
<1>8. /\ e \in ExecutionRecord /\ e.call = loc.pending_execution.call
      /\ e.dispatched = loc.pending_execution.dispatched /\ e.prepared
      /\ e.confirmed = loc.pending_execution.confirmed /\ e.status = status
  BY <1>6, <1>7, Zenon DEF ExecutionRecord
<1>9. Persist(r, v)
  BY Zenon DEF Prepared, status
<1> HIDE DEF e, r
<1>10. /\ r \in AgentRunRow /\ r.version = loc.version
       /\ r.calls = loc.calls /\ r.llm_tokens = loc.llm_tokens /\ r.answered = loc.answered
       /\ r.tool_executions = loc.tool_executions
       /\ r.pending_tool_call = loc.pending_tool_call
       /\ r.pending_execution = e
       /\ r.confirmation_response = loc.confirmation_response
       /\ r.status = loc.status /\ r.error_code = loc.error_code
       /\ r.observations = loc.observations
  BY <1>3, <1>7, <1>8, Zenon DEF AgentRunRow
<1>11. v.pc = "graph" /\ v.cur = w.cur /\ v.dec = w.dec /\ v.code = w.code
  BY <1>3, GoFacts
<1> HIDE DEF v
<1>12. Charged(r) /\ Marked(r)
  BY <1>3, <1>8, <1>10, ChargeSame, MarkSame DEF Same, Sound
<1>13. Phased(r) /\ ~Stopped(r) /\ Backed(r, inv, user)
  <2>1. status = "PENDING_CONFIRMATION" <=> inv[Call] = "PENDING_CONFIRMATION"
    BY DEF status
  <2>2. ~e.confirmed
    BY <1>3, <1>4, <1>8 DEF Backed, Created
  <2>3. Created(r, inv, user)
    BY <1>2, <1>4, <1>8, <1>10, <2>1, <2>2 DEF Created, CardHolds, Undecided
  <2> QED BY <1>2, <1>4, <1>5, <1>8, <1>10, <2>3 DEF Phased, Stopped, Backed, Approved
<1>14. Edit(r)
  BY <1>5, <1>8, <1>10, <1>12, <1>13, EditRecord
<1>15. Place(v, r) /\ v.cur <= Len(r.calls)
  BY <1>3, <1>10, <1>11, PlaceGraph
<1> QED BY <1>1, <1>3, <1>9, <1>11, <1>14, <1>15, PersistPromise

\* The confirmation card is shown once, then the node waits.
LEMMA PromiseShowCard ==
  ASSUME TypeInv, FenceInv, PromiseInv, TypeInv', ShowCard
  PROVE  PromiseInv' /\ Moves
<1>1. /\ Handling /\ loc.pending_execution.call = Call /\ UNCHANGED external
      /\ loc.pending_execution.prepared /\ ~loc.pending_execution.confirmed
      /\ loc.pending_execution.status = "PENDING_CONFIRMATION" /\ w.dec = "none"
  BY Zenon DEF ShowCard, NeedsConsent, Ready, Record
<1>2. /\ w.pc = "graph" /\ w.pc \in Working /\ Call \in CallIds
      /\ loc.status = "RUNNING" /\ loc.error_code # "USER_STOPPED"
  BY <1>1, AtTheTool
<1>3. /\ w.pc \in Holding /\ w \in Workers /\ loc \in AgentRunRow /\ Sound(loc)
      /\ Backed(loc, inv, user)
      /\ w.code # "USER_STOPPED" /\ w.cur <= Len(loc.calls)
  BY <1>2, GraphCopy
<1>4. Asking(loc)
  BY <1>1, <1>3 DEF Asking, Sound, Phased
<1> DEFINE e == [loc.pending_execution EXCEPT !.shown = loc.waiting_version + 1]
           r == [loc EXCEPT !.waiting_version = loc.waiting_version + 1,
                   !.pending_execution.shown = loc.waiting_version + 1,
                   !.status = "WAITING_FOR_CONFIRMATION"]
           q == [loc EXCEPT !.waiting_version = loc.waiting_version + 1,
                   !.pending_execution = e,
                   !.status = "WAITING_FOR_CONFIRMATION"]
           v == Go("interrupted")
<1>5. v.pc = "interrupted" /\ v.cur = w.cur /\ v.dec = w.dec /\ v.code = w.code
  BY <1>3, GoFacts
<1>6. \/ Persist(r, v)
      \/ w' = v /\ UNCHANGED <<run, loc>>
  BY Zenon DEF ShowCard
<1>7. r = q
  BY <1>3, Zenon DEF AgentRunRow
<1>8. CASE Persist(q, v)
  <2>1. /\ e \in ExecutionRecord /\ e.call = loc.pending_execution.call
        /\ e.dispatched = loc.pending_execution.dispatched
        /\ e.prepared = loc.pending_execution.prepared
        /\ e.status = loc.pending_execution.status
        /\ e.confirmed = loc.pending_execution.confirmed
    <3>1. loc.pending_execution \in ExecutionRecord
      BY <1>3, Zenon DEF AgentRunRow
    <3> QED BY <1>3, <3>1, RowNumbers, Zenon DEF ExecutionRecord
  <2> HIDE DEF e
  <2>2. /\ q \in AgentRunRow /\ q.version = loc.version
        /\ q.calls = loc.calls /\ q.llm_tokens = loc.llm_tokens /\ q.answered = loc.answered
        /\ q.tool_executions = loc.tool_executions
        /\ q.pending_tool_call = loc.pending_tool_call
        /\ q.pending_execution = e
        /\ q.confirmation_response = loc.confirmation_response
        /\ q.error_code = loc.error_code
        /\ q.observations = loc.observations
    BY <1>3, <2>1, RowNumbers, Members, Zenon DEF AgentRunRow
  <2> HIDE DEF q, r, v
  <2>3. Charged(q) /\ Marked(q)
    BY <1>3, <2>1, <2>2, ChargeSame, MarkSame DEF Same, Sound
  <2>4. Asking(q)
    BY <1>4, <2>1, <2>2 DEF Asking
  <2>5. Phased(q) /\ ~Stopped(q) /\ Backed(q, inv, user)
    BY <1>1, <1>2, <1>3, <2>1, <2>2, <2>4, CallAssumption
       DEF Phased, Stopped, Backed, Created, Approved, Asking
  <2>6. Edit(q)
    BY <2>1, <2>2, <2>3, <2>5, EditRecord
  <2>7. Place(v, q) /\ v.cur <= Len(q.calls) /\ v.pc \notin {"inserted", "prepared"}
    BY <1>1, <1>2, <1>3, <1>5, <2>2, <2>4 DEF Place
  <2> QED BY <1>1, <1>3, <1>8, <2>6, <2>7, PersistPromise
<1>9. CASE w' = v /\ UNCHANGED <<run, loc>>
  <2> HIDE DEF q, r, v
  <2>1. Place(v, loc)
    BY <1>1, <1>2, <1>3, <1>4, <1>5 DEF Place
  <2> QED BY <1>1, <1>2, <1>5, <1>9, <2>1, StayPromise
<1> QED BY <1>6, <1>7, <1>8, <1>9

\* tools.confirm applies the user's decision to the Invocation.
LEMMA PromiseDecision ==
  ASSUME TypeInv, FenceInv, PromiseInv, TypeInv', ApplyDecision
  PROVE  PromiseInv' /\ Moves
<1>1. /\ Handling /\ loc.pending_execution.call = Call
      /\ loc.pending_execution.prepared
  BY Zenon DEF ApplyDecision, NeedsConsent, Ready, Record
<1>2. w.pc = "graph" /\ w.pc \in Working /\ Call \in CallIds
  BY <1>1, AtTheTool
<1>3. /\ w.pc \in Holding /\ w \in Workers /\ w.code # "USER_STOPPED"
      /\ Backed(loc, inv, user)
      /\ w.cur <= Len(loc.calls) /\ inv \in [CallIds -> InvocationStatus]
      /\ w.dec = "approve" => loc.confirmation_response = "approve"
  BY <1>2, GraphCopy DEF TypeInv, TypeOK
<1>5. CASE Raise("FATAL") /\ UNCHANGED external
  <2>1. Exit("fail", "FATAL") /\ UNCHANGED <<run, loc>>
    BY <1>5 DEF Raise
  <2> QED BY <1>2, <1>5, <2>1, RaisePromise
<1>6. CASE /\ inv' = inv \/ /\ inv[Call] = "PENDING_CONFIRMATION"
                            /\ \E s \in {"EXPIRED", IF w.dec = "approve" THEN "PENDING"
                                                    ELSE "REJECTED"} :
                                 inv' = [inv EXCEPT ![Call] = s]
           /\ Exit("fail", "FATAL") \/ (w.dec = "approve" /\ w' = Go("confirmed"))
           /\ run' = run /\ loc' = loc /\ rt' = rt /\ user' = user /\ drives' = drives
  <2>1. Outside' /\ Decides(inv, inv', user)
    <3>1. CASE inv' = inv
      BY <1>6, <3>1, DecidesSelf DEF PromiseInv, Outside, Invocations, Receipt, ReceiptFaithful,
         Stopping, StopClosesPreparation
    <3>2. ASSUME NEW s \in {"EXPIRED", IF w.dec = "approve" THEN "PENDING" ELSE "REJECTED"},
                 inv[Call] = "PENDING_CONFIRMATION", inv' = [inv EXCEPT ![Call] = s]
          PROVE  Outside' /\ Decides(inv, inv', user)
      <4>1. \A c \in CallIds : inv'[c] = IF c = Call THEN s ELSE inv[c]
        BY <1>3, <3>2
      <4>2. s \in {"EXPIRED", "REJECTED", "PENDING"}
        OBVIOUS
      <4>3. Invocations'
        BY <1>2, <1>6, <3>2, <4>1, <4>2
           DEF PromiseInv, Outside, Invocations, Open, Started
      <4>4. Receipt'
        BY <1>6, <3>2, <4>1, <4>2 DEF PromiseInv, Outside, Receipt, Started, Outcomes
      <4>5. ReceiptFaithful'
        BY <1>6, <3>2, <4>1, <4>2 DEF PromiseInv, Outside, ReceiptFaithful
      <4>6. Stopping'
        BY <1>6, <3>2, <4>1, <4>2 DEF PromiseInv, Outside, Stopping, StopClosesPreparation
      <4>7. Decides(inv, inv', user)
        <5>1. s = "PENDING" => Consented(Call, user)
          BY <1>1, <1>3, <3>2 DEF Backed, Approved
        <5> QED BY <3>2, <4>1, <4>2, <5>1 DEF Decides, CardHolds, Undecided
      <4> QED BY <3>2, <4>1, <4>2, <4>3, <4>4, <4>5, <4>6, <4>7 DEF Outside
    <3> QED BY <1>6, <3>1, <3>2, DecidesSelf
  <2>2. CASE Exit("fail", "FATAL")
    <3>1. w' = Left(w, "fail", "FATAL") /\ w'.pc = "fail" /\ Place(w', loc)
      BY <1>3, <2>2, GoFacts, PlaceLeft DEF Exit
    <3> QED BY <1>3, <1>6, <2>1, <3>1, LocalPromise, DecidesSelf DEF Working
  <2>3. CASE w.dec = "approve" /\ w' = Go("confirmed")
    <3>1. /\ w'.pc = "confirmed" /\ w'.pos = w.pos /\ w'.cur = w.cur /\ w'.dec = w.dec
          /\ w'.code = w.code
      BY <1>3, <2>3, GoFacts
    <3>2. Place(w', loc)
      BY <1>1, <1>2, <1>3, <2>3, <3>1 DEF Place, Call
    <3> QED BY <1>2, <1>3, <1>6, <2>1, <3>1, <3>2, LocalPromise, DecidesSelf
  <2> QED BY <1>6, <2>2, <2>3
<1>7. \/ Raise("FATAL") /\ UNCHANGED external
      \/ /\ inv' \in IF inv[Call] # "PENDING_CONFIRMATION" THEN {inv}
                     ELSE {[inv EXCEPT ![Call] = s] :
                             s \in {"EXPIRED", IF w.dec = "approve" THEN "PENDING"
                                               ELSE "REJECTED"}}
         /\ Exit("fail", "FATAL") \/ (w.dec = "approve" /\ w' = Go("confirmed"))
         /\ run' = run /\ loc' = loc /\ rt' = rt /\ user' = user /\ drives' = drives
  BY DEF ApplyDecision
<1> QED BY <1>5, <1>6, <1>7

\* The applied decision is saved in the record.
LEMMA PromiseConfirmed ==
  ASSUME TypeInv, FenceInv, PromiseInv, TypeInv', Confirmed
  PROVE  PromiseInv' /\ Moves
<1>1. w.pc = "confirmed" /\ UNCHANGED external
  BY Zenon DEF Confirmed
<1>2. w.pc \in Working /\ loc.status = "RUNNING"
  BY <1>1 DEF Working, FenceInv, WorkerHolds
<1>3. /\ w.pc \in Holding /\ w \in Workers /\ loc \in AgentRunRow /\ Sound(loc)
      /\ Backed(loc, inv, user)
      /\ w.code # "USER_STOPPED" /\ w.cur <= Len(loc.calls)
  BY <1>2, GraphCopy
<1> DEFINE e == [loc.pending_execution EXCEPT !.confirmed = TRUE]
           r == [loc EXCEPT !.pending_execution.confirmed = TRUE,
                            !.confirmation_response = "none"]
           q == [loc EXCEPT !.pending_execution = e, !.confirmation_response = "none"]
           next == [w EXCEPT !.pc = "graph", !.dec = "none"]
<1>4. /\ e \in ExecutionRecord /\ e.call = loc.pending_execution.call
      /\ e.dispatched = loc.pending_execution.dispatched
      /\ e.prepared = loc.pending_execution.prepared
      /\ e.status = loc.pending_execution.status
  <2>1. loc.pending_execution \in ExecutionRecord
    BY <1>3, Zenon DEF AgentRunRow
  <2> QED BY <2>1, Zenon DEF ExecutionRecord
<1>5. r = q
  BY <1>3, Zenon DEF AgentRunRow
<1> HIDE DEF e
<1>6. /\ q \in AgentRunRow /\ q.version = loc.version
      /\ q.calls = loc.calls /\ q.llm_tokens = loc.llm_tokens /\ q.answered = loc.answered
      /\ q.tool_executions = loc.tool_executions
      /\ q.pending_tool_call = loc.pending_tool_call
      /\ q.pending_execution = e
      /\ q.confirmation_response = "none"
      /\ q.status = loc.status /\ q.error_code = loc.error_code
      /\ q.observations = loc.observations
  BY <1>3, <1>4, Zenon DEF AgentRunRow
<1>7. Persist(r, next)
  BY Zenon DEF Confirmed
<1>8. next.pc = "graph" /\ next.cur = w.cur /\ next.dec = "none" /\ next.code = w.code
  BY <1>3, Zenon DEF Workers
<1> HIDE DEF r, q, next
<1>9. Charged(q) /\ Marked(q)
  BY <1>3, <1>4, <1>6, ChargeSame, MarkSame DEF Same, Sound
<1>10. Phased(q) /\ ~Stopped(q) /\ Backed(q, inv, user)
  <2>1. /\ loc.pending_execution.prepared /\ w.dec = "approve"
        /\ w.dec = "approve" => loc.confirmation_response = "approve"
    BY <1>1, <1>2, GraphCopy DEF PromiseInv, Worker, Place, Sound, Phased, Asking
  <2>2. Consented(loc.pending_execution.call, user)
    BY <1>3, <2>1 DEF Backed, Approved
  <2>3. Created(q, inv, user)
    BY <1>3, <1>4, <1>6, <2>1, <2>2 DEF Backed, Created
  <2> QED BY <1>2, <1>3, <1>4, <1>6, <2>3
          DEF Phased, Stopped, Backed, Approved, Sound
<1>11. Edit(q)
  BY <1>4, <1>6, <1>9, <1>10, EditRecord
<1>12. Place(next, q) /\ next.cur <= Len(q.calls)
  BY <1>3, <1>6, <1>8, PlaceGraph
<1> QED BY <1>1, <1>3, <1>5, <1>7, <1>8, <1>11, <1>12, PersistPromise

\* The dispatch fence is saved before the receipt task exists.
LEMMA PromiseDispatch ==
  ASSUME TypeInv, FenceInv, PromiseInv, TypeInv', DispatchFence
  PROVE  PromiseInv' /\ Moves
<1>1. /\ Handling /\ loc.pending_execution.call = Call
      /\ loc.pending_execution.prepared /\ ~loc.pending_execution.dispatched
      /\ loc.pending_execution.status = "PENDING_CONFIRMATION" =>
           loc.pending_execution.confirmed
      /\ inv' = inv /\ user' = user /\ drives' = drives
  BY Zenon DEF DispatchFence, Permitted, Ready, Record
<1>2. /\ w.pc = "graph" /\ w.pc \in Working /\ Call \in CallIds
      /\ ~Executed(loc, Call) /\ loc.observations[Call] = "none"
      /\ loc.status = "RUNNING" /\ loc.error_code # "USER_STOPPED"
  BY <1>1, AtTheTool
<1>3. /\ w.pc \in Holding /\ w \in Workers /\ w' \in Workers
      /\ loc \in AgentRunRow /\ Sound(loc) /\ Backed(loc, inv, user)
      /\ w.code # "USER_STOPPED" /\ w.cur <= Len(loc.calls)
      /\ w.dec = "approve" => loc.confirmation_response = "approve"
      /\ drives \in [CallIds -> Nat]
  BY <1>2, GraphCopy DEF TypeInv, TypeOK
<1>4. loc.confirmation_response = "none" /\ w.dec # "approve"
  BY <1>1, <1>3 DEF Sound, Phased, Asking
<1> DEFINE e == [loc.pending_execution EXCEPT !.dispatched = TRUE, !.status = "RUNNING"]
           r == [loc EXCEPT !.pending_execution.dispatched = TRUE,
                            !.pending_execution.status = "RUNNING",
                            !.tool_executions = loc.tool_executions + 1]
           q == [loc EXCEPT !.pending_execution = e,
                            !.tool_executions = loc.tool_executions + 1]
           task == [st |-> "start", call |-> Call, out |-> "none",
                    version |-> r.version + 1, claim |-> r.claim]
           v == Go("await")
<1>5. /\ e \in ExecutionRecord /\ e.call = Call /\ e.dispatched
      /\ e.prepared /\ e.status = "RUNNING" /\ e.confirmed = loc.pending_execution.confirmed
  <2>1. loc.pending_execution \in ExecutionRecord
    BY <1>3, Zenon DEF AgentRunRow
  <2> QED BY <1>1, <2>1, Members, Zenon DEF ExecutionRecord
<1>6. r = q
  BY <1>3, Zenon DEF AgentRunRow
<1> HIDE DEF e
<1>7. /\ q \in AgentRunRow /\ q.version = loc.version
      /\ q.calls = loc.calls /\ q.llm_tokens = loc.llm_tokens /\ q.answered = loc.answered
      /\ q.tool_executions = loc.tool_executions + 1
      /\ q.pending_tool_call = loc.pending_tool_call
      /\ q.pending_execution = e
      /\ q.confirmation_response = loc.confirmation_response
      /\ q.status = loc.status /\ q.error_code = loc.error_code
      /\ q.observations = loc.observations
  BY <1>3, <1>5, RowNumbers, Zenon DEF AgentRunRow
<1>8. \/ Raise("FATAL") /\ rt' = rt
      \/ /\ loc.tool_executions < MaxToolExecutions
         /\ Persist(r, v) /\ rt' = IF w'.pc # "await" THEN rt ELSE task
  <2>1. loc.tool_executions \in Nat
    BY <1>3, RowNumbers
  <2>2. \/ loc.tool_executions >= MaxToolExecutions /\ Raise("FATAL") /\ rt' = rt
        \/ /\ ~(loc.tool_executions >= MaxToolExecutions)
           /\ Persist(r, v) /\ rt' = IF w'.pc # "await" THEN rt ELSE task
    BY DEF DispatchFence
  <2> QED BY <2>1, <2>2, BudgetAssumption
<1>9. v.pc = "await" /\ v.cur = w.cur /\ v.dec = w.dec /\ v.code = w.code
  BY <1>3, GoFacts
<1>10. task.st = "start" /\ task.call = Call
  OBVIOUS
<1> HIDE DEF r, q, v, task
<1>11. CASE Raise("FATAL") /\ rt' = rt
  <2>1. Exit("fail", "FATAL") /\ UNCHANGED <<run, loc>>
    BY <1>11 DEF Raise
  <2>2. UNCHANGED external
    BY <1>1, <1>11 DEF external
  <2> QED BY <1>2, <2>1, <2>2, RaisePromise
<1>12. CASE /\ loc.tool_executions < MaxToolExecutions
            /\ Persist(q, v) /\ rt' = IF w'.pc # "await" THEN rt ELSE task
  <2>1. Charged(q)
    <3>1. /\ FencedCalls(q) = FencedCalls(loc) \cup {Call}
          /\ Call \notin FencedCalls(loc)
      BY <1>1, <1>2, <1>5, <1>7 DEF FencedCalls, Fenced, Dispatched, Executed
    <3>2. /\ IsFiniteSet(FencedCalls(loc)) /\ loc.tool_executions = Cardinality(FencedCalls(loc))
          /\ loc.tool_executions \in Nat
      BY <1>3, RowNumbers DEF Sound, Charged
    <3>3. /\ IsFiniteSet(FencedCalls(q))
          /\ Cardinality(FencedCalls(q)) = Cardinality(FencedCalls(loc)) + 1
      BY <3>1, <3>2, FS_AddElement
    <3>4. q.tool_executions = Cardinality(FencedCalls(q)) /\ q.tool_executions <= MaxToolExecutions
      BY <1>7, <1>12, <3>2, <3>3, BudgetAssumption
    <3> QED BY <3>3, <3>4 DEF Charged
  <2>2. Marked(q)
    BY <1>2, <1>3, <1>5, <1>7 DEF Marked, Sound
  <2>3. Phased(q) /\ ~Stopped(q) /\ Backed(q, inv, user)
    BY <1>1, <1>2, <1>3, <1>4, <1>5, <1>7 DEF Phased, Stopped, Backed, Created, Approved
  <2>4. Edit(q)
    BY <1>1, <1>5, <1>7, <2>1, <2>2, <2>3, EditRecord
  <2>5. Place(v, q) /\ v.cur <= Len(q.calls)
    BY <1>3, <1>4, <1>7, <1>9 DEF Place
  <2>6. Attempt(q)
    BY <1>12, AttemptCases DEF Persist
  <2>7. CASE SaveOk(q) /\ w' = v
    <3>1. rt' = task /\ run' = loc' /\ run' = Saved(q)
      BY <1>9, <1>12, <2>7 DEF SaveOk, Store
    <3>2. run.version = loc.version
      BY <1>7, <2>7 DEF SaveOk, SaveAccepted
    <3>3. drives[Call] = 0
      <4>1. Fenced(run, Call) => Fenced(loc, Call)
        BY <1>2, <1>3, <3>2 DEF FenceInv, CopyKeepsFences
      <4>2. ~Fenced(loc, Call)
        BY <1>1, <1>2 DEF Fenced, Dispatched
      <4>3. ~(drives[Call] > 0)
        BY <1>2, <4>1, <4>2 DEF FenceInv, DrivenBehindFence
      <4> QED BY <1>2, <1>3, <4>3
    <3>4. Dispatched(run', Call)
      BY <1>5, <1>7, <3>1, RowFacts, SameFacts DEF Dispatched
    <3>5. Receipt'
      BY <1>1, <1>2, <1>10, <3>1, <3>3, <3>4 DEF Receipt
    <3> QED BY <1>1, <1>3, <1>9, <2>4, <2>5, <2>6, <2>7, <3>1, <3>5, EditKeeps
  <2>8. CASE \/ w' = Left(v, "conflict", "none")
             \/ w' = Left(v, "fail", "DEPENDENCY_UNAVAILABLE")
             \/ w' = Left(v, "fail", "FATAL")
    <3>1. w'.pc \in {"conflict", "fail"} /\ Place(w', q)
      BY <1>3, <2>5, <2>8, GoFacts, PlaceLeft
    <3>2. UNCHANGED external
      BY <1>1, <1>12, <3>1 DEF external
    <3> QED BY <1>3, <2>4, <2>6, <3>1, <3>2, LeavesKeep DEF Working
  <2> QED BY <1>12, <2>7, <2>8 DEF Persist
<1> QED BY <1>6, <1>8, <1>11, <1>12

\* Only a batch is met again with its fence up, and no receipt task is alive then.
LEMMA ContinuedCall ==
  ASSUME TypeInv, FenceInv, PromiseInv, Permitted, loc.pending_execution.dispatched
  PROVE  /\ w.pc = "graph" /\ w.pc \in Working /\ Call \in CallIds
         /\ KindOf[Call] = "batch" /\ inv[Call] \notin {"none", "DENIED"}
         /\ w.dec # "approve" /\ rt.st = "none" /\ ~Executed(loc, Call)
         /\ Dispatched(loc, Call)
<1>1. /\ Handling /\ loc.pending_execution.call = Call
      /\ loc.pending_execution.prepared
  BY Zenon DEF Permitted, Ready, Record
<1>2. w.pc = "graph" /\ w.pc \in Working /\ Call \in CallIds /\ ~Executed(loc, Call)
  BY <1>1, AtTheTool
<1>3. /\ Sound(loc) /\ Backed(loc, inv, user)
      /\ w.dec = "approve" => loc.confirmation_response = "approve"
  BY <1>2, GraphCopy
<1>4. ~OwesReceipt(loc)
  BY <1>2 DEF FenceInv, NothingOwed, Working
<1>5. w.dec # "approve"
  BY <1>3 DEF Sound, Phased, Asking
<1>6. rt.st = "none"
  BY <1>2 DEF FenceInv, TaskIsOwned
<1> QED BY <1>1, <1>2, <1>3, <1>4, <1>5, <1>6 DEF OwesReceipt, Backed, Created, Dispatched

\* A batch is continued, any other dispatched call is only looked up.
LEMMA PromiseContinue ==
  ASSUME TypeInv, FenceInv, PromiseInv, TypeInv', Continue
  PROVE  PromiseInv' /\ Moves
<1>1. /\ Permitted /\ loc.pending_execution.dispatched
      /\ run' = run /\ loc' = loc /\ rt' = rt /\ user' = user
  BY Zenon DEF Continue, Record
<1>2. /\ w.pc = "graph" /\ w.pc \in Working /\ Call \in CallIds
      /\ KindOf[Call] = "batch" /\ inv[Call] \notin {"none", "DENIED"}
      /\ w.dec # "approve" /\ rt.st = "none" /\ ~Executed(loc, Call)
  BY <1>1, ContinuedCall
<1>3. /\ w.pc \in Holding /\ w \in Workers /\ w.code # "USER_STOPPED"
      /\ w.cur <= Len(loc.calls) /\ inv \in [CallIds -> InvocationStatus]
      /\ drives \in [CallIds -> Nat]
  BY <1>2, GraphCopy DEF TypeInv, TypeOK
<1>4. CASE Exit("conflict", "none") /\ UNCHANGED <<inv, drives>>
  <2>1. UNCHANGED external
    BY <1>1, <1>4 DEF external
  <2> QED BY <1>1, <1>2, <1>4, <2>1, RaisePromise
<1>5. CASE /\ inv[Call] = "PENDING" => MayCommit(Call, loc.version, loc.claim)
           /\ inv' \in IF KindOf[Call] # "batch" \/ inv[Call] \in Outcomes THEN {inv}
                       ELSE {[inv EXCEPT ![Call] = s] : s \in Outcomes \cup {"OUTCOME_UNKNOWN"}}
           /\ drives' = IF inv[Call] = "PENDING"
                          THEN [drives EXCEPT ![Call] = @ + 1] ELSE drives
           /\ IF inv'[Call] \in Outcomes THEN w' = Go("found") /\ sdk' = sdk
              ELSE Exit("fail", "TOOL_OUTCOME_UNKNOWN")
  <2>1. /\ \A c \in CallIds : c # Call => inv'[c] = inv[c] /\ drives'[c] = drives[c]
        /\ \A c \in CallIds : drives[c] > 0 => drives'[c] > 0
        /\ inv[Call] = "PENDING" => drives'[Call] > 0
        /\ \/ inv'[Call] = inv[Call]
           \/ inv[Call] \notin Outcomes /\ inv'[Call] \in Outcomes \cup {"OUTCOME_UNKNOWN"}
    BY <1>2, <1>3, <1>5
  <2>2. Receipt'
    BY <1>1, <1>2 DEF Receipt
  <2>3. Invocations'
    <3>1. ASSUME NEW c \in CallIds, inv'[c] = inv[c]
          PROVE  /\ inv'[c] \in Open => run'.pending_execution.call = c \/ Fenced(run', c)
                 /\ inv'[c] \in Started => drives'[c] > 0
                 /\ inv'[c] = "FAILED" => drives'[c] > 0 \/ (Stopped(run') /\ ~Dispatched(run', c))
                 /\ inv'[c] \in {"PENDING_CONFIRMATION", "REJECTED", "EXPIRED"} => KindOf[c] = "confirm"
      BY <1>1, <2>1, <3>1 DEF PromiseInv, Outside, Invocations
    <3>2. ASSUME inv[Call] \notin Outcomes, inv'[Call] \in Outcomes \cup {"OUTCOME_UNKNOWN"}
          PROVE  drives'[Call] > 0 /\ inv'[Call] \in {"SUCCEEDED", "FAILED", "OUTCOME_UNKNOWN"}
      <4>1. inv[Call] \in InvocationStatus
        BY <1>2, <1>3
      <4>2. inv[Call] \in Started \cup {"PENDING"}
        BY <1>2, <3>2, <4>1 DEF PromiseInv, Outside, Invocations, InvocationStatus, Outcomes,
           Started
      <4> QED BY <1>2, <2>1, <3>2, <4>2 DEF PromiseInv, Outside, Invocations, Outcomes
    <3> QED BY <1>2, <2>1, <3>1, <3>2 DEF Invocations, Open, Started
  <2>4. ReceiptFaithful'
    <3>1. ASSUME inv'[Call] # inv[Call] PROVE run.observations[Call] \notin Outcomes
      <4>1. inv[Call] \notin Outcomes /\ inv[Call] \in InvocationStatus
        BY <1>2, <1>3, <2>1, <3>1
      <4>2. inv[Call] \in {"RUNNING", "OUTCOME_UNKNOWN", "PENDING"}
        BY <1>2, <4>1 DEF PromiseInv, Outside, Invocations, InvocationStatus, Outcomes
      <4>3. CASE inv[Call] = "PENDING"
        <5>1. CASE OwnerActive(loc.version, loc.claim)
          <6>1. Follows(run, loc)
            BY <1>2, <5>1, OwnerRow
          <6> QED BY <1>2, <6>1 DEF Follows, Executed, Outcomes
        <5>2. CASE Dispatched(run, Call)
          <6>1. run.observations[Call] = "none"
            BY <1>2, <5>2 DEF PromiseInv, Rows, Sound, Marked, Dispatched
          <6> QED BY <6>1 DEF Outcomes
        <5> QED BY <1>5, <4>3, <5>1, <5>2 DEF MayCommit
      <4>4. CASE inv[Call] \in {"RUNNING", "OUTCOME_UNKNOWN"}
        BY <1>2, <4>4 DEF PromiseInv, Outside, ReceiptFaithful, Outcomes
      <4> QED BY <4>2, <4>3, <4>4
    <3> QED BY <1>1, <2>1, <3>1 DEF PromiseInv, Outside, ReceiptFaithful, Outcomes
  <2>5. Stopping'
    BY <1>1, <2>1 DEF PromiseInv, Outside, Stopping, StopClosesPreparation, Outcomes
  <2>6. Outside' /\ Decides(inv, inv', user)
    <3>1. inv[Call] \notin Undecided
      BY <1>2 DEF PromiseInv, Outside, Invocations, Undecided
    <3> QED BY <2>1, <2>2, <2>3, <2>4, <2>5, <3>1
            DEF Outside, Outcomes, Decides, CardHolds, Undecided
  <2>7. CASE Exit("fail", "TOOL_OUTCOME_UNKNOWN")
    <3>1. w' = Left(w, "fail", "TOOL_OUTCOME_UNKNOWN") /\ w'.pc = "fail" /\ Place(w', loc)
      BY <1>3, <2>7, GoFacts, PlaceLeft DEF Exit
    <3> QED BY <1>1, <1>3, <2>6, <3>1, LocalPromise, DecidesSelf DEF Working
  <2>8. CASE w' = Go("found")
    <3>1. /\ w'.pc = "found" /\ w'.pos = w.pos /\ w'.cur = w.cur /\ w'.dec = w.dec
          /\ w'.code = w.code
      BY <1>3, <2>8, GoFacts
    <3>2. Place(w', loc)
      BY <1>2, <1>3, <3>1 DEF Place
    <3> QED BY <1>1, <1>2, <1>3, <2>6, <3>1, <3>2, LocalPromise, DecidesSelf
  <2> QED BY <1>5, <2>7, <2>8
<1> QED BY <1>4, <1>5 DEF Continue

\* A receipt read from the Invocation tells the truth, and its call was driven.
LEMMA ReceiptMoves ==
  ASSUME TypeInv, PromiseInv, NEW c, NEW out, OwnsReceipt(run, c),
         out \in Outcomes, run' = ReceiptRow(run, c, out),
         \/ out = inv[c]
         \/ drives[c] > 0 /\ Truthful(c, out),
         inv' = inv, drives' = drives, user' = user, rt'.st = "none"
  PROVE  /\ Outside' /\ Moves /\ c \in CallIds /\ run' \in AgentRunRow
         /\ Sound(run') /\ Backed(run', inv, user')
         /\ run'.version = run.version + 1 /\ run'.calls = run.calls
<1>1. run \in AgentRunRow /\ Sound(run) /\ Dispatched(run, c)
  BY WorkerFacts DEF PromiseInv, Rows, OwnsReceipt
<1>2. c \in CallIds
  BY <1>1 DEF Sound, Phased, Dispatched
<1>3. drives[c] > 0 /\ Truthful(c, out)
  BY <1>1, <1>2 DEF PromiseInv, Outside, Invocations, Outcomes, Started, Truthful
<1>4. Outside'
  BY <1>2, <1>3, OutsideReceipt
<1>5. Moves
  BY <1>2, <1>3 DEF Moves, Receives
<1>6. run' \in AgentRunRow /\ run'.version = run.version + 1
  BY <1>1, <1>2, TransactionTypes, ReceiptFacts
<1>7. Sound(run') /\ Created(run', inv, user) /\ Approved(run', user) /\ run'.calls = run.calls
  BY <1>1, <1>2, ReceiptSound
<1> QED BY <1>2, <1>4, <1>5, <1>6, <1>7 DEF Backed

\* The receipt the worker found is recorded.
LEMMA PromiseFound ==
  ASSUME TypeInv, FenceInv, PromiseInv, TypeInv', Found
  PROVE  PromiseInv' /\ Moves
<1>1. w.pc = "found" /\ UNCHANGED external
  BY Zenon DEF Found
<1>2. w.pc \in Working /\ inv[Call] \in Outcomes /\ rt.st = "none" /\ Place(w, loc)
  BY <1>1 DEF Working, FenceInv, TaskIsOwned, Call, PromiseInv, Worker
<1>3. /\ w.pc \in Holding /\ w \in Workers /\ w.code # "USER_STOPPED"
      /\ w.cur <= Len(run.calls) /\ w.dec # "approve"
  BY <1>1, <1>2, GraphCopy DEF Place
<1>4. inv' = inv /\ user' = user /\ drives' = drives /\ rt' = rt
  BY <1>1, Zenon DEF external
<1>5. CASE ~OwnsReceipt(run, Call)
  <2>1. Exit("conflict", "none") /\ UNCHANGED <<run, loc>>
    BY <1>5 DEF Found
  <2> QED BY <1>1, <1>2, <2>1, RaisePromise
<1>6. CASE OwnsReceipt(run, Call)
  <2>1. /\ run' = ReceiptRow(run, Call, inv[Call]) /\ loc' = run' /\ w' = Go("recorded")
    BY <1>6 DEF Found
  <2>2. /\ Outside' /\ Moves /\ run' \in AgentRunRow
        /\ Sound(run') /\ Backed(run', inv, user')
        /\ run'.calls = run.calls
    BY <1>2, <1>4, <1>6, <2>1, ReceiptMoves
  <2>3. /\ w'.pc = "recorded" /\ w'.cur = w.cur /\ w'.dec = w.dec /\ w'.code = w.code
    BY <1>3, <2>1, GoFacts
  <2>4. Rows'
    BY <1>4, <2>1, <2>2 DEF Rows
  <2>5. Copy'
    BY <2>1, <2>2, FollowsSelf DEF Copy, InStep
  <2>6. Place(w', loc')
    BY <1>3, <2>1, <2>2, <2>3 DEF Place
  <2>7. Worker'
    BY <1>3, <2>1, <2>2, <2>3, <2>6 DEF Worker
  <2> QED BY <2>2, <2>4, <2>5, <2>7 DEF PromiseInv
<1> QED BY <1>5, <1>6

\* The observation is returned to the model, after a receipt or a wait.
LEMMA PromiseRecorded ==
  ASSUME TypeInv, FenceInv, PromiseInv, TypeInv', Recorded \/ Awaited
  PROVE  PromiseInv' /\ Moves
<1>1. w.pc \in {"recorded", "awaited"} /\ UNCHANGED external
  BY Zenon DEF Recorded, Awaited
<1>2. /\ w.pc \in Holding /\ w.pc \in Working \cup {"awaited"} /\ Place(w, loc)
      /\ w \in Workers /\ loc \in AgentRunRow
  BY <1>1, WorkerFacts DEF Working, Holding, WorkerPc, PromiseInv, Worker
<1>3. w.code # "USER_STOPPED" /\ w.cur <= Len(loc.calls) /\ w.dec # "approve"
  BY <1>1, <1>2 DEF Place
<1> DEFINE r == [loc EXCEPT !.pending_tool_call = None]
           out == loc.observations[Call]
<1>4. \/ Exit("conflict", "none") /\ UNCHANGED <<run, loc>>
      \/ Exit("fail", "TOOL_OUTCOME_UNKNOWN") /\ UNCHANGED <<run, loc>>
      \/ Persist(r, Message(Call, out))
      \/ Persist(loc, Message(Call, out))
  BY DEF Recorded, Awaited, Done, Raise
<1>5. /\ r \in AgentRunRow /\ Content(loc, r) /\ r.version = loc.version
      /\ r.pending_execution = loc.pending_execution /\ r.status = loc.status
      /\ r.confirmation_response = loc.confirmation_response
      /\ r.error_code = loc.error_code /\ r.calls = loc.calls
  BY <1>2, Unmark
<1> HIDE DEF r, out
<1>6. Edit(r) /\ Edit(loc)
  BY <1>5, EditContent, EditSelf
<1>7. ASSUME NEW q, Edit(q), q.calls = loc.calls, Persist(q, Message(Call, out))
      PROVE  PromiseInv' /\ Moves
  <2>1. /\ Place(Message(Call, out), q) /\ Message(Call, out).pc \notin {"inserted", "prepared"}
        /\ Message(Call, out).cur <= Len(q.calls)
    BY <1>2, <1>3, <1>7, MessagePlace
  <2> QED BY <1>1, <1>2, <1>7, <2>1, PersistPromise
<1>8. CASE \/ Exit("conflict", "none") /\ UNCHANGED <<run, loc>>
           \/ Exit("fail", "TOOL_OUTCOME_UNKNOWN") /\ UNCHANGED <<run, loc>>
  BY <1>1, <1>2, <1>8, RaisePromise
<1> QED BY <1>4, <1>5, <1>6, <1>7, <1>8

-----------------------------------------------------------------------------
(* Ends of an advance *)

\* The pause of the SDK becomes the waiting status.
LEMMA PromiseInterrupted ==
  ASSUME TypeInv, FenceInv, PromiseInv, TypeInv', Interrupted
  PROVE  PromiseInv' /\ Moves
<1>1. w.pc = "interrupted" /\ UNCHANGED external
  BY Zenon DEF Interrupted
<1>2. w.pc \in Working /\ Place(w, loc)
  BY <1>1 DEF Working, PromiseInv, Worker
<1>3. /\ w.pc \in Holding /\ w \in Workers /\ loc \in AgentRunRow
      /\ w.code # "USER_STOPPED" /\ w.cur <= Len(loc.calls)
  BY <1>2, GraphCopy
<1>4. loc.error_code # "USER_STOPPED" /\ (loc.question = None => Asking(loc))
  BY <1>1, <1>2 DEF Place
<1> DEFINE waiting == IF loc.question # None THEN "WAITING_FOR_USER"
                      ELSE "WAITING_FOR_CONFIRMATION"
           r == [loc EXCEPT !.status = waiting]
<1>5. \/ w' = Go("read") /\ UNCHANGED <<run, msgs, loc, sys>>
      \/ SaveOk(r) /\ w' = Go("read")
      \/ SaveConflict(r) /\ w' = Left(w, "conflict", "none")
      \/ SaveFault(r) /\ w' = Broken
  BY DEF Interrupted
<1>6. /\ waiting \in Status
      /\ waiting = "WAITING_FOR_CONFIRMATION" => Asking(loc)
  BY <1>4, Members
<1> HIDE DEF waiting
<1>7. /\ r \in AgentRunRow /\ Content(loc, r) /\ r.version = loc.version
      /\ r.pending_execution = loc.pending_execution
      /\ r.confirmation_response = loc.confirmation_response
      /\ r.error_code = loc.error_code /\ r.calls = loc.calls /\ r.status = waiting
  <2>1. /\ r \in AgentRunRow /\ Same(loc, r) /\ r.version = loc.version
        /\ r.pending_execution = loc.pending_execution
        /\ r.confirmation_response = loc.confirmation_response
        /\ r.error_code = loc.error_code /\ r.calls = loc.calls /\ r.status = waiting
        /\ r.llm_tokens = loc.llm_tokens /\ r.tool_executions = loc.tool_executions
        /\ r.answered = loc.answered /\ r.pending_tool_call = loc.pending_tool_call
    BY <1>3, <1>6, Zenon DEF AgentRunRow, Same
  <2> QED BY <2>1 DEF Content
<1> HIDE DEF r
<1>8. Edit(r)
  BY <1>4, <1>6, <1>7, EditContent
<1>9. CASE w' = Go("read") /\ UNCHANGED <<run, msgs, loc, sys>>
  <2>1. w'.pc = "read" /\ Place(w', loc)
    BY <1>2, <1>3, <1>9, GoFacts, PlaceRead
  <2>2. w'.pc \notin Holding
    BY <2>1 DEF Holding
  <2> QED BY <1>1, <1>2, <1>9, <2>1, <2>2, StayPromise
<1>10. CASE (SaveOk(r) \/ SaveConflict(r) \/ SaveFault(r))
            /\ w' \in {Go("read"), Left(w, "conflict", "none"), Broken}
  <2>1. Attempt(r)
    BY <1>10, AttemptCases
  <2>2. w'.pc \in {"read", "conflict", "fail"} /\ Place(w', r)
    <3>1. CASE w' = Go("read")
      BY <1>2, <1>3, <3>1, GoFacts, PlaceRead
    <3>2. CASE w' \in {Left(w, "conflict", "none"), Broken}
      BY <1>3, <1>7, <3>2, GoFacts, PlaceLeft DEF Broken
    <3> QED BY <1>10, <3>1, <3>2
  <2> QED BY <1>1, <1>3, <1>8, <2>1, <2>2, LeavesKeep DEF Working
<1> QED BY <1>5, <1>9, <1>10

\* The final answer and the success of the run commit together.
LEMMA PromiseFinal ==
  ASSUME TypeInv, FenceInv, PromiseInv, TypeInv', FinalAnswer
  PROVE  PromiseInv' /\ Moves
<1>1. w.pc = "graph" /\ UNCHANGED external
  BY Zenon DEF FinalAnswer, AtNode
<1>2. w.pc \in Working /\ loc.status = "RUNNING" /\ Place(w, loc)
  BY <1>1 DEF Working, FenceInv, WorkerHolds, PromiseInv, Worker
<1>3. /\ w.pc \in Holding /\ w \in Workers /\ loc \in AgentRunRow /\ Sound(loc)
      /\ w.code # "USER_STOPPED" /\ w.cur <= Len(loc.calls)
  BY <1>2, GraphCopy
<1>4. loc.error_code # "USER_STOPPED"
  BY <1>2, <1>3 DEF Sound, Phased
<1> DEFINE r == [loc EXCEPT !.final_message = TRUE, !.pending_message = "answer",
                            !.question = None, !.status = "SUCCEEDED"]
           v == Go("read")
<1>5. Raise("FATAL") \/ Persist(r, v)
  BY DEF FinalAnswer
<1>6. CASE Raise("FATAL")
  <2>1. Exit("fail", "FATAL") /\ UNCHANGED <<run, loc>>
    BY <1>6 DEF Raise
  <2> QED BY <1>1, <1>2, <2>1, RaisePromise
<1>7. CASE Persist(r, v)
  <2>1. /\ Same(loc, r) /\ r.version = loc.version
        /\ r.pending_execution = loc.pending_execution
        /\ r.confirmation_response = loc.confirmation_response
        /\ r.error_code = loc.error_code /\ r.calls = loc.calls /\ r.status = "SUCCEEDED"
        /\ r.llm_tokens = loc.llm_tokens /\ r.tool_executions = loc.tool_executions
        /\ r.answered = loc.answered /\ r.pending_tool_call = loc.pending_tool_call
    BY <1>3, Zenon DEF AgentRunRow, Same
  <2>2. r \in AgentRunRow
    BY <1>3, Members, Zenon DEF AgentRunRow
  <2> HIDE DEF r, v
  <2>3. Content(loc, r)
    BY <2>1 DEF Content
  <2>4. Edit(r)
    BY <1>4, <2>1, <2>2, <2>3, EditContent
  <2>5. v.pc = "read" /\ v.cur = w.cur /\ Place(v, r)
    BY <1>2, <1>3, GoFacts, PlaceRead DEF v
  <2> QED BY <1>1, <1>3, <1>7, <2>1, <2>4, <2>5, PersistPromise
<1> QED BY <1>5, <1>6, <1>7

\* A node that refuses to go on changes nothing but the place of the worker.
LEMMA PromiseRefused ==
  ASSUME TypeInv, FenceInv, PromiseInv, TypeInv', NodeRefused
  PROVE  PromiseInv' /\ Moves
<1>1. w.pc \in Working /\ Exit("fail", "FATAL") /\ UNCHANGED <<run, loc>>
  BY DEF NodeRefused, Raise, Working
<1>2. UNCHANGED external
  BY Zenon DEF NodeRefused
<1> QED BY <1>1, <1>2, RaisePromise

\* The handler of advance settles the open call and ends or pauses the run.
LEMMA PromiseFail ==
  ASSUME TypeInv, FenceInv, PromiseInv, TypeInv', FailSettle \/ FailSave
  PROVE  PromiseInv' /\ Moves
<1>1. w.pc = "fail" /\ UNCHANGED external
  BY Zenon DEF FailSettle, FailSave
<1>2. /\ w.pc \in Holding /\ w.pc \notin Working /\ Place(w, loc)
      /\ w \in Workers /\ loc \in AgentRunRow
  BY <1>1, WorkerFacts DEF Working, Holding, WorkerPc, PromiseInv, Worker
<1>3. w.code # "USER_STOPPED" /\ w.cur <= Len(loc.calls) /\ w.cur \in Nat /\ w.code \in ErrorCodes
  <2>1. w.cur \in Nat /\ w.code \in ErrorCodes
    BY <1>2, Zenon DEF Workers
  <2> QED BY <1>1, <1>2, <2>1 DEF Place
<1>4. CASE FailSettle
  <2> DEFINE r == Settled(loc, "FAILED")
  <2>1. Attempt(r) /\ w' = w
    BY <1>4, AttemptCases DEF FailSettle
  <2>2. w.cur # 0 /\ loc.calls[w.cur] = "RUNNING"
    BY <1>4 DEF FailSettle, OpenCall
  <2>3. w.cur \in DOMAIN loc.calls
    <3>1. loc.calls \in Seq(CallStatus)
      BY <1>2, Zenon DEF AgentRunRow, CallStatus
    <3>2. DOMAIN loc.calls = 1..Len(loc.calls) /\ Len(loc.calls) \in Nat
      BY <3>1
    <3> QED BY <1>3, <2>2, <3>2
  <2>4. Edit(r) /\ Len(r.calls) = Len(loc.calls)
    BY <2>2, <2>3, SettledEdit
  <2> HIDE DEF r
  <2>5. Place(w', r)
    BY <1>1, <1>3, <2>1, <2>4 DEF Place, Working
  <2> QED BY <1>1, <1>2, <2>1, <2>4, <2>5, LeavesKeep
<1>5. CASE FailSave
  <2>0. PICK code \in {IF BudgetSpent(loc) THEN "FATAL" ELSE w.code, "FATAL"} :
          FailSaved(FailRow(code))
    BY <1>5, FailShape, Zenon
  <2> DEFINE status == IF code = "FATAL" THEN "TERMINATED" ELSE "INTERRUPTED"
             r == [loc EXCEPT !.error_code = code, !.final_message = FALSE,
                     !.pending_message = "none", !.status = status]
  <2>1. /\ SaveOk(r) \/ SaveConflict(r) \/ SaveFault(r) \/ SaveInvalid(r)
        /\ w' \in {Go("read"), Go("raised")}
    BY <2>0, Zenon DEF FailSaved, FailRow
  <2>2. /\ code # "USER_STOPPED" /\ code \in ErrorCodes
        /\ status \in Status /\ status # "WAITING_FOR_CONFIRMATION"
    <3>1. "FATAL" \in ErrorCodes
      BY DEF ErrorCodes
    <3> QED BY <1>3, <2>0, <3>1, Members
  <2> HIDE DEF status
  <2>3. /\ Same(loc, r) /\ r.version = loc.version
        /\ r.pending_execution = loc.pending_execution
        /\ r.confirmation_response = loc.confirmation_response
        /\ r.error_code = code /\ r.calls = loc.calls /\ r.status = status
        /\ r.llm_tokens = loc.llm_tokens /\ r.tool_executions = loc.tool_executions
        /\ r.answered = loc.answered /\ r.pending_tool_call = loc.pending_tool_call
    BY <1>2, Zenon DEF AgentRunRow, Same
  <2>4. r \in AgentRunRow
    BY <1>2, <2>2, Members, Zenon DEF AgentRunRow
  <2> HIDE DEF r
  <2>5. Content(loc, r)
    BY <2>3 DEF Content
  <2>6. Edit(r)
    BY <2>2, <2>3, <2>4, <2>5, EditContent
  <2>7. Attempt(r)
    BY <2>1, AttemptCases
  <2>8. w'.pc \in {"read", "raised"} /\ Place(w', r)
    BY <1>2, <2>1, GoFacts, PlaceRead
  <2> QED BY <1>1, <1>2, <2>6, <2>7, <2>8, LeavesKeep DEF Working
<1> QED BY <1>4, <1>5

\* The handler of work() interrupts the run it left active.
LEMMA PromiseRaised ==
  ASSUME TypeInv, FenceInv, PromiseInv, TypeInv', Raised \/ RaisedSave \/ Dying
  PROVE  PromiseInv' /\ Moves
<1>1. w.pc \in {"raised", "closing", "dying"} /\ UNCHANGED external
  BY Zenon DEF Raised, RaisedSave, Dying
<1>2. /\ Place(w, loc) /\ w \in Workers /\ run \in AgentRunRow /\ Sound(run)
      /\ Backed(run, inv, user)
  BY WorkerFacts DEF PromiseInv, Worker, Rows
<1>3. \A pc \in {"dying", "closing"} : Go(pc).pc = pc /\ \A q : Place(Go(pc), q)
  BY <1>2, GoFacts, PlaceRead
<1>4. CASE RaisedSave
  <2>1. w.pc = "closing" /\ w' = Go("dying") /\ Attempt(loc) /\ Edit(loc)
    BY <1>4, EditSelf, AttemptCases DEF RaisedSave
  <2>2. w.pc \in Holding
    BY <2>1 DEF Holding, WorkerPc
  <2> QED BY <1>1, <1>3, <2>1, <2>2, LeavesKeep DEF Working
<1>5. CASE loc' = NewRow /\ run' = run /\ (w' = Go("dying") \/ w' = IdleWorker)
  <2>1. Place(w', loc') /\ w'.pc \in {"dying", "idle"}
    BY <1>3, <1>5, IdlePlaces
  <2>2. w'.pc \notin Holding /\ w'.pc \notin Working
    BY <2>1 DEF Holding, Working
  <2> QED BY <1>1, <1>5, <2>1, <2>2, WorkerOutside, NewRowBacked, FreshCopy
<1> DEFINE q == [run EXCEPT !.status = "INTERRUPTED", !.error_code = "PROCESS_INTERRUPTED"]
<1>6. CASE /\ run.status \in {"PENDING", "RUNNING"} /\ run' = run
           /\ loc' = q /\ w' = Go("closing")
  <2>1. /\ Same(run, q) /\ q.version = run.version
        /\ q.pending_execution = run.pending_execution
        /\ q.confirmation_response = run.confirmation_response
        /\ q.error_code = "PROCESS_INTERRUPTED" /\ q.calls = run.calls
        /\ q.status = "INTERRUPTED"
        /\ q.llm_tokens = run.llm_tokens /\ q.tool_executions = run.tool_executions
        /\ q.answered = run.answered /\ q.pending_tool_call = run.pending_tool_call
    BY <1>2, Zenon DEF AgentRunRow, Same
  <2> HIDE DEF q
  <2>2. Content(run, q)
    BY <2>1 DEF Content
  <2>3. Phased(q)
    BY <1>2, <2>1 DEF Sound, Phased, Asking
  <2>4. Sound(q) /\ Follows(run, q) /\ Backed(q, inv, user) /\ ~Stopped(q)
    BY <1>2, <2>1, <2>2, <2>3, ContentFacts, EvenFollows DEF Backed, Stopped
  <2>5. Place(w', loc') /\ w'.pc \notin Working
    BY <1>3, <1>6 DEF Working
  <2> QED BY <1>1, <1>6, <2>4, <2>5, WorkerOutside, FreshCopy
<1>7. CASE Raised
  BY <1>5, <1>6, <1>7 DEF Raised
<1>8. CASE Dying
  BY <1>5, <1>8 DEF Dying
<1> QED BY <1>4, <1>7, <1>8

-----------------------------------------------------------------------------
(* The receipt task *)

\* The receipt task starts the tool, and the tool answers.
LEMMA PromiseStart ==
  ASSUME TypeInv, FenceInv, PromiseInv, TaskStart \/ TaskFinish
  PROVE  PromiseInv' /\ Moves
<1> DEFINE c == rt.call
<1>1. /\ rt.st \in {"start", "running"}
      /\ run' = run /\ loc' = loc /\ w' = w /\ user' = user
  BY Zenon DEF TaskStart, TaskFinish
<1>2. /\ c \in CallIds /\ Dispatched(run, c)
      /\ rt.st = "start" => drives[c] = 0
      /\ rt.st # "start" => drives[c] > 0
      /\ rt.st = "running" => inv[c] = "RUNNING"
  BY <1>1 DEF PromiseInv, Outside, Receipt
<1>3. /\ rt \in ReceiptTasks /\ inv \in [CallIds -> InvocationStatus]
      /\ drives \in [CallIds -> Nat]
  BY DEF TypeInv, TypeOK
<1>4. /\ \A s : [rt EXCEPT !.st = s].st = s /\ [rt EXCEPT !.st = s].call = c
      /\ \A s, out : LET t == [rt EXCEPT !.st = s, !.out = out] IN
           t.st = s /\ t.call = c /\ t.out = out
  BY <1>3, Zenon DEF ReceiptTasks
<1>5. run.observations[c] = "none"
  BY <1>2 DEF PromiseInv, Rows, Sound, Marked, Dispatched
<1>6. inv[c] \in Started => drives[c] > 0
  BY <1>2 DEF PromiseInv, Outside, Invocations
<1>7. /\ \A d \in CallIds : d # c => inv'[d] = inv[d] /\ drives'[d] = drives[d]
      /\ drives'[c] > 0
      /\ rt'.call = c /\ rt'.st \in {"running", "finished"}
      /\ rt'.st = "running" => inv'[c] = "RUNNING"
      /\ rt'.st = "finished" =>
           /\ rt'.out # "none"
           /\ rt'.out \in Outcomes => inv'[c] = rt'.out
           /\ rt'.out = "RAISED" => inv'[c] \notin Started
      /\ \/ inv'[c] = inv[c]
         \/ inv'[c] \in {"RUNNING", "FAILED", "SUCCEEDED", "OUTCOME_UNKNOWN"}
            /\ inv[c] \in {"PENDING", "RUNNING"}
  <2>1. CASE TaskStart
    <3>1. drives' = [drives EXCEPT ![c] = @ + 1]
      BY <2>1 DEF TaskStart
    <3>2. drives'[c] > 0 /\ \A d \in CallIds : d # c => drives'[d] = drives[d]
      BY <1>2, <1>3, <3>1
    <3>3. rt.st = "start" /\ inv[c] \notin Started
      BY <1>2, <1>6, <2>1 DEF TaskStart
    <3>4. \/ /\ inv[c] = "PENDING"
             /\ inv' = [inv EXCEPT ![c] = "RUNNING"]
             /\ rt' = [rt EXCEPT !.st = "running"]
          \/ /\ inv[c] = "PENDING"
             /\ inv' = [inv EXCEPT ![c] = "FAILED"]
             /\ rt' = [rt EXCEPT !.st = "finished", !.out = "FAILED"]
          \/ /\ inv' = inv
             /\ rt' = [rt EXCEPT !.st = "finished", !.out = "RAISED"]
      BY <2>1 DEF TaskStart
    <3> HIDE DEF c
    <3>5. \A s : /\ [inv EXCEPT ![c] = s][c] = s
                 /\ \A d \in CallIds : d # c => [inv EXCEPT ![c] = s][d] = inv[d]
      BY <1>2, <1>3
    <3>6. CASE /\ inv[c] = "PENDING"
               /\ inv' = [inv EXCEPT ![c] = "RUNNING"]
               /\ rt' = [rt EXCEPT !.st = "running"]
      <4>1. rt'.st = "running" /\ rt'.call = c
        BY <1>4, <3>6
      <4>2. inv'[c] = "RUNNING" /\ \A d \in CallIds : d # c => inv'[d] = inv[d]
        BY <3>5, <3>6
      <4> QED BY <3>2, <3>6, <4>1, <4>2
    <3>7. CASE /\ inv[c] = "PENDING"
               /\ inv' = [inv EXCEPT ![c] = "FAILED"]
               /\ rt' = [rt EXCEPT !.st = "finished", !.out = "FAILED"]
      <4>1. rt'.st = "finished" /\ rt'.call = c /\ rt'.out = "FAILED"
        BY <1>4, <3>7
      <4>2. inv'[c] = "FAILED" /\ \A d \in CallIds : d # c => inv'[d] = inv[d]
        BY <3>5, <3>7
      <4> QED BY <3>2, <3>7, <4>1, <4>2
    <3>8. CASE /\ inv' = inv
               /\ rt' = [rt EXCEPT !.st = "finished", !.out = "RAISED"]
      <4>1. rt'.st = "finished" /\ rt'.call = c /\ rt'.out = "RAISED"
        BY <1>4, <3>8
      <4> QED BY <3>2, <3>3, <3>8, <4>1 DEF Outcomes
    <3> QED BY <3>4, <3>6, <3>7, <3>8
  <2>2. CASE TaskFinish
    <3>1. drives' = drives /\ rt.st = "running"
      BY <2>2 DEF TaskFinish
    <3>2. \/ \E out \in Outcomes \cup {"OUTCOME_UNKNOWN"} :
               /\ inv' = [inv EXCEPT ![c] = out]
               /\ rt' = [rt EXCEPT !.st = "finished", !.out = out]
          \/ /\ rt' = [rt EXCEPT !.st = "finished", !.out = "OUTCOME_UNKNOWN"]
             /\ inv' = inv
      BY <2>2 DEF TaskFinish
    <3> HIDE DEF c
    <3>3. \A s : /\ [inv EXCEPT ![c] = s][c] = s
                 /\ \A d \in CallIds : d # c => [inv EXCEPT ![c] = s][d] = inv[d]
      BY <1>2, <1>3
    <3>4. inv[c] = "RUNNING" /\ drives'[c] > 0
      BY <1>2, <3>1
    <3>5. ASSUME NEW out \in Outcomes \cup {"OUTCOME_UNKNOWN"},
                 inv' = [inv EXCEPT ![c] = out],
                 rt' = [rt EXCEPT !.st = "finished", !.out = out]
          PROVE  /\ \A d \in CallIds : d # c => inv'[d] = inv[d] /\ drives'[d] = drives[d]
                 /\ drives'[c] > 0
                 /\ rt'.call = c /\ rt'.st \in {"running", "finished"}
                 /\ rt'.st = "running" => inv'[c] = "RUNNING"
                 /\ rt'.st = "finished" =>
                      /\ rt'.out # "none"
                      /\ rt'.out \in Outcomes => inv'[c] = rt'.out
                      /\ rt'.out = "RAISED" => inv'[c] \notin Started
                 /\ \/ inv'[c] = inv[c]
                    \/ inv'[c] \in {"RUNNING", "FAILED", "SUCCEEDED", "OUTCOME_UNKNOWN"}
                       /\ inv[c] \in {"PENDING", "RUNNING"}
      <4>1. rt'.st = "finished" /\ rt'.call = c /\ rt'.out = out
        BY <1>4, <3>5
      <4>2. inv'[c] = out /\ \A d \in CallIds : d # c => inv'[d] = inv[d]
        BY <3>3, <3>5
      <4> QED BY <3>1, <3>4, <4>1, <4>2 DEF Outcomes
    <3>6. CASE /\ rt' = [rt EXCEPT !.st = "finished", !.out = "OUTCOME_UNKNOWN"]
               /\ inv' = inv
      <4>1. rt'.st = "finished" /\ rt'.call = c /\ rt'.out = "OUTCOME_UNKNOWN"
        BY <1>4, <3>6
      <4> QED BY <3>1, <3>4, <3>6, <4>1 DEF Outcomes
    <3> QED BY <3>2, <3>5, <3>6
  <2> QED BY <2>1, <2>2
<1> HIDE DEF c
<1>8. Receipt'
  BY <1>1, <1>2, <1>7 DEF Receipt
<1>9. Invocations'
  BY <1>1, <1>2, <1>7 DEF PromiseInv, Outside, Invocations, Open, Started
<1>10. ReceiptFaithful'
  BY <1>1, <1>5, <1>7 DEF PromiseInv, Outside, ReceiptFaithful
<1>11. Stopping'
  BY <1>1, <1>7 DEF PromiseInv, Outside, Stopping, StopClosesPreparation
<1>12. Decides(inv, inv', user)
  BY <1>7 DEF Decides, CardHolds, Undecided
<1>13. Place(w, loc) /\ (w.pc \in {"inserted", "prepared"} => inv[w.pos.call] \notin {"none", "DENIED"})
       /\ (w.pc \in {"inserted", "prepared"} => w.pos.call \in CallIds)
  BY DEF PromiseInv, Worker, Place
<1> QED BY <1>1, <1>8, <1>9, <1>10, <1>11, <1>12, <1>13, LocalPromise DEF Outside, Decides

\* The awaiting worker wakes with the row a transaction has just stored.
LEMMA WokenStep ==
  ASSUME TypeInv, PromiseInv, w.pc = "await", w' = Go("awaited"),
         Outside', run' \in AgentRunRow, loc' = run',
         Len(run'.calls) >= Len(run.calls), Sound(run'), Backed(run', inv', user')
  PROVE  PromiseInv'
<1>1. w.pc \in Working /\ Place(w, loc)
  BY DEF Working, PromiseInv, Worker
<1>2. /\ w \in Workers /\ w.code # "USER_STOPPED" /\ w.cur <= Len(run.calls)
      /\ w.dec # "approve" /\ run \in AgentRunRow
  BY <1>1, GraphCopy DEF Place
<1>3. /\ w'.pc = "awaited" /\ w'.cur = w.cur /\ w'.dec = w.dec /\ w'.code = w.code
  BY <1>2, GoFacts
<1>4. w'.cur <= Len(loc'.calls)
  <2>1. Len(run.calls) \in Nat /\ Len(run'.calls) \in Nat /\ w.cur \in Nat
    BY <1>2, RowLengths, Zenon DEF Workers
  <2> QED BY <1>2, <1>3, <2>1
<1>5. Place(w', loc')
  BY <1>2, <1>3, <1>4 DEF Place
<1>6. Rows' /\ Copy'
  BY <1>3, FollowsSelf DEF Rows, Copy, InStep
<1>7. Worker'
  BY <1>3, <1>5 DEF Worker, Working
<1> QED BY <1>6, <1>7 DEF PromiseInv

\* The mark of an unknown outcome moves the row without its worker.
LEMMA MarkMoves ==
  ASSUME TypeInv, PromiseInv, NEW c, CanMarkUnknown(run, c), run' = MarkUnknownRow(run),
         inv' = inv, drives' = drives, user' = user, rt' = NoTask
  PROVE  /\ Outside' /\ Moves /\ run' \in AgentRunRow
         /\ Sound(run') /\ Backed(run', inv, user')
         /\ run'.version = run.version + 1 /\ Len(run'.calls) >= Len(run.calls)
<1>1. /\ run \in AgentRunRow /\ Sound(run) /\ Backed(run, inv, user)
      /\ run.pending_execution.dispatched /\ (run.status \in Terminal => Stopped(run))
  BY WorkerFacts DEF PromiseInv, Rows, CanMarkUnknown, Dispatched
<1>2. Carried(run, run') /\ (Stopped(run') <=> run.status \in Terminal)
  BY <1>1, MarkSound
<1>3. Same(run, run') /\ run'.version = run.version + 1 /\ run' \in AgentRunRow
  BY <1>1, TransactionFacts, TransactionTypes
<1>4. Stopped(run) => run.status \in Terminal
  BY DEF Stopped, Terminal
<1>5. Quiet(run, run') /\ Elsewhere
  BY <1>2, <1>3, <1>4, QuietSame DEF Carried, Elsewhere
<1>6. Moves
  BY <1>1, <1>2, <1>3, <1>4 DEF Moves, Forward, MarksStopped, Carried
<1>7. Outside'
  BY <1>5, InvocationsKept, ReceiptKept DEF Outside
<1> QED BY <1>1, <1>2, <1>3, <1>6, <1>7 DEF Carried, Backed, Follows

\* The receipt task records its answer and wakes the worker.
LEMMA PromiseTaskRecord ==
  ASSUME TypeInv, FenceInv, PromiseInv, TaskRecord \/ TaskRecordFault
  PROVE  PromiseInv' /\ Moves
<1> DEFINE c == rt.call
<1>1. /\ rt.st = "finished" /\ rt' = NoTask /\ NoTask.st = "none"
      /\ inv' = inv /\ user' = user /\ drives' = drives
  BY Zenon DEF TaskRecord, TaskRecordFault, NoTask
<1>2. /\ c \in CallIds /\ Dispatched(run, c) /\ drives[c] > 0 /\ rt.out # "none"
      /\ rt.out \in Outcomes => inv[c] = rt.out
      /\ rt.out = "RAISED" => inv[c] \notin Started
  BY <1>1 DEF PromiseInv, Outside, Receipt
<1>3. /\ run \in AgentRunRow /\ w \in Workers /\ Place(w, loc) /\ Len(run.calls) \in Nat
  BY WorkerFacts, RowLengths DEF PromiseInv, Worker
<1>4. Elsewhere
  BY <1>1 DEF Elsewhere
<1>5. ASSUME NEW out \in Outcomes, out = Reported(rt.out) PROVE Truthful(c, out)
  BY <1>2, <1>5 DEF Reported, Truthful, Outcomes, Started
\* What the row may have become.
<1> DEFINE Recorded1(q) ==
      \/ CanMarkUnknown(run, c) /\ q = MarkUnknownRow(run)
      \/ \E out \in Outcomes :
           out = Reported(rt.out) /\ OwnsReceipt(run, c) /\ q = ReceiptRow(run, c, out)
<1>6. ASSUME Recorded1(run')
      PROVE  /\ Outside' /\ Moves /\ run' \in AgentRunRow
             /\ Sound(run') /\ Backed(run', inv', user')
             /\ run'.version = run.version + 1 /\ Len(run'.calls) >= Len(run.calls)
  <2>1. CASE CanMarkUnknown(run, c) /\ run' = MarkUnknownRow(run)
    BY <1>1, <2>1, MarkMoves
  <2>2. ASSUME NEW out \in Outcomes, out = Reported(rt.out), OwnsReceipt(run, c),
               run' = ReceiptRow(run, c, out)
        PROVE  /\ Outside' /\ Moves /\ run' \in AgentRunRow
               /\ Sound(run') /\ Backed(run', inv', user')
               /\ run'.version = run.version + 1 /\ run'.calls = run.calls
    BY <1>1, <1>2, <1>5, <2>2, ReceiptMoves
  <2> QED BY <1>3, <1>6, <2>1, <2>2
<1>7. ASSUME run' = run PROVE Outside'
  BY <1>1, <1>7 DEF PromiseInv, Outside, Invocations, Receipt, ReceiptFaithful, Stopping,
     StopClosesPreparation
<1>8. \A pc \in {"fail", "conflict"} : \A code :
        w.pc = "await" /\ code # "USER_STOPPED" =>
          /\ Left(w, pc, code).pc = pc
          /\ Place(Left(w, pc, code), loc)
  <2>1. w.pc = "await" => w.cur <= Len(loc.calls)
    BY <1>3 DEF Place, Working
  <2> QED BY <1>3, <2>1, GoFacts, PlaceLeft
\* The row is recorded and its worker wakes with it, or with an error.
<1>9. ASSUME Recorded1(run'),
             \/ w.pc = "await" /\ w' = Go("awaited") /\ loc' = run'
             \/ w.pc = "await" /\ w' = Left(w, "fail", "DEPENDENCY_UNAVAILABLE") /\ loc' = loc
             \/ w.pc # "await" /\ w' = w /\ loc' = loc
      PROVE  PromiseInv' /\ Moves
  <2>1. CASE w.pc = "await" /\ w' = Go("awaited") /\ loc' = run'
    BY <1>6, <1>9, <2>1, WokenStep
  <2>2. CASE w.pc = "await" /\ w' = Left(w, "fail", "DEPENDENCY_UNAVAILABLE") /\ loc' = loc
    <3>1. w'.pc \notin Working /\ Place(w', loc)
      BY <1>8, <2>2 DEF Working
    <3> QED BY <1>1, <1>4, <1>6, <1>9, <2>2, <3>1, RowStep
  <2>3. CASE w.pc # "await" /\ w' = w /\ loc' = loc
    BY <1>1, <1>4, <1>6, <1>9, <2>3, RowStep
  <2> QED BY <1>9, <2>1, <2>2, <2>3
\* Nothing is recorded.
<1>10. ASSUME run' = run, loc' = loc,
              \/ /\ w.pc = "await"
                 /\ \/ w' = Left(w, "fail", "DEPENDENCY_UNAVAILABLE")
                    \/ w' = Left(w, "conflict", "none")
              \/ w.pc # "await" /\ w' = w
       PROVE  PromiseInv' /\ Moves
  <2>1. Outside' /\ user.consents \subseteq user'.consents
    BY <1>1, <1>7, <1>10
  <2>2. CASE w.pc # "await" /\ w' = w
    <3>1. w.pc \in {"inserted", "prepared"} => inv'[w.pos.call] \notin {"none", "DENIED"}
      BY <1>1 DEF PromiseInv, Worker
    <3> QED BY <1>1, <1>3, <1>10, <2>1, <2>2, <3>1, LocalPromise, DecidesSelf
  <2>3. CASE /\ w.pc = "await"
             /\ \/ w' = Left(w, "fail", "DEPENDENCY_UNAVAILABLE")
                \/ w' = Left(w, "conflict", "none")
    <3>1. w'.pc \in {"fail", "conflict"} /\ Place(w', loc)
      BY <1>8, <2>3
    <3>2. w.pc \in Holding
      BY <2>3 DEF Holding, WorkerPc
    <3> QED BY <1>1, <1>10, <2>1, <3>1, <3>2, LocalPromise, DecidesSelf DEF Working
  <2> QED BY <1>10, <2>2, <2>3
<1>11. CASE TaskRecord
  <2> DEFINE outcome == Reported(rt.out)
  <2>1. \/ /\ outcome = "OUTCOME_UNKNOWN" /\ CanMarkUnknown(run, c)
           /\ run' = MarkUnknownRow(run) /\ Wake(MarkUnknownRow(run))
        \/ /\ outcome \in Outcomes /\ OwnsReceipt(run, c)
           /\ run' = ReceiptRow(run, c, outcome) /\ Wake(ReceiptRow(run, c, outcome))
        \/ run' = run /\ WakeWith("conflict", "none")
    BY <1>2, <1>11 DEF TaskRecord
  <2> HIDE DEF outcome, c
  <2>2. CASE Wake(run') /\ Recorded1(run')
    <3>1. \/ w.pc = "await" /\ w' = Go("awaited") /\ loc' = run'
          \/ w.pc # "await" /\ w' = w /\ loc' = loc
      BY <2>2 DEF Wake
    <3> QED BY <1>9, <2>2, <3>1
  <2>3. CASE run' = run /\ WakeWith("conflict", "none")
    <3>1. /\ loc' = loc
          /\ \/ w.pc = "await" /\ w' = Left(w, "conflict", "none")
             \/ w.pc # "await" /\ w' = w
      BY <2>3 DEF WakeWith, Exit
    <3> QED BY <1>10, <2>3, <3>1
  <2> QED BY <2>1, <2>2, <2>3 DEF outcome
<1>12. CASE TaskRecordFault
  <2>1. /\ loc' = loc
        /\ \/ w.pc = "await" /\ w' = Left(w, "fail", "DEPENDENCY_UNAVAILABLE")
           \/ w.pc # "await" /\ w' = w
    BY <1>12 DEF TaskRecordFault, WakeWith, Exit
  <2>2. rt.out # "RAISED" /\ Reported(rt.out) = rt.out
    BY <1>12 DEF TaskRecordFault, Reported
  <2>3. run' = run \/ Recorded1(run')
    BY <1>12, <2>2 DEF TaskRecordFault
  <2> QED BY <1>9, <1>10, <2>1, <2>3
<1> QED BY <1>11, <1>12

-----------------------------------------------------------------------------
(* The user and the recovery scan *)

\* A transaction of the user or of the scan moves the row of a run that has not
\* ended, and leaves everything else to its owners.
LEMMA TransactionPromise ==
  ASSUME TypeInv, FenceInv, PromiseInv, Elsewhere, loc' = loc, rt' = rt,
         w' = w \/ (w'.pc \notin Working /\ Place(w', loc)),
         run' \in AgentRunRow, run'.version = run.version + 1, run.status \notin Terminal,
         Same(run, run'), Follows(run, run'),
         Sound(run'), Created(run', inv, user), Approved(run', user'),
         user'.stop = user.stop \/ (user'.stop = "committed" /\ Stopped(run'))
  PROVE  PromiseInv' /\ Moves
<1>1. ~Stopped(run)
  BY DEF Stopped, Terminal
<1>2. Quiet(run, run')
  BY <1>1 DEF Quiet
<1>3. Invocations' /\ ReceiptFaithful' /\ (user'.stop = user.stop => Stopping')
  BY <1>2, InvocationsKept
<1>4. Receipt'
  BY <1>2, ReceiptKept DEF Elsewhere
<1>5. user'.stop = "committed" /\ Stopped(run') => Stopping'
  BY DEF Stopping, StopClosesPreparation
<1>6. Outside'
  BY <1>3, <1>4, <1>5 DEF Outside
<1>7. Len(run'.calls) >= Len(run.calls)
  BY DEF Follows
<1>8. Moves
  BY DEF Moves, Forward
<1>9. Backed(run', inv, user')
  <2>1. \A c : Consented(c, user) => Consented(c, user')
    BY DEF Elsewhere, Consented
  <2> QED BY <2>1 DEF Backed, Created, CardHolds
<1> QED BY <1>6, <1>7, <1>8, <1>9, RowStep

\* A worker that is scheduled again reads the row first.
LEMMA SchedulePlace ==
  ASSUME TypeInv, PromiseInv, Schedule
  PROVE  w' = w \/ (w'.pc \notin Working /\ Place(w', loc))
<1>1. w \in Workers /\ Place(w, loc)
  BY WorkerFacts DEF PromiseInv, Worker
<1>2. w' = w \/ w' = Go("read")
  BY DEF Schedule
<1>3. Go("read").pc = "read" /\ Place(Go("read"), loc)
  BY <1>1, PlacePcs, PlaceRead
<1> QED BY <1>2, <1>3 DEF Working

\* The fields of the user's requests that a step sets.
LEMMA UserFields ==
  ASSUME TypeInv
  PROVE  /\ \A s : LET u == [user EXCEPT !.stop = s] IN u.stop = s /\ u.consents = user.consents
         /\ \A x : LET u == [user EXCEPT !.consents = @ \cup {x}] IN
              u.stop = user.stop /\ u.consents = user.consents \cup {x}
         /\ \A n : LET u == [user EXCEPT !.resumes = n] IN
              u.stop = user.stop /\ u.consents = user.consents
<1>1. user \in Requests
  BY DEF TypeInv, TypeOK
<1> QED BY <1>1, Zenon DEF Requests

\* A stop ends the run where it stands; repeated after a crash it changes nothing.
LEMMA PromiseStop ==
  ASSUME TypeInv, FenceInv, PromiseInv, Stop
  PROVE  PromiseInv' /\ Moves
<1>1. /\ loc' = loc /\ w' = w /\ rt' = rt /\ inv' = inv /\ drives' = drives
      /\ user' = [user EXCEPT !.stop = "committed"]
  BY Zenon DEF Stop
<1>2. user'.stop = "committed" /\ user'.consents = user.consents
  BY <1>1, UserFields
<1>3. /\ run \in AgentRunRow /\ Sound(run) /\ Backed(run, inv, user)
  BY WorkerFacts DEF PromiseInv, Rows
<1>4. Elsewhere
  BY <1>1, <1>2 DEF Elsewhere
<1>5. CASE CanStop(run) /\ run' = StopRow(run)
  <2>1. run.status \in {"PENDING", "RUNNING", "INTERRUPTED"}
    BY <1>5 DEF CanStop
  <2>2. Carried(run, run') /\ Stopped(run') /\ Same(run, run')
    BY <1>3, <1>5, <2>1, StopSound
  <2>3. run' \in AgentRunRow /\ run'.version = run.version + 1
    BY <1>3, <1>5, TransactionTypes, TransactionFacts
  <2>4. Created(run', inv, user) /\ Approved(run', user')
    BY <1>2, <1>3, <2>2 DEF Carried, Backed, Approved, Consented
  <2>5. run.status \notin Terminal
    BY <2>1 DEF Terminal
  <2> QED BY <1>1, <1>2, <1>4, <2>2, <2>3, <2>4, <2>5, TransactionPromise DEF Carried
<1>6. CASE Stopped(run) /\ run' = run
  <2>1. Outside'
    BY <1>1, <1>2, <1>6 DEF PromiseInv, Outside, Invocations, Receipt, ReceiptFaithful,
       Stopping, StopClosesPreparation, Consented
  <2>2. Place(w', loc) /\ (w'.pc \in {"inserted", "prepared"} => inv'[w'.pos.call] \notin {"none", "DENIED"})
    BY <1>1 DEF PromiseInv, Worker
  <2> QED BY <1>1, <1>2, <1>6, <2>1, <2>2, LocalPromise, DecidesSelf
<1> QED BY <1>5, <1>6 DEF Stop

\* The second transaction closes what was prepared and never dispatched.
LEMMA PromiseStopSettle ==
  ASSUME TypeInv, FenceInv, PromiseInv, StopSettle
  PROVE  PromiseInv' /\ Moves
<1> DEFINE c == run.pending_execution.call
<1>1. /\ run' = run /\ loc' = loc /\ w' = w /\ rt' = rt /\ drives' = drives
      /\ user' = [user EXCEPT !.stop = "done"] /\ user.stop = "committed"
  BY Zenon DEF StopSettle
<1>2. user'.stop = "done" /\ user'.consents = user.consents
  BY <1>1, UserFields
<1>3. Stopped(run)
  BY <1>1 DEF PromiseInv, Outside, Stopping
<1>4. inv \in [CallIds -> InvocationStatus] /\ c \in CallIds \cup {None}
  <2>1. run \in AgentRunRow /\ inv \in [CallIds -> InvocationStatus]
    BY WorkerFacts DEF TypeInv, TypeOK
  <2>2. run.pending_execution \in ExecutionRecord
    BY <2>1, Zenon DEF AgentRunRow
  <2> QED BY <2>1, <2>2 DEF ExecutionRecord
<1>5. \/ inv' = inv /\ (run.pending_execution.dispatched \/ c = None \/ inv[c] \notin Open)
      \/ /\ c \in CallIds /\ ~run.pending_execution.dispatched
         /\ \/ inv[c] = "PENDING" /\ inv' = [inv EXCEPT ![c] = "FAILED"]
            \/ inv[c] = "PENDING_CONFIRMATION" /\ inv' = [inv EXCEPT ![c] = "REJECTED"]
  BY <1>4 DEF StopSettle, Open
<1>6. \A d \in CallIds :
        \/ inv'[d] = inv[d] /\ (d = c => run.pending_execution.dispatched \/ inv[d] \notin Open)
        \/ /\ d = c /\ ~run.pending_execution.dispatched
           /\ \/ inv[d] = "PENDING" /\ inv'[d] = "FAILED"
              \/ inv[d] = "PENDING_CONFIRMATION" /\ inv'[d] = "REJECTED"
  BY <1>4, <1>5, CallAssumption
<1>7. Invocations'
  BY <1>1, <1>2, <1>3, <1>6 DEF PromiseInv, Outside, Invocations, Open, Started, Dispatched,
     Consented
<1>8. Receipt'
  <2>1. rt.st # "none" => inv'[rt.call] = inv[rt.call]
    BY <1>6 DEF PromiseInv, Outside, Receipt, Dispatched
  <2> QED BY <1>1, <2>1 DEF PromiseInv, Outside, Receipt
<1>9. ReceiptFaithful'
  BY <1>1, <1>6 DEF PromiseInv, Outside, ReceiptFaithful
<1>10. Stopping'
  <2>1. ASSUME NEW d \in CallIds, inv'[d] \in Open PROVE Fenced(run, d)
    <3>1. inv[d] \in Open /\ (d = c => run.pending_execution.dispatched)
      BY <1>6, <2>1 DEF Open
    <3> QED BY <3>1 DEF PromiseInv, Outside, Invocations, Fenced, Dispatched
  <2> QED BY <1>1, <1>2, <1>3, <2>1 DEF Stopping, StopClosesPreparation, Open
<1>11. Decides(inv, inv', user)
  BY <1>6 DEF Decides, CardHolds, Undecided
<1>12. Place(w, loc) /\ (w.pc \in {"inserted", "prepared"} => inv[w.pos.call] \notin {"none", "DENIED"})
       /\ (w.pc \in {"inserted", "prepared"} => w.pos.call \in CallIds)
  BY DEF PromiseInv, Worker, Place
<1> QED BY <1>1, <1>2, <1>7, <1>8, <1>9, <1>10, <1>11, <1>12, LocalPromise DEF Outside, Decides

\* A reply, a decision and a resume put the run back to work.
LEMMA PromiseReturn ==
  ASSUME TypeInv, FenceInv, PromiseInv, Reply \/ Decide \/ Resume
  PROVE  PromiseInv' /\ Moves
<1>1. /\ loc' = loc /\ rt' = rt /\ inv' = inv /\ drives' = drives /\ Schedule
  BY Zenon DEF Reply, Decide, Resume
<1>2. w' = w \/ (w'.pc \notin Working /\ Place(w', loc))
  BY <1>1, SchedulePlace
<1>3. run \in AgentRunRow /\ Sound(run) /\ Backed(run, inv, user)
  BY WorkerFacts DEF PromiseInv, Rows
<1>4. ASSUME NEW card \in Cards PROVE card[2] \in CallIds \cup {None}
  BY DEF Cards
<1>5. msgs.questions \subseteq Cards /\ msgs.cards \subseteq Cards
  <2>1. msgs \in Messages
    BY DEF TypeInv, TypeOK
  <2> QED BY <2>1 DEF Messages
<1>6. ASSUME Carried(run, run'), run' \in AgentRunRow, run'.version = run.version + 1,
             Same(run, run'), run.status \notin Terminal,
             user'.consents = user.consents, user'.stop = user.stop
      PROVE  PromiseInv' /\ Moves
  <2>1. Elsewhere
    BY <1>1, <1>6 DEF Elsewhere
  <2>2. Created(run', inv, user) /\ Approved(run', user')
    BY <1>3, <1>6 DEF Carried, Backed, Approved, Consented
  <2> QED BY <1>1, <1>2, <1>6, <2>1, <2>2, TransactionPromise DEF Carried
<1>7. CASE Reply
  <2>1. PICK card \in msgs.questions : CanReply(run, card) /\ run' = ReplyRow(run, card)
    BY <1>7 DEF Reply
  <2>2. card[2] \in CallIds \cup {None} /\ run.status = "WAITING_FOR_USER"
    BY <1>4, <1>5, <2>1 DEF CanReply
  <2>3. Carried(run, run')
    BY <1>3, <2>1, <2>2, ReturnSound
  <2>4. run' \in AgentRunRow /\ run'.version = run.version + 1 /\ Same(run, run')
    BY <1>3, <2>1, <2>2, TransactionTypes, TransactionFacts
  <2>5. user' = user /\ run.status \notin Terminal
    BY <1>7, <2>2 DEF Reply, Terminal
  <2> QED BY <1>6, <2>3, <2>4, <2>5
<1>8. CASE Resume
  <2>1. run' = ResumeRow(run) /\ run.status = "INTERRUPTED"
        /\ user' = [user EXCEPT !.resumes = user.resumes + 1]
    BY <1>8 DEF Resume, CanResume
  <2>2. Carried(run, run')
    BY <1>3, <2>1, ReturnSound
  <2>3. run' \in AgentRunRow /\ run'.version = run.version + 1 /\ Same(run, run')
    BY <1>3, <2>1, TransactionTypes, TransactionFacts
  <2>4. user'.consents = user.consents /\ user'.stop = user.stop
    BY <2>1, UserFields
  <2> QED BY <1>6, <2>1, <2>2, <2>3, <2>4 DEF Terminal
<1>9. CASE Decide
  <2>1. PICK card \in msgs.cards, d \in {"approve", "reject"} :
          /\ CanDecide(run, card)
          /\ run' = DecideRow(run, d)
          /\ user' = IF d = "approve"
                       THEN [user EXCEPT !.consents = @ \cup {card}] ELSE user
    BY <1>9, Zenon DEF Decide
  <2>2. run.status = "WAITING_FOR_CONFIRMATION" /\ run.pending_execution.call = card[2]
    BY <2>1 DEF CanDecide
  <2>3. /\ Sound(run') /\ Follows(run, run') /\ (Created(run, inv, user) => Created(run', inv, user))
        /\ run'.confirmation_response = d
        /\ run'.pending_execution = run.pending_execution
    BY <1>3, <2>1, <2>2, ReturnSound
  <2>4. run' \in AgentRunRow /\ run'.version = run.version + 1 /\ Same(run, run')
    BY <1>3, <2>1, TransactionTypes, TransactionFacts
  <2>5. /\ user'.stop = user.stop /\ user.consents \subseteq user'.consents
        /\ d = "approve" => card \in user'.consents
    BY <2>1, UserFields
  <2>6. Approved(run', user')
    BY <2>2, <2>3, <2>5 DEF Approved, Consented
  <2>7. Elsewhere /\ run.status \notin Terminal
    BY <1>1, <2>2, <2>5 DEF Elsewhere, Terminal
  <2> QED BY <1>1, <1>2, <1>3, <2>3, <2>4, <2>5, <2>6, <2>7, TransactionPromise DEF Backed
<1> QED BY <1>7, <1>8, <1>9

\* A receipt found by the user's resume or by the scan is the one of the Invocation.
LEMMA PromiseLookup ==
  ASSUME TypeInv, FenceInv, PromiseInv, Reconcile \/ RecoverStopped
  PROVE  PromiseInv' /\ Moves
<1> DEFINE c == run.pending_execution.call
<1>1. /\ loc' = loc /\ w' = w /\ rt' = rt /\ inv' = inv /\ user' = user /\ drives' = drives
      /\ OwnsReceipt(run, c) /\ inv[c] \in Outcomes /\ run' = ReceiptRow(run, c, inv[c])
  BY Zenon DEF Reconcile, RecoverStopped
<1>2. rt.st = "none"
  <2>1. CASE RecoverStopped
    BY <2>1, Zenon DEF RecoverStopped, Unprotected
  <2>2. CASE Reconcile
    <3>1. ~sys.closing /\ run.status = "INTERRUPTED"
      BY <2>2, Zenon DEF Reconcile
    <3>2. w.pc # "await"
      BY <3>1 DEF FenceInv, WorkerHolds, Working
    <3> QED BY <3>1, <3>2 DEF FenceInv, TaskIsOwned
  <2> QED BY <2>1, <2>2
<1> HIDE DEF c
<1>3. /\ Outside' /\ Moves /\ run' \in AgentRunRow
      /\ Sound(run') /\ Backed(run', inv, user')
      /\ run'.version = run.version + 1 /\ run'.calls = run.calls
  BY <1>1, <1>2, ReceiptMoves
<1>4. Elsewhere /\ Len(run'.calls) >= Len(run.calls)
  <2>1. Len(run.calls) \in Nat
    BY WorkerFacts, RowLengths
  <2> QED BY <1>1, <1>3, <2>1 DEF Elsewhere
<1> QED BY <1>1, <1>3, <1>4, RowStep

\* The scan interrupts what nobody advances, and ends what cannot continue.
LEMMA PromiseRecover ==
  ASSUME TypeInv, FenceInv, PromiseInv, RecoverActive \/ RecoverNoCheckpoint
  PROVE  PromiseInv' /\ Moves
<1>1. /\ loc' = loc /\ w' = w /\ rt' = rt /\ inv' = inv /\ user' = user /\ drives' = drives
  BY Zenon DEF RecoverActive, RecoverNoCheckpoint
<1>2. run \in AgentRunRow /\ Sound(run) /\ Backed(run, inv, user)
  BY WorkerFacts DEF PromiseInv, Rows
<1>3. ASSUME Carried(run, run'), run' \in AgentRunRow, run'.version = run.version + 1,
             Same(run, run'), run.status \notin Terminal
      PROVE  PromiseInv' /\ Moves
  <2>1. Elsewhere
    BY <1>1 DEF Elsewhere
  <2>2. Created(run', inv, user) /\ Approved(run', user')
    BY <1>1, <1>2, <1>3 DEF Carried, Backed
  <2> QED BY <1>1, <1>3, <2>1, <2>2, TransactionPromise DEF Carried
<1>4. CASE RecoverActive
  <2>1. run.status \in {"PENDING", "RUNNING"} /\ run' = RecoverRow(run)
    BY <1>4, Zenon DEF RecoverActive
  <2>2. Carried(run, run')
    BY <1>2, <2>1, RecoverSound
  <2>3. run' \in AgentRunRow /\ run'.version = run.version + 1 /\ Same(run, run')
    BY <1>2, <2>1, TransactionTypes, TransactionFacts
  <2> QED BY <1>3, <2>1, <2>2, <2>3 DEF Terminal
<1>5. CASE RecoverNoCheckpoint
  <2>1. /\ run.status \in {"INTERRUPTED"} \cup Waiting
        /\ run' = [Bump(run) EXCEPT !.status = "TERMINATED", !.error_code = "FATAL"]
    BY <1>5, Zenon DEF RecoverNoCheckpoint
  <2>2. Carried(run, run')
    BY <1>2, <2>1, EndSound
  <2>3. Bump(run) \in AgentRunRow /\ Same(run, Bump(run)) /\ Bump(run).version = run.version + 1
    BY <1>2, BumpType, RowFacts
  <2>4. /\ run' \in AgentRunRow /\ run'.version = run.version + 1 /\ Same(run, run')
    BY <2>1, <2>3, Members, Zenon DEF Same, AgentRunRow
  <2> QED BY <1>3, <2>1, <2>2, <2>4 DEF Terminal, Waiting
<1> QED BY <1>4, <1>5

-----------------------------------------------------------------------------
(* Recovery of Invocations, crashes and shutdowns *)

\* Recovery settles only what no task of this process drives.
LEMMA PromiseInvocations ==
  ASSUME TypeInv, FenceInv, PromiseInv, InvocationRecovery
  PROVE  PromiseInv' /\ Moves
<1>1. /\ run' = run /\ loc' = loc /\ w' = w /\ rt' = rt /\ user' = user /\ drives' = drives
  BY Zenon DEF InvocationRecovery
<1>2. inv \in [CallIds -> InvocationStatus]
  BY DEF TypeInv, TypeOK
<1>3. PICK c \in CallIds, s \in Outcomes \cup {"OUTCOME_UNKNOWN"} :
        /\ inv' = [inv EXCEPT ![c] = s]
        /\ \/ inv[c] = "RUNNING" /\ rt.call # c
           \/ inv[c] = "OUTCOME_UNKNOWN" /\ s \in Outcomes
  BY DEF InvocationRecovery
<1>4. /\ inv'[c] = s /\ s \in {"SUCCEEDED", "FAILED", "OUTCOME_UNKNOWN"}
      /\ inv[c] \in {"RUNNING", "OUTCOME_UNKNOWN"}
      /\ \A d \in CallIds : d # c => inv'[d] = inv[d]
  BY <1>2, <1>3 DEF Outcomes
<1>5. Invocations'
  BY <1>1, <1>4 DEF PromiseInv, Outside, Invocations, Open, Started
<1>6. Receipt'
  <2>1. CASE rt.call # c
    BY <1>1, <1>4, <2>1 DEF PromiseInv, Outside, Receipt
  <2>2. CASE rt.call = c /\ inv[c] = "OUTCOME_UNKNOWN"
    BY <1>1, <1>4, <2>2 DEF PromiseInv, Outside, Receipt, Outcomes, Started
  <2> QED BY <1>3, <2>1, <2>2
<1>7. ReceiptFaithful'
  BY <1>1, <1>4 DEF PromiseInv, Outside, ReceiptFaithful
<1>8. Stopping'
  BY <1>1, <1>4 DEF PromiseInv, Outside, Stopping, StopClosesPreparation
<1>9. Decides(inv, inv', user)
  BY <1>4 DEF Decides, CardHolds, Undecided
<1>10. Place(w, loc) /\ (w.pc \in {"inserted", "prepared"} => inv[w.pos.call] \notin {"none", "DENIED"})
       /\ (w.pc \in {"inserted", "prepared"} => w.pos.call \in CallIds)
  BY DEF PromiseInv, Worker, Place
<1> QED BY <1>1, <1>5, <1>6, <1>7, <1>8, <1>9, <1>10, LocalPromise DEF Outside, Decides

\* A crash forgets the copy, the tasks and a stop request in flight.
LEMMA PromiseCrash ==
  ASSUME TypeInv, FenceInv, PromiseInv, Crash
  PROVE  PromiseInv' /\ Moves
<1>1. /\ run' = run /\ loc' = NewRow /\ w' = IdleWorker /\ rt' = NoTask
      /\ inv' = inv /\ drives' = drives
      /\ user' = [user EXCEPT !.stop = IF user.stop = "committed" THEN "lost" ELSE user.stop]
  BY DEF Crash
<1>2. /\ user'.stop = (IF user.stop = "committed" THEN "lost" ELSE user.stop)
      /\ user'.consents = user.consents
  BY <1>1, UserFields
<1>3. Elsewhere
  BY <1>1, <1>2 DEF Elsewhere
<1>4. Stopping'
  BY <1>1, <1>2 DEF PromiseInv, Outside, Stopping, StopClosesPreparation
<1>5. w'.pc \notin Working /\ w'.pc \notin Holding /\ Place(w', loc')
  BY <1>1, IdlePlaces DEF Working, Holding
<1> QED BY <1>1, <1>3, <1>4, <1>5, NewRowBacked, FreshCopy

\* A shutdown cancels the worker; a model call in flight is charged first.
LEMMA PromiseClose ==
  ASSUME TypeInv, FenceInv, PromiseInv, TypeInv', Close
  PROVE  PromiseInv' /\ Moves
<1> DEFINE r == Settled(loc, "FAILED")
<1>1. UNCHANGED external /\ w' \in {Go("raised"), Go("dying")}
  BY DEF Close
<1>2. w \in Workers /\ Place(w, loc)
  BY WorkerFacts DEF PromiseInv, Worker
<1>3. w'.pc \in {"raised", "dying"} /\ \A q : Place(w', q)
  BY <1>1, <1>2, PlacePcs, PlaceRead
<1>4. w'.pc \notin Working /\ w'.pc \notin Holding /\ w'.pc \notin {"inserted", "prepared"}
  BY <1>3 DEF Working, Holding
<1>5. CASE run' = run /\ loc' = loc
  <2>1. Outside' /\ user' = user /\ inv' = inv
    BY <1>1, <1>5, OutsideSame
  <2> QED BY <1>3, <1>4, <1>5, <2>1, LocalPromise, DecidesSelf
<1>6. CASE /\ w.pc = "calling" /\ SaveAccepted(run, r)
           /\ run' = Saved(r) /\ loc' = Saved(r)
  <2>1. w.pc \in Working /\ w.pc \in Holding
    BY <1>6 DEF Working, Holding, WorkerPc
  <2>2. Edit(r) /\ r.status = loc.status
    BY <1>2, <1>6, SettledEdit DEF Place
  <2> HIDE DEF r
  <2>3. run.version = loc.version /\ run.version = r.version
    BY <1>6, <2>2 DEF SaveAccepted, Edit
  <2>4. run.status = loc.status
    BY <2>1, <2>3 DEF PromiseInv, Copy, InStep
  <2>5. loc.status = "RUNNING"
    BY <1>6, <2>1 DEF FenceInv, WorkerHolds
  <2>6. Attempt(r)
    BY <1>6, <2>3, <2>4, <2>5 DEF Attempt, Terminal
  <2> QED BY <1>1, <1>3, <1>4, <2>1, <2>2, <2>6, LeavesKeep
<1>7. \/ run' = run /\ loc' = loc
      \/ /\ w.pc = "calling" /\ SaveAccepted(run, r)
         /\ run' = Saved(r) /\ loc' = Saved(r)
  BY Zenon DEF Close, Store
<1> QED BY <1>5, <1>6, <1>7

-----------------------------------------------------------------------------
(* The invariant is inductive *)

\* A submitted run satisfies the invariant.
LEMMA PromiseInit == Init => PromiseInv
<1> SUFFICES ASSUME Init PROVE PromiseInv
  OBVIOUS
<1>1. /\ run = NewRow /\ loc = NewRow /\ w = [IdleWorker EXCEPT !.pc = "read"]
      /\ rt.st = "none" /\ inv = [c \in CallIds |-> "none"]
      /\ user.stop = "none"
  BY DEF Init, NoTask
<1>2. w.pc = "read" /\ w.code = "none"
  BY <1>1 DEF IdleWorker
<1>3. Rows
  BY <1>1, NewRowBacked DEF Rows
<1>4. Copy /\ Worker
  BY <1>2 DEF Copy, Worker, Place, Holding, Working
<1>5. NewRow.observations = [c \in CallIds |-> "none"]
  BY DEF NewRow
<1>6. Invocations /\ Receipt
  BY <1>1 DEF Invocations, Receipt, Open, Started
<1>7. ReceiptFaithful /\ Stopping
  BY <1>1, <1>5 DEF ReceiptFaithful, Stopping, StopClosesPreparation
<1> QED BY <1>3, <1>4, <1>6, <1>7 DEF PromiseInv, Outside

\* A step that changes nothing.
LEMMA PromiseStutter ==
  ASSUME TypeInv, FenceInv, PromiseInv, UNCHANGED vars
  PROVE  PromiseInv' /\ Moves
<1>1. /\ run' = run /\ loc' = loc /\ w' = w /\ rt' = rt /\ inv' = inv
      /\ user' = user /\ drives' = drives
  BY Zenon DEF vars
<1>2. UNCHANGED external
  BY <1>1 DEF external
<1>3. Outside'
  BY <1>1, <1>2, OutsideSame
<1>4. Place(w, loc) /\ (w.pc \in {"inserted", "prepared"} => inv[w.pos.call] \notin {"none", "DENIED"})
  BY DEF PromiseInv, Worker
<1> QED BY <1>1, <1>3, <1>4, LocalPromise, DecidesSelf

\* Every step keeps the invariant and moves the row only as Moves says.
LEMMA PromiseStep ==
  TypeInv /\ FenceInv /\ PromiseInv /\ [Next]_vars => PromiseInv' /\ Moves
<1> SUFFICES ASSUME TypeInv, FenceInv, PromiseInv, [Next]_vars PROVE PromiseInv' /\ Moves
  OBVIOUS
<1>1. TypeInv'
  BY TypeStep
<1>2. CASE UNCHANGED vars
  BY <1>2, PromiseStutter
<1>3. CASE WorkerNext
  <2>1. CASE ModelStep
    <3>1. ASSUME NEW code \in {"none", "LLM_TEMPORARILY_UNAVAILABLE", "FATAL"},
                 NEW retry \in BOOLEAN, ModelFailure(code, retry)
          PROVE  PromiseInv' /\ Moves
      BY <1>1, <3>1, PromiseModelFailure
    <3> QED BY <1>1, <2>1, <3>1, PromiseBeforeModel, PromiseAnswer
            DEF ModelStep, ModelRetry, ModelPaused, ModelRejected
  <2>2. CASE ToolStep
    BY <1>1, <2>2, PromiseReplay, PromiseAsk, PromiseResolve, PromisePrepare, PromisePrepared,
       PromiseShowCard, PromiseDecision, PromiseConfirmed, PromiseDispatch, PromiseContinue,
       PromiseFound, PromiseRecorded, Zenon DEF ToolStep
  <2>3. CASE EndStep
    BY <1>1, <2>3, PromiseInterrupted, PromiseRefused, PromiseFinal, PromiseFail,
       PromiseCloseout, PromiseRaised, Zenon DEF EndStep
  <2> QED BY <1>1, <1>3, <2>1, <2>2, <2>3, PromiseRead, PromiseCloseout, PromiseClaim, Zenon
          DEF WorkerNext
<1>4. CASE TaskNext
  BY <1>4, PromiseStart, PromiseTaskRecord, Zenon DEF TaskNext
<1>5. CASE UserNext \/ ScanNext
  BY <1>5, PromiseStop, PromiseStopSettle, PromiseReturn, PromiseLookup, PromiseRecover, Zenon
     DEF UserNext, ScanNext
<1>6. CASE InvocationRecovery \/ Crash \/ Close
  BY <1>1, <1>6, PromiseInvocations, PromiseCrash, PromiseClose
<1> QED BY <1>2, <1>3, <1>4, <1>5, <1>6, Zenon DEF Next

\* What every reachable state keeps.
AllInv == TypeInv /\ FenceInv /\ PromiseInv

\* The three invariants hold at first.
LEMMA AllInit == Init => AllInv
BY TypeInit, FenceInit, PromiseInit DEF AllInv

\* Every step keeps the three invariants and moves the row as Moves says.
LEMMA AllStep == AllInv /\ [Next]_vars => AllInv' /\ Moves
BY TypeStep, FenceStep, PromiseStep DEF AllInv

-----------------------------------------------------------------------------
(* What a step does to the Invocations and to the executor *)

\* A stopped run gets no new Invocation, and starts only what it dispatched.
Settles ==
  \A c \in CallIds :
    Stopped(run) /\ inv'[c] # inv[c] =>
      inv[c] # "none" /\ (inv'[c] = "RUNNING" => Dispatched(run, c))

\* A call is handed to its executor behind its fence and, unless it is a batch,
\* for the first time.
HandsOver ==
  \/ drives' = drives
  \/ /\ run' = run
     /\ \E c \in CallIds :
          /\ drives' = [drives EXCEPT ![c] = @ + 1]
          /\ KindOf[c] # "batch" => Dispatched(run, c) /\ drives[c] = 0

\* All but eight actions leave the Invocations and the executor alone.
LEMMA QuietSteps ==
  ASSUME [Next]_vars
  PROVE  \/ inv' = inv /\ drives' = drives
         \/ Prepare \/ Authorize \/ ApplyDecision \/ Continue \/ TaskStart \/ TaskFinish
         \/ StopSettle \/ InvocationRecovery
<1>1. ModelStep => UNCHANGED external
  BY Zenon DEF ModelStep, BeforeModel, OnModel, ModelRetry, ModelPaused, ModelRejected,
     ModelFailure
<1>2. ReplayCompleted \/ ReplayAnswered \/ SourceMismatch \/ AskUser \/ Resolve \/ Prepared
        \/ ShowCard \/ Confirmed \/ Found \/ Recorded \/ Awaited => UNCHANGED external
  BY Zenon DEF ReplayCompleted, ReplayAnswered, SourceMismatch, AskUser, Resolve, Prepared,
     ShowCard, Confirmed, Found, Recorded, Awaited
<1>3. DispatchFence => inv' = inv /\ drives' = drives
  BY Zenon DEF DispatchFence
<1>4. EndStep => UNCHANGED external
  BY Zenon DEF EndStep, Interrupted, NodeRefused, FinalAnswer, FailSettle, FailSave, Conflict,
     Raised, RaisedSave, Dying
<1>5. Read \/ CloseoutFault \/ Claim \/ Checkpoint \/ Close => UNCHANGED external
  BY Zenon DEF Read, CloseoutFault, Claim, Checkpoint, Close
<1>6. TaskRecord \/ TaskRecordFault \/ Crash => inv' = inv /\ drives' = drives
  BY Zenon DEF TaskRecord, TaskRecordFault, Crash
<1>7. Stop \/ Reply \/ Decide \/ Reconcile \/ Resume => inv' = inv /\ drives' = drives
  BY Zenon DEF Stop, Reply, Decide, Reconcile, Resume
<1>8. ScanNext => inv' = inv /\ drives' = drives
  BY Zenon DEF ScanNext, RecoverActive, RecoverNoCheckpoint, RecoverStopped
<1>9. UNCHANGED external => inv' = inv /\ drives' = drives
  BY Zenon DEF external
<1>10. UNCHANGED vars => inv' = inv /\ drives' = drives
  BY Zenon DEF vars
<1>11. WorkerNext => \/ inv' = inv /\ drives' = drives
                     \/ Prepare \/ Authorize \/ ApplyDecision \/ Continue
  BY <1>1, <1>2, <1>3, <1>4, <1>5, <1>9, Zenon DEF WorkerNext, ToolStep
<1>12. TaskNext \/ UserNext => \/ inv' = inv /\ drives' = drives
                               \/ TaskStart \/ TaskFinish \/ StopSettle
  BY <1>6, <1>7, Zenon DEF TaskNext, UserNext
<1> QED BY <1>5, <1>6, <1>8, <1>9, <1>10, <1>11, <1>12, Zenon DEF Next

\* Every step treats the Invocations and the executor as said above.
LEMMA SettleStep == AllInv /\ [Next]_vars => Settles /\ HandsOver
<1> SUFFICES ASSUME AllInv, [Next]_vars PROVE Settles /\ HandsOver
  OBVIOUS
<1>1. TypeInv /\ FenceInv /\ PromiseInv
  BY DEF AllInv
<1>2. inv \in [CallIds -> InvocationStatus]
  BY <1>1 DEF TypeInv, TypeOK
<1>3. ASSUME NEW c, NEW s, s # "RUNNING", inv[c] # "none" \/ ~Stopped(run),
             inv' = [inv EXCEPT ![c] = s]
      PROVE  Settles
  BY <1>2, <1>3 DEF Settles
<1>4. CASE inv' = inv /\ drives' = drives
  BY <1>4 DEF Settles, HandsOver
<1>5. CASE Prepare \/ Authorize
  <2>1. drives' = drives /\ (inv' = inv \/ \E s : Recreated(s))
    BY <1>5, PrepareShape, Zenon
  <2>2. HandsOver
    BY <2>1 DEF HandsOver
  <2>3. CASE inv' = inv
    BY <2>2, <2>3 DEF Settles
  <2>4. ASSUME NEW s, Recreated(s) PROVE Settles
    BY <1>1, <1>3, <1>5, <2>4, RecreatedFacts DEF Recreated
  <2> QED BY <2>1, <2>2, <2>3, <2>4
<1>6. CASE ApplyDecision
  <2>1. drives' = drives
    BY <1>6, Zenon DEF ApplyDecision, external
  <2>2. \/ inv' = inv
        \/ /\ inv[Call] = "PENDING_CONFIRMATION"
           /\ \E s \in {"EXPIRED", "PENDING", "REJECTED"} : inv' = [inv EXCEPT ![Call] = s]
    BY <1>6 DEF ApplyDecision, external
  <2>3. CASE inv' = inv
    BY <2>1, <2>3 DEF Settles, HandsOver
  <2> QED BY <1>3, <2>1, <2>2, <2>3 DEF HandsOver
<1>7. CASE Continue
  <2>1. Permitted /\ loc.pending_execution.dispatched /\ run' = run
    BY <1>7, Zenon DEF Continue, Record
  <2>2. Call \in CallIds /\ KindOf[Call] = "batch" /\ inv[Call] # "none"
    BY <1>1, <2>1, ContinuedCall
  <2>3. drives' = drives \/ drives' = [drives EXCEPT ![Call] = @ + 1]
    BY <1>7 DEF Continue
  <2>4. inv' = inv \/ \E s \in Outcomes \cup {"OUTCOME_UNKNOWN"} : inv' = [inv EXCEPT ![Call] = s]
    BY <1>7 DEF Continue
  <2>5. HandsOver
    BY <2>1, <2>2, <2>3 DEF HandsOver
  <2>6. CASE inv' = inv
    BY <2>5, <2>6 DEF Settles
  <2> QED BY <1>3, <2>2, <2>4, <2>5, <2>6 DEF Outcomes
<1>8. CASE TaskStart
  <2>1. rt.st = "start" /\ run' = run /\ drives' = [drives EXCEPT ![rt.call] = @ + 1]
    BY <1>8 DEF TaskStart
  <2>2. rt.call \in CallIds /\ Dispatched(run, rt.call) /\ drives[rt.call] = 0
    BY <1>1, <2>1 DEF PromiseInv, Outside, Receipt
  <2>3. inv' = inv \/ (inv[rt.call] = "PENDING" /\ \E s : inv' = [inv EXCEPT ![rt.call] = s])
    BY <1>8 DEF TaskStart
  <2>4. Settles
    BY <1>2, <2>2, <2>3 DEF Settles
  <2> QED BY <2>1, <2>2, <2>4 DEF HandsOver
<1>9. CASE TaskFinish
  <2>1. rt.st = "running" /\ drives' = drives
    BY <1>9 DEF TaskFinish
  <2>2. inv[rt.call] = "RUNNING"
    BY <1>1, <2>1 DEF PromiseInv, Outside, Receipt
  <2>3. inv' = inv \/ \E s \in Outcomes \cup {"OUTCOME_UNKNOWN"} : inv' = [inv EXCEPT ![rt.call] = s]
    BY <1>9 DEF TaskFinish
  <2>4. CASE inv' = inv
    BY <2>1, <2>4 DEF Settles, HandsOver
  <2> QED BY <1>3, <2>1, <2>2, <2>3, <2>4 DEF Outcomes, HandsOver
<1>10. CASE StopSettle
  <2> DEFINE c == run.pending_execution.call
  <2>1. drives' = drives
    BY <1>10 DEF StopSettle
  <2>2. \/ inv' = inv
        \/ inv[c] # "none" /\ \E s \in {"FAILED", "REJECTED"} : inv' = [inv EXCEPT ![c] = s]
    BY <1>10 DEF StopSettle
  <2>3. CASE inv' = inv
    BY <2>1, <2>3 DEF Settles, HandsOver
  <2> QED BY <1>3, <2>1, <2>2, <2>3 DEF HandsOver
<1>11. CASE InvocationRecovery
  <2>1. drives' = drives
    BY <1>11 DEF InvocationRecovery
  <2>2. \E c \in CallIds, s \in Outcomes \cup {"OUTCOME_UNKNOWN"} :
          inv[c] \in {"RUNNING", "OUTCOME_UNKNOWN"} /\ inv' = [inv EXCEPT ![c] = s]
    BY <1>11 DEF InvocationRecovery
  <2> QED BY <1>3, <2>1, <2>2 DEF Outcomes, HandsOver
<1> QED BY <1>4, <1>5, <1>6, <1>7, <1>8, <1>9, <1>10, <1>11, QuietSteps

-----------------------------------------------------------------------------
(***************************************************************************)
(* Consent.  A card is put up only for an Invocation that waits for it,    *)
(* and such an Invocation goes on only with the approval of that card      *)
(* (Created, above).  As long as nothing crashed and no database error     *)
(* came, an Invocation that waits for nobody was approved, or is being     *)
(* authorized right now, or belongs to a run that ended; hence what passes *)
(* the fence was approved.                                                 *)
(***************************************************************************)

\* Nothing has cut off a transaction so far.
Clean == sys.crashes = 0 /\ sys.faults = 0

\* What an Invocation may be that neither waits for its user nor was refused.
Passed == {"PENDING", "RUNNING", "SUCCEEDED", "FAILED", "OUTCOME_UNKNOWN"}

\* The authorization of the call is still to come, or nothing follows any more.
Unsettled(c) == (w.pc = "inserted" /\ w.pos.call = c) \/ Stopped(run) \/ sys.closing

\* The receipt task is about to hand the call over, or it was handed over.
Handed(c) == drives[c] > 0 \/ Starting(c)

ConsentInv ==
  /\ \A card \in msgs.cards : card[2] \in CallIds /\ CardHolds(card[2], inv, user)
  /\ w.pc = "inserted" /\ KindOf[Call] = "confirm" =>
       (inv[Call] = "PENDING" /\ OwnerActive(loc.version, loc.claim)) \/ Stopped(run)
  /\ Clean =>
       \A c \in CallIds : KindOf[c] = "confirm" /\ ~Consented(c, user) =>
         /\ inv[c] \in Passed => Unsettled(c)
         /\ Handed(c) => inv[c] \in {"REJECTED", "EXPIRED"}

\* A save may leave messages and may count a fault.
Writes ==
  /\ msgs' = msgs \/ \E r : Store(r)
  /\ sys' = sys \/ sys' = [sys EXCEPT !.faults = @ + 1]

\* Saving writes, and so does a step that leaves both alone.
LEMMA SaveWrites ==
  /\ \A r : SaveOk(r) \/ SaveFault(r) \/ SaveConflict(r) \/ SaveInvalid(r) => Writes
  /\ \A r, next : Persist(r, next) => Writes
  /\ \A code : Raise(code) => Writes
  /\ msgs' = msgs /\ sys' = sys => Writes
<1>1. \A r : SaveOk(r) \/ SaveFault(r) \/ SaveConflict(r) \/ SaveInvalid(r) => Writes
  BY Zenon DEF SaveOk, SaveFault, SaveConflict, SaveInvalid, Writes
<1>2. \A r, next : Persist(r, next) => Writes
  BY <1>1, Zenon DEF Persist
<1>3. \A code : Raise(code) => Writes
  BY Zenon DEF Raise, Writes
<1> QED BY <1>1, <1>2, <1>3, Zenon DEF Writes

\* What a step does to the messages and to the process.
LEMMA StepWrites ==
  ASSUME [Next]_vars
  PROVE  /\ msgs' = msgs \/ \E r : Store(r)
         /\ Writes \/ Close \/ Crash
<1>1. ModelStep => Writes
  BY SaveWrites, Zenon DEF ModelStep, BeforeModel, OnModel, ModelRetry, ModelPaused,
     ModelRejected, ModelFailure
<1>2. ReplayCompleted \/ ReplayAnswered \/ SourceMismatch \/ AskUser \/ Resolve => Writes
  BY SaveWrites, Zenon DEF ReplayCompleted, ReplayAnswered, SourceMismatch, AskUser, Resolve
<1>3. Prepare \/ Authorize => Writes
  BY PrepareShape, Zenon DEF PrepareFault, Writes
<1>4. Prepared \/ ShowCard \/ ApplyDecision \/ Confirmed => Writes
  BY SaveWrites, Zenon DEF Prepared, ShowCard, ApplyDecision, Confirmed
<1>5. DispatchFence \/ Continue \/ Found \/ Recorded \/ Awaited => Writes
  BY SaveWrites, Zenon DEF DispatchFence, Continue, Found, Recorded, Awaited
<1>6. EndStep => Writes
  BY SaveWrites, Zenon DEF EndStep, Interrupted, NodeRefused, FinalAnswer, FailSettle, FailSave,
     Conflict, Raised, RaisedSave, Dying
<1>7. Read \/ Claim \/ Checkpoint => Writes
  BY SaveWrites, Zenon DEF Read, Claim, Checkpoint
<1>8. CloseoutFault \/ TaskFinish \/ TaskRecordFault => Writes
  BY Zenon DEF CloseoutFault, TaskFinish, TaskRecordFault, Writes
<1>9. TaskStart \/ TaskRecord \/ Stop \/ StopSettle \/ Reply \/ Decide \/ Reconcile \/ Resume
        \/ RecoverActive \/ RecoverNoCheckpoint \/ RecoverStopped \/ InvocationRecovery
        => Writes
  BY SaveWrites, Zenon DEF TaskStart, TaskRecord, Stop, StopSettle, Reply, Decide, Reconcile,
     Resume, RecoverActive, RecoverNoCheckpoint, RecoverStopped, InvocationRecovery
<1>10. UNCHANGED vars => Writes
  BY SaveWrites, Zenon DEF vars
<1>11. Close \/ Crash => msgs' = msgs \/ \E r : Store(r)
  BY Zenon DEF Close, Crash
<1>12. Writes => msgs' = msgs \/ \E r : Store(r)
  BY Zenon DEF Writes
<1>13. ToolStep => Writes
  BY <1>2, <1>3, <1>4, <1>5, Zenon DEF ToolStep
<1>14. WorkerNext => Writes
  BY <1>1, <1>6, <1>7, <1>8, <1>13, Zenon DEF WorkerNext
<1> QED BY <1>8, <1>9, <1>10, <1>11, <1>12, <1>14, Zenon
        DEF Next, TaskNext, UserNext, ScanNext

\* What was clean stays so only without a fault, and a shutdown ends in a crash.
LEMMA CleanMoves ==
  ASSUME AllInv, [Next]_vars, Clean'
  PROVE  /\ Clean /\ ~Crash /\ ~PrepareFault
         /\ sys.closing => sys'.closing
         /\ Close => sys'.closing
<1>1. sys \in [closing: BOOLEAN, crashes: Nat, faults: Nat]
  BY DEF AllInv, TypeInv, TypeOK
<1>2. ~Crash /\ ~PrepareFault
  <2>1. Crash => sys'.crashes = sys.crashes + 1
    BY <1>1 DEF Crash
  <2>2. PrepareFault => sys'.faults = sys.faults + 1
    BY <1>1 DEF PrepareFault
  <2>3. sys'.crashes = 0 /\ sys'.faults = 0 /\ sys.crashes \in Nat /\ sys.faults \in Nat
    BY <1>1 DEF Clean
  <2> QED BY <2>1, <2>2, <2>3
<1>3. Close => sys'.closing /\ sys'.crashes = sys.crashes /\ sys'.faults = sys.faults
  BY <1>1 DEF Close
<1>4. Writes => /\ sys'.closing = sys.closing /\ sys'.crashes = sys.crashes
                /\ sys'.faults = 0 => sys.faults = 0
  BY <1>1 DEF Writes
<1>5. Writes \/ Close
  BY <1>2, StepWrites
<1> QED BY <1>2, <1>3, <1>4, <1>5 DEF Clean

\* How the Invocation of a call moves.
Goes(c) ==
  \/ inv'[c] = inv[c]
  \/ KindOf[c] = "batch"
  \/ /\ inv[c] = "PENDING" /\ inv'[c] \in Passed
     /\ rt.st # "none" \/ Stopped(run)
  \/ inv[c] \in {"RUNNING", "OUTCOME_UNKNOWN"} /\ inv'[c] \in Passed
  \/ Prepare /\ c = Call /\ inv[c] = "none" /\ inv'[c] = "PENDING"
  \/ Authorize /\ c = Call /\ inv[c] = "PENDING" /\ inv'[c] \in Authorized(c)
  \/ /\ inv[c] = "PENDING_CONFIRMATION"
     /\ inv'[c] \in {"REJECTED", "EXPIRED"} \/ Consented(c, user)

LEMMA InvocationsGo == AllInv /\ [Next]_vars => \A c \in CallIds : Goes(c)
<1> SUFFICES ASSUME AllInv, [Next]_vars, NEW c \in CallIds PROVE Goes(c)
  OBVIOUS
<1>1. TypeInv /\ FenceInv /\ PromiseInv
  BY DEF AllInv
<1>2. inv \in [CallIds -> InvocationStatus]
  BY <1>1 DEF TypeInv, TypeOK
<1>3. CASE inv' = inv
  BY <1>3 DEF Goes
<1>4. CASE Prepare \/ Authorize
  <2>1. ASSUME NEW s, Recreated(s) PROVE Goes(c)
    <3>1. inv'[c] = IF c = Call THEN s ELSE inv[c]
      BY <1>1, <1>2, <2>1 DEF Recreated
    <3> QED BY <2>1, <3>1 DEF Goes, Recreated
  <2> QED BY <1>3, <1>4, <2>1, PrepareShape, Zenon
<1>5. CASE ApplyDecision
  <2>1. \/ inv' = inv
        \/ /\ inv[Call] = "PENDING_CONFIRMATION"
           /\ \E s \in {"EXPIRED", IF w.dec = "approve" THEN "PENDING" ELSE "REJECTED"} :
                inv' = [inv EXCEPT ![Call] = s]
    BY <1>5 DEF ApplyDecision, external
  <2>2. w.dec = "approve" => Consented(Call, user)
    <3>1. /\ Handling /\ loc.pending_execution.call = Call
      BY <1>5, Zenon DEF ApplyDecision, NeedsConsent, Ready
    <3>2. w.pc \in Working
      BY <1>1, <3>1, AtTheTool
    <3>3. w.dec = "approve" => loc.confirmation_response = "approve"
      BY <1>1, <3>2, GraphCopy
    <3> QED BY <1>1, <3>1, <3>3 DEF PromiseInv, Rows, Backed, Approved
  <2>3. ASSUME NEW s \in {"EXPIRED", IF w.dec = "approve" THEN "PENDING" ELSE "REJECTED"},
               inv[Call] = "PENDING_CONFIRMATION", inv' = [inv EXCEPT ![Call] = s]
        PROVE  Goes(c)
    <3>1. inv'[c] = IF c = Call THEN s ELSE inv[c]
      BY <1>2, <2>3
    <3> QED BY <2>2, <2>3, <3>1 DEF Goes
  <2> QED BY <1>3, <2>1, <2>3
<1>6. CASE Continue
  <2>1. Permitted /\ loc.pending_execution.dispatched
    BY <1>6, Zenon DEF Continue, Record
  <2>2. KindOf[Call] = "batch"
    BY <1>1, <2>1, ContinuedCall
  <2>3. inv' = inv \/ \E s : inv' = [inv EXCEPT ![Call] = s]
    BY <1>6 DEF Continue
  <2> QED BY <1>2, <2>2, <2>3 DEF Goes
<1>7. CASE TaskStart
  <2>1. \/ inv' = inv
        \/ /\ rt.st = "start" /\ inv[rt.call] = "PENDING"
           /\ \E s \in {"RUNNING", "FAILED"} : inv' = [inv EXCEPT ![rt.call] = s]
    BY <1>7 DEF TaskStart
  <2>2. ASSUME NEW s \in {"RUNNING", "FAILED"}, rt.st = "start", inv[rt.call] = "PENDING",
               inv' = [inv EXCEPT ![rt.call] = s]
        PROVE  Goes(c)
    <3>1. inv'[c] = IF c = rt.call THEN s ELSE inv[c]
      BY <1>2, <2>2
    <3> QED BY <2>2, <3>1 DEF Goes, Passed
  <2> QED BY <1>3, <2>1, <2>2
<1>8. CASE TaskFinish
  <2>1. rt.st = "running" /\ inv[rt.call] = "RUNNING"
    BY <1>1, <1>8 DEF TaskFinish, PromiseInv, Outside, Receipt
  <2>2. inv' = inv \/ \E s \in Outcomes \cup {"OUTCOME_UNKNOWN"} : inv' = [inv EXCEPT ![rt.call] = s]
    BY <1>8 DEF TaskFinish
  <2>3. ASSUME NEW s \in Outcomes \cup {"OUTCOME_UNKNOWN"}, inv' = [inv EXCEPT ![rt.call] = s]
        PROVE  Goes(c)
    <3>1. inv'[c] = IF c = rt.call THEN s ELSE inv[c]
      BY <1>2, <2>3
    <3> QED BY <2>1, <2>3, <3>1 DEF Goes, Passed, Outcomes
  <2> QED BY <1>3, <2>2, <2>3
<1>9. CASE StopSettle
  <2> DEFINE d == run.pending_execution.call
  <2>1. Stopped(run)
    BY <1>1, <1>9 DEF StopSettle, PromiseInv, Outside, Stopping
  <2>2. \/ inv' = inv
        \/ inv[d] = "PENDING" /\ inv' = [inv EXCEPT ![d] = "FAILED"]
        \/ inv[d] = "PENDING_CONFIRMATION" /\ inv' = [inv EXCEPT ![d] = "REJECTED"]
    BY <1>9 DEF StopSettle
  <2> QED BY <1>2, <2>1, <2>2 DEF Goes, Passed
<1>10. CASE InvocationRecovery
  <2>1. \E d \in CallIds, s \in Outcomes \cup {"OUTCOME_UNKNOWN"} :
          inv[d] \in {"RUNNING", "OUTCOME_UNKNOWN"} /\ inv' = [inv EXCEPT ![d] = s]
    BY <1>10 DEF InvocationRecovery
  <2> QED BY <1>2, <2>1 DEF Goes, Passed, Outcomes
<1> QED BY <1>3, <1>4, <1>5, <1>6, <1>7, <1>8, <1>9, <1>10, QuietSteps

\* Which worker steps, receipt tasks and scans find the worker between the two
\* transactions of prepare.
LEMMA InsertedStep ==
  ASSUME AllInv, [Next]_vars, w.pc = "inserted"
  PROVE  \/ Authorize \/ Close \/ Crash
         \/ /\ w' = w /\ loc' = loc
            /\ run' = run \/ Stopped(run') \/ run.status # "RUNNING"
<1>1. /\ rt.st = "none" /\ run.status \in {"RUNNING", "TERMINATED"} /\ ~sys.closing
      /\ w.pc # "idle"
  BY DEF AllInv, FenceInv, TaskIsOwned, WorkerHolds, Working
<1>2. w.pc \notin {"graph", "calling"}
  OBVIOUS
<1>3. ~ModelStep
  BY <1>2 DEF ModelStep, BeforeModel, OnModel, ModelRetry, ModelPaused, ModelRejected,
     ModelFailure, AtNode
<1>4. ~Handling /\ ~Fresh
  BY <1>2 DEF Handling, Fresh, AtNode
<1>5. ~Ready /\ ~NeedsConsent /\ ~Permitted
  BY <1>4, Zenon DEF Ready, NeedsConsent, Permitted
<1>6. /\ ~ReplayCompleted /\ ~ReplayAnswered /\ ~SourceMismatch /\ ~AskUser /\ ~Resolve
      /\ ~Prepare /\ ~ShowCard /\ ~ApplyDecision /\ ~DispatchFence /\ ~Continue
  <2>1. ~AtNode("tools")
    BY <1>2 DEF AtNode
  <2> QED BY <1>4, <1>5, <2>1, Zenon DEF ReplayCompleted, ReplayAnswered, SourceMismatch,
          AskUser, Resolve, Prepare, ShowCard, ApplyDecision, DispatchFence, Continue
<1>7. ~Prepared /\ ~Confirmed /\ ~Found /\ ~Recorded /\ ~Awaited
  BY DEF Prepared, Confirmed, Found, Recorded, Awaited
<1>8. ~EndStep
  BY <1>2 DEF EndStep, Interrupted, NodeRefused, FinalAnswer, FailSettle, FailSave, Conflict,
     Raised, RaisedSave, Dying, AtNode
<1>9. ~Read /\ ~CloseoutFault /\ ~Claim
  BY DEF Read, CloseoutFault, Claim
<1>10. Checkpoint => w' = w /\ loc' = loc /\ run' = run
  BY Zenon DEF Checkpoint
<1>11. ~TaskNext
  BY <1>1 DEF TaskNext, TaskStart, TaskFinish, TaskRecord, TaskRecordFault
<1>12. ~ScanNext
  BY <1>1 DEF ScanNext, RecoverActive, RecoverNoCheckpoint, RecoverStopped, Unprotected
<1>13. ~Reply /\ ~Decide /\ ~Reconcile /\ ~Resume
  BY <1>1 DEF Reply, Decide, Reconcile, Resume, CanReply, CanDecide, CanResume
<1>14. Stop => w' = w /\ loc' = loc /\ Stopped(run')
  <2>1. run \in AgentRunRow
    BY WorkerFacts DEF AllInv
  <2>2. Stop => /\ w' = w /\ loc' = loc
                /\ run' = StopRow(run) \/ (run' = run /\ Stopped(run))
    BY Zenon DEF Stop
  <2>3. Stopped(StopRow(run))
    BY <1>1, <2>1, StopSound DEF AllInv, PromiseInv, Rows
  <2> QED BY <2>2, <2>3
<1>15. StopSettle \/ InvocationRecovery \/ UNCHANGED vars => w' = w /\ loc' = loc /\ run' = run
  BY Zenon DEF StopSettle, InvocationRecovery, vars
<1>16. WorkerNext => Checkpoint \/ Authorize
  BY <1>3, <1>6, <1>7, <1>8, <1>9, Zenon DEF WorkerNext, ToolStep
<1>17. UserNext => Stop \/ StopSettle
  BY <1>13, Zenon DEF UserNext
<1> QED BY <1>10, <1>11, <1>12, <1>14, <1>15, <1>16, <1>17, Zenon DEF Next

\* A stopped run stays stopped.
LEMMA StoppedStays == AllInv /\ Moves /\ Stopped(run) => Stopped(run')
<1> SUFFICES ASSUME AllInv, Moves, Stopped(run) PROVE Stopped(run')
  OBVIOUS
<1>1. CASE Receives
  <2>1. PICK c \in CallIds, out \in Outcomes : OwnsReceipt(run, c) /\ run' = ReceiptRow(run, c, out)
    BY <1>1 DEF Receives
  <2>2. run \in AgentRunRow /\ Sound(run)
    BY WorkerFacts DEF AllInv, PromiseInv, Rows
  <2> QED BY <2>1, <2>2, ReceiptSound
<1> QED BY <1>1 DEF Moves, Forward, MarksStopped, Stopped, Terminal

\* Consents are only added.
LEMMA ConsentsStay ==
  ASSUME AllInv, [Next]_vars, NEW c, Consented(c, user)
  PROVE  Consented(c, user')
<1>1. TypeInv
  BY DEF AllInv
<1>2. user' = user \/ Stop \/ StopSettle \/ Decide \/ Resume \/ Crash
  <2>1. ModelStep => user' = user
    BY Zenon DEF ModelStep, BeforeModel, OnModel, ModelRetry, ModelPaused, ModelRejected,
       ModelFailure, external
  <2>2. ToolStep => user' = user
    BY PrepareShape, Zenon DEF ToolStep, ReplayCompleted, ReplayAnswered, SourceMismatch, AskUser,
       Resolve, Prepared, ShowCard, ApplyDecision, Confirmed, DispatchFence, Continue, Found,
       Recorded, Awaited, external
  <2>3. EndStep => user' = user
    BY Zenon DEF EndStep, Interrupted, NodeRefused, FinalAnswer, FailSettle, FailSave, Conflict,
       Raised, RaisedSave, Dying, external
  <2>4. Read \/ CloseoutFault \/ Claim \/ Checkpoint \/ Close => user' = user
    BY Zenon DEF Read, CloseoutFault, Claim, Checkpoint, Close, external
  <2>5. TaskNext \/ ScanNext \/ InvocationRecovery \/ UNCHANGED vars => user' = user
    BY Zenon DEF TaskNext, TaskStart, TaskFinish, TaskRecord, TaskRecordFault, ScanNext,
       RecoverActive, RecoverNoCheckpoint, RecoverStopped, InvocationRecovery, vars
  <2>6. Reply \/ Reconcile => user' = user
    BY Zenon DEF Reply, Reconcile
  <2> QED BY <2>1, <2>2, <2>3, <2>4, <2>5, <2>6, Zenon DEF Next, WorkerNext, UserNext
<1>3. Stop \/ StopSettle => user'.consents = user.consents
  <2>1. Stop \/ StopSettle => \E s : user' = [user EXCEPT !.stop = s]
    BY Zenon DEF Stop, StopSettle
  <2> QED BY <1>1, <2>1, UserFields, Zenon
<1>4. Decide => user.consents \subseteq user'.consents
  <2>1. Decide => user' = user \/ \E x : user' = [user EXCEPT !.consents = @ \cup {x}]
    BY Zenon DEF Decide
  <2>2. ASSUME NEW x, user' = [user EXCEPT !.consents = @ \cup {x}]
        PROVE  user'.consents = user.consents \cup {x}
    BY <1>1, <2>2, UserFields, Zenon
  <2> QED BY <2>1, <2>2
<1>5. Resume => user'.consents = user.consents
  BY <1>1, UserFields, Zenon DEF Resume
<1>6. Crash => user'.consents = user.consents
  <2>1. Crash => \E s : user' = [user EXCEPT !.stop = s]
    BY Zenon DEF Crash
  <2> QED BY <1>1, <2>1, UserFields, Zenon
<1> QED BY <1>2, <1>3, <1>4, <1>5, <1>6 DEF Consented

\* What starts a receipt task is the fence, and what hands a call over is its
\* receipt task, but for a batch.
LEMMA HandedMoves ==
  ASSUME AllInv, [Next]_vars, NEW c \in CallIds, KindOf[c] # "batch", Handed(c)'
  PROVE  Handed(c) \/ (DispatchFence /\ c = Call /\ w'.pc = "await")
<1>1. TypeInv /\ FenceInv /\ PromiseInv
  BY DEF AllInv
<1>2. rt \in ReceiptTasks /\ drives \in [CallIds -> Nat]
  BY <1>1 DEF TypeInv, TypeOK
<1>3. rt' = rt \/ DispatchFence \/ TaskNext \/ Crash
  <2>1. ModelStep => rt' = rt
    BY Zenon DEF ModelStep, BeforeModel, OnModel, ModelRetry, ModelPaused, ModelRejected,
       ModelFailure, external
  <2>2. ToolStep => rt' = rt \/ DispatchFence
    BY PrepareShape, Zenon DEF ToolStep, ReplayCompleted, ReplayAnswered, SourceMismatch, AskUser,
       Resolve, Prepared, ShowCard, ApplyDecision, Confirmed, Continue, Found,
       Recorded, Awaited, external
  <2>3. EndStep => rt' = rt
    BY Zenon DEF EndStep, Interrupted, NodeRefused, FinalAnswer, FailSettle, FailSave, Conflict,
       Raised, RaisedSave, Dying, external
  <2>4. Read \/ CloseoutFault \/ Claim \/ Checkpoint \/ Close => rt' = rt
    BY Zenon DEF Read, CloseoutFault, Claim, Checkpoint, Close, external
  <2>5. UserNext \/ ScanNext \/ InvocationRecovery \/ UNCHANGED vars => rt' = rt
    BY Zenon DEF UserNext, Stop, StopSettle, Reply, Decide, Reconcile, Resume, ScanNext,
       RecoverActive, RecoverNoCheckpoint, RecoverStopped, InvocationRecovery, vars
  <2> QED BY <2>1, <2>2, <2>3, <2>4, <2>5, Zenon DEF Next, WorkerNext
<1>4. TaskNext \/ Crash => rt'.st # "start"
  <2>1. TaskStart \/ TaskFinish => \/ rt' = [rt EXCEPT !.st = "running"]
                                  \/ \E o : rt' = [rt EXCEPT !.st = "finished", !.out = o]
    BY Zenon DEF TaskStart, TaskFinish
  <2>2. /\ [rt EXCEPT !.st = "running"].st = "running"
        /\ \A o : [rt EXCEPT !.st = "finished", !.out = o].st = "finished"
    BY <1>2, Zenon DEF ReceiptTasks
  <2>3. "running" # "start" /\ "finished" # "start"
    OBVIOUS
  <2>4. TaskStart \/ TaskFinish => rt'.st # "start"
    BY <2>1, <2>2, <2>3, Zenon
  <2>5. TaskRecord \/ TaskRecordFault \/ Crash => rt' = NoTask
    BY Zenon DEF TaskRecord, TaskRecordFault, Crash
  <2> QED BY <2>4, <2>5 DEF TaskNext, NoTask
<1>5. DispatchFence /\ rt' # rt => rt'.call = Call /\ w'.pc = "await"
  <2>1. DispatchFence => \/ rt' = rt
                         \/ /\ w'.pc = "await"
                            /\ \E o, v, m : rt' = [st |-> "start", call |-> Call, out |-> o,
                                                   version |-> v, claim |-> m]
    BY DEF DispatchFence
  <2> QED BY <2>1
<1>6. Starting(c)' => Starting(c) \/ (DispatchFence /\ c = Call /\ w'.pc = "await")
  BY <1>3, <1>4, <1>5 DEF Starting
<1>7. drives'[c] > 0 => Handed(c)
  <2>1. CASE TaskStart
    BY <1>2, <2>1 DEF TaskStart, Handed, Starting
  <2>2. CASE Continue
    <3>1. Permitted /\ loc.pending_execution.dispatched
      BY <2>2, Zenon DEF Continue, Record
    <3>2. KindOf[Call] = "batch"
      BY <1>1, <3>1, ContinuedCall
    <3>3. drives' = drives \/ drives' = [drives EXCEPT ![Call] = @ + 1]
      BY <2>2 DEF Continue
    <3> QED BY <1>2, <3>2, <3>3 DEF Handed
  <2>3. CASE Prepare \/ Authorize
    BY <2>3, PrepareShape, Zenon DEF Handed
  <2>4. ApplyDecision \/ TaskFinish \/ StopSettle \/ InvocationRecovery => drives' = drives
    BY Zenon DEF ApplyDecision, TaskFinish, StopSettle, InvocationRecovery, external
  <2> QED BY <2>1, <2>2, <2>3, <2>4, QuietSteps DEF Handed
<1> QED BY <1>6, <1>7 DEF Handed

\* The worker comes between the two transactions of prepare only by inserting the
\* Invocation of its call.
LEMMA Inserts ==
  ASSUME AllInv, [Next]_vars, w'.pc = "inserted", w.pc # "inserted"
  PROVE  /\ Prepare /\ UNCHANGED <<run, loc>> /\ w'.pos = w.pos /\ Call \in CallIds
         /\ inv' = [inv EXCEPT ![Call] = "PENDING"] /\ OwnerActive(loc.version, loc.claim)
<1>1. TypeInv /\ FenceInv /\ PromiseInv /\ TypeOK /\ w \in Workers
  BY DEF AllInv, TypeInv, TypeOK
<1>2. /\ \A pc : Go(pc).pc = pc /\ Go(pc).pos = w.pos
      /\ \A v, pc, code : Left(v, pc, code).pc = pc
  BY <1>1, PlacePcs
<1>3. Prepare \/ DispatchFence \/ Continue \/ TaskNext \/ Close \/ Crash \/ w' = w
        \/ \E pc \in {"read"} : w' = Go(pc)
  <2>1. Read \/ CloseoutFault \/ Claim \/ ModelStep \/ EndStep => Prepare
    BY <1>1, OrdinarySteps, Zenon DEF Ordinary
  <2>2. ToolStep => Prepare \/ DispatchFence \/ Continue
    BY <1>1, OrdinarySteps, Zenon DEF Ordinary
  <2>3. Checkpoint \/ InvocationRecovery \/ UNCHANGED vars => w' = w
    BY Zenon DEF Checkpoint, InvocationRecovery, vars
  <2>4. UserNext \/ ScanNext => w' = w \/ w' = Go("read")
    BY Zenon DEF UserNext, ScanNext, Stop, StopSettle, Reply, Decide, Reconcile,
       Resume, RecoverActive, RecoverNoCheckpoint, RecoverStopped, Schedule
  <2> QED BY <2>1, <2>2, <2>3, <2>4, Zenon DEF Next, WorkerNext
<1>4. w' # w /\ w' # Go("read")
  BY <1>2
<1>5. ~DispatchFence
  <2>1. \A r : Persist(r, Go("await")) => w'.pc \in {"await", "conflict", "fail"}
    BY <1>1, <1>2, SavePcs
  <2>2. ~Raise("FATAL")
    BY <1>2 DEF Raise, Exit
  <2>3. DispatchFence => Raise("FATAL") \/ \E r : Persist(r, Go("await"))
    BY Zenon DEF DispatchFence
  <2> QED BY <2>1, <2>2, <2>3
<1>6. ~Continue
  <2>1. Continue => \/ Exit("conflict", "none") \/ Exit("fail", "TOOL_OUTCOME_UNKNOWN")
                    \/ w' = Go("found")
    BY Zenon DEF Continue
  <2> QED BY <1>2, <2>1 DEF Exit
<1>7. ~TaskNext
  <2>1. TaskNext => \/ w' = w \/ w' = Go("awaited") \/ w' = Left(w, "conflict", "none")
                    \/ w' = Left(w, "fail", "DEPENDENCY_UNAVAILABLE")
    BY Zenon DEF TaskNext, TaskStart, TaskFinish, TaskRecord, TaskRecordFault, Wake, WakeWith, Exit
  <2> QED BY <1>2, <1>4, <2>1
<1>8. ~Close /\ ~Crash
  BY <1>2 DEF Close, Crash, IdleWorker
<1>9. Prepare
  BY <1>3, <1>4, <1>5, <1>6, <1>7, <1>8
<1>10. Call \in CallIds /\ UNCHANGED <<run, loc>> /\ ~Authorize
  BY <1>1, <1>9, PreparePlace, PrepareShape
<1>11. PICK s : Recreated(s) /\ w' = Go("inserted")
  BY <1>2, <1>9, PrepareShape DEF PrepareBroken, Exit
<1> QED BY <1>2, <1>9, <1>10, <1>11 DEF Recreated

\* What passes the fence without a consent has an Invocation that was refused.
LEMMA FencedRefused ==
  ASSUME AllInv, DispatchFence, w'.pc = "await", KindOf[Call] = "confirm",
         ~Consented(Call, user), inv[Call] \in Passed => Unsettled(Call)
  PROVE  inv' = inv /\ inv[Call] \in {"REJECTED", "EXPIRED"}
<1>1. TypeInv /\ FenceInv /\ PromiseInv
  BY DEF AllInv
<1>2. /\ Handling /\ loc.pending_execution.call = Call
      /\ loc.pending_execution.prepared /\ ~loc.pending_execution.dispatched
      /\ loc.pending_execution.status = "PENDING_CONFIRMATION" =>
           loc.pending_execution.confirmed
      /\ inv' = inv
  BY Zenon DEF DispatchFence, Permitted, Ready, Record
<1>3. w.pc = "graph" /\ w.pc \in Working /\ Call \in CallIds
  BY <1>1, <1>2, AtTheTool
<1>4. Backed(loc, inv, user) /\ inv \in [CallIds -> InvocationStatus] /\ w \in Workers
  BY <1>1, <1>3, GraphCopy DEF TypeInv, TypeOK
<1>5. inv[Call] \notin {"none", "DENIED", "PENDING_CONFIRMATION"}
  BY <1>2, <1>4 DEF Backed, Created
<1>6. ~sys.closing
  BY <1>1, <1>3 DEF FenceInv, TaskIsOwned
<1>7. run.status \notin Terminal
  <2>1. /\ Left(Go("await"), "conflict", "none").pc = "conflict"
        /\ Left(Go("await"), "fail", "DEPENDENCY_UNAVAILABLE").pc = "fail"
        /\ Left(Go("await"), "fail", "FATAL").pc = "fail"
        /\ Left(w, "fail", "FATAL").pc = "fail"
    BY DEF Left, IdleWorker
  <2>2. \A r : Persist(r, Go("await")) => SaveOk(r)
    BY <2>1 DEF Persist
  <2>3. ~Raise("FATAL")
    BY <2>1 DEF Raise, Exit
  <2>4. \E r : SaveOk(r)
    BY <2>2, <2>3, Zenon DEF DispatchFence
  <2>5. run.status \in Status
    BY <1>1, WorkerFacts, Zenon DEF AgentRunRow
  <2> QED BY <2>4, <2>5 DEF SaveOk, Valid, AllowedNext, Terminal, Waiting
<1>8. inv[Call] \notin Passed
  BY <1>3, <1>6, <1>7 DEF Unsettled, Stopped, Terminal
<1> QED BY <1>2, <1>3, <1>4, <1>5, <1>8 DEF InvocationStatus, Outcomes, Passed

\* Every card stays asked for, and a new one is the card of a prepared record.
LEMMA CardsStep ==
  ASSUME AllInv, AllInv', ConsentInv, [Next]_vars
  PROVE  (\A card \in msgs.cards : card[2] \in CallIds /\ CardHolds(card[2], inv, user))'
<1>1. ASSUME NEW c \in CallIds, CardHolds(c, inv, user) PROVE CardHolds(c, inv', user')
  <2>1. CASE Consented(c, user)
    BY <2>1, ConsentsStay DEF CardHolds
  <2>2. CASE inv[c] \in Undecided
    <3>1. KindOf[c] = "confirm"
      BY <2>2 DEF AllInv, PromiseInv, Outside, Invocations, Undecided
    <3>2. Goes(c)
      BY InvocationsGo
    <3>3. inv'[c] \in Undecided \/ Consented(c, user)
      BY <2>2, <3>1, <3>2 DEF Goes, Undecided
    <3> QED BY <3>3, ConsentsStay DEF CardHolds
  <2> QED BY <1>1, <2>1, <2>2 DEF CardHolds
<1>2. CASE msgs' = msgs
  BY <1>1, <1>2 DEF ConsentInv
<1>3. CASE \E r : Store(r)
  <2>1. PICK r : run' = Saved(r) /\ msgs' = Posted(r)
    BY <1>3 DEF Store
  <2>2. run' \in AgentRunRow
    BY DEF AllInv, TypeInv, TypeOK
  <2>3. r.status = run'.status /\ r.pending_execution = run'.pending_execution
    <3>1. DOMAIN run' = DOMAIN r
      BY <2>1, Zenon DEF Saved, Bump
    <3>2. "status" \in DOMAIN run' /\ "pending_execution" \in DOMAIN run'
      BY <2>2, Zenon DEF AgentRunRow
    <3> QED BY <2>1, <3>1, <3>2 DEF Saved, Bump
  <2>4. \/ msgs'.cards = msgs.cards
        \/ /\ run'.status = "WAITING_FOR_CONFIRMATION"
           /\ msgs'.cards =
                msgs.cards \cup {<<r.waiting_version, run'.pending_execution.call>>}
    BY <2>1, <2>3 DEF Posted
  <2>5. run'.status = "WAITING_FOR_CONFIRMATION" =>
          /\ run'.pending_execution.call \in CallIds
          /\ CardHolds(run'.pending_execution.call, inv', user')
    <3>1. Phased(run') /\ Created(run', inv', user')
      BY DEF AllInv, PromiseInv, Rows, Sound, Backed
    <3> QED BY <3>1 DEF Phased, Asking, Created
  <2> QED BY <1>1, <2>4, <2>5 DEF ConsentInv
<1> QED BY <1>2, <1>3, StepWrites

\* Every step keeps what is said of consents.
LEMMA ConsentStep == AllInv /\ AllInv' /\ Moves /\ ConsentInv /\ [Next]_vars => ConsentInv'
<1> SUFFICES ASSUME AllInv, AllInv', Moves, ConsentInv, [Next]_vars PROVE ConsentInv'
  OBVIOUS
<1>1. /\ TypeInv /\ FenceInv /\ PromiseInv
      /\ inv \in [CallIds -> InvocationStatus] /\ w \in Workers
  BY DEF AllInv, TypeInv, TypeOK
<1>2. Stopped(run) => Stopped(run')
  BY StoppedStays
<1>3. /\ w.pc = "inserted" => rt.st = "none" /\ ~sys.closing /\ w.pos.call \in CallIds
      /\ w.pc = "inserted" => run.status \in {"RUNNING", "TERMINATED"}
  BY <1>1 DEF FenceInv, TaskIsOwned, WorkerHolds, Working, PromiseInv, Worker, Place
<1>4. ASSUME w'.pc = "inserted", KindOf[Call'] = "confirm"
      PROVE  (inv[Call] = "PENDING" /\ OwnerActive(loc.version, loc.claim))' \/ Stopped(run')
  <2>1. CASE w.pc # "inserted"
    <3>1. /\ UNCHANGED <<run, loc>> /\ w'.pos = w.pos /\ Call \in CallIds
          /\ inv' = [inv EXCEPT ![Call] = "PENDING"] /\ OwnerActive(loc.version, loc.claim)
      BY <1>4, <2>1, Inserts
    <3>2. Call' = Call /\ inv'[Call] = "PENDING"
      BY <1>1, <3>1 DEF Call
    <3> QED BY <3>1, <3>2 DEF OwnerActive
  <2>2. CASE w.pc = "inserted" /\ ~Stopped(run')
    <3>1. ~Authorize /\ ~Close /\ ~Crash
      <4>1. /\ \A pc : Go(pc).pc = pc
            /\ \A v, pc, code : Left(v, pc, code).pc = pc
        BY <1>1, PlacePcs
      <4>2. ~Authorize
        <5>1. Authorize => ~Prepare
          BY PrepareShape
        <5>2. PrepareBroken \/ Exit("conflict", "none") \/ Exit("fail", "FATAL")
                \/ w' = Go("prepared") => w'.pc # "inserted"
          BY <4>1 DEF PrepareBroken, Exit
        <5> QED BY <1>4, <5>1, <5>2, PrepareShape, Zenon
      <4> QED BY <1>4, <4>1, <4>2 DEF Close, Crash, IdleWorker
    <3>2. w' = w /\ loc' = loc /\ (run' = run \/ run.status # "RUNNING")
      BY <2>2, <3>1, InsertedStep
    <3>3. inv[Call] = "PENDING" /\ OwnerActive(loc.version, loc.claim)
      BY <1>2, <1>4, <2>2, <3>2 DEF ConsentInv, Call
    <3>4. run' = run
      BY <3>2, <3>3 DEF OwnerActive
    <3>5. Goes(Call) /\ Call \in CallIds
      BY <1>3, <2>2, InvocationsGo DEF Call
    <3>6. ~Prepare
      BY <2>2, PrepareShape
    <3>7. inv'[Call] = "PENDING"
      BY <1>2, <1>3, <1>4, <2>2, <3>1, <3>2, <3>3, <3>5, <3>6 DEF Goes, Call
    <3> QED BY <3>2, <3>3, <3>4, <3>7 DEF OwnerActive, Call
  <2> QED BY <2>1, <2>2
<1>5. ASSUME Clean', NEW c \in CallIds, KindOf[c] = "confirm", ~Consented(c, user')
      PROVE  (inv'[c] \in Passed => Unsettled(c)') /\ (Handed(c)' => inv'[c] \in {"REJECTED", "EXPIRED"})
  <2>1. /\ Clean /\ ~Crash /\ ~PrepareFault
        /\ sys.closing => sys'.closing
        /\ Close => sys'.closing
    BY <1>5, CleanMoves
  <2>2. ~Consented(c, user)
    BY <1>5, ConsentsStay
  <2>3. /\ inv[c] \in Passed => Unsettled(c)
        /\ Handed(c) => inv[c] \in {"REJECTED", "EXPIRED"}
    BY <1>5, <2>1, <2>2 DEF ConsentInv
  <2>4. Goes(c)
    BY InvocationsGo
  <2>5. ASSUME inv[c] \in Passed, inv'[c] \in Passed, ~Stopped(run'), ~sys'.closing
        PROVE  Unsettled(c)'
    <3>1. w.pc = "inserted" /\ w.pos.call = c /\ Call = c /\ ~Stopped(run) /\ ~Close
      BY <1>2, <2>1, <2>3, <2>5 DEF Unsettled, Call
    <3>2. inv[c] = "PENDING" /\ OwnerActive(loc.version, loc.claim)
      BY <1>5, <3>1 DEF ConsentInv
    <3>3. ~Authorize
      <4>1. Authorize => inv'[c] \in {"DENIED", "PENDING_CONFIRMATION"}
        BY <1>1, <1>5, <2>1, <3>1, <3>2 DEF Authorize, Authorized
      <4> QED BY <2>5, <4>1 DEF Passed
    <3>4. w' = w
      BY <2>1, <3>1, <3>3, InsertedStep
    <3> QED BY <3>1, <3>4 DEF Unsettled
  <2>6. ASSUME inv[c] \notin Passed, inv'[c] \in Passed PROVE Unsettled(c)'
    <3>1. Prepare /\ c = Call /\ inv[c] = "none" /\ inv'[c] = "PENDING"
      BY <1>5, <2>2, <2>4, <2>6 DEF Goes, Passed
    <3>2. w' = Go("inserted")
      BY <2>1, <3>1 DEF Prepare
    <3>3. w'.pc = "inserted" /\ w'.pos.call = c
      BY <1>1, <3>1, <3>2, PlacePcs DEF Call
    <3> QED BY <3>3 DEF Unsettled
  <2>7. ASSUME Handed(c)' PROVE inv'[c] \in {"REJECTED", "EXPIRED"}
    <3>1. CASE Handed(c)
      BY <1>5, <2>3, <2>4, <3>1 DEF Goes
    <3>2. CASE DispatchFence /\ c = Call /\ w'.pc = "await"
      <4>1. inv' = inv /\ inv[Call] \in {"REJECTED", "EXPIRED"}
        BY <1>5, <2>2, <2>3, <3>2, FencedRefused
      <4> QED BY <3>2, <4>1
    <3> QED BY <1>5, <2>7, <3>1, <3>2, HandedMoves
  <2>8. Stopped(run') \/ sys'.closing => Unsettled(c)'
    BY DEF Unsettled
  <2> QED BY <2>5, <2>6, <2>7, <2>8
<1> QED BY <1>4, <1>5, CardsStep DEF ConsentInv, Call

\* Nothing is asked for at first.
LEMMA ConsentInit == Init => ConsentInv
BY DEF Init, ConsentInv, IdleWorker, NoTask, Passed, Handed, Starting

\* Every reachable state keeps both.
LEMMA ConsentHolds == Spec => [](AllInv /\ ConsentInv)
<1>1. Init => AllInv /\ ConsentInv
  BY AllInit, ConsentInit
<1>2. AllInv /\ ConsentInv /\ [Next]_vars => AllInv' /\ ConsentInv'
  BY AllStep, ConsentStep
<1> QED BY <1>1, <1>2, PTL DEF Spec

-----------------------------------------------------------------------------
(* The theorems *)

\* Every row that can still be saved is sound, every copy continues the row it was
\* read from, and the Invocations, the receipt task and the user's requests agree
\* with the row.
THEOREM PromiseHolds == Spec => []AllInv
BY AllInit, AllStep, PTL DEF Spec

\* Both budgets are charged once for what was really used, whoever settles it, and
\* an observation is the outcome of its Invocation.
THEOREM LedgersAreTrue == Spec => []Ledgers
<1>1. AllInv => Ledgers
  <2> SUFFICES ASSUME AllInv PROVE Ledgers
    OBVIOUS
  <2>1. Sound(run) /\ ReceiptFaithful
    BY DEF AllInv, PromiseInv, Rows, Outside
  <2>2. ToolLedger
    BY <2>1 DEF Sound, Charged, FencedCalls, ToolLedger
  <2>3. TokenLedger
    BY <2>1 DEF Sound, Budgeted, TokenLedger
  <2> QED BY <2>1, <2>2, <2>3 DEF Ledgers
<1> QED BY <1>1, PromiseHolds, PTL

\* A tool that needs consent computes only after the user approved its own card,
\* unless no card of it was ever put up; and that takes a crash or a database error
\* between the insert of its Invocation and the authorization.
THEOREM ConsentComesFirst == Spec => []ConsentBeforeStart
<1>1. AllInv /\ ConsentInv => ConsentBeforeStart
  <2> SUFFICES ASSUME AllInv, ConsentInv, NEW c \in CallIds, KindOf[c] = "confirm",
                      inv[c] \in {"RUNNING", "OUTCOME_UNKNOWN"} \cup Outcomes,
                      ~Consented(c, user), ~(inv[c] = "FAILED" /\ drives[c] = 0)
               PROVE  /\ \A card \in msgs.cards : card[2] # c
                      /\ sys.crashes + sys.faults > 0
    BY DEF ConsentBeforeStart, Consented
  <2>1. /\ drives \in [CallIds -> Nat]
        /\ sys \in [closing: BOOLEAN, crashes: Nat, faults: Nat]
    BY DEF AllInv, TypeInv, TypeOK
  <2>2. inv[c] \notin Undecided
    BY DEF Undecided, Outcomes
  <2>3. \A card \in msgs.cards : card[2] # c
    BY <2>2 DEF ConsentInv, CardHolds
  <2>4. drives[c] > 0
    <3>1. inv[c] = "FAILED" => drives[c] # 0
      OBVIOUS
    <3>2. inv[c] # "FAILED" => inv[c] \in Started
      BY DEF Started, Outcomes
    <3> QED BY <2>1, <3>1, <3>2 DEF AllInv, PromiseInv, Outside, Invocations
  <2>5. ~Clean
    BY <2>2, <2>4 DEF ConsentInv, Handed, Undecided
  <2> QED BY <2>1, <2>3, <2>5 DEF Clean
<1> QED BY <1>1, ConsentHolds, PTL

\* How the row of a stopped or ended run moves.
LEMMA EndedMoves ==
  ASSUME AllInv, Moves, run.status \in Terminal, run' # run
  PROVE  Stopped(run) /\ Stopped(run') /\ run.pending_execution.dispatched
<1>1. CASE MarksStopped
  BY <1>1 DEF MarksStopped
<1>2. CASE Receives
  <2>1. PICK c \in CallIds, out \in Outcomes : OwnsReceipt(run, c) /\ run' = ReceiptRow(run, c, out)
    BY <1>2 DEF Receives
  <2>2. Stopped(run) /\ run.pending_execution.dispatched
    BY <2>1 DEF OwnsReceipt, Dispatched, Terminal
  <2>3. run \in AgentRunRow /\ Sound(run)
    BY WorkerFacts DEF AllInv, PromiseInv, Rows
  <2> QED BY <2>1, <2>2, <2>3, ReceiptSound
<1> QED BY <1>1, <1>2 DEF Moves, Forward

\* A run that ended stays as it is, but for the late receipt of a stopped one.
THEOREM EndIsFinal == Spec => TerminalIsFinal
<1> DEFINE Ends == run.status \in Terminal /\ run' # run =>
                     /\ Stopped(run) /\ Stopped(run')
                     /\ run.pending_execution.dispatched
<1>1. AllInv /\ [Next]_vars => [Ends]_vars
  BY AllStep, EndedMoves
<1> HIDE DEF Ends
<1>2. Spec => [][Ends]_vars
  BY <1>1, PromiseHolds, PTL DEF Spec
<1> QED BY <1>2, Zenon DEF TerminalIsFinal, Ends

\* What a receipt adds to the row.
LEMMA ReceivesFacts ==
  ASSUME AllInv, Receives
  PROVE  \E c \in CallIds, out \in Outcomes :
           /\ Dispatched(run, c) /\ drives[c] > 0 /\ run.observations[c] = "none"
           /\ run'.observations = [run.observations EXCEPT ![c] = out]
           /\ run'.answered = run.answered /\ run'.llm_tokens = run.llm_tokens
           /\ run'.calls = run.calls
           /\ ~run'.pending_execution.dispatched
           /\ Stopped(run') <=> Stopped(run)
           /\ \A d \in CallIds : Fenced(run', d) <=> Fenced(run, d)
<1>1. run \in AgentRunRow /\ Sound(run)
  BY WorkerFacts DEF AllInv, PromiseInv, Rows
<1>2. PICK c \in CallIds, out \in Outcomes :
        OwnsReceipt(run, c) /\ drives[c] > 0 /\ run' = ReceiptRow(run, c, out)
  BY DEF Receives
<1>3. Dispatched(run, c)
  BY <1>2 DEF OwnsReceipt
<1>4. \A d \in CallIds : Fenced(run', d) <=> Fenced(run, d)
  BY <1>1, <1>2, <1>3, ReceiptFacts
<1>5. /\ run.observations[c] = "none"
      /\ run'.observations = [run.observations EXCEPT ![c] = out]
      /\ run'.answered = run.answered /\ run'.llm_tokens = run.llm_tokens
      /\ run'.calls = run.calls
      /\ ~run'.pending_execution.dispatched
      /\ Stopped(run') <=> Stopped(run)
  BY <1>1, <1>2, ReceiptSound
<1> QED BY <1>2, <1>3, <1>4, <1>5

\* Nothing a transaction committed is overwritten by the copy of another writer.
THEOREM NothingGetsLost == Spec => NothingIsLost
<1> DEFINE Keeps ==
      /\ \A c \in CallIds :
           /\ run.observations[c] # "none" => run'.observations[c] = run.observations[c]
           /\ run.answered[c] # None => run'.answered[c] = run.answered[c]
      /\ run'.llm_tokens >= run.llm_tokens
      /\ Len(run'.calls) >= Len(run.calls)
<1>1. ASSUME AllInv, Moves PROVE Keeps
  <2>1. run \in AgentRunRow /\ Follows(run, run)
    BY <1>1, WorkerFacts, FollowsSelf DEF AllInv
  <2>2. CASE Follows(run, run')
    BY <2>2 DEF Follows
  <2>3. CASE Receives
    <3>1. PICK c \in CallIds, out \in Outcomes :
            /\ run.observations[c] = "none"
            /\ run'.observations = [run.observations EXCEPT ![c] = out]
            /\ run'.answered = run.answered /\ run'.llm_tokens = run.llm_tokens
            /\ run'.calls = run.calls
      BY <1>1, <2>3, ReceivesFacts
    <3>2. /\ run.observations \in [CallIds -> Observations]
          /\ run.llm_tokens \in Nat /\ Len(run.calls) \in Nat
      BY <2>1, RowNumbers, RowLengths, Zenon DEF AgentRunRow
    <3> QED BY <3>1, <3>2
  <2>4. CASE run' = run
    BY <2>1, <2>4 DEF Follows
  <2> QED BY <1>1, <2>2, <2>3, <2>4 DEF Moves, Forward, MarksStopped
<1>2. AllInv /\ [Next]_vars => [Keeps]_vars
  BY <1>1, AllStep
<1> HIDE DEF Keeps
<1>3. Spec => [][Keeps]_vars
  BY <1>2, PromiseHolds, PTL DEF Spec
<1> QED BY <1>3, Zenon DEF NothingIsLost, Keeps

\* After a stop no Invocation is created, no call is fenced, and only what was
\* fenced may still start; a served stop has closed what was prepared.
THEOREM StopClosesAll == Spec => StopIsFinal
<1> DEFINE Closed ==
      Stopped(run) => \A c \in CallIds :
          /\ inv[c] = "none" => inv'[c] = "none"
          /\ Fenced(run', c) => Fenced(run, c)
          /\ inv'[c] = "RUNNING" => inv[c] = "RUNNING" \/ Fenced(run, c)
<1>1. ASSUME AllInv, Moves, Settles PROVE Closed
  <2>1. ASSUME Stopped(run), NEW c \in CallIds PROVE Fenced(run', c) => Fenced(run, c)
    <3>1. CASE Receives
      BY <1>1, <3>1, ReceivesFacts
    <3>2. CASE MarksStopped
      BY <3>2, SameFacts DEF MarksStopped
    <3>3. ~Forward
      BY <2>1 DEF Forward, Stopped, Terminal
    <3> QED BY <1>1, <3>1, <3>2, <3>3 DEF Moves
  <2>2. ASSUME Stopped(run), NEW c \in CallIds
        PROVE  /\ inv[c] = "none" => inv'[c] = "none"
               /\ inv'[c] = "RUNNING" => inv[c] = "RUNNING" \/ Fenced(run, c)
    BY <1>1, <2>2 DEF Settles, Fenced
  <2> QED BY <2>1, <2>2
<1>2. AllInv /\ [Next]_vars => [Closed]_vars
  BY <1>1, AllStep, SettleStep
<1>3. AllInv => StopClosesPreparation
  BY DEF AllInv, PromiseInv, Outside, Stopping
<1> HIDE DEF Closed
<1>4. Spec => []StopClosesPreparation /\ [][Closed]_vars
  BY <1>2, <1>3, PromiseHolds, PTL DEF Spec
<1> QED BY <1>4, Zenon DEF StopIsFinal, Closed

-----------------------------------------------------------------------------
(* The run implements DispatchOnce *)

\* The phase of a call that the row holds as dispatched has no outcome yet.
LEMMA PhaseFacts ==
  ASSUME AllInv, NEW c \in CallIds
  PROVE  /\ Phase(c) = "fenced" <=> Dispatched(run, c)
         /\ Phase(c) = "recorded" <=> Executed(run, c)
         /\ Phase(c) = "open" <=> ~Fenced(run, c)
         /\ Phase(c) \in {"open", "fenced", "recorded"}
<1>1. Dispatched(run, c) => ~Executed(run, c)
  BY DEF AllInv, PromiseInv, Rows, Sound, Marked, Dispatched, Executed, Outcomes
<1> QED BY <1>1 DEF Phase, Fenced

\* A fence is new for one call at a time.
LEMMA OneFence ==
  ASSUME AllInv, AllInv', Forward, NEW c \in CallIds, Dispatched(run', c), ~Dispatched(run, c)
  PROVE  /\ \A d \in CallIds : ~Dispatched(run, d)
         /\ \A d \in CallIds : Dispatched(run', d) => d = c
         /\ ~Fenced(run, c)
<1>1. \A d \in CallIds : Dispatched(run', d) => d = c
  BY DEF Dispatched
<1>2. \A d \in CallIds : ~Dispatched(run, d)
  <2> SUFFICES ASSUME NEW d \in CallIds, Dispatched(run, d) PROVE FALSE
    OBVIOUS
  <2>1. Dispatched(run', d)
    BY FollowsFence DEF Forward
  <2> QED BY <1>1, <2>1
<1>3. ~Executed(run', c)
  BY DEF AllInv, PromiseInv, Rows, Sound, Marked, Dispatched, Executed, Outcomes
<1>4. ~Executed(run, c)
  BY <1>3, FollowsFence DEF Forward
<1> QED BY <1>1, <1>2, <1>4 DEF Fenced

\* The run as DispatchOnce sees it.
Phases == [c \in Single |-> Phase(c)]
Driven == {c \in Single : drives[c] > 0}

\* The phases stay when no call is fenced or recorded.
LEMMA PhasesStay ==
  ASSUME \A c \in CallIds : Executed(run', c) <=> Executed(run, c),
         \A c \in CallIds : Dispatched(run', c) <=> Dispatched(run, c)
  PROVE  Phases' = Phases
<1>1. \A c \in Single : Phase(c)' = Phase(c)
  BY DEF Phase, Single
<1> QED BY <1>1 DEF Phases

\* Every step is a stutter, a stop, a fence, a drive or a record of DispatchOnce.
LEMMA PromisedStep ==
  ASSUME AllInv, AllInv', Moves, HandsOver
  PROVE  \/ Phases' = Phases /\ Driven' = Driven /\ (Stopped(run') <=> Stopped(run))
         \/ /\ ~Stopped(run) /\ Stopped(run') /\ Phases' = Phases /\ Driven' = Driven
         \/ \E c \in Single :
              \/ /\ ~Stopped(run) /\ ~Stopped(run') /\ Phases[c] = "open"
                 /\ \A d \in Single : Phases[d] # "fenced"
                 /\ Phases' = [Phases EXCEPT ![c] = "fenced"] /\ Driven' = Driven
              \/ /\ Phases[c] = "fenced" /\ c \notin Driven
                 /\ Driven' = Driven \cup {c} /\ Phases' = Phases
                 /\ Stopped(run') <=> Stopped(run)
              \/ /\ Phases[c] = "fenced" /\ c \in Driven
                 /\ Phases' = [Phases EXCEPT ![c] = "recorded"] /\ Driven' = Driven
                 /\ Stopped(run') <=> Stopped(run)
<1>1. /\ Single \subseteq CallIds
      /\ \A c \in Single : KindOf[c] # "batch" /\ Phases[c] = Phase(c) /\ Phases'[c] = Phase(c)'
      /\ DOMAIN Phases = Single
  BY DEF Single, Phases
<1>2. \A c \in CallIds :
        /\ Phase(c) = "fenced" <=> Dispatched(run, c)
        /\ Phase(c) = "recorded" <=> Executed(run, c)
        /\ Phase(c) = "open" <=> ~Fenced(run, c)
  BY PhaseFacts
<1>3. drives \in [CallIds -> Nat]
  BY DEF AllInv, TypeInv, TypeOK
<1>4. drives' = drives => Driven' = Driven
  BY DEF Driven
<1>5. run' = run => Phases' = Phases /\ (Stopped(run') <=> Stopped(run))
  BY PhasesStay
\* A drive: of a batch, which is promised nothing, or the first of another call.
<1>6. CASE drives' # drives
  <2>1. PICK c \in CallIds :
          /\ run' = run
          /\ drives' = [drives EXCEPT ![c] = @ + 1]
          /\ KindOf[c] # "batch" => Dispatched(run, c) /\ drives[c] = 0
    BY <1>6 DEF HandsOver
  <2>2. \A d \in CallIds : d # c => drives'[d] = drives[d]
    BY <1>3, <2>1
  <2>3. drives'[c] > 0
    BY <1>3, <2>1
  <2>4. CASE KindOf[c] = "batch"
    <3>1. c \notin Single
      BY <2>4 DEF Single
    <3>2. Driven' = Driven
      BY <1>1, <2>2, <3>1 DEF Driven
    <3> QED BY <1>5, <2>1, <3>2
  <2>5. CASE KindOf[c] # "batch"
    <3>1. c \in Single /\ c \notin Driven /\ Phases[c] = "fenced"
      BY <1>1, <1>2, <2>1, <2>5 DEF Single, Driven
    <3>2. Driven' = Driven \cup {c}
      BY <1>1, <2>2, <2>3, <3>1 DEF Driven
    <3> QED BY <1>5, <2>1, <3>1, <3>2
  <2> QED BY <2>4, <2>5
<1>7. CASE drives' = drives
  <2>1. Driven' = Driven
    BY <1>4, <1>7
  <2>2. CASE run' = run
    BY <1>5, <2>1, <2>2
  <2>3. ASSUME Same(run, run') PROVE Phases' = Phases
    BY <2>3, SameFacts, PhasesStay
  <2>4. CASE MarksStopped
    BY <2>1, <2>3, <2>4 DEF MarksStopped
  <2>5. CASE Forward
    <3>1. ~Stopped(run)
      BY <2>5 DEF Forward, Stopped, Terminal
    <3>2. CASE Stopped(run')
      BY <2>1, <2>3, <2>5, <3>1, <3>2 DEF Forward
    <3>3. \A d \in CallIds : /\ Executed(run', d) <=> Executed(run, d)
                             /\ Dispatched(run, d) => Dispatched(run', d)
      BY <2>5, FollowsFence DEF Forward
    <3>4. CASE /\ ~Stopped(run')
               /\ \A d \in Single : Dispatched(run', d) => Dispatched(run, d)
      <4>1. \A d \in Single : Phase(d)' = Phase(d)
        BY <1>1, <3>3, <3>4 DEF Phase
      <4>2. Phases' = Phases
        BY <4>1 DEF Phases
      <4> QED BY <2>1, <3>1, <3>4, <4>2
    <3>5. ASSUME ~Stopped(run'), NEW c \in Single, Dispatched(run', c), ~Dispatched(run, c)
          PROVE  /\ Phases[c] = "open" /\ \A d \in Single : Phases[d] # "fenced"
                 /\ Phases' = [Phases EXCEPT ![c] = "fenced"]
      <4>1. /\ \A d \in CallIds : ~Dispatched(run, d)
            /\ \A d \in CallIds : Dispatched(run', d) => d = c
            /\ ~Fenced(run, c)
        BY <1>1, <2>5, <3>5, OneFence
      <4>2. Phases[c] = "open" /\ \A d \in Single : Phases[d] # "fenced"
        BY <1>1, <1>2, <4>1
      <4>3. \A d \in Single : d # c => Phase(d)' = Phase(d)
        BY <1>1, <3>3, <4>1 DEF Phase
      <4>4. Phase(c)' = "fenced"
        BY <1>1, <3>3, <3>5, <4>1 DEF Phase, Fenced
      <4>5. Phases' = [Phases EXCEPT ![c] = "fenced"]
        BY <4>3, <4>4 DEF Phases
      <4> QED BY <4>2, <4>5
    <3> QED BY <2>1, <3>1, <3>2, <3>4, <3>5
  <2>6. CASE Receives
    <3>1. PICK c \in CallIds, out \in Outcomes :
            /\ Dispatched(run, c) /\ drives[c] > 0
            /\ run'.observations = [run.observations EXCEPT ![c] = out]
            /\ ~run'.pending_execution.dispatched
            /\ Stopped(run') <=> Stopped(run)
      BY <2>6, ReceivesFacts
    <3>2. run.observations \in [CallIds -> Observations]
      BY WorkerFacts, Zenon DEF AllInv, AgentRunRow
    <3>3. \A d \in CallIds : d # c => /\ Executed(run', d) <=> Executed(run, d)
                                      /\ ~Dispatched(run, d)
      BY <3>1, <3>2 DEF Executed, Dispatched
    <3>4. Executed(run', c) /\ \A d \in CallIds : ~Dispatched(run', d)
      BY <3>1, <3>2 DEF Executed, Dispatched
    <3>5. \A d \in CallIds : d # c => Phase(d)' = Phase(d)
      BY <3>3, <3>4 DEF Phase
    <3>6. Phase(c)' = "recorded"
      BY <3>4 DEF Phase
    <3>7. CASE c \in Single
      <4>1. Phases' = [Phases EXCEPT ![c] = "recorded"]
        BY <1>1, <3>5, <3>6, <3>7 DEF Phases
      <4>2. Phases[c] = "fenced" /\ c \in Driven
        BY <1>1, <1>2, <3>1, <3>7 DEF Driven
      <4> QED BY <2>1, <3>1, <3>7, <4>1, <4>2
    <3>8. CASE c \notin Single
      <4>1. Phases' = Phases
        BY <1>1, <3>5, <3>8 DEF Phases
      <4> QED BY <2>1, <3>1, <4>1
    <3> QED BY <3>7, <3>8
  <2> QED BY <2>2, <2>4, <2>5, <2>6 DEF Moves
<1> QED BY <1>6, <1>7

\* The run does to its calls what DispatchOnce promises, and nothing else.
THEOREM RunKeepsPromise == Spec => KeepsPromise
<1>1. ASSUME Init PROVE Promise!Init
  <2>1. run = NewRow /\ drives = [c \in CallIds |-> 0]
    BY <1>1 DEF Init
  <2>2. /\ NewRow.observations = [c \in CallIds |-> "none"]
        /\ NewRow.pending_execution = NoExecution /\ NewRow.status = "PENDING"
        /\ ~NoExecution.dispatched
    BY DEF NewRow, NoExecution
  <2>3. \A c \in Single : c \in CallIds
    BY DEF Single
  <2>4. \A c \in Single : Phase(c) = "open"
    BY <2>1, <2>2, <2>3 DEF Phase, Executed, Dispatched, Outcomes
  <2>5. {c \in Single : drives[c] > 0} = {}
    BY <2>1, <2>3
  <2>6. Stopped(run) = FALSE
    BY <2>1, <2>2 DEF Stopped
  <2> QED BY <2>4, <2>5, <2>6 DEF Promise!Init
<1>2. ASSUME AllInv, [Next]_vars PROVE [Promise!Next]_(Promise!vars)
  <2>1. AllInv' /\ Moves /\ HandsOver
    BY <1>2, AllStep, SettleStep
  <2>2. \/ Phases' = Phases /\ Driven' = Driven /\ (Stopped(run') <=> Stopped(run))
        \/ /\ ~Stopped(run) /\ Stopped(run') /\ Phases' = Phases /\ Driven' = Driven
        \/ \E c \in Single :
             \/ /\ ~Stopped(run) /\ ~Stopped(run') /\ Phases[c] = "open"
                /\ \A d \in Single : Phases[d] # "fenced"
                /\ Phases' = [Phases EXCEPT ![c] = "fenced"] /\ Driven' = Driven
             \/ /\ Phases[c] = "fenced" /\ c \notin Driven
                /\ Driven' = Driven \cup {c} /\ Phases' = Phases
                /\ Stopped(run') <=> Stopped(run)
             \/ /\ Phases[c] = "fenced" /\ c \in Driven
                /\ Phases' = [Phases EXCEPT ![c] = "recorded"] /\ Driven' = Driven
                /\ Stopped(run') <=> Stopped(run)
    BY <1>2, <2>1, PromisedStep
  <2>3. /\ Stopped(run) \in BOOLEAN /\ Stopped(run') \in BOOLEAN
    BY DEF Stopped
  <2>4. CASE Phases' = Phases /\ Driven' = Driven /\ (Stopped(run') <=> Stopped(run))
    BY <2>3, <2>4 DEF Promise!vars, Phases, Driven
  <2>5. CASE /\ ~Stopped(run) /\ Stopped(run') /\ Phases' = Phases /\ Driven' = Driven
    BY <2>3, <2>5 DEF Promise!Next, Promise!Stop, Phases, Driven
  <2>6. ASSUME NEW c \in Single,
               /\ ~Stopped(run) /\ ~Stopped(run') /\ Phases[c] = "open"
               /\ \A d \in Single : Phases[d] # "fenced"
               /\ Phases' = [Phases EXCEPT ![c] = "fenced"] /\ Driven' = Driven
        PROVE  Promise!Next
    BY <2>3, <2>6 DEF Promise!Next, Promise!Fence, Phases, Driven
  <2>7. ASSUME NEW c \in Single,
               /\ Phases[c] = "fenced" /\ c \notin Driven
               /\ Driven' = Driven \cup {c} /\ Phases' = Phases
               /\ Stopped(run') <=> Stopped(run)
        PROVE  Promise!Next
    BY <2>3, <2>7 DEF Promise!Next, Promise!Drive, Phases, Driven
  <2>8. ASSUME NEW c \in Single,
               /\ Phases[c] = "fenced" /\ c \in Driven
               /\ Phases' = [Phases EXCEPT ![c] = "recorded"] /\ Driven' = Driven
               /\ Stopped(run') <=> Stopped(run)
        PROVE  Promise!Next
    BY <2>3, <2>8 DEF Promise!Next, Promise!Record, Phases, Driven
  <2> QED BY <2>2, <2>4, <2>5, <2>6, <2>7, <2>8
<1>3. Spec => Promise!Init /\ [][Promise!Next]_(Promise!vars)
  BY <1>1, <1>2, PromiseHolds, PTL DEF Spec
<1> QED BY <1>3 DEF KeepsPromise, Promise!Spec

=============================================================================
