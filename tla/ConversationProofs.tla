------------------------- MODULE ConversationProofs -------------------------
(***************************************************************************)
(* What the conversation shows of a run is true, for every set of calls    *)
(* and every number of retries, crashes, faults and resumes: the inductive *)
(* invariant behind ConversationIsTrue of module AgentRun.                 *)
(*                                                                         *)
(* The argument: a message is posted by the very save that stores the      *)
(* status it belongs to, and a copy whose save failed keeps the message    *)
(* together with the status until one of them is dropped (Letter); a       *)
(* question stands only while its own call is pending, so the reply that   *)
(* puts the run back to work is the reply to it (AtHand, Answering).       *)
(***************************************************************************)
EXTENDS AgentRunProofs

-----------------------------------------------------------------------------
(* The invariant *)

\* The call a row is at: it asks its user or has an execution record, not both,
\* and no tool result belongs to a question.
AtHand(r) ==
  /\ r.question # None => r.question = r.pending_tool_call /\ KindOf[r.question] = "ask"
  /\ r.pending_execution.call # None =>
       /\ r.pending_execution.call = r.pending_tool_call
       /\ KindOf[r.pending_tool_call] # "ask"
  /\ \A c \in CallIds : r.observations[c] # "none" => KindOf[c] # "ask"

\* A message that is still to be posted goes with its status.
Letter(r) ==
  /\ r.pending_message = "answer" => r.status = "SUCCEEDED"
  /\ r.pending_message = "question" => r.status = "WAITING_FOR_USER"
Enclosed(r) ==
  /\ r.status = "SUCCEEDED" => r.pending_message = "answer"
  /\ r.status = "WAITING_FOR_USER" => r.pending_message = "question"

\* Without faults: a question was answered by itself, and the last reply is the
\* one to the question that stands.
Proper(r) == sys.faults = 0 => \A c \in CallIds : r.answered[c] \in {None, c}
Replied(r) == sys.faults = 0 => r.question \in {None, r.last_reply}

TalkRows ==
  /\ AtHand(run) /\ AtHand(loc)
  /\ Proper(run) /\ Proper(loc)
  /\ run.pending_message = "none" /\ Letter(loc)

\* A copy that would end or pause a run that is still at work has its message.
TalkCopy ==
  w.pc \in Holding /\ loc.version = run.version /\ loc.status # run.status => Enclosed(loc)

\* What the worker's locals say of its copy, place by place.
Addressed(v, r) ==
  /\ v.pc \in Working \cup {"claim", "awaited", "closing"} => r.pending_message = "none"
  /\ v.pc \in {"claim"} \cup (Working \ {"interrupted"}) /\ r.question # None =>
       v.dec = "respond"
  /\ v.pc = "interrupted" /\ r.question # None => r.status = "WAITING_FOR_USER"
  /\ v.pc = "confirmed" => r.question = None
  /\ v.pc \in {"await", "awaited", "found", "recorded"} =>
       r.pending_tool_call = v.pos.call /\ KindOf[v.pos.call] # "ask"
  /\ v.pc = "recorded" => r.pending_execution.call = None

\* The places at which a copy may hold a question nobody has replied to.
Asked == {"interrupted", "conflict"}
Answering ==
  /\ run.status \in {"WAITING_FOR_USER", "TERMINATED"} \/ Replied(run)
  /\ w.pc \in Holding \ Asked => Replied(loc)

TalkInv == StatusHasMessages /\ TalkRows /\ TalkCopy /\ Addressed(w, loc) /\ Answering

-----------------------------------------------------------------------------
(* Rows that speak of the same calls *)

Speaks(q, r) ==
  /\ r.question = q.question /\ r.pending_tool_call = q.pending_tool_call
  /\ r.pending_execution.call = q.pending_execution.call
  /\ r.observations = q.observations /\ r.answered = q.answered
  /\ r.last_reply = q.last_reply

\* They are at the same call and hold the same replies.
LEMMA SpeaksAlike ==
  ASSUME NEW q, NEW r, Speaks(q, r)
  PROVE  /\ AtHand(q) => AtHand(r)
         /\ Proper(q) => Proper(r)
         /\ Replied(q) => Replied(r)
BY DEF Speaks, AtHand, Proper, Replied

\* Speaking of the same calls is transitive.
LEMMA SpeaksOn ==
  ASSUME NEW p, NEW q, NEW r, Speaks(p, q), Speaks(q, r)
  PROVE  Speaks(p, r)
BY DEF Speaks

\* What a save changes of the copy.
LEMMA SavedSpeaks ==
  ASSUME NEW r \in AgentRunRow
  PROVE  /\ Speaks(r, Saved(r)) /\ Saved(r).status = r.status
         /\ Saved(r).waiting_version = r.waiting_version
         /\ Saved(r).pending_message = "none"
         /\ Saved(r).version = r.version + 1
         /\ Speaks(r, Bump(r)) /\ Bump(r).status = r.status
         /\ Bump(r).waiting_version = r.waiting_version
         /\ Bump(r).pending_message = r.pending_message
<1>1. Bump(r) \in AgentRunRow
  BY BumpType
<1>2. /\ Speaks(r, Bump(r)) /\ Bump(r).status = r.status
      /\ Bump(r).waiting_version = r.waiting_version
      /\ Bump(r).pending_message = r.pending_message
  BY Zenon DEF Speaks, Bump, AgentRunRow
<1>3. /\ Speaks(Bump(r), Saved(r)) /\ Saved(r).status = Bump(r).status
      /\ Saved(r).waiting_version = Bump(r).waiting_version
      /\ Saved(r).pending_message = "none"
  BY <1>1, Zenon DEF Speaks, Saved, AgentRunRow
<1> QED BY <1>2, <1>3, SpeaksOn, RowFacts

\* What the copy of a step may be when it is saved or kept.
Tells(r) ==
  /\ r \in AgentRunRow /\ r.version = loc.version
  /\ AtHand(r) /\ Proper(r) /\ Letter(r)
  /\ loc.version = run.version /\ r.status # run.status => Enclosed(r)

\* A save that stores the copy with its messages, or does not.
Puts(r) ==
  \/ run' = run /\ msgs' = msgs /\ loc' = r
  \/ SaveAccepted(run, r) /\ Valid(run, r) /\ Store(r) /\ loc' \in {r, Saved(r)}

\* Every save is one of the two.
LEMMA PutsCases ==
  ASSUME NEW r
  PROVE  SaveOk(r) \/ SaveFault(r) \/ SaveConflict(r) \/ SaveInvalid(r) => Puts(r)
BY DEF Puts, SaveOk, SaveFault, SaveConflict, SaveInvalid

\* How a save counts the faults.
LEMMA FaultsGrow ==
  ASSUME AllInv, NEW r
  PROVE  /\ sys.faults \in Nat
         /\ SaveOk(r) \/ SaveConflict(r) \/ SaveInvalid(r) => sys' = sys
         /\ SaveFault(r) => sys'.faults # 0
<1>1. sys \in [closing: BOOLEAN, crashes: Nat, faults: Nat]
  BY DEF AllInv, TypeInv, TypeOK
<1>2. SaveFault(r) => sys'.faults = sys.faults + 1
  BY <1>1 DEF SaveFault
<1>3. SaveOk(r) \/ SaveConflict(r) \/ SaveInvalid(r) => sys' = sys
  BY DEF SaveOk, SaveConflict, SaveInvalid
<1> QED BY <1>1, <1>2, <1>3

\* A stored copy tells its user what its status says.
LEMMA StoredMessages ==
  ASSUME AllInv, TalkInv, NEW r, Tells(r), SaveAccepted(run, r), Valid(run, r), Store(r)
  PROVE  StatusHasMessages'
<1>1. /\ r \in AgentRunRow /\ run \in AgentRunRow /\ run' = Saved(r)
      /\ run.status \in Status /\ msgs \in Messages
  BY WorkerFacts, Zenon DEF AllInv, TypeInv, TypeOK, Store, AgentRunRow, Tells
<1>2. /\ Saved(r).status = r.status /\ Saved(r).question = r.question
      /\ Saved(r).waiting_version = r.waiting_version
      /\ Saved(r).pending_execution.call = r.pending_execution.call
  BY <1>1, SavedSpeaks DEF Speaks
<1>3. /\ run.status \notin Terminal
      /\ r.status = "WAITING_FOR_USER" => run.status # "WAITING_FOR_USER"
  BY <1>1 DEF Valid, AllowedNext, Terminal, Waiting, Status
<1>4. msgs.answers = 0
  BY <1>3 DEF TalkInv, StatusHasMessages, AnswerWithSuccess, Terminal
<1>5. Letter(r) /\ (r.status # run.status => Enclosed(r))
  BY DEF Tells, SaveAccepted
<1>6. /\ msgs'.questions = IF r.pending_message = "question"
                             THEN msgs.questions \cup {<<r.waiting_version, r.question>>}
                             ELSE msgs.questions
      /\ msgs'.cards = IF r.status = "WAITING_FOR_CONFIRMATION"
                         THEN msgs.cards \cup {<<r.waiting_version, r.pending_execution.call>>}
                         ELSE msgs.cards
      /\ msgs'.answers = msgs.answers + (IF r.pending_message = "answer" THEN 1 ELSE 0)
  BY DEF Store, Posted
<1>7. WaitingIsAddressed'
  BY <1>1, <1>2, <1>3, <1>5, <1>6 DEF WaitingIsAddressed, Enclosed
<1>8. AnswerWithSuccess'
  BY <1>1, <1>2, <1>3, <1>4, <1>5, <1>6 DEF AnswerWithSuccess, Enclosed, Letter, Terminal
<1> QED BY <1>7, <1>8 DEF StatusHasMessages

\* The worker saves, or fails to save, what it may tell.
LEMMA TalkSave ==
  ASSUME AllInv, AllInv', TalkInv, w.pc \in Holding, NEW r, Tells(r), Puts(r),
         Addressed(w', loc'), sys'.faults = 0 => sys.faults = 0,
         \/ Replied(r)
         \/ sys'.faults # 0
         \/ r.status \in {"WAITING_FOR_USER", "TERMINATED"} /\ w'.pc \notin Holding \ Asked
  PROVE  TalkInv'
<1>1. /\ r \in AgentRunRow /\ run \in AgentRunRow /\ r.version = loc.version
      /\ r.version \in Nat /\ run.version \in Nat
  BY WorkerFacts DEF AllInv, Tells
<1>2. /\ Speaks(r, Saved(r)) /\ Saved(r).status = r.status
      /\ Saved(r).pending_message = "none" /\ Saved(r).version = r.version + 1
  BY <1>1, SavedSpeaks
<1>3. /\ AtHand(r) /\ Proper(r) /\ Letter(r)
      /\ AtHand(Saved(r)) /\ Proper(Saved(r)) /\ Letter(Saved(r))
      /\ Replied(r) => Replied(Saved(r))
  BY <1>2, SpeaksAlike DEF Tells, Letter
<1>4. AtHand(run) /\ Proper(run) /\ run.pending_message = "none" /\ StatusHasMessages
  BY DEF TalkInv, TalkRows
<1>5. CASE run' = run /\ msgs' = msgs /\ loc' = r
  <2>1. TalkRows'
    BY <1>3, <1>4, <1>5 DEF TalkRows, AtHand, Proper, Letter
  <2>2. TalkCopy'
    BY <1>1, <1>5 DEF TalkCopy, Tells, Enclosed
  <2>3. Answering'
    BY <1>5 DEF Answering, TalkInv, Replied
  <2>4. StatusHasMessages'
    BY <1>4, <1>5 DEF StatusHasMessages, WaitingIsAddressed, AnswerWithSuccess
  <2> QED BY <2>1, <2>2, <2>3, <2>4 DEF TalkInv
<1>6. CASE /\ SaveAccepted(run, r) /\ Valid(run, r) /\ Store(r)
           /\ loc' \in {r, Saved(r)}
  <2>0. run' = Saved(r)
    BY <1>6 DEF Store
  <2>1. TalkRows'
    BY <1>2, <1>3, <1>6, <2>0 DEF TalkRows, AtHand, Proper, Letter
  <2>2. TalkCopy'
    BY <1>1, <1>2, <1>6, <2>0 DEF TalkCopy
  <2>3. Answering'
    BY <1>2, <1>3, <1>6, <2>0 DEF Answering, Replied, Speaks
  <2>4. StatusHasMessages'
    BY <1>6, StoredMessages
  <2> QED BY <2>1, <2>2, <2>3, <2>4 DEF TalkInv
<1> QED BY <1>5, <1>6 DEF Puts

\* A worker that left the graph is addressed nowhere.
LEMMA AddressedLeft ==
  ASSUME NEW v, NEW pc \in {"fail", "conflict"}, NEW code, NEW r
  PROVE  Addressed(Left(v, pc, code), r) /\ Left(v, pc, code).pc = pc
BY DEF Addressed, Left, IdleWorker, Working

\* persist() of what the worker may tell.
LEMMA TalkPersist ==
  ASSUME AllInv, AllInv', TalkInv, w.pc \in Working \cup {"awaited"}, NEW r, Tells(r),
         NEW next, Persist(r, next), Addressed(next, Saved(r)),
         \/ Replied(r)
         \/ /\ r.status = "WAITING_FOR_USER" /\ next.pc = "interrupted"
            /\ loc.version = run.version => run.status = "RUNNING"
  PROVE  TalkInv'
<1>1. w.pc \in Holding
  BY DEF Working, Holding, WorkerPc
<1>2. Puts(r)
  BY PutsCases DEF Persist
<1>3. CASE SaveOk(r) /\ w' = next
  <2>1. loc' = Saved(r) /\ sys' = sys
    BY <1>3 DEF SaveOk
  <2>2. Addressed(w', loc')
    BY <1>3, <2>1
  <2> QED BY <1>1, <1>2, <1>3, <2>1, <2>2, TalkSave DEF Asked
<1>4. CASE SaveConflict(r) /\ w' = Left(next, "conflict", "none")
  <2>1. sys' = sys /\ w'.pc = "conflict" /\ Addressed(w', loc')
    BY <1>4, AddressedLeft DEF SaveConflict
  <2> QED BY <1>1, <1>2, <2>1, TalkSave DEF Asked
<1>5. CASE SaveFault(r) /\ w' = Left(next, "fail", "DEPENDENCY_UNAVAILABLE")
  <2>1. sys'.faults # 0 /\ Addressed(w', loc')
    BY <1>5, AddressedLeft, FaultsGrow
  <2> QED BY <1>1, <1>2, <2>1, TalkSave
<1>6. CASE SaveInvalid(r) /\ w' = Left(next, "fail", "FATAL")
  <2>1. sys' = sys /\ Addressed(w', loc')
    BY <1>6, AddressedLeft DEF SaveInvalid
  <2>2. Replied(r)
    <3>1. "WAITING_FOR_USER" \in AllowedNext["RUNNING"]
      <4>1. "RUNNING" \in Status /\ "WAITING_FOR_USER" \in Status
        BY Members
      <4>2. AllowedNext["RUNNING"] = Status \ {"PENDING"}
        BY <4>1 DEF AllowedNext, Terminal, Waiting, Status
      <4> QED BY <4>1, <4>2
    <3>2. loc.version = run.version /\ ~Valid(run, r)
      BY <1>6 DEF SaveInvalid, SaveAccepted, Tells
    <3> QED BY <3>1, <3>2 DEF Valid
  <2> QED BY <1>1, <1>2, <2>1, <2>2, TalkSave
<1> QED BY <1>3, <1>4, <1>5, <1>6 DEF Persist

\* A step that leaves the row, the copy and the messages alone.
LEMMA TalkLocal ==
  ASSUME TalkInv, UNCHANGED <<run, loc, msgs>>, Addressed(w', loc),
         sys'.faults = 0 => sys.faults = 0,
         w'.pc \in Holding => w.pc \in Holding,
         w'.pc \in Holding \ Asked => w.pc \in Holding \ Asked \/ loc.question = None
  PROVE  TalkInv'
<1>1. TalkRows'
  BY DEF TalkInv, TalkRows, Proper, AtHand, Letter
<1>2. TalkCopy'
  BY DEF TalkInv, TalkCopy, Enclosed
<1>3. Answering'
  BY DEF TalkInv, Answering, Replied
<1>4. StatusHasMessages'
  BY DEF TalkInv, StatusHasMessages, WaitingIsAddressed, AnswerWithSuccess
<1>5. Addressed(w, loc)'
  OBVIOUS
<1> QED BY <1>1, <1>2, <1>3, <1>4, <1>5 DEF TalkInv

\* An exception or a conflict inside the graph.
LEMMA TalkRaise ==
  ASSUME TalkInv, UNCHANGED <<run, loc, msgs, sys>>, NEW pc \in {"fail", "conflict"},
         NEW code, w' = Left(w, pc, code), w.pc \in (Working \cup {"awaited"}) \ {"interrupted"}
  PROVE  TalkInv'
<1>1. Addressed(w', loc) /\ w'.pc = pc
  BY AddressedLeft
<1>2. w.pc \in Holding \ Asked
  BY DEF Holding, WorkerPc, Working, Asked
<1> QED BY <1>1, <1>2, TalkLocal

-----------------------------------------------------------------------------
(* advance up to the graph, and the model *)

\* Places at which nothing is asked of the copy, and the graph.
LEMMA AddressedAway ==
  ASSUME NEW v, NEW r, v.pc \in {"idle", "read", "raised", "dying", "fail", "conflict"}
  PROVE  Addressed(v, r)
BY DEF Addressed, Working
LEMMA AddressedGraph ==
  ASSUME NEW v, NEW r, v.pc \in {"graph", "calling", "inserted", "prepared"}, r.pending_message = "none",
         r.question # None => v.dec = "respond"
  PROVE  Addressed(v, r)
BY DEF Addressed

\* In the graph: the facts every step starts from.
LEMMA GraphTalk ==
  ASSUME AllInv, TalkInv, w.pc \in Working \ {"interrupted", "recorded"}
  PROVE  /\ loc.status = "RUNNING" /\ loc.pending_message = "none"
         /\ loc.question # None => w.dec = "respond"
         /\ AtHand(loc) /\ Proper(loc) /\ Replied(loc)
         /\ loc \in AgentRunRow /\ w \in Workers /\ w.pc \in Holding /\ w.pc \in Working
         /\ loc.version = run.version => run.status = "RUNNING"
<1>1. loc.status = "RUNNING"
  BY DEF AllInv, FenceInv, WorkerHolds, Working
<1>2. Addressed(w, loc) /\ AtHand(loc) /\ Proper(loc)
  BY DEF TalkInv, TalkRows
<1>3. loc.pending_message = "none" /\ (loc.question # None => w.dec = "respond")
  BY <1>2 DEF Addressed, Working
<1>4. w.pc \in Holding /\ w.pc \notin Asked
  BY DEF Working, Holding, WorkerPc, Asked
<1>5. Replied(loc)
  BY <1>4 DEF TalkInv, Answering
<1>6. loc.version = run.version => run.status = "RUNNING"
  BY <1>1 DEF AllInv, PromiseInv, Copy, InStep
<1> QED BY <1>1, <1>2, <1>3, <1>4, <1>5, <1>6, WorkerFacts DEF AllInv

\* A copy at work tells nothing.
LEMMA PlainTells ==
  ASSUME NEW r \in AgentRunRow, r.version = loc.version, AtHand(r), Proper(r),
         r.pending_message = "none", r.status \notin {"SUCCEEDED", "WAITING_FOR_USER"}
  PROVE  Tells(r)
BY DEF Tells, Letter, Enclosed

\* advance reads the row and claims it in its copy.
LEMMA TalkRead ==
  ASSUME AllInv, TalkInv, Read
  PROVE  TalkInv'
<1> DEFINE q == [run EXCEPT !.status = "RUNNING", !.claim = run.version + 1,
                            !.recovery_replay = FALSE]
           dec == IF run.confirmation_response # "none" THEN run.confirmation_response
                  ELSE IF run.question # None THEN "respond" ELSE "none"
           replay == run.recovery_replay /\ ~(run.confirmation_response # "none")
                       /\ ~(run.question # None)
           v == [IdleWorker EXCEPT !.pc = "claim", !.dec = dec, !.replay = replay]
<1>1. /\ run' = run /\ msgs' = msgs /\ sys' = sys
      /\ run \in AgentRunRow /\ Sound(run)
  BY WorkerFacts, Zenon DEF Read, AllInv, PromiseInv, Rows
<1>2. /\ Speaks(run, q) /\ q.status = "RUNNING" /\ q.pending_message = run.pending_message
  BY <1>1, Zenon DEF Speaks, AgentRunRow
<1>3. \/ w' = IdleWorker /\ loc' = NewRow
      \/ w' = [IdleWorker EXCEPT !.pc = "raised"] /\ loc' = NewRow
      \/ w' = v /\ loc' = q /\ run.status = "PENDING"
  BY <1>1, Zenon DEF Read
<1>4. v.pc = "claim" /\ v.dec = dec
  BY IdlePlaces
<1>5. AtHand(run) /\ Proper(run) /\ run.pending_message = "none" /\ StatusHasMessages
  BY DEF TalkInv, TalkRows
<1>6. run.question # None => dec = "respond"
  <2>1. run.confirmation_response # "none" =>
          run.pending_execution.call \in CallIds
    BY <1>1 DEF Sound, Phased, Asking
  <2>2. run.confirmation_response # "none" => run.question = None
    BY <1>5, <2>1, CallAssumption DEF AtHand
  <2> QED BY <2>2
<1> HIDE DEF q, dec, replay, v
<1>7. AtHand(q) /\ Proper(q) /\ (Replied(run) => Replied(q))
  BY <1>2, <1>5, SpeaksAlike
<1>8. StatusHasMessages'
  BY <1>1, <1>5 DEF StatusHasMessages, WaitingIsAddressed, AnswerWithSuccess
<1>9. CASE w' \in {IdleWorker, [IdleWorker EXCEPT !.pc = "raised"]} /\ loc' = NewRow
  <2>1. w'.pc \in {"idle", "raised"}
    BY <1>9, IdlePlaces
  <2>2. AtHand(NewRow) /\ (\A c \in CallIds : NewRow.answered[c] = None) /\ Letter(NewRow)
    BY DEF AtHand, NewRow, Letter, NoExecution
  <2>3. TalkRows'
    BY <1>1, <1>5, <1>9, <2>2 DEF TalkRows, AtHand, Proper, Letter
  <2>4. TalkCopy' /\ Answering'
    BY <1>1, <2>1 DEF TalkCopy, Answering, Holding, TalkInv, Replied
  <2>5. Addressed(w', loc')
    BY <2>1, AddressedAway
  <2> QED BY <1>8, <2>3, <2>4, <2>5 DEF TalkInv
<1>10. CASE w' = v /\ loc' = q /\ run.status = "PENDING"
  <2>1. TalkRows'
    BY <1>1, <1>2, <1>5, <1>7, <1>10 DEF TalkRows, AtHand, Proper, Letter
  <2>2. TalkCopy'
    BY <1>2, <1>10 DEF TalkCopy, Enclosed
  <2>3. Answering'
    BY <1>1, <1>7, <1>10 DEF Answering, TalkInv, Replied
  <2>4. Addressed(w', loc')
    BY <1>2, <1>4, <1>5, <1>6, <1>10 DEF Addressed, Speaks
  <2> QED BY <1>8, <2>1, <2>2, <2>3, <2>4 DEF TalkInv
<1> QED BY <1>3, <1>9, <1>10

\* The claim is saved before the graph starts.
LEMMA TalkClaim ==
  ASSUME AllInv, AllInv', TalkInv, Claim
  PROVE  TalkInv'
<1>1. w.pc = "claim"
  BY Zenon DEF Claim
<1>2. /\ w.pc \in Holding /\ w \in Workers /\ loc \in AgentRunRow /\ loc.status = "RUNNING"
      /\ w.pc \notin Asked
  BY <1>1, WorkerFacts DEF Holding, WorkerPc, Asked, AllInv, FenceInv, WorkerHolds
<1>3. /\ AtHand(loc) /\ Proper(loc) /\ Replied(loc) /\ loc.pending_message = "none"
      /\ loc.question # None => w.dec = "respond"
  BY <1>1, <1>2 DEF TalkInv, TalkRows, Addressed, Answering
<1>4. Tells(loc) /\ Puts(loc)
  BY <1>2, <1>3, PlainTells, PutsCases DEF Claim
<1>5. \/ sys' = sys \/ sys'.faults # 0
  BY FaultsGrow DEF Claim
<1>6. Saved(loc).question = loc.question /\ Saved(loc).pending_message = "none"
  BY <1>2, SavedSpeaks DEF Speaks
<1>7. CASE w' \in {Left(w, "fail", "FATAL"), Go("conflict"), Go("raised")}
  <2>1. w'.pc \in {"fail", "conflict", "raised"}
    BY <1>2, <1>7, GoFacts
  <2> QED BY <1>2, <1>3, <1>4, <1>5, <2>1, AddressedAway, TalkSave
<1>8. ASSUME NEW start, SaveOk(loc), w' = [w EXCEPT !.pc = "graph", !.pos = start]
      PROVE  TalkInv'
  <2>1. w'.pc = "graph" /\ w'.dec = w.dec /\ loc' = Saved(loc)
    BY <1>2, <1>8, Zenon DEF Workers, SaveOk
  <2>2. Addressed(w', loc')
    BY <1>3, <1>6, <2>1, AddressedGraph
  <2> QED BY <1>2, <1>3, <1>4, <1>5, <2>2, TalkSave
<1> QED BY <1>7, <1>8 DEF Claim

\* A failed closeout, a conflict and the writes of the SDK checkpoint.
LEMMA TalkCloseout ==
  ASSUME AllInv, AllInv', TalkInv, CloseoutFault \/ Conflict \/ Checkpoint
  PROVE  TalkInv'
<1>1. /\ UNCHANGED <<run, loc, msgs>> /\ w \in Workers
      /\ sys' = sys \/ sys'.faults = sys.faults + 1
  <2>1. sys \in [closing: BOOLEAN, crashes: Nat, faults: Nat]
    BY DEF AllInv, TypeInv, TypeOK
  <2> QED BY <2>1, WorkerFacts DEF CloseoutFault, Conflict, Checkpoint, AllInv
<1>2. w' = Go("read") \/ w' = Go("raised") \/ w' = w
  BY DEF CloseoutFault, Conflict, Checkpoint
<1>3. w' = w \/ w'.pc \in {"read", "raised"}
  BY <1>1, <1>2, GoFacts
<1>4. Addressed(w', loc)
  BY <1>3, AddressedAway DEF TalkInv
<1>5. sys'.faults = 0 => sys.faults = 0
  BY <1>1, FaultsGrow
<1> QED BY <1>1, <1>3, <1>4, <1>5, TalkLocal DEF Holding

\* The budget check and the reservation.
LEMMA TalkBeforeModel ==
  ASSUME AllInv, AllInv', TalkInv, BeforeModel
  PROVE  TalkInv'
<1>1. w.pc = "graph" /\ w.pc \in Working \ {"interrupted", "recorded"}
  BY Zenon DEF BeforeModel, AtNode, Working
<1>2. /\ loc.status = "RUNNING" /\ loc.pending_message = "none"
      /\ loc.question # None => w.dec = "respond"
      /\ AtHand(loc) /\ Proper(loc) /\ Replied(loc)
      /\ loc \in AgentRunRow /\ w \in Workers
  BY <1>1, GraphTalk
<1>3. CASE Raise("FATAL")
  BY <1>1, <1>3, TalkRaise DEF Raise, Exit
<1> DEFINE r == [loc EXCEPT !.calls = Append(@, "RUNNING")]
           next == [w EXCEPT !.pc = "calling", !.cur = Len(r.calls), !.att = @ + 1]
<1>4. r \in AgentRunRow
  BY ReservedEdit DEF AllInv, Edit
<1>5. /\ Speaks(loc, r) /\ r.status = loc.status /\ r.version = loc.version
      /\ r.pending_message = loc.pending_message
  BY <1>2, Zenon DEF Speaks, AgentRunRow
<1>6. next.pc = "calling" /\ next.dec = w.dec
  BY <1>2, Zenon DEF Workers
<1>7. Raise("FATAL") \/ Persist(r, next)
  BY DEF BeforeModel
<1> HIDE DEF r, next
<1>8. Tells(r) /\ Replied(r)
  BY <1>2, <1>4, <1>5, SpeaksAlike, PlainTells
<1>9. Addressed(next, Saved(r))
  BY <1>2, <1>4, <1>5, <1>6, SavedSpeaks, AddressedGraph DEF Speaks
<1> QED BY <1>1, <1>3, <1>7, <1>8, <1>9, TalkPersist

\* A settled call and a dropped marker say nothing new.
LEMMA SettledSpeaks ==
  ASSUME AllInv, NEW r \in AgentRunRow, NEW status \in {"SUCCEEDED", "FAILED"}
  PROVE  LET q == Settled(r, status) IN
         /\ q \in AgentRunRow /\ Speaks(r, q) /\ q.status = r.status
         /\ q.version = r.version /\ q.pending_message = r.pending_message
<1>1. Settled(r, status) \in AgentRunRow
  BY CopyFacts DEF AllInv
<1>2. LET q == Settled(r, status) IN
      /\ Speaks(r, q) /\ q.status = r.status
      /\ q.version = r.version /\ q.pending_message = r.pending_message
  BY Zenon DEF Settled, Speaks, AgentRunRow
<1> QED BY <1>1, <1>2

\* A row without its marker: nothing else is said otherwise.
LEMMA MarkerSpeaks ==
  ASSUME NEW r \in AgentRunRow, NEW c \in CallIds \cup {None}
  PROVE  LET q == [r EXCEPT !.pending_tool_call = c] IN
         /\ q \in AgentRunRow /\ q.pending_tool_call = c
         /\ q.question = r.question /\ q.pending_execution = r.pending_execution
         /\ q.observations = r.observations /\ q.answered = r.answered
         /\ q.last_reply = r.last_reply /\ q.status = r.status
         /\ q.version = r.version /\ q.pending_message = r.pending_message
BY Zenon DEF AgentRunRow

\* A row at no call may mark one, or none.
LEMMA MarkerMoves ==
  ASSUME NEW r \in AgentRunRow, NEW c \in CallIds \cup {None}, AtHand(r), Proper(r),
         r.question = None, r.pending_execution.call = None
  PROVE  LET q == [r EXCEPT !.pending_tool_call = c] IN
         AtHand(q) /\ Proper(q) /\ Replied(q)
<1> DEFINE q == [r EXCEPT !.pending_tool_call = c]
<1>1. /\ q.question = r.question /\ q.pending_execution = r.pending_execution
      /\ q.observations = r.observations /\ q.answered = r.answered
  BY MarkerSpeaks
<1> HIDE DEF q
<1> QED BY <1>1 DEF AtHand, Proper, Replied, q

\* A step of the graph that persists a copy at work and stays in the graph.
LEMMA TalkGraph ==
  ASSUME AllInv, AllInv', TalkInv, w.pc \in Working \cup {"awaited"}, NEW r, Tells(r),
         Replied(r), NEW next, Persist(r, next), next.pc \in {"graph", "fail", "conflict"},
         next.pc = "graph" /\ r.question # None => next.dec = "respond"
  PROVE  TalkInv'
<1>1. Saved(r).question = r.question /\ Saved(r).pending_message = "none"
  BY SavedSpeaks DEF Speaks, Tells
<1>2. Addressed(next, Saved(r))
  BY <1>1, AddressedAway, AddressedGraph
<1> QED BY <1>2, TalkPersist

\* A replayed model call may drop the marker of a call it lost.
LEMMA AnsweredSpeaks ==
  ASSUME AllInv, NEW r \in AgentRunRow, AtHand(r), Proper(r), Replied(r)
  PROVE  LET q == Answered(r) IN
         /\ q \in AgentRunRow /\ AtHand(q) /\ Proper(q) /\ Replied(q)
         /\ q.question = r.question /\ q.pending_execution = r.pending_execution
         /\ q.status = r.status /\ q.version = r.version
         /\ q.pending_message = r.pending_message
<1>1. CASE w.replay /\ Unfinished(r)
  <2>1. Answered(r) = [r EXCEPT !.pending_tool_call = None]
    BY <1>1 DEF Answered
  <2>2. r.question = None /\ r.pending_execution.call = None
    BY <1>1 DEF Unfinished
  <2> QED BY <2>1, <2>2, MarkerSpeaks, MarkerMoves
<1>2. CASE ~(w.replay /\ Unfinished(r))
  BY <1>2 DEF Answered
<1> QED BY <1>1, <1>2

\* The model's response.
LEMMA TalkModel ==
  ASSUME AllInv, AllInv', TalkInv, OnModel
  PROVE  TalkInv'
<1> DEFINE p == Settled(loc, "SUCCEEDED")
           r == Answered(p)
           Next1(pos) == IF r.llm_tokens >= MaxTokens
                           THEN Left(w, "fail", "FATAL")
                           ELSE [w EXCEPT !.pc = "graph", !.pos = pos, !.att = 0]
<1>1. w.pc = "calling" /\ w.pc \in Working \ {"interrupted", "recorded"}
  BY Zenon DEF OnModel, Working
<1>2. /\ loc.status = "RUNNING" /\ loc.pending_message = "none"
      /\ loc.question # None => w.dec = "respond"
      /\ AtHand(loc) /\ Proper(loc) /\ Replied(loc)
      /\ loc \in AgentRunRow /\ w \in Workers /\ w.pc \in Holding /\ w.pc \in Working
  BY <1>1, GraphTalk
<1>3. /\ p \in AgentRunRow /\ Speaks(loc, p) /\ p.status = loc.status
      /\ p.version = loc.version /\ p.pending_message = loc.pending_message
  BY <1>2, SettledSpeaks
<1>4. ASSUME NEW pos
      PROVE  Next1(pos).pc \in {"graph", "fail"} /\ (Next1(pos).pc = "graph" => Next1(pos).dec = w.dec)
  <2>1. LET v == [w EXCEPT !.pc = "graph", !.pos = pos, !.att = 0] IN v.pc = "graph" /\ v.dec = w.dec
    BY <1>2, Zenon DEF Workers
  <2> QED BY <1>2, <2>1, GoFacts
<1>5. \/ Persist(r, Next1(At("final")))
      \/ \E c \in CallIds : /\ r.pending_tool_call = None
                            /\ Persist([r EXCEPT !.pending_tool_call = c], Next1(AtTool(c)))
      \/ Exit("fail", "FATAL") /\ loc' = r /\ UNCHANGED <<run, msgs, sys>>
  BY DEF OnModel
<1> HIDE DEF p
<1>6. AtHand(p) /\ Proper(p) /\ Replied(p)
  BY <1>2, <1>3, SpeaksAlike
<1>7. /\ r \in AgentRunRow /\ AtHand(r) /\ Proper(r) /\ Replied(r)
      /\ r.question = loc.question /\ r.pending_execution = p.pending_execution
      /\ r.status = "RUNNING" /\ r.version = loc.version /\ r.pending_message = "none"
  BY <1>2, <1>3, <1>6, AnsweredSpeaks DEF Speaks
<1> HIDE DEF r, Next1
<1>8. Tells(r)
  BY <1>7, PlainTells
<1>9. CASE Persist(r, Next1(At("final")))
  BY <1>2, <1>4, <1>7, <1>8, <1>9, TalkGraph
<1>10. ASSUME NEW c \in CallIds, r.pending_tool_call = None,
              Persist([r EXCEPT !.pending_tool_call = c], Next1(AtTool(c)))
       PROVE  TalkInv'
  <2> DEFINE q == [r EXCEPT !.pending_tool_call = c]
  <2>1. r.question = None /\ r.pending_execution.call = None
    BY <1>7, <1>10 DEF AtHand
  <2>2. AtHand(q) /\ Proper(q) /\ Replied(q)
    BY <1>7, <2>1, MarkerMoves
  <2>3. /\ q \in AgentRunRow /\ q.question = None /\ q.status = "RUNNING"
        /\ q.version = loc.version /\ q.pending_message = "none"
    BY <1>7, <2>1, MarkerSpeaks
  <2>4. Persist(q, Next1(AtTool(c)))
    BY <1>10
  <2> HIDE DEF q
  <2>5. Tells(q)
    BY <2>2, <2>3, PlainTells
  <2> QED BY <1>2, <1>4, <2>2, <2>3, <2>4, <2>5, TalkGraph
<1>11. CASE Exit("fail", "FATAL") /\ loc' = r /\ UNCHANGED <<run, msgs, sys>>
  <2>1. w'.pc = "fail" /\ Addressed(w', loc')
    BY <1>11, AddressedLeft DEF Exit
  <2>2. Puts(r)
    BY <1>11 DEF Puts
  <2> QED BY <1>2, <1>7, <1>8, <1>11, <2>1, <2>2, TalkSave
<1> QED BY <1>5, <1>9, <1>10, <1>11

\* The model's failure.
LEMMA TalkModelFailure ==
  ASSUME AllInv, AllInv', TalkInv, NEW code, NEW retry, ModelFailure(code, retry)
  PROVE  TalkInv'
<1> DEFINE r == Settled(loc, "FAILED")
<1>1. w.pc = "calling" /\ w.pc \in Working \ {"interrupted", "recorded"}
  BY Zenon DEF ModelFailure, Working
<1>2. /\ loc.status = "RUNNING" /\ loc.pending_message = "none"
      /\ loc.question # None => w.dec = "respond"
      /\ AtHand(loc) /\ Proper(loc) /\ Replied(loc)
      /\ loc \in AgentRunRow /\ w \in Workers /\ w.pc \in Holding
  BY <1>1, GraphTalk
<1>3. /\ r \in AgentRunRow /\ Speaks(loc, r) /\ r.status = loc.status
      /\ r.version = loc.version /\ r.pending_message = loc.pending_message
  BY <1>2, SettledSpeaks
<1>4. /\ SaveOk(r) \/ SaveConflict(r) \/ SaveFault(r)
      /\ w' \in {Go("graph"), Left(w, "fail", code), Broken}
  BY DEF ModelFailure
<1> HIDE DEF r
<1>5. Tells(r) /\ Puts(r) /\ Replied(r)
  BY <1>2, <1>3, <1>4, SpeaksAlike, PlainTells, PutsCases
<1>6. \/ sys' = sys \/ sys'.faults # 0
  BY <1>4, FaultsGrow
<1>7. loc' \in {r, Saved(r)}
  BY <1>4 DEF SaveOk, SaveConflict, SaveFault
<1>8. loc'.question = loc.question /\ loc'.pending_message = "none"
  BY <1>2, <1>3, <1>7, SavedSpeaks DEF Speaks
<1>9. w'.pc = "fail" \/ (w'.pc = "graph" /\ w'.dec = w.dec)
  BY <1>2, <1>4, GoFacts DEF Broken
<1>10. Addressed(w', loc')
  BY <1>2, <1>8, <1>9, AddressedAway, AddressedGraph
<1> QED BY <1>2, <1>5, <1>6, <1>10, TalkSave

-----------------------------------------------------------------------------
(* on_tool *)

\* The graph moves on without touching a row.
LEMMA TalkMoves ==
  ASSUME AllInv, TalkInv, UNCHANGED <<run, loc, msgs>>, sys'.faults = 0 => sys.faults = 0,
         w.pc \in Working \ {"interrupted", "recorded"},
         w'.pc \in {"graph", "inserted", "prepared", "fail", "conflict"},
         w'.pc \in {"graph", "inserted", "prepared"} => w'.dec = w.dec
  PROVE  TalkInv'
<1>1. /\ loc.pending_message = "none" /\ loc.question # None => w.dec = "respond"
      /\ w.pc \in Holding \ Asked
  BY GraphTalk DEF Asked, Working
<1>2. Addressed(w', loc)
  BY <1>1, GraphTalk, AddressedAway, AddressedGraph
<1> QED BY <1>1, <1>2, TalkLocal

\* What the tool node returns.
LEMMA MessageTalks ==
  ASSUME w \in Workers, NEW c, NEW out
  PROVE  /\ Message(c, out).pc \in {"graph", "fail"}
         /\ Message(c, out).pc = "graph" => Message(c, out).dec = w.dec
BY GoFacts DEF Message

\* At the tool the row is at this very call.
LEMMA HandlingTalk ==
  ASSUME AllInv, TalkInv, Handling
  PROVE  /\ w.pc = "graph" /\ w.pc \in Working \ {"interrupted", "recorded"}
         /\ Call \in CallIds /\ Call # None /\ loc.pending_tool_call = Call
         /\ loc.question # None => loc.question = Call /\ KindOf[Call] = "ask"
         /\ loc.pending_execution.call # None =>
              loc.pending_execution.call = Call /\ KindOf[Call] # "ask"
         /\ KindOf[Call] = "ask" => loc.pending_execution.call = None
         /\ KindOf[Call] # "ask" => loc.question = None
<1>1. /\ w.pc = "graph" /\ Call \in CallIds /\ Call # None /\ loc.pending_tool_call = Call
  BY AtTheTool DEF AllInv
<1>2. w.pc \in Working \ {"interrupted", "recorded"}
  BY <1>1 DEF Working
<1>3. AtHand(loc)
  BY DEF TalkInv, TalkRows
<1> QED BY <1>1, <1>2, <1>3 DEF AtHand

\* The observation of a completed call is returned again.
LEMMA TalkReplayCompleted ==
  ASSUME AllInv, AllInv', TalkInv, ReplayCompleted
  PROVE  TalkInv'
<1> DEFINE next == Message(Call, loc.observations[Call])
<1>1. w.pc = "graph" /\ w.pc \in Working \ {"interrupted", "recorded"} /\ Executed(loc, Call)
  BY Zenon DEF ReplayCompleted, AtNode, Working
<1>2. /\ loc.status = "RUNNING" /\ loc.pending_message = "none"
      /\ loc.question # None => w.dec = "respond"
      /\ AtHand(loc) /\ Proper(loc) /\ Replied(loc)
      /\ loc \in AgentRunRow /\ w \in Workers
  BY <1>1, GraphTalk
<1>3. next.pc \in {"graph", "fail"} /\ (next.pc = "graph" => next.dec = w.dec)
  BY <1>2, MessageTalks
<1>4. \/ /\ loc.pending_tool_call = Call
         /\ Persist([loc EXCEPT !.pending_tool_call = None], next)
      \/ w' = next /\ UNCHANGED <<run, msgs, loc, sys>>
  BY DEF ReplayCompleted, Done
<1> HIDE DEF next
<1>5. CASE w' = next /\ UNCHANGED <<run, msgs, loc, sys>>
  BY <1>1, <1>3, <1>5, TalkMoves
<1>6. CASE /\ loc.pending_tool_call = Call
           /\ Persist([loc EXCEPT !.pending_tool_call = None], next)
  <2> DEFINE r == [loc EXCEPT !.pending_tool_call = None]
  <2>1. /\ loc.question \in CallIds \cup {None}
        /\ loc.pending_execution.call \in CallIds \cup {None}
    BY <1>2, Zenon DEF AgentRunRow, ExecutionRecord
  <2>2. Marked(loc) /\ loc.observations[Call] \in Outcomes
    BY <1>1 DEF AllInv, PromiseInv, Rows, Sound, Executed
  <2>3. loc.question = None
    BY <1>2, <1>6, <2>1, <2>2 DEF AtHand, Outcomes
  <2>4. loc.pending_execution.call = None
    BY <1>2, <1>6, <2>1, <2>2 DEF AtHand, Marked, Outcomes
  <2>5. AtHand(r) /\ Proper(r) /\ Replied(r)
    BY <1>2, <2>3, <2>4, MarkerMoves
  <2>6. /\ r \in AgentRunRow /\ r.question = None /\ r.status = "RUNNING"
        /\ r.version = loc.version /\ r.pending_message = "none"
    BY <1>2, <2>3, MarkerSpeaks
  <2>7. Persist(r, next)
    BY <1>6
  <2> HIDE DEF r
  <2>8. Tells(r)
    BY <2>5, <2>6, PlainTells
  <2> QED BY <1>1, <1>3, <2>5, <2>6, <2>7, <2>8, TalkGraph
<1> QED BY <1>4, <1>5, <1>6

\* An applied reply is returned again; a call the row does not wait for is refused.
LEMMA TalkReplayed ==
  ASSUME AllInv, AllInv', TalkInv, ReplayAnswered \/ SourceMismatch
  PROVE  TalkInv'
<1>1. w.pc \in Working \ {"interrupted", "recorded"} /\ w \in Workers
  BY WorkerFacts DEF ReplayAnswered, SourceMismatch, Fresh, AtNode, Working, AllInv
<1>2. UNCHANGED <<run, loc, msgs, sys>> /\ w' \in {ToolDone, Left(w, "fail", "FATAL")}
  BY DEF ReplayAnswered, SourceMismatch, Raise, Exit
<1>3. w'.pc \in {"graph", "fail"} /\ (w'.pc = "graph" => w'.dec = w.dec)
  BY <1>1, <1>2, GoFacts
<1> QED BY <1>1, <1>2, <1>3, TalkMoves

\* The question is asked, or its reply applied.
LEMMA TalkAskUser ==
  ASSUME AllInv, AllInv', TalkInv, AskUser
  PROVE  TalkInv'
<1>1. Handling /\ KindOf[Call] = "ask"
  BY DEF AskUser
<1>2. /\ w.pc = "graph" /\ w.pc \in Working \ {"interrupted", "recorded"}
      /\ Call \in CallIds /\ Call # None /\ loc.pending_tool_call = Call
      /\ loc.question # None => loc.question = Call
      /\ loc.pending_execution.call = None
  BY <1>1, HandlingTalk
<1>3. /\ loc.status = "RUNNING" /\ loc.pending_message = "none"
      /\ loc.question # None => w.dec = "respond"
      /\ AtHand(loc) /\ Proper(loc) /\ Replied(loc)
      /\ loc \in AgentRunRow /\ w \in Workers /\ w.pc \in Working
      /\ loc.version = run.version => run.status = "RUNNING"
  BY <1>2, GraphTalk
<1> DEFINE q == [loc EXCEPT !.question = Call, !.waiting_version = @ + 1,
                       !.pending_message = "question", !.status = "WAITING_FOR_USER"]
           u == Done(loc, Call)
           r == [u EXCEPT !.answered[Call] = loc.last_reply, !.question = None]
           next == [ToolDone EXCEPT !.dec = "none"]
<1>4. \/ Persist(q, Go("interrupted"))
      \/ loc.question # None /\ Persist(r, next)
  BY <1>3 DEF AskUser
<1>5. CASE Persist(q, Go("interrupted"))
  <2>1. /\ q \in AgentRunRow /\ q.question = Call /\ q.pending_message = "question"
        /\ q.status = "WAITING_FOR_USER" /\ q.version = loc.version
    BY <1>2, <1>3, RowNumbers, Members, Zenon DEF AgentRunRow
  <2>2. /\ q.pending_tool_call = loc.pending_tool_call
        /\ q.pending_execution = loc.pending_execution
        /\ q.observations = loc.observations /\ q.answered = loc.answered
    BY <1>3, Zenon DEF AgentRunRow
  <2> HIDE DEF q
  <2>3. AtHand(q) /\ Proper(q)
    BY <1>1, <1>2, <1>3, <2>1, <2>2 DEF AtHand, Proper
  <2>4. Tells(q)
    BY <2>1, <2>3 DEF Tells, Letter, Enclosed
  <2>5. Go("interrupted").pc = "interrupted"
    BY <1>3, GoFacts
  <2>6. Addressed(Go("interrupted"), Saved(q))
    BY <2>1, <2>5, SavedSpeaks DEF Addressed
  <2> QED BY <1>3, <1>5, <2>1, <2>4, <2>5, <2>6, TalkPersist
<1>6. CASE loc.question # None /\ Persist(r, next)
  <2>1. /\ u \in AgentRunRow /\ u.pending_execution = loc.pending_execution
        /\ u.observations = loc.observations /\ u.answered = loc.answered
        /\ u.status = loc.status /\ u.version = loc.version
        /\ u.pending_message = loc.pending_message /\ u.last_reply = loc.last_reply
    BY <1>2, <1>3, MarkerSpeaks DEF Done
  <2> HIDE DEF u
  <2>2. /\ loc.last_reply \in CallIds \cup {None}
        /\ u.answered \in [CallIds -> CallIds \cup {None}]
    BY <1>3, <2>1, Zenon DEF AgentRunRow
  <2>3. [u.answered EXCEPT ![Call] = loc.last_reply] \in [CallIds -> CallIds \cup {None}]
    BY <2>2, Zenon
  <2>4. /\ r \in AgentRunRow
        /\ r.answered = [u.answered EXCEPT ![Call] = loc.last_reply]
        /\ r.question = None
    BY <2>1, <2>3, Zenon DEF AgentRunRow
  <2>5. /\ r.pending_execution = u.pending_execution /\ r.observations = u.observations
        /\ r.status = u.status /\ r.version = u.version
        /\ r.pending_message = u.pending_message
    BY <2>1, Zenon DEF AgentRunRow
  <2>6. next.pc = "graph"
    BY <1>3, Zenon DEF ToolDone, Workers
  <2>7. Persist(r, next)
    BY <1>6
  <2> HIDE DEF r, next
  <2>8. AtHand(r)
    BY <1>2, <1>3, <2>1, <2>4, <2>5 DEF AtHand
  <2>9. Proper(r)
    <3>1. sys.faults = 0 => loc.last_reply = Call
      BY <1>2, <1>3, <1>6 DEF Replied
    <3>2. sys.faults = 0 => \A c \in CallIds : u.answered[c] \in {None, c}
      BY <1>3, <2>1 DEF Proper
    <3> QED BY <1>2, <2>2, <2>4, <3>1, <3>2 DEF Proper
  <2>10. Tells(r) /\ Replied(r)
    BY <1>3, <2>1, <2>4, <2>5, <2>8, <2>9, PlainTells DEF Replied
  <2> QED BY <1>3, <2>4, <2>6, <2>7, <2>10, TalkGraph
<1> QED BY <1>4, <1>5, <1>6

\* The arguments of the call are resolved.
LEMMA TalkResolve ==
  ASSUME AllInv, AllInv', TalkInv, Resolve
  PROVE  TalkInv'
<1>1. Handling /\ KindOf[Call] # "ask" /\ loc.pending_execution.call = None
  BY DEF Resolve
<1>2. /\ w.pc = "graph" /\ w.pc \in Working \ {"interrupted", "recorded"}
      /\ Call \in CallIds /\ Call # None /\ loc.pending_tool_call = Call
      /\ loc.question = None
  BY <1>1, HandlingTalk
<1>3. /\ loc.status = "RUNNING" /\ loc.pending_message = "none"
      /\ AtHand(loc) /\ Proper(loc) /\ Replied(loc)
      /\ loc \in AgentRunRow /\ w \in Workers /\ w.pc \in Working
  BY <1>2, GraphTalk
<1> DEFINE u == Done(loc, Call)
           r == [u EXCEPT !.observations[Call] = "NEEDS_INPUT"]
           x == [NoExecution EXCEPT !.call = Call]
           q == [loc EXCEPT !.pending_execution = x]
<1>4. Persist(r, ToolDone) \/ Raise("FATAL") \/ Persist(q, Go("graph"))
  BY DEF Resolve
<1>5. CASE Raise("FATAL")
  BY <1>2, <1>3, <1>5, TalkRaise DEF Raise, Exit
<1>6. ToolDone.pc = "graph" /\ Go("graph").pc = "graph"
  BY <1>3, GoFacts
<1>7. CASE Persist(r, ToolDone)
  <2>1. /\ u \in AgentRunRow /\ u.pending_execution = loc.pending_execution
        /\ u.observations = loc.observations /\ u.answered = loc.answered
        /\ u.status = loc.status /\ u.version = loc.version /\ u.question = loc.question
        /\ u.pending_message = loc.pending_message
    BY <1>2, <1>3, MarkerSpeaks DEF Done
  <2> HIDE DEF u
  <2>2. u.observations \in [CallIds -> Observations]
    BY <2>1, Zenon DEF AgentRunRow
  <2>3. [u.observations EXCEPT ![Call] = "NEEDS_INPUT"] \in [CallIds -> Observations]
    BY <2>2, Members, Zenon
  <2>4. /\ r \in AgentRunRow
        /\ r.observations = [u.observations EXCEPT ![Call] = "NEEDS_INPUT"]
    BY <2>1, <2>3, Zenon DEF AgentRunRow
  <2>5. /\ r.pending_execution = u.pending_execution /\ r.answered = u.answered
        /\ r.status = u.status /\ r.version = u.version /\ r.question = u.question
        /\ r.pending_message = u.pending_message
    BY <2>1, Zenon DEF AgentRunRow
  <2>6. Persist(r, ToolDone)
    BY <1>7
  <2> HIDE DEF r
  <2>7. AtHand(r)
    <3>1. \A c \in CallIds : r.observations[c] # "none" =>
            c = Call \/ loc.observations[c] # "none"
      BY <2>1, <2>2, <2>4
    <3> QED BY <1>1, <1>2, <1>3, <2>1, <2>5, <3>1 DEF AtHand
  <2>8. Proper(r) /\ Replied(r)
    BY <1>2, <1>3, <2>1, <2>5 DEF Proper, Replied
  <2>9. Tells(r)
    BY <1>3, <2>1, <2>4, <2>5, <2>7, <2>8, PlainTells
  <2> QED BY <1>2, <1>3, <1>6, <2>1, <2>5, <2>6, <2>8, <2>9, TalkGraph
<1>8. CASE Persist(q, Go("graph"))
  <2>1. x \in ExecutionRecord /\ x.call = Call
    BY <1>2, Members, Zenon DEF ExecutionRecord, NoExecution
  <2> HIDE DEF x
  <2>2. /\ q \in AgentRunRow /\ q.pending_execution = x
        /\ q.pending_tool_call = loc.pending_tool_call /\ q.question = loc.question
        /\ q.observations = loc.observations /\ q.answered = loc.answered
        /\ q.status = loc.status /\ q.version = loc.version
        /\ q.pending_message = loc.pending_message
    BY <1>3, <2>1, Zenon DEF AgentRunRow
  <2>3. Persist(q, Go("graph"))
    BY <1>8
  <2> HIDE DEF q
  <2>4. AtHand(q) /\ Proper(q) /\ Replied(q)
    BY <1>1, <1>2, <1>3, <2>1, <2>2 DEF AtHand, Proper, Replied
  <2>5. Tells(q)
    BY <1>3, <2>2, <2>4, PlainTells
  <2> QED BY <1>2, <1>3, <1>6, <2>2, <2>3, <2>4, <2>5, TalkGraph
<1> QED BY <1>4, <1>5, <1>7, <1>8

\* The record changes, the calls it speaks of do not.
LEMMA RecordSpeaks ==
  ASSUME NEW x \in ExecutionRecord
  PROVE  /\ \A s \in PendingStatus :
              LET y == [x EXCEPT !.prepared = TRUE, !.status = s] IN
              y \in ExecutionRecord /\ y.call = x.call
         /\ \A n \in Nat :
              LET y == [x EXCEPT !.shown = n] IN y \in ExecutionRecord /\ y.call = x.call
         /\ LET y == [x EXCEPT !.confirmed = TRUE] IN y \in ExecutionRecord /\ y.call = x.call
         /\ LET y == [x EXCEPT !.dispatched = TRUE, !.status = "RUNNING"] IN
              y \in ExecutionRecord /\ y.call = x.call
BY Members, Zenon DEF ExecutionRecord

\* The Invocation is inserted, authorized or found.
LEMMA TalkPrepare ==
  ASSUME AllInv, AllInv', TalkInv, Prepare \/ Authorize
  PROVE  TalkInv'
<1>1. w.pc \in Working \ {"interrupted", "recorded"} /\ w \in Workers
  BY PreparePlace, WorkerFacts DEF AllInv
<1>2. UNCHANGED <<run, loc, msgs>> /\ (sys' = sys \/ PrepareFault)
  BY PrepareShape, Zenon
<1>3. sys'.faults = 0 => sys.faults = 0
  <2>1. sys \in [closing: BOOLEAN, crashes: Nat, faults: Nat]
    BY DEF AllInv, TypeInv, TypeOK
  <2>2. PrepareFault => sys'.faults = sys.faults + 1
    BY <2>1 DEF PrepareFault
  <2> QED BY <1>2, <2>1, <2>2
<1>4. \/ \E pc \in {"conflict", "fail"}, code \in ErrorCodes : w' = Left(w, pc, code)
      \/ w' = Go("inserted") \/ w' = Go("prepared")
  <2>1. {"none", "FATAL", "DEPENDENCY_UNAVAILABLE"} \subseteq ErrorCodes
    BY DEF ErrorCodes
  <2>2. \/ w' = Left(w, "fail", "DEPENDENCY_UNAVAILABLE") \/ w' = Left(w, "conflict", "none")
        \/ w' = Left(w, "fail", "FATAL") \/ w' = Go("inserted") \/ w' = Go("prepared")
    BY PrepareShape, Zenon DEF PrepareBroken, Exit
  <2> QED BY <2>1, <2>2
<1>5. \/ w'.pc \in {"conflict", "fail"}
      \/ w'.pc \in {"inserted", "prepared"} /\ w'.dec = w.dec
  BY <1>1, <1>4, GoFacts
<1> QED BY <1>1, <1>2, <1>3, <1>5, TalkMoves

\* The Invocation id is stored.
LEMMA TalkPrepared ==
  ASSUME AllInv, AllInv', TalkInv, Prepared
  PROVE  TalkInv'
<1> DEFINE s == IF inv[Call] = "PENDING_CONFIRMATION" THEN "PENDING_CONFIRMATION"
                ELSE "PENDING"
           x == [loc.pending_execution EXCEPT !.prepared = TRUE, !.status = s]
           r == [loc EXCEPT !.pending_execution = x]
<1>1. w.pc = "prepared" /\ w.pc \in Working \ {"interrupted", "recorded"}
  BY Zenon DEF Prepared, Working
<1>2. /\ loc.status = "RUNNING" /\ loc.pending_message = "none"
      /\ loc.question # None => w.dec = "respond"
      /\ AtHand(loc) /\ Proper(loc) /\ Replied(loc)
      /\ loc \in AgentRunRow /\ w \in Workers
  BY <1>1, GraphTalk
<1>3. /\ loc.pending_execution \in ExecutionRecord /\ s \in PendingStatus
  BY <1>2, Members, Zenon DEF AgentRunRow
<1>4. [loc EXCEPT !.pending_execution.prepared = TRUE, !.pending_execution.status = s] = r
  BY <1>2, <1>3, Zenon DEF AgentRunRow, ExecutionRecord
<1>5. Persist(r, Go("graph"))
  BY <1>4 DEF Prepared
<1>6. x \in ExecutionRecord /\ x.call = loc.pending_execution.call
  <2> HIDE DEF s
  <2> QED BY <1>3, RecordSpeaks
<1> HIDE DEF x, s
<1>7. /\ r \in AgentRunRow /\ Speaks(loc, r) /\ r.status = loc.status
      /\ r.version = loc.version /\ r.pending_message = loc.pending_message
  BY <1>2, <1>6, Zenon DEF Speaks, AgentRunRow
<1> HIDE DEF r
<1>8. Tells(r) /\ Replied(r) /\ r.question = loc.question
  BY <1>2, <1>7, SpeaksAlike, PlainTells DEF Speaks
<1> QED BY <1>1, <1>2, <1>5, <1>8, GoFacts, TalkGraph

\* The card is shown, or the node interrupts again.
LEMMA TalkShowCard ==
  ASSUME AllInv, AllInv', TalkInv, ShowCard
  PROVE  TalkInv'
<1>1. Handling /\ w.dec = "none"
  BY DEF ShowCard, NeedsConsent, Ready
<1>2. w.pc = "graph" /\ w.pc \in Working \ {"interrupted", "recorded"}
  BY <1>1, HandlingTalk
<1>3. /\ loc.status = "RUNNING" /\ loc.pending_message = "none" /\ loc.question = None
      /\ AtHand(loc) /\ Proper(loc) /\ Replied(loc)
      /\ loc \in AgentRunRow /\ w \in Workers /\ w.pc \in Working /\ w.pc \in Holding
  BY <1>1, <1>2, GraphTalk
<1> DEFINE x == [loc.pending_execution EXCEPT !.shown = loc.waiting_version + 1]
           r == [loc EXCEPT !.waiting_version = @ + 1, !.pending_execution = x,
                            !.status = "WAITING_FOR_CONFIRMATION"]
<1>4. /\ loc.pending_execution \in ExecutionRecord /\ loc.waiting_version + 1 \in Nat
  BY <1>3, RowNumbers, Zenon DEF AgentRunRow
<1>5. [loc EXCEPT !.waiting_version = @ + 1,
                  !.pending_execution.shown = loc.waiting_version + 1,
                  !.status = "WAITING_FOR_CONFIRMATION"] = r
  BY <1>3, <1>4, Zenon DEF AgentRunRow, ExecutionRecord
<1>6. \/ Persist(r, Go("interrupted"))
      \/ w' = Go("interrupted") /\ UNCHANGED <<run, msgs, loc, sys>>
  BY <1>5 DEF ShowCard
<1>7. x \in ExecutionRecord /\ x.call = loc.pending_execution.call
  BY <1>4, RecordSpeaks
<1>8. Go("interrupted").pc = "interrupted"
  BY <1>3, GoFacts
<1> HIDE DEF x
<1>9. /\ r \in AgentRunRow /\ Speaks(loc, r) /\ r.status = "WAITING_FOR_CONFIRMATION"
      /\ r.version = loc.version /\ r.pending_message = loc.pending_message
  BY <1>3, <1>4, <1>7, Members, Zenon DEF Speaks, AgentRunRow
<1> HIDE DEF r
<1>10. Tells(r) /\ Replied(r) /\ r.question = None
  BY <1>3, <1>9, SpeaksAlike, PlainTells DEF Speaks
<1>11. Addressed(Go("interrupted"), Saved(r))
  BY <1>8, <1>9, <1>10, SavedSpeaks DEF Addressed, Speaks
<1>12. CASE w' = Go("interrupted") /\ UNCHANGED <<run, msgs, loc, sys>>
  <2>1. Addressed(w', loc)
    BY <1>3, <1>8, <1>12 DEF Addressed
  <2> QED BY <1>3, <1>8, <1>12, <2>1, TalkLocal DEF Asked
<1> QED BY <1>3, <1>6, <1>10, <1>11, <1>12, TalkPersist

\* The decision is applied to the Invocation.
LEMMA TalkApplyDecision ==
  ASSUME AllInv, AllInv', TalkInv, ApplyDecision
  PROVE  TalkInv'
<1>1. Ready
  BY DEF ApplyDecision, NeedsConsent
<1>2. /\ w.pc = "graph" /\ w.pc \in Working \ {"interrupted", "recorded"}
      /\ loc.question = None
  BY <1>1, HandlingTalk DEF Ready
<1>3. loc.pending_message = "none" /\ w \in Workers /\ w.pc \in Holding
  BY <1>2, GraphTalk
<1>4. /\ UNCHANGED <<run, loc, msgs, sys>>
      /\ w' = Left(w, "fail", "FATAL") \/ w' = Go("confirmed")
  BY Zenon DEF ApplyDecision, Exit, Raise
<1>5. w'.pc \in {"fail", "confirmed"}
  BY <1>3, <1>4, GoFacts
<1>6. Addressed(w', loc)
  BY <1>2, <1>3, <1>5 DEF Addressed, Working
<1> QED BY <1>2, <1>3, <1>4, <1>6, TalkLocal

\* The decision is taken off the row.
LEMMA TalkConfirmed ==
  ASSUME AllInv, AllInv', TalkInv, Confirmed
  PROVE  TalkInv'
<1> DEFINE x == [loc.pending_execution EXCEPT !.confirmed = TRUE]
           r == [loc EXCEPT !.pending_execution = x, !.confirmation_response = "none"]
           next == [w EXCEPT !.pc = "graph", !.dec = "none"]
<1>1. w.pc = "confirmed" /\ w.pc \in Working \ {"interrupted", "recorded"}
  BY Zenon DEF Confirmed, Working
<1>2. /\ loc.status = "RUNNING" /\ loc.pending_message = "none"
      /\ AtHand(loc) /\ Proper(loc) /\ Replied(loc)
      /\ loc \in AgentRunRow /\ w \in Workers /\ w.pc \in Working
  BY <1>1, GraphTalk
<1>3. loc.question = None
  BY <1>1 DEF TalkInv, Addressed
<1>4. loc.pending_execution \in ExecutionRecord
  BY <1>2, Zenon DEF AgentRunRow
<1>5. [loc EXCEPT !.pending_execution.confirmed = TRUE, !.confirmation_response = "none"] = r
  BY <1>2, <1>4, Zenon DEF AgentRunRow, ExecutionRecord
<1>6. Persist(r, next) /\ next.pc = "graph"
  BY <1>2, <1>5, Zenon DEF Confirmed, Workers
<1>7. x \in ExecutionRecord /\ x.call = loc.pending_execution.call
  BY <1>4, RecordSpeaks
<1> HIDE DEF x, next
<1>8. /\ r \in AgentRunRow /\ Speaks(loc, r) /\ r.status = loc.status
      /\ r.version = loc.version /\ r.pending_message = loc.pending_message
  BY <1>2, <1>7, Zenon DEF Speaks, AgentRunRow
<1> HIDE DEF r
<1>9. Tells(r) /\ Replied(r) /\ r.question = None
  BY <1>2, <1>3, <1>8, SpeaksAlike, PlainTells DEF Speaks
<1> QED BY <1>2, <1>6, <1>9, TalkGraph

\* The dispatch fence.
LEMMA TalkDispatchFence ==
  ASSUME AllInv, AllInv', TalkInv, DispatchFence
  PROVE  TalkInv'
<1> DEFINE x == [loc.pending_execution EXCEPT !.dispatched = TRUE, !.status = "RUNNING"]
           r == [loc EXCEPT !.pending_execution = x, !.tool_executions = @ + 1]
<1>1. Handling /\ loc.pending_execution.call = Call
  BY DEF DispatchFence, Permitted, Ready
<1>2. /\ w.pc = "graph" /\ w.pc \in Working \ {"interrupted", "recorded"}
      /\ loc.question = None /\ loc.pending_tool_call = Call /\ KindOf[Call] # "ask"
      /\ loc.pending_execution.call = Call
  BY <1>1, HandlingTalk
<1>3. /\ loc.status = "RUNNING" /\ loc.pending_message = "none"
      /\ AtHand(loc) /\ Proper(loc) /\ Replied(loc)
      /\ loc \in AgentRunRow /\ w \in Workers /\ w.pc \in Working
  BY <1>2, GraphTalk
<1>4. loc.pending_execution \in ExecutionRecord
  BY <1>3, Zenon DEF AgentRunRow
<1>5. [loc EXCEPT !.pending_execution.dispatched = TRUE,
                  !.pending_execution.status = "RUNNING", !.tool_executions = @ + 1] = r
  BY <1>3, <1>4, Zenon DEF AgentRunRow, ExecutionRecord
<1>6. Raise("FATAL") \/ Persist(r, Go("await"))
  BY <1>5 DEF DispatchFence
<1>7. CASE Raise("FATAL")
  BY <1>2, <1>3, <1>7, TalkRaise DEF Raise, Exit
<1>8. x \in ExecutionRecord /\ x.call = loc.pending_execution.call
  BY <1>4, RecordSpeaks
<1> HIDE DEF x
<1>9. /\ r \in AgentRunRow /\ Speaks(loc, r) /\ r.status = loc.status
      /\ r.version = loc.version /\ r.pending_message = loc.pending_message
  BY <1>3, <1>8, RowNumbers, Zenon DEF Speaks, AgentRunRow
<1> HIDE DEF r
<1>10. Tells(r) /\ Replied(r) /\ r.question = None /\ r.pending_tool_call = Call
  BY <1>2, <1>3, <1>9, SpeaksAlike, PlainTells DEF Speaks
<1>11. Go("await").pc = "await" /\ Go("await").pos = w.pos
  BY <1>3, GoFacts
<1>12. Addressed(Go("await"), Saved(r))
  BY <1>2, <1>9, <1>10, <1>11, SavedSpeaks DEF Addressed, Speaks, Call
<1> QED BY <1>3, <1>6, <1>7, <1>10, <1>12, TalkPersist

\* A dispatched call is looked up again.
LEMMA TalkContinue ==
  ASSUME AllInv, AllInv', TalkInv, Continue
  PROVE  TalkInv'
<1>1. Handling /\ loc.pending_execution.call = Call
  BY DEF Continue, Permitted, Ready
<1>2. /\ w.pc = "graph" /\ w.pc \in Working \ {"interrupted", "recorded"}
      /\ loc.question = None /\ loc.pending_tool_call = Call /\ KindOf[Call] # "ask"
  BY <1>1, HandlingTalk
<1>3. loc.pending_message = "none" /\ w \in Workers /\ w.pc \in Holding
  BY <1>2, GraphTalk
<1>4. /\ UNCHANGED <<run, loc, msgs, sys>>
      /\ \/ w' = Left(w, "conflict", "none")
         \/ w' = Left(w, "fail", "TOOL_OUTCOME_UNKNOWN")
         \/ w' = Go("found")
  BY Zenon DEF Continue, Exit
<1>5. w'.pc \in {"fail", "conflict"} \/ (w'.pc = "found" /\ w'.pos = w.pos)
  BY <1>3, <1>4, GoFacts
<1>6. Addressed(w', loc)
  BY <1>2, <1>3, <1>5 DEF Addressed, Working, Call
<1> QED BY <1>2, <1>3, <1>4, <1>6, TalkLocal

\* The row with its receipt asks nothing and is at the call of the receipt.
LEMMA ReceiptTalk ==
  ASSUME AllInv, TalkInv, NEW c \in CallIds \cup {None}, NEW out \in Outcomes,
         OwnsReceipt(run, c), NEW q, q = ReceiptRow(run, c, out)
  PROVE  /\ q \in AgentRunRow /\ q.version = run.version + 1 /\ q.status = run.status
         /\ run.status \notin {"SUCCEEDED"} \cup Waiting
         /\ q.pending_message = "none" /\ q.question = None
         /\ q.pending_execution.call = None
         /\ q.pending_tool_call = c /\ KindOf[c] # "ask"
         /\ AtHand(q) /\ Proper(q) /\ Replied(q)
<1>1. /\ Dispatched(run, c) /\ run.status \in {"RUNNING", "INTERRUPTED", "TERMINATED"}
  BY DEF OwnsReceipt, Stopped
<1>2. run \in AgentRunRow /\ Exclusive(run) /\ AtHand(run) /\ Proper(run)
      /\ run.pending_message = "none"
  BY WorkerFacts DEF AllInv, FenceInv, NothingOwed, TalkInv, TalkRows
<1>3. c # None /\ run.pending_execution.call = c
  BY <1>1, <1>2 DEF Exclusive, Dispatched
<1>4. run.pending_tool_call = c /\ KindOf[c] # "ask" /\ run.question = None
  BY <1>2, <1>3 DEF AtHand
<1>5. q \in AgentRunRow /\ q.version = run.version + 1 /\ q.status = run.status
  BY <1>1, <1>2, TransactionTypes, ReceiptFacts
<1> DEFINE b == Bump(run)
           seen == [b.observations EXCEPT ![c] = out]
           code == IF run.status = "INTERRUPTED" /\ b.error_code = "TOOL_OUTCOME_UNKNOWN"
                   THEN "PROCESS_INTERRUPTED" ELSE b.error_code
           r == [b EXCEPT !.observations = seen, !.pending_execution = NoExecution,
                          !.error_code = code]
<1>6. b \in AgentRunRow /\ Speaks(run, b) /\ b.pending_message = run.pending_message
  BY <1>2, BumpType, SavedSpeaks
<1>7. q = r
  <2> HIDE DEF b
  <2>1. [b EXCEPT !.observations[c] = out, !.pending_execution = NoExecution,
           !.error_code = IF run.status = "INTERRUPTED" /\ @ = "TOOL_OUTCOME_UNKNOWN"
                          THEN "PROCESS_INTERRUPTED" ELSE @] = r
    BY <1>6, ZenonT(40) DEF AgentRunRow
  <2> USE DEF b
  <2> QED BY <2>1, Zenon DEF ReceiptRow
<1> HIDE DEF b, code
<1>8. /\ r.question = b.question /\ r.pending_tool_call = b.pending_tool_call
      /\ r.pending_execution = NoExecution /\ r.answered = b.answered
      /\ r.pending_message = b.pending_message /\ r.observations = seen
  BY <1>6, Zenon DEF AgentRunRow
<1> HIDE DEF r
<1>9. /\ q.question = None /\ q.pending_tool_call = c /\ q.pending_execution.call = None
      /\ q.answered = run.answered /\ q.pending_message = "none"
  BY <1>2, <1>4, <1>6, <1>7, <1>8 DEF Speaks, NoExecution
<1>10. AtHand(q)
  <2>1. b.observations \in [CallIds -> Observations] /\ b.observations = run.observations
    BY <1>6, Zenon DEF AgentRunRow, Speaks
  <2>2. \A d \in CallIds : q.observations[d] # "none" => d = c \/ run.observations[d] # "none"
    BY <1>7, <1>8, <2>1
  <2> QED BY <1>2, <1>4, <1>9, <2>2 DEF AtHand
<1> QED BY <1>1, <1>2, <1>4, <1>5, <1>9, <1>10 DEF Proper, Replied, Waiting

\* Messages stay true when the status leaves the waiting ones and the success.
LEMMA SameMessages ==
  ASSUME TalkInv, msgs' = msgs, run.status # "SUCCEEDED",
         run'.status \notin {"SUCCEEDED"} \cup Waiting
  PROVE  StatusHasMessages'
BY DEF TalkInv, StatusHasMessages, WaitingIsAddressed, AnswerWithSuccess, Waiting

\* The worker records the receipt it found.
LEMMA TalkFound ==
  ASSUME AllInv, AllInv', TalkInv, Found
  PROVE  TalkInv'
<1>1. /\ w.pc = "found" /\ w.pc \in Working \ {"interrupted", "recorded"}
      /\ msgs' = msgs /\ sys' = sys
  BY Zenon DEF Found, Working
<1>2. w \in Workers /\ w.pc \in Holding /\ inv[Call] \in Outcomes
      /\ loc.pending_tool_call = Call /\ loc \in AgentRunRow
  BY <1>1, GraphTalk DEF AllInv, TypeInv, TaskIsOwned, TalkInv, Addressed, Call
<1>3. Call \in CallIds \cup {None}
  BY <1>2, Zenon DEF AgentRunRow
<1> DEFINE q == ReceiptRow(run, Call, inv[Call])
<1>4. \/ OwnsReceipt(run, Call) /\ run' = q /\ loc' = q /\ w' = Go("recorded")
      \/ w' = Left(w, "conflict", "none") /\ UNCHANGED <<run, loc>>
  BY DEF Found, Exit
<1>5. CASE w' = Left(w, "conflict", "none") /\ UNCHANGED <<run, loc>>
  BY <1>1, <1>5, TalkRaise
<1>6. CASE OwnsReceipt(run, Call) /\ run' = q /\ loc' = q /\ w' = Go("recorded")
  <2>1. /\ q \in AgentRunRow /\ q.status = run.status
        /\ run.status \notin {"SUCCEEDED"} \cup Waiting
        /\ q.pending_message = "none" /\ q.question = None /\ q.pending_execution.call = None
        /\ q.pending_tool_call = Call /\ KindOf[Call] # "ask"
        /\ AtHand(q) /\ Proper(q) /\ Replied(q)
    BY <1>2, <1>3, <1>6, ReceiptTalk
  <2> HIDE DEF q
  <2>2. w'.pc = "recorded" /\ w'.pos = w.pos
    BY <1>2, <1>6, GoFacts
  <2>3. StatusHasMessages'
    BY <1>1, <1>6, <2>1, SameMessages
  <2>4. TalkRows'
    BY <1>1, <1>6, <2>1 DEF TalkRows, AtHand, Proper, Letter
  <2>5. TalkCopy' /\ Answering'
    BY <1>1, <1>6, <2>1 DEF TalkCopy, Answering, Replied
  <2>6. Addressed(w', loc')
    BY <1>6, <2>1, <2>2 DEF Addressed, Call
  <2> QED BY <2>3, <2>4, <2>5, <2>6 DEF TalkInv
<1> QED BY <1>4, <1>5, <1>6

\* The recorded receipt is handed to the model.
LEMMA TalkRecorded ==
  ASSUME AllInv, AllInv', TalkInv, Recorded
  PROVE  TalkInv'
<1> DEFINE r == [loc EXCEPT !.pending_tool_call = None]
           next == Message(Call, loc.observations[Call])
<1>1. w.pc = "recorded" /\ w.pc \in Working /\ w.pc \in Holding \ Asked
  BY Zenon DEF Recorded, Working, Holding, WorkerPc, Asked
<1>2. /\ loc \in AgentRunRow /\ w \in Workers /\ AtHand(loc) /\ Proper(loc)
      /\ loc.pending_message = "none" /\ loc.pending_execution.call = None
      /\ loc.pending_tool_call = Call /\ KindOf[Call] # "ask"
  BY <1>1, WorkerFacts DEF AllInv, TalkInv, TalkRows, Addressed, Call
<1>3. loc.question = None /\ (loc.version = run.version => loc.status = run.status)
  BY <1>1, <1>2 DEF AtHand, AllInv, PromiseInv, Copy, InStep
<1>4. Persist(r, next)
  BY <1>2 DEF Recorded, Done
<1>5. /\ r \in AgentRunRow /\ r.question = None /\ r.status = loc.status
      /\ r.version = loc.version /\ r.pending_message = "none"
      /\ AtHand(r) /\ Proper(r) /\ Replied(r)
  BY <1>2, <1>3, MarkerSpeaks, MarkerMoves
<1>6. next.pc \in {"graph", "fail"}
  BY <1>2, MessageTalks
<1> HIDE DEF r, next
<1>7. Tells(r)
  BY <1>3, <1>5 DEF Tells, Letter
<1> QED BY <1>1, <1>4, <1>5, <1>6, <1>7, TalkGraph

\* The receipt of the shielded task is handed to the model.
LEMMA TalkAwaited ==
  ASSUME AllInv, AllInv', TalkInv, Awaited
  PROVE  TalkInv'
<1> DEFINE r == [loc EXCEPT !.pending_tool_call = None]
           next == Message(Call, loc.observations[Call])
<1>1. w.pc = "awaited"
  BY Zenon DEF Awaited
<1>2. /\ loc \in AgentRunRow /\ w \in Workers /\ AtHand(loc) /\ Proper(loc)
      /\ loc.pending_message = "none" /\ Marked(loc)
      /\ loc.pending_tool_call = Call /\ KindOf[Call] # "ask"
  BY <1>1, WorkerFacts DEF AllInv, TalkInv, TalkRows, Addressed, Call, PromiseInv, Rows, Sound
<1>3. \/ \E code \in ErrorCodes, pc \in {"fail", "conflict"} :
            w' = Left(w, pc, code) /\ UNCHANGED <<run, msgs, loc, sys>>
      \/ loc.status # "TERMINATED" /\ Executed(loc, Call) /\ Persist(r, next)
  BY Members DEF Awaited, Raise, Exit
<1>4. CASE \E code \in ErrorCodes, pc \in {"fail", "conflict"} :
             w' = Left(w, pc, code) /\ UNCHANGED <<run, msgs, loc, sys>>
  BY <1>1, <1>4, TalkRaise
<1>5. CASE loc.status # "TERMINATED" /\ Executed(loc, Call) /\ Persist(r, next)
  <2>1. loc.question = None
    BY <1>2 DEF AtHand
  <2>2. loc.pending_execution.call = None
    <3>1. loc.pending_execution.call \in CallIds \cup {None}
      BY <1>2, Zenon DEF AgentRunRow, ExecutionRecord
    <3> QED BY <1>2, <1>5, <3>1 DEF AtHand, Marked, Executed, Outcomes
  <2>3. loc.status = "RUNNING"
    BY <1>1, <1>5 DEF AllInv, FenceInv, WorkerHolds, Call
  <2>4. /\ r \in AgentRunRow /\ r.question = None /\ r.status = loc.status
        /\ r.version = loc.version /\ r.pending_message = "none"
        /\ AtHand(r) /\ Proper(r) /\ Replied(r)
    BY <1>2, <2>1, <2>2, MarkerSpeaks, MarkerMoves
  <2>5. next.pc \in {"graph", "fail"}
    BY <1>2, MessageTalks
  <2>6. Persist(r, next)
    BY <1>5
  <2> HIDE DEF r, next
  <2>7. Tells(r)
    BY <2>3, <2>4, PlainTells
  <2> QED BY <1>1, <2>4, <2>5, <2>6, <2>7, TalkGraph
<1> QED BY <1>3, <1>4, <1>5

-----------------------------------------------------------------------------
(* Ends of an advance *)

\* The pause becomes the waiting status.
LEMMA TalkInterrupted ==
  ASSUME AllInv, AllInv', TalkInv, Interrupted
  PROVE  TalkInv'
<1>1. w.pc = "interrupted" /\ w.pc \in Holding
  BY Zenon DEF Interrupted, Holding, WorkerPc
<1>2. /\ loc \in AgentRunRow /\ w \in Workers /\ AtHand(loc) /\ Proper(loc)
      /\ loc.pending_message = "none"
      /\ loc.question # None => loc.status = "WAITING_FOR_USER"
  BY <1>1, WorkerFacts DEF AllInv, TalkInv, TalkRows, Addressed, Working
<1> DEFINE r == [loc EXCEPT !.status = "WAITING_FOR_CONFIRMATION"]
<1>3. \/ w' = Go("read") /\ UNCHANGED <<run, msgs, loc, sys>>
      \/ /\ loc.question = None
         /\ SaveOk(r) \/ SaveConflict(r) \/ SaveFault(r)
         /\ w' \in {Go("read"), Left(w, "conflict", "none"), Broken}
  BY <1>2 DEF Interrupted
<1>4. w'.pc \in {"read", "conflict", "fail"}
  BY <1>2, <1>3, GoFacts DEF Broken
<1>5. CASE w' = Go("read") /\ UNCHANGED <<run, msgs, loc, sys>>
  <2>1. w'.pc = "read"
    BY <1>2, <1>5, GoFacts
  <2>2. Addressed(w', loc)
    BY <2>1, AddressedAway
  <2> QED BY <1>1, <1>5, <2>1, <2>2, TalkLocal DEF Holding
<1>6. CASE loc.question = None /\ (SaveOk(r) \/ SaveConflict(r) \/ SaveFault(r))
  <2>1. /\ r \in AgentRunRow /\ Speaks(loc, r) /\ r.status = "WAITING_FOR_CONFIRMATION"
        /\ r.version = loc.version /\ r.pending_message = loc.pending_message
    BY <1>2, Members, Zenon DEF Speaks, AgentRunRow
  <2>2. SaveOk(r) \/ SaveConflict(r) \/ SaveFault(r)
    BY <1>6
  <2> HIDE DEF r
  <2>3. Tells(r) /\ Puts(r) /\ Replied(r)
    BY <1>2, <1>6, <2>1, <2>2, SpeaksAlike, PlainTells, PutsCases DEF Speaks, Replied
  <2>4. sys' = sys \/ sys'.faults # 0
    BY <2>2, FaultsGrow
  <2>5. Addressed(w', loc')
    BY <1>4, AddressedAway
  <2> QED BY <1>1, <2>3, <2>4, <2>5, TalkSave
<1> QED BY <1>3, <1>5, <1>6

\* The answer is published.
LEMMA TalkFinalAnswer ==
  ASSUME AllInv, AllInv', TalkInv, FinalAnswer
  PROVE  TalkInv'
<1> DEFINE r == [loc EXCEPT !.final_message = TRUE, !.pending_message = "answer",
                            !.question = None, !.status = "SUCCEEDED"]
<1>1. w.pc = "graph" /\ w.pc \in Working \ {"interrupted", "recorded"}
  BY Zenon DEF FinalAnswer, AtNode, Working
<1>2. /\ AtHand(loc) /\ Proper(loc) /\ loc \in AgentRunRow /\ w \in Workers
      /\ w.pc \in Working
  BY <1>1, GraphTalk
<1>3. Raise("FATAL") \/ Persist(r, Go("read"))
  BY DEF FinalAnswer
<1>4. CASE Raise("FATAL")
  BY <1>1, <1>2, <1>4, TalkRaise DEF Raise, Exit
<1>5. CASE Persist(r, Go("read"))
  <2>1. /\ r \in AgentRunRow /\ r.question = None /\ r.status = "SUCCEEDED"
        /\ r.version = loc.version /\ r.pending_message = "answer"
        /\ r.pending_tool_call = loc.pending_tool_call
        /\ r.pending_execution = loc.pending_execution
        /\ r.observations = loc.observations /\ r.answered = loc.answered
    BY <1>2, Members, Zenon DEF AgentRunRow
  <2> HIDE DEF r
  <2>2. AtHand(r) /\ Proper(r) /\ Replied(r)
    BY <1>2, <2>1 DEF AtHand, Proper, Replied
  <2>3. Tells(r)
    BY <2>1, <2>2 DEF Tells, Letter, Enclosed
  <2>4. Go("read").pc = "read"
    BY <1>2, GoFacts
  <2>5. Addressed(Go("read"), Saved(r))
    BY <2>4, AddressedAway
  <2> QED BY <1>2, <1>5, <2>2, <2>3, <2>5, TalkPersist
<1> QED BY <1>3, <1>4, <1>5

\* A node that refuses to go on tells nothing.
LEMMA TalkRefused ==
  ASSUME TalkInv, NodeRefused
  PROVE  TalkInv'
<1>1. /\ w.pc \in (Working \cup {"awaited"}) \ {"interrupted"}
      /\ w' = Left(w, "fail", "FATAL") /\ UNCHANGED <<run, loc, msgs, sys>>
  BY DEF NodeRefused, Raise, Exit, Working
<1> QED BY <1>1, TalkRaise

\* A copy that left the graph: what it tells when it is saved as it stands.
LEMMA LeftTalk ==
  ASSUME AllInv, TalkInv, w.pc \in {"fail", "closing"}
  PROVE  /\ loc \in AgentRunRow /\ w \in Workers /\ w.pc \in Holding
         /\ AtHand(loc) /\ Proper(loc) /\ Replied(loc) /\ Letter(loc) /\ Tells(loc)
<1>1. w.pc \in Holding /\ w.pc \in Holding \ Asked
  BY DEF Holding, WorkerPc, Asked
<1>2. loc \in AgentRunRow /\ w \in Workers
  BY WorkerFacts DEF AllInv
<1>3. AtHand(loc) /\ Proper(loc) /\ Replied(loc) /\ Letter(loc)
  BY <1>1 DEF TalkInv, TalkRows, Answering
<1>4. Tells(loc)
  BY <1>1, <1>2, <1>3 DEF TalkInv, TalkCopy, Tells
<1> QED BY <1>1, <1>2, <1>3, <1>4

\* An open model call is settled before the error is saved.
LEMMA TalkFailSettle ==
  ASSUME AllInv, AllInv', TalkInv, FailSettle
  PROVE  TalkInv'
<1> DEFINE r == Settled(loc, "FAILED")
<1>1. w.pc = "fail" /\ w' = w /\ (SaveOk(r) \/ SaveConflict(r) \/ SaveFault(r))
  BY Zenon DEF FailSettle
<1>2. /\ loc \in AgentRunRow /\ w.pc \in Holding
      /\ AtHand(loc) /\ Proper(loc) /\ Replied(loc) /\ Letter(loc) /\ Tells(loc)
  BY <1>1, LeftTalk
<1>3. /\ r \in AgentRunRow /\ Speaks(loc, r) /\ r.status = loc.status
      /\ r.version = loc.version /\ r.pending_message = loc.pending_message
  BY <1>2, SettledSpeaks
<1> HIDE DEF r
<1>4. Tells(r) /\ Puts(r) /\ Replied(r)
  BY <1>1, <1>2, <1>3, SpeaksAlike, PutsCases DEF Tells, Letter, Enclosed
<1>5. sys' = sys \/ sys'.faults # 0
  BY <1>1, FaultsGrow
<1>6. Addressed(w', loc')
  BY <1>1, AddressedAway
<1> QED BY <1>2, <1>4, <1>5, <1>6, TalkSave

\* The error is saved: the message that was not posted is dropped with its status.
LEMMA TalkFailSave ==
  ASSUME AllInv, AllInv', TalkInv, FailSave
  PROVE  TalkInv'
<1>0. PICK code \in {IF BudgetSpent(loc) THEN "FATAL" ELSE w.code, "FATAL"} :
        FailSaved(FailRow(code))
  BY FailShape, Zenon
<1> DEFINE r == [loc EXCEPT !.error_code = code, !.final_message = FALSE,
                        !.pending_message = "none",
                        !.status = IF code = "FATAL" THEN "TERMINATED" ELSE "INTERRUPTED"]
<1>1. /\ w.pc = "fail"
      /\ SaveOk(r) \/ SaveConflict(r) \/ SaveFault(r) \/ SaveInvalid(r)
      /\ w' \in {Go("read"), Go("raised")}
  BY <1>0, Zenon DEF FailSave, FailSaved, FailRow
<1>2. /\ loc \in AgentRunRow /\ w \in Workers /\ w.pc \in Holding
      /\ AtHand(loc) /\ Proper(loc) /\ Replied(loc)
  BY <1>1, LeftTalk
<1>3. code \in ErrorCodes
  <2>1. w.code \in ErrorCodes
    BY <1>2, Zenon DEF Workers
  <2> QED BY <1>0, <2>1, Members DEF ErrorCodes
<1>4. /\ r \in AgentRunRow /\ Speaks(loc, r)
      /\ r.status = IF code = "FATAL" THEN "TERMINATED" ELSE "INTERRUPTED"
      /\ r.version = loc.version /\ r.pending_message = "none"
  BY <1>2, <1>3, Members, Zenon DEF Speaks, AgentRunRow
<1> HIDE DEF r
<1>5. Tells(r) /\ Puts(r) /\ Replied(r)
  BY <1>1, <1>2, <1>4, SpeaksAlike, PlainTells, PutsCases
<1>6. sys' = sys \/ sys'.faults # 0
  BY <1>1, FaultsGrow
<1>7. Addressed(w', loc')
  BY <1>1, <1>2, GoFacts, AddressedAway
<1> QED BY <1>2, <1>5, <1>6, <1>7, TalkSave

\* work()'s handler saves its copy of the active row.
LEMMA TalkRaised ==
  ASSUME AllInv, AllInv', TalkInv, Raised
  PROVE  TalkInv'
<1> DEFINE q == [run EXCEPT !.status = "INTERRUPTED", !.error_code = "PROCESS_INTERRUPTED"]
<1>1. /\ UNCHANGED <<run, msgs, sys>>
      /\ \/ run.status \in {"PENDING", "RUNNING"} /\ loc' = q /\ w' = Go("closing")
         \/ loc' = NewRow /\ w' = Go("dying")
  BY Zenon DEF Raised
<1>2. run \in AgentRunRow /\ w \in Workers /\ AtHand(run) /\ Proper(run)
      /\ run.pending_message = "none" /\ StatusHasMessages
  BY WorkerFacts DEF AllInv, TalkInv, TalkRows
<1>3. StatusHasMessages'
  BY <1>1, <1>2 DEF StatusHasMessages, WaitingIsAddressed, AnswerWithSuccess
<1>4. CASE loc' = NewRow /\ w' = Go("dying")
  <2>1. w'.pc = "dying"
    BY <1>2, <1>4, GoFacts
  <2>2. AtHand(NewRow) /\ (\A c \in CallIds : NewRow.answered[c] = None) /\ Letter(NewRow)
    BY DEF AtHand, NewRow, Letter, NoExecution
  <2>3. TalkRows'
    BY <1>1, <1>2, <1>4, <2>2 DEF TalkRows, AtHand, Proper, Letter
  <2>4. TalkCopy' /\ Answering'
    BY <1>1, <2>1 DEF TalkCopy, Answering, Holding, TalkInv, Replied
  <2>5. Addressed(w', loc')
    BY <2>1, AddressedAway
  <2> QED BY <1>3, <2>3, <2>4, <2>5 DEF TalkInv
<1>5. CASE run.status \in {"PENDING", "RUNNING"} /\ loc' = q /\ w' = Go("closing")
  <2>1. /\ Speaks(run, q) /\ q.status = "INTERRUPTED" /\ q.pending_message = "none"
    BY <1>2, Zenon DEF Speaks, AgentRunRow
  <2> HIDE DEF q
  <2>2. w'.pc = "closing"
    BY <1>2, <1>5, GoFacts
  <2>3. AtHand(q) /\ Proper(q) /\ (Replied(run) => Replied(q))
    BY <1>2, <2>1, SpeaksAlike
  <2>4. TalkRows'
    BY <1>1, <1>2, <1>5, <2>1, <2>3 DEF TalkRows, AtHand, Proper, Letter
  <2>5. TalkCopy'
    BY <1>1, <1>5, <2>1 DEF TalkCopy, Enclosed
  <2>6. Answering'
    BY <1>1, <1>5, <2>3 DEF Answering, TalkInv, Replied
  <2>7. Addressed(w', loc')
    BY <1>5, <2>1, <2>2 DEF Addressed, Working
  <2> QED BY <1>3, <2>4, <2>5, <2>6, <2>7 DEF TalkInv
<1> QED BY <1>1, <1>4, <1>5

\* What a row transaction and the end of a task share: the copy is gone.
LEMMA TalkGone ==
  ASSUME TalkInv, UNCHANGED <<run, msgs>>, loc' = NewRow, w' = IdleWorker,
         sys'.faults = sys.faults
  PROVE  TalkInv'
<1>1. w'.pc = "idle"
  BY IdlePlaces
<1>2. AtHand(run) /\ Proper(run) /\ run.pending_message = "none" /\ StatusHasMessages
  BY DEF TalkInv, TalkRows
<1>3. AtHand(NewRow) /\ (\A c \in CallIds : NewRow.answered[c] = None) /\ Letter(NewRow)
  BY DEF AtHand, NewRow, Letter, NoExecution
<1>4. TalkRows'
  BY <1>2, <1>3 DEF TalkRows, AtHand, Proper, Letter
<1>5. TalkCopy' /\ Answering'
  BY <1>1 DEF TalkCopy, Answering, Holding, TalkInv, Replied
<1>6. Addressed(w', loc')
  BY <1>1, AddressedAway
<1>7. StatusHasMessages'
  BY <1>2 DEF StatusHasMessages, WaitingIsAddressed, AnswerWithSuccess
<1> QED BY <1>4, <1>5, <1>6, <1>7 DEF TalkInv

\* The handler's save and the end of the task.
LEMMA TalkDying ==
  ASSUME AllInv, AllInv', TalkInv, RaisedSave \/ Dying
  PROVE  TalkInv'
<1>1. CASE Dying
  BY <1>1, TalkGone DEF Dying
<1>2. CASE RaisedSave
  <2>1. w.pc = "closing" /\ w' = Go("dying") /\ (SaveOk(loc) \/ SaveConflict(loc) \/ SaveFault(loc))
    BY <1>2, Zenon DEF RaisedSave
  <2>2. w \in Workers /\ w.pc \in Holding /\ Replied(loc) /\ Tells(loc)
    BY <2>1, LeftTalk
  <2>3. Puts(loc) /\ (sys' = sys \/ sys'.faults # 0)
    BY <2>1, PutsCases, FaultsGrow
  <2>4. Addressed(w', loc')
    BY <2>1, <2>2, GoFacts, AddressedAway
  <2> QED BY <2>2, <2>3, <2>4, TalkSave DEF Tells
<1> QED BY <1>1, <1>2

-----------------------------------------------------------------------------
(* Transactions of users, of the receipt task and of the recovery scan *)

\* They are at the same call, with the same message to post.
LEMMA TransactionsSpeak ==
  ASSUME NEW r \in AgentRunRow
  PROVE  /\ Speaks(r, StopRow(r)) /\ StopRow(r).pending_message = r.pending_message
         /\ Speaks(r, RecoverRow(r)) /\ RecoverRow(r).pending_message = r.pending_message
         /\ Speaks(r, ResumeRow(r)) /\ ResumeRow(r).pending_message = r.pending_message
         /\ ResumeRow(r).status = "PENDING"
         /\ Speaks(r, MarkUnknownRow(r))
         /\ MarkUnknownRow(r).pending_message = r.pending_message
         /\ \A d \in {"approve", "reject"} :
              /\ Speaks(r, DecideRow(r, d)) /\ DecideRow(r, d).status = "PENDING"
              /\ DecideRow(r, d).pending_message = r.pending_message
<1> DEFINE s == SettleCalls(r)
           b == Bump(s)
           p == Bump(r)
<1>1. s \in AgentRunRow
  BY SettleCallsType
<1>2. Speaks(r, s) /\ s.pending_message = r.pending_message
  BY Zenon DEF SettleCalls, Speaks, AgentRunRow
<1> HIDE DEF s
<1>3. b \in AgentRunRow /\ Speaks(r, b) /\ b.pending_message = r.pending_message
  <2>1. Speaks(s, b) /\ b \in AgentRunRow /\ b.pending_message = s.pending_message
    BY <1>1, BumpType, SavedSpeaks
  <2> HIDE DEF b
  <2> QED BY <1>2, <2>1, SpeaksOn
<1>4. p \in AgentRunRow /\ Speaks(r, p) /\ p.pending_message = r.pending_message
  BY BumpType, SavedSpeaks
<1>5. StopRow(r) = [b EXCEPT !.status = "TERMINATED", !.error_code = "USER_STOPPED"]
  BY DEF StopRow, s
<1>6. ResumeRow(r) = [p EXCEPT !.status = "PENDING", !.error_code = "none",
                        !.recovery_replay = r.calls # <<>> \/ r.pending_tool_call # None]
  BY DEF ResumeRow
<1>7. ASSUME NEW d
      PROVE  DecideRow(r, d) = [p EXCEPT !.confirmation_response = d, !.status = "PENDING"]
  BY DEF DecideRow
<1> DEFINE rq == [b EXCEPT !.status = "INTERRUPTED", !.claim = 0,
                    !.error_code = "PROCESS_INTERRUPTED", !.recovery_replay = TRUE]
           ru == [rq EXCEPT !.pending_execution.status = "OUTCOME_UNKNOWN",
                            !.error_code = "TOOL_OUTCOME_UNKNOWN"]
           mq == [p EXCEPT !.pending_execution.status = "OUTCOME_UNKNOWN"]
           mi == [mq EXCEPT !.status = "INTERRUPTED", !.error_code = "TOOL_OUTCOME_UNKNOWN"]
<1>8. RecoverRow(r) \in {rq, ru}
  BY DEF RecoverRow, s
<1>9. MarkUnknownRow(r) \in {mq, mi}
  BY DEF MarkUnknownRow
<1> HIDE DEF b, p
<1>10. Speaks(r, StopRow(r)) /\ StopRow(r).pending_message = r.pending_message
  <2>1. LET q == StopRow(r) IN Speaks(b, q) /\ q.pending_message = b.pending_message
    BY <1>3, <1>5, Zenon DEF Speaks, AgentRunRow
  <2> QED BY <1>3, <2>1, SpeaksOn
<1>11. /\ Speaks(r, ResumeRow(r)) /\ ResumeRow(r).pending_message = r.pending_message
       /\ ResumeRow(r).status = "PENDING"
  <2>1. LET q == ResumeRow(r) IN
        Speaks(p, q) /\ q.pending_message = p.pending_message /\ q.status = "PENDING"
    BY <1>4, <1>6, Zenon DEF Speaks, AgentRunRow
  <2> QED BY <1>4, <2>1, SpeaksOn
<1>12. ASSUME NEW d \in {"approve", "reject"}
       PROVE  /\ Speaks(r, DecideRow(r, d)) /\ DecideRow(r, d).status = "PENDING"
              /\ DecideRow(r, d).pending_message = r.pending_message
  <2> DEFINE q == [p EXCEPT !.confirmation_response = d, !.status = "PENDING"]
  <2>0. DecideRow(r, d) = q
    BY <1>7
  <2>1. Speaks(p, q) /\ q.pending_message = p.pending_message /\ q.status = "PENDING"
    BY <1>4, Zenon DEF Speaks, AgentRunRow
  <2> HIDE DEF q
  <2> QED BY <1>4, <2>0, <2>1, SpeaksOn
<1>13. Speaks(r, RecoverRow(r)) /\ RecoverRow(r).pending_message = r.pending_message
  <2>1. rq \in AgentRunRow /\ Speaks(b, rq) /\ rq.pending_message = b.pending_message
    BY <1>3, RowNumbers, Members, Zenon DEF Speaks, AgentRunRow
  <2> HIDE DEF rq
  <2>2. Speaks(rq, ru) /\ ru.pending_message = rq.pending_message
    BY <2>1, Zenon DEF Speaks, AgentRunRow, ExecutionRecord
  <2> HIDE DEF ru
  <2> QED BY <1>3, <1>8, <2>1, <2>2, SpeaksOn
<1>14. Speaks(r, MarkUnknownRow(r)) /\ MarkUnknownRow(r).pending_message = r.pending_message
  <2>1. mq \in AgentRunRow /\ Speaks(p, mq) /\ mq.pending_message = p.pending_message
    BY <1>4, Members, Zenon DEF Speaks, AgentRunRow, ExecutionRecord
  <2> HIDE DEF mq
  <2>2. Speaks(mq, mi) /\ mi.pending_message = mq.pending_message
    BY <2>1, Zenon DEF Speaks, AgentRunRow
  <2> HIDE DEF mi
  <2> QED BY <1>4, <1>9, <2>1, <2>2, SpeaksOn
<1> QED BY <1>10, <1>11, <1>12, <1>13, <1>14

\* A transaction beside the worker: its copy is outdated by it.
LEMMA TalkRow ==
  ASSUME AllInv, TalkInv, UNCHANGED <<loc, msgs>>, sys'.faults = 0 => sys.faults = 0,
         \/ w' = w
         \/ w.pc = "idle" /\ w'.pc = "read"
         \/ w.pc = "await" /\ w'.pc \in {"fail", "conflict"},
         NEW q \in AgentRunRow, run' = q, q.version > run.version,
         run.status # "SUCCEEDED", q.status \notin {"SUCCEEDED"} \cup Waiting,
         AtHand(q), Proper(q), q.pending_message = "none",
         q.status = "TERMINATED" \/ Replied(q)
  PROVE  TalkInv'
<1>1. loc.version \in Nat /\ run.version \in Nat /\ q.version \in Nat /\ loc.version <= run.version
  BY WorkerFacts, RowNumbers DEF AllInv, FenceInv, CopyKeepsFences
<1>2. StatusHasMessages'
  BY SameMessages
<1>3. TalkRows'
  BY DEF TalkInv, TalkRows, AtHand, Proper, Letter
<1>4. TalkCopy'
  BY <1>1 DEF TalkCopy
<1>5. Answering'
  BY DEF Answering, TalkInv, Replied, Holding, WorkerPc, Asked
<1>6. Addressed(w', loc')
  BY AddressedAway DEF TalkInv
<1> QED BY <1>2, <1>3, <1>4, <1>5, <1>6 DEF TalkInv

\* The worker is woken or scheduled, or left where it is.
LEMMA ScheduleTalk ==
  ASSUME AllInv, Schedule
  PROVE  w' = w \/ (w.pc = "idle" /\ w'.pc = "read")
BY WorkerFacts, GoFacts DEF Schedule, AllInv

\* The user's transactions but the reply and the reconciliation, and the scan's.
LEMMA TalkRequests ==
  ASSUME AllInv, AllInv', TalkInv,
         Stop \/ Decide \/ Resume \/ RecoverActive \/ RecoverNoCheckpoint
  PROVE  TalkInv'
<1>1. /\ run \in AgentRunRow /\ AtHand(run) /\ Proper(run) /\ run.pending_message = "none"
      /\ run.status \in {"WAITING_FOR_USER", "TERMINATED"} \/ Replied(run)
      /\ run.version \in Nat
  BY WorkerFacts DEF AllInv, TalkInv, TalkRows, Answering
<1>2. UNCHANGED <<loc, msgs, sys>> /\ (w' = w \/ (w.pc = "idle" /\ w'.pc = "read"))
  BY ScheduleTalk DEF Stop, Decide, Resume, RecoverActive, RecoverNoCheckpoint
<1> DEFINE n == [Bump(run) EXCEPT !.status = "TERMINATED", !.error_code = "FATAL"]
<1>3. n \in AgentRunRow /\ Speaks(run, n) /\ n.pending_message = run.pending_message
      /\ n.status = "TERMINATED" /\ n.version = run.version + 1
  <2> DEFINE b == Bump(run)
  <2>1. /\ b \in AgentRunRow /\ Speaks(run, b) /\ b.pending_message = run.pending_message
        /\ b.version = run.version + 1
    BY <1>1, BumpType, SavedSpeaks, RowFacts
  <2> HIDE DEF b
  <2>2. LET m == [b EXCEPT !.status = "TERMINATED", !.error_code = "FATAL"] IN
        /\ m \in AgentRunRow /\ Speaks(b, m) /\ m.pending_message = b.pending_message
        /\ m.status = "TERMINATED" /\ m.version = b.version
    BY <2>1, Members, Zenon DEF Speaks, AgentRunRow
  <2> USE DEF b
  <2> QED BY <2>1, <2>2, SpeaksOn
<1>4. \/ run' = run /\ w' = w
      \/ /\ run.status \in {"PENDING", "RUNNING", "INTERRUPTED", "WAITING_FOR_CONFIRMATION"}
         /\ \/ run' = StopRow(run) \/ run' = RecoverRow(run) \/ run' = ResumeRow(run)
            \/ \E d \in {"approve", "reject"} : run' = DecideRow(run, d)
      \/ run.status # "SUCCEEDED" /\ run' = n
  BY DEF Stop, Decide, Resume, RecoverActive, RecoverNoCheckpoint, CanStop, CanDecide,
         CanResume, Waiting
<1>5. CASE run' = run /\ w' = w
  BY <1>2, <1>5, TalkLocal DEF TalkInv
<1> DEFINE Next1(q) == /\ q \in AgentRunRow /\ Speaks(run, q) /\ q.version = run.version + 1
                       /\ q.status \notin {"SUCCEEDED"} \cup Waiting
                       /\ q.pending_message = "none"
                       /\ q.status = "TERMINATED" \/ Replied(run)
<1>6. ASSUME NEW q, run' = q, Next1(q), run.status # "SUCCEEDED"
      PROVE  TalkInv'
  <2>1. AtHand(q) /\ Proper(q) /\ (Replied(run) => Replied(q))
    BY <1>1, <1>6, SpeaksAlike
  <2> QED BY <1>1, <1>2, <1>6, <2>1, TalkRow
<1>7. CASE run.status # "SUCCEEDED" /\ run' = n
  <2> HIDE DEF n
  <2>1. Next1(n)
    BY <1>1, <1>3 DEF Waiting
  <2> QED BY <1>6, <1>7, <2>1
<1> HIDE DEF n
<1>8. CASE /\ run.status \in {"PENDING", "RUNNING", "INTERRUPTED", "WAITING_FOR_CONFIRMATION"}
           /\ run' = StopRow(run) \/ run' = RecoverRow(run) \/ run' = ResumeRow(run)
  <2>1. Next1(StopRow(run)) /\ Next1(RecoverRow(run)) /\ Next1(ResumeRow(run))
    BY <1>1, <1>8, TransactionTypes, TransactionFacts, TransactionsSpeak DEF Waiting
  <2> QED BY <1>6, <1>8, <2>1
<1>9. ASSUME NEW d \in {"approve", "reject"}, run' = DecideRow(run, d),
             run.status \in {"PENDING", "RUNNING", "INTERRUPTED", "WAITING_FOR_CONFIRMATION"}
      PROVE  TalkInv'
  <2> DEFINE q == DecideRow(run, d)
  <2>1. q \in AgentRunRow
    BY <1>1, TransactionTypes
  <2>2. q.version = run.version + 1
    BY <1>1, TransactionFacts
  <2>3. /\ Speaks(run, q) /\ q.status = "PENDING"
        /\ q.pending_message = run.pending_message
    BY <1>1, TransactionsSpeak
  <2> HIDE DEF q
  <2>4. Next1(q)
    BY <1>1, <1>9, <2>1, <2>2, <2>3 DEF Waiting
  <2>5. run' = q
    BY <1>9 DEF q
  <2> QED BY <1>6, <1>9, <2>4, <2>5
<1> QED BY <1>4, <1>5, <1>7, <1>8, <1>9

\* The reply to the question that stands.
LEMMA TalkReply ==
  ASSUME AllInv, AllInv', TalkInv, Reply
  PROVE  TalkInv'
<1>1. PICK card : CanReply(run, card) /\ run' = ReplyRow(run, card)
  BY DEF Reply
<1>2. /\ UNCHANGED <<loc, msgs, sys>> /\ (w' = w \/ (w.pc = "idle" /\ w'.pc = "read"))
  BY ScheduleTalk DEF Reply
<1>3. /\ run \in AgentRunRow /\ AtHand(run) /\ Proper(run) /\ run.pending_message = "none"
      /\ run.question = card[2] /\ run.status = "WAITING_FOR_USER"
      /\ run.question \in CallIds \cup {None} /\ run.version \in Nat
  BY <1>1, WorkerFacts, Zenon DEF AllInv, TalkInv, TalkRows, CanReply, AgentRunRow
<1> DEFINE b == Bump(run)
           q == [b EXCEPT !.status = "PENDING", !.last_reply = card[2]]
<1>4. /\ b \in AgentRunRow /\ Speaks(run, b) /\ b.pending_message = run.pending_message
      /\ b.version = run.version + 1
  BY <1>3, BumpType, SavedSpeaks, RowFacts
<1>5. run' = q
  BY <1>1 DEF ReplyRow
<1> HIDE DEF b
<1>6. /\ q \in AgentRunRow /\ q.status = "PENDING" /\ q.last_reply = card[2]
      /\ q.question = b.question /\ q.pending_tool_call = b.pending_tool_call
      /\ q.pending_execution = b.pending_execution /\ q.observations = b.observations
      /\ q.answered = b.answered /\ q.version = b.version
      /\ q.pending_message = b.pending_message
  BY <1>3, <1>4, Members, Zenon DEF AgentRunRow
<1> HIDE DEF q
<1>7. AtHand(q) /\ Proper(q) /\ Replied(q)
  BY <1>3, <1>4, <1>6 DEF AtHand, Proper, Replied, Speaks
<1> QED BY <1>2, <1>3, <1>4, <1>5, <1>6, <1>7, TalkRow DEF Waiting

\* A receipt recorded beside the worker.
LEMMA TalkLateReceipt ==
  ASSUME AllInv, AllInv', TalkInv, Reconcile \/ RecoverStopped
  PROVE  TalkInv'
<1> DEFINE c == run.pending_execution.call
           q == ReceiptRow(run, c, inv[c])
<1>1. /\ UNCHANGED <<loc, msgs, sys, w>> /\ run' = q
      /\ OwnsReceipt(run, c) /\ inv[c] \in Outcomes
  BY DEF Reconcile, RecoverStopped
<1>2. c \in CallIds \cup {None} /\ run.version \in Nat
  BY WorkerFacts, Zenon DEF AllInv, AgentRunRow, ExecutionRecord
<1>3. /\ q \in AgentRunRow /\ q.version = run.version + 1 /\ q.status = run.status
      /\ run.status \notin {"SUCCEEDED"} \cup Waiting
      /\ q.pending_message = "none" /\ AtHand(q) /\ Proper(q) /\ Replied(q)
  BY <1>1, <1>2, ReceiptTalk
<1> HIDE DEF c, q
<1> QED BY <1>1, <1>2, <1>3, TalkRow

\* The receipt task touches the row: its call is at hand and asks nothing.
LEMMA TaskTalk ==
  ASSUME AllInv, TalkInv, rt.st = "finished"
  PROVE  /\ rt.call \in CallIds /\ Dispatched(run, rt.call)
         /\ run.question = None /\ run.pending_tool_call = rt.call /\ KindOf[rt.call] # "ask"
         /\ run \in AgentRunRow /\ w \in Workers /\ run.version \in Nat
         /\ AtHand(run) /\ Proper(run) /\ run.pending_message = "none"
         /\ w.pc = "await" => rt.call = w.pos.call
<1>1. rt.call \in CallIds /\ Dispatched(run, rt.call)
  BY DEF AllInv, PromiseInv, Outside, Receipt
<1>2. /\ run \in AgentRunRow /\ w \in Workers /\ run.version \in Nat
      /\ AtHand(run) /\ Proper(run) /\ run.pending_message = "none"
      /\ w.pc = "await" => rt.call = w.pos.call
  BY WorkerFacts DEF AllInv, TalkInv, TalkRows, FenceInv, WorkerHolds
<1> QED BY <1>1, <1>2, CallAssumption DEF AtHand, Dispatched

\* The row the task stores when the outcome is not known.
LEMMA UnknownTalk ==
  ASSUME AllInv, TalkInv, rt.st = "finished", CanMarkUnknown(run, rt.call),
         NEW q, q = MarkUnknownRow(run)
  PROVE  /\ q \in AgentRunRow /\ q.version = run.version + 1
         /\ run.status # "SUCCEEDED" /\ q.status \notin {"SUCCEEDED"} \cup Waiting
         /\ q.pending_message = "none" /\ q.question = None
         /\ q.pending_tool_call = rt.call
         /\ AtHand(q) /\ Proper(q) /\ Replied(q)
<1>1. /\ q \in AgentRunRow /\ q.version = run.version + 1 /\ Speaks(run, q)
      /\ q.pending_message = run.pending_message
      /\ q.status = IF run.status \in Terminal THEN run.status ELSE "INTERRUPTED"
  BY TaskTalk, TransactionTypes, TransactionFacts, TransactionsSpeak
<1>2. run.status \in Terminal => run.status = "TERMINATED"
  BY DEF CanMarkUnknown, Stopped
<1>3. AtHand(q) /\ Proper(q) /\ q.question = None /\ q.pending_tool_call = rt.call
  BY <1>1, TaskTalk, SpeaksAlike DEF Speaks
<1> QED BY <1>1, <1>2, <1>3, TaskTalk DEF Terminal, Waiting, Replied

\* The worker that awaits the task gets the row it stored.
LEMMA TalkWake ==
  ASSUME AllInv, TalkInv, rt.st = "finished", NEW q \in AgentRunRow, run' = q, Wake(q),
         UNCHANGED <<msgs, sys>>, q.version = run.version + 1,
         run.status # "SUCCEEDED", q.status \notin {"SUCCEEDED"} \cup Waiting,
         q.pending_message = "none", q.question = None, q.pending_tool_call = rt.call,
         AtHand(q), Proper(q), Replied(q)
  PROVE  TalkInv'
<1>1. /\ run.version \in Nat /\ w \in Workers /\ KindOf[rt.call] # "ask"
      /\ w.pc = "await" => rt.call = w.pos.call
  BY TaskTalk
<1>2. CASE w.pc # "await"
  <2>1. w' = w /\ loc' = loc
    BY <1>2 DEF Wake
  <2> QED BY <1>1, <2>1, TalkRow
<1>3. CASE w.pc = "await"
  <2>1. w' = Go("awaited") /\ loc' = q
    BY <1>3 DEF Wake
  <2>2. w'.pc = "awaited" /\ w'.pos = w.pos
    BY <1>1, <2>1, GoFacts
  <2>3. StatusHasMessages'
    BY SameMessages
  <2>4. TalkRows'
    BY <2>1 DEF TalkRows, AtHand, Proper, Letter
  <2>5. TalkCopy' /\ Answering'
    BY <2>1 DEF TalkCopy, Answering, Replied
  <2>6. Addressed(w', loc')
    BY <1>1, <1>3, <2>1, <2>2 DEF Addressed, Working
  <2> QED BY <2>3, <2>4, <2>5, <2>6 DEF TalkInv
<1> QED BY <1>2, <1>3

\* The task stores its receipt and wakes the worker.
LEMMA TalkTaskRecord ==
  ASSUME AllInv, AllInv', TalkInv, TaskRecord
  PROVE  TalkInv'
<1>1. rt.st = "finished" /\ UNCHANGED <<msgs, sys>>
  BY DEF TaskRecord
<1>2. rt.call \in CallIds /\ Dispatched(run, rt.call) /\ w \in Workers
  BY <1>1, TaskTalk
<1>3. \/ /\ CanMarkUnknown(run, rt.call)
         /\ run' = MarkUnknownRow(run) /\ Wake(MarkUnknownRow(run))
      \/ \E out \in Outcomes :
           /\ OwnsReceipt(run, rt.call)
           /\ run' = ReceiptRow(run, rt.call, out) /\ Wake(ReceiptRow(run, rt.call, out))
      \/ run' = run /\ WakeWith("conflict", "none")
  BY <1>2 DEF TaskRecord
<1>4. CASE /\ CanMarkUnknown(run, rt.call)
           /\ run' = MarkUnknownRow(run) /\ Wake(MarkUnknownRow(run))
  <2> DEFINE q == MarkUnknownRow(run)
  <2>1. run' = q /\ Wake(q)
    BY <1>4
  <2>2. /\ q \in AgentRunRow /\ q.version = run.version + 1
        /\ run.status # "SUCCEEDED" /\ q.status \notin {"SUCCEEDED"} \cup Waiting
        /\ q.pending_message = "none" /\ q.question = None
        /\ q.pending_tool_call = rt.call
        /\ AtHand(q) /\ Proper(q) /\ Replied(q)
    BY <1>1, <1>4, UnknownTalk
  <2> HIDE DEF q
  <2> QED BY <1>1, <2>1, <2>2, TalkWake
<1>5. ASSUME NEW out \in Outcomes, OwnsReceipt(run, rt.call),
             run' = ReceiptRow(run, rt.call, out), Wake(ReceiptRow(run, rt.call, out))
      PROVE  TalkInv'
  <2> DEFINE q == ReceiptRow(run, rt.call, out)
  <2>1. run' = q /\ Wake(q)
    BY <1>5
  <2>2. /\ q \in AgentRunRow /\ q.version = run.version + 1 /\ q.status = run.status
        /\ run.status \notin {"SUCCEEDED"} \cup Waiting
        /\ q.pending_message = "none" /\ q.question = None
        /\ q.pending_tool_call = rt.call
        /\ AtHand(q) /\ Proper(q) /\ Replied(q)
    BY <1>2, <1>5, ReceiptTalk
  <2> HIDE DEF q
  <2> QED BY <1>1, <2>1, <2>2, TalkWake
<1>6. CASE run' = run /\ WakeWith("conflict", "none")
  <2>1. loc' = loc /\ (w' = w \/ (w.pc = "await" /\ w'.pc = "conflict"))
    BY <1>2, <1>6, GoFacts DEF WakeWith, Exit
  <2>2. Addressed(w', loc)
    BY <2>1, AddressedAway DEF TalkInv
  <2> QED BY <1>1, <1>6, <2>1, <2>2, TalkLocal DEF Holding, WorkerPc, Asked
<1> QED BY <1>3, <1>4, <1>5, <1>6

\* The same behind a database error.
LEMMA TalkTaskRecordFault ==
  ASSUME AllInv, AllInv', TalkInv, TaskRecordFault
  PROVE  TalkInv'
<1>1. /\ rt.st = "finished" /\ msgs' = msgs /\ WakeWith("fail", "DEPENDENCY_UNAVAILABLE")
      /\ sys' = [sys EXCEPT !.faults = @ + 1]
  BY DEF TaskRecordFault
<1>2. rt.call \in CallIds /\ w \in Workers /\ run.version \in Nat
  BY <1>1, TaskTalk
<1>3. sys'.faults # 0
  <2>1. sys \in [closing: BOOLEAN, crashes: Nat, faults: Nat]
    BY DEF AllInv, TypeInv, TypeOK
  <2> QED BY <1>1, <2>1
<1>4. loc' = loc /\ (w' = w \/ (w.pc = "await" /\ w'.pc = "fail"))
  BY <1>1, <1>2, GoFacts DEF WakeWith, Exit
<1>5. \/ run' = run
      \/ CanMarkUnknown(run, rt.call) /\ run' = MarkUnknownRow(run)
      \/ \E out \in Outcomes :
           OwnsReceipt(run, rt.call) /\ run' = ReceiptRow(run, rt.call, out)
  BY DEF TaskRecordFault
<1>6. CASE run' = run
  <2>1. Addressed(w', loc)
    BY <1>4, AddressedAway DEF TalkInv
  <2> QED BY <1>1, <1>3, <1>4, <1>6, <2>1, TalkLocal DEF Holding, WorkerPc, Asked
<1>7. CASE CanMarkUnknown(run, rt.call) /\ run' = MarkUnknownRow(run)
  <2> DEFINE q == MarkUnknownRow(run)
  <2>1. run' = q
    BY <1>7
  <2>2. /\ q \in AgentRunRow /\ q.version = run.version + 1
        /\ run.status # "SUCCEEDED" /\ q.status \notin {"SUCCEEDED"} \cup Waiting
        /\ q.pending_message = "none" /\ AtHand(q) /\ Proper(q) /\ Replied(q)
    BY <1>1, <1>7, UnknownTalk
  <2> HIDE DEF q
  <2> QED BY <1>1, <1>2, <1>3, <1>4, <2>1, <2>2, TalkRow
<1>8. ASSUME NEW out \in Outcomes, OwnsReceipt(run, rt.call),
             run' = ReceiptRow(run, rt.call, out)
      PROVE  TalkInv'
  <2> DEFINE q == ReceiptRow(run, rt.call, out)
  <2>1. run' = q
    BY <1>8
  <2>2. /\ q \in AgentRunRow /\ q.version = run.version + 1 /\ q.status = run.status
        /\ run.status \notin {"SUCCEEDED"} \cup Waiting
        /\ q.pending_message = "none" /\ AtHand(q) /\ Proper(q) /\ Replied(q)
    BY <1>2, <1>8, ReceiptTalk
  <2> HIDE DEF q
  <2> QED BY <1>1, <1>2, <1>3, <1>4, <2>1, <2>2, TalkRow
<1> QED BY <1>5, <1>6, <1>7, <1>8

\* What touches neither row nor worker.
LEMMA TalkElsewhere ==
  ASSUME AllInv, AllInv', TalkInv,
         TaskStart \/ TaskFinish \/ StopSettle \/ InvocationRecovery
  PROVE  TalkInv'
<1>1. sys \in [closing: BOOLEAN, crashes: Nat, faults: Nat]
  BY DEF AllInv, TypeInv, TypeOK
<1>2. UNCHANGED <<run, loc, msgs, w>>
  BY DEF TaskStart, TaskFinish, StopSettle, InvocationRecovery
<1>3. sys' = sys \/ sys' = [sys EXCEPT !.faults = @ + 1]
  BY DEF TaskStart, TaskFinish, StopSettle, InvocationRecovery
<1>4. sys'.faults = 0 => sys.faults = 0
  BY <1>1, <1>3
<1> QED BY <1>2, <1>4, TalkLocal DEF TalkInv

\* The process dies.
LEMMA TalkCrash ==
  ASSUME AllInv, AllInv', TalkInv, Crash
  PROVE  TalkInv'
<1>1. sys \in [closing: BOOLEAN, crashes: Nat, faults: Nat]
  BY DEF AllInv, TypeInv, TypeOK
<1>2. sys'.faults = sys.faults
  BY <1>1 DEF Crash
<1> QED BY <1>2, TalkGone DEF Crash

\* A shutdown cancels the worker.
LEMMA TalkClose ==
  ASSUME AllInv, AllInv', TalkInv, Close
  PROVE  TalkInv'
<1> DEFINE r == Settled(loc, "FAILED")
<1>1. /\ \/ UNCHANGED <<run, msgs, loc>>
         \/ /\ w.pc = "calling" /\ SaveAccepted(run, r) /\ Store(r) /\ loc' = Saved(r)
      /\ w' \in {Go("dying"), Go("raised")} /\ w.pc # "idle"
      /\ sys' = [sys EXCEPT !.closing = TRUE]
  BY Zenon DEF Close
<1>2. sys'.faults = sys.faults
  <2>1. sys \in [closing: BOOLEAN, crashes: Nat, faults: Nat]
    BY DEF AllInv, TypeInv, TypeOK
  <2> QED BY <1>1, <2>1
<1>3. w'.pc \in {"dying", "raised"} /\ w \in Workers
  BY <1>1, GoFacts, WorkerFacts DEF AllInv
<1>4. Addressed(w', loc')
  BY <1>3, AddressedAway
<1>5. CASE UNCHANGED <<run, msgs, loc>>
  BY <1>2, <1>3, <1>4, <1>5, TalkLocal DEF Holding
<1>6. CASE w.pc = "calling" /\ SaveAccepted(run, r) /\ Store(r) /\ loc' = Saved(r)
  <2>1. w.pc \in Working \ {"interrupted", "recorded"}
    BY <1>6 DEF Working
  <2>2. /\ loc.status = "RUNNING" /\ loc.pending_message = "none"
        /\ AtHand(loc) /\ Proper(loc) /\ Replied(loc)
        /\ loc \in AgentRunRow /\ w.pc \in Holding
        /\ loc.version = run.version => run.status = "RUNNING"
    BY <2>1, GraphTalk
  <2>3. /\ r \in AgentRunRow /\ Speaks(loc, r) /\ r.status = loc.status
        /\ r.version = loc.version /\ r.pending_message = loc.pending_message
    BY <2>2, SettledSpeaks
  <2>4. SaveAccepted(run, r) /\ Store(r) /\ loc' = Saved(r)
    BY <1>6
  <2> HIDE DEF r
  <2>5. Tells(r) /\ Replied(r)
    BY <2>2, <2>3, SpeaksAlike, PlainTells
  <2>6. Valid(run, r)
    <3>1. "RUNNING" \in AllowedNext["RUNNING"]
      BY Members DEF AllowedNext, Terminal, Waiting, Status
    <3> QED BY <2>2, <2>3, <2>4, <3>1 DEF Valid, SaveAccepted
  <2>7. Puts(r)
    BY <2>4, <2>6 DEF Puts
  <2> QED BY <1>2, <1>4, <2>2, <2>5, <2>7, TalkSave
<1> QED BY <1>1, <1>5, <1>6

-----------------------------------------------------------------------------
(* What the conversation tells is true *)

LEMMA TalkInit == Init => TalkInv
<1> SUFFICES ASSUME Init PROVE TalkInv
  OBVIOUS
<1>1. /\ run = NewRow /\ loc = NewRow /\ msgs = [questions |-> {}, cards |-> {}, answers |-> 0]
      /\ w.pc = "read"
  BY Zenon DEF Init, IdleWorker
<1>2. /\ AtHand(NewRow) /\ (\A c \in CallIds : NewRow.answered[c] = None)
      /\ NewRow.pending_message = "none" /\ NewRow.status = "PENDING"
      /\ NewRow.question = None
  BY DEF AtHand, NewRow, NoExecution
<1>3. TalkRows
  BY <1>1, <1>2 DEF TalkRows, Proper, Letter
<1>4. TalkCopy /\ Answering
  BY <1>1, <1>2 DEF TalkCopy, Answering, Replied
<1>5. Addressed(w, loc)
  BY <1>1, AddressedAway
<1>6. StatusHasMessages
  BY <1>1, <1>2 DEF StatusHasMessages, WaitingIsAddressed, AnswerWithSuccess
<1> QED BY <1>3, <1>4, <1>5, <1>6 DEF TalkInv

\* Every step keeps it.
LEMMA TalkStep ==
  ASSUME AllInv, AllInv', TalkInv, [Next]_vars
  PROVE  TalkInv'
<1>1. CASE UNCHANGED vars
  BY <1>1, TalkLocal DEF vars, TalkInv
<1>2. CASE Read \/ CloseoutFault \/ Claim \/ Checkpoint \/ Conflict
  BY <1>2, TalkRead, TalkCloseout, TalkClaim
<1>3. CASE ModelStep
  BY <1>3, TalkBeforeModel, TalkModel, TalkModelFailure
     DEF ModelStep, ModelRetry, ModelPaused, ModelRejected
<1>4. CASE ToolStep
  BY <1>4, TalkReplayCompleted, TalkReplayed, TalkAskUser, TalkResolve, TalkPrepare,
     TalkPrepared, TalkShowCard, TalkApplyDecision, TalkConfirmed, TalkDispatchFence,
     TalkContinue, TalkFound, TalkRecorded, TalkAwaited DEF ToolStep
<1>5. CASE \/ Interrupted \/ NodeRefused \/ FinalAnswer \/ FailSettle \/ FailSave
           \/ Raised \/ RaisedSave \/ Dying
  BY <1>5, TalkInterrupted, TalkRefused, TalkFinalAnswer, TalkFailSettle, TalkFailSave, TalkRaised,
     TalkDying
<1>6. CASE TaskNext \/ UserNext \/ ScanNext \/ InvocationRecovery
  BY <1>6, TalkElsewhere, TalkTaskRecord, TalkTaskRecordFault, TalkRequests, TalkReply,
     TalkLateReceipt DEF TaskNext, UserNext, ScanNext
<1>7. CASE Crash \/ Close
  BY <1>7, TalkCrash, TalkClose
<1> QED BY <1>1, <1>2, <1>3, <1>4, <1>5, <1>6, <1>7 DEF Next, WorkerNext, EndStep

\* Whatever saves are lost, repeated or beaten by another writer, in every crash,
\* retry and replay: a run that waits has posted its question or card, a run that
\* succeeded has published one answer and no other run has one; and as long as no
\* save went unacknowledged, a question holds the reply to itself (_save_once,
\* ask_user and the resume payload of advance).
THEOREM ConversationStaysTrue == Spec => []ConversationIsTrue
<1>1. AllInv /\ TalkInv => ConversationIsTrue
  BY DEF TalkInv, TalkRows, Proper, ConversationIsTrue, ReplyAnswersQuestion
<1>2. Init => AllInv /\ TalkInv
  BY AllInit, TalkInit
<1>3. AllInv /\ TalkInv /\ [Next]_vars => (AllInv /\ TalkInv)'
  BY AllStep, TalkStep
<1> QED BY <1>1, <1>2, <1>3, PTL DEF Spec
=============================================================================
