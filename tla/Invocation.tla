----------------------------- MODULE Invocation -----------------------------
(***************************************************************************)
(* One InvocationRun row and everything that works on it: the gateway call *)
(* that creates, authorises and drives it (application/agent_tools.py and  *)
(* tool_invocations.py), the user's decision on its confirmation card, the *)
(* receipt lookups that users start while its outcome is unknown, and the  *)
(* recovery of a restarted process (recover_mcp).  Behind it stands what   *)
(* the call does outside of the database: a local side effect, or one      *)
(* request to the ML service that is executed, answered or lost.           *)
(*                                                                         *)
(* A database transaction is one action.  It may fail, and then it may     *)
(* have been applied all the same (an acknowledgement that is lost).       *)
(***************************************************************************)
EXTENDS Naturals, FiniteSets

CONSTANTS
  Kinds,       \* the tools of the instance, see ToolKinds
  Lookups,     \* receipt lookups that may run at the same time
  None,
  MaxVersion,  \* bound: row versions, up to which a lookup may start
  MaxFaults,   \* bound: failed database transactions
  MaxCrashes   \* bound: process exits

\* convert: a local STANDARD tool; side: a local SIDE_EFFECT tool; train and
\* predict: the SIDE_EFFECT tools of the ML service; read: its STANDARD,
\* auto_retry_safe tools.
ToolKinds == {"convert", "side", "train", "predict", "read"}

ASSUME InvocationAssumption ==
  /\ Kinds \subseteq ToolKinds
  /\ MaxVersion \in Nat
  /\ MaxFaults \in Nat
  /\ MaxCrashes \in Nat

VARIABLES
  kind,    \* the tool of this row
  row,     \* the invocation_run row
  gate,    \* the agent's record of the call, as far as it opens the dispatch
  gw,      \* the gateway call in progress
  look,    \* the lookups in progress
  remote,  \* the effect, the request on its way, the reply, requests sent
  sys      \* process down, execution owner active, card expired, bounds

vars == <<kind, row, gate, gw, look, remote, sys>>

Mcp == kind \in {"train", "predict", "read"}
Write == kind \in {"train", "predict"}
Consent == kind \in {"side", "train", "predict"}
MaxSends == 3   \* stop_after_attempt of a safe read
MaxTries == 3   \* attempts of a result transaction

Settled == {"SUCCEEDED", "FAILED", "DENIED", "REJECTED", "EXPIRED", "OUTCOME_UNKNOWN"}
Found == {"running", "done", "failed"}
Receipts == {"none", "identity", "missing", "unavailable"} \cup Found

\* ver: the optimistic version; consent: confirmed_at; claimed: a claim token;
\* op: the frozen remote_operation; receipt: what remote_receipt says.
Rows ==
  [st: {"none", "PENDING", "PENDING_CONFIRMATION", "RUNNING"} \cup Settled,
   ver: Nat, consent: BOOLEAN, claimed: BOOLEAN, dispatched: BOOLEAN,
   op: BOOLEAN, result: BOOLEAN, receipt: Receipts]
NoRow ==
  [st |-> "none", ver |-> 0, consent |-> FALSE, claimed |-> FALSE,
   dispatched |-> FALSE, op |-> FALSE, result |-> FALSE, receipt |-> "none"]

GatewayPc == {"idle", "authorize", "claim", "freeze", "mark", "call", "reply",
              "commit", "fail", "unknown"}
Gateways == [pc: GatewayPc, ver: Nat, try: 1..MaxTries, receipt: Receipts]
Idle == [pc |-> "idle", ver |-> 0, try |-> 1, receipt |-> "none"]

NoLook == [pc |-> "idle", ver |-> 0, got |-> "none", try |-> 1]
LookupStates ==
  [pc: {"idle", "ask", "save", "adopt"}, ver: Nat, got: Receipts, try: 1..MaxTries]

Init ==
  /\ kind \in Kinds
  /\ row = NoRow
  /\ gate = "new"
  /\ gw = Idle
  /\ look = [l \in Lookups |-> NoLook]
  /\ remote = [op |-> "none", wire |-> "idle", sends |-> 0]
  /\ sys = [boot |-> FALSE, owner |-> TRUE, late |-> FALSE, faults |-> 0, crashes |-> 0]

-----------------------------------------------------------------------------
(* The row *)

Up == ~sys.boot

\* InvocationRun.transition and the update behind it: one version further.
Moved(r, st) == [r EXCEPT !.st = st, !.ver = @ + 1]

\* InvocationRun.__post_init__: no row is built that its own checks refuse.  An
\* unknown outcome requires an external execution.
Valid(r) ==
  /\ r.st = "PENDING_CONFIRMATION" => Consent /\ ~r.consent
  /\ r.st = "RUNNING" \/ r.dispatched => r.claimed
  /\ r.st = "OUTCOME_UNKNOWN" => kind # "convert"
  /\ r.st = "SUCCEEDED" <=> r.result
  /\ r.op \/ r.receipt # "none" => Mcp

\* A transaction that would write r: done, or failed and perhaps applied.
Fault == sys.faults < MaxFaults /\ sys' = [sys EXCEPT !.faults = @ + 1]
Transaction(r, next, broken) ==
  \/ row' = r /\ gw' = next /\ sys' = sys
  \/ Fault /\ row' \in {row, r} /\ gw' = broken

\* The same under the execution owner of the agent run.  A stopped run commits
\* nothing for a call it has not fenced; what the fenced call writes by UPDATE
\* statements passes, see AgentRun.MayCommit.
Owned(r, next, broken) ==
  IF sys.owner \/ gate = "used" THEN Transaction(r, next, broken)
  ELSE gw' = Idle /\ UNCHANGED <<row, sys>>

Go(pc) == [gw EXCEPT !.pc = pc, !.try = 1]
At(pc) == Up /\ gw.pc = pc

-----------------------------------------------------------------------------
(* Creation: RegistryAgentGateway._prepare, create_from_proposal *)

\* What the agent records of the status that prepare returns.
Opened(st) ==
  CASE st = "PENDING_CONFIRMATION" -> "asked"
    [] st \in {"DENIED", "FAILED"} -> "closed"
    [] OTHER -> "open"

\* The insert, or the row of the same idempotency key.  When the insert fails
\* and the row is there it is taken as an existing one.
Create ==
  /\ At("idle")
  /\ gate = "new"
  /\ IF row.st # "none"
       THEN gate' = Opened(row.st) /\ UNCHANGED <<row, gw, sys>>
     ELSE LET r == [NoRow EXCEPT !.st = "PENDING"]
          IN  \/ row' = r /\ gw' = Go("authorize") /\ UNCHANGED <<gate, sys>>
              \/ Fault /\ row' = row /\ UNCHANGED <<gate, gw>>
              \/ Fault /\ row' = r /\ gate' = Opened("PENDING") /\ gw' = gw
  /\ sys.owner
  /\ UNCHANGED <<kind, look, remote>>

\* _authorize_initial: a second transaction, which also asks for consent.
Authorize ==
  /\ At("authorize")
  /\ IF row.st # "PENDING"
       THEN gate' = Opened(row.st) /\ gw' = Idle /\ UNCHANGED <<row, sys>>
     ELSE \E st \in {"DENIED", IF Consent THEN "PENDING_CONFIRMATION" ELSE "PENDING"} :
            /\ Owned(Moved(row, st), Idle, Idle)
            /\ gate' = IF sys' = sys /\ row' # row THEN Opened(st) ELSE gate
  /\ UNCHANGED <<kind, look, remote>>

\* confirm and reject, deferred: permission only.  An answer after the expiry
\* time closes the card, whatever it says.
Decide(approved) ==
  /\ Up
  /\ gate = "asked"
  /\ IF row.st = "PENDING_CONFIRMATION"
       THEN LET r == IF sys.late THEN Moved(row, "EXPIRED")
                     ELSE IF approved THEN [Moved(row, "PENDING") EXCEPT !.consent = TRUE]
                     ELSE Moved(row, "REJECTED")
            IN  \/ /\ row' = r /\ sys' = sys
                   /\ gate' = IF r.st = "PENDING" THEN "open" ELSE "closed"
                \/ Fault /\ row' \in {row, r} /\ gate' = gate
     ELSE /\ gate' = CASE approved /\ row.consent -> "open"
                      [] ~approved /\ row.st = "REJECTED" -> "closed"
                      [] OTHER -> gate   \* a conflict, the card stays
          /\ UNCHANGED <<row, sys>>
  /\ UNCHANGED <<kind, gw, look, remote>>

-----------------------------------------------------------------------------
(* The drive: RegistryAgentGateway.execute, _drive_pending, _dispatch *)

\* The agent's fence is durable, so the gate opens once.  Its resources may
\* fail verification before anything was sent.
Execute ==
  /\ At("idle")
  /\ gate = "open"
  /\ sys.owner
  /\ gate' = "used"
  /\ \/ gw' = Go("claim") /\ UNCHANGED <<row, sys>>
     \/ row.st = "PENDING" /\ Transaction(Moved(row, "FAILED"), Idle, Idle)
  /\ UNCHANGED <<kind, look, remote>>

\* _drive_pending: claim the row, or deny it.
Claim ==
  /\ At("claim")
  /\ IF row.st # "PENDING" THEN gw' = Idle /\ UNCHANGED <<row, sys>>
     ELSE \/ Owned(Moved(row, "DENIED"), Idle, Idle)
          \/ LET r == [Moved(row, "RUNNING") EXCEPT !.claimed = TRUE]
             IN  Owned(r, [Go(IF Mcp THEN "freeze" ELSE "mark") EXCEPT !.ver = r.ver], Idle)
  /\ UNCHANGED <<kind, gate, look, remote>>

\* MCPClient.prepare: what the service is asked for by; a read has no identity.
Identity == Write

\* The remote identity is fixed before the dispatch; a service that cannot
\* name it fails the call, nothing was sent.
Freeze ==
  /\ At("freeze")
  /\ \/ gw' = Go("fail") /\ UNCHANGED <<row, sys>>
     \/ IF row.st # "RUNNING" \/ row.dispatched THEN gw' = Idle /\ UNCHANGED <<row, sys>>
        ELSE LET r == [Moved(row, "RUNNING") EXCEPT !.op = Identity]
             IN  Owned(r, [Go("mark") EXCEPT !.ver = r.ver], Idle)
  /\ UNCHANGED <<kind, gate, look, remote>>

\* dispatch_started_at, on the version this driver wrote last.
Mark ==
  /\ At("mark")
  /\ IF row.ver # gw.ver \/ row.st # "RUNNING"
       THEN gw' = Idle /\ UNCHANGED <<row, sys>>
     ELSE Owned([Moved(row, "RUNNING") EXCEPT !.dispatched = TRUE], Go("call"), Idle)
  /\ UNCHANGED <<kind, gate, look, remote>>

Sent(r) == [r EXCEPT !.sends = @ + 1]

\* StandardSyncExecutor: a thread that is left alone at its deadline, so the
\* effect may come about whatever was reported.
CallLocal ==
  /\ At("call")
  /\ ~Mcp
  /\ \E op \in {"none", "done"}, pc \in {"commit", "fail", "unknown"} :
       /\ pc = "commit" => op = "done"
       /\ pc = "fail" => kind = "convert"
       /\ remote' = [Sent(remote) EXCEPT !.op = op]
       /\ gw' = Go(pc)
  /\ UNCHANGED <<kind, row, gate, look, sys>>

\* MCPClient.invoke: the slots, the session and the binding are checked first.
CallRemote ==
  /\ At("call")
  /\ Write
  /\ \/ gw' = Go("fail") /\ remote' = remote
     \/ gw' = Go("reply") /\ remote' = [Sent(remote) EXCEPT !.wire = "sent"]
  /\ UNCHANGED <<kind, row, gate, look, sys>>

\* Slip: as long as the failure is transient.
RetriedForEver == TRUE
\* stop_after_attempt(3).
MayRetry == remote.sends < MaxSends

\* A safe read: transient failures are retried, within one dispatch.
CallRead ==
  /\ At("call")
  /\ kind = "read"
  /\ \/ gw' = Go("fail") /\ remote' = remote
     \/ /\ MayRetry
        /\ remote' = Sent(remote)
        /\ gw' \in {Go("commit"), Go("fail"), Go("unknown"), gw}
  /\ UNCHANGED <<kind, row, gate, look, sys>>

\* Slip: a request that was sent and not answered is reported as failed.
LostAsFailure == Go("fail")
\* Slip: it is sent again.
LostIsRetried == Go("call")
\* Everything that is not a verified reply leaves the outcome open.
Lost == Go("unknown")

\* MCPClient.validate_result.  A reply too large for a result still names the
\* resource; a rejection comes before any write of the service.
Reply ==
  /\ At("reply")
  /\ \/ gw' = Lost
     \/ remote.wire = "rejected" /\ gw' = Go("fail")
     \/ remote.op = "done" /\ gw' \in {Go("commit"), [Lost EXCEPT !.receipt = "identity"]}
     \/ remote.op = "failed" /\ gw' = [Go("fail") EXCEPT !.receipt = "failed"]
  /\ UNCHANGED <<kind, row, gate, look, remote, sys>>

-----------------------------------------------------------------------------
(* The outcome: _commit_output, _finalize_failure, _finalize_unknown *)

\* _commit_output_once: the result row and the status in one transaction, also
\* after the outcome was written off as unknown.
Succeeded(r) == [Moved(r, "SUCCEEDED") EXCEPT !.result = TRUE]

\* A failed attempt re-reads the row: a committed result is the answer, an
\* unchanged row allows up to two more attempts; then a remote call is
\* reported as unknown and a local one stays as it is.
Commit ==
  /\ At("commit")
  /\ IF row.st \notin {"RUNNING", "OUTCOME_UNKNOWN"} THEN gw' = Idle /\ UNCHANGED <<row, sys>>
     ELSE Owned(Succeeded(row), Idle,
                IF gw.try < MaxTries THEN [gw EXCEPT !.try = @ + 1]
                ELSE IF Mcp THEN Go("unknown") ELSE Idle)
  /\ UNCHANGED <<kind, gate, look, remote>>

Kept(receipt, r) == IF receipt = "none" THEN r.receipt ELSE receipt

Fail ==
  /\ At("fail")
  /\ IF row.st # "RUNNING" THEN gw' = Idle /\ UNCHANGED <<row, sys>>
     ELSE Owned([Moved(row, "FAILED") EXCEPT !.receipt = Kept(gw.receipt, row)], Idle, Idle)
  /\ UNCHANGED <<kind, gate, look, remote>>

Unknown ==
  /\ At("unknown")
  /\ LET r == [Moved(row, "OUTCOME_UNKNOWN") EXCEPT !.receipt = Kept(gw.receipt, row)]
     IN  IF row.st # "RUNNING" \/ ~Valid(r) THEN gw' = Idle /\ UNCHANGED <<row, sys>>
         ELSE Owned(r, Idle, Idle)
  /\ UNCHANGED <<kind, gate, look, remote>>

-----------------------------------------------------------------------------
(* Receipts: reconcile_mcp *)

Set(l, s) == look' = [look EXCEPT ![l] = s]
InLook(l, pc) == look[l].pc = pc

\* Started by the user, or by the recovery of a starting process.
LookStart(l) ==
  /\ InLook(l, "idle")
  /\ row.st = "OUTCOME_UNKNOWN"
  /\ row.op
  /\ row.ver < MaxVersion
  /\ Set(l, [NoLook EXCEPT !.pc = "ask", !.ver = row.ver])
  /\ UNCHANGED <<kind, row, gate, gw, remote, sys>>

\* lookup_operation of the service, by the frozen identity.
LookAsk(l) ==
  /\ InLook(l, "ask")
  /\ \E got \in {IF remote.op = "none" THEN "missing" ELSE remote.op, "unavailable"} :
       Set(l, [look[l] EXCEPT !.pc = "save", !.got = got])
  /\ UNCHANGED <<kind, row, gate, gw, remote, sys>>

\* Slip: whatever the lookup says replaces what was known.
MergedBlindly(old, got) == got
\* A failed later lookup cannot erase a resource that was found.
Merged(old, got) == IF old \in Found /\ got \notin Found THEN old ELSE got

\* Another lookup may already have stored newer facts.
Unmoved(l) == row.ver = look[l].ver

\* result_from_receipt: only the full view, matching the frozen request.
Usable(receipt) == receipt = "done"

LookSave(l) ==
  /\ InLook(l, "save")
  /\ IF ~Unmoved(l) \/ row.st # "OUTCOME_UNKNOWN"
       THEN Set(l, NoLook) /\ UNCHANGED <<row, sys>>
     ELSE LET r == [row EXCEPT !.ver = @ + 1, !.receipt = Merged(row.receipt, look[l].got)]
          IN  \/ /\ row' = r /\ sys' = sys
                 /\ Set(l, IF Usable(r.receipt) THEN [look[l] EXCEPT !.pc = "adopt"] ELSE NoLook)
              \/ Fault /\ row' \in {row, r} /\ Set(l, NoLook)
  /\ UNCHANGED <<kind, gate, gw, remote>>

LookAdopt(l) ==
  /\ InLook(l, "adopt")
  /\ IF row.st \notin {"RUNNING", "OUTCOME_UNKNOWN"} THEN Set(l, NoLook) /\ UNCHANGED <<row, sys>>
     ELSE \/ row' = Succeeded(row) /\ sys' = sys /\ Set(l, NoLook)
          \/ /\ Fault
             /\ row' \in {row, Succeeded(row)}
             /\ Set(l, IF look[l].try < MaxTries THEN [look[l] EXCEPT !.try = @ + 1] ELSE NoLook)
  /\ UNCHANGED <<kind, gate, gw, remote>>

-----------------------------------------------------------------------------
(* The ML service, the clock, the user's stop, and the process *)

\* The request arrives: rejected before any write, or the resource exists.
\* It may arrive after its sender has given up.
Deliver ==
  /\ remote.wire = "sent"
  /\ remote' \in {[remote EXCEPT !.wire = "rejected"],
                  [remote EXCEPT !.wire = "idle",
                                 !.op = IF kind = "train" THEN "done" ELSE "running"]}
  /\ UNCHANGED <<kind, row, gate, gw, look, sys>>

\* A prediction ends; a lost or cancelled one as failed.
Compute ==
  /\ remote.op = "running"
  /\ \E op \in {"done", "failed"} : remote' = [remote EXCEPT !.op = op]
  /\ UNCHANGED <<kind, row, gate, gw, look, sys>>

CardExpires ==
  /\ ~sys.late
  /\ row.st = "PENDING_CONFIRMATION"
  /\ sys' = [sys EXCEPT !.late = TRUE]
  /\ UNCHANGED <<kind, row, gate, gw, look, remote>>

\* store.stop: the agent run is stopped, its owner is not active any more.
Stop ==
  /\ sys.owner
  /\ sys' = [sys EXCEPT !.owner = FALSE]
  /\ UNCHANGED <<kind, row, gate, gw, look, remote>>

\* Its second transaction closes a call that is not fenced.
StopClose ==
  /\ ~sys.owner
  /\ gate # "used"
  /\ row.st \in {"PENDING", "PENDING_CONFIRMATION"}
  /\ row' = Moved(row, IF row.st = "PENDING" THEN "FAILED" ELSE "REJECTED")
  /\ gate' = "closed"
  /\ UNCHANGED <<kind, gw, look, remote, sys>>

Crash ==
  /\ sys.crashes < MaxCrashes
  /\ sys' = [sys EXCEPT !.boot = TRUE, !.crashes = @ + 1]
  /\ gw' = Idle
  /\ look' = [l \in Lookups |-> NoLook]
  /\ UNCHANGED <<kind, row, gate, remote>>

\* Never dispatched is a failure, everything else stays open.
Recovered(r) == Moved(r, IF r.dispatched THEN "OUTCOME_UNKNOWN" ELSE "FAILED")

\* recover_mcp, before requests are served.  Local calls are not visited.
Recover ==
  /\ sys.boot
  /\ Mcp
  /\ row.st = "RUNNING"
  /\ \/ row' = Recovered(row) /\ sys' = sys
     \/ Fault /\ row' \in {row, Recovered(row)}
  /\ UNCHANGED <<kind, gate, gw, look, remote>>

Started ==
  /\ sys.boot
  /\ ~(Mcp /\ row.st = "RUNNING")
  /\ sys' = [sys EXCEPT !.boot = FALSE]
  /\ UNCHANGED <<kind, row, gate, gw, look, remote>>

-----------------------------------------------------------------------------
GatewayNext ==
  \/ Create \/ Authorize \/ Execute \/ Claim \/ Freeze \/ Mark
  \/ CallLocal \/ CallRemote \/ CallRead \/ Reply \/ Commit \/ Fail \/ Unknown
LookNext == \E l \in Lookups : LookStart(l) \/ LookAsk(l) \/ LookSave(l) \/ LookAdopt(l)
WorldNext == Deliver \/ Compute \/ CardExpires \/ Stop \/ StopClose \/ Crash

Next == GatewayNext \/ LookNext \/ WorldNext \/ Recover \/ Started
        \/ \E approved \in BOOLEAN : Decide(approved)

Spec == Init /\ [][Next]_vars

-----------------------------------------------------------------------------
TypeOK ==
  /\ kind \in Kinds
  /\ row \in Rows
  /\ Valid(row)
  /\ gate \in {"new", "asked", "open", "used", "closed"}
  /\ gw \in Gateways
  /\ look \in [Lookups -> LookupStates]
  /\ remote \in [op: {"none"} \cup Found, wire: {"idle", "sent", "rejected"}, sends: 0..MaxSends]
  /\ sys \in [boot: BOOLEAN, owner: BOOLEAN, late: BOOLEAN,
              faults: 0..MaxFaults, crashes: 0..MaxCrashes]

\* A call with an effect that is reported as failed has none, now or later: no
\* request of it is on its way and the service has not written anything for it,
\* whatever was lost between the dispatch and the report (_finalize_failure,
\* recover_mcp).
FailedIsClean ==
  row.st = "FAILED" /\ Consent => remote.wire # "sent" /\ remote.op \in {"none", "failed"}

\* A result is only stored for an effect that came about, also when it is put
\* together from a receipt long after the call (_commit_output_once,
\* result_from_receipt).
SuccessIsReal == row.result /\ kind # "read" => remote.op = "done"

\* What a row states about the effect of its call is true, and stays true while
\* requests are still on their way and lookups come late.
OutcomeIsTrue == FailedIsClean /\ SuccessIsReal

\* Nothing leaves the process before the row says so, with the identity under
\* which the service can be asked about it; a call with an effect leaves once,
\* over all retries, restarts and lost transactions (_dispatch).
SendIsMarked ==
  remote.sends > 0 =>
    /\ row.dispatched
    /\ Write => row.op
    /\ kind # "read" => remote.sends = 1

\* A tool with an effect is called only after its user agreed to it
\* (materials_ml_tools.py: confirmation_required=write).
ConsentBeforeSend == Consent /\ remote.sends > 0 => row.consent

-----------------------------------------------------------------------------
(* Why the row tells the truth: the inductive invariant *)

\* The gate opens one drive, and nothing is dispatched before it.
GateIsPassed ==
  /\ row.st = "none" => row = NoRow
  /\ sys.boot => gw.pc = "idle"
  /\ gw.pc = "authorize" => gate \in {"new", "closed"} /\ ~row.consent
  /\ gw.pc \notin {"idle", "authorize"} => gate = "used"
  /\ gate # "used" => ~row.dispatched

\* The drive has marked exactly what it is about to do.
DriveIsMarked ==
  /\ gw.pc \in {"claim", "freeze", "mark"} => ~row.dispatched
  /\ gw.pc = "call" => /\ row.dispatched
                       /\ row.st = "RUNNING"
                       /\ kind # "read" => remote.sends = 0
  /\ gw.pc \in {"mark", "call"} /\ Write => row.op
  /\ gw.pc = "reply" => Write
  /\ gw.receipt # "none" => Write
  /\ row.op => Write
  /\ row.receipt # "none" => row.st \in Settled

\* Outside there is only what was sent.
EffectWasSent ==
  /\ remote.sends = 0 => remote.wire = "idle" /\ remote.op = "none"
  /\ remote.wire # "idle" => remote.op = "none" /\ Write
  /\ kind = "read" => remote.op = "none"

\* What the drive and the receipts are about to record is the case outside.
Final == {"done", "failed"}
AnswerIsTrue ==
  /\ gw.pc = "commit" /\ kind # "read" => remote.op = "done"
  /\ gw.pc = "fail" /\ Consent => remote.wire # "sent" /\ remote.op \in {"none", "failed"}
  /\ gw.receipt \in {"none", "identity", "failed"}
  /\ gw.receipt = "failed" => remote.op = "failed"
  /\ row.receipt \in Final => remote.op = row.receipt

\* A lookup that may still be stored was asked after the last one was.
LookIsFresh(l) ==
  /\ look[l].pc # "idle" => Write
  /\ look[l].ver <= row.ver
  /\ look[l].got \in Final => remote.op = look[l].got
  /\ look[l].pc = "adopt" => remote.op = "done"
  /\ look[l].pc = "save" /\ Unmoved(l) /\ row.receipt \in Final =>
       look[l].got \notin Found \ {row.receipt}

\* The inductive invariant: every part holds whatever fails, and each transaction
\* preserves all of them together (_drive_pending, _dispatch, reconcile_mcp).
CallInv ==
  /\ TypeOK
  /\ GateIsPassed
  /\ DriveIsMarked
  /\ EffectWasSent
  /\ AnswerIsTrue
  /\ \A l \in Lookups : LookIsFresh(l)
  /\ OutcomeIsTrue
  /\ SendIsMarked

\* The resource a lookup found stays found, and its outcome stays what it was,
\* in whatever order lookups that overlap store what they read (reconcile_mcp).
FoundIsKept ==
  [][/\ row.receipt \in Found => row'.receipt \in Found
     /\ row.receipt \in {"done", "failed"} => row'.receipt = row.receipt]_vars
=============================================================================
