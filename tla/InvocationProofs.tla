-------------------------- MODULE InvocationProofs --------------------------
(***************************************************************************)
(* Theorems about module Invocation, for every set of tools and lookups    *)
(* and every number of failed transactions and process exits.              *)
(***************************************************************************)
EXTENDS Invocation, TLAPS

-----------------------------------------------------------------------------
(* The rows a transaction writes, field by field *)

Statuses == {"none", "PENDING", "PENDING_CONFIRMATION", "RUNNING"} \cup Settled

\* b has the fields of a, but for the status and the version.
Same(a, b) ==
  /\ b.consent = a.consent
  /\ b.claimed = a.claimed
  /\ b.dispatched = a.dispatched
  /\ b.op = a.op
  /\ b.result = a.result
  /\ b.receipt = a.receipt

\* The fields of a row have their types.
LEMMA RowFields ==
  ASSUME NEW r \in Rows
  PROVE  /\ r.st \in Statuses /\ r.ver \in Nat /\ r.ver + 1 \in Nat
         /\ r.consent \in BOOLEAN /\ r.claimed \in BOOLEAN /\ r.dispatched \in BOOLEAN
         /\ r.op \in BOOLEAN /\ r.result \in BOOLEAN /\ r.receipt \in Receipts
<1>1. r.ver \in Nat
  BY Zenon DEF Rows
<1>2. r.ver + 1 \in Nat
  BY <1>1
<1> QED BY <1>1, <1>2, Zenon DEF Rows, Statuses

\* A transition of the row changes its status and version alone.
LEMMA MovedFacts ==
  ASSUME NEW r \in Rows, NEW st \in Statuses
  PROVE  /\ Moved(r, st) \in Rows
         /\ Moved(r, st).st = st
         /\ Moved(r, st).ver = r.ver + 1
         /\ Same(r, Moved(r, st))
<1>1. Moved(r, st) \in Rows
  BY RowFields, Zenon DEF Moved, Rows, Statuses
<1> QED BY <1>1, Zenon DEF Moved, Rows, Same

\* A card that was confirmed.
LEMMA ApprovedFacts ==
  ASSUME NEW r \in Rows, NEW st \in Statuses
  PROVE  LET w == [Moved(r, st) EXCEPT !.consent = TRUE]
         IN  /\ w \in Rows /\ w.st = st /\ w.ver = r.ver + 1 /\ w.consent = TRUE
             /\ w.claimed = r.claimed
             /\ w.dispatched = r.dispatched
             /\ w.op = r.op
             /\ w.result = r.result
             /\ w.receipt = r.receipt
<1>1. TRUE \in BOOLEAN
  OBVIOUS
<1> QED BY <1>1, MovedFacts, Zenon DEF Rows, Same

\* A row that was claimed.
LEMMA ClaimedFacts ==
  ASSUME NEW r \in Rows, NEW st \in Statuses
  PROVE  LET w == [Moved(r, st) EXCEPT !.claimed = TRUE]
         IN  /\ w \in Rows /\ w.st = st /\ w.ver = r.ver + 1 /\ w.claimed = TRUE
             /\ w.consent = r.consent
             /\ w.dispatched = r.dispatched
             /\ w.op = r.op
             /\ w.result = r.result
             /\ w.receipt = r.receipt
<1>1. TRUE \in BOOLEAN
  OBVIOUS
<1> QED BY <1>1, MovedFacts, Zenon DEF Rows, Same

\* A row with its remote identity.
LEMMA FrozenFacts ==
  ASSUME NEW r \in Rows, NEW st \in Statuses, Identity \in BOOLEAN
  PROVE  LET w == [Moved(r, st) EXCEPT !.op = Identity]
         IN  /\ w \in Rows /\ w.st = st /\ w.ver = r.ver + 1 /\ w.op = Identity
             /\ w.consent = r.consent
             /\ w.claimed = r.claimed
             /\ w.dispatched = r.dispatched
             /\ w.result = r.result
             /\ w.receipt = r.receipt
BY MovedFacts, Zenon DEF Rows, Same

\* A dispatched row.
LEMMA MarkedFacts ==
  ASSUME NEW r \in Rows, NEW st \in Statuses
  PROVE  LET w == [Moved(r, st) EXCEPT !.dispatched = TRUE]
         IN  /\ w \in Rows /\ w.st = st /\ w.ver = r.ver + 1 /\ w.dispatched = TRUE
             /\ w.consent = r.consent
             /\ w.claimed = r.claimed
             /\ w.op = r.op
             /\ w.result = r.result
             /\ w.receipt = r.receipt
<1>1. TRUE \in BOOLEAN
  OBVIOUS
<1> QED BY <1>1, MovedFacts, Zenon DEF Rows, Same

\* A row with a receipt.
LEMMA ReceiptFacts ==
  ASSUME NEW r \in Rows, NEW st \in Statuses, NEW x \in Receipts
  PROVE  LET w == [Moved(r, st) EXCEPT !.receipt = x]
         IN  /\ w \in Rows /\ w.st = st /\ w.ver = r.ver + 1 /\ w.receipt = x
             /\ w.consent = r.consent
             /\ w.claimed = r.claimed
             /\ w.dispatched = r.dispatched
             /\ w.op = r.op
             /\ w.result = r.result
BY MovedFacts, Zenon DEF Rows, Same

\* A row with its result.
LEMMA SucceededFacts ==
  ASSUME NEW r \in Rows
  PROVE  LET w == Succeeded(r)
         IN  /\ w \in Rows /\ w.st = "SUCCEEDED" /\ w.ver = r.ver + 1 /\ w.result = TRUE
             /\ w.consent = r.consent /\ w.claimed = r.claimed
             /\ w.dispatched = r.dispatched /\ w.op = r.op /\ w.receipt = r.receipt
<1>1. TRUE \in BOOLEAN /\ "SUCCEEDED" \in Statuses
  BY DEF Statuses, Settled
<1> QED BY <1>1, MovedFacts, Zenon DEF Succeeded, Rows, Same

\* A row with a later receipt: the status stays.
LEMMA StoredFacts ==
  ASSUME NEW r \in Rows, NEW x \in Receipts
  PROVE  LET w == [r EXCEPT !.ver = @ + 1, !.receipt = x]
         IN  /\ w \in Rows /\ w.st = r.st /\ w.ver = r.ver + 1 /\ w.receipt = x
             /\ w.consent = r.consent /\ w.claimed = r.claimed
             /\ w.dispatched = r.dispatched /\ w.op = r.op /\ w.result = r.result
BY RowFields, Zenon DEF Rows, Statuses

-----------------------------------------------------------------------------
(* The gateway call and the lookups, field by field *)

\* The gateway goes on with what it has received.
LEMMA GoFacts ==
  ASSUME NEW pc \in GatewayPc, gw \in Gateways
  PROVE  /\ Go(pc) \in Gateways
         /\ Go(pc).pc = pc
         /\ Go(pc).receipt = gw.receipt
<1>1. 1 \in 1..MaxTries
  BY DEF MaxTries
<1> QED BY <1>1, Zenon DEF Go, Gateways

\* An idle gateway and an idle lookup hold no receipt.
LEMMA IdleFacts ==
  /\ Idle \in Gateways /\ Idle.pc = "idle" /\ Idle.receipt = "none"
  /\ NoLook \in LookupStates /\ NoLook.pc = "idle" /\ NoLook.got = "none"
  /\ NoLook.ver = 0
BY DEF Idle, Gateways, GatewayPc, Receipts, MaxTries, NoLook, LookupStates

\* A retry counts itself and nothing else.
LEMMA RetryFacts ==
  ASSUME gw \in Gateways, gw.try < MaxTries
  PROVE  LET g == [gw EXCEPT !.try = @ + 1]
         IN  g \in Gateways /\ g.pc = gw.pc /\ g.receipt = gw.receipt
<1>1. gw.try + 1 \in 1..MaxTries
  BY DEF Gateways, MaxTries
<1> QED BY <1>1, Zenon DEF Gateways

\* A row just created was neither claimed nor dispatched.
LEMMA NewRowFacts ==
  LET w == [NoRow EXCEPT !.st = "PENDING"]
  IN  /\ w \in Rows /\ w.st = "PENDING" /\ w.ver = 0 /\ ~w.consent /\ ~w.claimed
      /\ ~w.dispatched /\ ~w.op /\ ~w.result /\ w.receipt = "none"
BY DEF NoRow, Rows, Receipts

-----------------------------------------------------------------------------
(* What a transaction leaves behind *)

SysStates ==
  [boot: BOOLEAN, owner: BOOLEAN, late: BOOLEAN, faults: 0..MaxFaults, crashes: 0..MaxCrashes]

\* A failed transaction is counted, and nothing else of the process moves.
LEMMA FaultFacts ==
  ASSUME sys \in SysStates, Fault
  PROVE  sys' \in SysStates /\ sys'.boot = sys.boot /\ sys'.owner = sys.owner
<1>1. sys.faults + 1 \in 0..MaxFaults
  BY InvocationAssumption DEF Fault, SysStates
<1> QED BY <1>1, Zenon DEF Fault, SysStates

\* A transaction of the gateway call: the row is written or stays, and only a
\* written row lets the call go on.
LEMMA OwnedFacts ==
  ASSUME sys \in SysStates, NEW STATE r, NEW STATE next, NEW STATE broken,
         Owned(r, next, broken)
  PROVE  /\ \/ row' = r /\ gw' = next
            \/ row' \in {row, r} /\ gw' \in {broken, Idle}
         /\ sys' \in SysStates /\ sys'.boot = sys.boot /\ sys'.owner = sys.owner
<1>1. CASE Transaction(r, next, broken)
  BY <1>1, FaultFacts DEF Transaction
<1>2. CASE gw' = Idle /\ UNCHANGED <<row, sys>>
  BY <1>2
<1> QED BY <1>1, <1>2 DEF Owned

\* The lookups in progress do not notice a row that moved on.
LEMMA LookStays ==
  ASSUME CallInv, UNCHANGED <<kind, look>>, row' \in Rows,
         row' = row \/ row'.ver = row.ver + 1,
         remote.op \in Final => remote'.op = remote.op
  PROVE  (\A l \in Lookups : LookIsFresh(l))'
<1> SUFFICES ASSUME NEW l \in Lookups
             PROVE  LookIsFresh(l)'
  OBVIOUS
<1>1. LookIsFresh(l) /\ row \in Rows /\ look[l] \in LookupStates
  BY DEF CallInv, TypeOK
<1>2. row.ver \in Nat /\ look[l].ver \in Nat
  BY <1>1, RowFields DEF LookupStates
<1>3. look'[l] = look[l] /\ Write' = Write
  BY DEF Write
<1> QED BY <1>1, <1>2, <1>3 DEF LookIsFresh, Unmoved, Final

\* The state, without the parts that a transaction of the gateway call moves.
LEMMA InvFacts ==
  ASSUME CallInv
  PROVE  /\ row \in Rows /\ row.st \in Statuses /\ gw \in Gateways /\ sys \in SysStates
         /\ row.receipt \in Receipts /\ gw.receipt \in Receipts /\ Valid(row)
         /\ remote.sends \in Nat
BY RowFields DEF CallInv, TypeOK, SysStates, Gateways

\* An action of the gateway call that leaves the outside alone: what is left to
\* show about it.
LEMMA Assemble ==
  ASSUME CallInv, UNCHANGED <<kind, look, remote>>, sys' \in SysStates,
         row' \in Rows, row' = row \/ row'.ver = row.ver + 1, Valid(row)',
         gate' \in {"new", "asked", "open", "used", "closed"}, gw' \in Gateways,
         GateIsPassed', DriveIsMarked', AnswerIsTrue', OutcomeIsTrue', SendIsMarked'
  PROVE  CallInv'
<1>1. (\A l \in Lookups : LookIsFresh(l))'
  BY LookStays
<1>2. EffectWasSent'
  BY DEF CallInv, EffectWasSent, Write
<1>3. TypeOK'
  BY DEF CallInv, TypeOK, SysStates
<1> QED BY <1>1, <1>2, <1>3 DEF CallInv

\* A call that gives up leaves everything as it is.
LEMMA GivesUp ==
  ASSUME CallInv, gw' = Idle, UNCHANGED <<kind, row, gate, look, remote, sys>>
  PROVE  CallInv'
<1> USE IdleFacts, InvFacts DEF Same, CallInv
<1>1. Valid(row)'
  BY DEF Valid, Mcp, Write, Consent
<1>2. GateIsPassed'
  BY DEF GateIsPassed
<1>3. DriveIsMarked'
  BY DEF DriveIsMarked, Write, Mcp, Settled
<1>4. AnswerIsTrue'
  BY DEF AnswerIsTrue, Final, Consent
<1>5. OutcomeIsTrue'
  BY DEF OutcomeIsTrue, FailedIsClean, SuccessIsReal, Consent
<1>6. SendIsMarked'
  BY DEF SendIsMarked, Write
<1> QED BY <1>1, <1>2, <1>3, <1>4, <1>5, <1>6, Assemble DEF TypeOK

\* A row that is claimed has passed the gate and is not dispatched.
LEMMA ClaimKeeps ==
  ASSUME CallInv, Claim
  PROVE  CallInv'
<1>1. CASE ~(row.st = "PENDING")
  BY <1>1, GivesUp DEF Claim, At
<1>2. CASE row.st = "PENDING"
  <2> DEFINE r == [Moved(row, "RUNNING") EXCEPT !.claimed = TRUE]
             d == Moved(row, "DENIED")
             g == [Go(IF Mcp THEN "freeze" ELSE "mark") EXCEPT !.ver = r.ver]
  <2>1. /\ r \in Rows /\ r.st = "RUNNING" /\ r.ver = row.ver + 1 /\ r.consent = row.consent
        /\ r.claimed = TRUE /\ r.dispatched = row.dispatched /\ r.op = row.op
        /\ r.result = row.result /\ r.receipt = row.receipt
    BY InvFacts, ClaimedFacts DEF Statuses, Settled
  <2>2. d \in Rows /\ d.st = "DENIED" /\ d.ver = row.ver + 1 /\ Same(row, d)
    BY InvFacts, MovedFacts DEF Statuses, Settled
  <2>3. /\ g \in Gateways /\ g.receipt = gw.receipt
        /\ g.pc = IF Mcp THEN "freeze" ELSE "mark"
    <3>1. Go("freeze") \in Gateways /\ Go("freeze").pc = "freeze" /\ Go("freeze").receipt = gw.receipt
      BY GoFacts, InvFacts DEF GatewayPc
    <3>2. Go("mark") \in Gateways /\ Go("mark").pc = "mark" /\ Go("mark").receipt = gw.receipt
      BY GoFacts, InvFacts DEF GatewayPc
    <3>3. r.ver \in Nat
      BY <2>1, RowFields
    <3> QED BY <3>1, <3>2, <3>3, Zenon DEF Gateways
  <2> HIDE DEF r, d, g
  <2>4. Owned(d, Idle, Idle) \/ Owned(r, g, Idle)
    BY <1>2 DEF Claim, r, d, g, Fault
  <2>5. /\ row' \in {row, r, d} /\ gw' \in {g, Idle} /\ (gw' = g => row' = r \/ gw' = Idle)
        /\ sys' \in SysStates /\ sys'.boot = sys.boot
    BY <2>4, OwnedFacts, InvFacts
  <2>6. UNCHANGED <<kind, gate, look, remote>> /\ gw.pc = "claim" /\ ~sys.boot
    BY DEF Claim, At, Up
  <2> USE <1>2, <2>1, <2>2, <2>3, <2>5, <2>6, IdleFacts, InvFacts DEF Same, CallInv
  <2>7. Valid(row)'
    BY DEF Valid, Mcp, Write, Consent
  <2>8. GateIsPassed'
    BY DEF GateIsPassed
  <2>9. DriveIsMarked'
    BY DEF DriveIsMarked, Write, Mcp, Settled
  <2>10. AnswerIsTrue'
    BY DEF AnswerIsTrue, Final, Consent
  <2>11. OutcomeIsTrue'
    BY DEF OutcomeIsTrue, FailedIsClean, SuccessIsReal, Consent
  <2>12. SendIsMarked'
    BY DEF SendIsMarked, Write
  <2> QED BY <2>7, <2>8, <2>9, <2>10, <2>11, <2>12, Assemble DEF TypeOK
<1> QED BY <1>1, <1>2

\* The dispatch is marked on a claimed row.
LEMMA MarkKeeps ==
  ASSUME CallInv, Mark
  PROVE  CallInv'
<1>1. CASE ~(row.ver = gw.ver /\ row.st = "RUNNING")
  BY <1>1, GivesUp DEF Mark, At
<1>2. CASE row.ver = gw.ver /\ row.st = "RUNNING"
  <2> DEFINE r == [Moved(row, "RUNNING") EXCEPT !.dispatched = TRUE]
             g == Go("call")
  <2>1. /\ r \in Rows /\ r.st = "RUNNING" /\ r.ver = row.ver + 1 /\ r.consent = row.consent
        /\ r.claimed = row.claimed /\ r.dispatched = TRUE /\ r.op = row.op
        /\ r.result = row.result /\ r.receipt = row.receipt
    BY InvFacts, MarkedFacts DEF Statuses, Settled
  <2>2. g \in Gateways /\ g.pc = "call" /\ g.receipt = gw.receipt
    BY GoFacts, InvFacts DEF GatewayPc
  <2> HIDE DEF r, g
  <2>3. Owned(r, g, Idle)
    BY <1>2 DEF Mark, r, g, Fault
  <2>4. /\ row' \in {row, r} /\ gw' \in {g, Idle} /\ (gw' = g => row' = r \/ gw' = Idle)
        /\ sys' \in SysStates /\ sys'.boot = sys.boot
    BY <2>3, OwnedFacts, InvFacts
  <2>5. UNCHANGED <<kind, gate, look, remote>> /\ gw.pc = "mark" /\ ~sys.boot
    BY DEF Mark, At, Up
  <2> USE <1>2, <2>1, <2>2, <2>4, <2>5, IdleFacts, InvFacts DEF Same, CallInv
  <2>6. Valid(row)'
    BY DEF Valid, Mcp, Write, Consent
  <2>7. GateIsPassed'
    BY DEF GateIsPassed
  <2>8. DriveIsMarked'
    BY DEF DriveIsMarked, Write, Mcp, Settled, SendIsMarked
  <2>9. AnswerIsTrue'
    BY DEF AnswerIsTrue, Final, Consent
  <2>10. OutcomeIsTrue'
    BY DEF OutcomeIsTrue, FailedIsClean, SuccessIsReal, Consent
  <2>11. SendIsMarked'
    BY DEF SendIsMarked, Write
  <2> QED BY <2>6, <2>7, <2>8, <2>9, <2>10, <2>11, Assemble DEF TypeOK
<1> QED BY <1>1, <1>2

\* The identity is frozen before the dispatch, or nothing was sent.
LEMMA FreezeKeeps ==
  ASSUME CallInv, Freeze
  PROVE  CallInv'
<1> DEFINE f == Go("fail")
<1>1. f \in Gateways /\ f.pc = "fail" /\ f.receipt = gw.receipt
  BY GoFacts, InvFacts DEF GatewayPc
<1>2. CASE gw' = f /\ UNCHANGED <<row, sys>>
  <2> HIDE DEF f
  <2>1. UNCHANGED <<kind, gate, look, remote>> /\ gw.pc = "freeze" /\ ~sys.boot
    BY DEF Freeze, At, Up
  <2> USE <1>1, <1>2, <2>1, IdleFacts, InvFacts DEF Same, CallInv
  <2>2. Valid(row)'
    BY DEF Valid, Mcp, Write, Consent
  <2>3. GateIsPassed'
    BY DEF GateIsPassed
  <2>4. DriveIsMarked'
    BY DEF DriveIsMarked, Write, Mcp, Settled
  <2>5. AnswerIsTrue'
    BY DEF AnswerIsTrue, Final, Consent, DriveIsMarked, SendIsMarked, EffectWasSent
  <2>6. OutcomeIsTrue'
    BY DEF OutcomeIsTrue, FailedIsClean, SuccessIsReal, Consent
  <2>7. SendIsMarked'
    BY DEF SendIsMarked, Write
  <2> QED BY <2>2, <2>3, <2>4, <2>5, <2>6, <2>7, Assemble DEF TypeOK
<1>3. CASE ~(row.st = "RUNNING" /\ ~row.dispatched) /\ gw' = Idle /\ UNCHANGED <<row, sys>>
  BY <1>3, GivesUp DEF Freeze
<1>4. CASE /\ row.st = "RUNNING" /\ ~row.dispatched
           /\ LET r == [Moved(row, "RUNNING") EXCEPT !.op = Identity]
              IN  Owned(r, [Go("mark") EXCEPT !.ver = r.ver], Idle)
  <2> DEFINE r == [Moved(row, "RUNNING") EXCEPT !.op = Identity]
             g == [Go("mark") EXCEPT !.ver = r.ver]
  <2>1. Identity \in BOOLEAN
    BY DEF Identity, Write
  <2>2. /\ r \in Rows /\ r.st = "RUNNING" /\ r.ver = row.ver + 1 /\ r.consent = row.consent
        /\ r.claimed = row.claimed /\ r.dispatched = row.dispatched /\ r.op = Identity
        /\ r.result = row.result /\ r.receipt = row.receipt
    BY InvFacts, <2>1, FrozenFacts DEF Statuses, Settled
  <2>3. /\ g \in Gateways /\ g.receipt = gw.receipt /\ g.pc = "mark"
    <3>1. Go("mark") \in Gateways /\ Go("mark").pc = "mark" /\ Go("mark").receipt = gw.receipt
      BY GoFacts, InvFacts DEF GatewayPc
    <3>2. r.ver \in Nat
      BY <2>2, RowFields
    <3> QED BY <3>1, <3>2, Zenon DEF Gateways
  <2> HIDE DEF r, g
  <2>4. Owned(r, g, Idle)
    BY <1>4 DEF r, g
  <2>5. /\ row' \in {row, r} /\ gw' \in {g, Idle} /\ (gw' = g => row' = r \/ gw' = Idle)
        /\ sys' \in SysStates /\ sys'.boot = sys.boot
    BY <2>4, OwnedFacts, InvFacts
  <2>6. UNCHANGED <<kind, gate, look, remote>> /\ gw.pc = "freeze" /\ ~sys.boot
    BY DEF Freeze, At, Up
  <2> USE <1>4, <2>2, <2>3, <2>5, <2>6, IdleFacts, InvFacts DEF Same, CallInv
  <2>7. Valid(row)'
    BY DEF Valid, Mcp, Write, Consent, Identity
  <2>8. GateIsPassed'
    BY DEF GateIsPassed
  <2>9. DriveIsMarked'
    BY DEF DriveIsMarked, Write, Mcp, Settled, Identity
  <2>10. AnswerIsTrue'
    BY DEF AnswerIsTrue, Final, Consent
  <2>11. OutcomeIsTrue'
    BY DEF OutcomeIsTrue, FailedIsClean, SuccessIsReal, Consent
  <2>12. SendIsMarked'
    BY DEF SendIsMarked, Write, Identity
  <2> QED BY <2>7, <2>8, <2>9, <2>10, <2>11, <2>12, Assemble DEF TypeOK
<1> QED
  BY <1>2, <1>3, <1>4 DEF Freeze

\* A call is created for a gate nothing has passed.
LEMMA CommitKeeps ==
  ASSUME CallInv, Commit
  PROVE  CallInv'
<1>1. CASE row.st \notin {"RUNNING", "OUTCOME_UNKNOWN"}
  BY <1>1, GivesUp DEF Commit, At
<1>2. CASE row.st \in {"RUNNING", "OUTCOME_UNKNOWN"}
  <2> DEFINE r == Succeeded(row)
             b == IF gw.try < MaxTries THEN [gw EXCEPT !.try = @ + 1]
                  ELSE IF Mcp THEN Go("unknown") ELSE Idle
  <2>1. /\ r \in Rows /\ r.st = "SUCCEEDED" /\ r.ver = row.ver + 1 /\ r.consent = row.consent
        /\ r.claimed = row.claimed /\ r.dispatched = row.dispatched /\ r.op = row.op
        /\ r.result = TRUE /\ r.receipt = row.receipt
    BY InvFacts, SucceededFacts DEF Statuses, Settled
  <2>2. gw.pc = "commit" /\ UNCHANGED <<kind, gate, look, remote>> /\ ~sys.boot
    BY DEF Commit, At, Up
  <2>3. /\ b \in Gateways /\ b.pc \in {"commit", "unknown", "idle"}
        /\ b.receipt \in {"none", gw.receipt}
    <3>1. CASE gw.try < MaxTries
      BY <3>1, <2>2, RetryFacts, InvFacts
    <3>2. CASE ~(gw.try < MaxTries)
      BY <3>2, GoFacts, IdleFacts, InvFacts DEF GatewayPc
    <3> QED BY <3>1, <3>2
  <2> HIDE DEF r, b
  <2>4. Owned(r, Idle, b)
    BY <1>2 DEF Commit, r, b
  <2>5. /\ row' \in {row, r} /\ gw' \in {b, Idle}
        /\ sys' \in SysStates /\ sys'.boot = sys.boot
    BY <2>4, OwnedFacts, InvFacts
  <2> USE <1>2, <2>1, <2>2, <2>3, <2>5, IdleFacts, InvFacts DEF Same, CallInv
  <2>6. Valid(row)'
    BY DEF Valid, Mcp, Write, Consent
  <2>7. GateIsPassed'
    BY DEF GateIsPassed
  <2>8. DriveIsMarked'
    BY DEF DriveIsMarked, Write, Mcp, Settled
  <2>9. AnswerIsTrue'
    BY DEF AnswerIsTrue, Final, Consent
  <2>10. OutcomeIsTrue'
    BY DEF OutcomeIsTrue, FailedIsClean, SuccessIsReal, Consent, AnswerIsTrue
  <2>11. SendIsMarked'
    BY DEF SendIsMarked, Write
  <2> QED BY <2>6, <2>7, <2>8, <2>9, <2>10, <2>11, Assemble DEF TypeOK
<1> QED BY <1>1, <1>2

\* What is kept of a reply: its receipt, or what was known.
LEMMA KeptFacts ==
  ASSUME CallInv, row.st = "RUNNING"
  PROVE  Kept(gw.receipt, row) \in Receipts /\ Kept(gw.receipt, row) = gw.receipt
<1>1. row.receipt = "none"
  BY DEF CallInv, DriveIsMarked, Settled
<1> QED BY <1>1, InvFacts DEF Kept

\* A failure is reported of a call that has no effect and none on its way.
LEMMA FailKeeps ==
  ASSUME CallInv, Fail
  PROVE  CallInv'
<1> DEFINE x == Kept(gw.receipt, row)
           r == [Moved(row, "FAILED") EXCEPT !.receipt = x]
<1>1. CASE row.st # "RUNNING"
  BY <1>1, GivesUp DEF Fail, At
<1>2. CASE ~(row.st # "RUNNING")
  <2>1. x \in Receipts /\ x = gw.receipt
    BY <1>2, KeptFacts
  <2>2. /\ r \in Rows /\ r.st = "FAILED" /\ r.ver = row.ver + 1 /\ r.consent = row.consent
        /\ r.claimed = row.claimed /\ r.dispatched = row.dispatched /\ r.op = row.op
        /\ r.result = row.result /\ r.receipt = x
    BY InvFacts, <2>1, ReceiptFacts DEF Statuses, Settled
  <2>3. row.st = "RUNNING"
    BY <1>2
  <2>4. Owned(r, Idle, Idle)
    BY <1>2 DEF Fail
  <2> HIDE DEF x, r
  <2>5. /\ row' \in {row, r} /\ gw' = Idle
        /\ sys' \in SysStates /\ sys'.boot = sys.boot
    BY <2>4, OwnedFacts, InvFacts
  <2>6. UNCHANGED <<kind, gate, look, remote>> /\ gw.pc = "fail" /\ ~sys.boot
    BY DEF Fail, At, Up
  <2> USE <2>1, <2>2, <2>3, <2>5, <2>6, IdleFacts, InvFacts DEF Same, CallInv
  <2>7. Valid(row)'
    BY DEF Valid, Mcp, Write, Consent, DriveIsMarked
  <2>8. GateIsPassed'
    BY DEF GateIsPassed
  <2>9. DriveIsMarked'
    BY DEF DriveIsMarked, Write, Mcp, Settled
  <2>10. AnswerIsTrue'
    BY DEF AnswerIsTrue, Final, Consent
  <2>11. OutcomeIsTrue'
    BY DEF OutcomeIsTrue, FailedIsClean, SuccessIsReal, Consent, AnswerIsTrue
  <2>12. SendIsMarked'
    BY DEF SendIsMarked, Write
  <2> QED BY <2>7, <2>8, <2>9, <2>10, <2>11, <2>12, Assemble DEF TypeOK
<1> QED BY <1>1, <1>2

\* Everything else leaves the outcome open.
LEMMA UnknownKeeps ==
  ASSUME CallInv, Unknown
  PROVE  CallInv'
<1> DEFINE x == Kept(gw.receipt, row)
           r == [Moved(row, "OUTCOME_UNKNOWN") EXCEPT !.receipt = x]
<1>1. CASE row.st # "RUNNING" \/ ~Valid(r)
  BY <1>1, GivesUp DEF Unknown, At
<1>2. CASE ~(row.st # "RUNNING" \/ ~Valid(r))
  <2>1. x \in Receipts /\ x = gw.receipt
    BY <1>2, KeptFacts
  <2>2. /\ r \in Rows /\ r.st = "OUTCOME_UNKNOWN" /\ r.ver = row.ver + 1 /\ r.consent = row.consent
        /\ r.claimed = row.claimed /\ r.dispatched = row.dispatched /\ r.op = row.op
        /\ r.result = row.result /\ r.receipt = x
    BY InvFacts, <2>1, ReceiptFacts DEF Statuses, Settled
  <2>3. row.st = "RUNNING" /\ (r.st = "OUTCOME_UNKNOWN" => kind # "convert")
    BY <1>2 DEF Valid
  <2>4. Owned(r, Idle, Idle)
    BY <1>2 DEF Unknown
  <2> HIDE DEF x, r
  <2>5. /\ row' \in {row, r} /\ gw' = Idle
        /\ sys' \in SysStates /\ sys'.boot = sys.boot
    BY <2>4, OwnedFacts, InvFacts
  <2>6. UNCHANGED <<kind, gate, look, remote>> /\ gw.pc = "unknown" /\ ~sys.boot
    BY DEF Unknown, At, Up
  <2> USE <2>1, <2>2, <2>3, <2>5, <2>6, IdleFacts, InvFacts DEF Same, CallInv
  <2>7. Valid(row)'
    BY DEF Valid, Mcp, Write, Consent, DriveIsMarked
  <2>8. GateIsPassed'
    BY DEF GateIsPassed
  <2>9. DriveIsMarked'
    BY DEF DriveIsMarked, Write, Mcp, Settled
  <2>10. AnswerIsTrue'
    BY DEF AnswerIsTrue, Final, Consent
  <2>11. OutcomeIsTrue'
    BY DEF OutcomeIsTrue, FailedIsClean, SuccessIsReal, Consent
  <2>12. SendIsMarked'
    BY DEF SendIsMarked, Write
  <2> QED BY <2>7, <2>8, <2>9, <2>10, <2>11, <2>12, Assemble DEF TypeOK
<1> QED BY <1>1, <1>2

-----------------------------------------------------------------------------
(* Creation, consent and the gate *)

\* The Invocation of a call is created, or found as it is.
LEMMA CreateKeeps ==
  ASSUME CallInv, Create
  PROVE  CallInv'
<1>1. gw.pc = "idle" /\ gate = "new" /\ ~sys.boot /\ UNCHANGED <<kind, look, remote>>
  BY DEF Create, At, Up
<1>2. \A st : Opened(st) \in {"asked", "closed", "open"}
  BY DEF Opened
<1>3. CASE row.st # "none"
  <2>1. gate' \in {"asked", "closed", "open"} /\ UNCHANGED <<row, gw, sys>>
    BY <1>2, <1>3 DEF Create
  <2> USE <1>1, <2>1, IdleFacts, InvFacts DEF Same, CallInv
  <2>2. Valid(row)'
    BY DEF Valid, Mcp, Write, Consent
  <2>3. GateIsPassed'
    BY DEF GateIsPassed
  <2>4. DriveIsMarked'
    BY DEF DriveIsMarked, Write, Mcp, Settled
  <2>5. AnswerIsTrue'
    BY DEF AnswerIsTrue, Final, Consent
  <2>6. OutcomeIsTrue'
    BY DEF OutcomeIsTrue, FailedIsClean, SuccessIsReal, Consent
  <2>7. SendIsMarked'
    BY DEF SendIsMarked, Write
  <2> QED BY <2>2, <2>3, <2>4, <2>5, <2>6, <2>7, Assemble DEF TypeOK
<1>4. CASE row.st = "none"
  <2> DEFINE r == [NoRow EXCEPT !.st = "PENDING"]
             g == Go("authorize")
  <2>1. /\ r \in Rows /\ r.st = "PENDING" /\ r.ver = 0 /\ ~r.consent /\ ~r.claimed
        /\ ~r.dispatched /\ ~r.op /\ ~r.result /\ r.receipt = "none"
    BY NewRowFacts
  <2>2. g \in Gateways /\ g.pc = "authorize" /\ g.receipt = gw.receipt
    BY GoFacts, InvFacts DEF GatewayPc
  <2>3. row = NoRow /\ row.ver = 0 /\ ~row.consent /\ ~row.dispatched /\ row.receipt = "none"
    BY <1>4 DEF CallInv, GateIsPassed, NoRow
  <2> HIDE DEF r, g
  <2>4. /\ row' \in {row, r}
        /\ \/ gw' = g /\ gate' = gate
           \/ gw' = gw /\ gate' \in {"new", "asked", "closed", "open"}
        /\ sys' \in SysStates /\ sys'.boot = sys.boot
    BY <1>1, <1>2, <1>4, FaultFacts, InvFacts DEF Create, r, g
  <2>5. remote.sends = 0
    BY <1>1, InvFacts DEF CallInv, GateIsPassed, SendIsMarked
  <2> USE <1>1, <2>1, <2>2, <2>3, <2>4, <2>5, IdleFacts, InvFacts DEF Same, CallInv
  <2>6. Valid(row)'
    BY DEF Valid, Mcp, Write, Consent
  <2>7. GateIsPassed'
    BY DEF GateIsPassed
  <2>8. DriveIsMarked'
    BY DEF DriveIsMarked, Write, Mcp, Settled, GateIsPassed
  <2>9. AnswerIsTrue'
    BY DEF AnswerIsTrue, Final, Consent
  <2>10. OutcomeIsTrue'
    BY DEF OutcomeIsTrue, FailedIsClean, SuccessIsReal, Consent
  <2>11. SendIsMarked'
    BY DEF SendIsMarked, Write
  <2>12. (\A l \in Lookups : LookIsFresh(l))'
    <3> SUFFICES ASSUME NEW l \in Lookups
                 PROVE  LookIsFresh(l)'
      OBVIOUS
    <3>1. LookIsFresh(l) /\ look[l] \in LookupStates
      BY DEF TypeOK
    <3>2. look'[l] = look[l] /\ look[l].ver \in Nat
      BY <3>1 DEF LookupStates
    <3> QED BY <3>1, <3>2 DEF LookIsFresh, Unmoved, Write, Final
  <2>13. EffectWasSent'
    BY DEF EffectWasSent, Write
  <2>14. TypeOK'
    BY <2>6 DEF TypeOK, SysStates
  <2> QED BY <2>6, <2>7, <2>8, <2>9, <2>10, <2>11, <2>12, <2>13, <2>14
<1> QED BY <1>3, <1>4

\* The second transaction: consent is asked for, or the call is denied.
LEMMA AuthorizeKeeps ==
  ASSUME CallInv, Authorize
  PROVE  CallInv'
<1>1. gw.pc = "authorize" /\ ~sys.boot /\ UNCHANGED <<kind, look, remote>>
  BY DEF Authorize, At, Up
<1>2. \A st : Opened(st) \in {"asked", "closed", "open"}
  BY DEF Opened
<1>3. CASE row.st # "PENDING"
  <2>1. gate' \in {"asked", "closed", "open"} /\ gw' = Idle /\ UNCHANGED <<row, sys>>
    BY <1>2, <1>3 DEF Authorize
  <2> USE <1>1, <2>1, IdleFacts, InvFacts DEF Same, CallInv
  <2>2. Valid(row)'
    BY DEF Valid, Mcp, Write, Consent, GateIsPassed
  <2>3. GateIsPassed'
    BY DEF GateIsPassed
  <2>4. DriveIsMarked'
    BY DEF DriveIsMarked, Write, Mcp, Settled, GateIsPassed
  <2>5. AnswerIsTrue'
    BY DEF AnswerIsTrue, Final, Consent
  <2>6. OutcomeIsTrue'
    BY DEF OutcomeIsTrue, FailedIsClean, SuccessIsReal, Consent
  <2>7. SendIsMarked'
    BY DEF SendIsMarked, Write
  <2> QED BY <2>2, <2>3, <2>4, <2>5, <2>6, <2>7, Assemble DEF TypeOK
<1>4. CASE row.st = "PENDING"
  <2>1. PICK st \in {"DENIED", IF Consent THEN "PENDING_CONFIRMATION" ELSE "PENDING"} :
          /\ Owned(Moved(row, st), Idle, Idle)
          /\ gate' = IF sys' = sys /\ row' # row THEN Opened(st) ELSE gate
    BY <1>4 DEF Authorize
  <2> DEFINE r == Moved(row, st)
  <2>2. st \in Statuses
    BY DEF Statuses, Settled
  <2>3. r \in Rows /\ r.st = st /\ r.ver = row.ver + 1 /\ Same(row, r)
    BY <2>2, InvFacts, MovedFacts
  <2>4. /\ row' \in {row, r} /\ gw' = Idle
        /\ sys' \in SysStates /\ sys'.boot = sys.boot
    BY <2>1, OwnedFacts, InvFacts
  <2>5. gate' \in {"new", "asked", "open", "closed"}
    BY <1>1, <1>2, <2>1 DEF CallInv, GateIsPassed
  <2> HIDE DEF r
  <2> USE <1>1, <1>4, <2>3, <2>4, <2>5, IdleFacts, InvFacts DEF Same, CallInv
  <2>6. Valid(row)'
    BY DEF Valid, Mcp, Write, Consent, GateIsPassed
  <2>7. GateIsPassed'
    BY DEF GateIsPassed
  <2>8. DriveIsMarked'
    BY DEF DriveIsMarked, Write, Mcp, Settled, GateIsPassed
  <2>9. AnswerIsTrue'
    BY DEF AnswerIsTrue, Final, Consent
  <2>10. OutcomeIsTrue'
    BY DEF OutcomeIsTrue, FailedIsClean, SuccessIsReal, Consent
  <2>11. SendIsMarked'
    BY DEF SendIsMarked, Write
  <2> QED BY <2>6, <2>7, <2>8, <2>9, <2>10, <2>11, Assemble DEF TypeOK
<1> QED BY <1>3, <1>4

\* The user decides before the gate opens.
LEMMA DecideKeeps ==
  ASSUME CallInv, NEW approved \in BOOLEAN, Decide(approved)
  PROVE  CallInv'
<1>1. /\ ~sys.boot /\ gate = "asked" /\ UNCHANGED <<kind, gw, look, remote>>
      /\ gw.pc = "idle"
  BY InvFacts DEF Decide, Up, CallInv, GateIsPassed
<1>2. CASE row.st # "PENDING_CONFIRMATION"
  <2>1. gate' \in {"asked", "closed", "open"} /\ UNCHANGED <<row, sys>>
    BY <1>1, <1>2 DEF Decide
  <2> USE <1>1, <2>1, IdleFacts, InvFacts DEF Same, CallInv
  <2>2. Valid(row)'
    BY DEF Valid, Mcp, Write, Consent
  <2>3. GateIsPassed'
    BY DEF GateIsPassed
  <2>4. DriveIsMarked'
    BY DEF DriveIsMarked, Write, Mcp, Settled
  <2>5. AnswerIsTrue'
    BY DEF AnswerIsTrue, Final, Consent
  <2>6. OutcomeIsTrue'
    BY DEF OutcomeIsTrue, FailedIsClean, SuccessIsReal, Consent
  <2>7. SendIsMarked'
    BY DEF SendIsMarked, Write
  <2> QED BY <2>2, <2>3, <2>4, <2>5, <2>6, <2>7, Assemble DEF TypeOK
<1>3. CASE row.st = "PENDING_CONFIRMATION"
  <2> DEFINE e == Moved(row, "EXPIRED")
             a == [Moved(row, "PENDING") EXCEPT !.consent = TRUE]
             n == Moved(row, "REJECTED")
             r == IF sys.late THEN e ELSE IF approved THEN a ELSE n
  <2>1. e \in Rows /\ e.st = "EXPIRED" /\ e.ver = row.ver + 1 /\ Same(row, e)
    BY InvFacts, MovedFacts DEF Statuses, Settled
  <2>2. /\ a \in Rows /\ a.st = "PENDING" /\ a.ver = row.ver + 1 /\ a.consent = TRUE
        /\ a.claimed = row.claimed /\ a.dispatched = row.dispatched /\ a.op = row.op
        /\ a.result = row.result /\ a.receipt = row.receipt
    BY InvFacts, ApprovedFacts DEF Statuses, Settled
  <2>3. n \in Rows /\ n.st = "REJECTED" /\ n.ver = row.ver + 1 /\ Same(row, n)
    BY InvFacts, MovedFacts DEF Statuses, Settled
  <2>4. /\ row' \in {row, r} /\ gate' \in {"asked", "closed", "open"}
        /\ sys' \in SysStates /\ sys'.boot = sys.boot
    BY <1>1, <1>3, FaultFacts, InvFacts DEF Decide
  <2> HIDE DEF e, a, n
  <2>5. row' \in {row, e, a, n}
    BY <2>4
  <2> HIDE DEF r
  <2> USE <1>1, <1>3, <2>1, <2>2, <2>3, <2>4, <2>5, IdleFacts, InvFacts DEF Same, CallInv
  <2>6. Valid(row)'
    BY DEF Valid, Mcp, Write, Consent
  <2>7. GateIsPassed'
    BY DEF GateIsPassed
  <2>8. DriveIsMarked'
    BY DEF DriveIsMarked, Write, Mcp, Settled
  <2>9. AnswerIsTrue'
    BY DEF AnswerIsTrue, Final, Consent
  <2>10. OutcomeIsTrue'
    BY DEF OutcomeIsTrue, FailedIsClean, SuccessIsReal, Consent
  <2>11. SendIsMarked'
    BY DEF SendIsMarked, Write
  <2> QED BY <2>6, <2>7, <2>8, <2>9, <2>10, <2>11, Assemble DEF TypeOK
<1> QED BY <1>2, <1>3

\* The gate opens once: a call that is verified goes on, or fails unsent.
LEMMA ExecuteKeeps ==
  ASSUME CallInv, Execute
  PROVE  CallInv'
<1> DEFINE g == Go("claim")
           r == Moved(row, "FAILED")
<1>1. /\ gw.pc = "idle" /\ ~sys.boot /\ UNCHANGED <<kind, look, remote>>
      /\ gate = "open" /\ gate' = "used"
  BY DEF Execute, At, Up
<1>2. g \in Gateways /\ g.pc = "claim" /\ g.receipt = gw.receipt
  BY GoFacts, InvFacts DEF GatewayPc
<1>3. r \in Rows /\ r.st = "FAILED" /\ r.ver = row.ver + 1 /\ Same(row, r)
  BY InvFacts, MovedFacts DEF Statuses, Settled
<1>4. remote.sends = 0 /\ ~row.dispatched
  BY <1>1, InvFacts DEF CallInv, GateIsPassed, SendIsMarked
<1> HIDE DEF g, r
<1>5. /\ \/ gw' = g /\ row' = row
         \/ gw' = Idle /\ row' \in {row, r} /\ row.st = "PENDING"
      /\ sys' \in SysStates /\ sys'.boot = sys.boot
  BY FaultFacts, InvFacts DEF Execute, Transaction, g, r
<1> USE <1>1, <1>2, <1>3, <1>4, <1>5, IdleFacts, InvFacts DEF Same, CallInv
<1>6. Valid(row)'
  BY DEF Valid, Mcp, Write, Consent
<1>7. GateIsPassed'
  BY DEF GateIsPassed
<1>8. DriveIsMarked'
  BY DEF DriveIsMarked, Write, Mcp, Settled
<1>9. AnswerIsTrue'
  BY DEF AnswerIsTrue, Final, Consent
<1>10. OutcomeIsTrue'
  BY DEF OutcomeIsTrue, FailedIsClean, SuccessIsReal, Consent, EffectWasSent
<1>11. SendIsMarked'
  BY DEF SendIsMarked, Write
<1> QED BY <1>6, <1>7, <1>8, <1>9, <1>10, <1>11, Assemble DEF TypeOK

-----------------------------------------------------------------------------
(* The call and its outside *)

Remotes ==
  [op: {"none"} \cup Found, wire: {"idle", "sent", "rejected"}, sends: 0..MaxSends]

\* An effect at the service leaves the wire alone.
LEMMA OpFacts ==
  ASSUME NEW q \in Remotes, NEW o \in {"none"} \cup Found
  PROVE  LET p == [q EXCEPT !.op = o]
         IN  p \in Remotes /\ p.op = o /\ p.wire = q.wire /\ p.sends = q.sends
BY Zenon DEF Remotes

\* A change of the wire leaves the effect alone.
LEMMA WireFacts ==
  ASSUME NEW q \in Remotes, NEW w \in {"idle", "sent", "rejected"}
  PROVE  LET p == [q EXCEPT !.wire = w]
         IN  p \in Remotes /\ p.wire = w /\ p.op = q.op /\ p.sends = q.sends
BY Zenon DEF Remotes

\* A send counts itself and nothing else.
LEMMA SentFacts ==
  ASSUME NEW q \in Remotes, q.sends < MaxSends
  PROVE  /\ Sent(q) \in Remotes /\ Sent(q).op = q.op /\ Sent(q).wire = q.wire
         /\ Sent(q).sends = q.sends + 1
<1>1. q.sends + 1 \in 0..MaxSends
  BY DEF Remotes, MaxSends
<1> QED BY <1>1, Zenon DEF Sent, Remotes

\* What an action does that leaves the row alone: what is left to show.
LEMMA Outside ==
  ASSUME CallInv, UNCHANGED <<kind, row, gate, look, sys>>, gw' \in Gateways,
         remote' \in Remotes,
         remote.op \in Final => remote'.op = remote.op,
         GateIsPassed', DriveIsMarked', EffectWasSent', AnswerIsTrue', OutcomeIsTrue',
         SendIsMarked'
  PROVE  CallInv'
<1>1. (\A l \in Lookups : LookIsFresh(l))'
  BY LookStays, InvFacts
<1>2. TypeOK'
  BY DEF CallInv, TypeOK, Valid, Mcp, Consent, Write, Remotes
<1> QED BY <1>1, <1>2 DEF CallInv

\* The outside, field by field.
LEMMA RemoteFacts ==
  ASSUME CallInv
  PROVE  /\ remote \in Remotes /\ remote.op \in {"none"} \cup Found
         /\ remote.wire \in {"idle", "sent", "rejected"} /\ remote.sends \in 0..MaxSends
         /\ Sent(remote).op = remote.op /\ Sent(remote).wire = remote.wire
         /\ Sent(remote).sends = remote.sends + 1
BY Zenon DEF CallInv, TypeOK, Sent, Remotes

\* A local effect comes about once, and only after the mark.
LEMMA CallLocalKeeps ==
  ASSUME CallInv, CallLocal
  PROVE  CallInv'
<1>1. /\ gw.pc = "call" /\ ~Mcp /\ ~sys.boot /\ UNCHANGED <<kind, row, gate, look, sys>>
  BY DEF CallLocal, At, Up
<1>2. PICK op \in {"none", "done"}, pc \in {"commit", "fail", "unknown"} :
        /\ pc = "commit" => op = "done"
        /\ pc = "fail" => kind = "convert"
        /\ remote' = [Sent(remote) EXCEPT !.op = op]
        /\ gw' = Go(pc)
  BY DEF CallLocal
<1>3. gw' \in Gateways /\ gw'.pc = pc /\ gw'.receipt = gw.receipt
  BY <1>2, GoFacts, InvFacts DEF GatewayPc
<1>4. /\ remote.sends = 0 /\ remote.wire = "idle" /\ remote.op = "none"
      /\ row.dispatched /\ row.st = "RUNNING" /\ kind \notin {"train", "predict", "read"}
  BY <1>1 DEF CallInv, DriveIsMarked, EffectWasSent, Mcp
<1>5. /\ remote'.op = op /\ remote'.wire = "idle" /\ remote'.sends = 1
      /\ remote' \in Remotes
  <2>1. /\ Sent(remote) \in Remotes /\ Sent(remote).op = "none"
        /\ Sent(remote).wire = "idle" /\ Sent(remote).sends = 1
    BY <1>4, RemoteFacts, SentFacts DEF MaxSends
  <2>2. op \in {"none"} \cup Found
    BY DEF Found
  <2> QED BY <1>2, <2>1, <2>2, OpFacts, Zenon
<1> USE <1>1, <1>2, <1>3, <1>4, <1>5, InvFacts, RemoteFacts DEF CallInv
<1>6. GateIsPassed'
  BY DEF GateIsPassed
<1>7. DriveIsMarked'
  BY DEF DriveIsMarked, Write
<1>8. EffectWasSent'
  BY DEF EffectWasSent, Write
<1>9. AnswerIsTrue'
  BY DEF AnswerIsTrue, Final, Consent
<1>10. OutcomeIsTrue'
  BY DEF OutcomeIsTrue, FailedIsClean, SuccessIsReal, Consent, Valid
<1>11. SendIsMarked'
  BY DEF SendIsMarked, Write
<1> QED BY <1>5, <1>6, <1>7, <1>8, <1>9, <1>10, <1>11, Outside DEF Final, Found, MaxSends

\* A request leaves once, or was never sent.
LEMMA CallRemoteKeeps ==
  ASSUME CallInv, CallRemote
  PROVE  CallInv'
<1>1. /\ gw.pc = "call" /\ Write /\ ~sys.boot /\ UNCHANGED <<kind, row, gate, look, sys>>
  BY DEF CallRemote, At, Up
<1>2. /\ remote.sends = 0 /\ remote.wire = "idle" /\ remote.op = "none"
      /\ row.dispatched /\ row.st = "RUNNING" /\ kind # "read"
  BY <1>1 DEF CallInv, DriveIsMarked, EffectWasSent, Write
<1>3. \A pc \in {"fail", "reply"} :
        Go(pc) \in Gateways /\ Go(pc).pc = pc /\ Go(pc).receipt = gw.receipt
  BY GoFacts, InvFacts DEF GatewayPc
<1>4. \/ gw' = Go("fail") /\ remote' = remote
      \/ gw' = Go("reply") /\ remote' = [Sent(remote) EXCEPT !.wire = "sent"]
  BY DEF CallRemote
<1>5. CASE gw' = Go("fail") /\ remote' = remote
  <2>1. gw' \in Gateways /\ gw'.pc = "fail" /\ gw'.receipt = gw.receipt
    BY <1>3, <1>5
  <2>2. remote' \in Remotes
    BY <1>5, RemoteFacts
  <2> USE <1>1, <1>2, <1>5, <2>1, InvFacts, RemoteFacts DEF CallInv
  <2>3. GateIsPassed'
    BY DEF GateIsPassed
  <2>4. DriveIsMarked'
    BY DEF DriveIsMarked, Write
  <2>5. EffectWasSent'
    BY DEF EffectWasSent, Write
  <2>6. AnswerIsTrue'
    BY DEF AnswerIsTrue, Final, Consent
  <2>7. OutcomeIsTrue'
    BY DEF OutcomeIsTrue, FailedIsClean, SuccessIsReal, Consent
  <2>8. SendIsMarked'
    BY DEF SendIsMarked, Write
  <2> QED BY <2>2, <2>3, <2>4, <2>5, <2>6, <2>7, <2>8, Outside DEF Final, Found, MaxSends
<1>6. CASE gw' = Go("reply") /\ remote' = [Sent(remote) EXCEPT !.wire = "sent"]
  <2>1. gw' \in Gateways /\ gw'.pc = "reply" /\ gw'.receipt = gw.receipt
    BY <1>3, <1>6
  <2>2. /\ remote'.op = "none" /\ remote'.wire = "sent" /\ remote'.sends = 1
        /\ remote' \in Remotes
    <3>1. /\ Sent(remote) \in Remotes /\ Sent(remote).op = "none"
          /\ Sent(remote).wire = "idle" /\ Sent(remote).sends = 1
      BY <1>2, RemoteFacts, SentFacts DEF MaxSends
    <3>2. "sent" \in {"idle", "sent", "rejected"}
      OBVIOUS
    <3> QED BY <1>6, <3>1, <3>2, WireFacts, Zenon
  <2> USE <1>1, <1>2, <2>1, <2>2, InvFacts, RemoteFacts DEF CallInv
  <2>3. GateIsPassed'
    BY DEF GateIsPassed
  <2>4. DriveIsMarked'
    BY DEF DriveIsMarked, Write
  <2>5. EffectWasSent'
    BY DEF EffectWasSent, Write
  <2>6. AnswerIsTrue'
    BY DEF AnswerIsTrue, Final, Consent
  <2>7. OutcomeIsTrue'
    BY DEF OutcomeIsTrue, FailedIsClean, SuccessIsReal, Consent, Valid
  <2>8. SendIsMarked'
    BY DEF SendIsMarked, Write, DriveIsMarked
  <2> QED BY <2>2, <2>3, <2>4, <2>5, <2>6, <2>7, <2>8, Outside DEF Final, Found, MaxSends
<1> QED BY <1>4, <1>5, <1>6

\* A safe read leaves at most three times, within one dispatch.
LEMMA CallReadKeeps ==
  ASSUME CallInv, CallRead
  PROVE  CallInv'
<1>1. /\ gw.pc = "call" /\ kind = "read" /\ ~sys.boot /\ UNCHANGED <<kind, row, gate, look, sys>>
      /\ row.dispatched
  BY DEF CallRead, At, Up, CallInv, DriveIsMarked
<1>2. \A pc \in {"fail", "commit", "unknown"} :
        Go(pc) \in Gateways /\ Go(pc).pc = pc /\ Go(pc).receipt = gw.receipt
  BY GoFacts, InvFacts DEF GatewayPc
<1>3. /\ gw' \in Gateways /\ gw'.pc \in {"fail", "commit", "unknown", "call"}
      /\ gw'.receipt = gw.receipt
  BY <1>1, <1>2, InvFacts DEF CallRead
<1>4. /\ remote'.op = remote.op /\ remote'.wire = remote.wire
      /\ remote' = remote \/ remote'.sends = remote.sends + 1
      /\ remote' \in Remotes
  BY RemoteFacts, SentFacts DEF CallRead, MayRetry
<1> USE <1>1, <1>3, <1>4, InvFacts, RemoteFacts DEF CallInv
<1>5. GateIsPassed'
  BY DEF GateIsPassed
<1>6. DriveIsMarked'
  BY DEF DriveIsMarked, Write
<1>7. EffectWasSent'
  BY DEF EffectWasSent, Write
<1>8. AnswerIsTrue'
  BY DEF AnswerIsTrue, Final, Consent
<1>9. OutcomeIsTrue'
  BY DEF OutcomeIsTrue, FailedIsClean, SuccessIsReal, Consent, Valid
<1>10. SendIsMarked'
  BY DEF SendIsMarked, Write
<1> QED BY <1>4, <1>5, <1>6, <1>7, <1>8, <1>9, <1>10, Outside DEF Final, Found, MaxSends

\* A reply tells what the service did, or nothing.
LEMMA ReplyKeeps ==
  ASSUME CallInv, Reply
  PROVE  CallInv'
<1>1. /\ gw.pc = "reply" /\ Write /\ ~sys.boot
      /\ UNCHANGED <<kind, row, gate, look, remote, sys>>
  BY DEF Reply, At, Up, CallInv, DriveIsMarked
<1>2. \A pc \in {"fail", "commit", "unknown"} :
        Go(pc) \in Gateways /\ Go(pc).pc = pc /\ Go(pc).receipt = gw.receipt
  BY GoFacts, InvFacts DEF GatewayPc
<1>3. \A pc \in {"fail", "unknown"}, x \in {"identity", "failed"} :
        LET g == [Go(pc) EXCEPT !.receipt = x]
        IN  g \in Gateways /\ g.pc = pc /\ g.receipt = x
  <2> SUFFICES ASSUME NEW pc \in {"fail", "unknown"}, NEW x \in {"identity", "failed"}
               PROVE  LET g == [Go(pc) EXCEPT !.receipt = x]
                      IN  g \in Gateways /\ g.pc = pc /\ g.receipt = x
    OBVIOUS
  <2>1. x \in Receipts
    BY DEF Receipts, Found
  <2> QED BY <1>2, <2>1, Zenon DEF Gateways
<1>4. /\ gw' \in Gateways
      /\ \/ gw'.pc = "unknown" /\ gw'.receipt \in {gw.receipt, "identity"}
         \/ gw'.pc = "fail" /\ remote.wire = "rejected" /\ gw'.receipt = gw.receipt
         \/ gw'.pc = "commit" /\ remote.op = "done" /\ gw'.receipt = gw.receipt
         \/ gw'.pc = "fail" /\ remote.op = "failed" /\ gw'.receipt = "failed"
  BY <1>2, <1>3 DEF Reply, Lost
<1>5. remote' \in Remotes
  BY <1>1, RemoteFacts
<1> USE <1>1, <1>4, InvFacts, RemoteFacts DEF CallInv
<1>6. GateIsPassed'
  BY DEF GateIsPassed
<1>7. DriveIsMarked'
  BY DEF DriveIsMarked, Write
<1>8. EffectWasSent'
  BY DEF EffectWasSent, Write
<1>9. AnswerIsTrue'
  BY DEF AnswerIsTrue, Final, Consent, EffectWasSent
<1>10. OutcomeIsTrue'
  BY DEF OutcomeIsTrue, FailedIsClean, SuccessIsReal, Consent
<1>11. SendIsMarked'
  BY DEF SendIsMarked, Write
<1> QED BY <1>5, <1>6, <1>7, <1>8, <1>9, <1>10, <1>11, Outside DEF Final, Found, MaxSends

\* A request that arrives was sent, and no one has reported it as failed.
LEMMA DeliverKeeps ==
  ASSUME CallInv, Deliver
  PROVE  CallInv'
<1>1. /\ remote.wire = "sent" /\ remote.op = "none" /\ Write /\ remote.sends > 0
      /\ UNCHANGED <<kind, row, gate, gw, look, sys>> /\ kind # "read"
  BY InvFacts DEF Deliver, CallInv, EffectWasSent, Write
<1>2. /\ \/ remote'.wire = "rejected" /\ remote'.op = "none"
         \/ remote'.wire = "idle" /\ remote'.op \in {"done", "running"}
      /\ remote'.sends = remote.sends
      /\ remote' \in Remotes
  <2>1. remote \in Remotes /\ \A w \in {"idle", "rejected"} : w \in {"idle", "sent", "rejected"}
    BY RemoteFacts
  <2>2. CASE remote' = [remote EXCEPT !.wire = "rejected"]
    BY <1>1, <2>1, <2>2, WireFacts, Zenon
  <2>3. CASE \E o \in {"done", "running"} : remote' = [remote EXCEPT !.wire = "idle", !.op = o]
    <3> DEFINE q == [remote EXCEPT !.wire = "idle"]
    <3>1. q \in Remotes /\ q.wire = "idle" /\ q.op = remote.op /\ q.sends = remote.sends
      BY <2>1, WireFacts, Zenon
    <3>2. PICK o \in {"done", "running"} : remote' = [q EXCEPT !.op = o]
      BY <2>3, Zenon
    <3>3. o \in {"none"} \cup Found
      BY DEF Found
    <3> HIDE DEF q
    <3> QED BY <3>1, <3>2, <3>3, OpFacts, Zenon
  <2> QED BY <2>2, <2>3 DEF Deliver
<1> USE <1>1, <1>2, InvFacts, RemoteFacts DEF CallInv
<1>3. GateIsPassed'
  BY DEF GateIsPassed
<1>4. DriveIsMarked'
  BY DEF DriveIsMarked, Write
<1>5. EffectWasSent'
  BY DEF EffectWasSent, Write
<1>6. AnswerIsTrue'
  BY DEF AnswerIsTrue, Final, Consent
<1>7. OutcomeIsTrue'
  BY DEF OutcomeIsTrue, FailedIsClean, SuccessIsReal, Consent
<1>8. SendIsMarked'
  BY DEF SendIsMarked, Write
<1> QED BY <1>2, <1>3, <1>4, <1>5, <1>6, <1>7, <1>8, Outside DEF Final, Found, MaxSends

\* An outcome is final.
LEMMA ComputeKeeps ==
  ASSUME CallInv, Compute
  PROVE  CallInv'
<1>1. /\ remote.op = "running" /\ remote.sends > 0
      /\ UNCHANGED <<kind, row, gate, gw, look, sys>>
  BY InvFacts DEF Compute, CallInv, EffectWasSent
<1>2. /\ remote'.wire = remote.wire /\ remote'.op \in {"done", "failed"}
      /\ remote'.sends = remote.sends
      /\ remote' \in Remotes
  <2>1. PICK o \in {"done", "failed"} : remote' = [remote EXCEPT !.op = o]
    BY DEF Compute
  <2>2. remote \in Remotes /\ o \in {"none"} \cup Found
    BY RemoteFacts DEF Found
  <2> QED BY <2>1, <2>2, OpFacts, Zenon
<1> USE <1>1, <1>2, InvFacts, RemoteFacts DEF CallInv
<1>3. GateIsPassed'
  BY DEF GateIsPassed
<1>4. DriveIsMarked'
  BY DEF DriveIsMarked, Write
<1>5. EffectWasSent'
  BY DEF EffectWasSent, Write
<1>6. AnswerIsTrue'
  BY DEF AnswerIsTrue, Final, Consent
<1>7. OutcomeIsTrue'
  BY DEF OutcomeIsTrue, FailedIsClean, SuccessIsReal, Consent
<1>8. SendIsMarked'
  BY DEF SendIsMarked, Write
<1> QED BY <1>2, <1>3, <1>4, <1>5, <1>6, <1>7, <1>8, Outside DEF Final, Found, MaxSends

-----------------------------------------------------------------------------
(* The lookups *)

\* One lookup moves; the others do not notice.
LEMMA OneLook ==
  ASSUME CallInv, NEW l \in Lookups, NEW STATE s, s \in LookupStates, Set(l, s),
         UNCHANGED <<kind, remote>>, row' \in Rows,
         row' = row \/ row'.ver = row.ver + 1, LookIsFresh(l)'
  PROVE  /\ (\A k \in Lookups : LookIsFresh(k))'
         /\ look' \in [Lookups -> LookupStates]
<1>1. /\ look \in [Lookups -> LookupStates] /\ row \in Rows
      /\ \A k \in Lookups : LookIsFresh(k)
  BY DEF CallInv, TypeOK
<1>2. \A k \in Lookups : k # l => LookIsFresh(k)'
  <2> SUFFICES ASSUME NEW k \in Lookups, k # l
               PROVE  LookIsFresh(k)'
    OBVIOUS
  <2>1. look'[k] = look[k] /\ look[k] \in LookupStates /\ LookIsFresh(k)
    BY <1>1 DEF Set
  <2>2. row.ver \in Nat /\ look[k].ver \in Nat
    BY <1>1, <2>1, RowFields DEF LookupStates
  <2> QED BY <2>1, <2>2 DEF LookIsFresh, Unmoved, Final, Write
<1> QED BY <1>1, <1>2 DEF Set

\* What a lookup does: what is left to show.
LEMMA LookAssemble ==
  ASSUME CallInv, NEW l \in Lookups, NEW STATE s, s \in LookupStates, Set(l, s),
         UNCHANGED <<kind, gate, gw, remote>>, sys' \in SysStates, sys'.boot = sys.boot,
         row' \in Rows, row' = row \/ row'.ver = row.ver + 1, LookIsFresh(l)',
         Valid(row)', GateIsPassed', DriveIsMarked', AnswerIsTrue', OutcomeIsTrue',
         SendIsMarked'
  PROVE  CallInv'
<1>1. /\ (\A k \in Lookups : LookIsFresh(k))'
      /\ look' \in [Lookups -> LookupStates]
  BY OneLook
<1>2. EffectWasSent'
  BY DEF CallInv, EffectWasSent, Write
<1>3. TypeOK'
  BY <1>1 DEF CallInv, TypeOK, SysStates
<1> QED BY <1>1, <1>2, <1>3 DEF CallInv

\* A lookup, field by field.
LEMMA LookFacts ==
  ASSUME CallInv, NEW l \in Lookups
  PROVE  /\ look[l] \in LookupStates /\ look[l].ver \in Nat /\ look[l].got \in Receipts
         /\ row.ver \in Nat /\ LookIsFresh(l)
         /\ \A s : Set(l, s) => look'[l] = s
BY InvFacts, RowFields DEF CallInv, TypeOK, LookupStates, Set

\* A lookup that keeps the row.
LEMMA LookOnly ==
  ASSUME CallInv, NEW l \in Lookups, NEW STATE s, s \in LookupStates, Set(l, s),
         UNCHANGED <<kind, row, gate, gw, remote>>, sys' \in SysStates, sys'.boot = sys.boot,
         LookIsFresh(l)'
  PROVE  CallInv'
<1> USE IdleFacts, InvFacts DEF Same, CallInv
<1>1. Valid(row)'
  BY DEF Valid, Mcp, Write, Consent
<1>2. GateIsPassed'
  BY DEF GateIsPassed
<1>3. DriveIsMarked'
  BY DEF DriveIsMarked, Write, Mcp, Settled
<1>4. AnswerIsTrue'
  BY DEF AnswerIsTrue, Final, Consent
<1>5. OutcomeIsTrue'
  BY DEF OutcomeIsTrue, FailedIsClean, SuccessIsReal, Consent
<1>6. SendIsMarked'
  BY DEF SendIsMarked, Write
<1> QED BY <1>1, <1>2, <1>3, <1>4, <1>5, <1>6, LookAssemble DEF TypeOK

\* A lookup that ends.
LEMMA NoLookFresh ==
  ASSUME CallInv, NEW l \in Lookups, Set(l, NoLook), row' \in Rows
  PROVE  LookIsFresh(l)'
<1>1. look'[l] = NoLook
  BY LookFacts
<1>2. row'.ver \in Nat
  BY RowFields
<1> QED BY <1>1, <1>2, IdleFacts DEF LookIsFresh, Final

\* A lookup is for a call with a frozen identity.
LEMMA LookStartKeeps ==
  ASSUME CallInv, NEW l \in Lookups, LookStart(l)
  PROVE  CallInv'
<1> DEFINE s == [NoLook EXCEPT !.pc = "ask", !.ver = row.ver]
<1>1. /\ s \in LookupStates /\ s.pc = "ask" /\ s.ver = row.ver /\ s.got = "none"
  <2>1. row.ver \in Nat
    BY InvFacts, RowFields
  <2>2. "ask" \in {"idle", "ask", "save", "adopt"}
    OBVIOUS
  <2> QED BY <2>1, <2>2, IdleFacts, Zenon DEF LookupStates
<1>2. Set(l, s) /\ row.op /\ UNCHANGED <<kind, row, gate, gw, remote, sys>>
  BY DEF LookStart
<1> HIDE DEF s
<1>3. look'[l] = s /\ row.ver \in Nat /\ Write
  BY <1>2, LookFacts DEF CallInv, DriveIsMarked
<1>4. LookIsFresh(l)'
  BY <1>1, <1>2, <1>3 DEF LookIsFresh, Write, Final
<1> QED BY <1>1, <1>2, <1>4, LookOnly, InvFacts

\* It is answered with what the service has now.
LEMMA LookAskKeeps ==
  ASSUME CallInv, NEW l \in Lookups, LookAsk(l)
  PROVE  CallInv'
<1>1. PICK got \in {IF remote.op = "none" THEN "missing" ELSE remote.op, "unavailable"} :
        Set(l, [look[l] EXCEPT !.pc = "save", !.got = got])
  BY DEF LookAsk
<1> DEFINE s == [look[l] EXCEPT !.pc = "save", !.got = got]
<1>2. got \in Receipts /\ (got \in Found => got = remote.op)
  BY RemoteFacts DEF Receipts, Found
<1>3. /\ s \in LookupStates /\ s.pc = "save" /\ s.ver = look[l].ver /\ s.got = got
  <2>1. "save" \in {"idle", "ask", "save", "adopt"} /\ look[l] \in LookupStates
    BY LookFacts
  <2> QED BY <1>2, <2>1, Zenon DEF LookupStates
<1>4. Set(l, s) /\ look[l].pc = "ask" /\ UNCHANGED <<kind, row, gate, gw, remote, sys>>
  BY <1>1 DEF LookAsk, InLook
<1> HIDE DEF s
<1>5. look'[l] = s /\ LookIsFresh(l)
  BY <1>4, LookFacts
<1>6. LookIsFresh(l)'
  <2>1. row.receipt \in Final => remote.op = row.receipt
    BY DEF CallInv, AnswerIsTrue
  <2> QED BY <1>2, <1>3, <1>4, <1>5, <2>1 DEF LookIsFresh, Write, Final, Found, Unmoved
<1> QED BY <1>3, <1>4, <1>6, LookOnly, InvFacts

\* It is stored when the row has not moved: nothing newer is overwritten.
LEMMA LookSaveKeeps ==
  ASSUME CallInv, NEW l \in Lookups, LookSave(l)
  PROVE  CallInv'
<1>1. look[l].pc = "save" /\ UNCHANGED <<kind, gate, gw, remote>>
  BY DEF LookSave, InLook
<1>2. CASE ~Unmoved(l) \/ row.st # "OUTCOME_UNKNOWN"
  <2>1. Set(l, NoLook) /\ UNCHANGED <<row, sys>>
    BY <1>2 DEF LookSave
  <2> QED BY <1>1, <2>1, NoLookFresh, LookOnly, InvFacts, IdleFacts
<1>3. CASE Unmoved(l) /\ row.st = "OUTCOME_UNKNOWN"
  <2> DEFINE x == Merged(row.receipt, look[l].got)
             r == [row EXCEPT !.ver = @ + 1, !.receipt = x]
             a == [look[l] EXCEPT !.pc = "adopt"]
  <2>1. /\ x \in Receipts /\ (x \in Final => x = remote.op) /\ Write
    BY <1>1, InvFacts, LookFacts DEF Merged, LookIsFresh, CallInv, AnswerIsTrue, Final, Found
  <2> HIDE DEF x
  <2>2. /\ r \in Rows /\ r.st = row.st /\ r.ver = row.ver + 1 /\ r.receipt = x
        /\ r.consent = row.consent /\ r.claimed = row.claimed
        /\ r.dispatched = row.dispatched /\ r.op = row.op /\ r.result = row.result
    BY <2>1, StoredFacts, InvFacts
  <2>3. /\ a \in LookupStates /\ a.pc = "adopt" /\ a.ver = look[l].ver /\ a.got = look[l].got
    <3>1. "adopt" \in {"idle", "ask", "save", "adopt"} /\ look[l] \in LookupStates
      BY LookFacts
    <3> QED BY <3>1, Zenon DEF LookupStates
  <2> HIDE DEF r, a
  <2>4. /\ row' \in {row, r} /\ sys' \in SysStates /\ sys'.boot = sys.boot
        /\ Set(l, NoLook) \/ (Set(l, a) /\ row' = r /\ Usable(r.receipt))
    BY <1>3, FaultFacts, InvFacts DEF LookSave, r, a, x
  <2>5. LookIsFresh(l)'
    <3>1. CASE Set(l, NoLook)
      BY <2>2, <2>4, <3>1, NoLookFresh, InvFacts
    <3>2. CASE Set(l, a) /\ row' = r /\ Usable(r.receipt)
      <4>1. look'[l] = a /\ LookIsFresh(l) /\ look[l].ver \in Nat /\ row.ver \in Nat
        BY <3>2, LookFacts
      <4> QED BY <1>1, <2>1, <2>2, <2>3, <3>2, <4>1 DEF LookIsFresh, Usable, Final, Unmoved, Write
    <3> QED BY <2>4, <3>1, <3>2
  <2> USE <1>1, <1>3, <2>1, <2>2, <2>4, IdleFacts, InvFacts DEF Same, CallInv
  <2>6. Valid(row)'
    BY DEF Valid, Mcp, Write, Consent
  <2>7. GateIsPassed'
    BY DEF GateIsPassed
  <2>8. DriveIsMarked'
    BY DEF DriveIsMarked, Write, Mcp, Settled
  <2>9. AnswerIsTrue'
    BY DEF AnswerIsTrue, Final, Consent
  <2>10. OutcomeIsTrue'
    BY DEF OutcomeIsTrue, FailedIsClean, SuccessIsReal, Consent
  <2>11. SendIsMarked'
    BY DEF SendIsMarked, Write
  <2> QED BY <2>2, <2>3, <2>4, <2>5, <2>6, <2>7, <2>8, <2>9, <2>10, <2>11, LookAssemble, IdleFacts, InvFacts
<1> QED BY <1>2, <1>3

\* A full receipt becomes the result.
LEMMA LookAdoptKeeps ==
  ASSUME CallInv, NEW l \in Lookups, LookAdopt(l)
  PROVE  CallInv'
<1>1. /\ look[l].pc = "adopt" /\ UNCHANGED <<kind, gate, gw, remote>>
      /\ remote.op = "done" /\ Write
  BY LookFacts DEF LookAdopt, InLook, LookIsFresh
<1>2. CASE row.st \notin {"RUNNING", "OUTCOME_UNKNOWN"}
  <2>1. Set(l, NoLook) /\ UNCHANGED <<row, sys>>
    BY <1>2 DEF LookAdopt
  <2> QED BY <1>1, <2>1, NoLookFresh, LookOnly, InvFacts, IdleFacts
<1>3. CASE row.st \in {"RUNNING", "OUTCOME_UNKNOWN"}
  <2> DEFINE r == Succeeded(row)
             b == IF look[l].try < MaxTries THEN [look[l] EXCEPT !.try = @ + 1] ELSE NoLook
             s == IF sys' = sys THEN NoLook ELSE b
  <2>1. /\ r \in Rows /\ r.st = "SUCCEEDED" /\ r.ver = row.ver + 1 /\ r.consent = row.consent
        /\ r.claimed = row.claimed /\ r.dispatched = row.dispatched /\ r.op = row.op
        /\ r.result = TRUE /\ r.receipt = row.receipt
    BY InvFacts, SucceededFacts DEF Statuses, Settled
  <2>2. /\ b \in LookupStates
        /\ b = NoLook \/ (b.pc = "adopt" /\ b.ver = look[l].ver /\ b.got = look[l].got)
    <3>1. CASE look[l].try < MaxTries
      <4>1. look[l] \in LookupStates /\ look[l].try + 1 \in 1..MaxTries
        BY <3>1, LookFacts DEF LookupStates, MaxTries
      <4> QED BY <1>1, <3>1, <4>1, Zenon DEF LookupStates
    <3>2. CASE ~(look[l].try < MaxTries)
      BY <3>2, IdleFacts
    <3> QED BY <3>1, <3>2
  <2> HIDE DEF r, b
  <2>3. /\ row' \in {row, r} /\ sys' \in SysStates /\ sys'.boot = sys.boot
        /\ Set(l, NoLook) \/ Set(l, b)
    BY <1>3, FaultFacts, InvFacts DEF LookAdopt, r, b
  <2>4. LookIsFresh(l)'
    <3>1. CASE Set(l, NoLook)
      BY <2>1, <2>3, <3>1, NoLookFresh, InvFacts
    <3>2. CASE Set(l, b) /\ b # NoLook
      <4>1. look'[l] = b /\ LookIsFresh(l) /\ look[l].ver \in Nat /\ row.ver \in Nat
        BY <3>2, LookFacts
      <4> QED BY <1>1, <2>1, <2>2, <2>3, <3>2, <4>1 DEF LookIsFresh, Final, Unmoved, Write
    <3> QED BY <2>3, <3>1, <3>2
  <2> USE <1>1, <1>3, <2>1, <2>3, IdleFacts, InvFacts DEF Same, CallInv
  <2>5. Valid(row)'
    BY DEF Valid, Mcp, Write, Consent
  <2>6. GateIsPassed'
    BY DEF GateIsPassed
  <2>7. DriveIsMarked'
    BY DEF DriveIsMarked, Write, Mcp, Settled, EffectWasSent
  <2>8. AnswerIsTrue'
    BY DEF AnswerIsTrue, Final, Consent
  <2>9. OutcomeIsTrue'
    BY DEF OutcomeIsTrue, FailedIsClean, SuccessIsReal, Consent
  <2>10. SendIsMarked'
    BY DEF SendIsMarked, Write
  <2> QED BY <2>1, <2>2, <2>3, <2>4, <2>5, <2>6, <2>7, <2>8, <2>9, <2>10, LookAssemble, IdleFacts, InvFacts
<1> QED BY <1>2, <1>3

-----------------------------------------------------------------------------
(* The clock, the stop and the process *)

\* The clock moves no row.
LEMMA CardExpiresKeeps ==
  ASSUME CallInv, CardExpires
  PROVE  CallInv'
<1>1. UNCHANGED <<kind, row, gate, gw, look, remote>> /\ sys' \in SysStates
      /\ (sys'.boot => sys.boot)
  BY InvFacts DEF CardExpires, SysStates
<1> USE <1>1, IdleFacts, InvFacts DEF Same, CallInv
<1>2. Valid(row)'
  BY DEF Valid, Mcp, Write, Consent
<1>3. GateIsPassed'
  BY DEF GateIsPassed
<1>4. DriveIsMarked'
  BY DEF DriveIsMarked, Write, Mcp, Settled
<1>5. AnswerIsTrue'
  BY DEF AnswerIsTrue, Final, Consent
<1>6. OutcomeIsTrue'
  BY DEF OutcomeIsTrue, FailedIsClean, SuccessIsReal, Consent
<1>7. SendIsMarked'
  BY DEF SendIsMarked, Write
<1> QED BY <1>2, <1>3, <1>4, <1>5, <1>6, <1>7, Assemble DEF TypeOK

\* A stop ends the ownership first.
LEMMA StopKeeps ==
  ASSUME CallInv, Stop
  PROVE  CallInv'
<1>1. UNCHANGED <<kind, row, gate, gw, look, remote>> /\ sys' \in SysStates
      /\ (sys'.boot => sys.boot)
  BY InvFacts DEF Stop, SysStates
<1> USE <1>1, IdleFacts, InvFacts DEF Same, CallInv
<1>2. Valid(row)'
  BY DEF Valid, Mcp, Write, Consent
<1>3. GateIsPassed'
  BY DEF GateIsPassed
<1>4. DriveIsMarked'
  BY DEF DriveIsMarked, Write, Mcp, Settled
<1>5. AnswerIsTrue'
  BY DEF AnswerIsTrue, Final, Consent
<1>6. OutcomeIsTrue'
  BY DEF OutcomeIsTrue, FailedIsClean, SuccessIsReal, Consent
<1>7. SendIsMarked'
  BY DEF SendIsMarked, Write
<1> QED BY <1>2, <1>3, <1>4, <1>5, <1>6, <1>7, Assemble DEF TypeOK

\* The start ends.
LEMMA StartedKeeps ==
  ASSUME CallInv, Started
  PROVE  CallInv'
<1>1. UNCHANGED <<kind, row, gate, gw, look, remote>> /\ sys' \in SysStates
      /\ (sys'.boot => sys.boot)
  BY InvFacts DEF Started, SysStates
<1> USE <1>1, IdleFacts, InvFacts DEF Same, CallInv
<1>2. Valid(row)'
  BY DEF Valid, Mcp, Write, Consent
<1>3. GateIsPassed'
  BY DEF GateIsPassed
<1>4. DriveIsMarked'
  BY DEF DriveIsMarked, Write, Mcp, Settled
<1>5. AnswerIsTrue'
  BY DEF AnswerIsTrue, Final, Consent
<1>6. OutcomeIsTrue'
  BY DEF OutcomeIsTrue, FailedIsClean, SuccessIsReal, Consent
<1>7. SendIsMarked'
  BY DEF SendIsMarked, Write
<1> QED BY <1>2, <1>3, <1>4, <1>5, <1>6, <1>7, Assemble DEF TypeOK

\* Then it closes a call that is not fenced, so that nothing of it was sent.
LEMMA StopCloseKeeps ==
  ASSUME CallInv, StopClose
  PROVE  CallInv'
<1> DEFINE f == Moved(row, "FAILED")
           n == Moved(row, "REJECTED")
<1>1. /\ gate # "used" /\ gate' = "closed" /\ UNCHANGED <<kind, gw, look, remote, sys>>
      /\ row.st \in {"PENDING", "PENDING_CONFIRMATION"}
  BY DEF StopClose
<1>2. f \in Rows /\ f.st = "FAILED" /\ f.ver = row.ver + 1 /\ Same(row, f)
  BY InvFacts, MovedFacts DEF Statuses, Settled
<1>3. n \in Rows /\ n.st = "REJECTED" /\ n.ver = row.ver + 1 /\ Same(row, n)
  BY InvFacts, MovedFacts DEF Statuses, Settled
<1>4. remote.sends = 0 /\ ~row.dispatched
  BY <1>1, InvFacts DEF CallInv, GateIsPassed, SendIsMarked
<1>5. row' \in {f, n}
  BY DEF StopClose
<1> HIDE DEF f, n
<1> USE <1>1, <1>2, <1>3, <1>4, <1>5, IdleFacts, InvFacts DEF Same, CallInv
<1>6. Valid(row)'
  BY DEF Valid, Mcp, Write, Consent
<1>7. GateIsPassed'
  BY DEF GateIsPassed
<1>8. DriveIsMarked'
  BY DEF DriveIsMarked, Write, Mcp, Settled, GateIsPassed
<1>9. AnswerIsTrue'
  BY DEF AnswerIsTrue, Final, Consent
<1>10. OutcomeIsTrue'
  BY DEF OutcomeIsTrue, FailedIsClean, SuccessIsReal, Consent, EffectWasSent
<1>11. SendIsMarked'
  BY DEF SendIsMarked, Write
<1> QED BY <1>6, <1>7, <1>8, <1>9, <1>10, <1>11, Assemble DEF TypeOK

\* Recovery reports as failed what was never dispatched.
LEMMA RecoverKeeps ==
  ASSUME CallInv, Recover
  PROVE  CallInv'
<1> DEFINE st == IF row.dispatched THEN "OUTCOME_UNKNOWN" ELSE "FAILED"
           r == Moved(row, st)
<1>1. /\ row.st = "RUNNING" /\ Mcp /\ sys.boot /\ gw.pc = "idle"
      /\ UNCHANGED <<kind, gate, gw, look, remote>>
  BY DEF Recover, CallInv, GateIsPassed
<1>2. st \in Statuses /\ st \in {"OUTCOME_UNKNOWN", "FAILED"} /\ (st = "FAILED" => ~row.dispatched)
  BY DEF Statuses, Settled
<1>3. row' \in {row, r} /\ sys' \in SysStates /\ sys'.boot = sys.boot
  BY FaultFacts, InvFacts DEF Recover, Recovered
<1> HIDE DEF st
<1>4. r \in Rows /\ r.st = st /\ r.ver = row.ver + 1 /\ Same(row, r)
  BY <1>2, InvFacts, MovedFacts
<1> HIDE DEF r
<1> USE <1>1, <1>2, <1>3, <1>4, IdleFacts, InvFacts DEF Same, CallInv
<1>5. Valid(row)'
  BY DEF Valid, Mcp, Write, Consent
<1>6. GateIsPassed'
  BY DEF GateIsPassed
<1>7. DriveIsMarked'
  BY DEF DriveIsMarked, Write, Mcp, Settled
<1>8. AnswerIsTrue'
  BY DEF AnswerIsTrue, Final, Consent
<1>9. OutcomeIsTrue'
  BY DEF OutcomeIsTrue, FailedIsClean, SuccessIsReal, Consent, EffectWasSent, SendIsMarked
<1>10. SendIsMarked'
  BY DEF SendIsMarked, Write
<1> QED BY <1>5, <1>6, <1>7, <1>8, <1>9, <1>10, Assemble DEF TypeOK

\* An exit loses the call and the lookups in progress.
LEMMA CrashKeeps ==
  ASSUME CallInv, Crash
  PROVE  CallInv'
<1>1. /\ UNCHANGED <<kind, row, gate, remote>> /\ gw' = Idle
      /\ look' = [l \in Lookups |-> NoLook]
  BY DEF Crash
<1>2. sys' \in SysStates
  <2>1. sys.crashes + 1 \in 0..MaxCrashes
    BY InvFacts, InvocationAssumption DEF Crash, SysStates
  <2>2. TRUE \in BOOLEAN /\ sys \in SysStates
    BY InvFacts
  <2> QED BY <2>1, <2>2, Zenon DEF Crash, SysStates
<1>3. (\A l \in Lookups : LookIsFresh(l))'
  <2> SUFFICES ASSUME NEW l \in Lookups
               PROVE  LookIsFresh(l)'
    OBVIOUS
  <2>1. look'[l] = NoLook /\ row'.ver \in Nat
    BY <1>1, InvFacts, RowFields
  <2> QED BY <2>1, IdleFacts DEF LookIsFresh, Final
<1>4. EffectWasSent'
  BY <1>1 DEF CallInv, EffectWasSent, Write
<1> USE <1>1, <1>2, IdleFacts, InvFacts DEF Same, CallInv
<1>5. Valid(row)'
  BY DEF Valid, Mcp, Write, Consent
<1>6. GateIsPassed'
  BY DEF GateIsPassed
<1>7. DriveIsMarked'
  BY DEF DriveIsMarked, Write, Mcp, Settled
<1>8. AnswerIsTrue'
  BY DEF AnswerIsTrue, Final, Consent
<1>9. OutcomeIsTrue'
  BY DEF OutcomeIsTrue, FailedIsClean, SuccessIsReal, Consent
<1>10. SendIsMarked'
  BY DEF SendIsMarked, Write
<1>11. TypeOK'
  BY <1>5 DEF TypeOK, SysStates
<1> QED BY <1>3, <1>4, <1>5, <1>6, <1>7, <1>8, <1>9, <1>10, <1>11

-----------------------------------------------------------------------------
(* The theorems *)

\* A call that was never made satisfies the invariant.
LEMMA CallInit == Init => CallInv
<1> SUFFICES ASSUME Init
             PROVE  CallInv
  OBVIOUS
<1> USE DEF Init, NoRow, Idle, NoLook
<1>1. row \in Rows /\ gw \in Gateways
  BY DEF Rows, Receipts, Gateways, GatewayPc, MaxTries
<1>2. look \in [Lookups -> LookupStates]
  BY DEF LookupStates, Receipts, MaxTries
<1>3. TypeOK
  BY <1>1, <1>2, InvocationAssumption DEF TypeOK, Valid, MaxSends
<1>4. GateIsPassed /\ DriveIsMarked /\ EffectWasSent /\ AnswerIsTrue
  BY DEF GateIsPassed, DriveIsMarked, EffectWasSent, AnswerIsTrue, Final
<1>5. \A l \in Lookups : LookIsFresh(l)
  BY DEF LookIsFresh, Final
<1>6. OutcomeIsTrue /\ SendIsMarked
  BY DEF OutcomeIsTrue, FailedIsClean, SuccessIsReal, SendIsMarked
<1> QED BY <1>3, <1>4, <1>5, <1>6 DEF CallInv

\* Every step preserves the invariant.
LEMMA CallStep == CallInv /\ [Next]_vars => CallInv'
<1> SUFFICES ASSUME CallInv, [Next]_vars
             PROVE  CallInv'
  OBVIOUS
<1>1. CASE GatewayNext
  BY <1>1, CreateKeeps, AuthorizeKeeps, ExecuteKeeps, ClaimKeeps, FreezeKeeps, MarkKeeps,
     CallLocalKeeps, CallRemoteKeeps, CallReadKeeps, ReplyKeeps, CommitKeeps, FailKeeps,
     UnknownKeeps DEF GatewayNext
<1>2. CASE LookNext
  BY <1>2, LookStartKeeps, LookAskKeeps, LookSaveKeeps, LookAdoptKeeps DEF LookNext
<1>3. CASE WorldNext
  BY <1>3, DeliverKeeps, ComputeKeeps, CardExpiresKeeps, StopKeeps, StopCloseKeeps, CrashKeeps
     DEF WorldNext
<1>4. CASE Recover \/ Started \/ \E approved \in BOOLEAN : Decide(approved)
  BY <1>4, RecoverKeeps, StartedKeeps, DecideKeeps
<1>5. CASE UNCHANGED vars
  BY <1>5 DEF vars, CallInv, TypeOK, Valid, GateIsPassed, DriveIsMarked, EffectWasSent,
     AnswerIsTrue, LookIsFresh, Unmoved, OutcomeIsTrue, FailedIsClean, SuccessIsReal,
     SendIsMarked, Write, Mcp, Consent
<1> QED BY <1>1, <1>2, <1>3, <1>4, <1>5 DEF Next

\* The inductive invariant of a call, for every number of lookups that overlap,
\* of transactions that fail and of process exits.
THEOREM CallInvariant == Spec => []CallInv
<1>1. CallInv /\ [Next]_vars => CallInv'
  BY CallStep
<1> QED BY CallInit, <1>1, PTL DEF Spec

\* What a row states about the effect of its call is true: a failed call has no
\* effect and none is on its way, a result is of an effect that came about
\* (_finalize_failure, _commit_output_once, recover_mcp, result_from_receipt).
THEOREM OutcomeTheorem == Spec => []OutcomeIsTrue
<1>1. CallInv => OutcomeIsTrue
  BY DEF CallInv
<1> QED BY CallInvariant, <1>1, PTL

\* Nothing leaves the process before the row says so, and an effect leaves once
\* (_dispatch).
THEOREM SendTheorem == Spec => []SendIsMarked
<1>1. CallInv => SendIsMarked
  BY DEF CallInv
<1> QED BY CallInvariant, <1>1, PTL

\* The receipt of a row is only written by its failure, its unknown outcome and
\* a lookup.
LEMMA ReceiptStep ==
  ASSUME CallInv, [Next]_vars
  PROVE  /\ row.receipt \in Found => row'.receipt \in Found
         /\ row.receipt \in Final => row'.receipt = row.receipt
<1>1. CASE row.receipt = "none" \/ row'.receipt = row.receipt
  BY <1>1 DEF Found, Final
<1>2. CASE row.receipt # "none" /\ row'.receipt # row.receipt
  <2>1. row.st \in Settled
    BY <1>2 DEF CallInv, DriveIsMarked
  <2>2. CASE \E l \in Lookups : LookSave(l)
    <3>1. PICK l \in Lookups : LookSave(l)
      BY <2>2
    <3> DEFINE x == Merged(row.receipt, look[l].got)
    <3>2. look[l].pc = "save" /\ LookIsFresh(l)
      BY <3>1, LookFacts DEF LookSave, InLook
    <3>3. Unmoved(l) /\ row'.receipt = x
      <4>1. Unmoved(l) /\ row' \in {row, [row EXCEPT !.ver = @ + 1, !.receipt = x]}
        BY <1>2, <3>1 DEF LookSave
      <4>2. x \in Receipts
        BY InvFacts, LookFacts DEF Merged
      <4> HIDE DEF x
      <4>3. [row EXCEPT !.ver = @ + 1, !.receipt = x].receipt = x
        BY <4>2, StoredFacts, InvFacts, Zenon
      <4> QED BY <1>2, <4>1, <4>3
    <3> QED BY <3>2, <3>3 DEF LookIsFresh, Merged, Final, Found
  <2>3. CASE ~\E l \in Lookups : LookSave(l)
    <3>1. row' # row
      BY <1>2
    <3>2. \A st \in Statuses : /\ Moved(row, st).receipt = row.receipt
                               /\ [Moved(row, st) EXCEPT !.consent = TRUE].receipt = row.receipt
      BY InvFacts, MovedFacts, ApprovedFacts DEF Same
    <3>3. Succeeded(row).receipt = row.receipt
      BY InvFacts, SucceededFacts
    <3>4. row.st \notin {"none", "PENDING", "PENDING_CONFIRMATION", "RUNNING"}
      BY <2>1 DEF Settled
    <3>5. \A r, a, b : Owned(r, a, b) => row' \in {row, r}
      BY DEF Owned, Transaction
    <3>6. \A r, a, b : Transaction(r, a, b) => row' \in {row, r}
      BY DEF Transaction
    <3>7. ~GatewayNext
      BY <1>2, <3>1, <3>3, <3>4, <3>5, <3>6 DEF GatewayNext, Create, Authorize, Execute, Claim,
         Freeze, Mark, CallLocal, CallRemote, CallRead, Reply, Commit, Fail, Unknown
    <3>8. ~LookNext
      BY <1>2, <2>3, <3>3 DEF LookNext, LookStart, LookAsk, LookAdopt
    <3>9. ~WorldNext
      BY <3>1, <3>4 DEF WorldNext, Deliver, Compute, CardExpires, Stop, StopClose, Crash
    <3> QED BY <3>1, <3>4, <3>7, <3>8, <3>9 DEF Next, vars, Recover, Started, Decide
  <2> QED BY <2>2, <2>3
<1> QED BY <1>1, <1>2

\* The resource a lookup found stays found, and its outcome stays what it was,
\* for every number of lookups that overlap (reconcile_mcp).
THEOREM FoundTheorem == Spec => FoundIsKept
<1>1. CallInv /\ [Next]_vars =>
        [/\ row.receipt \in Found => row'.receipt \in Found
         /\ row.receipt \in {"done", "failed"} => row'.receipt = row.receipt]_vars
  BY ReceiptStep DEF Final
<1> QED BY CallInvariant, <1>1, PTL DEF Spec, FoundIsKept

=============================================================================
