----------------------- MODULE SubmissionDraftsProofs -----------------------
(***************************************************************************)
(* Theorems about modules Submission and Drafts: how what the user intends *)
(* reaches a run, and how a call of the run reaches its tool.  The second  *)
(* part, about Drafts, has an introduction of its own.                     *)
(*                                                                         *)
(* Submission, for every set of tabs and every number of operations, runs, *)
(* moves, attempts and lost answers: an intention has its effect once, one *)
(* run of a conversation is at work, and what happens to a run is what     *)
(* somebody who saw it asked for.                                          *)
(*                                                                         *)
(* The argument: what an operation has done cannot be done again, because  *)
(* its key is stored, or the card or the version it was about has passed   *)
(* for good; and every request, also one that arrives late, still names a  *)
(* run in the conversation it is sent to.                                  *)
(***************************************************************************)
EXTENDS Submission, Drafts, SequenceTheorems, FiniteSetTheorems, TLAPS

-----------------------------------------------------------------------------
(* The inductive invariant *)

\* The operations that open or continue a run by themselves.
Submitting == {"message", "reply", "regenerate", "retry"}
Deciding == {"confirm", "reject"}
AllKinds == Submitting \cup Deciding \cup {"resume"}

\* At most one run of a conversation is at work or holds its place.
Alone ==
  \A r, s \in Runs :
    runs[r].conv = runs[s].conv /\ runs[r].st \in Active /\ runs[s].st \in Active => r = s

\* What the agent asked for is numbered; a card is one of these.
Numbered ==
  \A r \in Runs : runs[r].wait <= sys.moves + 1 /\ runs[r].card <= runs[r].wait

\* What was seen of a run, in a row or in an operation, was so at its version.
AsSeen(r, saw) ==
  /\ saw.ver <= runs[r].ver
  /\ saw.ver = runs[r].ver => saw.wait = runs[r].wait

\* An operation is about a run there is, and what it has done cannot be done
\* again: its key is stored, the card or the version it was about has passed.
Passed(k) ==
  LET i == ops[k] IN
  /\ i.kind \in Submitting => subs[k] # 0
  /\ i.kind \in Deciding =>
       runs[i.run].wait > i.wait \/ (runs[i.run].wait = i.wait /\ runs[i.run].st # "WAITING_FOR_CONFIRMATION")
  /\ i.kind = "resume" => runs[i.run].ver > i.ver
OpOk(k) ==
  /\ subs[k] \in Runs \cup {0}
  /\ k \notin DOMAIN ops => hits[k] = 0 /\ subs[k] = 0
  /\ k \in DOMAIN ops =>
       /\ ops[k].kind # "message" => ops[k].run \in Runs /\ AsSeen(ops[k].run, ops[k])
       /\ hits[k] <= 1
       /\ hits[k] = 1 => Passed(k)
OpsOk == \A k \in Ops : OpOk(k)

\* Where an operation is sent to: a reply to the conversation of its run.
GoesTo(k, c) ==
  /\ k \in DOMAIN ops
  /\ c = None => ops[k].kind = "message"
  /\ ops[k].kind = "reply" => c = runs[ops[k].run].conv
RequestOk(q) ==
  /\ q.type = "create" => q.op \in DOMAIN ops
  /\ q.type = "send" => q.to # None /\ GoesTo(q.op, q.to)
  /\ q.type = "stop" => q.at.run \in Runs
NetOk == \A q \in net : RequestOk(q)

\* A run as it was shown or answered: it exists, in the conversation it
\* was in, and with no later version.
Known(r, row) ==
  r \in Runs /\ row \in RunRows /\ row.conv = runs[r].conv /\ AsSeen(r, row)
AnswerOk(a) == a # None /\ a.ok => Known(a.run, a.row)
TabOk(row) ==
  /\ \A r \in 1..MaxRuns :
       row.view[r] # None => Known(r, row.view[r]) /\ row.view[r].conv = row.conv
  /\ row.op # 0 => GoesTo(row.op, row.to)
  /\ row.pc # "idle" => row.op # 0
  /\ row.pc = "send" => row.to # None
  /\ row.pc = "create" => row.to = None
  /\ row.answer # None => row.pc # "idle"
  /\ row.answer # None /\ row.pc = "create" => row.answer.ok
  /\ row.pc = "send" => AnswerOk(row.answer)
  /\ AnswerOk(row.stopped)
  /\ row.accepted # NoStop => row.accepted.run \in Runs
TabsOk == \A t \in Tabs : TabOk(tab[t])

SubmitInv ==
  /\ TypeOK /\ sys \in [moves: Nat, gave: Nat, stops: Nat]
  /\ Alone /\ Numbered /\ OpsOk /\ NetOk /\ TabsOk

-----------------------------------------------------------------------------
(* What a step leaves of a run, and what follows from it *)

\* No run disappears, changes its conversation, goes back in its version or its
\* questions, or gets a card under a number it had before.
Kept ==
  \A r \in Runs :
    /\ r \in Runs'
    /\ runs'[r].conv = runs[r].conv
    /\ runs'[r].ver >= runs[r].ver
    /\ runs'[r].ver = runs[r].ver => runs'[r].wait = runs[r].wait
    /\ runs'[r].wait >= runs[r].wait
    /\ runs'[r].wait = runs[r].wait /\ runs'[r].st = "WAITING_FOR_CONFIRMATION"
         => runs[r].st = "WAITING_FOR_CONFIRMATION"
\* The operations so far stay what they are.
Longer == \A k \in DOMAIN ops : k \in DOMAIN ops' /\ ops'[k] = ops[k]

\* The rows of the runs after a step.
RunPart == runs' \in Seq(RunRows) /\ Kept /\ Alone' /\ Numbered'

\* What happens to a run in a step, as RightTarget states it.
Target ==
  \A r \in Runs :
    /\ runs[r].st \in {"WAITING_FOR_USER", "WAITING_FOR_CONFIRMATION", "INTERRUPTED"} /\ runs'[r].st = "WORKING" =>
         \E k \in DOMAIN ops :
           /\ hits'[k] > hits[k] /\ ops[k].run = r /\ ops[k].wait = runs[r].wait
           /\ runs[r].st = "INTERRUPTED" => ops[k].ver = runs[r].ver /\ ops[k].sub = runs[r].sub
           /\ ops[k].kind \in CASE runs[r].st = "WAITING_FOR_USER" -> {"reply"}
                                [] runs[r].st = "INTERRUPTED" -> {"resume"}
                                [] OTHER -> {runs'[r].decision}
    /\ runs'[r].stopped /\ ~runs[r].stopped =>
         \E q \in net : q.type = "stop" /\ q.at = [run |-> r, sub |-> runs[r].sub]
StepOk == SubmitInv' /\ Target

\* The runs, and the fields of one.
LEMMA RunTypes ==
  ASSUME TypeOK
  PROVE  /\ runs \in Seq(RunRows) /\ Len(runs) \in Nat /\ Runs = 1..Len(runs)
         /\ \A r \in Runs : runs[r] \in RunRows
BY LenProperties, ElementOfSeq DEF TypeOK, Runs

\* One field at a time.
LEMMA RowTypes ==
  ASSUME NEW row \in RunRows
  PROVE  /\ row.conv \in Convs /\ row.st \in Statuses /\ row.ver \in Nat /\ row.sub \in 0..MaxOps
         /\ row.wait \in Nat /\ row.card \in Nat /\ row.decision \in {"none", "confirm", "reject"}
         /\ row.done \in SUBSET (1..MaxMoves) /\ row.resumed \in Nat
         /\ row.retryable \in BOOLEAN /\ row.stopped \in BOOLEAN
BY DEF RunRows

\* The operations.
LEMMA OpTypes ==
  ASSUME TypeOK
  PROVE  /\ ops \in Seq(Intentions) /\ Len(ops) \in Nat /\ DOMAIN ops = 1..Len(ops)
         /\ \A k \in DOMAIN ops :
              /\ ops[k] \in Intentions /\ ops[k].kind \in AllKinds /\ ops[k].run \in Nat
              /\ ops[k].wait \in Nat /\ ops[k].ver \in Nat /\ ops[k].sub \in 0..MaxOps
<1>1. ops \in Seq(Intentions) /\ Len(ops) \in Nat /\ DOMAIN ops = 1..Len(ops)
  BY LenProperties DEF TypeOK
<1>2. \A k \in DOMAIN ops : ops[k] \in Intentions
  BY <1>1, ElementOfSeq
<1> QED BY <1>1, <1>2 DEF Intentions, Kinds, AllKinds, Submitting, Deciding

\* Nothing happens to the runs.
LEMMA SameRuns ==
  ASSUME SubmitInv, runs' = runs, sys'.moves = sys.moves
  PROVE  RunPart
<1>1. /\ runs \in Seq(RunRows)
      /\ \A r \in Runs : runs[r].ver \in Nat /\ runs[r].wait \in Nat
  BY RunTypes, RowTypes DEF SubmitInv
<1>2. Kept
  BY <1>1 DEF Kept, Runs
<1>3. Alone' /\ Numbered'
  BY DEF SubmitInv, Alone, Numbered, Runs
<1> QED BY <1>1, <1>2, <1>3 DEF RunPart

\* One run moves.
LEMMA RunMoves ==
  ASSUME SubmitInv, NEW r \in Runs, NEW row \in RunRows, runs' = [runs EXCEPT ![r] = row],
         row.conv = runs[r].conv, row.ver >= runs[r].ver, row.wait >= runs[r].wait,
         row.ver = runs[r].ver => row.wait = runs[r].wait,
         row.wait = runs[r].wait /\ row.st = "WAITING_FOR_CONFIRMATION"
           => runs[r].st = "WAITING_FOR_CONFIRMATION",
         row.st \in Active => runs[r].st \in Active \/ ~Occupied(runs[r].conv),
         row.wait <= sys'.moves + 1, row.card <= row.wait,
         sys.moves <= sys'.moves, sys'.moves \in Nat
  PROVE  RunPart /\ Runs' = Runs /\ runs'[r] = row /\ \A s \in Runs \ {r} : runs'[s] = runs[s]
<1>0. /\ runs \in Seq(RunRows) /\ Len(runs) \in Nat /\ Runs = 1..Len(runs)
      /\ \A s \in Runs : runs[s] \in RunRows
      /\ \A s \in Runs : runs[s].ver \in Nat /\ runs[s].wait \in Nat /\ runs[s].card \in Nat
      /\ Alone /\ Numbered /\ sys.moves \in Nat
  BY RunTypes, RowTypes DEF SubmitInv
<1>1. runs' \in Seq(RunRows) /\ Len(runs') = Len(runs)
  BY <1>0, ExceptSeq
<1>2. Runs' = Runs
  BY <1>0, <1>1, LenProperties DEF Runs
<1>3. runs'[r] = row /\ \A s \in Runs \ {r} : runs'[s] = runs[s]
  BY <1>0, ExceptSeq
<1>4. Kept
  BY <1>0, <1>2, <1>3 DEF Kept
<1>5. Numbered'
  BY <1>0, <1>2, <1>3, RowTypes DEF Numbered
<1>6. Alone'
  BY <1>0, <1>2, <1>3 DEF Alone, Occupied
<1> QED BY <1>1, <1>2, <1>3, <1>4, <1>5, <1>6 DEF RunPart

\* A run is opened in a conversation where no other one holds its place.
LEMMA RunOpens ==
  ASSUME SubmitInv, NEW c \in Convs, NEW k \in 0..MaxOps, ~Occupied(c),
         runs' = Append(runs, NewRun(c, k)), sys' = sys
  PROVE  /\ RunPart /\ Len(runs) + 1 \in Runs' /\ Len(runs) + 1 \in Nat \ {0}
         /\ runs'[Len(runs) + 1] = NewRun(c, k) /\ NewRun(c, k) \in RunRows
         /\ \A s \in Runs : s \in Runs' /\ runs'[s] = runs[s]
<1>0. /\ runs \in Seq(RunRows) /\ Len(runs) \in Nat /\ Runs = 1..Len(runs)
      /\ \A s \in Runs : runs[s] \in RunRows
      /\ \A s \in Runs : runs[s].ver \in Nat /\ runs[s].wait \in Nat /\ runs[s].card \in Nat
      /\ Alone /\ Numbered /\ sys.moves \in Nat
  BY RunTypes, RowTypes DEF SubmitInv
<1>1. NewRun(c, k) \in RunRows
  BY DEF NewRun, RunRows, Statuses, Active
<1>2. PICK n \in RunRows : n = NewRun(c, k)
  BY <1>1
<1>3. n.conv = c /\ n.st = "WORKING" /\ n.wait = 0 /\ n.card = 0 /\ n.ver = 0
  BY <1>2 DEF NewRun
<1>4. /\ runs' \in Seq(RunRows) /\ Len(runs') = Len(runs) + 1
      /\ runs'[Len(runs) + 1] = n /\ \A s \in Runs : runs'[s] = runs[s]
  BY <1>0, <1>2, AppendProperties
<1>5. Runs' = 1..Len(runs) + 1
  BY <1>4, LenProperties DEF Runs
<1>6. Kept
  BY <1>0, <1>4, <1>5 DEF Kept
<1>7. Numbered'
  BY <1>0, <1>3, <1>4, <1>5 DEF Numbered
<1>8. Alone'
  <2>1. \A s \in Runs' : s \in Runs \/ s = Len(runs) + 1
    BY <1>0, <1>5
  <2>2. \A s \in Runs : runs'[s].conv = c => runs'[s].st \notin Active
    BY <1>4 DEF Occupied
  <2> QED BY <1>0, <1>3, <1>4, <2>1, <2>2 DEF Alone
<1> QED BY <1>0, <1>1, <1>2, <1>4, <1>5, <1>6, <1>7, <1>8 DEF RunPart

\* What was seen of a run was so.
LEMMA SeenStays ==
  ASSUME TypeOK, RunPart, NEW r \in Runs, NEW saw, saw.ver \in Nat, AsSeen(r, saw)
  PROVE  AsSeen(r, saw)'
<1>1. runs' \in Seq(RunRows) /\ r \in Runs'
  BY DEF RunPart, Kept
<1>2. runs[r].ver \in Nat /\ runs'[r].ver \in Nat
  <2>1. runs'[r] \in RunRows
    BY <1>1, LenProperties, ElementOfSeq DEF Runs
  <2> QED BY <2>1, RunTypes, RowTypes
<1> QED BY <1>2 DEF AsSeen, RunPart, Kept

\* What was known of a run is still true of it.
LEMMA KnownStays ==
  ASSUME TypeOK, RunPart, NEW r, NEW row, Known(r, row)
  PROVE  Known(r, row)'
<1>1. r \in Runs /\ row \in RunRows /\ row.ver \in Nat /\ AsSeen(r, row)
  BY RowTypes DEF Known
<1>2. AsSeen(r, row)'
  BY <1>1, SeenStays
<1> QED BY <1>1, <1>2 DEF Known, RunPart, Kept

\* An answer stays good.
LEMMA AnswerStays ==
  ASSUME TypeOK, RunPart, NEW a, AnswerOk(a)
  PROVE  AnswerOk(a)'
BY KnownStays DEF AnswerOk

\* An operation goes where it went.
LEMMA GoesStays ==
  ASSUME SubmitInv, Kept, Longer, NEW k \in Ops, NEW c, GoesTo(k, c)
  PROVE  GoesTo(k, c)'
<1>1. k \in DOMAIN ops /\ (ops[k].kind # "message" => ops[k].run \in Runs)
  BY DEF GoesTo, SubmitInv, OpsOk, OpOk
<1> QED BY <1>1 DEF GoesTo, Longer, Kept

\* A request stays good, and so do all those that are still on their way.
LEMMA RequestStays ==
  ASSUME SubmitInv, Kept, Longer, NEW q \in net
  PROVE  RequestOk(q)'
<1>1. RequestOk(q) /\ q \in Requests
  BY DEF SubmitInv, NetOk, TypeOK
<1>2. q.type \in {"create", "send"} => q.op \in Ops
  BY <1>1 DEF Requests
<1> QED BY <1>1, <1>2, GoesStays DEF RequestOk, Kept, Longer

\* What an operation has done has passed for good.
LEMMA OpStays ==
  ASSUME SubmitInv, RunPart, Longer, NEW k \in Ops, hits'[k] = hits[k], subs'[k] = subs[k],
         k \in DOMAIN ops' /\ k \notin DOMAIN ops =>
           (ops'[k].kind # "message" => ops'[k].run \in Runs' /\ AsSeen(ops[k].run, ops[k])')
  PROVE  OpOk(k)'
<1>0. TypeOK /\ OpOk(k) /\ hits[k] \in Nat /\ Kept /\ runs' \in Seq(RunRows)
  BY DEF SubmitInv, OpsOk, TypeOK, RunPart
<1>1. subs'[k] \in Runs' \cup {0}
  BY <1>0 DEF OpOk, Kept
<1>2. k \notin DOMAIN ops' => hits'[k] = 0 /\ subs'[k] = 0
  BY <1>0 DEF OpOk, Longer
<1>3. CASE k \in DOMAIN ops
  <2>1. /\ ops'[k] = ops[k] /\ k \in DOMAIN ops'
        /\ ops[k].kind # "message" =>
             ops[k].run \in Runs /\ ops[k].run \in Runs' /\ AsSeen(ops[k].run, ops[k])
        /\ hits[k] <= 1 /\ (hits[k] = 1 => Passed(k))
    BY <1>0, <1>3 DEF OpOk, Longer, Kept
  <2>2. Passed(k) => Passed(k)'
    <3> SUFFICES ASSUME Passed(k) PROVE Passed(k)'
      OBVIOUS
    <3>1. ops[k].wait \in Nat /\ ops[k].ver \in Nat
      BY <1>0, <1>3, OpTypes
    <3>2. CASE ops[k].kind = "message"
      BY <2>1, <3>2 DEF Passed, Deciding, Submitting
    <3>3. CASE ops[k].kind # "message"
      <4>1. PICK r \in Runs : r = ops[k].run
        BY <2>1, <3>3
      <4>2. /\ runs[r].ver \in Nat /\ runs[r].wait \in Nat
            /\ runs'[r].ver >= runs[r].ver /\ runs'[r].wait >= runs[r].wait
            /\ runs'[r].wait = runs[r].wait /\ runs'[r].st = "WAITING_FOR_CONFIRMATION"
                 => runs[r].st = "WAITING_FOR_CONFIRMATION"
        BY <1>0, RunTypes, RowTypes DEF Kept
      <4>3. ops'[k].run = r /\ ops'[k].wait = ops[k].wait /\ ops'[k].ver = ops[k].ver
            /\ ops'[k].kind = ops[k].kind
        BY <2>1, <4>1
      <4>4. runs'[r] \in RunRows
        <5>1. r \in Runs' /\ Runs' = 1..Len(runs')
          BY <1>0, LenProperties DEF Kept, Runs
        <5> QED BY <1>0, <5>1, ElementOfSeq
      <4>5. runs'[r].ver \in Nat /\ runs'[r].wait \in Nat
        BY <4>4, RowTypes
      <4> QED BY <3>1, <4>1, <4>2, <4>3, <4>5 DEF Passed
    <3> QED BY <3>2, <3>3
  <2>3. ops[k].kind # "message" => AsSeen(ops[k].run, ops[k])'
    <3>1. CASE ops[k].kind # "message"
      <4>1. PICK i, r : r \in Runs /\ i = ops[k] /\ r = ops[k].run /\ i.ver \in Nat /\ AsSeen(r, i)
        BY <1>0, <1>3, <2>1, <3>1, OpTypes
      <4>2. AsSeen(r, i)' /\ i = ops'[k] /\ r = ops'[k].run
        BY <1>0, <2>1, <4>1, SeenStays
      <4> QED BY <4>2 DEF AsSeen
    <3> QED BY <3>1
  <2> QED BY <1>0, <1>1, <2>1, <2>2, <2>3 DEF OpOk
<1>4. CASE k \notin DOMAIN ops
  <2>1. hits'[k] = 0
    BY <1>0, <1>4 DEF OpOk
  <2> QED BY <1>1, <1>2, <1>4, <2>1 DEF OpOk
<1> QED BY <1>3, <1>4

-----------------------------------------------------------------------------
(* The parts of a step *)

OpPart ==
  /\ ops' \in Seq(Intentions) /\ subs' \in [Ops -> Nat] /\ hits' \in [Ops -> Nat]
  /\ OpsOk'
NetPart == net' \subseteq Requests /\ NetOk'
TabPart == tab' \in [Tabs -> TabRows] /\ TabsOk'
SysTypes == [moves: Nat, gave: Nat, stops: Nat]

\* The parts make a step.
LEMMA Parts ==
  ASSUME RunPart, OpPart, NetPart, TabPart, convs' \subseteq Convs, sys' \in SysTypes
  PROVE  SubmitInv'
BY DEF RunPart, OpPart, NetPart, TabPart, SysTypes, SubmitInv, TypeOK

\* The types of a state.
LEMMA Types ==
  ASSUME SubmitInv
  PROVE  /\ convs \subseteq Convs /\ net \subseteq Requests
         /\ subs \in [Ops -> Nat] /\ hits \in [Ops -> Nat]
         /\ tab \in [Tabs -> TabRows] /\ sys \in SysTypes
         /\ sys.moves \in Nat /\ sys.gave \in Nat /\ sys.stops \in Nat
         /\ \A k \in DOMAIN ops : k \in Nat /\ k # 0
BY OpTypes DEF SubmitInv, TypeOK, SysTypes

\* A tab, field by field.
LEMMA TabTypes ==
  ASSUME NEW row \in TabRows
  PROVE  /\ row.conv \in Convs \cup {None} /\ row.view \in [1..MaxRuns -> RunRows \cup {None}]
         /\ row.op \in 0..MaxOps /\ row.to \in Convs \cup {None} /\ row.accepted \in Stops
         /\ row.wish \in BOOLEAN /\ row.pc \in {"idle", "create", "send"} /\ row.n \in Nat
         /\ row.stop \in Stops /\ row.answer \in Answers \cup {None}
         /\ row.stopped \in Answers \cup {None}
BY DEF TabRows

\* Nothing is done to the operations.
LEMMA SameOps ==
  ASSUME SubmitInv, RunPart, UNCHANGED <<ops, subs, hits>>
  PROVE  OpPart /\ Longer
<1>1. Longer
  BY DEF Longer
<1>2. \A k \in Ops : OpOk(k)'
  BY <1>1, OpStays
<1> QED BY <1>1, <1>2, Types DEF OpPart, OpsOk, SubmitInv, TypeOK

\* An operation has its effect.
LEMMA OpHits ==
  ASSUME SubmitInv, RunPart, ops' = ops, NEW k \in Ops, k \in DOMAIN ops, hits[k] = 0,
         Hit(k), subs' = subs \/ \E r \in Runs' : subs' = [subs EXCEPT ![k] = r] /\ r \in Nat,
         Passed(k)'
  PROVE  OpPart /\ Longer
<1>0. subs \in [Ops -> Nat] /\ hits \in [Ops -> Nat] /\ ops \in Seq(Intentions) /\ OpOk(k)
  BY Types, OpTypes DEF SubmitInv, OpsOk
<1>1. Longer
  BY DEF Longer
<1>2. hits' \in [Ops -> Nat] /\ hits'[k] = 1 /\ \A j \in Ops \ {k} : hits'[j] = hits[j]
  BY <1>0 DEF Hit
<1>3. /\ subs' \in [Ops -> Nat] /\ subs'[k] \in Runs' \cup {0}
      /\ \A j \in Ops \ {k} : subs'[j] = subs[j]
  <2>1. CASE subs' = subs
    BY <1>0, <2>1 DEF OpOk, RunPart, Kept
  <2>2. CASE \E r \in Runs' : subs' = [subs EXCEPT ![k] = r] /\ r \in Nat
    BY <1>0, <2>2
  <2> QED BY <2>1, <2>2
<1>4. \A j \in Ops \ {k} : OpOk(j)'
  BY <1>1, <1>2, <1>3, OpStays
<1>5. OpOk(k)'
  <2>0. ops'[k] = ops[k] /\ k \in DOMAIN ops' /\ TypeOK
    BY DEF SubmitInv
  <2>1. ops[k].kind # "message" => ops[k].run \in Runs' /\ AsSeen(ops[k].run, ops[k])'
    <3>1. CASE ops[k].kind # "message"
      <4>1. PICK i, r : r \in Runs /\ i = ops[k] /\ r = ops[k].run /\ i.ver \in Nat /\ AsSeen(r, i)
        BY <1>0, <2>0, <3>1, OpTypes DEF OpOk
      <4>2. AsSeen(r, i)' /\ i = ops'[k] /\ r = ops'[k].run /\ r \in Runs'
        BY <2>0, <4>1, SeenStays DEF RunPart, Kept
      <4> QED BY <4>1, <4>2 DEF AsSeen
    <3> QED BY <3>1
  <2> QED BY <1>2, <1>3, <2>0, <2>1 DEF OpOk
<1> QED BY <1>0, <1>1, <1>2, <1>3, <1>4, <1>5 DEF OpPart, OpsOk

\* Requests are served, and none is made.
LEMMA NetShrinks ==
  ASSUME SubmitInv, RunPart, ops' = ops, net' \subseteq net
  PROVE  NetPart
<1>1. \A q \in net : RequestOk(q)'
  BY RequestStays DEF RunPart, Longer
<1> QED BY <1>1, Types DEF NetPart, NetOk

\* A request is made.
LEMMA NetGrows ==
  ASSUME SubmitInv, RunPart, Longer, NEW q \in Requests, RequestOk(q)', net' \in {net, net \cup {q}}
  PROVE  NetPart
<1>1. \A p \in net : RequestOk(p)'
  BY RequestStays DEF RunPart
<1> QED BY <1>1, Types DEF NetPart, NetOk

\* What holds of a tab goes on to hold.
LEMMA TabStays ==
  ASSUME SubmitInv, RunPart, Longer, NEW row \in TabRows, TabOk(row)
  PROVE  TabOk(row)'
<1>0. TypeOK /\ Kept
  BY DEF SubmitInv, RunPart
<1>1. row.op # 0 => row.op \in Ops
  BY TabTypes DEF Ops
<1>2. \A r \in 1..MaxRuns :
        row.view[r] # None => Known(r, row.view[r])' /\ row.view[r].conv = row.conv
  BY <1>0, KnownStays DEF TabOk
<1>3. row.op # 0 => GoesTo(row.op, row.to)'
  BY <1>0, <1>1, GoesStays DEF TabOk
<1>4. (row.pc = "send" => AnswerOk(row.answer)') /\ AnswerOk(row.stopped)'
  BY <1>0, AnswerStays DEF TabOk
<1> QED BY <1>0, <1>2, <1>3, <1>4 DEF TabOk, Kept

\* One tab changes.
LEMMA TabMoves ==
  ASSUME SubmitInv, RunPart, Longer, NEW t \in Tabs, NEW row \in TabRows,
         tab' = [tab EXCEPT ![t] = row], TabOk(row)'
  PROVE  TabPart
<1>0. tab \in [Tabs -> TabRows] /\ \A s \in Tabs : TabOk(tab[s])
  BY Types DEF SubmitInv, TabsOk
<1>1. tab' \in [Tabs -> TabRows] /\ tab'[t] = row /\ \A s \in Tabs \ {t} : tab'[s] = tab[s]
  BY <1>0
<1>2. ASSUME NEW s \in Tabs PROVE TabOk(tab[s])'
  <2>1. CASE s = t
    <3>1. row = tab'[s]
      BY <1>1, <2>1
    <3> QED BY <3>1 DEF TabOk
  <2>2. CASE s # t
    <3>1. PICK other \in TabRows : other = tab[s] /\ TabOk(other)
      BY <1>0
    <3>2. TabOk(other)' /\ other = tab'[s]
      BY <1>1, <2>2, <3>1, TabStays
    <3> QED BY <3>2 DEF TabOk
  <2> QED BY <2>1, <2>2
<1> QED BY <1>1, <1>2 DEF TabPart, TabsOk

\* Nothing happens to the tabs.
LEMMA SameTabs ==
  ASSUME SubmitInv, RunPart, Longer, tab' = tab
  PROVE  TabPart
<1>0. tab \in [Tabs -> TabRows] /\ \A s \in Tabs : TabOk(tab[s])
  BY Types DEF SubmitInv, TabsOk
<1>1. ASSUME NEW s \in Tabs PROVE TabOk(tab[s])'
  <2>1. PICK row \in TabRows : row = tab[s] /\ TabOk(row)
    BY <1>0
  <2>2. TabOk(row)' /\ row = tab'[s]
    BY <2>1, TabStays
  <2> QED BY <2>2 DEF TabOk
<1> QED BY <1>0, <1>1 DEF TabPart, TabsOk

\* The answer to an operation.
LEMMA Answered ==
  ASSUME SubmitInv, RunPart, Longer, NEW q \in net, q.type \in {"create", "send"}, NEW a \in Answers,
         q.type = "create" => a.ok, q.type = "send" => AnswerOk(a)', Answer(q, a)
  PROVE  TabPart
<1>0. tab \in [Tabs -> TabRows] /\ q \in Requests
  BY Types
<1>1. q.tab \in Tabs
  BY <1>0 DEF Requests
<1>2. CASE tab' = tab
  BY <1>2, SameTabs
<1>3. CASE tab[q.tab].pc = q.type /\ tab' = [tab EXCEPT ![q.tab].answer = a]
  <2>1. PICK t \in Tabs : t = q.tab
    BY <1>1
  <2>2. PICK old \in TabRows : old = tab[t] /\ TabOk(old) /\ old.pc = q.type
    BY <1>0, <1>3, <2>1 DEF SubmitInv, TabsOk
  <2>3. PICK row : row = [old EXCEPT !.answer = a]
    OBVIOUS
  <2>4. /\ row \in TabRows /\ row.answer = a /\ row.pc = old.pc
        /\ row.view = old.view /\ row.conv = old.conv /\ row.op = old.op
        /\ row.to = old.to /\ row.stopped = old.stopped /\ row.accepted = old.accepted
    BY <2>3 DEF TabRows
  <2>5. tab' = [tab EXCEPT ![t] = row]
    BY <1>3, <2>1, <2>2, <2>3
  <2>6. TabOk(old)'
    BY <2>2, TabStays
  <2>7. TabOk(row)'
    BY <2>2, <2>4, <2>6 DEF TabOk
  <2> QED BY <2>4, <2>5, <2>7, TabMoves
<1> QED BY <1>2, <1>3 DEF Answer

\* The answer to a stop.
LEMMA StopAnswered ==
  ASSUME SubmitInv, RunPart, Longer, NEW q \in net, q.type = "stop", NEW a \in Answers,
         AnswerOk(a)', StopAnswer(q, a)
  PROVE  TabPart
<1>0. tab \in [Tabs -> TabRows] /\ q \in Requests
  BY Types
<1>1. q.tab \in Tabs
  BY <1>0 DEF Requests
<1>2. CASE tab' = tab
  BY <1>2, SameTabs
<1>3. CASE tab' = [tab EXCEPT ![q.tab].stopped = a]
  <2>1. PICK t \in Tabs : t = q.tab
    BY <1>1
  <2>2. PICK old \in TabRows : old = tab[t] /\ TabOk(old)
    BY <1>0 DEF SubmitInv, TabsOk
  <2>3. PICK row : row = [old EXCEPT !.stopped = a]
    OBVIOUS
  <2>4. /\ row \in TabRows /\ row.stopped = a /\ row.pc = old.pc
        /\ row.view = old.view /\ row.conv = old.conv /\ row.op = old.op
        /\ row.to = old.to /\ row.answer = old.answer /\ row.accepted = old.accepted
    BY <2>3 DEF TabRows
  <2>5. tab' = [tab EXCEPT ![t] = row]
    BY <1>3, <2>1, <2>2, <2>3
  <2>6. TabOk(old)'
    BY <2>2, TabStays
  <2>7. TabOk(row)'
    BY <2>4, <2>6 DEF TabOk
  <2> QED BY <2>4, <2>5, <2>7, TabMoves
<1> QED BY <1>2, <1>3 DEF StopAnswer

-----------------------------------------------------------------------------
(* The server *)

\* A request that changes nothing but an answer.
LEMMA Unchanged ==
  ASSUME SubmitInv, NEW q \in net, UNCHANGED <<runs, subs, hits, ops, sys>>,
         convs' \subseteq Convs, net' = net \ {q}, TabPart
  PROVE  StepOk
<1>1. RunPart
  BY SameRuns
<1>2. OpPart /\ NetPart
  BY <1>1, SameOps, NetShrinks
<1>3. Target
  BY DEF Target
<1> QED BY <1>1, <1>2, <1>3, Types, Parts DEF StepOk

\* What a request is about.
LEMMA RequestFacts ==
  ASSUME SubmitInv, NEW q \in net
  PROVE  /\ q \in Requests /\ q.type \in {"create", "send", "stop"} /\ q.tab \in Tabs
         /\ q.type # "stop" => q.op \in Ops /\ q.op \in DOMAIN ops /\ OpOk(q.op)
         /\ q.type = "send" => q.to \in Convs /\ GoesTo(q.op, q.to)
         /\ q.type = "stop" => q.at \in Stops /\ q.at.run \in Runs
<1>1. q \in Requests /\ RequestOk(q)
  BY Types DEF SubmitInv, NetOk
<1>2. /\ q.type \in {"create", "send", "stop"} /\ q.tab \in Tabs
      /\ q.type # "stop" => q.op \in Ops
      /\ q.type = "send" => q.to \in Convs \cup {None}
      /\ q.type = "stop" => q.at \in Stops
  BY <1>1 DEF Requests
<1> QED BY <1>1, <1>2 DEF RequestOk, GoesTo, SubmitInv, OpsOk

\* An operation that did not have its effect yet.
LEMMA NotYet ==
  ASSUME SubmitInv, NEW k \in Ops, k \in DOMAIN ops, ~Passed(k)
  PROVE  hits[k] = 0
<1>1. OpOk(k) /\ hits[k] \in Nat
  BY Types DEF SubmitInv, OpsOk
<1> QED BY <1>1 DEF OpOk

\* What is answered of a run.
LEMMA ShownFacts ==
  ASSUME NEW r \in Nat, NEW row \in RunRows, NEW a, a = Shown(r, row)
  PROVE  a \in Answers /\ a.ok /\ a.run = r /\ a.row = row
BY DEF Shown, Answers

\* What is answered of a run as it is after the step holds.
LEMMA ShownStands ==
  ASSUME NEW r \in Nat, r \in Runs', NEW row \in RunRows, row = runs'[r], NEW a, a = Shown(r, row)
  PROVE  a \in Answers /\ AnswerOk(a)'
<1>1. a \in Answers /\ a.run = r /\ a.row = row
  BY ShownFacts
<1>2. row.ver \in Nat
  BY RowTypes
<1> QED BY <1>1, <1>2 DEF AnswerOk, Known, AsSeen

\* A refusal.
LEMMA RefusalFacts ==
  ASSUME NEW a, a = Refusal
  PROVE  a \in Answers /\ ~a.ok
BY DEF Refusal, Answers

\* The server refuses, or answers what it did before.
LEMMA OnlyAnswers ==
  ASSUME SubmitInv, NEW q \in net, q.type = "send", UNCHANGED <<server, ops, sys>>,
         net' = net \ {q}, NEW a, Answer(q, a),
         a = Refusal \/ \E r \in Runs : a = Shown(r, runs[r])
  PROVE  StepOk
<1>0. /\ runs' = runs /\ UNCHANGED <<subs, hits, ops, sys>> /\ convs' \subseteq Convs /\ Runs' = Runs
      /\ \A r \in Runs : r \in Nat /\ runs[r] \in RunRows
  BY Types, RunTypes DEF SubmitInv, server, Runs
<1>1. a \in Answers /\ AnswerOk(a)'
  <2>1. CASE a = Refusal
    BY <2>1, RefusalFacts DEF AnswerOk
  <2>2. CASE \E r \in Runs : a = Shown(r, runs[r])
    <3>1. PICK r \in Runs, row \in RunRows : a = Shown(r, row) /\ row = runs[r]
      BY <1>0, <2>2
    <3> QED BY <1>0, <3>1, ShownStands
  <2> QED BY <2>1, <2>2
<1>2. RunPart
  BY <1>0, SameRuns
<1>3. Longer
  BY <1>0 DEF Longer
<1>4. TabPart
  BY <1>1, <1>2, <1>3, Answered
<1> QED BY <1>0, <1>4, Unchanged

\* A conversation is created, or was before.
LEMMA CreateStep ==
  ASSUME SubmitInv, NEW q \in net, Serve(q), ServeCreate(q)
  PROVE  StepOk
<1>0. /\ UNCHANGED <<runs, subs, hits, ops, sys>> /\ net' = net \ {q} /\ q.type = "create"
      /\ Answer(q, Shown(0, None))
  BY DEF Serve, ServeCreate
<1>1. convs' \subseteq Convs
  <2>1. q.op \in Convs
    BY <1>0, RequestFacts DEF Ops, Convs
  <2> QED BY <2>1, Types DEF ServeCreate
<1>2. PICK a : a = Shown(0, None)
  OBVIOUS
<1>3. a \in Answers /\ a.ok
  BY <1>2 DEF Shown, Answers
<1>4. RunPart /\ Longer
  BY <1>0, SameRuns DEF Longer
<1>5. TabPart
  BY <1>0, <1>2, <1>3, <1>4, Answered
<1> QED BY <1>0, <1>1, <1>5, Unchanged

\* A message, a reply, a regeneration or a retry.
LEMMA SubmitStep ==
  ASSUME SubmitInv, NEW q \in net, Serve(q), ServeSubmit(q)
  PROVE  StepOk
<1>0. UNCHANGED <<ops, sys>> /\ net' = net \ {q} /\ q.type = "send"
  BY DEF Serve, ServeSubmit
<1>1. PICK k \in Ops, c \in Convs :
        /\ k = q.op /\ c = q.to /\ k \in DOMAIN ops /\ OpOk(k) /\ GoesTo(k, c)
        /\ ops[k].kind \in Submitting
  BY <1>0, RequestFacts DEF ServeSubmit, Submitting
<1>2. subs[k] \in Nat /\ subs[k] \in Runs \cup {0} /\ k \in 0..MaxOps
  BY <1>1, Types DEF OpOk, Ops
<1>3. CASE subs[k] # 0
  <2>1. Answer(q, Shown(subs[k], runs[subs[k]])) /\ UNCHANGED server
    BY <1>1, <1>3 DEF ServeSubmit, Admitted
  <2> QED BY <1>0, <1>2, <1>3, <2>1, OnlyAnswers
<1>4. CASE subs[k] = 0 /\ ~MayOpen(ops[k], c)
  <2>1. Answer(q, Refusal) /\ UNCHANGED server
    BY <1>1, <1>4 DEF ServeSubmit, Admitted
  <2> QED BY <1>0, <2>1, OnlyAnswers
<1>5. CASE subs[k] = 0 /\ MayOpen(ops[k], c)
  <2>1. /\ runs' = Opened(k, c) /\ subs' = [subs EXCEPT ![k] = Home(k)] /\ Hit(k)
        /\ Answer(q, Shown(Home(k), runs'[Home(k)])) /\ convs' = convs
    BY <1>1, <1>5 DEF ServeSubmit, Admitted
  <2>2. hits[k] = 0
    BY <1>1, <1>5, NotYet DEF Passed
  <2>3. ~Occupied(c)
    BY <1>5 DEF MayOpen
  <2>4. /\ RunPart /\ Target
        /\ \E r \in Runs' : r = Home(k) /\ r \in Nat \ {0} /\ runs'[r] \in RunRows
    <3>1. CASE ops[k].kind = "reply"
      <4>1. PICK r \in Runs : r = ops[k].run /\ c = runs[r].conv
        BY <1>1, <3>1 DEF OpOk, GoesTo
      <4>2. /\ runs[r] \in RunRows /\ r \in Nat \ {0} /\ Numbered
            /\ runs[r].st = "WAITING_FOR_USER" /\ runs[r].wait = ops[k].wait
        BY <1>5, <3>1, <4>1, RunTypes DEF SubmitInv, MayOpen, QuestionStands
      <4>3. PICK old \in RunRows : old = runs[r]
        BY <4>2
      <4>10. PICK row : row = [old EXCEPT !.st = "WORKING", !.sub = k, !.ver = @ + 1]
        OBVIOUS
      <4>4. /\ row \in RunRows /\ row.conv = old.conv /\ row.ver = old.ver + 1
            /\ row.wait = old.wait /\ row.st = "WORKING" /\ row.card = old.card
            /\ row.stopped = old.stopped
        <5>1. PICK v \in Nat, st \in Statuses : v = old.ver + 1 /\ st = "WORKING"
          BY RowTypes DEF Statuses, Active
        <5>3. /\ k \in 0..MaxOps /\ old.decision \in {"none", "confirm", "reject"}
              /\ old.resumed \in Nat
          BY <1>2, RowTypes
        <5>4. /\ row \in RunRows /\ row.conv = old.conv /\ row.ver = v /\ row.wait = old.wait
              /\ row.st = st /\ row.card = old.card /\ row.stopped = old.stopped
          BY <4>3, <4>10, <5>1, <5>3 DEF RunRows
        <5> QED BY <5>1, <5>4
      <4>5. runs' = [runs EXCEPT ![r] = row]
        BY <2>1, <3>1, <4>1, <4>3, <4>10 DEF Opened
      <4>6. runs[r].ver \in Nat /\ runs[r].wait \in Nat /\ sys'.moves = sys.moves /\ sys.moves \in Nat
        BY <1>0, <4>2, RowTypes, Types
      <4>7. RunPart /\ Runs' = Runs /\ runs'[r] = row /\ \A s \in Runs \ {r} : runs'[s] = runs[s]
        <5>1. /\ row.ver >= runs[r].ver /\ row.wait = runs[r].wait /\ row.wait >= runs[r].wait
              /\ row.conv = runs[r].conv
              /\ row.wait <= sys'.moves + 1 /\ row.card <= row.wait /\ sys.moves <= sys'.moves
              /\ sys'.moves \in Nat /\ row.st # "WAITING_FOR_CONFIRMATION" /\ ~Occupied(runs[r].conv)
          BY <2>3, <4>1, <4>2, <4>3, <4>10, <4>4, <4>6 DEF Numbered
        <5> QED BY <4>4, <4>5, <5>1, RunMoves
      <4>8. hits'[k] > hits[k]
        BY <2>1, <2>2, Types DEF Hit
      <4>9. Target
        <5>1. runs[r].st = "WAITING_FOR_USER" /\ ~(runs'[r].stopped /\ ~runs[r].stopped)
          BY <4>2, <4>3, <4>10, <4>4, <4>7
        <5>2. hits'[k] > hits[k] /\ ops[k].run = r /\ ops[k].wait = runs[r].wait
          BY <4>1, <4>2, <4>8
        <5>3. \A s \in Runs \ {r} :
                ~(runs'[s].stopped /\ ~runs[s].stopped) /\ (runs'[s].st = "WORKING" => runs[s].st = "WORKING")
          BY <4>7
        <5> QED BY <1>1, <3>1, <5>1, <5>2, <5>3 DEF Target
      <4> QED BY <3>1, <4>1, <4>2, <4>4, <4>7, <4>9 DEF Home
    <3>2. CASE ops[k].kind # "reply"
      <4>1. runs' = Append(runs, NewRun(c, k)) /\ Home(k) = Len(runs) + 1
        BY <2>1, <3>2 DEF Opened, Home
      <4>2. /\ RunPart /\ Home(k) \in Runs' /\ Home(k) \in Nat \ {0} /\ runs'[Home(k)] \in RunRows
            /\ \A s \in Runs : runs'[s] = runs[s]
        BY <1>0, <1>2, <2>3, <4>1, RunOpens
      <4>3. Target
        BY <4>2 DEF Target
      <4> QED BY <4>2, <4>3
    <3> QED BY <3>1, <3>2
  <2>5. PICK r \in Runs' : r = Home(k) /\ r \in Nat \ {0} /\ runs'[r] \in RunRows
    BY <2>4
  <2>6. subs'[k] = r
    BY <1>2, <2>1, <2>5, Types
  <2>7. Passed(k)'
    BY <1>0, <1>1, <2>5, <2>6 DEF Passed, Submitting, Deciding
  <2>8. OpPart /\ Longer
    BY <1>0, <1>1, <2>1, <2>2, <2>4, <2>5, <2>7, OpHits
  <2>9. NetPart
    BY <1>0, <2>4, NetShrinks
  <2>10. TabPart
    <3>1. PICK row \in RunRows : row = runs'[r]
      BY <2>5
    <3>3. PICK a : a = Shown(r, row)
      OBVIOUS
    <3>2. a \in Answers /\ AnswerOk(a)'
      BY <2>5, <3>1, <3>3, ShownStands
    <3> QED BY <1>0, <2>1, <2>4, <2>5, <2>8, <3>1, <3>3, <3>2, Answered
  <2> QED BY <1>0, <2>1, <2>4, <2>8, <2>9, <2>10, Types, Parts DEF StepOk
<1> QED BY <1>2, <1>3, <1>4, <1>5

\* A step that lets the run of an operation go on.
LEMMA GoesOn ==
  ASSUME SubmitInv, NEW q \in net, q.type = "send", net' = net \ {q}, UNCHANGED <<ops, sys, convs, subs>>,
         NEW k \in Ops, k = q.op, k \in DOMAIN ops, NEW r \in Runs, r = ops[k].run,
         NEW row \in RunRows, runs' = [runs EXCEPT ![r] = row],
         row.conv = runs[r].conv, row.ver > runs[r].ver, row.wait = runs[r].wait,
         row.card = runs[r].card, row.stopped = runs[r].stopped, row.st = "WORKING",
         runs[r].st \in Active, hits[k] = 0, Hit(k), Passed(k)',
         Answer(q, Shown(r, row)),
         ops[k].wait = runs[r].wait,
         runs[r].st = "INTERRUPTED" => ops[k].ver = runs[r].ver /\ ops[k].sub = runs[r].sub,
         ops[k].kind \in (IF runs[r].st = "INTERRUPTED" THEN {"resume"} ELSE {row.decision})
  PROVE  StepOk
<1>0. /\ runs[r] \in RunRows /\ r \in Nat /\ Numbered /\ sys.moves \in Nat
      /\ runs[r].wait \in Nat /\ runs[r].ver \in Nat /\ row.ver \in Nat /\ sys'.moves = sys.moves
  BY RunTypes, RowTypes, Types DEF SubmitInv
<1>1. RunPart /\ Runs' = Runs /\ runs'[r] = row /\ \A s \in Runs \ {r} : runs'[s] = runs[s]
  <2>1. /\ row.ver >= runs[r].ver /\ row.wait >= runs[r].wait /\ row.wait <= sys'.moves + 1 /\ row.card <= row.wait
        /\ sys.moves <= sys'.moves /\ sys'.moves \in Nat /\ row.st # "WAITING_FOR_CONFIRMATION"
    BY <1>0 DEF Numbered
  <2> QED BY <2>1, RunMoves
<1>2. hits'[k] > hits[k]
  BY Types DEF Hit
<1>3. Target
  BY <1>1, <1>2 DEF Target, Active
<1>4. OpPart /\ Longer
  BY <1>1, OpHits
<1>5. PICK a : a = Shown(r, row)
  OBVIOUS
<1>6. a \in Answers /\ AnswerOk(a)'
  BY <1>0, <1>1, <1>5, ShownStands
<1>8. TabPart
  BY <1>1, <1>4, <1>5, <1>6, Answered
<1> QED BY <1>1, <1>3, <1>4, <1>8, NetShrinks, Types, Parts DEF StepOk

\* A decision on a card.
LEMMA DecisionStep ==
  ASSUME SubmitInv, NEW q \in net, Serve(q), ServeDecision(q)
  PROVE  StepOk
<1>0. UNCHANGED <<ops, sys>> /\ net' = net \ {q} /\ q.type = "send"
  BY DEF Serve, ServeDecision
<1>1. PICK k \in Ops :
        /\ k = q.op /\ k \in DOMAIN ops /\ OpOk(k)
        /\ ops[k].kind \in Deciding
  BY <1>0, RequestFacts DEF ServeDecision, Deciding
<1>2. PICK r \in Runs : r = ops[k].run
  BY <1>1 DEF OpOk, Deciding
<1>3. CASE ~CardStands(runs[r], ops[k])
  <2>1. PICK a \in {Refusal, Shown(r, runs[r])} : Answer(q, a) /\ UNCHANGED server
    BY <1>1, <1>2, <1>3 DEF ServeDecision
  <2>2. a = Refusal \/ \E s \in Runs : a = Shown(s, runs[s])
    BY <2>1
  <2> QED BY <1>0, <2>1, <2>2, OnlyAnswers
<1>4. CASE CardStands(runs[r], ops[k])
  <2>1. /\ runs[r].st = "WAITING_FOR_CONFIRMATION" /\ runs[r].wait = ops[k].wait
        /\ runs[r] \in RunRows
    BY <1>4, RunTypes DEF CardStands, SubmitInv
  <2>2. /\ runs' = [runs EXCEPT ![r].st = "WORKING", ![r].decision = ops[k].kind, ![r].ver = @ + 1]
        /\ Hit(k) /\ Answer(q, Shown(r, runs'[r])) /\ UNCHANGED <<convs, subs>>
    BY <1>1, <1>2, <1>4 DEF ServeDecision
  <2>3. PICK old \in RunRows, d \in Deciding : old = runs[r] /\ d = ops[k].kind
    BY <1>1, <2>1
  <2>11. PICK row : row = [old EXCEPT !.st = "WORKING", !.decision = d, !.ver = @ + 1]
    OBVIOUS
  <2>4. /\ row \in RunRows /\ row.conv = old.conv /\ row.ver = old.ver + 1
        /\ row.wait = old.wait /\ row.st = "WORKING" /\ row.card = old.card
        /\ row.stopped = old.stopped /\ row.decision = d
    <3>1. PICK v \in Nat, st \in Statuses : v = old.ver + 1 /\ st = "WORKING"
      BY RowTypes DEF Statuses, Active
    <3>3. d \in {"none", "confirm", "reject"} /\ old.resumed \in Nat /\ old.sub \in 0..MaxOps
      BY RowTypes DEF Deciding
    <3>4. /\ row \in RunRows /\ row.conv = old.conv /\ row.ver = v /\ row.wait = old.wait
          /\ row.st = st /\ row.card = old.card /\ row.stopped = old.stopped
          /\ row.decision = d
      BY <2>3, <2>11, <3>1, <3>3 DEF RunRows
    <3> QED BY <3>1, <3>4
  <2>5. runs' = [runs EXCEPT ![r] = row] /\ runs'[r] = row
    <3>1. runs \in Seq(RunRows) /\ r \in 1..Len(runs)
      BY RunTypes DEF SubmitInv
    <3>2. runs' = [runs EXCEPT ![r] = row]
      BY <2>2, <2>3, <2>11
    <3> QED BY <2>4, <3>1, <3>2, ExceptSeq
  <2>6. runs[r].ver \in Nat /\ row.ver > runs[r].ver
    BY <2>1, <2>3, <2>11, <2>4, RowTypes
  <2>7. hits[k] = 0
    BY <1>1, <1>2, <2>1, OpTypes, NotYet DEF Passed, SubmitInv
  <2>8. Passed(k)'
    <3>1. /\ ops'[k] = ops[k] /\ ops[k].kind \in Deciding /\ ops[k].run = r
          /\ runs'[r].wait = ops[k].wait /\ runs'[r].st # "WAITING_FOR_CONFIRMATION"
      BY <1>0, <1>1, <1>2, <2>1, <2>3, <2>11, <2>4, <2>5
    <3> QED BY <3>1 DEF Passed, Deciding, Submitting
  <2>9. /\ runs[r].st \in Active /\ runs[r].st # "INTERRUPTED"
        /\ ops[k].kind \in (IF runs[r].st = "INTERRUPTED" THEN {"resume"} ELSE {row.decision})
    BY <2>1, <2>3, <2>11, <2>4 DEF Active
  <2>10. Answer(q, Shown(r, row)) /\ UNCHANGED <<ops, sys, convs, subs>>
    BY <1>0, <2>2, <2>5
  <2> QED BY <1>0, <1>1, <1>2, <2>1, <2>2, <2>3, <2>11, <2>4, <2>5, <2>6, <2>7, <2>8, <2>9, <2>10, GoesOn
<1> QED BY <1>3, <1>4

\* A run is resumed, or its resume refused after a receipt was found.
LEMMA ResumeStep ==
  ASSUME SubmitInv, NEW q \in net, Serve(q), ServeResume(q)
  PROVE  StepOk
<1>0. UNCHANGED <<ops, sys>> /\ net' = net \ {q} /\ q.type = "send"
  BY DEF Serve, ServeResume
<1>1. PICK k \in Ops :
        /\ k = q.op /\ k \in DOMAIN ops /\ OpOk(k)
        /\ ops[k].kind = "resume"
  BY <1>0, RequestFacts DEF ServeResume
<1>2. PICK r \in Runs : r = ops[k].run
  BY <1>1 DEF OpOk
<1>3. PICK old \in RunRows : old = runs[r]
  BY RunTypes DEF SubmitInv
<1>4. runs \in Seq(RunRows) /\ r \in 1..Len(runs) /\ old.ver \in Nat /\ ops[k].ver \in Nat
  BY <1>1, <1>3, RunTypes, RowTypes, OpTypes DEF SubmitInv
<1>5. CASE ~(old.sub = ops[k].sub /\ old.resumed # ops[k].ver /\ Resumable(old, ops[k]))
  <2>1. /\ Answer(q, IF old.sub = ops[k].sub /\ old.resumed = ops[k].ver THEN Shown(r, old) ELSE Refusal)
        /\ UNCHANGED server
    BY <1>1, <1>2, <1>3, <1>5 DEF ServeResume
  <2>2. PICK a : a = IF old.sub = ops[k].sub /\ old.resumed = ops[k].ver THEN Shown(r, old) ELSE Refusal
    OBVIOUS
  <2>3. a = Refusal \/ \E s \in Runs : a = Shown(s, runs[s])
    BY <1>3, <2>2
  <2> QED BY <1>0, <2>1, <2>2, <2>3, OnlyAnswers
<1>6. CASE old.sub = ops[k].sub /\ old.resumed # ops[k].ver /\ Resumable(old, ops[k])
  <2>0. old.st = "INTERRUPTED" /\ old.ver = ops[k].ver
    BY <1>6 DEF Resumable
  <2>1. PICK found \in {0, 1} :
          \/ /\ runs' = [runs EXCEPT ![r].st = "WORKING", ![r].resumed = ops[k].ver,
                                     ![r].ver = @ + found + 1]
             /\ Hit(k) /\ Answer(q, Shown(r, runs'[r]))
             /\ UNCHANGED <<convs, subs>>
          \/ /\ runs' = [runs EXCEPT ![r].ver = @ + found]
             /\ Answer(q, Refusal)
             /\ UNCHANGED <<convs, subs, hits>>
    BY <1>1, <1>2, <1>3, <1>6 DEF ServeResume
  <2>2. CASE /\ runs' = [runs EXCEPT ![r].st = "WORKING", ![r].resumed = ops[k].ver,
                                     ![r].ver = @ + found + 1]
             /\ Hit(k) /\ Answer(q, Shown(r, runs'[r]))
             /\ UNCHANGED <<convs, subs>>
    <3>0. PICK n \in Nat, v \in Nat : n = ops[k].ver /\ v = old.ver + found + 1
      BY <1>4
    <3>1. PICK row : row = [old EXCEPT !.st = "WORKING", !.resumed = n, !.ver = v]
      OBVIOUS
    <3>2. /\ row \in RunRows /\ row.conv = old.conv /\ row.ver = v /\ row.wait = old.wait
          /\ row.st = "WORKING" /\ row.card = old.card /\ row.stopped = old.stopped
      BY <3>1 DEF RunRows, Statuses, Active
    <3>3. runs' = [runs EXCEPT ![r] = row]
      BY <1>3, <2>2, <3>0, <3>1
    <3>4. runs'[r] = row
      BY <1>4, <3>2, <3>3, ExceptSeq
    <3>5. row.ver > ops[k].ver /\ row.ver > runs[r].ver
      BY <1>3, <1>4, <2>0, <3>0, <3>2
    <3>6. ~Passed(k)
      BY <1>1, <1>2, <1>3, <1>4, <2>0 DEF Passed
    <3>7. hits[k] = 0
      BY <1>1, <3>6, NotYet
    <3>8. Passed(k)'
      BY <1>0, <1>1, <1>2, <3>4, <3>5 DEF Passed, Submitting, Deciding
    <3>9. /\ ops[k].wait = runs[r].wait /\ ops[k].ver = runs[r].ver /\ ops[k].sub = runs[r].sub
          /\ runs[r].st \in Active /\ runs[r].st = "INTERRUPTED"
      BY <1>1, <1>2, <1>3, <1>6, <2>0 DEF Active, OpOk, AsSeen
    <3>10. /\ row.conv = runs[r].conv /\ row.wait = runs[r].wait /\ row.card = runs[r].card
           /\ row.stopped = runs[r].stopped
      BY <1>3, <3>2
    <3>11. ops[k].kind \in (IF runs[r].st = "INTERRUPTED" THEN {"resume"} ELSE {row.decision})
      BY <1>1, <3>9
    <3>12. Answer(q, Shown(r, row)) /\ UNCHANGED <<ops, sys, convs, subs>> /\ Hit(k)
      BY <1>0, <2>2, <3>4
    <3> QED BY <1>0, <1>1, <1>2, <3>2, <3>3, <3>5, <3>7, <3>8, <3>9, <3>10, <3>11, <3>12, GoesOn
  <2>3. CASE /\ runs' = [runs EXCEPT ![r].ver = @ + found]
             /\ Answer(q, Refusal)
             /\ UNCHANGED <<convs, subs, hits>>
    <3>0. PICK v \in Nat : v = old.ver + found
      BY <1>4
    <3>1. PICK row : row = [old EXCEPT !.ver = v]
      OBVIOUS
    <3>2. /\ row \in RunRows /\ row.conv = old.conv /\ row.ver = v /\ row.wait = old.wait
          /\ row.st = "INTERRUPTED" /\ row.card = old.card /\ row.stopped = old.stopped
      BY <2>0, <3>1 DEF RunRows
    <3>3. runs' = [runs EXCEPT ![r] = row]
      BY <1>3, <2>3, <3>0, <3>1
    <3>4. RunPart /\ Runs' = Runs /\ runs'[r] = row /\ \A s \in Runs \ {r} : runs'[s] = runs[s]
      <4>0. /\ old.wait \in Nat /\ old.wait <= sys.moves + 1 /\ old.card <= old.wait
            /\ sys' = sys /\ sys.moves \in Nat
        BY <1>0, <1>3, RowTypes, Types DEF SubmitInv, Numbered
      <4>1. /\ row.conv = runs[r].conv /\ row.ver >= runs[r].ver /\ row.wait = runs[r].wait
            /\ row.wait >= runs[r].wait
            /\ row.st # "WAITING_FOR_CONFIRMATION" /\ runs[r].st \in Active
            /\ row.wait <= sys'.moves + 1 /\ row.card <= row.wait
            /\ sys.moves <= sys'.moves /\ sys'.moves \in Nat
        BY <1>3, <1>4, <2>0, <3>0, <3>2, <4>0 DEF Active
      <4> QED BY <3>2, <3>3, <4>1, RunMoves
    <3>5. OpPart /\ Longer /\ NetPart
      BY <1>0, <2>3, <3>4, SameOps, NetShrinks
    <3>6. PICK a : a = Refusal
      OBVIOUS
    <3>7. a \in Answers /\ AnswerOk(a)'
      BY <3>6, RefusalFacts DEF AnswerOk
    <3>8. TabPart
      BY <1>0, <2>3, <3>4, <3>5, <3>6, <3>7, Answered
    <3>9. Target
      BY <1>3, <2>0, <3>2, <3>4 DEF Target
    <3> QED BY <1>0, <2>3, <3>4, <3>5, <3>8, <3>9, Types, Parts DEF StepOk
  <2> QED BY <2>1, <2>2, <2>3
<1> QED BY <1>5, <1>6

\* A run is stopped by its user.
LEMMA StopStep ==
  ASSUME SubmitInv, NEW q \in net, Serve(q), ServeStop(q)
  PROVE  StepOk
<1>0. /\ UNCHANGED <<ops, sys, convs, subs, hits>> /\ net' = net \ {q} /\ q.type = "stop"
      /\ q.at \in Stops
  BY RequestFacts DEF Serve, ServeStop
<1>1. PICK r \in Runs : r = q.at.run
  BY <1>0, RequestFacts
<1>2. PICK old \in RunRows : old = runs[r]
  BY RunTypes DEF SubmitInv
<1>3. runs \in Seq(RunRows) /\ r \in 1..Len(runs) /\ old.ver \in Nat /\ r \in Nat
  BY <1>2, RunTypes, RowTypes DEF SubmitInv
<1>4. CASE ~Stoppable(old, q.at)
  <2>1. PICK a : /\ a = IF old.sub = q.at.sub THEN Shown(r, old) ELSE Refusal
                 /\ StopAnswer(q, a) /\ runs' = runs
    BY <1>1, <1>2, <1>4 DEF ServeStop
  <2>2. a \in Answers /\ AnswerOk(a)'
    <3>1. CASE a = Refusal
      BY <3>1, RefusalFacts DEF AnswerOk
    <3>2. CASE a = Shown(r, old)
      <4>1. r \in Runs' /\ old = runs'[r]
        BY <1>2, <2>1 DEF Runs
      <4> QED BY <1>3, <3>2, <4>1, ShownStands
    <3> QED BY <2>1, <3>1, <3>2
  <2>3. RunPart /\ Longer
    BY <1>0, <2>1, SameRuns DEF Longer
  <2>4. TabPart
    BY <1>0, <2>1, <2>2, <2>3, StopAnswered
  <2> QED BY <1>0, <2>1, <2>4, Types, Unchanged
<1>5. CASE Stoppable(old, q.at)
  <2>0. old.sub = q.at.sub /\ old.st \in {"WORKING", "INTERRUPTED"}
    BY <1>5 DEF Stoppable
  <2>1. /\ runs' = [runs EXCEPT ![r].st = "TERMINATED", ![r].stopped = TRUE, ![r].ver = @ + 1]
        /\ StopAnswer(q, Shown(r, runs'[r]))
    BY <1>1, <1>2, <1>5 DEF ServeStop
  <2>11. PICK v \in Nat : v = old.ver + 1
    BY <1>3
  <2>2. PICK row : row = [old EXCEPT !.st = "TERMINATED", !.stopped = TRUE, !.ver = v]
    OBVIOUS
  <2>3. /\ row \in RunRows /\ row.conv = old.conv /\ row.ver = v /\ row.wait = old.wait
        /\ row.st = "TERMINATED" /\ row.card = old.card
    BY <2>2 DEF RunRows, Statuses, Terminal
  <2>4. runs' = [runs EXCEPT ![r] = row]
    BY <1>2, <2>1, <2>2, <2>11
  <2>5. RunPart /\ Runs' = Runs /\ runs'[r] = row /\ \A s \in Runs \ {r} : runs'[s] = runs[s]
    <3>0. /\ old.wait \in Nat /\ old.wait <= sys.moves + 1 /\ old.card <= old.wait
          /\ sys' = sys /\ sys.moves \in Nat
      BY <1>0, <1>2, RowTypes, Types DEF SubmitInv, Numbered
    <3>1. /\ row.conv = runs[r].conv /\ row.ver >= runs[r].ver /\ row.wait = runs[r].wait
          /\ row.wait >= runs[r].wait
          /\ row.st # "WAITING_FOR_CONFIRMATION" /\ row.st \notin Active
          /\ row.wait <= sys'.moves + 1 /\ row.card <= row.wait
          /\ sys.moves <= sys'.moves /\ sys'.moves \in Nat
      BY <1>2, <1>3, <2>11, <2>3, <3>0 DEF Active
    <3> QED BY <2>3, <2>4, <3>1, RunMoves
  <2>6. OpPart /\ Longer /\ NetPart
    BY <1>0, <2>5, SameOps, NetShrinks
  <2>7. PICK a : a = Shown(r, row)
    OBVIOUS
  <2>8. a \in Answers /\ AnswerOk(a)'
    BY <1>3, <2>3, <2>5, <2>7, ShownStands
  <2>9. TabPart
    BY <1>0, <2>1, <2>5, <2>6, <2>7, <2>8, StopAnswered
  <2>10. Target
    <3>1. q.at = [run |-> r, sub |-> old.sub]
      BY <1>0, <1>1, <2>0 DEF Stops
    <3>2. runs'[r].st # "WORKING" /\ \E p \in net : p.type = "stop" /\ p.at = [run |-> r, sub |-> runs[r].sub]
      BY <1>0, <1>2, <2>3, <2>5, <3>1
    <3> QED BY <2>5, <3>2 DEF Target
  <2> QED BY <1>0, <2>5, <2>6, <2>9, <2>10, Types, Parts DEF StepOk
<1> QED BY <1>4, <1>5

\* A request is served.
LEMMA ServeStep ==
  ASSUME SubmitInv, NEW q \in net, Serve(q)
  PROVE  StepOk
BY CreateStep, SubmitStep, DecisionStep, ResumeStep, StopStep DEF Serve

-----------------------------------------------------------------------------
(* The agent *)

\* A run at work moves on.
LEMMA MoveStep ==
  ASSUME SubmitInv, NEW r \in Runs, NEW row \in RunRows, Move(r, row),
         row.conv = runs[r].conv, row.ver = runs[r].ver, row.stopped = runs[r].stopped,
         row.wait \in {runs[r].wait, runs[r].wait + 1}, row.card <= row.wait,
         row.st = "WAITING_FOR_CONFIRMATION" => row.wait = runs[r].wait + 1
  PROVE  StepOk
<1>0. /\ runs[r].st = "WORKING" /\ sys' = [sys EXCEPT !.moves = @ + 1]
      /\ runs' = [runs EXCEPT ![r] = [row EXCEPT !.ver = @ + 1]]
      /\ UNCHANGED <<convs, subs, hits, ops, tab, net>>
  BY DEF Move
<1>1. /\ sys \in SysTypes /\ sys.moves \in Nat /\ runs[r].wait \in Nat /\ runs[r].ver \in Nat
      /\ runs[r].wait <= sys.moves + 1 /\ row.ver \in Nat
  BY Types, RunTypes, RowTypes DEF SubmitInv, Numbered
<1>2. sys' \in SysTypes /\ sys'.moves = sys.moves + 1
  BY <1>0, <1>1 DEF SysTypes
<1>10. PICK v \in Nat : v = row.ver + 1
  BY <1>1
<1>3. PICK new : new = [row EXCEPT !.ver = v]
  OBVIOUS
<1>4. /\ new \in RunRows /\ new.conv = row.conv /\ new.ver = v /\ new.wait = row.wait
      /\ new.st = row.st /\ new.card = row.card /\ new.stopped = row.stopped
  BY <1>3 DEF RunRows
<1>5. runs' = [runs EXCEPT ![r] = new]
  BY <1>0, <1>3, <1>10
<1>6. RunPart /\ Runs' = Runs /\ runs'[r] = new /\ \A s \in Runs \ {r} : runs'[s] = runs[s]
  <2>1. /\ new.conv = runs[r].conv /\ new.ver >= runs[r].ver /\ new.wait >= runs[r].wait
        /\ (new.ver = runs[r].ver => new.wait = runs[r].wait)
        /\ new.wait = runs[r].wait /\ new.st = "WAITING_FOR_CONFIRMATION"
             => runs[r].st = "WAITING_FOR_CONFIRMATION"
        /\ new.st \in Active => runs[r].st \in Active
        /\ new.wait <= sys'.moves + 1 /\ new.card <= new.wait
        /\ sys.moves <= sys'.moves /\ sys'.moves \in Nat
    BY <1>0, <1>1, <1>2, <1>10, <1>4 DEF Active
  <2> QED BY <1>4, <1>5, <2>1, RunMoves
<1>7. OpPart /\ Longer
  BY <1>0, <1>6, SameOps
<1>8. NetPart /\ TabPart
  BY <1>0, <1>6, <1>7, NetShrinks, SameTabs
<1>9. Target
  BY <1>0, <1>4, <1>6 DEF Target
<1> QED BY <1>0, <1>2, <1>6, <1>7, <1>8, <1>9, Types, Parts DEF StepOk

\* The call that a run held is recorded.
LEMMA RecordedFacts ==
  ASSUME NEW row \in RunRows, row.card # 0 => row.card \in 1..MaxMoves, NEW new, new = Recorded(row)
  PROVE  /\ new \in RunRows /\ new.conv = row.conv /\ new.ver = row.ver /\ new.wait = row.wait
         /\ new.stopped = row.stopped /\ new.st = row.st /\ new.card \in {row.card, 0}
<1>1. CASE row.card # 0 /\ row.decision = "confirm"
  <2>1. new = [row EXCEPT !.card = 0, !.decision = "none", !.done = @ \cup {row.card}]
    BY <1>1 DEF Recorded
  <2>2. PICK d \in SUBSET (1..MaxMoves) : d = row.done \cup {row.card}
    BY <1>1, RowTypes
  <2>3. new = [row EXCEPT !.card = 0, !.decision = "none", !.done = d]
    BY <2>1, <2>2
  <2>4. PICK z \in Nat, dec \in {"none", "confirm", "reject"} : z = 0 /\ dec = "none"
    OBVIOUS
  <2>5. new = [row EXCEPT !.card = z, !.decision = dec, !.done = d]
    BY <2>3, <2>4
  <2> QED BY <2>4, <2>5 DEF RunRows
<1>2. CASE ~(row.card # 0 /\ row.decision = "confirm")
  BY <1>2 DEF Recorded
<1> QED BY <1>1, <1>2

\* Whatever the agent does next.
LEMMA AgentStep ==
  ASSUME SubmitInv, NEW r \in Runs, Ask(r) \/ PutCard(r) \/ Pause(r) \/ Succeed(r) \/ Fail(r)
  PROVE  StepOk
<1>0. sys.moves < MaxMoves
  BY DEF Ask, PutCard, Pause, Succeed, Fail, Move
<1>1. PICK old \in RunRows : old = runs[r]
  BY RunTypes DEF SubmitInv
<1>11. PICK rec : rec = Recorded(old)
  OBVIOUS
<1>2. /\ old.wait \in Nat /\ old.card \in Nat /\ old.ver \in Nat /\ old.wait <= sys.moves + 1
      /\ old.card <= old.wait /\ sys.moves \in Nat /\ MaxMoves \in Nat
  BY <1>1, <1>11, RowTypes, Types, SubmissionAssumption DEF SubmitInv, Numbered
<1>3. old.card # 0 => old.card \in 1..MaxMoves
  BY <1>0, <1>2
<1>4. /\ rec \in RunRows /\ rec.conv = old.conv /\ rec.ver = old.ver /\ rec.wait = old.wait
      /\ rec.stopped = old.stopped /\ rec.st = old.st /\ rec.card \in {old.card, 0}
  BY <1>1, <1>11, <1>3, RecordedFacts
<1>5. ASSUME NEW from \in {old, rec}, NEW st \in Statuses \ {"WAITING_FOR_CONFIRMATION"}, NEW b \in BOOLEAN,
             NEW w \in {old.wait, old.wait + 1}, NEW row,
             row = [from EXCEPT !.st = st, !.wait = w, !.retryable = b], Move(r, row)
      PROVE  StepOk
  <2>1. from \in RunRows /\ w \in Nat /\ from.conv = old.conv /\ from.ver = old.ver
        /\ from.stopped = old.stopped /\ from.card <= w
    BY <1>2, <1>4
  <2>2. /\ row \in RunRows /\ row.conv = from.conv /\ row.ver = from.ver /\ row.stopped = from.stopped
        /\ row.wait = w /\ row.card = from.card /\ row.st = st
    BY <2>1, <1>5 DEF RunRows
  <2> QED BY <1>1, <1>11, <1>5, <2>1, <2>2, MoveStep
<1>6. CASE Ask(r)
  <2>1. PICK row : row = [rec EXCEPT !.st = "WAITING_FOR_USER", !.wait = rec.wait + 1]
    OBVIOUS
  <2>2. row = [rec EXCEPT !.st = "WAITING_FOR_USER", !.wait = old.wait + 1, !.retryable = rec.retryable]
    BY <1>4, <2>1 DEF RunRows
  <2>3. Move(r, row)
    BY <1>1, <1>11, <1>6, <2>1 DEF Ask
  <2>4. "WAITING_FOR_USER" \in Statuses \ {"WAITING_FOR_CONFIRMATION"} /\ rec.retryable \in BOOLEAN
    BY <1>4, RowTypes DEF Statuses
  <2> QED BY <1>5, <2>2, <2>3, <2>4
<1>7. CASE PutCard(r)
  <2>1. PICK n \in Nat : n = old.wait + 1
    BY <1>2
  <2>2. PICK row : row = [rec EXCEPT !.st = "WAITING_FOR_CONFIRMATION", !.wait = n, !.card = n]
    OBVIOUS
  <2>3. row = [rec EXCEPT !.st = "WAITING_FOR_CONFIRMATION", !.wait = @ + 1, !.card = runs[r].wait + 1]
    BY <1>1, <1>11, <1>4, <2>1, <2>2
  <2>4. /\ row \in RunRows /\ row.conv = rec.conv /\ row.ver = rec.ver /\ row.stopped = rec.stopped
        /\ row.wait = n /\ row.card = n
    BY <1>4, <2>2 DEF RunRows, Statuses, Active
  <2>5. Move(r, row)
    BY <1>1, <1>11, <1>7, <2>3 DEF PutCard
  <2> QED BY <1>1, <1>11, <1>4, <2>1, <2>4, <2>5, MoveStep
<1>8. CASE Pause(r)
  <2>1. PICK from \in {old, rec} : Move(r, [from EXCEPT !.st = "INTERRUPTED"])
    BY <1>1, <1>11, <1>8 DEF Pause
  <2>2. from \in RunRows /\ from.wait = old.wait
    BY <1>4, <2>1
  <2>3. PICK row : row = [from EXCEPT !.st = "INTERRUPTED"]
    OBVIOUS
  <2>4. row = [from EXCEPT !.st = "INTERRUPTED", !.wait = old.wait, !.retryable = from.retryable]
    BY <2>2, <2>3 DEF RunRows
  <2>5. "INTERRUPTED" \in Statuses \ {"WAITING_FOR_CONFIRMATION"} /\ from.retryable \in BOOLEAN
    BY <2>2, RowTypes DEF Statuses, Active
  <2> QED BY <1>5, <2>1, <2>3, <2>4, <2>5
<1>9. CASE Succeed(r)
  <2>1. PICK row : row = [rec EXCEPT !.st = "SUCCEEDED"]
    OBVIOUS
  <2>2. row = [rec EXCEPT !.st = "SUCCEEDED", !.wait = old.wait, !.retryable = rec.retryable]
    BY <1>4, <2>1 DEF RunRows
  <2>3. Move(r, row)
    BY <1>1, <1>11, <1>9, <2>1 DEF Succeed
  <2>4. "SUCCEEDED" \in Statuses \ {"WAITING_FOR_CONFIRMATION"} /\ rec.retryable \in BOOLEAN
    BY <1>4, RowTypes DEF Statuses, Terminal
  <2> QED BY <1>5, <2>2, <2>3, <2>4
<1>10. CASE Fail(r)
  <2>0. "TERMINATED" \in Statuses \ {"WAITING_FOR_CONFIRMATION"} /\ old.retryable \in BOOLEAN
    BY RowTypes DEF Statuses, Terminal
  <2>1. CASE Move(r, [old EXCEPT !.st = "TERMINATED"])
    <3>1. PICK row : row = [old EXCEPT !.st = "TERMINATED"]
      OBVIOUS
    <3>2. row = [old EXCEPT !.st = "TERMINATED", !.wait = old.wait, !.retryable = old.retryable]
      BY <3>1 DEF RunRows
    <3> QED BY <1>5, <2>0, <2>1, <3>1, <3>2
  <2>2. CASE Move(r, [rec EXCEPT !.st = "TERMINATED", !.retryable = TRUE])
    <3>1. PICK row : row = [rec EXCEPT !.st = "TERMINATED", !.retryable = TRUE]
      OBVIOUS
    <3>2. row = [rec EXCEPT !.st = "TERMINATED", !.wait = old.wait, !.retryable = TRUE]
      BY <1>4, <3>1 DEF RunRows
    <3> QED BY <1>5, <2>0, <2>2, <3>1, <3>2
  <2> QED BY <1>1, <1>11, <1>10, <2>1, <2>2 DEF Fail
<1> QED BY <1>6, <1>7, <1>8, <1>9, <1>10

-----------------------------------------------------------------------------
(* The tabs *)

\* A step of a tab leaves the runs and the operations as they are.
LEMMA Quiet ==
  ASSUME SubmitInv, UNCHANGED <<server, ops>>, sys'.moves = sys.moves
  PROVE  RunPart /\ OpPart /\ Longer /\ Target /\ convs' \subseteq Convs
<1>1. UNCHANGED <<convs, runs, subs, hits, ops>>
  BY DEF server
<1>2. RunPart
  BY <1>1, SameRuns
<1>3. OpPart /\ Longer
  BY <1>1, <1>2, SameOps
<1>4. Target
  BY <1>1 DEF Target
<1> QED BY <1>1, <1>2, <1>3, <1>4, Types

\* A tab changes, and may send a request.
LEMMA TabStep ==
  ASSUME SubmitInv, UNCHANGED <<server, ops>>, sys' \in SysTypes, sys'.moves = sys.moves,
         NEW t \in Tabs, NEW row \in TabRows, tab' = [tab EXCEPT ![t] = row], TabOk(row),
         net' = net \/ \E q \in Requests : RequestOk(q) /\ net' = net \cup {q}
  PROVE  StepOk
<1>1. RunPart /\ OpPart /\ Longer /\ Target /\ convs' \subseteq Convs
  BY Quiet
<1>2. TabPart
  BY <1>1, TabStays, TabMoves
<1>3. NetPart
  <2>1. CASE net' = net
    BY <1>1, <2>1, NetShrinks DEF server
  <2>2. CASE \E q \in Requests : RequestOk(q) /\ net' = net \cup {q}
    <3>1. PICK q \in Requests : RequestOk(q) /\ net' = net \cup {q}
      BY <2>2
    <3>2. RequestOk(q)'
      BY <3>1 DEF RequestOk, GoesTo, server, Runs
    <3> QED BY <1>1, <3>1, <3>2, NetGrows
  <2> QED BY <2>1, <2>2
<1> QED BY <1>1, <1>2, <1>3, Parts DEF StepOk

\* A tab as it is.
LEMMA TabFacts ==
  ASSUME SubmitInv, NEW t \in Tabs
  PROVE  \E old \in TabRows : old = tab[t] /\ TabOk(old)
BY Types DEF SubmitInv, TabsOk

\* A run as it is now is known.
LEMMA KnownNow ==
  ASSUME SubmitInv, NEW r \in Runs
  PROVE  Known(r, runs[r])
BY RunTypes, RowTypes DEF SubmitInv, Known, AsSeen

\* What a tab may show.
Showing(view, conv) ==
  /\ view \in [1..MaxRuns -> RunRows \cup {None}]
  /\ \A r \in 1..MaxRuns : view[r] # None => Known(r, view[r]) /\ view[r].conv = conv

\* A tab shows a row that it was given.
LEMMA ShowsRow ==
  ASSUME NEW view, NEW conv, Showing(view, conv), NEW r, NEW row, Known(r, row), row.conv = conv
  PROVE  Showing([view EXCEPT ![r] = row], conv)
<1>1. row \in RunRows
  BY DEF Known
<1> QED BY <1>1 DEF Showing

\* Nothing is shown.
LEMMA ShowsNothing ==
  ASSUME NEW conv
  PROVE  Showing(Blank, conv)
BY DEF Showing, Blank

\* A row of a tab that shows what it may, and has nothing pending it cannot have.
LEMMA TabFine ==
  ASSUME NEW row \in TabRows, Showing(row.view, row.conv),
         row.op # 0 => GoesTo(row.op, row.to),
         row.pc # "idle" => row.op # 0, row.pc = "send" => row.to # None,
         row.pc = "create" => row.to = None, row.answer = None, AnswerOk(row.stopped),
         row.accepted # NoStop => row.accepted.run \in Runs
  PROVE  TabOk(row)
BY DEF TabOk, Showing, AnswerOk

\* A tab shows what it may.
LEMMA TabShows ==
  ASSUME NEW row \in TabRows, TabOk(row)
  PROVE  Showing(row.view, row.conv)
BY TabTypes DEF TabOk, Showing

\* The tab loads the runs of its conversation.
LEMMA RefreshStep ==
  ASSUME SubmitInv, NEW t \in Tabs, Refresh(t)
  PROVE  StepOk
<1>1. PICK old \in TabRows : old = tab[t] /\ TabOk(old)
  BY TabFacts
<1>2. PICK view : view = Refreshed(t)
  OBVIOUS
<1>3. Showing(view, old.conv)
  <2>1. Showing(old.view, old.conv)
    BY <1>1, TabShows
  <2>2. \A r \in 1..MaxRuns :
          view[r] = IF r \in Runs /\ Newer(t, r, runs[r]) THEN runs[r] ELSE old.view[r]
    BY <1>1, <1>2 DEF Refreshed
  <2>3. \A r \in Runs : Known(r, runs[r]) /\ runs[r] \in RunRows
    BY KnownNow, RunTypes DEF SubmitInv
  <2>4. \A r \in Runs : Newer(t, r, runs[r]) => runs[r].conv = old.conv
    BY <1>1 DEF Newer
  <2>5. view \in [1..MaxRuns -> RunRows \cup {None}]
    BY <1>1, <1>2, <2>1, <2>3 DEF Refreshed, Showing
  <2> QED BY <2>1, <2>2, <2>3, <2>4, <2>5 DEF Showing
<1>4. PICK row : row = [old EXCEPT !.view = view]
  OBVIOUS
<1>5. /\ row \in TabRows /\ row.view = view /\ row.conv = old.conv /\ row.op = old.op /\ row.to = old.to
      /\ row.accepted = old.accepted /\ row.pc = old.pc /\ row.answer = old.answer
      /\ row.stopped = old.stopped
  BY <1>3, <1>4 DEF TabRows, Showing
<1>6. TabOk(row)
  BY <1>1, <1>3, <1>5 DEF TabOk, Showing
<1>7. tab' = [tab EXCEPT ![t] = row] /\ UNCHANGED <<server, ops, net, sys>>
  BY <1>1, <1>2, <1>4 DEF Refresh
<1> QED BY <1>5, <1>6, <1>7, Types, TabStep

\* A request to serve an operation.
LEMMA SendFacts ==
  ASSUME NEW t \in Tabs, NEW k \in Ops, NEW n \in Nat, NEW to \in Convs \cup {None},
         NEW q, q = Send(t, k, n, to)
  PROVE  /\ q \in Requests /\ q.op = k /\ q.to = to /\ q.n = n
         /\ q.type = (IF to = None THEN "create" ELSE "send")
<1>1. PICK type \in {"create", "send"} : type = IF to = None THEN "create" ELSE "send"
  OBVIOUS
<1>2. q = [type |-> type, op |-> k, tab |-> t, n |-> n, to |-> to]
  BY <1>1 DEF Send
<1> QED BY <1>1, <1>2 DEF Requests

\* A tab that awaits an answer.
LEMMA AwaitFacts ==
  ASSUME NEW old \in TabRows, NEW q, q.type \in {"create", "send"}, q.n \in Nat,
         NEW row, row = Await(old, q)
  PROVE  /\ row \in TabRows /\ row.view = old.view /\ row.conv = old.conv /\ row.op = old.op
         /\ row.to = old.to /\ row.accepted = old.accepted /\ row.pc = q.type /\ row.answer = None
         /\ row.stopped = old.stopped
BY DEF Await, TabRows

\* What a tab offers is about a run it shows.
LEMMA OfferFacts ==
  ASSUME SubmitInv, NEW t \in Tabs, NEW i \in Offers(t)
  PROVE  /\ i \in Intentions
         /\ i.kind # "message" =>
              i.run \in Runs /\ AsSeen(i.run, i) /\ runs[i.run].conv = tab[t].conv /\ tab[t].conv # None
<1>1. PICK old \in TabRows : old = tab[t] /\ TabOk(old)
  BY TabFacts
<1>2. PICK view : view = old.view /\ Showing(view, old.conv)
  BY <1>1, TabShows
<1>3. ASSUME NEW r \in 1..MaxRuns, tab[t].view[r] # None, NEW kind \in Kinds,
             NEW j, j = About(t, kind, r)
      PROVE  /\ j \in Intentions /\ j.run \in Runs /\ AsSeen(j.run, j)
             /\ runs[j.run].conv = tab[t].conv /\ tab[t].conv # None
  <2>1. r \in 1..MaxRuns /\ view[r] # None
    BY <1>1, <1>2, <1>3
  <2>2. PICK row \in RunRows : row = view[r] /\ Known(r, row) /\ row.conv = old.conv
    BY <1>2, <2>1 DEF Showing, Known
  <2>3. row.wait \in Nat /\ row.ver \in Nat /\ row.sub \in 0..MaxOps /\ row.conv \in Convs
    BY RowTypes
  <2>4. j = [kind |-> kind, run |-> r, wait |-> row.wait, ver |-> row.ver, sub |-> row.sub]
    BY <1>1, <1>2, <1>3, <2>2 DEF About
  <2>5. j \in Intentions /\ j.run = r /\ j.wait = row.wait /\ j.ver = row.ver
    BY <2>1, <2>3, <2>4 DEF Intentions
  <2>6. AsSeen(r, j) /\ r \in Runs /\ runs[r].conv = tab[t].conv
    BY <1>1, <2>2, <2>5 DEF Known, AsSeen
  <2>7. tab[t].conv # None
    BY <1>1, <2>2, <2>3, SubmissionAssumption DEF Convs
  <2> QED BY <2>5, <2>6, <2>7
<1>4. CASE i = [kind |-> "message", run |-> 0, wait |-> 0, ver |-> 0, sub |-> 0]
  BY <1>4, SubmissionAssumption DEF Intentions, Kinds
<1>5. CASE i # [kind |-> "message", run |-> 0, wait |-> 0, ver |-> 0, sub |-> 0]
  <2>1. \/ \E r \in OnScreen(t, {"WAITING_FOR_USER"}) : i = About(t, "reply", r)
        \/ \E d \in {"confirm", "reject"}, r \in OnScreen(t, {"WAITING_FOR_CONFIRMATION"}) : i = About(t, d, r)
        \/ \E r \in OnScreen(t, {"SUCCEEDED"}) : i = About(t, "regenerate", r)
        \/ \E r \in OnScreen(t, Terminal) : i = About(t, "retry", r)
        \/ \E r \in OnScreen(t, {"INTERRUPTED"}) : i = About(t, "resume", r)
    BY <1>5 DEF Offers, Writings
  <2>2. \A s : \A r \in OnScreen(t, s) : r \in 1..MaxRuns /\ tab[t].view[r] # None
    BY DEF OnScreen
  <2>3. {"reply", "confirm", "reject", "regenerate", "retry", "resume"} \subseteq Kinds
    BY DEF Kinds
  <2>4. PICK r \in 1..MaxRuns, kind \in Kinds : tab[t].view[r] # None /\ i = About(t, kind, r)
    BY <2>1, <2>2, <2>3
  <2> QED BY <1>3, <2>4
<1> QED BY <1>4, <1>5

\* An operation is begun.
LEMMA PressStep ==
  ASSUME SubmitInv, NEW t \in Tabs, Press(t)
  PROVE  StepOk
<1>1. PICK old \in TabRows : old = tab[t] /\ TabOk(old)
  BY TabFacts
<1>2. PICK i \in Offers(t) :
        LET k == Len(ops) + 1
            q == Send(t, k, 1, tab[t].conv) IN
        /\ ops' = Append(ops, i)
        /\ net' = net \cup {q}
        /\ tab' = [tab EXCEPT ![t] = Await([@ EXCEPT !.op = k, !.to = tab[t].conv], q)]
  BY DEF Press
<1>3. /\ i \in Intentions
      /\ i.kind # "message" =>
           i.run \in Runs /\ AsSeen(i.run, i) /\ runs[i.run].conv = old.conv /\ old.conv # None
  BY <1>1, OfferFacts
<1>4. UNCHANGED <<convs, runs, subs, hits, sys>> /\ Len(ops) < MaxOps
  BY DEF Press, server
<1>5. PICK k \in Ops : k = Len(ops) + 1
  BY <1>4, OpTypes, SubmissionAssumption DEF SubmitInv, Ops
<1>6. PICK c \in Convs \cup {None} : c = old.conv
  BY TabTypes
<1>17. PICK q : q = Send(t, k, 1, c)
  OBVIOUS
<1>7. /\ q \in Requests /\ q.op = k /\ q.to = c /\ q.n = 1
      /\ q.type = (IF c = None THEN "create" ELSE "send")
  BY <1>6, <1>17, SendFacts
<1>8. /\ ops' = Append(ops, i) /\ net' = net \cup {q}
      /\ tab' = [tab EXCEPT ![t] = Await([old EXCEPT !.op = k, !.to = c], q)]
  BY <1>1, <1>2, <1>5, <1>6, <1>17
<1>9. /\ ops' \in Seq(Intentions) /\ DOMAIN ops' = DOMAIN ops \cup {k} /\ k \notin DOMAIN ops
      /\ ops'[k] = i /\ \A j \in DOMAIN ops : ops'[j] = ops[j]
  <2>1. ops \in Seq(Intentions) /\ Len(ops) \in Nat /\ DOMAIN ops = 1..Len(ops)
    BY OpTypes DEF SubmitInv
  <2>2. /\ ops' \in Seq(Intentions) /\ Len(ops') = Len(ops) + 1
        /\ ops'[Len(ops) + 1] = i /\ \A j \in 1..Len(ops) : ops'[j] = ops[j]
    BY <1>3, <1>8, <2>1, AppendProperties
  <2>3. DOMAIN ops' = 1..Len(ops')
    BY <2>2, LenProperties
  <2> QED BY <1>5, <2>1, <2>2, <2>3
<1>10. Longer
  BY <1>9 DEF Longer
<1>11. RunPart
  BY <1>4, SameRuns
<1>12. OpPart
  <2>1. ASSUME NEW j \in Ops
        PROVE  j \in DOMAIN ops' /\ j \notin DOMAIN ops =>
                 (ops'[j].kind # "message" => ops'[j].run \in Runs' /\ AsSeen(ops[j].run, ops[j])')
    BY <1>3, <1>4, <1>9 DEF AsSeen, Runs
  <2>2. \A j \in Ops : OpOk(j)'
    BY <1>4, <1>10, <1>11, <2>1, OpStays
  <2> QED BY <1>4, <1>9, <2>2, Types DEF OpPart, OpsOk
<1>13. GoesTo(k, c)'
  <2>1. k \in DOMAIN ops' /\ ops'[k] = i /\ runs' = runs
    BY <1>4, <1>9
  <2> QED BY <1>3, <1>6, <1>17, <2>1 DEF GoesTo
<1>14. NetPart
  <2>1. RequestOk(q)'
    BY <1>7, <1>9, <1>13 DEF RequestOk
  <2> QED BY <1>7, <1>8, <1>10, <1>11, <2>1, NetGrows
<1>15. TabPart
  <2>1. PICK mid : mid = [old EXCEPT !.op = k, !.to = c]
    OBVIOUS
  <2>2. /\ mid \in TabRows /\ mid.view = old.view /\ mid.conv = old.conv /\ mid.op = k /\ mid.to = c
        /\ mid.accepted = old.accepted /\ mid.stopped = old.stopped
    <3>1. k \in 0..MaxOps
      BY SubmissionAssumption DEF Ops
    <3> QED BY <2>1, <3>1 DEF TabRows
  <2>3. PICK row : row = Await(mid, q)
    OBVIOUS
  <2>4. /\ row \in TabRows /\ row.view = old.view /\ row.conv = old.conv /\ row.op = k
        /\ row.to = c /\ row.accepted = old.accepted /\ row.pc = q.type /\ row.answer = None
        /\ row.stopped = old.stopped
    BY <1>7, <2>2, <2>3, AwaitFacts
  <2>5. TabOk(old)'
    BY <1>1, <1>10, <1>11, TabStays
  <2>6. k # 0
    BY DEF Ops
  <2>7. TabOk(row)'
    BY <1>7, <1>13, <2>4, <2>5, <2>6 DEF TabOk, AnswerOk
  <2>8. tab' = [tab EXCEPT ![t] = row]
    BY <1>8, <2>1, <2>3
  <2> QED BY <1>10, <1>11, <2>4, <2>7, <2>8, TabMoves
<1>16. Target
  BY <1>4 DEF Target
<1> QED BY <1>4, <1>11, <1>12, <1>14, <1>15, <1>16, Types, Parts DEF StepOk

\* A request to stop what a tab means.
LEMMA StopRequest ==
  ASSUME NEW t \in Tabs, NEW at \in Stops, at.run \in Runs, AskStop(t, at)
  PROVE  \E q \in Requests : RequestOk(q) /\ net' = net \cup {q}
<1>1. PICK q : q = [type |-> "stop", tab |-> t, at |-> at]
  OBVIOUS
<1>2. q \in Requests /\ q.type = "stop" /\ q.at = at
  BY <1>1 DEF Requests
<1> QED BY <1>1, <1>2 DEF AskStop, RequestOk

\* What is pending is sent again, or its stop is.
LEMMA CheckStep ==
  ASSUME SubmitInv, NEW t \in Tabs, Check(t)
  PROVE  StepOk
<1>1. PICK old \in TabRows : old = tab[t] /\ TabOk(old)
  BY TabFacts
<1>2. /\ old.op # 0 /\ old.pc = "idle" /\ UNCHANGED <<server, ops>> /\ sys' = sys
      /\ sys' \in SysTypes /\ old.n \in Nat
  BY <1>1, Types, TabTypes DEF Check
<1>3. CASE old.accepted # NoStop
  <2>1. PICK at \in Stops : at = old.accepted /\ at.run \in Runs
    BY <1>1, <1>3, TabTypes DEF TabOk
  <2>2. AskStop(t, at) /\ tab' = [tab EXCEPT ![t].stop = at]
    BY <1>1, <1>3, <2>1 DEF Check
  <2>3. PICK row : row = [old EXCEPT !.stop = at]
    OBVIOUS
  <2>4. /\ row \in TabRows /\ row.view = old.view /\ row.conv = old.conv /\ row.op = old.op
        /\ row.to = old.to /\ row.accepted = old.accepted /\ row.pc = old.pc
        /\ row.answer = old.answer /\ row.stopped = old.stopped
    BY <2>3 DEF TabRows
  <2>5. TabOk(row)
    BY <1>1, <2>4 DEF TabOk
  <2>6. tab' = [tab EXCEPT ![t] = row]
    BY <1>1, <2>2, <2>3
  <2> QED BY <1>2, <2>1, <2>2, <2>4, <2>5, <2>6, StopRequest, TabStep
<1>4. CASE old.accepted = NoStop
  <2>1. PICK n \in Nat : n = old.n + 1
    BY <1>2
  <2>2. PICK k \in Ops, c \in Convs \cup {None} : k = old.op /\ c = old.to /\ GoesTo(k, c)
    BY <1>1, <1>2, TabTypes DEF TabOk, Ops
  <2>3. PICK q : q = Send(t, k, n, c)
    OBVIOUS
  <2>4. /\ q \in Requests /\ q.op = k /\ q.to = c /\ q.n = n
        /\ q.type = (IF c = None THEN "create" ELSE "send")
    BY <2>3, SendFacts
  <2>5. RequestOk(q)
    BY <2>2, <2>4 DEF RequestOk, GoesTo
  <2>6. PICK row : row = Await(old, q)
    OBVIOUS
  <2>7. /\ row \in TabRows /\ row.view = old.view /\ row.conv = old.conv /\ row.op = k
        /\ row.to = c /\ row.accepted = old.accepted /\ row.pc = q.type /\ row.answer = None
        /\ row.stopped = old.stopped
    BY <2>2, <2>4, <2>6, AwaitFacts
  <2>8. TabOk(row)
    BY <1>1, <1>2, <2>2, <2>4, <2>7 DEF TabOk, AnswerOk
  <2>9. net' = net \cup {q} /\ tab' = [tab EXCEPT ![t] = row]
    BY <1>1, <1>4, <2>1, <2>2, <2>3, <2>6 DEF Check
  <2> QED BY <1>2, <2>4, <2>5, <2>7, <2>8, <2>9, TabStep
<1> QED BY <1>3, <1>4

\* A tab without a pending operation.
LEMMA ClearedFacts ==
  ASSUME NEW old \in TabRows, NEW row, row = Cleared(old)
  PROVE  /\ row \in TabRows /\ row.view = old.view /\ row.conv = old.conv /\ row.op = 0
         /\ row.accepted = NoStop /\ row.pc = "idle" /\ row.answer = None /\ row.stopped = old.stopped
<1>1. PICK z : z = 0 /\ z \in 0..MaxOps /\ z \in Nat
  BY SubmissionAssumption
<1>2. PICK at \in Stops : at = NoStop
  BY <1>1 DEF Stops, NoStop
<1>3. row = [old EXCEPT !.op = z, !.to = None, !.accepted = at, !.wish = FALSE,
                        !.pc = "idle", !.n = z, !.answer = None]
  BY <1>1, <1>2 DEF Cleared
<1> QED BY <1>1, <1>2, <1>3 DEF TabRows

\* A cleared tab is fine if it shows what it may.
LEMMA ClearedOk ==
  ASSUME NEW old \in TabRows, Showing(old.view, old.conv), AnswerOk(old.stopped),
         NEW row, row = Cleared(old)
  PROVE  row \in TabRows /\ TabOk(row)
<1>1. /\ row \in TabRows /\ row.view = old.view /\ row.conv = old.conv /\ row.op = 0
      /\ row.accepted = NoStop /\ row.pc = "idle" /\ row.answer = None /\ row.stopped = old.stopped
  BY ClearedFacts
<1> QED BY <1>1, TabFine

\* A tab shows the row of an answer, if it is of its conversation and not older.
LEMMA ViewedShows ==
  ASSUME NEW t, NEW old \in TabRows, old = tab[t], TabOk(old), NEW r, NEW row, Known(r, row)
  PROVE  Showing(Viewed(t, r, row), old.conv)
<1>1. Showing(old.view, old.conv)
  BY TabShows
<1>2. CASE Newer(t, r, row)
  <2>1. row.conv = old.conv /\ Viewed(t, r, row) = [old.view EXCEPT ![r] = row]
    BY <1>2 DEF Newer, Viewed
  <2>2. PICK new : new = [old.view EXCEPT ![r] = row] /\ Showing(new, old.conv)
    BY <1>1, <2>1, ShowsRow
  <2> QED BY <2>1, <2>2
<1>3. CASE ~Newer(t, r, row)
  BY <1>1, <1>3 DEF Viewed
<1> QED BY <1>2, <1>3

\* The answer to an operation arrives at its tab.
LEMMA ReceiveStep ==
  ASSUME SubmitInv, NEW t \in Tabs, Receive(t)
  PROVE  StepOk
<1>1. PICK old \in TabRows : old = tab[t] /\ TabOk(old)
  BY TabFacts
<1>2. PICK a \in Answers : a = old.answer /\ a # None
  BY <1>1, TabTypes DEF Receive
<1>3. /\ old.pc # "idle" /\ old.op # 0 /\ old.n \in Nat /\ UNCHANGED <<server, ops>> /\ sys' = sys
      /\ sys' \in SysTypes /\ old.pc \in {"idle", "create", "send"} /\ a.ok \in BOOLEAN
      /\ old.wish \in BOOLEAN /\ a.run \in Nat
  BY <1>1, <1>2, Types, TabTypes DEF Receive, TabOk, Answers
<1>4. Showing(old.view, old.conv) /\ AnswerOk(old.stopped)
  BY <1>1, TabShows DEF TabOk
<1>5. CASE old.pc = "create"
  <2>1. PICK k \in Ops, c \in Convs : k = old.op /\ c = k /\ k \in DOMAIN ops /\ ops[k].kind = "message" /\ c # None
    <3>1. old.op \in Ops /\ old.op \in Convs
      BY <1>3, TabTypes DEF Ops, Convs
    <3>2. old.op \in DOMAIN ops /\ ops[old.op].kind = "message"
      BY <1>1, <1>3, <1>5 DEF TabOk, GoesTo
    <3>3. old.op # None
      BY <3>1, SubmissionAssumption DEF Ops
    <3> QED BY <3>1, <3>2, <3>3
  <2>2. PICK q : q = Send(t, k, old.n, c)
    OBVIOUS
  <2>3. q \in Requests /\ q.op = k /\ q.to = c /\ q.n = old.n /\ q.type = "send"
    BY <1>3, <2>1, <2>2, SendFacts
  <2>4. GoesTo(k, c) /\ RequestOk(q)
    BY <2>1, <2>3 DEF RequestOk, GoesTo
  <2>5. PICK mid : mid = [old EXCEPT !.to = c, !.conv = c, !.view = Blank]
    OBVIOUS
  <2>6. Showing(Blank, c)
    BY ShowsNothing
  <2>7. /\ mid \in TabRows /\ mid.view = Blank /\ mid.conv = c /\ mid.op = k /\ mid.to = c
        /\ mid.accepted = old.accepted /\ mid.stopped = old.stopped
    <3>1. Blank \in [1..MaxRuns -> RunRows \cup {None}]
      BY <2>6 DEF Showing
    <3> QED BY <2>1, <2>5, <3>1 DEF TabRows
  <2>8. PICK row : row = Await(mid, q)
    OBVIOUS
  <2>9. /\ row \in TabRows /\ row.view = Blank /\ row.conv = c /\ row.op = k
        /\ row.to = c /\ row.accepted = old.accepted /\ row.pc = "send" /\ row.answer = None
        /\ row.stopped = old.stopped
    BY <1>3, <2>3, <2>7, <2>8, AwaitFacts
  <2>10. TabOk(row)
    <3>1. row.op # 0 /\ (row.accepted # NoStop => row.accepted.run \in Runs)
      BY <1>1, <1>3, <2>1, <2>9 DEF TabOk
    <3> QED BY <1>4, <2>1, <2>4, <2>6, <2>9, <3>1, TabFine
  <2>11. net' = net \cup {q} /\ tab' = [tab EXCEPT ![t] = row]
    <3>1. /\ net' = net \cup {Send(t, old.op, old.n, old.op)}
          /\ tab' = [tab EXCEPT ![t] = Await([old EXCEPT !.to = old.op, !.conv = old.op, !.view = Blank],
                                             Send(t, old.op, old.n, old.op))]
      <4>1. tab[t].pc = "create" /\ tab[t].answer.ok
        BY <1>1, <1>2, <1>5 DEF TabOk
      <4> QED BY <1>1, <4>1 DEF Receive
    <3>2. q = Send(t, old.op, old.n, old.op) /\ mid = [old EXCEPT !.to = old.op, !.conv = old.op, !.view = Blank]
      BY <2>1, <2>2, <2>5
    <3> QED BY <2>8, <3>1, <3>2
  <2> QED BY <1>3, <2>3, <2>4, <2>9, <2>10, <2>11, TabStep
<1>6. CASE old.pc = "send" /\ a.ok
  <2>1. Known(a.run, a.row) /\ a.run \in Runs
    BY <1>1, <1>2, <1>6 DEF TabOk, AnswerOk, Known
  <2>2. PICK view : view = Viewed(t, a.run, a.row) /\ Showing(view, old.conv)
    BY <1>1, <2>1, ViewedShows
  <2>3. PICK saw : saw = [old EXCEPT !.answer = None, !.view = view]
    OBVIOUS
  <2>4. /\ saw \in TabRows /\ saw.view = view /\ saw.conv = old.conv /\ saw.op = old.op
        /\ saw.to = old.to /\ saw.stopped = old.stopped /\ saw.answer = None
    BY <2>2, <2>3 DEF TabRows, Showing
  <2>5. PICK at \in Stops : at = Acceptance(t) /\ at.run \in Runs
    <3>1. PICK row \in RunRows : row = a.row
      BY <2>1 DEF Known
    <3>2. Acceptance(t) = [run |-> a.run, sub |-> IF subs[old.op] # 0 THEN old.op ELSE row.sub]
      BY <1>1, <1>2, <3>1 DEF Acceptance
    <3>3. PICK n \in 0..MaxOps : n = IF subs[old.op] # 0 THEN old.op ELSE row.sub
      BY RowTypes, TabTypes
    <3> QED BY <1>3, <2>1, <3>2, <3>3 DEF Stops
  <2>6. CASE ~old.wish
    <3>1. PICK row : row = Cleared(saw)
      OBVIOUS
    <3>2. row \in TabRows /\ TabOk(row)
      BY <1>4, <2>2, <2>4, <3>1, ClearedOk
    <3>3. tab' = [tab EXCEPT ![t] = row] /\ net' = net
      BY <1>1, <1>2, <1>6, <2>2, <2>3, <2>6, <3>1 DEF Receive
    <3> QED BY <1>3, <3>2, <3>3, TabStep
  <2>7. ASSUME NEW row, NEW stop \in Stops, row = [saw EXCEPT !.pc = "idle", !.accepted = at, !.stop = stop]
        PROVE  row \in TabRows /\ TabOk(row)
    <3>1. /\ row \in TabRows /\ row.view = view /\ row.conv = old.conv /\ row.op = old.op
          /\ row.to = old.to /\ row.stopped = old.stopped /\ row.answer = None /\ row.pc = "idle"
          /\ row.accepted = at
      BY <2>4, <2>7 DEF TabRows
    <3>2. row.op # 0 => GoesTo(row.op, row.to)
      BY <1>1, <3>1 DEF TabOk
    <3> QED BY <1>4, <2>2, <2>5, <3>1, <3>2, TabFine
  <2>8. CASE old.wish /\ old.stop = NoStop
    <3>1. PICK row : row = [saw EXCEPT !.pc = "idle", !.accepted = at, !.stop = at]
      OBVIOUS
    <3>2. AskStop(t, at) /\ tab' = [tab EXCEPT ![t] = row]
      BY <1>1, <1>2, <1>6, <2>2, <2>3, <2>5, <2>8, <3>1 DEF Receive
    <3> QED BY <1>3, <2>5, <2>7, <3>1, <3>2, StopRequest, TabStep
  <2>9. CASE old.wish /\ old.stop # NoStop
    <3>1. PICK row : row = [saw EXCEPT !.pc = "idle", !.accepted = at]
      OBVIOUS
    <3>2. saw.stop \in Stops /\ row = [saw EXCEPT !.pc = "idle", !.accepted = at, !.stop = saw.stop]
      BY <2>4, <3>1 DEF TabRows
    <3>3. tab' = [tab EXCEPT ![t] = row] /\ net' = net
      BY <1>1, <1>2, <1>6, <2>2, <2>3, <2>5, <2>9, <3>1 DEF Receive
    <3> QED BY <1>3, <2>7, <3>2, <3>3, TabStep
  <2> QED BY <2>6, <2>8, <2>9
<1>7. CASE ~a.ok
  <2>0. old.pc # "create"
    BY <1>1, <1>2, <1>7 DEF TabOk
  <2>1. CASE ~old.wish
    <3>1. PICK row : row = Cleared(old)
      OBVIOUS
    <3>2. row \in TabRows /\ TabOk(row)
      BY <1>4, <3>1, ClearedOk
    <3>3. tab' = [tab EXCEPT ![t] = row] /\ net' = net
      BY <1>1, <1>2, <1>7, <2>0, <2>1, <3>1 DEF Receive
    <3> QED BY <1>3, <3>2, <3>3, TabStep
  <2>2. CASE old.wish
    <3>1. PICK row : row = [old EXCEPT !.pc = "idle", !.answer = None]
      OBVIOUS
    <3>2. /\ row \in TabRows /\ row.view = old.view /\ row.conv = old.conv /\ row.op = old.op
          /\ row.to = old.to /\ row.stopped = old.stopped /\ row.answer = None /\ row.pc = "idle"
          /\ row.accepted = old.accepted
      BY <3>1 DEF TabRows
    <3>3. TabOk(row)
      BY <1>1, <3>2 DEF TabOk, AnswerOk
    <3>4. tab' = [tab EXCEPT ![t].pc = "idle", ![t].answer = None] /\ net' = net
      BY <1>1, <1>2, <1>7, <2>0, <2>2 DEF Receive
    <3>5. tab' = [tab EXCEPT ![t] = row]
      BY <1>1, <3>1, <3>4
    <3> QED BY <1>3, <3>2, <3>3, <3>4, <3>5, TabStep
  <2> QED BY <2>1, <2>2
<1> QED BY <1>3, <1>5, <1>6, <1>7

\* What a tab would stop is a run that there is.
LEMMA TargetFacts ==
  ASSUME SubmitInv, NEW t \in Tabs, NEW at \in Targets(t)
  PROVE  at \in Stops /\ at.run \in Runs
<1>1. PICK old \in TabRows : old = tab[t] /\ TabOk(old)
  BY TabFacts
<1>2. CASE old.accepted # NoStop
  BY <1>1, <1>2, TabTypes DEF Targets, TabOk
<1>3. CASE old.accepted = NoStop
  <2>1. PICK view : view = old.view /\ Showing(view, old.conv)
    BY <1>1, TabShows
  <2>2. PICK r \in 1..MaxRuns : view[r] # None /\ at = [run |-> r, sub |-> view[r].sub]
    BY <1>1, <1>3, <2>1 DEF Targets, OnScreen
  <2>3. PICK row \in RunRows : row = view[r] /\ Known(r, row)
    BY <2>1, <2>2 DEF Showing, Known
  <2>4. row.sub \in 0..MaxOps /\ r \in Runs
    BY <2>3, RowTypes DEF Known
  <2> QED BY <2>2, <2>3, <2>4 DEF Stops
<1> QED BY <1>2, <1>3

\* The stop button.
LEMMA PressStopStep ==
  ASSUME SubmitInv, NEW t \in Tabs, PressStop(t)
  PROVE  StepOk
<1>1. PICK old \in TabRows : old = tab[t] /\ TabOk(old)
  BY TabFacts
<1>2. UNCHANGED <<server, ops>> /\ sys' \in SysTypes /\ sys'.moves = sys.moves
  BY Types DEF PressStop, SysTypes
<1>3. ASSUME NEW at \in Stops, NEW b \in BOOLEAN, NEW row, row = [old EXCEPT !.stop = at, !.wish = b]
      PROVE  row \in TabRows /\ TabOk(row)
  <2>1. /\ row \in TabRows /\ row.view = old.view /\ row.conv = old.conv /\ row.op = old.op
        /\ row.to = old.to /\ row.stopped = old.stopped /\ row.answer = old.answer /\ row.pc = old.pc
        /\ row.accepted = old.accepted
    BY <1>3 DEF TabRows
  <2> QED BY <1>1, <2>1 DEF TabOk
<1>4. CASE \E at \in Targets(t) :
             AskStop(t, at) /\ tab' = [tab EXCEPT ![t].stop = at, ![t].wish = tab[t].op # 0]
  <2>1. PICK at \in Stops : /\ at.run \in Runs /\ AskStop(t, at)
                            /\ tab' = [tab EXCEPT ![t].stop = at, ![t].wish = tab[t].op # 0]
    BY <1>4, TargetFacts
  <2>2. PICK b \in BOOLEAN : b = (old.op # 0)
    OBVIOUS
  <2>3. PICK row : row = [old EXCEPT !.stop = at, !.wish = b]
    OBVIOUS
  <2>4. tab' = [tab EXCEPT ![t] = row]
    BY <1>1, <2>1, <2>2, <2>3
  <2> QED BY <1>2, <1>3, <2>1, <2>3, <2>4, StopRequest, TabStep
<1>5. CASE tab' = [tab EXCEPT ![t].wish = TRUE] /\ net' = net
  <2>1. PICK row : row = [old EXCEPT !.wish = TRUE]
    OBVIOUS
  <2>2. old.stop \in Stops /\ row = [old EXCEPT !.stop = old.stop, !.wish = TRUE]
    BY <2>1 DEF TabRows
  <2>3. tab' = [tab EXCEPT ![t] = row]
    BY <1>1, <1>5, <2>1
  <2> QED BY <1>2, <1>3, <1>5, <2>2, <2>3, TabStep
<1> QED BY <1>4, <1>5 DEF PressStop

\* The answer to a stop arrives.
LEMMA ReceiveStopStep ==
  ASSUME SubmitInv, NEW t \in Tabs, ReceiveStop(t)
  PROVE  StepOk
<1>1. PICK old \in TabRows : old = tab[t] /\ TabOk(old)
  BY TabFacts
<1>2. PICK a \in Answers : a = old.stopped /\ a # None
  BY <1>1, TabTypes DEF ReceiveStop
<1>3. UNCHANGED <<server, ops, net>> /\ sys' = sys /\ sys' \in SysTypes /\ NoStop \in Stops
  BY Types, SubmissionAssumption DEF ReceiveStop, NoStop, Stops
<1>4. Showing(old.view, old.conv)
  BY <1>1, TabShows
<1>5. CASE a.ok
  <2>1. Known(a.run, a.row)
    BY <1>1, <1>2, <1>5 DEF TabOk, AnswerOk
  <2>2. PICK view : view = IF a.row.conv = old.conv THEN [old.view EXCEPT ![a.run] = a.row] ELSE old.view
    OBVIOUS
  <2>3. Showing(view, old.conv)
    <3>1. CASE a.row.conv = old.conv
      <4>1. PICK new : new = [old.view EXCEPT ![a.run] = a.row] /\ Showing(new, old.conv)
        BY <1>4, <2>1, <3>1, ShowsRow
      <4> QED BY <2>2, <3>1, <4>1
    <3>2. CASE a.row.conv # old.conv
      BY <1>4, <2>2, <3>2
    <3> QED BY <3>1, <3>2
  <2>4. PICK at \in Stops : at = NoStop
    BY <1>3
  <2>5. PICK mid : mid = [old EXCEPT !.stop = at, !.stopped = None, !.view = view]
    OBVIOUS
  <2>6. mid \in TabRows /\ mid.view = view /\ mid.conv = old.conv /\ mid.stopped = None
    BY <2>3, <2>5 DEF TabRows, Showing
  <2>7. PICK row : row = Cleared(mid)
    OBVIOUS
  <2>8. row \in TabRows /\ TabOk(row)
    BY <2>3, <2>6, <2>7, ClearedOk DEF AnswerOk
  <2>9. tab' = [tab EXCEPT ![t] = row]
    BY <1>1, <1>2, <1>5, <2>2, <2>4, <2>5, <2>7 DEF ReceiveStop
  <2> QED BY <1>3, <2>8, <2>9, TabStep
<1>6. CASE ~a.ok
  <2>1. PICK at \in Stops : at = NoStop
    BY <1>3
  <2>2. PICK row : row = [old EXCEPT !.stop = at, !.stopped = None]
    OBVIOUS
  <2>3. /\ row \in TabRows /\ row.view = old.view /\ row.conv = old.conv /\ row.op = old.op
        /\ row.to = old.to /\ row.stopped = None /\ row.answer = old.answer /\ row.pc = old.pc
        /\ row.accepted = old.accepted
    BY <2>2 DEF TabRows
  <2>4. TabOk(row)
    BY <1>1, <2>3 DEF TabOk, AnswerOk
  <2>5. tab' = [tab EXCEPT ![t] = row]
    BY <1>1, <1>2, <1>6, <2>1, <2>2 DEF ReceiveStop
  <2> QED BY <1>3, <2>3, <2>4, <2>5, TabStep
<1> QED BY <1>5, <1>6

\* An answer is not awaited to its end, or the tab is loaded again.
LEMMA GaveStep ==
  ASSUME SubmitInv, NEW t \in Tabs, GiveUp(t) \/ GiveUpStop(t) \/ Reload(t)
  PROVE  StepOk
<1>1. PICK old \in TabRows : old = tab[t] /\ TabOk(old)
  BY TabFacts
<1>2. /\ UNCHANGED <<server, ops, net>> /\ sys' \in SysTypes /\ sys'.moves = sys.moves
  BY Types DEF GiveUp, GiveUpStop, Reload, Gave, SysTypes
<1>3. PICK at \in Stops : at = NoStop
  <2>1. NoStop \in Stops
    BY SubmissionAssumption DEF NoStop, Stops
  <2> QED BY <2>1
<1>4. Showing(old.view, old.conv) /\ Showing(Blank, old.conv)
  BY <1>1, TabShows, ShowsNothing
<1>5. ASSUME NEW pc \in {old.pc, "idle"}, NEW answer \in {old.answer, None}, NEW stop \in {old.stop, at},
             NEW stopped \in {old.stopped, None}, NEW view \in {old.view, Blank},
             pc # "idle" => answer = old.answer, pc = "idle" => answer = None,
             tab' = [tab EXCEPT ![t] = [old EXCEPT !.pc = pc, !.answer = answer, !.stop = stop,
                                                   !.stopped = stopped, !.view = view]]
      PROVE  StepOk
  <2>1. PICK row : row = [old EXCEPT !.pc = pc, !.answer = answer, !.stop = stop,
                                     !.stopped = stopped, !.view = view]
    OBVIOUS
  <2>2. /\ row \in TabRows /\ row.view = view /\ row.conv = old.conv /\ row.op = old.op
        /\ row.to = old.to /\ row.stopped = stopped /\ row.answer = answer /\ row.pc = pc
        /\ row.accepted = old.accepted
    <3>1. /\ pc \in {"idle", "create", "send"} /\ answer \in Answers \cup {None} /\ stop \in Stops
          /\ stopped \in Answers \cup {None} /\ view \in [1..MaxRuns -> RunRows \cup {None}]
      BY <1>4, <1>5, TabTypes DEF Showing
    <3> QED BY <2>1, <3>1 DEF TabRows
  <2>3. Showing(view, old.conv) /\ AnswerOk(stopped)
    BY <1>1, <1>4 DEF TabOk, AnswerOk
  <2>4. TabOk(row)
    BY <1>1, <1>5, <2>2, <2>3 DEF TabOk, Showing
  <2> QED BY <1>2, <1>5, <2>1, <2>2, <2>4, TabStep
<1>6. CASE GiveUp(t)
  <2>1. /\ tab' = [tab EXCEPT ![t] = [old EXCEPT !.pc = "idle", !.answer = None, !.stop = old.stop,
                                                 !.stopped = old.stopped, !.view = old.view]]
    BY <1>1, <1>6 DEF GiveUp, TabRows
  <2> QED BY <1>5, <2>1
<1>7. CASE GiveUpStop(t)
  <2>1. old.pc = "idle" => old.answer = None
    BY <1>1 DEF TabOk
  <2>2. /\ tab' = [tab EXCEPT ![t] = [old EXCEPT !.pc = old.pc, !.answer = old.answer, !.stop = at,
                                                 !.stopped = None, !.view = old.view]]
    BY <1>1, <1>3, <1>7 DEF GiveUpStop, TabRows
  <2> QED BY <1>5, <2>1, <2>2
<1>8. CASE Reload(t)
  <2>1. PICK blank : blank = Blank
    OBVIOUS
  <2>2. /\ tab' = [tab EXCEPT ![t] = [old EXCEPT !.pc = "idle", !.answer = None, !.stop = at,
                                                 !.stopped = None, !.view = blank]]
    BY <1>1, <1>3, <1>8, <2>1 DEF Reload
  <2> QED BY <1>5, <2>1, <2>2
<1> QED BY <1>6, <1>7, <1>8

-----------------------------------------------------------------------------
(* Every step *)

\* Nothing happens.
LEMMA StutterStep ==
  ASSUME SubmitInv, UNCHANGED vars
  PROVE  StepOk
<1>1. UNCHANGED <<convs, runs, subs, ops, hits, tab, net, sys>>
  BY DEF vars
<1>2. RunPart /\ OpPart /\ Longer
  BY <1>1, SameRuns, SameOps
<1>3. NetPart /\ TabPart
  BY <1>1, <1>2, NetShrinks, SameTabs
<1>4. Target
  BY <1>1 DEF Target
<1> QED BY <1>1, <1>2, <1>3, <1>4, Types, Parts DEF StepOk

\* Every step keeps the invariant, and what it does to a run was asked for.
LEMMA NextStep ==
  ASSUME SubmitInv, [Next]_vars
  PROVE  StepOk
<1>1. CASE \E q \in net : Serve(q)
  BY <1>1, ServeStep
<1>2. CASE Agent
  BY <1>2, AgentStep DEF Agent
<1>3. ASSUME NEW t \in Tabs,
             \/ Refresh(t) \/ Press(t) \/ Check(t) \/ Receive(t)
             \/ PressStop(t) \/ ReceiveStop(t)
             \/ GiveUp(t) \/ GiveUpStop(t) \/ Reload(t)
      PROVE  StepOk
  BY <1>3, RefreshStep, PressStep, CheckStep, ReceiveStep, PressStopStep, ReceiveStopStep, GaveStep
<1>4. CASE UNCHANGED vars
  BY <1>4, StutterStep
<1> QED BY <1>1, <1>2, <1>3, <1>4 DEF Next

\* A run that rests at the beginning.
LEMMA OldFacts ==
  ASSUME NEW old \in OldRuns
  PROVE  /\ old \in RunRows /\ old.wait <= 1 /\ old.card <= old.wait /\ old.wait \in Nat
         /\ old.card \in Nat
<1>1. PICK z : z = 0 /\ z \in 0..MaxOps /\ z \in Nat /\ z \in Convs
  BY SubmissionAssumption DEF Convs
<1>2. PICK base : base = [NewRun(0, 0) EXCEPT !.ver = 3]
  OBVIOUS
<1>3. base = [conv |-> z, st |-> "WORKING", ver |-> 3, sub |-> z, wait |-> 0, card |-> 0,
              decision |-> "none", done |-> {}, resumed |-> 0, retryable |-> FALSE, stopped |-> FALSE]
  BY <1>1, <1>2 DEF NewRun
<1>4. base \in RunRows /\ base.wait = 0 /\ base.card = 0
  BY <1>1, <1>3 DEF RunRows, Statuses, Active
<1>5. \/ old = [base EXCEPT !.st = "TERMINATED", !.retryable = TRUE]
      \/ old = [base EXCEPT !.st = "INTERRUPTED"]
      \/ old = [base EXCEPT !.st = "WAITING_FOR_USER", !.wait = 1]
      \/ old = [base EXCEPT !.st = "WAITING_FOR_CONFIRMATION", !.wait = 1, !.card = 1]
  BY <1>2 DEF OldRuns
<1>6. {"TERMINATED", "INTERRUPTED", "WAITING_FOR_USER", "WAITING_FOR_CONFIRMATION"} \subseteq Statuses
  BY DEF Statuses, Active, Terminal
<1>7. CASE old = [base EXCEPT !.st = "TERMINATED", !.retryable = TRUE]
  <2>1. PICK st \in Statuses, b \in BOOLEAN : st = "TERMINATED" /\ b = TRUE
    BY <1>6
  <2>2. old = [base EXCEPT !.st = st, !.retryable = b]
    BY <1>7, <2>1
  <2>3. old \in RunRows /\ old.wait = base.wait /\ old.card = base.card
    BY <1>4, <2>2 DEF RunRows
  <2> QED BY <1>4, <2>3
<1>8. CASE old = [base EXCEPT !.st = "INTERRUPTED"]
  BY <1>4, <1>6, <1>8 DEF RunRows
<1>9. CASE old = [base EXCEPT !.st = "WAITING_FOR_USER", !.wait = 1]
  <2>1. PICK st \in Statuses, n \in Nat : st = "WAITING_FOR_USER" /\ n = 1
    BY <1>6
  <2>2. old = [base EXCEPT !.st = st, !.wait = n]
    BY <1>9, <2>1
  <2>3. old \in RunRows /\ old.wait = n /\ old.card = base.card
    BY <1>4, <2>2 DEF RunRows
  <2> QED BY <1>4, <2>1, <2>3
<1>10. CASE old = [base EXCEPT !.st = "WAITING_FOR_CONFIRMATION", !.wait = 1, !.card = 1]
  <2>1. PICK st \in Statuses, n \in Nat : st = "WAITING_FOR_CONFIRMATION" /\ n = 1
    BY <1>6
  <2>2. old = [base EXCEPT !.st = st, !.wait = n, !.card = n]
    BY <1>10, <2>1
  <2>3. old \in RunRows /\ old.wait = n /\ old.card = n
    BY <1>4, <2>2 DEF RunRows
  <2> QED BY <2>1, <2>3
<1> QED BY <1>5, <1>7, <1>8, <1>9, <1>10

\* A tab at the beginning.
LEMMA TabOnFacts ==
  ASSUME NEW c \in Convs \cup {None}, NEW row, row = TabOn(c)
  PROVE  row \in TabRows /\ TabOk(row)
<1>1. PICK at \in Stops : at = NoStop
  <2>1. NoStop \in Stops
    BY SubmissionAssumption DEF NoStop, Stops
  <2> QED BY <2>1
<1>2. PICK z : z = 0 /\ z \in 0..MaxOps /\ z \in Nat
  BY SubmissionAssumption
<1>3. PICK view : view = Blank /\ Showing(view, c)
  BY ShowsNothing
<1>4. row = [conv |-> c, view |-> view, op |-> z, to |-> None, accepted |-> at, wish |-> FALSE,
             pc |-> "idle", n |-> z, stop |-> at, answer |-> None, stopped |-> None]
  BY <1>1, <1>2, <1>3 DEF TabOn
<1>5. /\ row \in TabRows /\ row.view = view /\ row.conv = c /\ row.op = 0 /\ row.pc = "idle"
      /\ row.answer = None /\ row.stopped = None /\ row.accepted = NoStop
  BY <1>1, <1>2, <1>3, <1>4 DEF TabRows, Showing
<1> QED BY <1>3, <1>5, TabFine DEF AnswerOk

\* The invariant holds at the beginning.
LEMMA InitInv ==
  ASSUME Init
  PROVE  SubmitInv
<1>1. /\ ops = << >> /\ net = {}
      /\ hits = [k \in Ops |-> 0] /\ subs = [k \in Ops |-> 0]
      /\ sys = [moves |-> 0, gave |-> 0, stops |-> 0]
  BY DEF Init
<1>2. ops \in Seq(Intentions) /\ DOMAIN ops = {}
  BY <1>1
<1>3. /\ hits \in [Ops -> Nat] /\ subs \in [Ops -> Nat] /\ sys \in [moves: Nat, gave: Nat, stops: Nat]
      /\ sys.moves = 0
  BY <1>1
<1>4. OpsOk /\ NetOk
  BY <1>1, <1>2 DEF OpsOk, OpOk, NetOk
<1>5. PICK c \in Convs \cup {None} : tab = [t \in Tabs |-> TabOn(c)] /\ convs \subseteq Convs
  <2>1. 0 \in Convs
    BY SubmissionAssumption DEF Convs
  <2>2. CASE convs = {0} /\ tab = [t \in Tabs |-> TabOn(0)]
    BY <2>1, <2>2
  <2>3. CASE convs = {} /\ tab = [t \in Tabs |-> TabOn(None)]
    BY <2>3
  <2> QED BY <2>2, <2>3 DEF Init
<1>6. tab \in [Tabs -> TabRows] /\ TabsOk
  <2>1. PICK row : row = TabOn(c)
    OBVIOUS
  <2>2. row \in TabRows /\ TabOk(row) /\ tab = [t \in Tabs |-> row]
    BY <1>5, <2>1, TabOnFacts
  <2> QED BY <2>2 DEF TabsOk
<1>7. runs \in Seq(RunRows) /\ Alone /\ Numbered
  <2>1. CASE runs = << >>
    <3>1. Runs = {}
      BY <2>1 DEF Runs
    <3> QED BY <2>1, <3>1 DEF Alone, Numbered
  <2>2. CASE \E old \in OldRuns : runs = <<old>>
    <3>1. PICK old \in OldRuns : runs = <<old>>
      BY <2>2
    <3>2. /\ old \in RunRows /\ old.wait <= 1 /\ old.card <= old.wait
      BY OldFacts
    <3>3. runs \in Seq(RunRows) /\ Runs = {1} /\ runs[1] = old
      BY <3>1, <3>2 DEF Runs
    <3> QED BY <1>3, <3>2, <3>3 DEF Alone, Numbered
  <2> QED BY <2>1, <2>2 DEF Init
<1> QED BY <1>1, <1>2, <1>3, <1>4, <1>5, <1>6, <1>7 DEF SubmitInv, TypeOK

-----------------------------------------------------------------------------
(* The theorems *)

\* The invariant always holds: what an operation has done has passed for good,
\* what a tab shows was so, and every request is for a run that there is.
THEOREM SubmitInvHolds == Spec => []SubmitInv
<1>1. Init => SubmitInv
  BY InitInv
<1>2. SubmitInv /\ [Next]_vars => SubmitInv'
  BY NextStep DEF StepOk
<1> QED BY <1>1, <1>2, PTL DEF Spec

\* However often an operation is sent, and whatever arrives late, it has its
\* effect at most once, and the state is well typed.
THEOREM OncePerIntentionHolds == Spec => []OncePerIntention
<1>1. SubmitInv => OncePerIntention
  <2> SUFFICES ASSUME SubmitInv PROVE OncePerIntention
    OBVIOUS
  <2>1. \A k \in Ops : OpOk(k) /\ hits[k] \in Nat
    BY Types DEF SubmitInv, OpsOk
  <2> QED BY <2>1 DEF SubmitInv, OncePerIntention, OpOk
<1> QED BY <1>1, SubmitInvHolds, PTL

\* At most one run of a conversation is at work or holds its place.
THEOREM OneAtWorkHolds == Spec => []OneAtWork
<1>1. SubmitInv => OneAtWork
  <2> SUFFICES ASSUME SubmitInv, NEW c \in convs
               PROVE  Cardinality({r \in Runs : runs[r].conv = c /\ runs[r].st \in Active}) <= 1
    BY DEF OneAtWork
  <2>1. PICK S : S = {r \in Runs : runs[r].conv = c /\ runs[r].st \in Active}
    OBVIOUS
  <2>2. \A r, s \in S : r = s
    BY <2>1 DEF SubmitInv, Alone
  <2>3. CASE S = {}
    BY <2>1, <2>3, FS_EmptySet
  <2>4. CASE S # {}
    <3>1. PICK r : S = {r}
      BY <2>2, <2>4
    <3>2. Cardinality({r}) = 1
      BY FS_Singleton
    <3>3. Cardinality(S) <= 1
      BY <3>1, <3>2
    <3> QED BY <2>1, <3>3
  <2> QED BY <2>3, <2>4
<1> QED BY <1>1, SubmitInvHolds, PTL

\* What happens to a run is what somebody who saw that very state asked for.
THEOREM RightTargetHolds == Spec => RightTarget
<1> DEFINE A == \A r \in Runs :
       /\ runs[r].st \in {"WAITING_FOR_USER", "WAITING_FOR_CONFIRMATION", "INTERRUPTED"} /\ runs'[r].st = "WORKING" =>
            \E k \in DOMAIN ops :
              /\ hits'[k] > hits[k] /\ ops[k].run = r /\ ops[k].wait = runs[r].wait
              /\ runs[r].st = "INTERRUPTED" => ops[k].ver = runs[r].ver /\ ops[k].sub = runs[r].sub
              /\ ops[k].kind \in CASE runs[r].st = "WAITING_FOR_USER" -> {"reply"}
                                   [] runs[r].st = "INTERRUPTED" -> {"resume"}
                                   [] OTHER -> {runs'[r].decision}
       /\ runs'[r].stopped /\ ~runs[r].stopped =>
            \E q \in net : q.type = "stop" /\ q.at = [run |-> r, sub |-> runs[r].sub]
<1>1. SubmitInv /\ [Next]_vars => [A]_vars
  <2>1. SubmitInv /\ [Next]_vars => Target
    BY NextStep DEF StepOk
  <2>2. Target => A
    BY DEF Target
  <2> QED BY <2>1, <2>2
<1> HIDE DEF A
<1>2. Spec => [][A]_vars
  BY <1>1, SubmitInvHolds, PTL DEF Spec
<1> QED BY <1>2, Zenon DEF RightTarget, A

-----------------------------------------------------------------------------
(***************************************************************************)
(* Theorems about module Drafts, for every set of datasets, every proposal *)
(* and every number of calls, messages, restarts, changes and retries: a   *)
(* call is sent with the resource that was shown, with units somebody      *)
(* stated, once, and unchanged.                                            *)
(*                                                                         *)
(* The argument: a call is told by its number, under which the frame it    *)
(* was made in is kept; what was settled for it is written down once, and  *)
(* nothing else is resolved before it has been reported.  So what was true *)
(* of it when it was settled is still true when it is sent.                *)
(***************************************************************************)

-----------------------------------------------------------------------------
(* The inductive invariant *)

\* The records keep their fields, the lists are lists.
Listed(s) == s \in Seq(Range(s))
Fields ==
  /\ DOMAIN run = {"no", "status", "draft", "pcall", "pmap", "rec", "execs", "answered", "asking", "retry"}
  /\ DOMAIN worker = {"pc", "frame", "call", "due", "draft", "replay"}
  /\ DOMAIN bounds = {"calls", "messages", "crashes", "changes", "retries"}
  /\ run.no \in Nat
  /\ Listed(run.execs) /\ Listed(sent) /\ Listed(seen) /\ Listed(tasks)
  /\ \A k \in DOMAIN tasks : DOMAIN tasks[k] = {"status", "revs"} /\ Listed(tasks[k].revs)

\* Whom a number means: a call the worker is at or one kept in a checkpoint.
Held ==
  (IF worker.pc \in {"tool", "resolved"} THEN {worker.call} ELSE {})
    \cup {c \in {worker.due, sdk} : c # Unset}
    \cup (IF run.status = "WAITING_FOR_USER" THEN {sdk} ELSE {})
Identified ==
  /\ bounds.calls = Len(seen)
  /\ \A c \in Held : c.id \in 1..Len(seen)
  /\ \A c, d \in Held : c.id = d.id => c = d
  /\ run.pcall \in 0..Len(seen)
  /\ run.pcall # 0 => run.pmap = seen[run.pcall]

\* What is settled: its resource is the one shown, its units were stated, its
\* revision is the newest of its task.
AsShown(c, d) ==
  d.tool = "train" /\ run.retry = Unset /\ run.pmap # <<>> =>
    c.ref \in DOMAIN run.pmap /\ run.pmap[c.ref] = d.bound
Stated(d) ==
  d.units # Unset =>
    \/ d.units.by = "declared" /\ d.units.unit = Declared[d.bound]
    \/ d.units.by = "confirmed" /\ <<d.bound, d.units.unit>> \in said
Asserted(d) ==
  d.units # Unset /\ d.bound # Unset /\ d.units.by = "confirmed" =>
    <<d.bound, d.units.unit>> \in said
Newest(t, args) ==
  /\ t \in DOMAIN tasks /\ tasks[t].revs # <<>>
  /\ tasks[t].revs[Len(tasks[t].revs)] = args
Filed(d) == d.task # 0 => d.task \in DOMAIN tasks

\* A draft that was resolved for the call c and is ready for it.
Ready(c, d) ==
  /\ AsShown(c, d)
  /\ run.retry = Unset => Stated(d)
  /\ d.tool = "lab" =>
       /\ ValidInput(d.args)
       /\ \/ Succeeded(d)
          \/ run.retry = Unset /\ Newest(d.task, d.args) /\ d.rev = Len(tasks[d.task].revs)
          \/ run.retry # Unset /\ d.task = run.retry.task /\ d.rev = Len(tasks[d.task].revs)
Resolved ==
  /\ worker.pc # "idle" => run.status = "RUNNING"
  /\ worker.pc = "resolved" =>
       LET d == worker.draft IN
       /\ run.rec = NoCall /\ run.pcall = worker.call.id /\ ~Executed(worker.call.id)
       /\ worker.call.tool \in Tools
       /\ Asserted(d) /\ Filed(d)
       /\ run.retry # Unset => d.units = run.retry.units
       /\ d.issues = {} => Ready(worker.call, d)
OnFile ==
  run.draft # Unset =>
    /\ Asserted(run.draft) /\ Filed(run.draft)
    /\ run.draft.issues = {} => run.rec # NoCall

\* The pending call.
Pending ==
  LET r == run.rec IN
  r # NoCall =>
    /\ r.call = run.pcall /\ r.call # 0
    /\ ~Executed(r.call) /\ ~Succeeded(r)
    /\ Stated(r)
    /\ run.retry # Unset => Fingerprint(r) = Fingerprint(run.retry) /\ r.units = run.retry.units
    /\ r.tool = "lab" =>
         /\ ValidInput(r.args)
         /\ Newest(run.draft.task, r.args)
         /\ run.draft.rev = Len(tasks[run.draft.task].revs)
    /\ \A c \in Held : c.id = r.call => c.tool \in Tools /\ AsShown(c, r)

\* A call that failed: nothing is resolved behind it, and a retry finds it so.
Failed(e) ==
  /\ e.status = "FAILED"
  /\ Stated(e)
  /\ e.tool = "lab" => Newest(e.task, e.args)
Reports ==
  /\ \A i \in DOMAIN run.execs :
       LET e == run.execs[i] IN
       /\ e.call # 0 /\ e.status \in {"SUCCEEDED", "FAILED"}
       /\ e.retryable => e.status = "FAILED"
       /\ e.status = "FAILED" =>
            Failed(e) /\ (run.pcall = e.call \/ run.status = "TERMINATED")
  /\ \A i, j \in DOMAIN run.execs : run.execs[i].call = run.execs[j].call => i = j
  /\ run.retry # Unset => Failed(run.retry)

\* What was sent.
Ledger ==
  \A i \in DOMAIN sent :
    /\ sent[i].run <= run.no /\ sent[i].run \in Nat
    /\ sent[i].call \in DOMAIN seen
    /\ sent[i].run = run.no /\ sent[i].status = "SUCCEEDED" => Succeeded(sent[i])

DraftsInv ==
  /\ Fields /\ Identified /\ Resolved /\ OnFile /\ Pending /\ Reports /\ Ledger
  /\ BoundAsShown /\ UnitsAreTrusted /\ CallsAreKept

-----------------------------------------------------------------------------
(* Lists *)

\* A list and its places.
LEMMA ListedFacts ==
  ASSUME NEW s, Listed(s)
  PROVE  Len(s) \in Nat /\ DOMAIN s = 1..Len(s)
BY DEF Listed

\* The empty list.
LEMMA ListedEmpty == Listed(<<>>) /\ DOMAIN <<>> = {}
<1>1. <<>> \in Seq({})
  OBVIOUS
<1>2. Listed(<<>>)
  BY <1>1, SeqOfRange DEF Listed
<1> QED BY <1>2

\* What is appended comes last; the rest stays.
LEMMA ListedAppend ==
  ASSUME NEW s, Listed(s), NEW e
  PROVE  /\ Listed(Append(s, e))
         /\ Len(Append(s, e)) = Len(s) + 1
         /\ DOMAIN Append(s, e) = DOMAIN s \cup {Len(s) + 1}
         /\ Len(s) + 1 \notin DOMAIN s
         /\ Append(s, e)[Len(s) + 1] = e
         /\ \A i \in DOMAIN s : Append(s, e)[i] = s[i]
         /\ Append(s, e) # <<>>
<1> DEFINE S == Range(s) \cup {e}
<1>1. s \in Seq(S) /\ e \in S
  BY SeqMonotonic, Range(s) \subseteq S DEF Listed
<1> HIDE DEF S
<1>2. /\ Append(s, e) \in Seq(S) /\ Append(s, e) # <<>>
      /\ Len(Append(s, e)) = Len(s) + 1
      /\ \A i \in 1..Len(s) : Append(s, e)[i] = s[i]
      /\ Append(s, e)[Len(s) + 1] = e
  BY <1>1, AppendProperties
<1>3. Listed(Append(s, e))
  BY <1>2, SeqOfRange DEF Listed
<1>4. /\ DOMAIN Append(s, e) = 1..Len(s) + 1 /\ DOMAIN s = 1..Len(s)
      /\ Len(s) \in Nat
  BY <1>2, <1>3, ListedFacts
<1> QED BY <1>2, <1>3, <1>4

\* A change of one element.
LEMMA ListedExcept ==
  ASSUME NEW s, Listed(s), NEW k \in DOMAIN s, NEW e
  PROVE  LET t == [s EXCEPT ![k] = e] IN
         /\ Listed(t) /\ Len(t) = Len(s) /\ DOMAIN t = DOMAIN s
         /\ t[k] = e /\ \A i \in DOMAIN s : i # k => t[i] = s[i]
<1> DEFINE S == Range(s) \cup {e}
           t == [s EXCEPT ![k] = e]
<1>1. s \in Seq(S) /\ e \in S
  BY SeqMonotonic, Range(s) \subseteq S DEF Listed
<1>2. k \in 1..Len(s)
  BY ListedFacts
<1> HIDE DEF S
<1>3. t \in Seq(S) /\ Len(t) = Len(s)
  BY <1>1, <1>2, ExceptSeq
<1>4. Listed(t)
  BY <1>3, SeqOfRange DEF Listed
<1> QED BY <1>3, <1>4

-----------------------------------------------------------------------------
(* Steps that settle nothing *)

\* What such a step leaves as it is: what is written down, shown, said and sent.
LeftAlone ==
  /\ UNCHANGED <<tasks, seen, said, sent>> /\ bounds'.calls = bounds.calls
  /\ run'.no = run.no /\ run'.rec = run.rec /\ run'.execs = run.execs /\ run'.retry = run.retry
  /\ worker'.pc # "idle" => run'.status = "RUNNING"
  /\ Held' \subseteq Held
  /\ Fields'

\* A step that moves the worker, the checkpoint or the status only keeps all of it.
LEMMA Calm ==
  ASSUME DraftsInv, LeftAlone,
         run'.draft = run.draft, run'.pcall = run.pcall, run'.pmap = run.pmap,
         run.status = "TERMINATED" => run'.status = "TERMINATED",
         worker'.pc = "resolved" => worker' = worker
  PROVE  DraftsInv'
<1> USE DEF DraftsInv, LeftAlone
<1>1. Identified'
  BY DEF Identified
<1>2. /\ \A d : Succeeded(d)' <=> Succeeded(d)
      /\ \A d : Stated(d)' <=> Stated(d)
      /\ \A t, a : Newest(t, a)' <=> Newest(t, a)
      /\ \A c, d : AsShown(c, d)' <=> AsShown(c, d)
      /\ \A i : Executed(i)' <=> Executed(i)
      /\ \A e : Failed(e)' <=> Failed(e)
      /\ \A d : Asserted(d)' <=> Asserted(d)
      /\ \A d : Filed(d)' <=> Filed(d)
  BY DEF Succeeded, Stated, Newest, AsShown, Executed, Failed, Asserted, Filed
<1>3. Resolved'
  BY <1>2 DEF Resolved, Ready
<1>4. OnFile'
  BY <1>2 DEF OnFile
<1>5. Pending'
  BY <1>2 DEF Pending
<1>6. Reports'
  BY <1>2 DEF Reports
<1>7. Ledger'
  BY <1>2 DEF Ledger
<1>8. BoundAsShown' /\ UnitsAreTrusted' /\ CallsAreKept'
  BY DEF BoundAsShown, UnitsAreTrusted, CallsAreKept, Sent
<1> QED BY <1>1, <1>3, <1>4, <1>5, <1>6, <1>7, <1>8

\* So does one that takes the marker of the call away: nothing is pending, and
\* what failed has ended the run.
LEMMA MarkerTaken ==
  ASSUME DraftsInv, LeftAlone, run.rec = NoCall,
         run'.pcall = 0, run'.pmap = <<>>, worker'.pc \notin {"tool", "resolved"},
         run'.draft # Unset =>
           Asserted(run'.draft) /\ Filed(run'.draft) /\ run'.draft.issues # {},
         run'.status = "TERMINATED" \/ \A i \in DOMAIN run.execs : run.execs[i].status # "FAILED"
  PROVE  DraftsInv'
<1> USE DEF DraftsInv, LeftAlone
<1>1. Identified'
  BY ListedFacts DEF Identified, Fields
<1>2. /\ \A d : Succeeded(d)' <=> Succeeded(d)
      /\ \A d : Stated(d)' <=> Stated(d)
      /\ \A t, a : Newest(t, a)' <=> Newest(t, a)
      /\ \A e : Failed(e)' <=> Failed(e)
      /\ \A d : Asserted(d)' <=> Asserted(d)
      /\ \A d : Filed(d)' <=> Filed(d)
  BY DEF Succeeded, Stated, Newest, Failed, Asserted, Filed
<1>3. Resolved'
  BY DEF Resolved
<1>4. OnFile'
  BY DEF OnFile, Asserted, Filed
<1>5. Pending'
  BY DEF Pending
<1>6. Reports'
  BY <1>2 DEF Reports
<1>7. Ledger'
  BY <1>2 DEF Ledger
<1>8. BoundAsShown' /\ UnitsAreTrusted' /\ CallsAreKept'
  BY DEF BoundAsShown, UnitsAreTrusted, CallsAreKept, Sent
<1> QED BY <1>1, <1>3, <1>4, <1>5, <1>6, <1>7, <1>8

-----------------------------------------------------------------------------
(* The steps *)

\* A run that ends settles nothing.
LEMMA EndStep ==
  ASSUME DraftsInv, NEW status, status # "WAITING_FOR_USER", End(status), worker.pc # "idle",
         UNCHANGED <<tasks, seen, said, sent, sdk>>, bounds' = bounds
  PROVE  DraftsInv'
<1> USE DEF DraftsInv
<1>1. /\ run' = [run EXCEPT !.status = status]
      /\ worker' = [pc |-> "idle", frame |-> Unset, call |-> Unset, due |-> Unset, draft |-> Unset, replay |-> FALSE]
  BY DEF End, Idle
<1>2. /\ run'.no = run.no /\ run'.draft = run.draft /\ run'.pcall = run.pcall /\ run'.pmap = run.pmap
      /\ run'.rec = run.rec /\ run'.execs = run.execs /\ run'.retry = run.retry
      /\ run'.status = status /\ DOMAIN run' = DOMAIN run
  BY <1>1 DEF Fields
<1>3. Fields'
  BY <1>1, <1>2 DEF Fields
<1>4. run.status = "RUNNING"
  BY DEF Resolved
<1>5. worker'.pc = "idle" /\ worker'.due = Unset
  BY <1>1
<1>6. Held' \subseteq Held
  BY <1>2, <1>5 DEF Held
<1> QED BY <1>2, <1>3, <1>4, <1>5, <1>6, Calm DEF LeftAlone

\* The number of a call and the frame it is made in are kept together.
LEMMA BuildContextStep == ASSUME DraftsInv, BuildContext PROVE DraftsInv'
<1> USE DEF DraftsInv
<1>1. /\ worker' = [worker EXCEPT !.pc = "asked", !.frame = Frame]
      /\ UNCHANGED <<run, tasks, seen, said, sent, sdk, bounds>> /\ worker.pc = "model" /\ run.status = "RUNNING"
  BY DEF BuildContext
<1>2. worker'.pc = "asked" /\ worker'.due = worker.due /\ DOMAIN worker' = DOMAIN worker
  BY <1>1 DEF Fields
<1>3. Fields'
  BY <1>1, <1>2 DEF Fields
<1>4. Held' \subseteq Held
  BY <1>1, <1>2 DEF Held
<1> QED BY <1>1, <1>2, <1>3, <1>4, Calm DEF LeftAlone

\* What is at work is what its checkpoint says.
LEMMA CheckpointStep == ASSUME DraftsInv, Checkpoint PROVE DraftsInv'
<1> USE DEF DraftsInv
<1>1. /\ sdk' = worker.due /\ worker.pc # "idle"
      /\ UNCHANGED <<run, worker, tasks, seen, said, sent, bounds>>
  BY DEF Checkpoint
<1>2. Fields'
  BY <1>1 DEF Fields
<1>3. run.status = "RUNNING"
  BY <1>1 DEF Resolved
<1>4. Held' \subseteq Held
  BY <1>1, <1>3 DEF Held
<1> QED BY <1>1, <1>2, <1>3, <1>4, Calm DEF LeftAlone

\* A question pauses the run at its call.
LEMMA AskUserStep == ASSUME DraftsInv, AskUser PROVE DraftsInv'
<1> USE DEF DraftsInv
<1>1. /\ worker.pc = "tool" /\ sdk' = worker.call
      /\ run' = [run EXCEPT !.asking = TRUE, !.status = "WAITING_FOR_USER"]
      /\ worker' = [pc |-> "idle", frame |-> Unset, call |-> Unset, due |-> Unset, draft |-> Unset, replay |-> FALSE]
      /\ UNCHANGED <<tasks, seen, said, sent, bounds>>
  BY DEF AskUser, Owned, AtTool, Idle
<1>2. /\ run'.no = run.no /\ run'.draft = run.draft /\ run'.pcall = run.pcall /\ run'.pmap = run.pmap
      /\ run'.rec = run.rec /\ run'.execs = run.execs /\ run'.retry = run.retry
      /\ DOMAIN run' = DOMAIN run
  BY <1>1 DEF Fields
<1>3. worker'.pc = "idle" /\ worker'.due = Unset
  BY <1>1
<1>4. Fields'
  BY <1>1, <1>2 DEF Fields
<1>5. run.status = "RUNNING"
  BY <1>1 DEF Resolved
<1>6. Held' \subseteq Held
  BY <1>1, <1>3 DEF Held
<1> QED BY <1>1, <1>2, <1>3, <1>4, <1>5, <1>6, Calm DEF LeftAlone

\* A reply goes on at the call of the checkpoint.
LEMMA ReplyStep == ASSUME DraftsInv, Reply PROVE DraftsInv'
<1> USE DEF DraftsInv
<1>1. /\ run.status = "WAITING_FOR_USER"
      /\ run' = [run EXCEPT !.status = "RUNNING"]
      /\ worker' = [Idle EXCEPT !.pc = "tool", !.call = sdk, !.due = sdk]
      /\ bounds' = [bounds EXCEPT !.messages = @ + 1]
      /\ UNCHANGED <<sdk, tasks, seen, said, sent>>
  BY DEF Reply
<1>2. /\ run'.no = run.no /\ run'.draft = run.draft /\ run'.pcall = run.pcall /\ run'.pmap = run.pmap
      /\ run'.rec = run.rec /\ run'.execs = run.execs /\ run'.retry = run.retry
      /\ run'.status = "RUNNING" /\ DOMAIN run' = DOMAIN run
      /\ bounds'.calls = bounds.calls /\ DOMAIN bounds' = DOMAIN bounds
  BY <1>1 DEF Fields
<1>3. /\ worker'.pc = "tool" /\ worker'.call = sdk /\ worker'.due = sdk
      /\ DOMAIN worker' = DOMAIN worker
  BY <1>1 DEF Fields, Idle
<1>4. Fields'
  BY <1>1, <1>2, <1>3 DEF Fields
<1>5. Held' \subseteq Held
  BY <1>1, <1>2, <1>3 DEF Held
<1> QED BY <1>1, <1>2, <1>3, <1>4, <1>5, Calm DEF LeftAlone

\* Going back to the model holds no call but the checkpoint's.
LEMMA BackFacts ==
  ASSUME Fields, worker' = BackToModel, UNCHANGED sdk, run'.status = "RUNNING"
  PROVE  /\ worker'.pc = "model" /\ worker'.due = Unset /\ DOMAIN worker' = DOMAIN worker
         /\ Held' \subseteq Held
<1>1. worker'.pc = "model" /\ worker'.due = Unset /\ DOMAIN worker' = DOMAIN worker
  BY DEF BackToModel, Fields
<1> QED BY <1>1 DEF Held

\* A question that was answered is not asked again.
LEMMA RereadStep == ASSUME DraftsInv, Reread PROVE DraftsInv'
<1> USE DEF DraftsInv
<1>1. /\ worker.pc = "tool" /\ worker' = BackToModel
      /\ UNCHANGED <<run, sdk, tasks, seen, said, sent, bounds>>
  BY DEF Reread
<1>2. run.status = "RUNNING"
  BY <1>1 DEF Resolved
<1>3. Fields'
  BY <1>1, <1>2, BackFacts DEF Fields
<1> QED BY <1>1, <1>2, <1>3, BackFacts, Calm DEF LeftAlone

\* What changes around the run changes nothing in it.
LEMMA AroundStep == ASSUME DraftsInv, Upload \/ Lose PROVE DraftsInv'
<1> USE DEF DraftsInv
<1>1. /\ bounds' = [bounds EXCEPT !.changes = @ + 1]
      /\ UNCHANGED <<run, worker, sdk, tasks, seen, said, sent>>
  BY DEF Upload, Lose
<1>2. bounds'.calls = bounds.calls /\ DOMAIN bounds' = DOMAIN bounds
  BY <1>1 DEF Fields
<1>3. Fields'
  BY <1>1, <1>2 DEF Fields
<1>4. Held' \subseteq Held
  BY <1>1 DEF Held
<1> QED BY <1>1, <1>2, <1>3, <1>4, Calm DEF LeftAlone, Resolved

\* Nor does a restart.
LEMMA CrashStep == ASSUME DraftsInv, Crash PROVE DraftsInv'
<1> USE DEF DraftsInv
<1>1. PICK new :
        /\ worker.pc # "idle" /\ run' = [run EXCEPT !.status = "INTERRUPTED"]
        /\ worker' = [pc |-> "idle", frame |-> Unset, call |-> Unset, due |-> Unset, draft |-> Unset, replay |-> FALSE]
        /\ bounds' = [bounds EXCEPT !.crashes = @ + 1, !.changes = @ + new - schema]
        /\ UNCHANGED <<sdk, tasks, seen, said, sent>>
  BY DEF Crash, Idle
<1>2. /\ run'.no = run.no /\ run'.draft = run.draft /\ run'.pcall = run.pcall /\ run'.pmap = run.pmap
      /\ run'.rec = run.rec /\ run'.execs = run.execs /\ run'.retry = run.retry
      /\ run'.status = "INTERRUPTED" /\ DOMAIN run' = DOMAIN run
      /\ bounds'.calls = bounds.calls /\ DOMAIN bounds' = DOMAIN bounds
  BY <1>1 DEF Fields
<1>3. worker'.pc = "idle" /\ worker'.due = Unset
  BY <1>1
<1>4. Fields'
  BY <1>1, <1>2 DEF Fields
<1>5. run.status = "RUNNING"
  BY <1>1 DEF Resolved
<1>6. Held' \subseteq Held
  BY <1>1, <1>2, <1>3 DEF Held
<1> QED BY <1>1, <1>2, <1>3, <1>4, <1>5, <1>6, Calm DEF LeftAlone

LEMMA ResumeRunStep == ASSUME DraftsInv, Resume PROVE DraftsInv'
<1> USE DEF DraftsInv
<1>1. /\ run.status = "INTERRUPTED" /\ run' = [run EXCEPT !.status = "RUNNING"]
      /\ worker' = IF sdk = Unset THEN AtModel(TRUE)
                   ELSE [Idle EXCEPT !.pc = "tool", !.call = sdk, !.due = sdk, !.replay = TRUE]
      /\ UNCHANGED <<sdk, tasks, seen, said, sent, bounds>>
  BY DEF Resume
<1>2. /\ run'.no = run.no /\ run'.draft = run.draft /\ run'.pcall = run.pcall /\ run'.pmap = run.pmap
      /\ run'.rec = run.rec /\ run'.execs = run.execs /\ run'.retry = run.retry
      /\ run'.status = "RUNNING" /\ DOMAIN run' = DOMAIN run
  BY <1>1 DEF Fields
<1>3. /\ \/ sdk = Unset /\ worker'.pc = "model" /\ worker'.due = Unset
         \/ sdk # Unset /\ worker'.pc = "tool" /\ worker'.call = sdk /\ worker'.due = sdk
      /\ DOMAIN worker' = DOMAIN worker
  BY <1>1 DEF Fields, Idle, AtModel
<1>4. Fields'
  BY <1>1, <1>2, <1>3 DEF Fields
<1>5. Held' \subseteq Held
  BY <1>1, <1>2, <1>3 DEF Held
<1>6. worker'.pc # "resolved"
  BY <1>3
<1> QED BY <1>1, <1>2, <1>3, <1>4, <1>5, <1>6, Calm DEF LeftAlone

\* Behind a call that has not been reported nothing failed.
LEMMA NoneFailed ==
  ASSUME DraftsInv, run.status = "RUNNING", ~Executed(run.pcall)
  PROVE  \A i \in DOMAIN run.execs : run.execs[i].status # "FAILED"
BY DEF DraftsInv, Reports, Executed

\* An open draft was resolved for the call at hand.
LEMMA NeedInputStep == ASSUME DraftsInv, NeedInput PROVE DraftsInv'
<1> USE DEF DraftsInv
<1>1. /\ worker.pc = "resolved" /\ worker.draft.issues # {}
      /\ run' = [[run EXCEPT !.draft = worker.draft] EXCEPT !.pcall = 0, !.pmap = <<>>]
      /\ worker' = BackToModel
      /\ UNCHANGED <<sdk, tasks, seen, said, sent, bounds>>
  BY DEF NeedInput, Unmarked
<1>2. /\ run'.no = run.no /\ run'.draft = worker.draft /\ run'.pcall = 0 /\ run'.pmap = <<>>
      /\ run'.rec = run.rec /\ run'.execs = run.execs /\ run'.retry = run.retry
      /\ run'.status = run.status /\ DOMAIN run' = DOMAIN run
  BY <1>1 DEF Fields
<1>3. /\ run.status = "RUNNING" /\ run.rec = NoCall /\ ~Executed(run.pcall)
      /\ Asserted(worker.draft) /\ Filed(worker.draft)
  BY <1>1 DEF Resolved
<1>4. Fields'
  BY <1>1, <1>2, <1>3, BackFacts DEF Fields
<1>5. worker'.pc = "model" /\ Held' \subseteq Held
  BY <1>1, <1>2, <1>3, BackFacts
<1>6. /\ bounds' = bounds /\ UNCHANGED <<tasks, seen, said, sent>>
      /\ Asserted(run'.draft) /\ Filed(run'.draft) /\ run'.draft.issues # {}
  BY <1>1, <1>2, <1>3
<1>7. \A i \in DOMAIN run.execs : run.execs[i].status # "FAILED"
  BY <1>3, NoneFailed
<1> QED BY <1>2, <1>3, <1>4, <1>5, <1>6, <1>7, MarkerTaken DEF LeftAlone

\* A question is no tool's call.
LEMMA RepliedStep == ASSUME DraftsInv, Replied PROVE DraftsInv'
<1> USE DEF DraftsInv
<1>1. /\ worker.pc = "tool" /\ run.pcall = worker.call.id /\ worker.call.tool = "ask_user"
      /\ ~Executed(run.pcall)
      /\ run' = [[run EXCEPT !.asking = FALSE, !.answered = @ \cup {worker.call.id}]
                   EXCEPT !.pcall = 0, !.pmap = <<>>]
      /\ worker' = BackToModel
      /\ UNCHANGED <<sdk, tasks, seen, said, sent, bounds>>
  BY DEF Replied, Unmarked, Owned, AtTool
<1>2. /\ run'.no = run.no /\ run'.draft = run.draft /\ run'.pcall = 0 /\ run'.pmap = <<>>
      /\ run'.rec = run.rec /\ run'.execs = run.execs /\ run'.retry = run.retry
      /\ run'.status = run.status /\ DOMAIN run' = DOMAIN run
  BY <1>1 DEF Fields
<1>3. run.status = "RUNNING"
  BY <1>1 DEF Resolved
<1>4. worker.call \in Held
  BY <1>1 DEF Held
<1>5. run.rec = NoCall
  BY <1>1, <1>4 DEF Pending, Tools
<1>6. Fields'
  BY <1>1, <1>2, <1>3, BackFacts DEF Fields
<1>7. worker'.pc = "model" /\ Held' \subseteq Held
  BY <1>1, <1>2, <1>3, BackFacts
<1>8. /\ bounds' = bounds /\ UNCHANGED <<tasks, seen, said, sent>>
      /\ run'.draft # Unset =>
           Asserted(run'.draft) /\ Filed(run'.draft) /\ run'.draft.issues # {}
  BY <1>1, <1>2, <1>5 DEF OnFile
<1>9. \A i \in DOMAIN run.execs : run.execs[i].status # "FAILED"
  BY <1>1, <1>3, NoneFailed
<1> QED BY <1>2, <1>3, <1>5, <1>6, <1>7, <1>8, <1>9, MarkerTaken DEF LeftAlone

\* A call that is reported is not pending; one that failed ends its run.
LEMMA CompleteStep == ASSUME DraftsInv, Complete PROVE DraftsInv'
<1> USE DEF DraftsInv
<1>0. /\ worker.pc = "tool" /\ Executed(worker.call.id)
      /\ UNCHANGED <<sdk, tasks, seen, said, sent, bounds>>
  BY DEF Complete
<1> DEFINE i == CHOOSE j \in DOMAIN run.execs : run.execs[j].call = worker.call.id
<1>1. i \in DOMAIN run.execs /\ run.execs[i].call = worker.call.id
  BY <1>0 DEF Executed
<1>2. run.status = "RUNNING"
  BY <1>0 DEF Resolved
<1>3. \/ /\ run.execs[i].status = "SUCCEEDED"
         /\ run' = IF run.pcall = worker.call.id THEN Unmarked(run) ELSE run
         /\ worker' = BackToModel
      \/ /\ run' = [(IF run.pcall = worker.call.id THEN Unmarked(run) ELSE run) EXCEPT !.status = "TERMINATED"]
         /\ worker' = Idle
  BY DEF Complete
<1> HIDE DEF i
<1>4. CASE run.pcall # worker.call.id /\ worker' = BackToModel /\ run' = run
  <2>1. Fields'
    BY <1>0, <1>2, <1>4, BackFacts DEF Fields
  <2> QED BY <1>0, <1>2, <1>4, <2>1, BackFacts, Calm DEF LeftAlone
<1>5. CASE run.pcall # worker.call.id /\ End("TERMINATED")
  BY <1>0, <1>5, EndStep
<1>6. CASE run.pcall = worker.call.id
  <2>1. run.rec = NoCall
    BY <1>0, <1>6 DEF Pending
  <2>2. /\ run'.no = run.no /\ run'.draft = run.draft /\ run'.pcall = 0 /\ run'.pmap = <<>>
        /\ run'.rec = run.rec /\ run'.execs = run.execs /\ run'.retry = run.retry
        /\ DOMAIN run' = DOMAIN run
        /\ run'.status = run.status \/ run'.status = "TERMINATED"
    BY <1>3, <1>6 DEF Fields, Unmarked
  <2>3. run'.draft # Unset =>
          Asserted(run'.draft) /\ Filed(run'.draft) /\ run'.draft.issues # {}
    BY <2>1, <2>2 DEF OnFile
  <2>4. CASE run.execs[i].status = "SUCCEEDED" /\ worker' = BackToModel /\ run' = Unmarked(run)
    <3>1. run'.status = "RUNNING"
      BY <1>2, <2>4 DEF Fields, Unmarked
    <3>2. Fields'
      BY <1>0, <2>2, <2>4, <3>1, BackFacts DEF Fields
    <3>3. worker'.pc = "model" /\ Held' \subseteq Held
      BY <1>0, <2>4, <3>1, BackFacts
    <3>4. \A j \in DOMAIN run.execs : run.execs[j].status # "FAILED"
      <4> SUFFICES ASSUME NEW j \in DOMAIN run.execs, run.execs[j].status = "FAILED" PROVE FALSE
        OBVIOUS
      <4>1. run.execs[j].call = run.pcall
        BY <1>2 DEF Reports
      <4>2. j = i
        BY <4>1, <1>1, <1>6 DEF Reports
      <4> QED BY <4>2, <2>4
    <3> QED BY <1>0, <2>1, <2>2, <2>3, <3>1, <3>2, <3>3, <3>4, MarkerTaken DEF LeftAlone
  <2>5. CASE worker' = Idle /\ run' = [Unmarked(run) EXCEPT !.status = "TERMINATED"]
    <3>1. run'.status = "TERMINATED"
      BY <2>5 DEF Fields, Unmarked
    <3>2. worker'.pc = "idle" /\ worker'.due = Unset /\ DOMAIN worker' = DOMAIN worker
      BY <2>5 DEF Idle, Fields
    <3>3. Fields'
      BY <1>0, <2>2, <3>2 DEF Fields
    <3>4. Held' \subseteq Held
      BY <1>0, <3>1, <3>2 DEF Held
    <3> QED BY <1>0, <2>1, <2>2, <2>3, <3>1, <3>2, <3>3, <3>4, MarkerTaken DEF LeftAlone
  <2> QED BY <1>3, <1>6, <2>4, <2>5
<1> QED BY <1>3, <1>4, <1>5, <1>6 DEF End

\* A new call has a number of its own, under which its frame is kept; the marker
\* it replaces was for nothing.
LEMMA OnModelStep == ASSUME DraftsInv, OnModel PROVE DraftsInv'
<1> USE DEF DraftsInv
<1> DEFINE n == bounds.calls + 1
<1>1. PICK p \in Proposals :
        /\ worker.pc = "asked" /\ bounds' = [bounds EXCEPT !.calls = @ + 1]
        /\ seen' = Append(seen, worker.frame)
        /\ UNCHANGED <<sdk, tasks, said, sent>>
        /\ IF run.pcall # 0 /\ ~StaleMarker THEN End("TERMINATED")
           ELSE /\ run' = [run EXCEPT !.pcall = bounds'.calls, !.pmap = worker.frame]
                /\ worker' = [worker EXCEPT !.pc = "tool", !.call = AsCall(bounds'.calls, p),
                                            !.due = AsCall(bounds'.calls, p)]
  BY DEF OnModel
<1>2. bounds'.calls = n /\ DOMAIN bounds' = DOMAIN bounds
  BY <1>1 DEF Fields
<1>3. /\ Listed(seen') /\ Len(seen') = n /\ n = Len(seen) + 1 /\ Len(seen) \in Nat
      /\ DOMAIN seen = 1..Len(seen) /\ DOMAIN seen' = 1..n
      /\ seen'[n] = worker.frame /\ \A k \in DOMAIN seen : seen'[k] = seen[k]
  BY <1>1, ListedAppend, ListedFacts DEF Identified, Fields
<1>4. run.status = "RUNNING"
  BY <1>1 DEF Resolved
<1>5. /\ BoundAsShown' /\ UnitsAreTrusted' /\ CallsAreKept'
      /\ \A s \in Range(sent) : s.call \in DOMAIN seen
  <2>1. \A s \in Range(sent) : s.call \in DOMAIN seen
    BY DEF Ledger, Range
  <2>2. BoundAsShown'
    BY <1>1, <1>3, <2>1 DEF BoundAsShown, Sent
  <2> QED BY <1>1, <2>1, <2>2 DEF UnitsAreTrusted, CallsAreKept, Sent
<1>6. /\ \A d : Stated(d)' <=> Stated(d)
      /\ \A t, a : Newest(t, a)' <=> Newest(t, a)
      /\ \A e : Failed(e)' <=> Failed(e)
      /\ \A d : Asserted(d)' <=> Asserted(d)
      /\ \A d : Filed(d)' <=> Filed(d)
  BY <1>1 DEF Stated, Newest, Failed, Asserted, Filed
<1> HIDE DEF n
<1>7. CASE /\ run.pcall = 0 \/ StaleMarker
           /\ run' = [run EXCEPT !.pcall = bounds'.calls, !.pmap = worker.frame]
           /\ worker' = [worker EXCEPT !.pc = "tool", !.call = AsCall(bounds'.calls, p),
                                       !.due = AsCall(bounds'.calls, p)]
  <2> DEFINE c == AsCall(n, p)
  <2>1. /\ run'.no = run.no /\ run'.draft = run.draft /\ run'.pcall = n /\ run'.pmap = worker.frame
        /\ run'.rec = run.rec /\ run'.execs = run.execs /\ run'.retry = run.retry
        /\ run'.status = run.status /\ DOMAIN run' = DOMAIN run
    BY <1>2, <1>7 DEF Fields
  <2>2. /\ worker'.pc = "tool" /\ worker'.call = c /\ worker'.due = c
        /\ DOMAIN worker' = DOMAIN worker
    BY <1>2, <1>7 DEF Fields
  <2>3. c.id = n
    BY DEF AsCall
  <2> HIDE DEF c
  <2>4. run.rec = NoCall
    BY <1>7 DEF Pending, StaleMarker
  <2>5. \A i \in DOMAIN run.execs : run.execs[i].status # "FAILED"
    <3>1. CASE run.pcall = 0
      BY <3>1, <1>4 DEF Reports
    <3>2. CASE StaleMarker
      BY <3>2, <1>4, NoneFailed DEF StaleMarker
    <3> QED BY <1>7, <3>1, <3>2
  <2>6. Fields'
    BY <1>1, <1>2, <1>3, <2>1, <2>2 DEF Fields
  <2>7. Held' \subseteq Held \cup {c}
    BY <1>1, <1>4, <2>1, <2>2 DEF Held
  <2>8. Identified'
    <3>1. \A k \in Held : k.id \in 1..Len(seen)
      BY DEF Identified
    <3>2. \A k \in Held' : k.id \in 1..Len(seen')
      BY <1>3, <2>3, <2>7, <3>1
    <3>3. \A k, d \in Held' : k.id = d.id => k = d
      <4> SUFFICES ASSUME NEW k \in Held', NEW d \in Held', k.id = d.id PROVE k = d
        OBVIOUS
      <4>1. CASE k \in Held /\ d \in Held
        BY <4>1 DEF Identified
      <4>2. CASE k = c \/ d = c
        BY <1>3, <2>3, <2>7, <3>1, <4>2
      <4> QED BY <2>7, <4>1, <4>2
    <3> QED BY <1>2, <1>3, <2>1, <3>2, <3>3 DEF Identified
  <2>9. Resolved'
    BY <1>4, <2>1, <2>2 DEF Resolved
  <2>10. OnFile' /\ Pending'
    BY <1>6, <2>1, <2>4 DEF OnFile, Pending
  <2>11. Reports'
    BY <1>6, <2>1, <2>5 DEF Reports
  <2>12. Ledger'
    BY <1>1, <1>3, <2>1 DEF Ledger, Succeeded
  <2> QED BY <1>5, <2>6, <2>8, <2>9, <2>10, <2>11, <2>12
<1>8. CASE End("TERMINATED")
  <2>1. /\ run'.no = run.no /\ run'.draft = run.draft /\ run'.pcall = run.pcall /\ run'.pmap = run.pmap
        /\ run'.rec = run.rec /\ run'.execs = run.execs /\ run'.retry = run.retry
        /\ run'.status = "TERMINATED" /\ DOMAIN run' = DOMAIN run
    BY <1>8 DEF Fields, End
  <2>2. worker'.pc = "idle" /\ worker'.due = Unset /\ DOMAIN worker' = DOMAIN worker
    BY <1>8 DEF Fields, End, Idle
  <2>3. Fields'
    BY <1>1, <1>2, <1>3, <2>1, <2>2 DEF Fields
  <2>4. Held' \subseteq Held
    BY <1>1, <2>1, <2>2 DEF Held
  <2>5. Identified'
    BY <1>2, <1>3, <2>1, <2>4 DEF Identified
  <2>6. Resolved'
    BY <2>2 DEF Resolved
  <2>7. OnFile' /\ Pending'
    <3>1. /\ \A d : Succeeded(d)' <=> Succeeded(d)
          /\ \A i : Executed(i)' <=> Executed(i)
          /\ \A k, d : AsShown(k, d)' <=> AsShown(k, d)
      BY <2>1 DEF Succeeded, Executed, AsShown
    <3>2. OnFile'
      BY <1>6, <2>1 DEF OnFile
    <3> QED BY <1>1, <1>6, <2>1, <2>4, <3>1, <3>2 DEF Pending
  <2>8. Reports'
    BY <1>6, <2>1 DEF Reports
  <2>9. Ledger'
    BY <1>1, <1>3, <2>1 DEF Ledger, Succeeded
  <2> QED BY <1>5, <2>3, <2>5, <2>6, <2>7, <2>8, <2>9
<1> QED BY <1>1, <1>7, <1>8

-----------------------------------------------------------------------------
(* What the resolver settles *)

\* Half a change of a task: its status alone, or its status and one revision more.
WithStatus(k, v) == [tasks EXCEPT ![k].status = v]
WithOneMore(k, v, args) == [tasks EXCEPT ![k].status = v, ![k].revs = Append(@, args)]
LEMMA TaskStatus ==
  ASSUME Listed(tasks), NEW k \in DOMAIN tasks, NEW v,
         \A j \in DOMAIN tasks : DOMAIN tasks[j] = {"status", "revs"} /\ Listed(tasks[j].revs)
  PROVE  LET t == WithStatus(k, v) IN
         /\ Listed(t) /\ DOMAIN t = DOMAIN tasks
         /\ \A j \in DOMAIN t : DOMAIN t[j] = {"status", "revs"} /\ t[j].revs = tasks[j].revs
<1> DEFINE e == [tasks[k] EXCEPT !.status = v]
           t == [tasks EXCEPT ![k] = e]
<1>1. DOMAIN e = {"status", "revs"} /\ e.revs = tasks[k].revs
  OBVIOUS
<1>2. WithStatus(k, v) = t
  BY DEF WithStatus
<1> HIDE DEF e
<1>3. /\ Listed(t) /\ DOMAIN t = DOMAIN tasks
      /\ t[k] = e /\ \A i \in DOMAIN tasks : i # k => t[i] = tasks[i]
  BY ListedExcept
<1> HIDE DEF t
<1> QED BY <1>1, <1>2, <1>3

LEMMA TaskRevision ==
  ASSUME Listed(tasks), NEW k \in DOMAIN tasks, NEW v, NEW args,
         \A j \in DOMAIN tasks : DOMAIN tasks[j] = {"status", "revs"} /\ Listed(tasks[j].revs)
  PROVE  LET t == WithOneMore(k, v, args) IN
         /\ Listed(t) /\ DOMAIN t = DOMAIN tasks
         /\ \A j \in DOMAIN t : DOMAIN t[j] = {"status", "revs"} /\ Listed(t[j].revs)
         /\ t[k].revs = Append(tasks[k].revs, args)
<1> DEFINE e == [tasks[k] EXCEPT !.status = v, !.revs = Append(tasks[k].revs, args)]
           t == [tasks EXCEPT ![k] = e]
<1>1. DOMAIN e = {"status", "revs"} /\ e.revs = Append(tasks[k].revs, args)
  OBVIOUS
<1>2. Listed(e.revs)
  BY <1>1, ListedAppend
<1>3. WithOneMore(k, v, args) = t
  BY DEF WithOneMore
<1> HIDE DEF e
<1>4. /\ Listed(t) /\ DOMAIN t = DOMAIN tasks
      /\ t[k] = e /\ \A i \in DOMAIN tasks : i # k => t[i] = tasks[i]
  BY ListedExcept
<1> HIDE DEF t
<1> QED BY <1>1, <1>2, <1>3, <1>4

\* A temperature without an issue is one the tool accepts, and so is a time.
LEMMA InDegrees ==
  ASSUME NEW v, Temperature(v).issue = "none"
  PROVE  Temperature(v).value \in 900..1100
<1>1. v \in Temperatures /\ Temperature(v).value = v \div 10
  BY DEF Temperature
<1>2. v \in Int /\ 9000 <= v /\ v <= 11000
  BY <1>1 DEF Temperatures
<1> QED BY <1>1, <1>2

LEMMA InHours ==
  ASSUME NEW t, Duration(t).issue = "none"
  PROVE  Duration(t).value \in 10..50
<1>1. PICK m : m = InMinutes(t)
  OBVIOUS
<1>2. PICK q : q = m \div 600
  OBVIOUS
<1>3. m \in Durations /\ Duration(t).value = q
  BY <1>1, <1>2 DEF Duration
<1>4. m \in Int /\ 6000 <= m /\ m <= 30000
  BY <1>3 DEF Durations
<1>5. q \in 10..50
  BY <1>2, <1>4
<1> QED BY <1>3, <1>5

\* Temperatures and times that raise no issue are what the tool accepts.
LEMMA Accepted ==
  ASSUME NEW in, LabIssues(in) = {}
  PROVE  ValidInput([f \in {"temp", "time"} |-> Normalized(in)[f].value])
<1> DEFINE n == Normalized(in)
           open == {f \in DOMAIN n : n[f].issue # "none"}
<1>1. DOMAIN n = {"temp", "time"} /\ n.temp = Temperature(in.temp) /\ n.time = Duration(in.time)
  BY DEF Normalized
<1>2. open = {}
  BY DEF LabIssues
<1>3. Temperature(in.temp).issue = "none" /\ Duration(in.time).issue = "none"
  BY <1>1, <1>2
<1>4. Temperature(in.temp).value \in 900..1100
  BY <1>3, InDegrees
<1>5. Duration(in.time).value \in 10..50
  BY <1>3, InHours
<1> QED BY <1>1, <1>4, <1>5 DEF ValidInput

\* What is settled for a call.
LEMMA DraftFields ==
  ASSUME NEW p
  PROVE  LET d == ResolvedDraft(p) IN
         /\ DOMAIN d = {"tool", "schema", "args", "bound", "notes", "units", "issues", "task", "rev"}
         /\ d.tool = p.tool /\ d.schema = schema /\ d.args = ArgsOf(p) /\ d.bound = Bound(p)
         /\ d.notes = Notes(p) /\ d.units = UnitsOf(p) /\ d.issues = Issues(p)
         /\ d.task = (IF Previous(p) # Unset THEN Previous(p).task ELSE 0)
BY DEF ResolvedDraft, Draft

LEMMA LocatedFields ==
  ASSUME NEW d,
         DOMAIN d = {"tool", "schema", "args", "bound", "notes", "units", "issues", "task", "rev"}
  PROVE  LET e == Located(d) IN
         /\ e.tool = d.tool /\ e.schema = d.schema /\ e.args = d.args /\ e.bound = d.bound
         /\ e.units = d.units /\ e.issues = d.issues
         /\ \/ /\ d.tool = "lab" /\ d.issues = {} /\ run.retry # Unset
               /\ e.task = run.retry.task /\ e.rev = Len(tasks[run.retry.task].revs)
            \/ Revises(d) /\ d.task = 0 /\ e.task = Len(tasks) + 1 /\ e.rev = 1
            \/ Revises(d) /\ d.task # 0 /\ e.task = d.task /\ e.rev = Len(tasks[d.task].revs) + 1
            \/ /\ ~(d.tool = "lab" /\ d.issues = {} /\ run.retry # Unset) /\ ~Revises(d)
               /\ e.task = d.task
BY DEF Located

\* The units of a draft are those of the retried call, or what was stated for
\* the dataset that is bound.
LEMMA UnitsFacts ==
  ASSUME DraftsInv, NEW p, NEW heard,
         run.retry = Unset, UnitsOf(p) # Unset, Bound(p) # Unset,
         UnitsOf(p).by = "confirmed",
         p.claim # Unset => <<Bound(p), p.claim.unit>> \in heard,
         said \subseteq heard
  PROVE  <<Bound(p), UnitsOf(p).unit>> \in heard
<1>1. /\ Annotated(p) /\ UnitsOf(p) = Annotation(Notes(p), DeclaredOf(p), Confirmed(p))
  BY DEF UnitsOf
<1>2. Confirmed(p) # Unset /\ UnitsOf(p).unit = Confirmed(p)
  BY <1>1 DEF Annotation
<1>3. CASE p.claim # Unset
  BY <1>2, <1>3 DEF Confirmed
<1>4. CASE p.claim = Unset
  <2> DEFINE b == Previous(p)
  <2>1. /\ b # Unset /\ b.units # Unset /\ b.bound # Unset
        /\ b.units.by = "confirmed" /\ b.bound = Bound(p) /\ Confirmed(p) = b.units.unit
    BY <1>2, <1>4 DEF Confirmed, Carried
  <2>2. run.draft # Unset /\ b = run.draft
    BY <2>1 DEF Previous
  <2> QED BY <1>2, <2>1, <2>2 DEF DraftsInv, OnFile, Asserted
<1> QED BY <1>3, <1>4

\* Where nothing is open there is no issue of any kind.
LEMMA IssuesFacts ==
  ASSUME NEW p, Issues(p) = {}
  PROVE  /\ ResourceIssue(p) = "none" /\ UnitIssue(p) = "none"
         /\ p.tool = "lab" => LabIssues(p.args) = {}
<1> DEFINE resource == IF ResourceIssue(p) = "none" THEN {} ELSE {<<"dataset", ResourceIssue(p)>>}
           unit == IF UnitIssue(p) = "none" THEN {} ELSE {<<"semantic_annotations", UnitIssue(p)>>}
           lab == IF p.tool = "lab" THEN LabIssues(p.args) ELSE {}
<1>1. resource \cup unit \cup lab = {}
  BY DEF Issues
<1>2. resource = {} /\ unit = {} /\ lab = {}
  BY <1>1
<1> QED BY <1>2

\* Units that are ready to be sent were declared or asserted.
LEMMA UnitsStated ==
  ASSUME DraftsInv, NEW p, NEW heard,
         run.retry = Unset, UnitsOf(p) # Unset, UnitIssue(p) = "none",
         p.claim # Unset => p.tool = "train" /\ Bound(p) # Unset /\ <<Bound(p), p.claim.unit>> \in heard,
         said \subseteq heard
  PROVE  \/ UnitsOf(p).by = "declared" /\ UnitsOf(p).unit = Declared[Bound(p)]
         \/ UnitsOf(p).by = "confirmed" /\ <<Bound(p), UnitsOf(p).unit>> \in heard
<1>1. /\ Annotated(p) /\ UnitsOf(p) = Annotation(Notes(p), DeclaredOf(p), Confirmed(p))
  BY DEF UnitsOf
<1>2. Confirmed(p) # Unset \/ DeclaredOf(p) # Unset
  BY <1>1 DEF UnitIssue, Annotated
<1>3. CASE Confirmed(p) # Unset
  <2>1. UnitsOf(p).by = "confirmed"
    BY <1>1, <1>3 DEF Annotation
  <2>2. Bound(p) # Unset
    BY <1>3 DEF Confirmed, Carried
  <2> QED BY <2>1, <2>2, UnitsFacts
<1>4. CASE Confirmed(p) = Unset /\ DeclaredOf(p) # Unset
  BY <1>1, <1>4 DEF Annotation, DeclaredOf
<1> QED BY <1>2, <1>3, <1>4

\* What a resolved draft keeps: the invariant's part about it, once the revision
\* of its task is kept and the assertion of its call is taken.
LEMMA Settled ==
  ASSUME DraftsInv, Proposed, ~Refused(worker.call),
         NEW p, p = worker.call, NEW d, d = ResolvedDraft(p), NEW heard,
         p.claim # Unset => <<Bound(p), p.claim.unit>> \in heard, said \subseteq heard
  PROVE  /\ d.units # Unset /\ d.bound # Unset /\ d.units.by = "confirmed" =>
              <<d.bound, d.units.unit>> \in heard
         /\ run.retry # Unset => d.units = run.retry.units
         /\ d.issues = {} => AsShown(p, d)
         /\ d.issues = {} /\ run.retry = Unset /\ d.units # Unset =>
              \/ d.units.by = "declared" /\ d.units.unit = Declared[d.bound]
              \/ d.units.by = "confirmed" /\ <<d.bound, d.units.unit>> \in heard
         /\ d.issues = {} /\ d.tool = "lab" => ValidInput(d.args)
<1> USE DEF DraftsInv
<1>1. /\ d.tool = p.tool /\ d.args = ArgsOf(p) /\ d.bound = Bound(p)
      /\ d.units = UnitsOf(p) /\ d.issues = Issues(p)
  BY DraftFields
<1>2. /\ p.claim # Unset => p.tool = "train" /\ Bound(p) # Unset
      /\ run.retry # Unset => run.retry.tool = p.tool
  BY DEF Refused, Decodable
<1>3. ASSUME d.units # Unset, d.bound # Unset, d.units.by = "confirmed"
      PROVE  <<d.bound, d.units.unit>> \in heard
  <2>1. CASE run.retry = Unset
    BY <1>1, <1>3, <2>1, UnitsFacts
  <2>2. CASE run.retry # Unset
    <3>1. d.units = run.retry.units /\ d.bound = run.retry.bound
      BY <1>1, <1>3, <2>2 DEF UnitsOf, Bound
    <3>2. Stated(run.retry)
      BY <2>2 DEF Reports, Failed
    <3> QED BY <1>3, <3>1, <3>2 DEF Stated
  <2> QED BY <2>1, <2>2
<1>4. run.retry # Unset => d.units = run.retry.units
  BY <1>1 DEF UnitsOf
<1>5. ASSUME d.issues = {}
      PROVE  AsShown(p, d)
  <2> SUFFICES ASSUME d.tool = "train", run.retry = Unset, run.pmap # <<>>
               PROVE  p.ref \in DOMAIN run.pmap /\ run.pmap[p.ref] = d.bound
    BY DEF AsShown
  <2>1. ResourceIssue(p) = "none"
    BY <1>1, <1>5, IssuesFacts
  <2>2. ShownFrame = run.pmap
    BY DEF ShownFrame
  <2>3. p.ref \in DOMAIN ShownFrame
    BY <1>1, <2>1 DEF ResourceIssue
  <2>4. Bound(p) = ShownFrame[p.ref]
    BY <1>1, <2>1 DEF Bound
  <2> QED BY <1>1, <2>2, <2>3, <2>4
<1>6. ASSUME d.issues = {}, run.retry = Unset, d.units # Unset
      PROVE  \/ d.units.by = "declared" /\ d.units.unit = Declared[d.bound]
             \/ d.units.by = "confirmed" /\ <<d.bound, d.units.unit>> \in heard
  <2>1. UnitIssue(p) = "none"
    BY <1>1, <1>6, IssuesFacts
  <2> QED BY <1>1, <1>2, <1>6, <2>1, UnitsStated
<1>7. ASSUME d.issues = {}, d.tool = "lab"
      PROVE  ValidInput(d.args)
  <2>1. LabIssues(p.args) = {}
    BY <1>1, <1>7, IssuesFacts
  <2> QED BY <1>1, <1>7, <2>1, Accepted DEF ArgsOf
<1> QED BY <1>3, <1>4, <1>5, <1>6, <1>7

\* The revision of a ready managed draft is the newest of its task.
LEMMA Revised ==
  ASSUME DraftsInv, Proposed, NEW d,
         DOMAIN d = {"tool", "schema", "args", "bound", "notes", "units", "issues", "task", "rev"},
         Filed(d), tasks' = IF Revises(d) THEN WithRevision(d) ELSE tasks,
         run.retry # Unset => run.retry.tool = d.tool
  PROVE  LET e == Located(d) IN
         /\ Listed(tasks') /\ DOMAIN tasks \subseteq DOMAIN tasks'
         /\ \A k \in DOMAIN tasks' : DOMAIN tasks'[k] = {"status", "revs"} /\ Listed(tasks'[k].revs)
         /\ run.retry # Unset => tasks' = tasks
         /\ e.task # 0 => e.task \in DOMAIN tasks'
         /\ e.tool = "lab" /\ e.issues = {} =>
              \/ Succeeded(e)
              \/ /\ run.retry = Unset /\ e.task \in DOMAIN tasks' /\ tasks'[e.task].revs # <<>>
                 /\ e.rev = Len(tasks'[e.task].revs) /\ tasks'[e.task].revs[e.rev] = e.args
              \/ run.retry # Unset /\ e.task = run.retry.task /\ e.rev = Len(tasks'[e.task].revs)
<1> USE DEF DraftsInv
<1> DEFINE e == Located(d)
<1>1. /\ e.tool = d.tool /\ e.schema = d.schema /\ e.args = d.args /\ e.bound = d.bound
      /\ e.units = d.units /\ e.issues = d.issues
      /\ \/ /\ d.tool = "lab" /\ d.issues = {} /\ run.retry # Unset
            /\ e.task = run.retry.task /\ e.rev = Len(tasks[run.retry.task].revs)
         \/ Revises(d) /\ d.task = 0 /\ e.task = Len(tasks) + 1 /\ e.rev = 1
         \/ Revises(d) /\ d.task # 0 /\ e.task = d.task /\ e.rev = Len(tasks[d.task].revs) + 1
         \/ /\ ~(d.tool = "lab" /\ d.issues = {} /\ run.retry # Unset) /\ ~Revises(d)
            /\ e.task = d.task
  BY LocatedFields
<1> HIDE DEF e
<1>2. /\ Listed(tasks)
      /\ \A k \in DOMAIN tasks : DOMAIN tasks[k] = {"status", "revs"} /\ Listed(tasks[k].revs)
  BY DEF Fields
<1>3. run.retry # Unset => ~Revises(d) /\ (d.tool = "lab" => run.retry.task \in DOMAIN tasks)
  BY DEF Revises, Reports, Failed, Newest
<1>4. CASE ~Revises(d)
  <2>1. tasks' = tasks
    BY <1>4
  <2>2. e.task # 0 => e.task \in DOMAIN tasks
    BY <1>1, <1>3, <1>4 DEF Filed
  <2>3. ASSUME e.tool = "lab", e.issues = {}, run.retry = Unset
        PROVE  Succeeded(e)
    <3>1. run.rec = NoCall
      BY DEF Proposed
    <3>2. ~SameInput(d)
      BY <3>1 DEF SameInput, OnFile
    <3>3. Succeeded(d)
      BY <1>1, <1>4, <2>3, <3>2 DEF Revises
    <3>4. Fingerprint(e) = Fingerprint(d)
      BY <1>1 DEF Fingerprint
    <3> QED BY <3>3, <3>4 DEF Succeeded
  <2>4. run.retry # Unset /\ e.tool = "lab" /\ e.issues = {} =>
          e.task = run.retry.task /\ e.rev = Len(tasks[e.task].revs)
    BY <1>1, <1>4
  <2> QED BY <1>2, <2>1, <2>2, <2>3, <2>4 DEF e
<1>5. CASE Revises(d) /\ d.task = 0
  <2> DEFINE new == [status |-> "READY", revs |-> <<d.args>>]
  <2>1. tasks' = Append(tasks, new) /\ e.task = Len(tasks) + 1 /\ e.rev = 1 /\ run.retry = Unset
    BY <1>1, <1>5 DEF WithRevision, Revises
  <2>2. /\ DOMAIN new = {"status", "revs"} /\ new.revs = <<d.args>>
        /\ Listed(<<d.args>>) /\ Len(<<d.args>>) = 1 /\ <<d.args>>[1] = d.args /\ <<d.args>> # <<>>
    <3>1. <<d.args>> \in Seq({d.args})
      OBVIOUS
    <3>2. Listed(<<d.args>>)
      BY <3>1, SeqOfRange DEF Listed
    <3> QED BY <3>2
  <2> HIDE DEF new
  <2>3. /\ Listed(tasks') /\ DOMAIN tasks' = DOMAIN tasks \cup {Len(tasks) + 1}
        /\ tasks'[Len(tasks) + 1] = new /\ \A k \in DOMAIN tasks : tasks'[k] = tasks[k]
    <3> DEFINE t == Append(tasks, new)
    <3>1. /\ Listed(t) /\ DOMAIN t = DOMAIN tasks \cup {Len(tasks) + 1}
          /\ t[Len(tasks) + 1] = new /\ \A k \in DOMAIN tasks : t[k] = tasks[k]
      BY <1>2, ListedAppend
    <3> QED BY <2>1, <3>1
  <2>4. \A k \in DOMAIN tasks' : DOMAIN tasks'[k] = {"status", "revs"} /\ Listed(tasks'[k].revs)
    BY <1>2, <2>2, <2>3
  <2>5. /\ e.task \in DOMAIN tasks' /\ tasks'[e.task].revs = <<d.args>>
        /\ e.rev = Len(tasks'[e.task].revs)
    BY <2>1, <2>2, <2>3
  <2>6. tasks'[e.task].revs # <<>> /\ tasks'[e.task].revs[e.rev] = e.args
    BY <1>1, <2>1, <2>2, <2>5
  <2> QED BY <2>1, <2>3, <2>4, <2>5, <2>6 DEF e
<1>6. CASE Revises(d) /\ d.task # 0
  <2>1. /\ tasks' = [tasks EXCEPT ![d.task].status = "READY", ![d.task].revs = Append(@, d.args)]
        /\ e.task = d.task /\ e.rev = Len(tasks[d.task].revs) + 1 /\ run.retry = Unset
    BY <1>1, <1>6 DEF WithRevision, Revises
  <2>2. d.task \in DOMAIN tasks
    BY <1>6 DEF Filed
  <2>3. /\ Listed(tasks') /\ DOMAIN tasks' = DOMAIN tasks
        /\ \A j \in DOMAIN tasks' : DOMAIN tasks'[j] = {"status", "revs"} /\ Listed(tasks'[j].revs)
        /\ tasks'[d.task].revs = Append(tasks[d.task].revs, d.args)
    <3>1. tasks' = WithOneMore(d.task, "READY", d.args)
      BY <2>1 DEF WithOneMore
    <3> QED BY <1>2, <2>2, <3>1, TaskRevision
  <2>4. /\ Len(Append(tasks[d.task].revs, d.args)) = e.rev
        /\ Append(tasks[d.task].revs, d.args)[e.rev] = d.args
        /\ Append(tasks[d.task].revs, d.args) # <<>>
    BY <1>2, <2>1, <2>2, ListedAppend
  <2> QED BY <1>1, <2>1, <2>2, <2>3, <2>4 DEF e
<1> QED BY <1>4, <1>5, <1>6

\* A draft is settled for the call at hand, behind which nothing failed.
LEMMA ResolveStep == ASSUME DraftsInv, Resolve PROVE DraftsInv'
<1> USE DEF DraftsInv
<1>0. PICK p, d, e : p = worker.call /\ d = ResolvedDraft(p) /\ e = Located(d)
  OBVIOUS
<1>1. /\ Proposed
      /\ UNCHANGED <<sdk, seen, sent, bounds>>
      /\ IF Refused(p) \/ (Revises(d) /\ ~Editable(d))
           THEN End("TERMINATED") /\ UNCHANGED <<tasks, said>>
           ELSE /\ worker' = [worker EXCEPT !.pc = "resolved", !.draft = e]
                /\ tasks' = IF Revises(d) THEN WithRevision(d) ELSE tasks
                /\ said' = IF p.claim # Unset THEN said \cup {<<Bound(p), p.claim.unit>>} ELSE said
                /\ UNCHANGED run
  BY <1>0 DEF Resolve
<1>2. /\ worker.pc = "tool" /\ run.pcall = p.id /\ p.tool \in Tools /\ run.rec = NoCall /\ ~Executed(p.id)
  BY <1>0, <1>1 DEF Proposed, Owned, AtTool
<1>3. run.status = "RUNNING"
  BY <1>2 DEF Resolved
<1>4. CASE End("TERMINATED") /\ UNCHANGED <<tasks, said>>
  BY <1>1, <1>2, <1>4, EndStep
<1>5. CASE /\ ~Refused(p)
           /\ worker' = [worker EXCEPT !.pc = "resolved", !.draft = e]
           /\ tasks' = IF Revises(d) THEN WithRevision(d) ELSE tasks
           /\ said' = IF p.claim # Unset THEN said \cup {<<Bound(p), p.claim.unit>>} ELSE said
           /\ UNCHANGED run
  <2>1. /\ DOMAIN d = {"tool", "schema", "args", "bound", "notes", "units", "issues", "task", "rev"}
        /\ d.tool = p.tool
        /\ d.task = (IF Previous(p) # Unset THEN Previous(p).task ELSE 0)
    BY <1>0, DraftFields
  <2>2. /\ e.tool = d.tool /\ e.schema = d.schema /\ e.args = d.args /\ e.bound = d.bound
        /\ e.units = d.units /\ e.issues = d.issues
    BY <1>0, <2>1, LocatedFields
  <2>3. Filed(d)
    BY <2>1 DEF Filed, Previous, OnFile
  <2>4. run.retry # Unset => run.retry.tool = d.tool
    BY <1>0, <1>5, <2>1 DEF Refused
  <2>5. said \subseteq said' /\ (p.claim # Unset => <<Bound(p), p.claim.unit>> \in said')
    BY <1>5
  <2>6. /\ d.units # Unset /\ d.bound # Unset /\ d.units.by = "confirmed" =>
             <<d.bound, d.units.unit>> \in said'
        /\ run.retry # Unset => d.units = run.retry.units
        /\ d.issues = {} => AsShown(p, d)
        /\ d.issues = {} /\ run.retry = Unset /\ d.units # Unset =>
             \/ d.units.by = "declared" /\ d.units.unit = Declared[d.bound]
             \/ d.units.by = "confirmed" /\ <<d.bound, d.units.unit>> \in said'
        /\ d.issues = {} /\ d.tool = "lab" => ValidInput(d.args)
    BY <1>0, <1>1, <1>5, <2>5, Settled
  <2>7. /\ Listed(tasks') /\ DOMAIN tasks \subseteq DOMAIN tasks'
        /\ \A k \in DOMAIN tasks' : DOMAIN tasks'[k] = {"status", "revs"} /\ Listed(tasks'[k].revs)
        /\ run.retry # Unset => tasks' = tasks
        /\ e.task # 0 => e.task \in DOMAIN tasks'
        /\ e.tool = "lab" /\ e.issues = {} =>
             \/ Succeeded(e)
             \/ /\ run.retry = Unset /\ e.task \in DOMAIN tasks' /\ tasks'[e.task].revs # <<>>
                /\ e.rev = Len(tasks'[e.task].revs) /\ tasks'[e.task].revs[e.rev] = e.args
             \/ run.retry # Unset /\ e.task = run.retry.task /\ e.rev = Len(tasks'[e.task].revs)
    BY <1>0, <1>1, <1>5, <2>1, <2>3, <2>4, Revised
  <2>8. /\ worker'.pc = "resolved" /\ worker'.call = p /\ worker'.due = worker.due /\ worker'.draft = e
        /\ DOMAIN worker' = DOMAIN worker
    BY <1>0, <1>5 DEF Fields
  <2>9. Fields'
    BY <1>1, <1>5, <2>7, <2>8 DEF Fields
  <2>10. Held' = Held
    BY <1>0, <1>1, <1>2, <1>5, <2>8 DEF Held
  <2>11. Identified'
    BY <1>1, <1>5, <2>10 DEF Identified
  <2>12. \A i \in DOMAIN run.execs : run.execs[i].status # "FAILED"
    BY <1>2, <1>3, NoneFailed
  <2>13. \A x : Stated(x) => Stated(x)'
    BY <2>5 DEF Stated
  <2>14. Resolved'
    <3>1. Asserted(e)' /\ Filed(e)'
      BY <2>2, <2>6, <2>7 DEF Asserted, Filed
    <3>2. ASSUME e.issues = {}
          PROVE  Ready(p, e)'
      <4>1. AsShown(p, e)'
        BY <1>5, <2>2, <2>6, <3>2 DEF AsShown
      <4>2. run.retry = Unset => Stated(e)'
        BY <2>2, <2>6, <3>2 DEF Stated
      <4>3. ASSUME e.tool = "lab"
            PROVE  /\ ValidInput(e.args)
                   /\ \/ Succeeded(e)
                      \/ run.retry = Unset /\ Newest(e.task, e.args)' /\ e.rev = Len(tasks'[e.task].revs)
                      \/ run.retry # Unset /\ e.task = run.retry.task /\ e.rev = Len(tasks'[e.task].revs)
        BY <2>2, <2>6, <2>7, <3>2, <4>3 DEF Newest
      <4>4. Succeeded(e)' <=> Succeeded(e)
        BY <1>5 DEF Succeeded
      <4> QED BY <1>5, <4>1, <4>2, <4>3, <4>4 DEF Ready
    <3>3. Executed(p.id)' <=> Executed(p.id)
      BY <1>5 DEF Executed
    <3> QED BY <1>2, <1>3, <1>5, <2>2, <2>6, <2>8, <3>1, <3>2, <3>3 DEF Resolved
  <2>15. OnFile'
    BY <1>5, <2>5, <2>7 DEF OnFile, Asserted, Filed
  <2>16. Pending'
    BY <1>2, <1>5 DEF Pending
  <2>17. Reports'
    <3>1. run.retry # Unset => Failed(run.retry)'
      BY <1>5, <2>7, <2>13 DEF Reports, Failed, Newest
    <3> QED BY <1>5, <2>12, <3>1 DEF Reports
  <2>18. Ledger'
    BY <1>1, <1>5 DEF Ledger, Succeeded
  <2>19. BoundAsShown' /\ CallsAreKept'
    BY <1>1 DEF BoundAsShown, CallsAreKept, Sent
  <2>20. UnitsAreTrusted'
    BY <1>1, <2>5 DEF UnitsAreTrusted, Sent
  <2> QED BY <2>9, <2>11, <2>14, <2>15, <2>16, <2>17, <2>18, <2>19, <2>20
<1> QED BY <1>1, <1>4, <1>5

\* A ready draft becomes the pending call with what was settled for it.
LEMMA RecordStep == ASSUME DraftsInv, Record PROVE DraftsInv'
<1> USE DEF DraftsInv
<1>0. PICK d, r : /\ d = worker.draft
                  /\ r = [call |-> worker.call.id, tool |-> d.tool, schema |-> d.schema, args |-> d.args,
                          bound |-> d.bound, units |-> d.units]
  OBVIOUS
<1>1. /\ worker.pc = "resolved" /\ d.issues = {}
      /\ UNCHANGED <<sdk, tasks, seen, said, sent, bounds>>
      /\ IF Repeats(d) \/ Departs(d) THEN End("TERMINATED")
         ELSE run' = [run EXCEPT !.draft = d, !.rec = r] /\ worker' = [worker EXCEPT !.pc = "tool", !.draft = Unset]
  BY <1>0 DEF Record
<1>2. CASE End("TERMINATED")
  BY <1>1, <1>2, EndStep
<1>3. CASE /\ ~Repeats(d) /\ ~Departs(d)
           /\ run' = [run EXCEPT !.draft = d, !.rec = r] /\ worker' = [worker EXCEPT !.pc = "tool", !.draft = Unset]
  <2>1. /\ r.call = worker.call.id /\ r.tool = d.tool /\ r.schema = d.schema /\ r.args = d.args
        /\ r.bound = d.bound /\ r.units = d.units
    BY <1>0
  <2>2. /\ run'.no = run.no /\ run'.draft = d /\ run'.pcall = run.pcall /\ run'.pmap = run.pmap
        /\ run'.rec = r /\ run'.execs = run.execs /\ run'.retry = run.retry
        /\ run'.status = run.status /\ DOMAIN run' = DOMAIN run
    BY <1>3 DEF Fields
  <2>3. /\ worker'.pc = "tool" /\ worker'.call = worker.call /\ worker'.due = worker.due
        /\ DOMAIN worker' = DOMAIN worker
    BY <1>3 DEF Fields
  <2>4. /\ run.status = "RUNNING" /\ run.rec = NoCall /\ run.pcall = worker.call.id
        /\ ~Executed(worker.call.id) /\ worker.call.tool \in Tools
        /\ Asserted(d) /\ Filed(d) /\ Ready(worker.call, d)
        /\ run.retry # Unset => d.units = run.retry.units
    BY <1>0, <1>1 DEF Resolved
  <2>5. worker.call \in Held
    BY <1>1 DEF Held
  <2>6. r.call \in Nat \ {0} /\ r # NoCall
    BY <2>1, <2>5, ListedFacts DEF Identified, NoCall, Fields
  <2>7. Fields'
    BY <1>1, <2>2, <2>3 DEF Fields
  <2>8. Held' = Held
    BY <1>1, <2>2, <2>3 DEF Held
  <2>9. Identified'
    BY <1>1, <2>2, <2>8 DEF Identified
  <2>10. Resolved'
    BY <2>2, <2>3, <2>4 DEF Resolved
  <2>11. OnFile'
    BY <1>1, <2>2, <2>4, <2>6 DEF OnFile, Asserted, Filed
  <2>12. Fingerprint(r) = Fingerprint(d)
    BY <2>1 DEF Fingerprint
  <2>13. ~Succeeded(d) /\ ~Succeeded(r)
    BY <1>3, <2>12 DEF Repeats, Succeeded
  <2>14. run.retry # Unset => Fingerprint(r) = Fingerprint(run.retry) /\ r.units = run.retry.units
    BY <1>3, <2>1, <2>4, <2>12 DEF Departs
  <2>15. Stated(r)
    <3>1. CASE run.retry = Unset
      BY <2>1, <2>4, <3>1 DEF Ready, Stated
    <3>2. CASE run.retry # Unset
      <4>1. Stated(run.retry)
        BY <3>2 DEF Reports, Failed
      <4>2. r.bound = run.retry.bound /\ r.units = run.retry.units
        BY <2>14, <3>2 DEF Fingerprint
      <4> QED BY <4>1, <4>2 DEF Stated
    <3> QED BY <3>1, <3>2
  <2>16. ASSUME r.tool = "lab"
         PROVE  ValidInput(r.args) /\ Newest(d.task, r.args) /\ d.rev = Len(tasks[d.task].revs)
    <3>1. CASE run.retry = Unset
      BY <2>1, <2>4, <2>13, <2>16, <3>1 DEF Ready
    <3>2. CASE run.retry # Unset
      <4>1. r.tool = run.retry.tool /\ r.args = run.retry.args
        BY <2>14, <3>2 DEF Fingerprint
      <4>2. Newest(run.retry.task, run.retry.args)
        BY <2>16, <3>2, <4>1 DEF Reports, Failed
      <4> QED BY <2>1, <2>4, <2>13, <2>16, <3>2, <4>1, <4>2 DEF Ready
    <3> QED BY <3>1, <3>2
  <2>17. \A c \in Held : c.id = r.call => c.tool \in Tools /\ AsShown(c, r)
    <3> SUFFICES ASSUME NEW c \in Held, c.id = r.call PROVE c.tool \in Tools /\ AsShown(c, r)
      OBVIOUS
    <3>1. c = worker.call
      BY <2>1, <2>5 DEF Identified
    <3> QED BY <2>1, <2>4, <3>1 DEF Ready, AsShown
  <2>18. Pending'
    <3>1. /\ Succeeded(r)' <=> Succeeded(r)
          /\ Executed(r.call)' <=> Executed(r.call)
          /\ Stated(r)' <=> Stated(r)
          /\ \A t, a : Newest(t, a)' <=> Newest(t, a)
          /\ \A c : AsShown(c, r)' <=> AsShown(c, r)
      BY <1>1, <2>2 DEF Succeeded, Executed, Stated, Newest, AsShown
    <3> QED BY <1>1, <2>1, <2>2, <2>4, <2>6, <2>8, <2>13, <2>14, <2>15, <2>16, <2>17, <3>1 DEF Pending
  <2>19. Reports'
    <3>1. \A x : Failed(x)' <=> Failed(x)
      BY <1>1 DEF Failed, Stated, Newest
    <3> QED BY <2>2, <3>1 DEF Reports
  <2>20. Ledger'
    BY <1>1, <2>2 DEF Ledger, Succeeded
  <2>21. BoundAsShown' /\ UnitsAreTrusted' /\ CallsAreKept'
    BY <1>1 DEF BoundAsShown, UnitsAreTrusted, CallsAreKept, Sent
  <2> QED BY <2>7, <2>9, <2>10, <2>11, <2>18, <2>19, <2>20, <2>21
<1> QED BY <1>1, <1>2, <1>3

\* What is reported is what was settled; it is sent with it, and only once.
LEMMA DispatchStep == ASSUME DraftsInv, Dispatch PROVE DraftsInv'
<1> USE DEF DraftsInv
<1>1. PICK status \in {"SUCCEEDED", "FAILED"}, retryable \in BOOLEAN :
        /\ retryable => status = "FAILED"
        /\ IF Drifted THEN End("TERMINATED") ELSE run' = Reported(status, retryable) /\ UNCHANGED worker
        /\ tasks' = IF ~Drifted /\ run.rec.tool = "lab" THEN [tasks EXCEPT ![run.draft.task].status = status] ELSE tasks
        /\ sent' = IF Drifted \/ Gone THEN sent ELSE Append(sent, Request(status))
  BY DEF Dispatch
<1>2. /\ worker.pc = "tool" /\ run.pcall = worker.call.id /\ run.rec # NoCall
      /\ UNCHANGED <<sdk, seen, said, bounds>>
  BY DEF Dispatch, Owned, AtTool
<1>3. run.status = "RUNNING"
  BY <1>2 DEF Resolved
<1>4. CASE Drifted
  <2>1. UNCHANGED <<tasks, seen, said, sent, sdk>> /\ bounds' = bounds /\ End("TERMINATED")
    BY <1>1, <1>2, <1>4
  <2> QED BY <1>2, <2>1, EndStep
<1>5. CASE ~Drifted
  <2>0. PICK r, e, q, k : r = run.rec /\ e = Execution(status, retryable) /\ q = Request(status) /\ k = run.draft.task
    OBVIOUS
  <2>1. /\ e.call = r.call /\ e.tool = r.tool /\ e.args = r.args /\ e.bound = r.bound /\ e.units = r.units
        /\ e.schema = r.schema /\ e.status = status /\ e.task = k
    BY <2>0 DEF Execution
  <2>2. e.retryable => status = "FAILED"
    BY <1>1, <2>0, Zenon DEF Execution
  <2>3. /\ q.call = r.call /\ q.tool = r.tool /\ q.args = r.args /\ q.bound = r.bound /\ q.units = r.units
        /\ q.schema = r.schema /\ q.run = run.no /\ q.ref = worker.call.ref /\ q.status = status /\ q.of = run.retry
        /\ q.input = (IF r.tool = "lab" THEN tasks[k].revs[run.draft.rev] ELSE r.args)
    BY <2>0 DEF Request
  <2>4. /\ run' = [run EXCEPT !.execs = Append(run.execs, e), !.rec = NoCall, !.draft = Unset, !.retry = Unset]
        /\ UNCHANGED worker
    BY <1>1, <1>5, <2>0 DEF Reported
  <2>5. /\ run'.no = run.no /\ run'.draft = Unset /\ run'.pcall = run.pcall /\ run'.pmap = run.pmap
        /\ run'.rec = NoCall /\ run'.execs = Append(run.execs, e) /\ run'.retry = Unset
        /\ run'.status = run.status /\ DOMAIN run' = DOMAIN run
    BY <2>4 DEF Fields
  <2>6. \/ sent' = sent
        \/ sent' = Append(sent, q)
    BY <1>1, <1>5, <2>0
  <2>7. /\ r.call = run.pcall /\ r.call # 0 /\ ~Executed(r.call) /\ ~Succeeded(r) /\ Stated(r)
        /\ run.retry # Unset => Fingerprint(r) = Fingerprint(run.retry) /\ r.units = run.retry.units
        /\ r.tool = "lab" =>
             /\ ValidInput(r.args) /\ Newest(k, r.args) /\ run.draft.rev = Len(tasks[k].revs)
        /\ \A c \in Held : c.id = r.call => AsShown(c, r)
    BY <1>2, <2>0 DEF Pending
  <2>8. /\ Listed(run.execs) /\ Listed(sent) /\ Listed(tasks)
        /\ \A j \in DOMAIN tasks : DOMAIN tasks[j] = {"status", "revs"} /\ Listed(tasks[j].revs)
    BY DEF Fields
  <2>9. /\ Listed(tasks') /\ DOMAIN tasks' = DOMAIN tasks
        /\ \A j \in DOMAIN tasks' : DOMAIN tasks'[j] = {"status", "revs"} /\ tasks'[j].revs = tasks[j].revs
    <3>1. CASE r.tool = "lab"
      <4>1. k \in DOMAIN tasks
        BY <2>7, <3>1 DEF Newest
      <4>2. tasks' = WithStatus(k, status)
        BY <1>1, <1>5, <2>0, <3>1 DEF WithStatus
      <4> QED BY <2>8, <4>1, <4>2, TaskStatus
    <3>2. CASE r.tool # "lab"
      BY <1>1, <2>0, <2>8, <3>2
    <3> QED BY <3>1, <3>2
  <2>10. /\ Listed(run'.execs) /\ DOMAIN run'.execs = DOMAIN run.execs \cup {Len(run.execs) + 1}
         /\ run'.execs[Len(run.execs) + 1] = e
         /\ \A i \in DOMAIN run.execs : run'.execs[i] = run.execs[i]
    BY <2>5, <2>8, ListedAppend
  <2>11. Listed(sent')
    BY <2>6, <2>8, ListedAppend
  <2>12. Fields'
    BY <1>2, <2>4, <2>5, <2>8, <2>9, <2>10, <2>11 DEF Fields
  <2>13. Held' = Held
    BY <1>2, <2>4, <2>5 DEF Held
  <2>14. Identified'
    BY <1>2, <2>5, <2>13 DEF Identified
  <2>15. Resolved'
    BY <1>2, <1>3, <2>4, <2>5 DEF Resolved
  <2>16. OnFile' /\ Pending'
    BY <2>5 DEF OnFile, Pending
  <2>17. /\ \A d : Stated(d)' <=> Stated(d)
         /\ \A t, a : Newest(t, a)' <=> Newest(t, a)
         /\ \A d : Succeeded(d) => Succeeded(d)'
    <3>1. \A t, a : Newest(t, a)' <=> Newest(t, a)
      BY <2>9 DEF Newest
    <3>2. \A d : Succeeded(d) => Succeeded(d)'
      BY <2>10 DEF Succeeded
    <3> QED BY <1>2, <3>1, <3>2 DEF Stated
  <2>18. Reports'
    <3>1. Failed(e)' <=> status = "FAILED"
      BY <2>1, <2>7, <2>17 DEF Failed, Stated
    <3>2. \A i \in DOMAIN run.execs : run.execs[i].status # "FAILED" /\ run.execs[i].call # e.call
      BY <1>2, <1>3, <2>1, <2>7, NoneFailed DEF Executed
    <3>3. /\ e.call # 0 /\ e.status \in {"SUCCEEDED", "FAILED"} /\ (e.retryable => e.status = "FAILED")
          /\ e.call = run'.pcall
      BY <2>1, <2>2, <2>5, <2>7
    <3>4. PICK x : x = run'.execs
      OBVIOUS
    <3>5. \A i \in DOMAIN x :
            /\ x[i].call # 0 /\ x[i].status \in {"SUCCEEDED", "FAILED"}
            /\ x[i].retryable => x[i].status = "FAILED"
            /\ x[i].status = "FAILED" => Failed(x[i])' /\ run'.pcall = x[i].call
      <4>1. \A i \in DOMAIN run.execs :
              /\ run.execs[i].call # 0 /\ run.execs[i].status \in {"SUCCEEDED", "FAILED"}
              /\ run.execs[i].retryable => run.execs[i].status = "FAILED"
        BY DEF Reports
      <4> QED BY <2>1, <2>10, <3>1, <3>2, <3>3, <3>4, <4>1
    <3>6. \A i, j \in DOMAIN x : x[i].call = x[j].call => i = j
      BY <2>10, <3>2, <3>4 DEF Reports
    <3> QED BY <2>5, <3>4, <3>5, <3>6 DEF Reports
  <2>19. CASE sent' = sent
    <3>1. Ledger'
      BY <1>2, <2>5, <2>17, <2>19 DEF Ledger
    <3>2. BoundAsShown' /\ UnitsAreTrusted' /\ CallsAreKept'
      BY <1>2, <2>19 DEF BoundAsShown, UnitsAreTrusted, CallsAreKept, Sent
    <3> QED BY <2>12, <2>14, <2>15, <2>16, <2>18, <3>1, <3>2
  <2>20. CASE sent' = Append(sent, q)
    <3> DEFINE n == Len(sent) + 1
    <3>1. /\ DOMAIN sent' = DOMAIN sent \cup {n} /\ n \notin DOMAIN sent /\ sent'[n] = q
          /\ \A i \in DOMAIN sent : sent'[i] = sent[i]
          /\ DOMAIN sent = 1..Len(sent) /\ Len(sent) \in Nat
      BY <2>8, <2>20, ListedAppend, ListedFacts
    <3> HIDE DEF n
    <3>2. Fingerprint(q) = Fingerprint(r) /\ Fingerprint(e) = Fingerprint(r)
      BY <2>1, <2>3 DEF Fingerprint
    <3>3. Ledger'
      <4>1. q.call \in DOMAIN seen
        BY <2>3, <2>7, <2>8, ListedFacts DEF Identified, Fields
      <4>2. q.status = "SUCCEEDED" => Succeeded(q)'
        BY <2>1, <2>3, <2>10, <3>2 DEF Succeeded
      <4>3. q.run = run.no /\ run.no \in Nat /\ run'.no = run.no
        BY <2>3, <2>5 DEF Fields
      <4> QED BY <1>2, <2>17, <3>1, <4>1, <4>2, <4>3 DEF Ledger
    <3>4. \A s \in Range(sent') : s \in Range(sent) \/ s = q
      BY <3>1 DEF Range
    <3>5. BoundAsShown'
      <4>1. worker.call \in Held
        BY <1>2 DEF Held
      <4>2. AsShown(worker.call, r)
        BY <1>2, <2>7, <4>1
      <4>3. run.pcall # 0 /\ run.pmap = seen[run.pcall]
        BY <2>7 DEF Identified
      <4>4. q.tool = "train" /\ q.of = Unset /\ seen[q.call] # <<>> =>
              q.ref \in DOMAIN seen[q.call] /\ seen[q.call][q.ref] = q.bound
        BY <2>3, <2>7, <4>2, <4>3 DEF AsShown
      <4> QED BY <1>2, <3>4, <4>4 DEF BoundAsShown, Sent
    <3>6. UnitsAreTrusted'
      BY <1>2, <2>3, <2>7, <3>4 DEF UnitsAreTrusted, Sent, Stated
    <3>7. CallsAreKept'
      <4>1. \A i, j \in DOMAIN sent' : i < j /\ sent'[i].run = sent'[j].run /\ sent'[i].status = "SUCCEEDED"
              => Fingerprint(sent'[i]) # Fingerprint(sent'[j])
        <5> SUFFICES ASSUME NEW i \in DOMAIN sent', NEW j \in DOMAIN sent', i < j,
                            sent'[i].run = sent'[j].run, sent'[i].status = "SUCCEEDED"
                     PROVE  Fingerprint(sent'[i]) # Fingerprint(sent'[j])
          OBVIOUS
        <5>1. i \in DOMAIN sent /\ sent'[i] = sent[i]
          BY <3>1 DEF n
        <5>2. CASE j \in DOMAIN sent
          BY <3>1, <5>1, <5>2 DEF CallsAreKept
        <5>3. CASE j = n
          <6>1. sent[i].run = run.no
            BY <2>3, <3>1, <5>1, <5>3
          <6>2. Succeeded(sent[i])
            BY <5>1, <6>1 DEF Ledger
          <6>3. Fingerprint(sent[i]) # Fingerprint(r)
            BY <2>7, <6>2 DEF Succeeded
          <6> QED BY <3>1, <3>2, <5>1, <5>3, <6>3
        <5> QED BY <3>1, <5>2, <5>3
      <4>2. q.of # Unset
              => q.of.status = "FAILED" /\ Fingerprint(q) = Fingerprint(q.of) /\ q.units = q.of.units
        BY <2>3, <2>7, <3>2 DEF Reports, Failed
      <4>3. q.tool = "lab" => q.args = q.input /\ ValidInput(q.args)
        BY <2>3, <2>7 DEF Newest
      <4>4. \A s \in Range(sent') : s.of # Unset
              => s.of.status = "FAILED" /\ Fingerprint(s) = Fingerprint(s.of) /\ s.units = s.of.units
        BY <3>4, <4>2 DEF CallsAreKept, Sent
      <4>5. \A s \in Range(sent') : s.tool = "lab" => s.args = s.input /\ ValidInput(s.args)
        BY <3>4, <4>3 DEF CallsAreKept, Sent
      <4> QED BY <4>1, <4>4, <4>5 DEF CallsAreKept, Sent, Fingerprint
    <3> QED BY <2>12, <2>14, <2>15, <2>16, <2>18, <3>3, <3>5, <3>6, <3>7
  <2> QED BY <2>6, <2>19, <2>20
<1> QED BY <1>4, <1>5

\* A retry starts a run of its own from what failed.
LEMMA RetryStep == ASSUME DraftsInv, Retry PROVE DraftsInv'
<1> USE DEF DraftsInv
<1>1. PICK i \in DOMAIN run.execs : run.execs[i].retryable /\ run' = FreshRun(run.no + 1, run.execs[i])
  BY DEF Retry
<1>2. /\ worker' = AtModel(FALSE) /\ sdk' = Unset
      /\ bounds' = [bounds EXCEPT !.retries = @ + 1]
      /\ UNCHANGED <<tasks, seen, said, sent>>
  BY DEF Retry
<1>3. /\ run'.no = run.no + 1 /\ run'.draft = Unset /\ run'.pcall = 0 /\ run'.rec = NoCall
      /\ run'.execs = <<>> /\ run'.retry = run.execs[i] /\ run'.status = "RUNNING"
      /\ DOMAIN run' = {"no", "status", "draft", "pcall", "pmap", "rec", "execs", "answered", "asking", "retry"}
  BY <1>1 DEF FreshRun
<1>4. /\ worker'.pc = "model" /\ worker'.due = Unset
      /\ DOMAIN worker' = {"pc", "frame", "call", "due", "draft", "replay"}
  BY <1>2 DEF AtModel, Idle
<1>5. bounds'.calls = bounds.calls /\ DOMAIN bounds' = DOMAIN bounds
  BY <1>2 DEF Fields
<1>6. Fields'
  <2>1. Listed(run'.execs)
    BY <1>3, ListedEmpty
  <2>2. run'.no \in Nat
    BY <1>3 DEF Fields
  <2>3. DOMAIN run' = {"no", "status", "draft", "pcall", "pmap", "rec", "execs", "answered", "asking", "retry"}
    BY <1>3
  <2> QED BY <1>2, <1>4, <1>5, <2>1, <2>2, <2>3 DEF Fields
<1>7. Held' = {}
  BY <1>2, <1>3, <1>4 DEF Held
<1>8. Identified'
  BY <1>2, <1>3, <1>5, <1>7, ListedFacts DEF Identified, Fields
<1>9. Resolved' /\ OnFile' /\ Pending'
  BY <1>3, <1>4 DEF Resolved, OnFile, Pending
<1>10. Failed(run.execs[i])
  BY <1>1 DEF Reports
<1>11. Reports'
  <2>1. \A x : Failed(x)' <=> Failed(x)
    BY <1>2 DEF Failed, Stated, Newest
  <2> QED BY <1>3, <1>10, <2>1, ListedEmpty DEF Reports
<1>12. Ledger'
  BY <1>2, <1>3 DEF Ledger, Fields
<1>13. BoundAsShown' /\ UnitsAreTrusted' /\ CallsAreKept'
  BY <1>2 DEF BoundAsShown, UnitsAreTrusted, CallsAreKept, Sent
<1> QED BY <1>6, <1>8, <1>9, <1>11, <1>12, <1>13

-----------------------------------------------------------------------------
(* The theorems *)

LEMMA DraftsInitInv == DraftsInit => DraftsInv
<1> SUFFICES ASSUME DraftsInit PROVE DraftsInv
  OBVIOUS
<1>1. /\ run = FreshRun(1, Unset) /\ worker = AtModel(FALSE) /\ sdk = Unset
      /\ tasks = <<>> /\ seen = <<>> /\ said = {} /\ sent = <<>>
      /\ bounds = [calls |-> 0, messages |-> 1, crashes |-> 0, changes |-> 0, retries |-> 0]
  BY DEF DraftsInit
<1>2. /\ run.no = 1 /\ run.draft = Unset /\ run.pcall = 0 /\ run.rec = NoCall
      /\ run.execs = <<>> /\ run.retry = Unset /\ run.status = "RUNNING"
      /\ DOMAIN run = {"no", "status", "draft", "pcall", "pmap", "rec", "execs", "answered", "asking", "retry"}
  BY <1>1 DEF FreshRun
<1>3. /\ worker.pc = "model" /\ worker.due = Unset
      /\ DOMAIN worker = {"pc", "frame", "call", "due", "draft", "replay"}
  BY <1>1 DEF AtModel, Idle
<1>4. bounds.calls = 0 /\ DOMAIN bounds = {"calls", "messages", "crashes", "changes", "retries"}
  BY <1>1
<1>5. Fields
  <2>1. Listed(run.execs) /\ Listed(sent) /\ Listed(seen) /\ Listed(tasks) /\ DOMAIN tasks = {}
    BY <1>1, <1>2, ListedEmpty
  <2> QED BY <1>2, <1>3, <1>4, <2>1 DEF Fields
<1>6. Held = {}
  BY <1>1, <1>2, <1>3 DEF Held
<1>7. Identified
  BY <1>1, <1>2, <1>4, <1>6 DEF Identified
<1>8. Resolved /\ OnFile /\ Pending
  BY <1>2, <1>3 DEF Resolved, OnFile, Pending
<1>9. Reports /\ Ledger
  BY <1>1, <1>2, ListedEmpty DEF Reports, Ledger
<1>10. Range(sent) = {}
  BY <1>1, ListedEmpty DEF Range
<1>11. BoundAsShown /\ UnitsAreTrusted /\ CallsAreKept
  BY <1>1, <1>10, ListedEmpty DEF BoundAsShown, UnitsAreTrusted, CallsAreKept, Sent
<1> QED BY <1>5, <1>7, <1>8, <1>9, <1>11 DEF DraftsInv

LEMMA DraftsStep == DraftsInv /\ [DraftsNext]_draftsVars => DraftsInv'
<1> SUFFICES ASSUME DraftsInv, [DraftsNext]_draftsVars PROVE DraftsInv'
  OBVIOUS
<1>1. CASE BuildContext
  BY <1>1, BuildContextStep
<1>2. CASE OnModel
  BY <1>2, OnModelStep
<1>3. CASE Finish
  BY <1>3, EndStep DEF Finish
<1>4. CASE Checkpoint
  BY <1>4, CheckpointStep
<1>5. CASE Resolve
  BY <1>5, ResolveStep
<1>6. CASE NeedInput
  BY <1>6, NeedInputStep
<1>7. CASE Record
  BY <1>7, RecordStep
<1>8. CASE Dispatch
  BY <1>8, DispatchStep
<1>9. CASE Complete
  BY <1>9, CompleteStep
<1>10. CASE Mismatch
  BY <1>10, EndStep DEF Mismatch, AtTool
<1>11. CASE AskUser
  BY <1>11, AskUserStep
<1>12. CASE Reply
  BY <1>12, ReplyStep
<1>13. CASE Replied
  BY <1>13, RepliedStep
<1>14. CASE Reread
  BY <1>14, RereadStep
<1>15. CASE Upload \/ Lose
  BY <1>15, AroundStep
<1>16. CASE Crash
  BY <1>16, CrashStep
<1>17. CASE Resume
  BY <1>17, ResumeRunStep
<1>18. CASE Retry
  BY <1>18, RetryStep
<1>19. CASE UNCHANGED draftsVars
  <2>1. /\ UNCHANGED <<run, worker, sdk, tasks, seen, said, sent, bounds>>
    BY <1>19 DEF draftsVars
  <2>2. Fields' /\ Held' = Held
    BY <2>1 DEF Fields, Held, DraftsInv
  <2> QED BY <2>1, <2>2, Calm DEF LeftAlone, DraftsInv, Resolved
<1> QED BY <1>1, <1>2, <1>3, <1>4, <1>5, <1>6, <1>7, <1>8, <1>9, <1>10, <1>11, <1>12, <1>13,
           <1>14, <1>15, <1>16, <1>17, <1>18, <1>19 DEF DraftsNext

\* What is settled for a call, pending, reported and sent stays what was shown,
\* stated and resolved for it.
THEOREM SettledStaysSettled == DraftsSpec => []DraftsInv
BY DraftsInitInv, DraftsStep, PTL DEF DraftsSpec

\* A call is sent with the resource the model was shown under the reference it
\* chose, whatever is uploaded, lost, registered or restarted in between.
THEOREM SentAsShown == DraftsSpec => []BoundAsShown
<1>1. DraftsInv => BoundAsShown
  BY DEF DraftsInv
<1> QED BY <1>1, SettledStaysSettled, PTL

\* A unit is sent as a fact only when it is declared for the dataset of the call
\* or when its user asserted it for that dataset.
THEOREM OnlyStatedUnits == DraftsSpec => []UnitsAreTrusted
<1>1. DraftsInv => UnitsAreTrusted
  BY DEF DraftsInv
<1> QED BY <1>1, SettledStaysSettled, PTL

\* No run sends again what succeeded, a retry sends what failed, and a managed
\* call computes the revision kept for its task.
THEOREM SentOnceUnchanged == DraftsSpec => []CallsAreKept
<1>1. DraftsInv => CallsAreKept
  BY DEF DraftsInv
<1> QED BY <1>1, SettledStaysSettled, PTL
=============================================================================
