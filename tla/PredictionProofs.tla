-------------------------- MODULE PredictionProofs --------------------------
(***************************************************************************)
(* Theorems about module Prediction, for every set of keys and calls and   *)
(* every number of requests, faults and process exits: one child at a time *)
(* and none behind a row that says it was stopped, results and datasets    *)
(* that are whole, and cancellations that are kept and have their cause.   *)
(*                                                                         *)
(* The argument: the capacity and the rule that all other predictions were *)
(* stopped belong to the call that computes; whoever cancels writes it     *)
(* into the row before anything else, so a child found stopped under a     *)
(* cancellation is never released; and what a reconciliation has read      *)
(* stays true until the artifact is given up.                              *)
(***************************************************************************)
EXTENDS Prediction, TLAPS

-----------------------------------------------------------------------------
(* The inductive invariant *)

\* Where a call computes its prediction, and has not yet announced a result.
Early == {"register", "prepare", "start", "release", "wait", "stop", "stopGood", "intent"}
Computing == Early \cup {"put", "publish", "finish"}
\* Where its child may be released.
Running == {"wait", "stop", "stopGood"}
\* An artifact that is not offered any more, and its way out.
Gone == {"FAILED", "DELETING", "DELETED"}
Going == {"DELETING", "DELETED"}

\* A call: while it computes, the capacity and the prediction are its own and all
\* other predictions were stopped; a child is released only behind its gate.
CallOk(c) ==
  /\ call[c].pc # "idle" => Key(c) \in Keys
  /\ call[c].owner => call[c].made
  /\ call[c].pc \in Computing =>
       /\ cap = c /\ call[c].made /\ Exists(Key(c))
       /\ \A q \in Keys \ {Key(c)} : Exists(q) => pred[q].stopped
       /\ proc[Key(c)] = "released" => call[c].pc \in Running
  /\ call[c].pc \in Early =>
       /\ pred[Key(c)].stopped => pred[Key(c)].cancel
       /\ art[Key(c)] = "none"
  /\ call[c].pc \in Early \cup {"put"} => obj[Key(c)] = "none"
  /\ call[c].pc = "publish" => obj[Key(c)] = "there" \/ art[Key(c)] \in Gone
  /\ call[c].pc \in {"clean", "cleanFinish"} => call[c].event /\ call[c].made
  /\ call[c].pc = "cleanFinish" =>
       Exists(Key(c)) /\ Row(c).cancel /\ proc[Key(c)] # "released"
CallsOk == \A c \in Calls : CallOk(c)

\* A prediction: nothing is known of it before it exists; once it is stopped
\* nothing computes for it; its end agrees with its artifact and its object.
RowOk(p) ==
  /\ ~Exists(p) =>
       pred[p] = NoPrediction /\ proc[p] = "none" /\ art[p] = "none" /\ obj[p] = "none"
  /\ pred[p].stopped => proc[p] # "released"
  /\ pred[p].st = "SUCCEEDED" => art[p] = "AVAILABLE" /\ obj[p] = "there"
  /\ pred[p].st \in {"FAILED", "CANCELLED"} => art[p] \notin {"PENDING", "AVAILABLE"}
RowsOk == \A p \in Keys : RowOk(p)

\* The user's cancellation was accepted before anything is stopped for it.
UserOk ==
  /\ user.pc # "idle" => user.key \in Keys /\ Exists(user.key) /\ pred[user.key].cancel
  /\ user.pc = "finish" => proc[user.key] # "released"

\* A reconciliation: what it found still holds, or the artifact is given up.
JobOk(w) ==
  /\ job[w].at \in {"delete", "drop"} => art[job[w].of] \in Going
  /\ job[w].at \in {"adopt", "refuse"} => obj[job[w].of] = "there" \/ art[job[w].of] \in Gone
JobsOk == \A w \in Workers : JobOk(w)

\* The dataset and its artifact move together.
DataOk ==
  /\ data = "none" <=> art[Data] = "none"
  /\ data = "PENDING" <=> art[Data] = "PENDING"
  /\ data = "AVAILABLE" <=> art[Data] = "AVAILABLE"
  /\ data = "AVAILABLE" => obj[Data] = "there"

\* Until the service is up again, nothing is in progress.
BootOk ==
  sys.boot =>
    /\ \A c \in Calls : call[c].pc = "idle"
    /\ user.pc = "idle"
    /\ \A w \in Workers : job[w].at = "idle"

PredictInv ==
  /\ TypeOK
  /\ CallsOk /\ RowsOk /\ OneComputation /\ DataHeld
  /\ UserOk /\ JobsOk /\ DataOk /\ BootOk

-----------------------------------------------------------------------------
(* What a step may do to what others rely on *)

CapFree == {"idle", "insert", "poll", "clean", "cleanFinish"}
ProcStates == {"none", "gated", "released"}
ObjStates == {"none", "late", "there"}

\* Who may cancel p in this step.
Cause(p) ==
  \/ user'.pc = "asked" /\ user'.key = p
  \/ \E c \in Calls : call[c].key = p /\ call[c].made /\ call[c].event

\* What every step leaves of a prediction.
On(p) ==
  /\ Exists(p) => Exists(p)'
  /\ pred[p].cancel => pred'[p].cancel
  /\ pred[p].stopped => pred'[p].stopped
  /\ proc'[p] = "released" => proc[p] = "released" \/ ~pred[p].cancel
  /\ pred[p].cancel /\ pred'[p].st = "SUCCEEDED" => pred[p].st = "SUCCEEDED"
  /\ pred'[p].cancel /\ ~pred[p].cancel => Cause(p)

\* What every step leaves of an artifact and its object.
Kept(o) ==
  /\ art[o] \in Gone => art'[o] \in Gone
  /\ art[o] \in Going => art'[o] \in Going
  /\ obj[o] = "there" => obj'[o] = "there" \/ art'[o] \in Gone

\* What every step, but for those of its own call, leaves of a prediction.
Calm(p) ==
  /\ Exists(p)' => Exists(p)
  /\ pred'[p].stopped => pred[p].stopped \/ pred'[p].cancel
  /\ art[p] = "none" => art'[p] = "none"
  /\ obj[p] = "none" => obj'[p] = "none"
  /\ proc'[p] = "released" => proc[p] = "released"

Good(p) == RowOk(p)' /\ On(p) /\ Kept(p)

\* The parts of a step: the tables, the calls, and everything else.
RowTypes ==
  /\ pred' \in [Keys -> Predictions]
  /\ proc' \in [Keys -> ProcStates]
  /\ art' \in [Owners -> Status]
  /\ obj' \in [Owners -> ObjStates]
  /\ data' \in Status
RowPart ==
  /\ RowTypes
  /\ RowsOk' /\ OneComputation' /\ DataHeld' /\ DataOk'
  /\ \A p \in Keys : On(p)
  /\ \A o \in Owners : Kept(o)
CallTypes ==
  /\ call' \in [Calls -> CallStates]
  /\ cap' \in {c \in Calls : call'[c].pc \notin CapFree} \cup {None}
CallPart == CallTypes /\ CallsOk'
SidePart ==
  /\ reg' \in [Keys -> Calls \cup {None}]
  /\ user' \in [pc: {"idle", "asked", "finish"}, key: Keys \cup {None}]
  /\ job' \in [Workers -> Jobs]
  /\ sys' \in [boot: BOOLEAN, requests: 0..MaxRequests, faults: 0..MaxFaults,
               crashes: 0..MaxCrashes]
  /\ UserOk' /\ JobsOk' /\ BootOk'

StepOk == PredictInv' /\ \A p \in Keys : On(p)

\* Only the prediction p is changed, with its artifact and its object.
OnlyRow(p) ==
  /\ RowTypes
  /\ data' = data
  /\ \A q \in Keys \ {p} : pred'[q] = pred[q] /\ proc'[q] = proc[q]
  /\ \A o \in Owners \ {p} : art'[o] = art[o] /\ obj'[o] = obj[o]
\* Only the call c is changed.
OnlyCall(c) ==
  /\ call' \in [Calls -> CallStates]
  /\ \A d \in Calls \ {c} : call'[d] = call[d]
Still == UNCHANGED <<pred, proc, art, obj, data>>

\* The parts make a step.
LEMMA Parts ==
  ASSUME RowPart, CallPart, SidePart
  PROVE  StepOk
<1>1. TypeOK'
  BY DEF TypeOK, RowPart, RowTypes, CallPart, CallTypes, SidePart, CapFree, ProcStates, ObjStates
<1> QED BY <1>1 DEF StepOk, PredictInv, RowPart, CallPart, SidePart

\* The types of a state, part by part.
LEMMA Types ==
  ASSUME TypeOK
  PROVE  /\ pred \in [Keys -> Predictions] /\ proc \in [Keys -> ProcStates]
         /\ art \in [Owners -> Status] /\ obj \in [Owners -> ObjStates] /\ data \in Status
         /\ call \in [Calls -> CallStates]
         /\ cap \in {c \in Calls : call[c].pc \notin CapFree} \cup {None}
         /\ reg \in [Keys -> Calls \cup {None}]
         /\ user \in [pc: {"idle", "asked", "finish"}, key: Keys \cup {None}]
         /\ job \in [Workers -> Jobs]
         /\ sys \in [boot: BOOLEAN, requests: 0..MaxRequests, faults: 0..MaxFaults,
                     crashes: 0..MaxCrashes]
BY DEF TypeOK, CapFree, ProcStates, ObjStates

\* A prediction that did not change.
LEMMA SameRow ==
  ASSUME NEW p \in Keys, RowOk(p), pred'[p] = pred[p], proc'[p] = proc[p],
         art'[p] = art[p], obj'[p] = obj[p]
  PROVE  Good(p) /\ Calm(p)
BY DEF Good, Calm, RowOk, On, Kept, Exists

\* The tables when one prediction changes.
LEMMA OneRow ==
  ASSUME PredictInv, NEW p \in Keys, OnlyRow(p), Good(p),
         Exists(p)' => Exists(p) \/ data = "AVAILABLE",
         proc'[p] = "released" =>
           proc[p] = "released" \/ \A q \in Keys \ {p} : proc[q] # "released"
  PROVE  RowPart /\ \A q \in Keys \ {p} : Calm(q)
<1>0. RowsOk /\ OneComputation /\ DataHeld /\ DataOk
  BY DEF PredictInv
<1>1. \A q \in Keys \ {p} : Good(q) /\ Calm(q)
  BY <1>0, SameRow DEF OnlyRow, RowsOk, Owners
<1>2. \A q \in Keys : Good(q)
  BY <1>1
<1>3. Data \in Owners /\ Data # p
  BY PredictionAssumption DEF Owners
<1>4. art'[Data] = art[Data] /\ obj'[Data] = obj[Data] /\ data' = data
  BY <1>3 DEF OnlyRow
<1>5. DataOk'
  BY <1>0, <1>4 DEF DataOk
<1>6. DataHeld'
  BY <1>0, <1>1, <1>4 DEF DataHeld, Calm
<1>7. OneComputation'
  BY <1>0 DEF OneComputation, OnlyRow
<1>8. \A o \in Owners : Kept(o)
  BY <1>2, <1>4 DEF Owners, Good, Kept
<1>9. RowsOk' /\ \A q \in Keys : On(q)
  BY <1>2 DEF RowsOk, Good
<1> QED BY <1>1, <1>5, <1>6, <1>7, <1>8, <1>9 DEF RowPart, OnlyRow

\* The tables when nothing changes in them.
LEMMA StillRows ==
  ASSUME PredictInv, Still
  PROVE  RowPart /\ \A p \in Keys : Calm(p)
<1>0. TypeOK /\ RowsOk /\ OneComputation /\ DataHeld /\ DataOk
  BY DEF PredictInv
<1>1. \A p \in Keys : Good(p) /\ Calm(p)
  BY <1>0, SameRow DEF RowsOk, Still
<1>2. RowTypes
  BY <1>0, Types DEF RowTypes, Still
<1>3. OneComputation' /\ DataHeld' /\ DataOk'
  BY <1>0 DEF OneComputation, DataHeld, DataOk, Still, Exists
<1>4. \A o \in Owners : Kept(o)
  BY DEF Kept, Still
<1> QED BY <1>1, <1>2, <1>3, <1>4 DEF RowPart, RowsOk, Good

\* A call that others do not touch.
LEMMA CallStays ==
  ASSUME PredictInv, NEW d \in Calls,
         call'[d].pc = call[d].pc, call'[d].key = call[d].key,
         call'[d].owner = call[d].owner, call'[d].made = call[d].made,
         call[d].event => call'[d].event,
         \A p \in Keys : On(p),
         call[d].pc \in Computing =>
           /\ cap' = cap
           /\ \A p \in Keys : Calm(p)
           /\ \A o \in Owners : Kept(o)
  PROVE  CallOk(d)'
<1>0. CallOk(d)
  BY DEF PredictInv, CallsOk
<1>1. call[d].pc # "idle" => call[d].key \in Keys /\ call[d].key \in Owners
  BY <1>0 DEF CallOk, Key, Owners
<1>2. CASE call[d].pc \in Computing
  <2>1. call[d].pc # "idle" /\ call[d].pc \notin {"clean", "cleanFinish"}
    BY <1>2 DEF Computing, Early
  <2>0. PICK p \in Keys : p = call[d].key
    BY <1>1, <2>1
  <2>2. On(p) /\ Calm(p) /\ Kept(p) /\ \A q \in Keys : On(q) /\ Calm(q)
    BY <1>1, <1>2, <2>0, <2>1
  <2>3. /\ cap' = d /\ call'[d].made /\ Exists(p)'
        /\ \A q \in Keys \ {p} : Exists(q)' => pred'[q].stopped
        /\ proc'[p] = "released" => call[d].pc \in Running
    BY <1>0, <1>2, <2>0, <2>2 DEF CallOk, Key, On, Calm
  <2>4. call[d].pc \in Early => (pred'[p].stopped => pred'[p].cancel) /\ art'[p] = "none"
    BY <1>0, <2>0, <2>2 DEF CallOk, Key, On, Calm
  <2>5. /\ call[d].pc \in Early \cup {"put"} => obj'[p] = "none"
        /\ call[d].pc = "publish" => obj'[p] = "there" \/ art'[p] \in Gone
    BY <1>0, <2>0, <2>2 DEF CallOk, Key, Kept, Calm
  <2>6. call[d].key = p /\ call'[d].key = p
    BY <2>0
  <2> QED BY <1>0, <2>1, <2>2, <2>3, <2>4, <2>5, <2>6 DEF CallOk, Key
<1>3. CASE call[d].pc \notin Computing
  <2>1. call[d].pc \notin Early /\ call[d].pc \notin {"put", "publish"}
    BY <1>3 DEF Computing
  <2>2. call[d].pc = "cleanFinish" =>
          /\ Exists(call[d].key)' /\ pred'[call[d].key].cancel
          /\ proc'[call[d].key] # "released"
    BY <1>0, <1>1 DEF CallOk, Key, Row, On
  <2> QED BY <1>0, <1>3, <2>1, <2>2 DEF CallOk, Key, Row
<1> QED BY <1>2, <1>3

\* The calls when the one that holds the capacity, or is about to take it, moves.
LEMMA MoverCalls ==
  ASSUME PredictInv, NEW c \in Calls, OnlyCall(c),
         call[c].pc \in Computing \/ cap = None,
         \/ cap' \in {cap, c} /\ call'[c].pc \notin CapFree
         \/ cap' = None,
         CallOk(c)', \A p \in Keys : On(p)
  PROVE  CallPart
<1>0. TypeOK /\ CallsOk
  BY DEF PredictInv
<1>1. c # None /\ None \notin Calls
  BY PredictionAssumption
<1>2. call[c].pc \in Computing => cap = c
  BY <1>0 DEF CallsOk, CallOk
<1>3. \A d \in Calls \ {c} : call[d].pc \notin Computing
  BY <1>0, <1>1, <1>2 DEF CallsOk, CallOk
<1>4. \A d \in Calls \ {c} : CallOk(d)'
  BY <1>3, CallStays DEF OnlyCall
<1>5. CallsOk'
  BY <1>4 DEF CallsOk
<1>6. CallTypes
  BY <1>0, <1>1, <1>2, Types DEF CallTypes, OnlyCall
<1> QED BY <1>5, <1>6 DEF CallPart

\* The calls when another one moves.
LEMMA OtherCalls ==
  ASSUME PredictInv, NEW c \in Calls, OnlyCall(c),
         \/ cap' = (IF cap = c THEN None ELSE cap)
         \/ cap' = cap /\ (cap = c => call'[c].pc \notin CapFree),
         CallOk(c)', \A p \in Keys : On(p) /\ Calm(p), \A o \in Owners : Kept(o)
  PROVE  CallPart
<1>0. TypeOK /\ CallsOk
  BY DEF PredictInv
<1>2. \A d \in Calls \ {c} : call[d].pc \in Computing => cap = d /\ cap' = cap
  BY <1>0 DEF CallsOk, CallOk
<1>4. \A d \in Calls \ {c} : CallOk(d)'
  BY <1>2, CallStays DEF OnlyCall
<1>5. CallsOk'
  BY <1>4 DEF CallsOk
<1>6. CallTypes
  BY <1>0, Types DEF CallTypes, OnlyCall
<1> QED BY <1>5, <1>6 DEF CallPart

\* The calls when none moves.
LEMMA NoCalls ==
  ASSUME PredictInv, UNCHANGED <<call, cap>>,
         \A p \in Keys : On(p) /\ Calm(p), \A o \in Owners : Kept(o)
  PROVE  CallPart
<1>0. TypeOK
  BY DEF PredictInv
<1>1. CallsOk'
  BY CallStays DEF CallsOk
<1>2. CallTypes
  BY <1>0, Types DEF CallTypes
<1> QED BY <1>1, <1>2 DEF CallPart

\* The bounds of a step.
LEMMA SysStays ==
  ASSUME TypeOK, Fine \/ Fault
  PROVE  /\ sys' \in [boot: BOOLEAN, requests: 0..MaxRequests, faults: 0..MaxFaults,
                      crashes: 0..MaxCrashes]
         /\ sys'.boot = sys.boot
<1>1. sys \in [boot: BOOLEAN, requests: 0..MaxRequests, faults: 0..MaxFaults,
               crashes: 0..MaxCrashes]
  BY DEF TypeOK
<1>2. CASE Fine
  BY <1>1, <1>2 DEF Fine
<1>3. CASE Fault
  <2>1. sys.faults + 1 \in 0..MaxFaults
    BY <1>1, <1>3, PredictionAssumption DEF Fault
  <2> QED BY <1>1, <1>3, <2>1 DEF Fault
<1> QED BY <1>2, <1>3

\* The rest of a step while the service is up.
LEMMA SameSide ==
  ASSUME PredictInv, RowPart, Up, sys'.boot = sys.boot,
         sys' \in [boot: BOOLEAN, requests: 0..MaxRequests, faults: 0..MaxFaults,
                   crashes: 0..MaxCrashes],
         reg' \in [Keys -> Calls \cup {None}], UNCHANGED <<user, job>>
  PROVE  SidePart
<1>0. TypeOK /\ UserOk /\ JobsOk
  BY DEF PredictInv
<1>1. UserOk'
  BY <1>0 DEF UserOk, RowPart, On
<1>2. JobsOk'
  <2>1. \A w \in Workers : job[w].of \in Owners
    BY <1>0 DEF TypeOK, Jobs
  <2> QED BY <1>0, <2>1 DEF JobsOk, JobOk, RowPart, Kept
<1>3. BootOk'
  BY DEF BootOk, Up
<1> QED BY <1>0, <1>1, <1>2, <1>3, Types DEF SidePart

\* The same when the bounds are counted as usual.
LEMMA UsualSide ==
  ASSUME PredictInv, RowPart, Up, Fine \/ Fault,
         reg' \in [Keys -> Calls \cup {None}], UNCHANGED <<user, job>>
  PROVE  SidePart
BY SysStays, SameSide DEF PredictInv

-----------------------------------------------------------------------------
(* Transactions on a prediction *)

\* A prediction, field by field.
LEMMA RowType ==
  ASSUME NEW row \in Predictions
  PROVE  /\ row.st \in {"none", "PENDING", "RUNNING"} \cup Terminal
         /\ row.cancel \in BOOLEAN /\ row.stopped \in BOOLEAN /\ row.publishing \in BOOLEAN
BY DEF Predictions

\* Finishing a row: what ended stays, anything else ends.
LEMMA FinishedFacts ==
  ASSUME NEW row \in Predictions, NEW x \in BOOLEAN, NEW q, q = Finished(row, x)
  PROVE  /\ q \in Predictions
         /\ row.st \in Terminal => q = row
         /\ row.st \notin Terminal =>
              q.st \in {"FAILED", "CANCELLED"} /\ q.stopped /\ (q.cancel <=> row.cancel \/ x)
BY RowType DEF Finished, Predictions, Terminal

\* A transaction that finishes p, while its process is not released.
LEMMA FinishRow ==
  ASSUME TypeOK, NEW p \in Keys, NEW x \in BOOLEAN, RowOk(p), Exists(p),
         proc' = proc \/ proc' = [proc EXCEPT ![p] = "none"], proc'[p] # "released",
         obj' = obj, data' = data, FinishTx(p, x), x => pred[p].cancel \/ Cause(p)
  PROVE  /\ OnlyRow(p) /\ Good(p)
         /\ x \/ pred[p].cancel \/ pred[p].stopped => Calm(p)
<1>0. /\ pred \in [Keys -> Predictions] /\ proc \in [Keys -> ProcStates]
      /\ art \in [Owners -> Status] /\ obj \in [Owners -> ObjStates] /\ data \in Status
      /\ p \in Owners
  BY Types DEF Owners
<1>1. PICK q : q = Finished(pred[p], x)
  OBVIOUS
<1>2. /\ q \in Predictions
      /\ pred[p].st \in Terminal => q = pred[p]
      /\ pred[p].st \notin Terminal =>
           q.st \in {"FAILED", "CANCELLED"} /\ q.stopped /\ (q.cancel <=> pred[p].cancel \/ x)
  BY <1>0, <1>1, FinishedFacts
<1>3. PICK a : a = Discarded(art[p], q)
  OBVIOUS
<1>4. /\ a \in Status
      /\ a = art[p] \/ (a = "DELETING" /\ art[p] \in {"PENDING", "AVAILABLE", "FAILED"})
      /\ q.st # "SUCCEEDED" => a \notin {"PENDING", "AVAILABLE"}
      /\ q.st = "SUCCEEDED" => a = art[p]
  BY <1>0, <1>3 DEF Discarded, Status
<1>5. pred' = [pred EXCEPT ![p] = q] /\ art' = [art EXCEPT ![p] = a]
  BY <1>1, <1>3 DEF FinishTx
<1>6. /\ pred'[p] = q /\ art'[p] = a /\ obj'[p] = obj[p]
      /\ proc'[p] \in {proc[p], "none"}
  BY <1>0, <1>5
<1>7. OnlyRow(p)
  BY <1>0, <1>2, <1>4, <1>5 DEF OnlyRow, RowTypes, ProcStates
<1>8. RowOk(p)'
  BY <1>2, <1>4, <1>6 DEF RowOk, Exists, Terminal
<1>9. On(p)
  BY <1>0, <1>2, <1>6, RowType DEF On, Exists, Terminal
<1>10. Kept(p)
  BY <1>4, <1>6 DEF Kept, Gone, Going
<1>11. x \/ pred[p].cancel \/ pred[p].stopped => Calm(p)
  BY <1>2, <1>4, <1>6 DEF Calm, Exists, Terminal
<1> QED BY <1>7, <1>8, <1>9, <1>10, <1>11 DEF Good

\* A transaction that adopts the result of p, whose object is there unless its
\* artifact was given up.
LEMMA AdoptRow ==
  ASSUME TypeOK, NEW p \in Keys, RowOk(p), Exists(p),
         proc' = proc \/ proc' = [proc EXCEPT ![p] = "none"],
         obj' = obj, data' = data, AdoptTx(p), obj[p] = "there" \/ art[p] \in Gone
  PROVE  OnlyRow(p) /\ Good(p) /\ Calm(p)
<1>0. /\ pred \in [Keys -> Predictions] /\ proc \in [Keys -> ProcStates]
      /\ art \in [Owners -> Status] /\ obj \in [Owners -> ObjStates] /\ data \in Status
      /\ p \in Owners
      /\ pred[p] \in Predictions
  BY Types DEF Owners
<1>1. /\ pred' \in [Keys -> Predictions] /\ art' \in [Owners -> Status]
      /\ \A q \in Keys \ {p} : pred'[q] = pred[q]
      /\ \A o \in Owners \ {p} : art'[o] = art[o]
      /\ \/ pred'[p] = pred[p] /\ art'[p] = art[p]
         \/ /\ art[p] = "PENDING" /\ art'[p] = "AVAILABLE" /\ obj[p] = "there"
            /\ pred[p].st = "RUNNING" /\ ~pred[p].cancel
            /\ pred'[p] = [pred[p] EXCEPT !.st = "SUCCEEDED"]
         \/ /\ art[p] = "PENDING" /\ art'[p] = "DELETING"
            /\ \/ pred'[p] = pred[p]
               \/ ~Ended(p) /\ pred'[p] = [pred[p] EXCEPT !.st = "CANCELLED"]
  BY <1>0, RowType DEF AdoptTx, Publishable, Predictions, Terminal, Status, Gone
<1>2. /\ obj'[p] = obj[p]
      /\ proc'[p] \in {proc[p], "none"}
  BY <1>0
<1>3. OnlyRow(p)
  BY <1>0, <1>1 DEF OnlyRow, RowTypes, ProcStates
<1>4. /\ pred'[p].cancel = pred[p].cancel /\ pred'[p].stopped = pred[p].stopped
      /\ pred'[p].st \in {pred[p].st, "SUCCEEDED", "CANCELLED"}
      /\ pred'[p].st # pred[p].st /\ pred'[p].st = "SUCCEEDED" =>
           art'[p] = "AVAILABLE" /\ obj'[p] = "there" /\ ~pred[p].cancel
      /\ pred'[p].st # pred[p].st /\ pred'[p].st = "CANCELLED" => art'[p] = "DELETING"
      /\ pred'[p].st = pred[p].st => art'[p] \in {art[p], "DELETING"}
      /\ art'[p] # art[p] => art[p] = "PENDING"
      /\ pred'[p].st = pred[p].st => pred'[p] = pred[p]
  BY <1>0, <1>1, <1>2 DEF Predictions, Ended, Terminal
<1>5. RowOk(p)'
  BY <1>2, <1>4 DEF RowOk, Exists
<1>6. On(p)
  BY <1>2, <1>4 DEF On, Exists
<1>7. Kept(p) /\ Calm(p)
  BY <1>2, <1>4 DEF Kept, Calm, Exists, Gone, Going
<1> QED BY <1>3, <1>5, <1>6, <1>7 DEF Good

\* A request to cancel p, by whoever may; its process may be stopped with it.
LEMMA RequestRow ==
  ASSUME TypeOK, NEW p \in Keys, RowOk(p), RequestTx(p), Exists(p) /\ ~Ended(p) => Cause(p),
         proc' = proc \/ proc' = [proc EXCEPT ![p] = "none"],
         UNCHANGED <<art, obj, data>>
  PROVE  /\ OnlyRow(p) /\ Good(p) /\ Calm(p)
         /\ Exists(p) /\ ~Ended(p) => pred'[p].cancel
<1>0. /\ pred \in [Keys -> Predictions] /\ proc \in [Keys -> ProcStates]
      /\ art \in [Owners -> Status] /\ obj \in [Owners -> ObjStates] /\ data \in Status
      /\ pred[p] \in Predictions
  BY Types
<1>1. /\ pred' \in [Keys -> Predictions]
      /\ \A q \in Keys \ {p} : pred'[q] = pred[q]
      /\ pred'[p].st = pred[p].st /\ pred'[p].stopped = pred[p].stopped
      /\ pred[p].cancel => pred'[p].cancel
      /\ pred'[p].cancel => pred[p].cancel \/ (Exists(p) /\ ~Ended(p))
      /\ Exists(p) /\ ~Ended(p) => pred'[p].cancel
      /\ ~Exists(p) => pred'[p] = pred[p]
  BY <1>0 DEF RequestTx, Predictions
<1>2. proc'[p] \in {proc[p], "none"}
  BY <1>0
<1>3. OnlyRow(p)
  BY <1>0, <1>1 DEF OnlyRow, RowTypes, ProcStates
<1>4. RowOk(p)'
  BY <1>1, <1>2 DEF RowOk, Exists
<1>5. On(p) /\ Calm(p) /\ Kept(p)
  BY <1>1, <1>2 DEF On, Calm, Kept, Exists
<1> QED BY <1>1, <1>3, <1>4, <1>5 DEF Good

-----------------------------------------------------------------------------
(* How a call moves *)

\* The fields of a call.
LEMMA CallType ==
  ASSUME TypeOK, NEW c \in Calls
  PROVE  /\ call[c] \in CallStates
         /\ call[c].pc \in CallPc /\ call[c].key \in Keys \cup {None}
         /\ call[c].owner \in BOOLEAN /\ call[c].made \in BOOLEAN /\ call[c].event \in BOOLEAN
BY DEF TypeOK, CallStates

\* To another place.
LEMMA GoFacts ==
  ASSUME TypeOK, NEW c \in Calls, NEW pc \in CallPc, Go(c, pc)
  PROVE  /\ OnlyCall(c)
         /\ call'[c].pc = pc /\ call'[c].key = call[c].key /\ call'[c].owner = call[c].owner
         /\ call'[c].made = call[c].made /\ call'[c].event = call[c].event
<1>1. call \in [Calls -> CallStates]
  BY DEF TypeOK
<1>2. call' = [call EXCEPT ![c].pc = pc]
  BY DEF Go
<1> QED BY <1>1, <1>2 DEF OnlyCall, CallStates

\* A call that is over.
LEMMA NoCallFacts ==
  /\ NoCall \in CallStates /\ NoCall.pc = "idle" /\ ~NoCall.owner
BY DEF NoCall, CallStates, CallPc

\* Back to nothing.
LEMMA IdleFacts ==
  ASSUME TypeOK, NEW c \in Calls, Idle(c)
  PROVE  OnlyCall(c) /\ call'[c].pc = "idle" /\ ~call'[c].owner /\ CallOk(c)'
<1>1. call \in [Calls -> CallStates]
  BY DEF TypeOK
<1>2. OnlyCall(c) /\ call'[c] = NoCall
  BY <1>1, NoCallFacts DEF OnlyCall, Idle
<1> QED BY <1>2, NoCallFacts DEF CallOk, Computing, Early

\* An error: the call goes to its cleanup or is over.
LEMMA FailedFacts ==
  ASSUME TypeOK, NEW c \in Calls, CallOk(c), call[c].pc # "idle", call' = Failed(call, c)
  PROVE  OnlyCall(c) /\ CallOk(c)'
<1>1. call \in [Calls -> CallStates]
  BY DEF TypeOK
<1>3. CASE ~call[c].owner
  <2>1. OnlyCall(c) /\ call'[c] = NoCall
    BY <1>1, <1>3, NoCallFacts DEF OnlyCall, Failed
  <2> QED BY <2>1, NoCallFacts DEF CallOk, Computing, Early
<1>4. CASE call[c].owner
  <2>1. /\ OnlyCall(c)
        /\ call'[c].pc = "clean" /\ call'[c].key = call[c].key /\ call'[c].owner = call[c].owner
        /\ call'[c].made = call[c].made /\ call'[c].event
    BY <1>1, <1>4 DEF OnlyCall, Failed, CallStates, CallPc
  <2> QED BY <1>4, <2>1 DEF CallOk, Key, Computing, Early
<1> QED BY <1>3, <1>4

\* What it held is given back.
LEMMA ErrorFacts ==
  ASSUME TypeOK, NEW c \in Calls, CallOk(c), call[c].pc # "idle", Error(c)
  PROVE  /\ OnlyCall(c) /\ CallOk(c)'
         /\ cap' = (IF cap = c THEN None ELSE cap)
         /\ reg' \in [Keys -> Calls \cup {None}]
<1>1. reg \in [Keys -> Calls \cup {None}]
  BY DEF TypeOK
<1> QED BY <1>1, FailedFacts DEF Error, GiveBack

\* A computing call goes on while the tables rest: forward, and out of the places
\* where its child may be released only when it is not.
LEMMA GoOk ==
  ASSUME TypeOK, NEW c \in Calls, CallOk(c), call[c].pc \in Computing, Still, cap' = cap,
         NEW pc \in Computing \cup {"return"}, Go(c, pc),
         pc \in Early => call[c].pc \in Early, pc \notin {"put", "publish"},
         proc[Key(c)] = "released" => pc \in Running \cup {"return"}
  PROVE  OnlyCall(c) /\ CallOk(c)'
<1>1. pc \in CallPc
  BY DEF Computing, Early, CallPc
<1>2. /\ OnlyCall(c)
      /\ call'[c].pc = pc /\ call'[c].key = call[c].key /\ call'[c].owner = call[c].owner
      /\ call'[c].made = call[c].made /\ call'[c].event = call[c].event
  BY <1>1, GoFacts
<1>3. call[c].pc # "idle" /\ pc \notin {"clean", "cleanFinish"}
  BY DEF Computing, Early
<1>4. PICK p \in Keys : p = call[c].key
  BY <1>3 DEF CallOk, Key
<1>5. /\ cap' = c /\ call[c].made /\ Exists(p)'
      /\ \A q \in Keys \ {p} : Exists(q)' => pred'[q].stopped
      /\ proc'[p] = "released" => pc \in Running \cup {"return"}
  BY <1>4 DEF CallOk, Key, Still, Exists
<1>6. pc \in Early =>
        (pred'[p].stopped => pred'[p].cancel) /\ art'[p] = "none" /\ obj'[p] = "none"
  BY <1>4 DEF CallOk, Key, Still
<1>7. call[c].owner => call[c].made
  BY DEF CallOk
<1>8. pc = "return" => pc \notin Computing
  BY DEF Computing, Early
<1> QED BY <1>2, <1>3, <1>4, <1>5, <1>6, <1>7, <1>8 DEF CallOk, Key

\* Such a step as a whole.
LEMMA GoStep ==
  ASSUME PredictInv, Up, NEW c \in Calls, call[c].pc \in Computing, Still,
         UNCHANGED <<cap, reg, user, job>>, Fine \/ Fault,
         NEW pc \in Computing, Go(c, pc),
         pc \in Early => call[c].pc \in Early, pc \notin {"put", "publish"},
         proc[Key(c)] = "released" => pc \in Running
  PROVE  StepOk
<1>0. TypeOK /\ CallOk(c)
  BY DEF PredictInv, CallsOk
<1>1. OnlyCall(c) /\ CallOk(c)'
  BY <1>0, GoOk
<1>2. RowPart
  BY StillRows
<1>3. call'[c].pc = pc /\ pc \notin CapFree
  <2>1. pc \in CallPc /\ pc \notin CapFree
    BY DEF Computing, Early, CallPc, CapFree
  <2> QED BY <1>0, <2>1, GoFacts
<1>4. CallPart
  BY <1>1, <1>2, <1>3, MoverCalls DEF RowPart
<1>5. SidePart
  BY <1>0, <1>2, Types, UsualSide
<1> QED BY <1>2, <1>4, <1>5, Parts

\* A call begins.
LEMMA BeginStep ==
  ASSUME PredictInv, NEW c \in Calls, NEW p \in Keys, Begin(c, p)
  PROVE  StepOk
<1>0. TypeOK /\ CallOk(c) /\ Up /\ call[c].pc = "idle"
  BY DEF PredictInv, CallsOk, Begin, At
<1>1. UNCHANGED <<pred, cap, reg, proc, art, obj, data, user, job>>
  BY DEF Begin
<1>2. RowPart /\ \A q \in Keys : Calm(q)
  BY <1>1, StillRows DEF Still
<1>3. /\ OnlyCall(c)
      /\ call'[c].pc \in {"insert", "return"} /\ call'[c].key = p
      /\ call'[c].owner = call[c].owner /\ call'[c].made = call[c].made
  <2>1. call \in [Calls -> CallStates]
    BY <1>0, Types
  <2>2. call' = [call EXCEPT ![c].key = p, ![c].pc = "return"]
        \/ call' = [call EXCEPT ![c].key = p, ![c].pc = "insert"]
    BY DEF Begin, Replay
  <2> QED BY <2>1, <2>2 DEF OnlyCall, CallStates, CallPc
<1>4. CallOk(c)'
  BY <1>0, <1>3 DEF CallOk, Key, Computing, Early
<1>5. cap # c
  BY <1>0, Types, PredictionAssumption DEF CapFree
<1>6. CallPart
  BY <1>1, <1>2, <1>3, <1>4, <1>5, OtherCalls DEF RowPart
<1>7. /\ sys'.boot = sys.boot
      /\ sys' \in [boot: BOOLEAN, requests: 0..MaxRequests, faults: 0..MaxFaults,
                   crashes: 0..MaxCrashes]
  <2>1. sys \in [boot: BOOLEAN, requests: 0..MaxRequests, faults: 0..MaxFaults,
                 crashes: 0..MaxCrashes]
    BY <1>0, Types
  <2>2. sys.requests + 1 \in 0..MaxRequests
    BY <2>1, PredictionAssumption DEF Begin
  <2> QED BY <2>1, <2>2 DEF Begin
<1>8. SidePart
  BY <1>0, <1>1, <1>2, <1>7, Types, SameSide
<1> QED BY <1>2, <1>6, <1>8, Parts

\* A prediction that is created: nothing was known of it.
LEMMA NewRow ==
  ASSUME TypeOK, NEW p \in Keys, RowOk(p), ~Exists(p),
         pred' = [pred EXCEPT ![p].st = "PENDING"], UNCHANGED <<proc, art, obj, data>>
  PROVE  /\ OnlyRow(p) /\ Good(p)
         /\ Exists(p)' /\ ~pred'[p].stopped
         /\ proc'[p] = "none" /\ art'[p] = "none" /\ obj'[p] = "none"
<1>0. /\ pred \in [Keys -> Predictions] /\ proc \in [Keys -> ProcStates]
      /\ art \in [Owners -> Status] /\ obj \in [Owners -> ObjStates] /\ data \in Status
  BY Types
<1>1. pred[p] = NoPrediction /\ proc[p] = "none" /\ art[p] = "none" /\ obj[p] = "none"
  BY DEF RowOk
<1>2. /\ pred' \in [Keys -> Predictions]
      /\ \A q \in Keys \ {p} : pred'[q] = pred[q]
      /\ pred'[p].st = "PENDING" /\ ~pred'[p].stopped /\ ~pred'[p].cancel
  <2>1. pred'[p] = [NoPrediction EXCEPT !.st = "PENDING"]
    BY <1>0, <1>1
  <2>2. pred'[p] \in Predictions /\ pred'[p].st = "PENDING" /\ ~pred'[p].stopped
        /\ ~pred'[p].cancel
    BY <2>1 DEF Predictions, NoPrediction
  <2> QED BY <1>0, <2>2
<1>3. OnlyRow(p)
  BY <1>0, <1>2 DEF OnlyRow, RowTypes
<1>4. RowOk(p)' /\ On(p) /\ Kept(p)
  BY <1>1, <1>2 DEF RowOk, On, Kept, Exists, NoPrediction, Gone, Going
<1> QED BY <1>1, <1>2, <1>3, <1>4 DEF Good, Exists

\* A call creates its prediction and takes the capacity; or finds it created, or
\* the capacity taken, or an error.
LEMMA InsertStep ==
  ASSUME PredictInv, NEW c \in Calls, Insert(c)
  PROVE  StepOk
<1>0. TypeOK /\ CallOk(c) /\ Up /\ call[c].pc = "insert"
  BY DEF PredictInv, CallsOk, Insert, At
<1>1. /\ UNCHANGED <<reg, proc, art, obj, data, user, job>>
      /\ call \in [Calls -> CallStates] /\ reg \in [Keys -> Calls \cup {None}]
      /\ cap # c
  BY <1>0, Types, PredictionAssumption DEF Insert, CapFree
<1>2. PICK p \in Keys : p = Key(c)
  BY <1>0 DEF CallOk
<1>3. RowOk(p) /\ RowsOk
  BY DEF PredictInv, RowsOk
<1>4. Fine \/ Fault
  BY DEF Insert, Fine
<1>5. ASSUME RowPart PROVE SidePart
  BY <1>0, <1>1, <1>4, <1>5, UsualSide
<1>6. CASE call' = Replay(call, c) /\ UNCHANGED <<pred, cap>>
  <2>1. RowPart /\ \A q \in Keys : Calm(q)
    BY <1>1, <1>6, StillRows DEF Still
  <2>2. /\ OnlyCall(c)
        /\ call'[c].pc = "return" /\ call'[c].key = call[c].key
        /\ call'[c].owner = call[c].owner /\ call'[c].made = call[c].made
    BY <1>1, <1>6 DEF OnlyCall, CallStates, CallPc, Replay
  <2>3. CallOk(c)'
    BY <1>0, <2>2 DEF CallOk, Key, Computing, Early
  <2>4. CallPart
    BY <1>1, <1>6, <2>1, <2>2, <2>3, OtherCalls DEF RowPart
  <2> QED BY <1>5, <2>1, <2>4, Parts
<1>7. CASE call' = Failed(call, c) /\ UNCHANGED <<pred, cap>>
  <2>1. RowPart /\ \A q \in Keys : Calm(q)
    BY <1>1, <1>7, StillRows DEF Still
  <2>2. OnlyCall(c) /\ CallOk(c)'
    BY <1>0, <1>7, FailedFacts
  <2>3. CallPart
    BY <1>1, <1>7, <2>1, <2>2, OtherCalls DEF RowPart
  <2> QED BY <1>5, <2>1, <2>3, Parts
<1>8. ASSUME pred' = [pred EXCEPT ![Key(c)].st = "PENDING"], ~Exists(p), data = "AVAILABLE"
      PROVE  /\ RowPart
             /\ Exists(p)' /\ ~pred'[p].stopped
             /\ proc'[p] = "none" /\ art'[p] = "none" /\ obj'[p] = "none"
             /\ \A q \in Keys \ {p} : pred'[q] = pred[q]
  <2>1. /\ OnlyRow(p) /\ Good(p)
        /\ Exists(p)' /\ ~pred'[p].stopped
        /\ proc'[p] = "none" /\ art'[p] = "none" /\ obj'[p] = "none"
    BY <1>0, <1>1, <1>2, <1>3, <1>8, NewRow
  <2>2. RowPart
    BY <1>8, <2>1, OneRow
  <2> QED BY <2>1, <2>2 DEF OnlyRow
<1>9. CASE /\ cap = None /\ ~Exists(p) /\ OthersStopped /\ data = "AVAILABLE"
           /\ pred' = [pred EXCEPT ![Key(c)].st = "PENDING"]
           /\ call' = [call EXCEPT ![c].owner = TRUE, ![c].made = TRUE, ![c].pc = "register"]
           /\ cap' = c
  <2>1. /\ OnlyCall(c)
        /\ call'[c].pc = "register" /\ call'[c].key = p
        /\ call'[c].owner /\ call'[c].made
    BY <1>1, <1>2, <1>9 DEF OnlyCall, CallStates, CallPc, Key
  <2>2. \A q \in Keys \ {p} : Exists(q)' => pred'[q].stopped
    BY <1>8, <1>9 DEF OthersStopped, Exists
  <2>3. CallOk(c)'
    BY <1>8, <1>9, <2>1, <2>2 DEF CallOk, Key, Computing, Early
  <2>4. CallPart
    BY <1>8, <1>9, <2>1, <2>3, MoverCalls DEF RowPart, CapFree
  <2> QED BY <1>5, <1>8, <1>9, <2>4, Parts
<1>10. CASE /\ cap = None /\ ~Exists(p) /\ data = "AVAILABLE"
            /\ pred' \in {pred, [pred EXCEPT ![Key(c)].st = "PENDING"]}
            /\ call' = Failed([call EXCEPT ![c].owner = TRUE, ![c].made = TRUE], c)
            /\ cap' = cap
  <2>1. RowPart
    BY <1>1, <1>8, <1>10, StillRows DEF Still
  <2>2. /\ OnlyCall(c)
        /\ call'[c].pc = "clean" /\ call'[c].key = call[c].key
        /\ call'[c].owner /\ call'[c].made /\ call'[c].event
    <3>1. PICK m : m = [call EXCEPT ![c].owner = TRUE, ![c].made = TRUE]
      OBVIOUS
    <3>2. /\ m \in [Calls -> CallStates]
          /\ m[c].owner /\ m[c].made /\ m[c].key = call[c].key
          /\ \A d \in Calls \ {c} : m[d] = call[d]
      BY <1>1, <3>1 DEF CallStates
    <3>3. call' = [m EXCEPT ![c].event = TRUE, ![c].pc = "clean"]
      BY <1>10, <3>1, <3>2 DEF Failed
    <3> QED BY <3>2, <3>3 DEF OnlyCall, CallStates, CallPc
  <2>3. CallOk(c)'
    BY <1>0, <2>2 DEF CallOk, Key, Computing, Early
  <2>4. CallPart
    BY <1>10, <2>1, <2>2, <2>3, MoverCalls DEF RowPart
  <2> QED BY <1>5, <2>1, <2>4, Parts
<1> QED BY <1>2, <1>6, <1>7, <1>9, <1>10 DEF Insert, DataAvailable

\* It registers.
LEMMA RegisterStep ==
  ASSUME PredictInv, NEW c \in Calls, Register(c)
  PROVE  StepOk
<1>0. TypeOK /\ CallOk(c) /\ Up /\ call[c].pc = "register"
  BY DEF PredictInv, CallsOk, Register, At
<1>1. Still /\ UNCHANGED <<cap, user, job>> /\ Fine /\ Go(c, "prepare")
  BY DEF Register, Still, Fine
<1>2. RowPart
  BY <1>1, StillRows
<1>3. "prepare" \in Computing /\ "prepare" \in Early /\ "prepare" \in CallPc
      /\ "prepare" \notin CapFree /\ "register" \in Computing /\ "register" \in Early
      /\ "register" \notin Running
  BY DEF Computing, Early, CallPc, CapFree, Running
<1>4. OnlyCall(c) /\ CallOk(c)' /\ call'[c].pc = "prepare"
  <2>1. proc[Key(c)] # "released"
    BY <1>0, <1>3 DEF CallOk
  <2> QED BY <1>0, <1>1, <1>3, <2>1, GoOk, GoFacts
<1>5. CallPart
  BY <1>0, <1>1, <1>2, <1>3, <1>4, MoverCalls DEF RowPart
<1>6. reg' \in [Keys -> Calls \cup {None}]
  BY <1>0, Types DEF Register
<1> QED BY <1>0, <1>1, <1>2, <1>5, <1>6, UsualSide, Parts

\* What a computing call may rely on.
LEMMA WorkFacts ==
  ASSUME PredictInv, NEW c \in Calls, call[c].pc \in Computing
  PROVE  /\ TypeOK /\ CallOk(c) /\ cap = c
         /\ Key(c) \in Keys /\ Exists(Key(c)) /\ RowOk(Key(c))
         /\ call[c].made
         /\ \A q \in Keys \ {Key(c)} : Exists(q) => pred[q].stopped
         /\ proc[Key(c)] = "released" => call[c].pc \in Running
         /\ call[c].pc \in Early =>
              /\ pred[Key(c)].stopped => pred[Key(c)].cancel
              /\ art[Key(c)] = "none"
         /\ call[c].pc \in Early \cup {"put"} => obj[Key(c)] = "none"
<1>1. TypeOK /\ CallOk(c) /\ RowsOk
  BY DEF PredictInv, CallsOk
<1>2. call[c].pc # "idle"
  BY DEF Computing, Early
<1> QED BY <1>1, <1>2 DEF CallOk, RowsOk

\* A step of a computing call, from its parts.
LEMMA WorkStep ==
  ASSUME PredictInv, Up, NEW c \in Calls, call[c].pc \in Computing,
         RowPart, OnlyCall(c), CallOk(c)',
         \/ UNCHANGED <<cap, reg>> /\ call'[c].pc \notin CapFree
         \/ Error(c),
         Fine \/ Fault, UNCHANGED <<user, job>>
  PROVE  StepOk
<1>1. TypeOK /\ CallOk(c) /\ cap = c /\ call[c].pc # "idle"
  BY WorkFacts DEF Computing, Early
<1>2. /\ reg' \in [Keys -> Calls \cup {None}]
      /\ (cap' \in {cap, c} /\ call'[c].pc \notin CapFree) \/ cap' = None
  BY <1>1, ErrorFacts, Types
<1>3. CallPart
  BY <1>2, MoverCalls DEF RowPart
<1> QED BY <1>2, <1>3, UsualSide, Parts

\* The child is created behind its gate, or cannot be.
LEMMA PrepareStep ==
  ASSUME PredictInv, NEW c \in Calls, Prepare(c)
  PROVE  StepOk
<1>0. Up /\ call[c].pc = "prepare" /\ call[c].pc \in Computing /\ call[c].pc \in Early
      /\ call[c].pc \notin Running
  BY DEF Prepare, At, Computing, Early, Running
<1>1. UNCHANGED <<pred, cap, reg, art, obj, data, user, job>> /\ Fine
  BY DEF Prepare, Fine
<1>2. PICK p \in Keys : p = Key(c)
  BY <1>0, WorkFacts
<1>3. /\ TypeOK /\ CallOk(c) /\ cap = c /\ RowOk(p) /\ Exists(p) /\ call[c].made
      /\ \A q \in Keys \ {p} : Exists(q) => pred[q].stopped
      /\ proc[p] # "released"
      /\ (pred[p].stopped => pred[p].cancel) /\ art[p] = "none" /\ obj[p] = "none"
  BY <1>0, <1>2, WorkFacts
<1>4. CASE Go(c, "finish") /\ proc' = proc
  <2>1. Still
    BY <1>1, <1>4 DEF Still
  <2>2. "finish" \in Computing /\ "finish" \notin Early
    BY DEF Computing, Early
  <2> QED BY <1>0, <1>1, <1>2, <1>3, <1>4, <2>1, <2>2, GoStep
<1>5. CASE Go(c, "start") /\ proc' = [proc EXCEPT ![Key(c)] = "gated"]
  <2>1. "start" \in CallPc /\ "start" \in Early /\ "start" \in Computing
        /\ "start" \notin CapFree
    BY DEF Computing, Early, CallPc, CapFree
  <2>2. proc \in [Keys -> ProcStates] /\ RowTypes
    BY <1>1, <1>2, <1>3, <1>5, Types DEF RowTypes, ProcStates
  <2>3. proc'[p] = "gated" /\ \A q \in Keys \ {p} : proc'[q] = proc[q]
    BY <1>2, <1>5, <2>2
  <2>4. OnlyRow(p)
    BY <1>1, <2>2, <2>3 DEF OnlyRow
  <2>5. Good(p)
    BY <1>1, <1>3, <2>3 DEF Good, RowOk, On, Kept, Exists
  <2>6. RowPart
    BY <1>1, <1>3, <2>3, <2>4, <2>5, OneRow DEF Exists
  <2>7. /\ OnlyCall(c)
        /\ call'[c].pc = "start" /\ call'[c].key = p /\ call'[c].owner = call[c].owner
        /\ call'[c].made
    BY <1>2, <1>3, <1>5, <2>1, GoFacts DEF Key
  <2>8. CallOk(c)'
    BY <1>1, <1>3, <2>3, <2>7 DEF CallOk, Key, Exists
  <2> QED BY <1>0, <1>1, <2>1, <2>6, <2>7, <2>8, WorkStep
<1> QED BY <1>4, <1>5 DEF Prepare

\* The start is written.
LEMMA StartStep ==
  ASSUME PredictInv, NEW c \in Calls, Start(c)
  PROVE  StepOk
<1>0. Up /\ call[c].pc = "start" /\ call[c].pc \in Computing /\ call[c].pc \in Early
      /\ call[c].pc \notin Running
  BY DEF Start, At, Computing, Early, Running
<1>1. UNCHANGED <<cap, reg, proc, art, obj, data, user, job>> /\ (Fine \/ Fault)
  BY DEF Start, Fine
<1>2. PICK p \in Keys : p = Key(c)
  BY <1>0, WorkFacts
<1>3. /\ TypeOK /\ CallOk(c) /\ cap = c /\ RowOk(p) /\ Exists(p) /\ call[c].made
      /\ \A q \in Keys \ {p} : Exists(q) => pred[q].stopped
      /\ proc[p] # "released"
      /\ (pred[p].stopped => pred[p].cancel) /\ art[p] = "none" /\ obj[p] = "none"
  BY <1>0, <1>2, WorkFacts
<1>4. CASE Go(c, "stop") /\ pred' = pred
  <2>1. Still
    BY <1>1, <1>4 DEF Still
  <2>2. "stop" \in Computing /\ "stop" \in Early /\ "stop" \in Running
    BY DEF Computing, Early, Running
  <2> QED BY <1>0, <1>1, <1>2, <1>3, <1>4, <2>1, <2>2, GoStep
<1>5. CASE /\ Go(c, "release") /\ pred' = [pred EXCEPT ![Key(c)].st = "RUNNING"]
           /\ pred[p].st = "PENDING"
  <2>1. "release" \in CallPc /\ "release" \in Early /\ "release" \in Computing
        /\ "release" \notin CapFree
    BY DEF Computing, Early, CallPc, CapFree
  <2>2. pred \in [Keys -> Predictions] /\ pred[p] \in Predictions
    BY <1>3, Types
  <2>3. /\ pred' \in [Keys -> Predictions]
        /\ \A q \in Keys \ {p} : pred'[q] = pred[q]
        /\ pred'[p].st = "RUNNING" /\ pred'[p].cancel = pred[p].cancel
        /\ pred'[p].stopped = pred[p].stopped
    BY <1>2, <1>5, <2>2 DEF Predictions
  <2>4. OnlyRow(p)
    BY <1>1, <1>3, <2>3, Types DEF OnlyRow, RowTypes
  <2>5. Good(p)
    BY <1>1, <1>3, <2>3 DEF Good, RowOk, On, Kept, Exists
  <2>6. RowPart
    BY <1>1, <1>3, <2>4, <2>5, OneRow
  <2>7. /\ OnlyCall(c)
        /\ call'[c].pc = "release" /\ call'[c].key = p /\ call'[c].owner = call[c].owner
        /\ call'[c].made
    BY <1>2, <1>3, <1>5, <2>1, GoFacts DEF Key
  <2>8. CallOk(c)'
    BY <1>1, <1>3, <2>3, <2>7 DEF CallOk, Key, Exists
  <2> QED BY <1>0, <1>1, <2>1, <2>6, <2>7, <2>8, WorkStep
<1> QED BY <1>2, <1>4, <1>5 DEF Start, Row

\* The child is released: nobody stopped the prediction, and all others were.
LEMMA ReleaseStep ==
  ASSUME PredictInv, NEW c \in Calls, Release(c)
  PROVE  StepOk
<1>0. Up /\ call[c].pc = "release" /\ call[c].pc \in Computing /\ call[c].pc \in Early
      /\ call[c].pc \notin Running
  BY DEF Release, At, Computing, Early, Running
<1>1. UNCHANGED <<pred, cap, reg, art, obj, data, user, job>> /\ Fine
  BY DEF Release, Fine
<1>2. PICK p \in Keys : p = Key(c)
  BY <1>0, WorkFacts
<1>3. /\ TypeOK /\ CallOk(c) /\ cap = c /\ RowOk(p) /\ Exists(p) /\ call[c].made
      /\ \A q \in Keys \ {p} : Exists(q) => pred[q].stopped
      /\ proc[p] # "released"
      /\ (pred[p].stopped => pred[p].cancel) /\ art[p] = "none" /\ obj[p] = "none"
  BY <1>0, <1>2, WorkFacts
<1>4. CASE Go(c, "stop") /\ proc' = proc
  <2>1. Still
    BY <1>1, <1>4 DEF Still
  <2>2. "stop" \in Computing /\ "stop" \in Early /\ "stop" \in Running
    BY DEF Computing, Early, Running
  <2> QED BY <1>0, <1>1, <1>2, <1>3, <1>4, <2>1, <2>2, GoStep
<1>5. CASE ~Cancelled(c) /\ Go(c, "wait") /\ proc' = [proc EXCEPT ![Key(c)] = "released"]
  <2>0. ~pred[p].cancel
    BY <1>2, <1>5 DEF Cancelled, Row
  <2>1. "wait" \in CallPc /\ "wait" \in Early /\ "wait" \in Computing
        /\ "wait" \notin CapFree /\ "wait" \in Running
    BY DEF Computing, Early, CallPc, CapFree, Running
  <2>2. proc \in [Keys -> ProcStates] /\ RowTypes
    BY <1>1, <1>2, <1>3, <1>5, Types DEF RowTypes, ProcStates
  <2>3. proc'[p] = "released" /\ \A q \in Keys \ {p} : proc'[q] = proc[q]
    BY <1>2, <1>5, <2>2
  <2>4. OnlyRow(p)
    BY <1>1, <2>2, <2>3 DEF OnlyRow
  <2>5. Good(p)
    BY <1>1, <1>3, <2>0, <2>3 DEF Good, RowOk, On, Kept, Exists
  <2>6. \A q \in Keys \ {p} : proc[q] # "released"
    BY <1>3 DEF PredictInv, RowsOk, RowOk
  <2>7. RowPart
    BY <1>1, <1>3, <2>4, <2>5, <2>6, OneRow
  <2>8. /\ OnlyCall(c)
        /\ call'[c].pc = "wait" /\ call'[c].key = p /\ call'[c].owner = call[c].owner
        /\ call'[c].made
    BY <1>2, <1>3, <1>5, <2>1, GoFacts DEF Key
  <2>9. CallOk(c)'
    BY <1>1, <1>3, <2>1, <2>3, <2>8 DEF CallOk, Key, Exists
  <2> QED BY <1>0, <1>1, <2>1, <2>7, <2>8, <2>9, WorkStep
<1> QED BY <1>4, <1>5 DEF Release

\* The child ends, or must.
LEMMA WaitStep ==
  ASSUME PredictInv, NEW c \in Calls, Wait(c)
  PROVE  StepOk
<1>0. Up /\ call[c].pc = "wait" /\ call[c].pc \in Computing /\ call[c].pc \in Early
  BY DEF Wait, At, Computing, Early
<1>1. Still /\ UNCHANGED <<cap, reg, user, job>> /\ Fine
  BY DEF Wait, Still, Fine
<1>2. {"stop", "stopGood"} \subseteq Computing \cap Early \cap Running
  BY DEF Computing, Early, Running
<1>3. CASE Go(c, "stop")
  BY <1>0, <1>1, <1>2, <1>3, GoStep
<1>4. CASE Go(c, "stopGood")
  BY <1>0, <1>1, <1>2, <1>4, GoStep
<1> QED BY <1>3, <1>4 DEF Wait

\* The process is stopped, or its stop is unknown.
LEMMA StopStep ==
  ASSUME PredictInv, NEW c \in Calls, StopProc(c)
  PROVE  StepOk
<1>0. /\ Up /\ call[c].pc \in {"stop", "stopGood"} /\ call[c].pc \in Computing
      /\ call[c].pc \in Early
  BY DEF StopProc, At, Computing, Early
<1>1. UNCHANGED <<pred, art, obj, data, user, job>> /\ (Fine \/ Fault)
  BY DEF StopProc, Fine
<1>2. PICK p \in Keys : p = Key(c)
  BY <1>0, WorkFacts
<1>3. /\ TypeOK /\ CallOk(c) /\ cap = c /\ RowOk(p) /\ Exists(p) /\ call[c].made
      /\ \A q \in Keys \ {p} : Exists(q) => pred[q].stopped
      /\ (pred[p].stopped => pred[p].cancel) /\ art[p] = "none" /\ obj[p] = "none"
  BY <1>0, <1>2, WorkFacts
<1>4. CASE proc' = proc /\ Error(c)
  <2>1. RowPart
    BY <1>1, <1>4, StillRows DEF Still
  <2>2. call[c].pc # "idle"
    BY <1>0
  <2>3. OnlyCall(c) /\ CallOk(c)'
    BY <1>3, <1>4, <2>2, ErrorFacts
  <2> QED BY <1>0, <1>1, <1>4, <2>1, <2>3, WorkStep
<1>5. ASSUME NEW next \in {"intent", "finish"}, Go(c, next),
             proc' = [proc EXCEPT ![Key(c)] = "none"], UNCHANGED <<cap, reg>>
      PROVE  StepOk
  <2>1. /\ next \in CallPc /\ next \in Computing /\ next \notin CapFree
        /\ next \notin {"idle", "clean", "cleanFinish", "put", "publish"}
    BY DEF Computing, Early, CallPc, CapFree
  <2>2. proc \in [Keys -> ProcStates] /\ RowTypes
    BY <1>1, <1>2, <1>3, <1>5, Types DEF RowTypes, ProcStates
  <2>3. proc'[p] = "none" /\ \A q \in Keys \ {p} : proc'[q] = proc[q]
    BY <1>2, <1>5, <2>2
  <2>4. OnlyRow(p)
    BY <1>1, <2>2, <2>3 DEF OnlyRow
  <2>5. Good(p)
    BY <1>1, <1>3, <2>3 DEF Good, RowOk, On, Kept, Exists
  <2>6. RowPart
    BY <1>1, <1>3, <2>3, <2>4, <2>5, OneRow DEF Exists
  <2>7. /\ OnlyCall(c)
        /\ call'[c].pc = next /\ call'[c].key = p /\ call'[c].owner = call[c].owner
        /\ call'[c].made
    BY <1>2, <1>3, <1>5, <2>1, GoFacts DEF Key
  <2>8. CallOk(c)'
    BY <1>1, <1>3, <1>5, <2>1, <2>3, <2>7 DEF CallOk, Key, Exists
  <2> QED BY <1>0, <1>1, <1>5, <2>1, <2>6, <2>7, <2>8, WorkStep
<1>6. PICK good \in BOOLEAN :
        \/ /\ proc' = [proc EXCEPT ![Key(c)] = "none"]
           /\ Go(c, IF good /\ ~Cancelled(c) THEN "intent" ELSE "finish")
           /\ UNCHANGED <<cap, reg>>
        \/ proc' = proc /\ Error(c)
  BY DEF StopProc, StopUnconfirmed
<1> QED BY <1>4, <1>5, <1>6

\* The result is announced.
LEMMA IntentStep ==
  ASSUME PredictInv, NEW c \in Calls, Intent(c)
  PROVE  StepOk
<1>0. Up /\ call[c].pc = "intent" /\ call[c].pc \in Computing /\ call[c].pc \in Early
      /\ call[c].pc \notin Running
  BY DEF Intent, At, Computing, Early, Running
<1>1. UNCHANGED <<cap, reg, proc, obj, data, user, job>> /\ (Fine \/ Fault)
  BY DEF Intent, Fine
<1>2. PICK p \in Keys : p = Key(c)
  BY <1>0, WorkFacts
<1>3. /\ TypeOK /\ CallOk(c) /\ cap = c /\ RowOk(p) /\ Exists(p) /\ call[c].made
      /\ \A q \in Keys \ {p} : Exists(q) => pred[q].stopped
      /\ proc[p] # "released"
      /\ (pred[p].stopped => pred[p].cancel) /\ art[p] = "none" /\ obj[p] = "none"
  BY <1>0, <1>2, WorkFacts
<1>4. CASE Go(c, "finish") /\ UNCHANGED <<pred, art>>
  <2>1. Still
    BY <1>1, <1>4 DEF Still
  <2>2. "finish" \in Computing /\ "finish" \notin Early
    BY DEF Computing, Early
  <2> QED BY <1>0, <1>1, <1>2, <1>3, <1>4, <2>1, <2>2, GoStep
<1>5. CASE /\ ~pred[p].cancel /\ pred[p].st = "RUNNING"
           /\ pred' = [pred EXCEPT ![p].stopped = TRUE, ![p].publishing = TRUE]
           /\ art' = [art EXCEPT ![p] = "PENDING"] /\ Go(c, "put")
  <2>1. "put" \in CallPc /\ "put" \in Computing /\ "put" \notin Early /\ "put" \notin CapFree
    BY DEF Computing, Early, CallPc, CapFree
  <2>2. pred \in [Keys -> Predictions] /\ art \in [Owners -> Status] /\ p \in Owners
    BY <1>3, Types DEF Owners
  <2>3. /\ pred' \in [Keys -> Predictions]
        /\ \A q \in Keys \ {p} : pred'[q] = pred[q]
        /\ pred'[p].st = "RUNNING" /\ ~pred'[p].cancel
    BY <1>5, <2>2 DEF Predictions
  <2>4. /\ art' \in [Owners -> Status]
        /\ \A o \in Owners \ {p} : art'[o] = art[o]
        /\ art'[p] = "PENDING"
    BY <1>5, <2>2 DEF Status
  <2>5. pred'[p].stopped
    <3>1. pred[p] \in Predictions
      BY <2>2
    <3>2. pred'[p] = [pred[p] EXCEPT !.stopped = TRUE, !.publishing = TRUE]
      BY <1>5, <2>2
    <3> QED BY <3>1, <3>2 DEF Predictions
  <2>6. OnlyRow(p)
    BY <1>1, <1>3, <2>3, <2>4, Types DEF OnlyRow, RowTypes
  <2>7. Good(p)
    BY <1>1, <1>3, <1>5, <2>3, <2>4, <2>5 DEF Good, RowOk, On, Kept, Exists, Gone, Going
  <2>8. RowPart
    BY <1>1, <1>3, <2>6, <2>7, OneRow
  <2>9. /\ OnlyCall(c)
        /\ call'[c].pc = "put" /\ call'[c].key = p /\ call'[c].owner = call[c].owner
        /\ call'[c].made
    BY <1>2, <1>3, <1>5, <2>1, GoFacts DEF Key
  <2>10. CallOk(c)'
    BY <1>1, <1>3, <2>1, <2>3, <2>9 DEF CallOk, Key, Exists
  <2> QED BY <1>0, <1>1, <2>1, <2>8, <2>9, <2>10, WorkStep
<1> QED BY <1>2, <1>4, <1>5 DEF Intent, Row

\* The result is uploaded, or not, or perhaps.
LEMMA PutStep ==
  ASSUME PredictInv, NEW c \in Calls, Put(c)
  PROVE  StepOk
<1>0. Up /\ call[c].pc = "put" /\ call[c].pc \in Computing /\ call[c].pc \notin Early
      /\ call[c].pc \notin Running
  BY DEF Put, At, Computing, Early, Running
<1>1. UNCHANGED <<pred, cap, reg, proc, art, data, user, job>> /\ (Fine \/ Fault)
  BY DEF Put, Fine
<1>2. PICK p \in Keys : p = Key(c)
  BY <1>0, WorkFacts
<1>3. /\ TypeOK /\ CallOk(c) /\ cap = c /\ RowOk(p) /\ Exists(p) /\ call[c].made
      /\ \A q \in Keys \ {p} : Exists(q) => pred[q].stopped
      /\ proc[p] # "released" /\ obj[p] = "none"
  BY <1>0, <1>2, WorkFacts
<1>4. PICK o \in ObjStates, pc \in {"finish", "publish", "return"} :
        /\ obj' = [obj EXCEPT ![p] = o] /\ Go(c, pc)
        /\ pc = "publish" => o = "there"
  <2>1. \/ /\ obj' = [obj EXCEPT ![p] = "there"]
           /\ Go(c, "finish") \/ Go(c, "publish")
        \/ \E o \in {"none", "late"} :
             /\ obj' = [obj EXCEPT ![p] = o]
             /\ Go(c, "finish") \/ Go(c, "return")
    BY <1>2 DEF Put, GiveUp
  <2> QED BY <2>1 DEF ObjStates
<1>5. /\ pc \in CallPc /\ pc \notin CapFree /\ pc \notin Early /\ pc \notin {"put", "idle"}
      /\ pc \notin {"clean", "cleanFinish"}
  BY DEF Computing, Early, CallPc, CapFree
<1>6. obj \in [Owners -> ObjStates] /\ p \in Owners
  BY <1>3, Types DEF Owners
<1>7. /\ obj' \in [Owners -> ObjStates]
      /\ \A x \in Owners \ {p} : obj'[x] = obj[x]
      /\ obj'[p] = o
  BY <1>4, <1>6
<1>8. OnlyRow(p)
  BY <1>1, <1>3, <1>7, Types DEF OnlyRow, RowTypes
<1>9. Good(p)
  BY <1>1, <1>3, <1>7 DEF Good, RowOk, On, Kept, Exists
<1>10. RowPart
  BY <1>1, <1>3, <1>8, <1>9, OneRow
<1>11. /\ OnlyCall(c)
       /\ call'[c].pc = pc /\ call'[c].key = p /\ call'[c].owner = call[c].owner
       /\ call'[c].made
  BY <1>2, <1>3, <1>4, <1>5, GoFacts DEF Key
<1>12. CallOk(c)'
  BY <1>1, <1>3, <1>4, <1>5, <1>7, <1>11 DEF CallOk, Key, Exists
<1> QED BY <1>0, <1>1, <1>5, <1>10, <1>11, <1>12, WorkStep

\* A call that has ended its work on a prediction, one way or another.
LEMMA EndOk ==
  ASSUME PredictInv, NEW c \in Calls, call[c].pc \in Computing, call[c].pc \notin Running,
         NEW pc \in {"finish", "return"}, Go(c, pc), UNCHANGED <<cap, proc>>, NEW p \in Keys,
         p = Key(c), OnlyRow(p), Good(p)
  PROVE  OnlyCall(c) /\ CallOk(c)' /\ call'[c].pc \notin CapFree
<1>1. /\ TypeOK /\ CallOk(c) /\ cap = c /\ Exists(p) /\ call[c].made
      /\ \A q \in Keys \ {p} : Exists(q) => pred[q].stopped
      /\ proc[p] # "released"
  BY WorkFacts
<1>2. /\ pc \in CallPc /\ pc \notin CapFree
      /\ pc \notin Early /\ pc \notin {"idle", "clean", "cleanFinish", "put", "publish"}
  BY DEF Early, CallPc, CapFree
<1>3. /\ OnlyCall(c)
      /\ call'[c].pc = pc /\ call'[c].key = p /\ call'[c].owner = call[c].owner
      /\ call'[c].made
  BY <1>1, <1>2, GoFacts DEF Key
<1>4. Exists(p)' /\ \A q \in Keys \ {p} : Exists(q)' => pred'[q].stopped
  BY <1>1 DEF Good, On, OnlyRow, Exists
<1> QED BY <1>1, <1>2, <1>3, <1>4 DEF CallOk, Key

\* Tables that one transaction left alone.
LEMMA StillRow ==
  ASSUME PredictInv, NEW p \in Keys, Still
  PROVE  OnlyRow(p) /\ Good(p)
<1>1. RowPart
  BY StillRows
<1> QED BY <1>1 DEF OnlyRow, RowPart, RowsOk, Good, Owners, Still

\* The result is published, if it still may be.
LEMMA PublishStep ==
  ASSUME PredictInv, NEW c \in Calls, Publish(c)
  PROVE  StepOk
<1>0. Up /\ call[c].pc = "publish" /\ call[c].pc \in Computing /\ call[c].pc \notin Running
  BY DEF Publish, At, Computing, Early, Running
<1>1. UNCHANGED <<cap, reg, proc, obj, data, user, job>> /\ (Fine \/ Fault)
  BY DEF Publish, Fine
<1>2. PICK p \in Keys : p = Key(c)
  BY <1>0, WorkFacts
<1>3. TypeOK /\ RowOk(p) /\ Exists(p) /\ (obj[p] = "there" \/ art[p] \in Gone)
  BY <1>0, <1>2, WorkFacts DEF CallOk
<1>4. OnlyRow(p) /\ Good(p)
  <2>1. CASE AdoptTx(p)
    BY <1>1, <1>3, <2>1, AdoptRow
  <2>2. CASE UNCHANGED <<pred, art>>
    BY <1>1, <2>2, StillRow DEF Still
  <2> QED BY <1>2, <2>1, <2>2 DEF Publish
<1>5. RowPart
  BY <1>1, <1>3, <1>4, OneRow
<1>6. PICK pc \in {"finish", "return"} : Go(c, pc)
  BY DEF Publish, GiveUp
<1>7. OnlyCall(c) /\ CallOk(c)' /\ call'[c].pc \notin CapFree
  BY <1>0, <1>1, <1>2, <1>4, <1>6, EndOk
<1> QED BY <1>0, <1>1, <1>5, <1>7, WorkStep

\* The prediction is finished without a result.
LEMMA FinishStep ==
  ASSUME PredictInv, NEW c \in Calls, Finish(c)
  PROVE  StepOk
<1>0. Up /\ call[c].pc = "finish" /\ call[c].pc \in Computing /\ call[c].pc \notin Running
  BY DEF Finish, At, Computing, Early, Running
<1>1. UNCHANGED <<proc, obj, data, user, job>> /\ (Fine \/ Fault)
  BY DEF Finish, Fine
<1>2. PICK p \in Keys : p = Key(c)
  BY <1>0, WorkFacts
<1>3. TypeOK /\ CallOk(c) /\ RowOk(p) /\ Exists(p) /\ call[c].made /\ proc[p] # "released"
  BY <1>0, <1>2, WorkFacts
<1>4. PICK x \in BOOLEAN : x = call[c].event
  BY <1>3, CallType
<1>5. x => Cause(p)
  BY <1>2, <1>3, <1>4 DEF Cause, Key
<1>6. OnlyRow(p) /\ Good(p)
  <2>1. CASE FinishTx(p, x)
    BY <1>1, <1>3, <1>5, <2>1, FinishRow
  <2>2. CASE UNCHANGED <<pred, art>>
    BY <1>1, <2>2, StillRow DEF Still
  <2> QED BY <1>2, <1>4, <2>1, <2>2 DEF Finish
<1>7. RowPart
  BY <1>1, <1>3, <1>6, OneRow
<1>8. CASE Go(c, "return") /\ UNCHANGED <<cap, reg>>
  <2>1. OnlyCall(c) /\ CallOk(c)' /\ call'[c].pc \notin CapFree
    BY <1>0, <1>1, <1>2, <1>6, <1>8, EndOk
  <2> QED BY <1>0, <1>1, <1>7, <1>8, <2>1, WorkStep
<1>9. CASE Error(c)
  <2>1. OnlyCall(c) /\ CallOk(c)'
    BY <1>0, <1>3, <1>9, ErrorFacts
  <2> QED BY <1>0, <1>1, <1>7, <1>9, <2>1, WorkStep
<1> QED BY <1>8, <1>9 DEF Finish

\* A step of a call that does not compute.
LEMMA OwnStep ==
  ASSUME PredictInv, Up, NEW c \in Calls, RowPart, \A p \in Keys : Calm(p),
         OnlyCall(c), CallOk(c)',
         \/ cap' = (IF cap = c THEN None ELSE cap)
         \/ cap' = cap /\ (cap = c => call'[c].pc \notin CapFree),
         reg' \in [Keys -> Calls \cup {None}], UNCHANGED <<user, job>>, Fine \/ Fault
  PROVE  StepOk
<1>1. CallPart
  BY OtherCalls DEF RowPart
<1> QED BY <1>1, UsualSide, Parts

\* Tables in which one prediction moves calmly.
LEMMA CalmRow ==
  ASSUME PredictInv, NEW p \in Keys, OnlyRow(p), Good(p), Calm(p)
  PROVE  RowPart /\ \A q \in Keys : Calm(q)
<1>1. RowPart /\ \A q \in Keys \ {p} : Calm(q)
  BY OneRow DEF Calm
<1> QED BY <1>1

\* The answer, or the wait for it.
LEMMA ReturnStep ==
  ASSUME PredictInv, NEW c \in Calls, Return(c)
  PROVE  StepOk
<1>0. TypeOK /\ CallOk(c) /\ Up /\ call[c].pc = "return"
  BY DEF PredictInv, CallsOk, Return, At
<1>1. Still /\ UNCHANGED <<user, job>> /\ (Fine \/ Fault)
  BY DEF Return, Still
<1>2. RowPart /\ \A p \in Keys : Calm(p)
  BY <1>1, StillRows
<1>3. reg \in [Keys -> Calls \cup {None}]
  BY <1>0, Types
<1>4. cap' = (IF cap = c THEN None ELSE cap) /\ reg' \in [Keys -> Calls \cup {None}]
  <2>1. GiveBack(c)
    BY DEF Return, Error
  <2> QED BY <1>3, <2>1 DEF GiveBack
<1>5. CASE call[c].event /\ call[c].owner /\ Go(c, "clean")
  <2>1. "clean" \in CallPc /\ "clean" \notin Computing
    BY DEF CallPc, Computing, Early
  <2>2. /\ OnlyCall(c)
        /\ call'[c].pc = "clean" /\ call'[c].key = call[c].key
        /\ call'[c].owner = call[c].owner /\ call'[c].made = call[c].made
        /\ call'[c].event = call[c].event
    BY <1>0, <1>5, <2>1, GoFacts
  <2>3. CallOk(c)'
    BY <1>0, <1>5, <2>1, <2>2 DEF CallOk, Key, Computing
  <2> QED BY <1>0, <1>1, <1>2, <1>4, <2>2, <2>3, OwnStep
<1>6. CASE Idle(c)
  BY <1>0, <1>1, <1>2, <1>4, <1>6, IdleFacts, OwnStep
<1>7. CASE Go(c, "poll")
  <2>1. "poll" \in CallPc /\ "poll" \notin Computing
    BY DEF CallPc, Computing, Early
  <2>2. /\ OnlyCall(c)
        /\ call'[c].pc = "poll" /\ call'[c].key = call[c].key
        /\ call'[c].owner = call[c].owner /\ call'[c].made = call[c].made
    BY <1>0, <1>7, <2>1, GoFacts
  <2>3. CallOk(c)'
    BY <1>0, <2>1, <2>2 DEF CallOk, Key, Computing
  <2> QED BY <1>0, <1>1, <1>2, <1>4, <2>2, <2>3, OwnStep
<1>8. CASE Error(c)
  BY <1>0, <1>1, <1>2, <1>4, <1>8, ErrorFacts, OwnStep
<1> QED BY <1>5, <1>6, <1>7, <1>8 DEF Return

\* The wait ends.
LEMMA PollStep ==
  ASSUME PredictInv, NEW c \in Calls, Poll(c)
  PROVE  StepOk
<1>0. TypeOK /\ CallOk(c) /\ Up /\ call[c].pc = "poll" /\ cap # c /\ Idle(c)
  BY Types, PredictionAssumption DEF PredictInv, CallsOk, Poll, At, CapFree
<1>1. Still /\ UNCHANGED <<cap, reg, user, job>> /\ Fine
  BY DEF Poll, Still, Fine
<1>2. RowPart /\ \A p \in Keys : Calm(p)
  BY <1>1, StillRows
<1>3. reg' \in [Keys -> Calls \cup {None}]
  BY <1>0, <1>1, Types
<1> QED BY <1>0, <1>1, <1>2, <1>3, IdleFacts, OwnStep

\* A call hears that its client is gone.
LEMMA RaiseFacts ==
  ASSUME PredictInv, NEW c \in Calls, call' = [call EXCEPT ![c].event = TRUE],
         \A p \in Keys : On(p) /\ Calm(p), \A o \in Owners : Kept(o), cap' = cap
  PROVE  CallPart
<1>0. TypeOK /\ call \in [Calls -> CallStates]
  BY Types DEF PredictInv
<1>1. /\ OnlyCall(c)
      /\ call'[c].pc = call[c].pc /\ call'[c].key = call[c].key
      /\ call'[c].owner = call[c].owner /\ call'[c].made = call[c].made
      /\ call'[c].event
  BY <1>0 DEF OnlyCall, CallStates
<1>2. CallOk(c)'
  BY <1>1, CallStays
<1>3. cap = c => call[c].pc \notin CapFree
  BY <1>0, Types, PredictionAssumption
<1> QED BY <1>1, <1>2, <1>3, OtherCalls

\* The client is gone.
LEMMA LostStep ==
  ASSUME PredictInv, NEW c \in Calls, Lost(c)
  PROVE  StepOk
<1>0. TypeOK /\ Up
  BY DEF PredictInv, Lost
<1>1. Still /\ UNCHANGED <<cap, reg, user, job>> /\ Fine
  BY DEF Lost, Still, Fine
<1>2. RowPart /\ \A p \in Keys : Calm(p)
  BY <1>1, StillRows
<1>3. CallPart
  BY <1>1, <1>2, RaiseFacts DEF Lost, RowPart
<1> QED BY <1>0, <1>1, <1>2, <1>3, Types, UsualSide, Parts

\* The owner asks for the cancellation of its prediction.
LEMMA AskStep ==
  ASSUME PredictInv, NEW c \in Calls, Ask(c)
  PROVE  StepOk
<1>0. TypeOK /\ CallOk(c) /\ Up /\ call[c].pc # "idle" /\ call[c].event /\ call[c].owner
  BY DEF PredictInv, CallsOk, Ask
<1>1. UNCHANGED <<call, cap, reg, proc, art, obj, data, user, job>> /\ Fine
  BY DEF Ask, Fine
<1>2. PICK p \in Keys : p = Key(c)
  BY <1>0 DEF CallOk
<1>3. RowOk(p) /\ RequestTx(p) /\ Cause(p)
  BY <1>0, <1>2 DEF PredictInv, RowsOk, Ask, Cause, CallOk, Key
<1>4. OnlyRow(p) /\ Good(p) /\ Calm(p)
  BY <1>0, <1>1, <1>3, RequestRow
<1>5. RowPart /\ \A q \in Keys : Calm(q)
  BY <1>4, CalmRow
<1>6. CallPart
  BY <1>1, <1>5, NoCalls DEF RowPart
<1> QED BY <1>0, <1>1, <1>5, <1>6, Types, UsualSide, Parts

\* A cancelled call stops what it owns.
LEMMA CleanStep ==
  ASSUME PredictInv, NEW c \in Calls, Clean(c)
  PROVE  StepOk
<1>0. TypeOK /\ CallOk(c) /\ Up /\ call[c].pc = "clean" /\ cap # c
  BY Types, PredictionAssumption DEF PredictInv, CallsOk, Clean, At, CapFree
<1>1. UNCHANGED <<cap, reg, art, obj, data, user, job>> /\ (Fine \/ Fault)
  BY DEF Clean, Fine
<1>2. PICK p \in Keys : p = Key(c)
  BY <1>0 DEF CallOk
<1>3. RowOk(p) /\ RequestTx(p) /\ Cause(p)
  BY <1>0, <1>2 DEF PredictInv, RowsOk, Clean, Cause, CallOk, Key
<1>4. proc' = proc \/ proc' = [proc EXCEPT ![p] = "none"]
  BY <1>2 DEF Clean
<1>5. /\ OnlyRow(p) /\ Good(p) /\ Calm(p)
      /\ Exists(p) /\ ~Ended(p) => pred'[p].cancel
  BY <1>0, <1>1, <1>3, <1>4, RequestRow
<1>6. RowPart /\ \A q \in Keys : Calm(q)
  BY <1>5, CalmRow
<1>7. reg' \in [Keys -> Calls \cup {None}]
  BY <1>0, <1>1, Types
<1>8. CASE Idle(c)
  BY <1>0, <1>1, <1>6, <1>7, <1>8, IdleFacts, OwnStep
<1>9. CASE /\ Exists(p) /\ ~Ended(p) /\ Go(c, "cleanFinish")
           /\ proc' = [proc EXCEPT ![p] = "none"]
  <2>1. "cleanFinish" \in CallPc /\ "cleanFinish" \notin Computing
        /\ "cleanFinish" \notin Early
    BY DEF CallPc, Computing, Early
  <2>2. /\ OnlyCall(c)
        /\ call'[c].pc = "cleanFinish" /\ call'[c].key = p
        /\ call'[c].owner = call[c].owner /\ call'[c].made = call[c].made
        /\ call'[c].event = call[c].event
    BY <1>0, <1>2, <1>9, <2>1, GoFacts DEF Key
  <2>3. proc'[p] = "none"
    BY <1>0, <1>9, Types
  <2>4. CallOk(c)'
    BY <1>0, <1>5, <1>9, <2>1, <2>2, <2>3 DEF CallOk, Key, Row, Good, On
  <2> QED BY <1>0, <1>1, <1>6, <1>7, <2>2, <2>4, OwnStep
<1> QED BY <1>2, <1>8, <1>9 DEF Clean

\* It finishes what it stopped.
LEMMA CleanFinishStep ==
  ASSUME PredictInv, NEW c \in Calls, CleanFinish(c)
  PROVE  StepOk
<1>0. TypeOK /\ CallOk(c) /\ Up /\ call[c].pc = "cleanFinish" /\ cap # c /\ Idle(c)
  BY Types, PredictionAssumption DEF PredictInv, CallsOk, CleanFinish, At, CapFree
<1>1. UNCHANGED <<cap, reg, proc, obj, data, user, job>> /\ (Fine \/ Fault)
  BY DEF CleanFinish, Fine
<1>2. PICK p \in Keys : p = Key(c)
  BY <1>0 DEF CallOk
<1>3. RowOk(p) /\ Exists(p) /\ pred[p].cancel /\ proc[p] # "released"
  BY <1>0, <1>2 DEF PredictInv, RowsOk, CallOk, Row
<1>4. RowPart /\ \A q \in Keys : Calm(q)
  <2>1. CASE FinishTx(p, TRUE)
    <3>1. OnlyRow(p) /\ Good(p) /\ Calm(p)
      BY <1>0, <1>1, <1>3, <2>1, FinishRow
    <3> QED BY <3>1, CalmRow
  <2>2. CASE UNCHANGED <<pred, art>>
    BY <1>1, <2>2, StillRows DEF Still
  <2> QED BY <1>2, <2>1, <2>2 DEF CleanFinish
<1>5. reg' \in [Keys -> Calls \cup {None}]
  BY <1>0, <1>1, Types
<1> QED BY <1>0, <1>1, <1>4, <1>5, IdleFacts, OwnStep

-----------------------------------------------------------------------------
(* The user *)

\* A step of the user's cancellation.
LEMMA UserSide ==
  ASSUME PredictInv, RowPart, Up, Fine \/ Fault, UNCHANGED <<reg, job>>,
         user' \in [pc: {"idle", "asked", "finish"}, key: Keys \cup {None}], UserOk'
  PROVE  SidePart
<1>0. TypeOK /\ JobsOk
  BY DEF PredictInv
<1>1. sys' \in [boot: BOOLEAN, requests: 0..MaxRequests, faults: 0..MaxFaults,
                crashes: 0..MaxCrashes]
      /\ sys'.boot = sys.boot
  BY <1>0, SysStays
<1>2. JobsOk'
  <2>1. \A w \in Workers : job[w].of \in Owners
    BY <1>0 DEF TypeOK, Jobs
  <2> QED BY <1>0, <2>1 DEF JobsOk, JobOk, RowPart, Kept
<1>3. BootOk'
  BY <1>1 DEF BootOk, Up
<1> QED BY <1>0, <1>1, <1>2, <1>3, Types DEF SidePart

\* A user cancels a prediction.
LEMMA UserAskStep ==
  ASSUME PredictInv, NEW p \in Keys, UserAsk(p)
  PROVE  StepOk
<1>0. /\ TypeOK /\ Up /\ RowOk(p) /\ RequestTx(p) /\ Exists(p) /\ ~Ended(p)
      /\ user' = [pc |-> "asked", key |-> p]
  BY DEF PredictInv, RowsOk, UserAsk
<1>1. UNCHANGED <<call, cap, reg, proc, art, obj, data, job>> /\ Fine
  BY DEF UserAsk, Fine
<1>2. user'.pc = "asked" /\ user'.key = p
  BY <1>0
<1>3. OnlyRow(p) /\ Good(p) /\ Calm(p) /\ pred'[p].cancel
  BY <1>0, <1>1, <1>2, RequestRow DEF Cause
<1>4. RowPart /\ \A q \in Keys : Calm(q)
  BY <1>3, CalmRow
<1>5. CallPart
  BY <1>1, <1>4, NoCalls DEF RowPart
<1>6. UserOk'
  BY <1>0, <1>2, <1>3 DEF UserOk, Good, On
<1>7. SidePart
  BY <1>0, <1>1, <1>4, <1>6, UserSide
<1> QED BY <1>4, <1>5, <1>7, Parts

\* The call is told, or the process is stopped.
LEMMA UserTellStep ==
  ASSUME PredictInv, UserTell
  PROVE  StepOk
<1>0. /\ TypeOK /\ Up /\ UserOk /\ user.pc = "asked"
      /\ reg \in [Keys -> Calls \cup {None}]
      /\ user \in [pc: {"idle", "asked", "finish"}, key: Keys \cup {None}]
  BY Types DEF PredictInv, UserTell
<1>1. UNCHANGED <<pred, cap, reg, art, obj, data, job>> /\ (Fine \/ Fault)
  BY DEF UserTell, Fine
<1>2. PICK p \in Keys : p = user.key
  BY <1>0 DEF UserOk
<1>3. Exists(p) /\ pred[p].cancel /\ RowOk(p)
  BY <1>0, <1>2 DEF UserOk, PredictInv, RowsOk
<1>4. NoUser \in [pc: {"idle", "asked", "finish"}, key: Keys \cup {None}]
      /\ NoUser.pc = "idle"
  BY DEF NoUser
<1>5. CASE reg[p] # None /\ call' = [call EXCEPT ![reg[p]].event = TRUE] /\ user' = NoUser
           /\ UNCHANGED <<proc, sys>>
  <2>1. RowPart /\ \A q \in Keys : Calm(q)
    BY <1>1, <1>5, StillRows DEF Still
  <2>2. PICK c \in Calls : c = reg[p]
    BY <1>0, <1>5
  <2>3. CallPart
    BY <1>1, <1>5, <2>1, <2>2, RaiseFacts DEF RowPart
  <2>4. UserOk'
    BY <1>4, <1>5 DEF UserOk
  <2> QED BY <1>0, <1>1, <1>4, <1>5, <2>1, <2>3, <2>4, UserSide, Parts
<1>6. CASE proc' = proc /\ user' = NoUser /\ call' = call
  <2>1. RowPart /\ \A q \in Keys : Calm(q)
    BY <1>1, <1>6, StillRows DEF Still
  <2>2. CallPart
    BY <1>1, <1>6, <2>1, NoCalls DEF RowPart
  <2>3. UserOk'
    BY <1>4, <1>6 DEF UserOk
  <2> QED BY <1>0, <1>1, <1>4, <1>6, <2>1, <2>2, <2>3, UserSide, Parts
<1>7. CASE /\ proc' = [proc EXCEPT ![p] = "none"] /\ call' = call
           /\ user' = [user EXCEPT !.pc = "finish"]
  <2>1. proc \in [Keys -> ProcStates]
    BY <1>0, Types
  <2>2. /\ proc' \in [Keys -> ProcStates]
        /\ proc'[p] = "none" /\ \A q \in Keys \ {p} : proc'[q] = proc[q]
    BY <1>7, <2>1 DEF ProcStates
  <2>3. OnlyRow(p)
    BY <1>0, <1>1, <2>2, Types DEF OnlyRow, RowTypes
  <2>4. Good(p) /\ Calm(p)
    BY <1>1, <1>3, <2>2 DEF Good, Calm, RowOk, On, Kept, Exists
  <2>5. RowPart /\ \A q \in Keys : Calm(q)
    BY <2>3, <2>4, CalmRow
  <2>6. CallPart
    BY <1>1, <1>7, <2>5, NoCalls DEF RowPart
  <2>7. /\ user' \in [pc: {"idle", "asked", "finish"}, key: Keys \cup {None}]
        /\ user'.pc = "finish" /\ user'.key = p
    BY <1>0, <1>2, <1>7
  <2>8. UserOk'
    BY <1>1, <1>3, <2>2, <2>7 DEF UserOk, Exists
  <2> QED BY <1>0, <1>1, <2>5, <2>6, <2>7, <2>8, UserSide, Parts
<1> QED BY <1>2, <1>5, <1>6, <1>7 DEF UserTell

\* The row is finished for the user.
LEMMA UserFinishStep ==
  ASSUME PredictInv, UserFinish
  PROVE  StepOk
<1>0. TypeOK /\ Up /\ UserOk /\ user.pc = "finish" /\ user' = NoUser
  BY DEF PredictInv, UserFinish
<1>1. UNCHANGED <<call, cap, reg, proc, obj, data, job>> /\ Fine
  BY DEF UserFinish, Fine
<1>2. PICK p \in Keys : p = user.key
  BY <1>0 DEF UserOk
<1>3. /\ Exists(p) /\ pred[p].cancel /\ RowOk(p) /\ proc[p] # "released"
      /\ FinishTx(p, TRUE)
  BY <1>0, <1>2 DEF UserOk, PredictInv, RowsOk, UserFinish
<1>4. OnlyRow(p) /\ Good(p) /\ Calm(p)
  BY <1>0, <1>1, <1>3, FinishRow
<1>5. RowPart /\ \A q \in Keys : Calm(q)
  BY <1>4, CalmRow
<1>6. CallPart
  BY <1>1, <1>5, NoCalls DEF RowPart
<1>7. NoUser \in [pc: {"idle", "asked", "finish"}, key: Keys \cup {None}] /\ UserOk'
  BY <1>0 DEF NoUser, UserOk
<1> QED BY <1>0, <1>1, <1>5, <1>6, <1>7, UserSide, Parts


-----------------------------------------------------------------------------
(* The dataset, and the reconciliation of artifacts *)

\* Only the artifact and the object of o move, forward, and the dataset only to
\* its deletion.
OnlyArtifact(o) ==
  /\ UNCHANGED <<pred, proc>>
  /\ art' \in [Owners -> Status] /\ obj' \in [Owners -> ObjStates]
  /\ \A q \in Owners \ {o} : art'[q] = art[q] /\ obj'[q] = obj[q]
  /\ \/ art'[o] = art[o]
     \/ art[o] = "FAILED" /\ art'[o] = "DELETING"
     \/ art[o] = "DELETING" /\ art'[o] = "DELETED"
  /\ \/ obj'[o] = obj[o]
     \/ obj'[o] = "none" /\ art'[o] \in Going
     \/ obj[o] = "late" /\ obj'[o] = "there"
     \/ o = Data /\ obj[o] # "there"
     \/ o = Data /\ obj'[o] = "there"
  /\ data' = data \/ (o = Data /\ data = "DELETING" /\ data' = "DELETED")

\* The tables when one artifact moves forward.
LEMMA ArtifactMoves ==
  ASSUME PredictInv, NEW o \in Owners, OnlyArtifact(o)
  PROVE  RowPart /\ \A p \in Keys : Calm(p)
<1>0. /\ TypeOK /\ RowsOk /\ OneComputation /\ DataHeld /\ DataOk
      /\ pred \in [Keys -> Predictions] /\ proc \in [Keys -> ProcStates]
      /\ art \in [Owners -> Status] /\ obj \in [Owners -> ObjStates] /\ data \in Status
  BY Types DEF PredictInv
<1>1. UNCHANGED <<pred, proc>>
  BY DEF OnlyArtifact
<1>2. RowTypes
  BY <1>0, <1>1 DEF OnlyArtifact, RowTypes, Status
<1>3. Data \in Owners /\ Data \notin Keys /\ \A p \in Keys : p \in Owners
  BY PredictionAssumption DEF Owners
<1>4. \A q \in Owners : Kept(q)
  <2>1. Kept(o)
    BY DEF OnlyArtifact, Kept, Gone, Going
  <2> QED BY <2>1 DEF OnlyArtifact, Kept
<1>5. \A p \in Keys : RowOk(p)' /\ On(p) /\ Calm(p)
  <2> SUFFICES ASSUME NEW p \in Keys PROVE RowOk(p)' /\ On(p) /\ Calm(p)
    OBVIOUS
  <2>1. RowOk(p) /\ pred'[p] = pred[p] /\ proc'[p] = proc[p]
    BY <1>0, <1>1 DEF RowsOk
  <2>2. CASE p # o
    BY <1>3, <2>1, <2>2, SameRow DEF OnlyArtifact, Good
  <2>3. CASE p = o
    <3>1. /\ \/ art'[p] = art[p]
             \/ art[p] = "FAILED" /\ art'[p] = "DELETING"
             \/ art[p] = "DELETING" /\ art'[p] = "DELETED"
          /\ \/ obj'[p] = obj[p]
             \/ obj'[p] = "none" /\ art'[p] \in Going
             \/ obj[p] = "late" /\ obj'[p] = "there"
      BY <1>3, <2>3 DEF OnlyArtifact
    <3>2. RowOk(p)'
      BY <2>1, <3>1 DEF RowOk, Exists, Going
    <3>3. On(p) /\ Calm(p)
      BY <2>1, <3>1 DEF On, Calm, Exists
    <3> QED BY <3>2, <3>3
  <2> QED BY <2>2, <2>3
<1>6. OneComputation'
  BY <1>0, <1>1 DEF OneComputation
<1>7. DataHeld'
  BY <1>0, <1>1 DEF DataHeld, Exists, OnlyArtifact
<1>8. DataOk'
  <2>1. CASE o # Data
    BY <1>0, <1>3, <2>1 DEF DataOk, OnlyArtifact
  <2>2. CASE o = Data
    BY <1>0, <2>2 DEF DataOk, OnlyArtifact, Going
  <2> QED BY <2>1, <2>2
<1> QED BY <1>2, <1>4, <1>5, <1>6, <1>7, <1>8 DEF RowPart, RowsOk

\* The tables when only the dataset and its artifact change.
LEMMA DatasetMoves ==
  ASSUME PredictInv, UNCHANGED <<pred, proc, obj>>, NEW a \in Status,
         art' = [art EXCEPT ![Data] = a], data' \in Status,
         art[Data] \in Gone => a \in Gone, art[Data] \in Going => a \in Going,
         DataOk', DataHeld'
  PROVE  RowPart /\ \A p \in Keys : Calm(p)
<1>0. /\ TypeOK /\ RowsOk /\ OneComputation
      /\ pred \in [Keys -> Predictions] /\ proc \in [Keys -> ProcStates]
      /\ art \in [Owners -> Status] /\ obj \in [Owners -> ObjStates] /\ data \in Status
  BY Types DEF PredictInv
<1>1. Data \in Owners /\ Data \notin Keys /\ \A p \in Keys : p \in Owners
  BY PredictionAssumption DEF Owners
<1>2. RowTypes /\ art'[Data] = a /\ \A q \in Owners \ {Data} : art'[q] = art[q]
  BY <1>0, <1>1 DEF RowTypes
<1>3. \A p \in Keys : Good(p) /\ Calm(p)
  BY <1>0, <1>1, <1>2, SameRow DEF RowsOk
<1>4. \A q \in Owners : Kept(q)
  BY <1>2 DEF Kept
<1>5. OneComputation'
  BY <1>0 DEF OneComputation
<1> QED BY <1>2, <1>3, <1>4, <1>5 DEF RowPart, RowsOk, Good

\* The rest of a step in which a reconciliation moves.
LEMMA JobSide ==
  ASSUME PredictInv, RowPart, Up, Fine \/ Fault, UNCHANGED <<reg, user>>,
         NEW w \in Workers, job' \in [Workers -> Jobs],
         \A v \in Workers \ {w} : job'[v] = job[v], JobOk(w)'
  PROVE  SidePart
<1>0. TypeOK /\ UserOk /\ JobsOk
  BY DEF PredictInv
<1>1. UserOk'
  BY <1>0 DEF UserOk, RowPart, On
<1>2. JobsOk'
  <2>1. \A v \in Workers : job[v].of \in Owners
    BY <1>0 DEF TypeOK, Jobs
  <2>2. \A v \in Workers \ {w} : JobOk(v)'
    BY <1>0, <2>1 DEF JobsOk, JobOk, RowPart, Kept
  <2> QED BY <2>2 DEF JobsOk
<1>3. sys'.boot = sys.boot
  BY <1>0, SysStays
<1>4. BootOk'
  BY <1>3 DEF BootOk, Up
<1> QED BY <1>0, <1>1, <1>2, <1>4, Types, SysStays DEF SidePart

\* A step of a reconciliation.
LEMMA JobStep ==
  ASSUME PredictInv, RowPart, \A p \in Keys : Calm(p), Up, Fine \/ Fault,
         UNCHANGED <<call, cap, reg, user>>,
         NEW w \in Workers, job' \in [Workers -> Jobs],
         \A v \in Workers \ {w} : job'[v] = job[v], JobOk(w)'
  PROVE  StepOk
<1>1. SidePart
  BY JobSide
<1>2. CallPart
  BY NoCalls DEF RowPart
<1> QED BY <1>1, <1>2, Parts

\* Where a reconciliation goes.
LEMMA JobFacts ==
  ASSUME TypeOK, NEW w \in Workers
  PROVE  /\ job[w].of \in Owners
         /\ JobDone(w) => /\ job' \in [Workers -> Jobs] /\ JobOk(w)'
                          /\ \A v \in Workers \ {w} : job'[v] = job[v]
         /\ \A at \in {"read", "drop"} : JobGo(w, at) =>
              /\ job' \in [Workers -> Jobs] /\ job'[w].at = at /\ job'[w].of = job[w].of
              /\ \A v \in Workers \ {w} : job'[v] = job[v]
<1>1. job \in [Workers -> Jobs] /\ Data \in Owners
  BY Types DEF Owners
<1>2. NoJob \in Jobs /\ NoJob.at = "idle"
  BY <1>1 DEF NoJob, Jobs
<1>3. JobDone(w) => /\ job' \in [Workers -> Jobs] /\ JobOk(w)'
                    /\ \A v \in Workers \ {w} : job'[v] = job[v]
  BY <1>1, <1>2 DEF JobDone, JobOk
<1>4. \A at \in {"read", "drop"} : JobGo(w, at) =>
        /\ job' \in [Workers -> Jobs] /\ job'[w].at = at /\ job'[w].of = job[w].of
        /\ \A v \in Workers \ {w} : job'[v] = job[v]
  BY <1>1 DEF JobGo, Jobs
<1> QED BY <1>1, <1>3, <1>4 DEF Jobs

\* A dataset is uploaded, or uploaded again.
LEMMA UploadStep ==
  ASSUME PredictInv, Upload
  PROVE  StepOk
<1>0. /\ TypeOK /\ DataOk /\ DataHeld /\ Up /\ Fine
      /\ job \in [Workers -> Jobs] /\ art \in [Owners -> Status] /\ Data \in Owners
  BY Types DEF PredictInv, Upload, Owners, Fine
<1>1. UNCHANGED <<pred, call, cap, reg, proc, obj, user>>
  BY DEF Upload
<1>2. RowPart /\ \A p \in Keys : Calm(p)
  <2>1. CASE data = "none" /\ data' = "PENDING" /\ art' = [art EXCEPT ![Data] = "PENDING"]
    <3>1. "PENDING" \in Status /\ art[Data] \notin Gone /\ art[Data] \notin Going
      BY <1>0, <2>1 DEF Status, DataOk, Gone, Going
    <3>2. DataOk' /\ DataHeld'
      BY <1>0, <1>1, <2>1 DEF DataOk, DataHeld, Exists
    <3> QED BY <1>1, <2>1, <3>1, <3>2, DatasetMoves
  <2>2. CASE UNCHANGED <<data, art>>
    BY <1>1, <2>2, StillRows DEF Still
  <2> QED BY <2>1, <2>2 DEF Upload
<1>3. "upload" \in Workers /\ [at |-> "put", of |-> Data] \in Jobs
  BY <1>0 DEF Workers, Jobs
<1>4. PICK j \in Jobs : j = [at |-> "put", of |-> Data]
  BY <1>3
<1>5. job' = [job EXCEPT !["upload"] = j]
  BY <1>4 DEF Upload
<1>6. job'["upload"].at = "put"
  BY <1>0, <1>3, <1>4, <1>5
<1>7. /\ job' \in [Workers -> Jobs] /\ JobOk("upload")'
      /\ \A v \in Workers \ {"upload"} : job'[v] = job[v]
  BY <1>0, <1>5, <1>6 DEF JobOk
<1> QED BY <1>0, <1>1, <1>2, <1>3, <1>7, JobStep

\* The dataset is uploaded, or its upload is lost and may still arrive.
LEMMA UploadPutStep ==
  ASSUME PredictInv, UploadPut
  PROVE  StepOk
<1>0. /\ TypeOK /\ Up /\ (Fine \/ Fault) /\ "upload" \in Workers
      /\ art \in [Owners -> Status] /\ obj \in [Owners -> ObjStates] /\ Data \in Owners
  BY Types DEF PredictInv, UploadPut, Owners, Workers
<1>1. UNCHANGED <<pred, call, cap, reg, proc, art, data, user>>
  BY DEF UploadPut
<1>2. PICK b \in ObjStates :
        obj' = [obj EXCEPT ![Data] = b] /\ (b = "there" \/ b = obj[Data] \/ obj[Data] # "there")
  BY <1>0 DEF UploadPut, ObjStates
<1>3. OnlyArtifact(Data)
  BY <1>0, <1>1, <1>2 DEF OnlyArtifact
<1>4. RowPart /\ \A p \in Keys : Calm(p)
  BY <1>0, <1>3, ArtifactMoves
<1>5. /\ job' \in [Workers -> Jobs] /\ JobOk("upload")'
      /\ \A v \in Workers \ {"upload"} : job'[v] = job[v]
  BY <1>0, JobFacts DEF UploadPut, JobOk
<1> QED BY <1>0, <1>1, <1>4, <1>5, JobStep

\* A dataset that nothing was computed from is deleted.
LEMMA DeleteDataStep ==
  ASSUME PredictInv, DeleteData
  PROVE  StepOk
<1>0. /\ TypeOK /\ DataOk /\ Up /\ Fine
      /\ art \in [Owners -> Status] /\ Data \in Owners
  BY Types DEF PredictInv, DeleteData, Owners, Fine
<1>1. UNCHANGED <<pred, call, cap, reg, proc, obj, user, job>> /\ data' = "DELETING"
  BY DEF DeleteData
<1>2. PICK a : a = IF art[Data] = "DELETED" THEN art[Data] ELSE "DELETING"
  OBVIOUS
<1>3. a \in Going /\ a \in Status /\ a \in Gone
  BY <1>2 DEF Going, Gone, Status
<1>4. art' = [art EXCEPT ![Data] = a] /\ data' \in Status
  BY <1>0, <1>1, <1>2 DEF DeleteData, Status
<1>5. DataHeld'
  BY <1>1 DEF DeleteData, DataHeld, Exists
<1>6. DataOk'
  BY <1>0, <1>1, <1>3, <1>4 DEF DataOk, Going
<1>7. RowPart /\ \A p \in Keys : Calm(p)
  BY <1>1, <1>3, <1>4, <1>5, <1>6, DatasetMoves
<1>8. CallPart
  BY <1>1, <1>7, NoCalls DEF RowPart
<1> QED BY <1>0, <1>1, <1>7, <1>8, Types, UsualSide, Parts

\* A reconciliation looks at an artifact and its object.
LEMMA ReadStep ==
  ASSUME PredictInv, NEW w \in Workers, NEW o \in Owners, Read(w, o)
  PROVE  StepOk
<1>0. /\ TypeOK /\ Up /\ Fine
      /\ art \in [Owners -> Status] /\ obj \in [Owners -> ObjStates]
      /\ job \in [Workers -> Jobs] /\ Data \in Owners
  BY Types DEF PredictInv, Read, InJob, Fine, Owners
<1>1. UNCHANGED <<pred, call, cap, reg, proc, obj, data, user>>
  BY DEF Read
<1>2. PICK a : a = IF art[o] = "FAILED" THEN "DELETING" ELSE art[o]
  OBVIOUS
<1>3. /\ a \in Status
      /\ a = art[o] \/ (art[o] = "FAILED" /\ a = "DELETING")
      /\ art[o] \in Gone => a \in Going
  BY <1>0, <1>2 DEF Status, Gone, Going
<1>4. art' = [art EXCEPT ![o] = a] /\ art'[o] = a
  BY <1>0, <1>2 DEF Read
<1>5. OnlyArtifact(o)
  BY <1>0, <1>1, <1>3, <1>4 DEF OnlyArtifact
<1>6. RowPart /\ \A p \in Keys : Calm(p)
  BY <1>5, ArtifactMoves
<1>7. PICK at \in {"idle", "delete", "adopt", "refuse"} :
        /\ at = "delete" => art[o] \in Gone
        /\ at \in {"adopt", "refuse"} => obj[o] = "there"
        /\ job' = [job EXCEPT ![w] = IF at = "idle" THEN NoJob ELSE [at |-> at, of |-> o]]
  BY DEF Read, Gone
<1>8. PICK j : j = IF at = "idle" THEN NoJob ELSE [at |-> at, of |-> o]
  OBVIOUS
<1>9. j \in Jobs /\ j.at = at /\ (at # "idle" => j.of = o)
  BY <1>0, <1>8 DEF Jobs, NoJob
<1>10. job' = [job EXCEPT ![w] = j] /\ job'[w] = j
  BY <1>0, <1>7, <1>8
<1>11. /\ job' \in [Workers -> Jobs]
       /\ \A v \in Workers \ {w} : job'[v] = job[v]
  BY <1>0, <1>9, <1>10
<1>12. at = "delete" => art'[o] \in Going
  BY <1>3, <1>4, <1>7
<1>13. JobOk(w)'
  BY <1>1, <1>7, <1>9, <1>10, <1>12 DEF JobOk
<1> QED BY <1>0, <1>1, <1>6, <1>11, <1>13, JobStep

\* The object of an artifact that was given up is deleted.
LEMMA DeleteStep ==
  ASSUME PredictInv, NEW w \in Workers, Delete(w)
  PROVE  StepOk
<1>0. /\ TypeOK /\ JobOk(w) /\ Up /\ (Fine \/ Fault) /\ job[w].at = "delete"
      /\ art \in [Owners -> Status] /\ obj \in [Owners -> ObjStates]
  BY Types DEF PredictInv, JobsOk, Delete, InJob
<1>1. UNCHANGED <<pred, call, cap, reg, proc, art, data, user>>
  BY DEF Delete
<1>2. PICK o \in Owners : o = job[w].of
  BY <1>0, JobFacts
<1>3. art[o] \in Going
  BY <1>0, <1>2 DEF JobOk
<1>4. PICK b \in ObjStates : obj' = [obj EXCEPT ![o] = b] /\ b \in {obj[o], "none"}
  <2>1. CASE obj' = obj
    <3>1. obj' = [obj EXCEPT ![o] = obj[o]] /\ obj[o] \in ObjStates
      BY <1>0, <2>1
    <3> QED BY <3>1
  <2>2. CASE obj' = [obj EXCEPT ![Of(w)] = IF @ = "there" THEN "none" ELSE @]
    <3>1. PICK b : b = IF obj[o] = "there" THEN "none" ELSE obj[o]
      OBVIOUS
    <3>2. b \in ObjStates /\ b \in {obj[o], "none"}
      BY <1>0, <3>1 DEF ObjStates
    <3>3. obj' = [obj EXCEPT ![o] = b]
      BY <1>2, <2>2, <3>1 DEF Of
    <3> QED BY <3>2, <3>3
  <2> QED BY <2>1, <2>2 DEF Delete
<1>5. OnlyArtifact(o)
  BY <1>0, <1>1, <1>3, <1>4 DEF OnlyArtifact
<1>6. RowPart /\ \A p \in Keys : Calm(p)
  BY <1>5, ArtifactMoves
<1>7. CASE JobDone(w)
  BY <1>0, <1>1, <1>6, <1>7, JobFacts, JobStep
<1>8. CASE JobGo(w, "drop")
  <2>1. /\ job' \in [Workers -> Jobs] /\ job'[w].at = "drop" /\ job'[w].of = o
        /\ \A v \in Workers \ {w} : job'[v] = job[v]
    BY <1>0, <1>2, <1>8, JobFacts
  <2>2. JobOk(w)'
    BY <1>1, <1>3, <2>1 DEF JobOk
  <2> QED BY <1>0, <1>1, <1>6, <2>1, <2>2, JobStep
<1> QED BY <1>7, <1>8 DEF Delete

\* An artifact whose object was deleted is gone, and a dataset with it.
LEMMA DropStep ==
  ASSUME PredictInv, NEW w \in Workers, Drop(w)
  PROVE  StepOk
<1>0. /\ TypeOK /\ Up /\ Fine
      /\ art \in [Owners -> Status] /\ obj \in [Owners -> ObjStates]
  BY Types DEF PredictInv, Drop, InJob, Fine
<1>1. UNCHANGED <<pred, call, cap, reg, proc, obj, user>> /\ JobDone(w)
  BY DEF Drop
<1>2. PICK o \in Owners : o = job[w].of
  BY <1>0, JobFacts
<1>3. PICK a : a = IF art[o] = "DELETING" THEN "DELETED" ELSE art[o]
  OBVIOUS
<1>4. a \in Status /\ (a = art[o] \/ (art[o] = "DELETING" /\ a = "DELETED"))
  BY <1>0, <1>3 DEF Status
<1>5. art' = [art EXCEPT ![o] = a] /\ art'[o] = a
  BY <1>0, <1>2, <1>3 DEF Drop, Of
<1>6. data' = data \/ (o = Data /\ data = "DELETING" /\ data' = "DELETED")
  BY <1>2 DEF Drop, Of
<1>7. OnlyArtifact(o)
  BY <1>0, <1>1, <1>4, <1>5, <1>6 DEF OnlyArtifact
<1>8. RowPart /\ \A p \in Keys : Calm(p)
  BY <1>7, ArtifactMoves
<1> QED BY <1>0, <1>1, <1>8, JobFacts, JobStep

\* An upload arrives late.
LEMMA ArriveStep ==
  ASSUME PredictInv, NEW o \in Owners, Arrive(o)
  PROVE  StepOk
<1>0. /\ TypeOK /\ UserOk /\ JobsOk /\ BootOk
      /\ art \in [Owners -> Status] /\ obj \in [Owners -> ObjStates]
  BY Types DEF PredictInv
<1>1. UNCHANGED <<pred, call, cap, reg, proc, art, data, user, job, sys>>
  BY DEF Arrive
<1>2. OnlyArtifact(o)
  BY <1>0, <1>1 DEF OnlyArtifact, Arrive, ObjStates
<1>3. RowPart /\ \A p \in Keys : Calm(p)
  BY <1>2, ArtifactMoves
<1>4. CallPart
  BY <1>1, <1>3, NoCalls DEF RowPart
<1>5. UserOk' /\ BootOk'
  BY <1>0, <1>1, <1>3 DEF UserOk, BootOk, RowPart, On
<1>6. JobsOk'
  <2>1. \A w \in Workers : job[w].of \in Owners
    BY <1>0 DEF TypeOK, Jobs
  <2> QED BY <1>0, <1>1, <1>3, <2>1 DEF JobsOk, JobOk, RowPart, Kept
<1>7. SidePart
  BY <1>0, <1>1, <1>5, <1>6, Types DEF SidePart
<1> QED BY <1>3, <1>4, <1>7, Parts

\* What a reconciliation found sound is offered.
LEMMA AdoptStep ==
  ASSUME PredictInv, NEW w \in Workers, Adopt(w)
  PROVE  StepOk
<1>0. /\ TypeOK /\ JobOk(w) /\ DataOk /\ DataHeld /\ Up /\ Fine /\ job[w].at = "adopt"
      /\ art \in [Owners -> Status] /\ obj \in [Owners -> ObjStates] /\ Data \in Owners
      /\ data \in Status
  BY Types DEF PredictInv, JobsOk, Adopt, InJob, Fine, Owners
<1>1. UNCHANGED <<call, cap, reg, proc, obj, user>> /\ JobDone(w)
  BY DEF Adopt
<1>2. PICK o \in Owners : o = job[w].of
  BY <1>0, JobFacts
<1>3. obj[o] = "there" \/ art[o] \in Gone
  BY <1>0, <1>2 DEF JobOk
<1>4. RowPart /\ \A p \in Keys : Calm(p)
  <2>1. CASE o # Data
    <3>1. PICK p \in Keys : p = o
      BY <2>1 DEF Owners
    <3>2. RowOk(p) /\ AdoptTx(p) /\ data' = data /\ (obj[p] = "there" \/ art[p] \in Gone)
      BY <1>2, <1>3, <2>1, <3>1 DEF PredictInv, RowsOk, Adopt, Of
    <3>3. CASE Exists(p)
      <4>1. OnlyRow(p) /\ Good(p) /\ Calm(p)
        BY <1>0, <1>1, <3>2, <3>3, AdoptRow
      <4> QED BY <4>1, CalmRow
    <3>4. CASE ~Exists(p)
      BY <3>2, <3>4 DEF RowOk, Gone
    <3> QED BY <3>3, <3>4
  <2>2. CASE o = Data /\ ~DataPending
    <3>1. Still
      BY <1>1, <1>2, <2>2 DEF Adopt, Of, Still
    <3> QED BY <3>1, StillRows
  <2>3. CASE o = Data /\ DataPending
    <3>1. /\ pred' = pred /\ data' = "AVAILABLE"
          /\ art' = [art EXCEPT ![Data] = "AVAILABLE"]
      BY <1>2, <2>3 DEF Adopt, Of
    <3>2. "AVAILABLE" \in Status /\ art[Data] \notin Gone /\ art[Data] \notin Going
      BY <2>3 DEF Status, Gone, Going, DataPending
    <3>3. DataOk' /\ DataHeld'
      BY <1>0, <1>1, <1>3, <2>3, <3>1, <3>2 DEF DataOk, DataHeld
    <3> QED BY <1>1, <3>1, <3>2, <3>3, DatasetMoves
  <2> QED BY <2>1, <2>2, <2>3
<1> QED BY <1>0, <1>1, <1>4, JobFacts, JobStep

\* A result that the maintenance refuses: its artifact fails, and the prediction
\* with it once its process was stopped.
LEMMA RefuseRow ==
  ASSUME PredictInv, NEW p \in Keys, art[p] = "PENDING", art' = [art EXCEPT ![p] = "FAILED"],
         UNCHANGED <<proc, obj, data>>,
         pred' = IF pred[p].stopped THEN [pred EXCEPT ![p] = Finished(@, FALSE)] ELSE pred
  PROVE  OnlyRow(p) /\ Good(p) /\ Calm(p)
<1>0. /\ pred \in [Keys -> Predictions] /\ proc \in [Keys -> ProcStates]
      /\ art \in [Owners -> Status] /\ obj \in [Owners -> ObjStates] /\ data \in Status
      /\ p \in Owners /\ pred[p] \in Predictions /\ RowOk(p)
  BY Types DEF Owners, PredictInv, RowsOk
<1>1. PICK q : q = Finished(pred[p], FALSE)
  OBVIOUS
<1>2. /\ q \in Predictions
      /\ pred[p].st \in Terminal => q = pred[p]
      /\ pred[p].st \notin Terminal =>
           q.st \in {"FAILED", "CANCELLED"} /\ q.stopped /\ (q.cancel <=> pred[p].cancel \/ FALSE)
  <2>1. FALSE \in BOOLEAN
    OBVIOUS
  <2> QED BY <1>0, <1>1, <2>1, FinishedFacts
<1>3. PICK r \in Predictions : pred' = [pred EXCEPT ![p] = r] /\ r = IF pred[p].stopped THEN q ELSE pred[p]
  <2>1. CASE pred[p].stopped
    BY <1>1, <1>2, <2>1
  <2>2. CASE ~pred[p].stopped
    <3>1. pred' = [pred EXCEPT ![p] = pred[p]]
      BY <1>0, <2>2
    <3> QED BY <1>0, <2>2, <3>1
  <2> QED BY <2>1, <2>2
<1>4. /\ pred'[p] = r /\ art'[p] = "FAILED" /\ obj'[p] = obj[p] /\ proc'[p] = proc[p]
  BY <1>0, <1>3
<1>5. OnlyRow(p)
  BY <1>0, <1>3 DEF OnlyRow, RowTypes, Status
<1>6. Exists(p) /\ pred[p].st # "SUCCEEDED"
  BY <1>0 DEF RowOk
<1>7. /\ pred[p].cancel <=> r.cancel
      /\ pred[p].stopped <=> r.stopped
      /\ r.st # "none" /\ r.st # "SUCCEEDED"
  BY <1>0, <1>2, <1>3, <1>6, RowType DEF Exists, Terminal
<1>8. RowOk(p)'
  BY <1>0, <1>4, <1>7 DEF RowOk, Exists
<1>9. On(p) /\ Kept(p) /\ Calm(p)
  BY <1>4, <1>6, <1>7 DEF On, Kept, Calm, Exists, Gone, Going
<1> QED BY <1>5, <1>8, <1>9 DEF Good

\* What a check refuses is given up by the maintenance.
LEMMA RefuseStep ==
  ASSUME PredictInv, NEW w \in Workers, Refuse(w)
  PROVE  StepOk
<1>0. /\ TypeOK /\ DataOk /\ DataHeld /\ Up /\ Fine
      /\ art \in [Owners -> Status] /\ obj \in [Owners -> ObjStates] /\ Data \in Owners
      /\ data \in Status
  BY Types DEF PredictInv, Refuse, InJob, Fine, Owners
<1>1. UNCHANGED <<call, cap, reg, proc, obj, user>> /\ JobDone(w)
  BY DEF Refuse
<1>2. PICK o \in Owners : o = job[w].of
  BY <1>0, JobFacts
<1>3. CASE w = "upload" \/ art[o] # "PENDING"
  <2>1. Still
    BY <1>1, <1>2, <1>3 DEF Refuse, Of, Still
  <2> QED BY <1>0, <1>1, <2>1, StillRows, JobFacts, JobStep
<1>4. CASE w # "upload" /\ art[o] = "PENDING"
  <2>0. /\ art' = [art EXCEPT ![o] = "FAILED"]
        /\ data' = IF o = Data /\ data = "PENDING" THEN "FAILED" ELSE data
        /\ pred' = IF o \in Keys /\ pred[o].stopped
                     THEN [pred EXCEPT ![o] = Finished(@, FALSE)] ELSE pred
    BY <1>2, <1>4 DEF Refuse, Of
  <2>1. CASE o # Data
    <3>1. PICK p \in Keys : p = o
      BY <2>1 DEF Owners
    <3>2. /\ art[p] = "PENDING" /\ art' = [art EXCEPT ![p] = "FAILED"] /\ data' = data
          /\ pred' = IF pred[p].stopped THEN [pred EXCEPT ![p] = Finished(@, FALSE)] ELSE pred
      BY <1>4, <2>0, <2>1, <3>1
    <3>3. RowPart /\ \A q \in Keys : Calm(q)
      BY <1>1, <3>2, RefuseRow, CalmRow
    <3> QED BY <1>0, <1>1, <3>3, JobFacts, JobStep
  <2>2. CASE o = Data
    <3>1. Data \notin Keys
      BY PredictionAssumption
    <3>2. pred' = pred /\ data = "PENDING" /\ data' = "FAILED"
          /\ art' = [art EXCEPT ![Data] = "FAILED"]
      BY <1>0, <1>4, <2>0, <2>2, <3>1 DEF DataOk
    <3>3. "FAILED" \in Status /\ art[Data] \notin Gone /\ art[Data] \notin Going
      BY <1>4, <2>2 DEF Status, Gone, Going
    <3>4. DataOk' /\ DataHeld'
      BY <1>0, <1>1, <3>2 DEF DataOk, DataHeld, Exists
    <3>5. RowPart /\ \A p \in Keys : Calm(p)
      BY <1>1, <3>2, <3>3, <3>4, DatasetMoves
    <3> QED BY <1>0, <1>1, <3>5, JobFacts, JobStep
  <2> QED BY <2>1, <2>2
<1> QED BY <1>3, <1>4

-----------------------------------------------------------------------------
(* The process *)

\* The process ends: every call, cancellation and reconciliation with it.
LEMMA CrashStep ==
  ASSUME PredictInv, Crash
  PROVE  StepOk
<1>0. /\ TypeOK
      /\ sys \in [boot: BOOLEAN, requests: 0..MaxRequests, faults: 0..MaxFaults,
                  crashes: 0..MaxCrashes]
  BY Types DEF PredictInv
<1>1. /\ Still /\ call' = [c \in Calls |-> NoCall] /\ cap' = None
      /\ reg' = [p \in Keys |-> None] /\ user' = NoUser /\ job' = [w \in Workers |-> NoJob]
  BY DEF Crash, Still
<1>2. RowPart
  BY <1>1, StillRows
<1>3. CallPart
  <2>1. \A c \in Calls : call'[c].pc = "idle" /\ ~call'[c].owner
    BY <1>1, NoCallFacts
  <2>2. CallsOk'
    BY <2>1 DEF CallsOk, CallOk, Computing, Early
  <2>3. CallTypes
    BY <1>1, NoCallFacts DEF CallTypes
  <2> QED BY <2>2, <2>3 DEF CallPart
<1>4. sys' \in [boot: BOOLEAN, requests: 0..MaxRequests, faults: 0..MaxFaults,
                crashes: 0..MaxCrashes]
  <2>1. sys.crashes + 1 \in 0..MaxCrashes
    BY <1>0, PredictionAssumption DEF Crash
  <2>2. sys' = [sys EXCEPT !.boot = TRUE, !.crashes = sys.crashes + 1]
    BY DEF Crash
  <2>3. PICK k \in 0..MaxCrashes : k = sys.crashes + 1
    BY <2>1
  <2> QED BY <1>0, <2>2, <2>3
<1>5. SidePart
  <2>1. user'.pc = "idle" /\ user' \in [pc: {"idle", "asked", "finish"}, key: Keys \cup {None}]
    BY <1>1 DEF NoUser
  <2>2. NoJob \in Jobs /\ NoJob.at = "idle"
    BY DEF NoJob, Jobs, Owners
  <2>3. job' \in [Workers -> Jobs] /\ \A w \in Workers : job'[w].at = "idle"
    BY <1>1, <2>2
  <2>4. \A c \in Calls : call'[c].pc = "idle"
    BY <1>1, NoCallFacts
  <2>5. reg' \in [Keys -> Calls \cup {None}]
    BY <1>1
  <2>6. UserOk' /\ JobsOk' /\ BootOk'
    BY <2>1, <2>3, <2>4 DEF UserOk, JobsOk, JobOk, BootOk
  <2> QED BY <1>4, <2>1, <2>3, <2>5, <2>6 DEF SidePart
<1> QED BY <1>2, <1>3, <1>5, Parts

\* Before it serves again, the service ends or adopts what was left.
LEMMA RecoverStep ==
  ASSUME PredictInv, NEW p \in Keys, Recover(p)
  PROVE  StepOk
<1>0. /\ TypeOK /\ RowOk(p) /\ UserOk /\ JobsOk /\ BootOk /\ sys.boot /\ Exists(p)
      /\ proc \in [Keys -> ProcStates]
  BY Types DEF PredictInv, RowsOk, Recover
<1>1. UNCHANGED <<call, cap, reg, obj, data, user, job, sys>>
  BY DEF Recover
<1>2. proc' = [proc EXCEPT ![p] = "none"] /\ proc'[p] = "none"
  BY <1>0 DEF Recover
<1>3. OnlyRow(p) /\ Good(p)
  <2>1. CASE Resumable(p)
    BY <1>0, <1>1, <1>2, <2>1, AdoptRow DEF Recover
  <2>2. CASE ~Resumable(p)
    <3>1. FALSE \in BOOLEAN /\ FinishTx(p, FALSE)
      BY <2>2 DEF Recover
    <3> QED BY <1>0, <1>1, <1>2, <3>1, FinishRow
  <2> QED BY <2>1, <2>2
<1>4. RowPart
  BY <1>0, <1>2, <1>3, OneRow
<1>5. \A c \in Calls : call[c].pc = "idle" /\ call[c].pc \notin Computing
  BY <1>0 DEF BootOk, Computing, Early
<1>6. CallPart
  <2>1. CallsOk'
    BY <1>1, <1>4, <1>5, CallStays DEF CallsOk, RowPart
  <2> QED BY <1>0, <1>1, <2>1, Types DEF CallPart, CallTypes
<1>7. UserOk' /\ BootOk'
  BY <1>0, <1>1 DEF UserOk, BootOk
<1>8. JobsOk'
  BY <1>0, <1>1 DEF JobsOk, JobOk, BootOk
<1>9. SidePart
  BY <1>0, <1>1, <1>7, <1>8, Types DEF SidePart
<1> QED BY <1>4, <1>6, <1>9, Parts

\* The service is up.
LEMMA ServeStep ==
  ASSUME PredictInv, Serve
  PROVE  StepOk
<1>0. /\ TypeOK /\ UserOk /\ JobsOk
      /\ sys \in [boot: BOOLEAN, requests: 0..MaxRequests, faults: 0..MaxFaults,
                  crashes: 0..MaxCrashes]
  BY Types DEF PredictInv
<1>1. Still /\ UNCHANGED <<call, cap, reg, user, job>>
  BY DEF Serve, Still
<1>2. RowPart /\ \A p \in Keys : Calm(p)
  BY <1>1, StillRows
<1>3. CallPart
  BY <1>1, <1>2, NoCalls DEF RowPart
<1>4. /\ ~sys'.boot
      /\ sys' \in [boot: BOOLEAN, requests: 0..MaxRequests, faults: 0..MaxFaults,
                   crashes: 0..MaxCrashes]
  BY <1>0 DEF Serve
<1>5. UserOk' /\ JobsOk' /\ BootOk'
  BY <1>0, <1>1, <1>4 DEF UserOk, JobsOk, JobOk, BootOk, Still, Exists
<1>6. SidePart
  BY <1>0, <1>1, <1>4, <1>5, Types DEF SidePart
<1> QED BY <1>2, <1>3, <1>6, Parts

\* Nothing happens.
LEMMA IdleStep ==
  ASSUME PredictInv, UNCHANGED vars
  PROVE  StepOk
<1>0. TypeOK /\ UserOk /\ JobsOk /\ BootOk
  BY DEF PredictInv
<1>1. Still /\ UNCHANGED <<call, cap, reg, user, job, sys>>
  BY DEF vars, Still
<1>2. RowPart /\ \A p \in Keys : Calm(p)
  BY <1>1, StillRows
<1>3. CallPart
  BY <1>1, <1>2, NoCalls DEF RowPart
<1>4. UserOk' /\ JobsOk' /\ BootOk'
  BY <1>0, <1>1 DEF UserOk, JobsOk, JobOk, BootOk, Still, Exists
<1>5. SidePart
  BY <1>0, <1>1, <1>4, Types DEF SidePart
<1> QED BY <1>2, <1>3, <1>5, Parts

-----------------------------------------------------------------------------
(* The theorems *)

\* Every step of the service keeps the invariant, and leaves every prediction
\* what it must (Next).
LEMMA NextStep ==
  PredictInv /\ [Next]_vars => StepOk
<1> SUFFICES ASSUME PredictInv, [Next]_vars PROVE StepOk
  OBVIOUS
<1>1. CASE \E c \in Calls : CallNext(c)
  <2>1. PICK c \in Calls : CallNext(c)
    BY <1>1
  <2>2. CASE \E p \in Keys : Begin(c, p)
    BY <2>2, BeginStep
  <2>3. CASE Insert(c) \/ Register(c) \/ Prepare(c) \/ Start(c)
    BY <2>3, InsertStep, RegisterStep, PrepareStep, StartStep
  <2>4. CASE Release(c) \/ Wait(c) \/ StopProc(c) \/ Intent(c) \/ Put(c) \/ Publish(c)
    BY <2>4, ReleaseStep, WaitStep, StopStep, IntentStep, PutStep, PublishStep
  <2>5. CASE Finish(c) \/ Return(c) \/ Poll(c) \/ Lost(c) \/ Ask(c) \/ Clean(c) \/ CleanFinish(c)
    BY <2>5, FinishStep, ReturnStep, PollStep, LostStep, AskStep, CleanStep, CleanFinishStep
  <2> QED BY <2>1, <2>2, <2>3, <2>4, <2>5 DEF CallNext
<1>2. CASE UserNext
  BY <1>2, UserAskStep, UserTellStep, UserFinishStep DEF UserNext
<1>3. CASE DataNext
  BY <1>3, UploadStep, UploadPutStep, DeleteDataStep DEF DataNext
<1>4. CASE JobNext
  <2>1. CASE \E w \in Workers : \E o \in Owners : Read(w, o)
    BY <2>1, ReadStep
  <2>2. CASE \E w \in Workers : Delete(w) \/ Drop(w) \/ Adopt(w) \/ Refuse(w)
    BY <2>2, DeleteStep, DropStep, AdoptStep, RefuseStep
  <2> QED BY <1>4, <2>1, <2>2 DEF JobNext
<1>5. CASE ProcessNext
  BY <1>5, CrashStep, RecoverStep, ServeStep DEF ProcessNext
<1>6. CASE \E o \in Owners : Arrive(o)
  BY <1>6, ArriveStep
<1>7. CASE UNCHANGED vars
  BY <1>7, IdleStep
<1> QED BY <1>1, <1>2, <1>3, <1>4, <1>5, <1>6, <1>7 DEF Next

\* The service starts with nothing (Init).
LEMMA InitInv ==
  Init => PredictInv
<1> SUFFICES ASSUME Init PROVE PredictInv
  OBVIOUS
<1>1. /\ \A p \in Keys : pred[p] = NoPrediction /\ proc[p] = "none"
      /\ \A o \in Owners : art[o] = "none" /\ obj[o] = "none"
      /\ \A c \in Calls : call[c].pc = "idle" /\ ~call[c].owner
      /\ data = "none" /\ user.pc = "idle" /\ sys.boot = FALSE /\ cap = None
  BY NoCallFacts DEF Init, NoUser
<1>2. Data \in Owners /\ \A p \in Keys : p \in Owners /\ pred[p].st = "none" /\ ~pred[p].stopped
  BY <1>1 DEF Owners, NoPrediction
<1>3. \A w \in Workers : job[w].at = "idle"
  BY DEF Init, NoJob
<1>4. TypeOK
  <2>1. pred \in [Keys -> Predictions] /\ call \in [Calls -> CallStates]
    BY NoCallFacts DEF Init, Predictions, NoPrediction
  <2>2. NoJob \in Jobs /\ NoUser \in [pc: {"idle", "asked", "finish"}, key: Keys \cup {None}]
    BY <1>2 DEF NoJob, Jobs, NoUser
  <2>3. sys \in [boot: BOOLEAN, requests: 0..MaxRequests, faults: 0..MaxFaults,
                 crashes: 0..MaxCrashes]
    <3>1. 0 \in 0..MaxRequests /\ 0 \in 0..MaxFaults /\ 0 \in 0..MaxCrashes
      BY PredictionAssumption
    <3> QED BY <3>1 DEF Init
  <2> QED BY <1>1, <2>1, <2>2, <2>3 DEF TypeOK, Init, Status
<1>5. CallsOk
  BY <1>1 DEF CallsOk, CallOk, Computing, Early
<1>6. RowsOk
  BY <1>1, <1>2 DEF RowsOk, RowOk
<1>7. OneComputation /\ DataHeld /\ DataOk
  BY <1>1, <1>2 DEF OneComputation, DataHeld, DataOk, Exists
<1>8. UserOk /\ JobsOk /\ BootOk
  BY <1>1, <1>3 DEF UserOk, JobsOk, JobOk, BootOk
<1> QED BY <1>4, <1>5, <1>6, <1>7, <1>8 DEF PredictInv

\* The inductive invariant holds in every behaviour of the service, and with it
\* every variable keeps its type (prediction_application.py).
THEOREM PredictInvHolds == Spec => []PredictInv
<1>1. PredictInv /\ [Next]_vars => PredictInv'
  BY NextStep DEF StepOk
<1> QED BY <1>1, InitInv, PTL DEF Spec

\* A row that says its process was stopped has no process that computes, and at
\* most one prediction computes, through lost acknowledgements, unconfirmed stops
\* and restarts (_execute_prediction, recover_predictions).
THEOREM OneChildHolds == Spec => []OneChild
<1>1. PredictInv => OneChild
  BY DEF PredictInv, OneChild, RowsOk, RowOk, StoppedIsDead
<1> QED BY <1>1, PredictInvHolds, PTL

\* A prediction that succeeded has its result in the store, one that ended
\* otherwise leaves nothing that could become available, and a dataset is whole
\* while it is offered and stays while it is used (_finish_prediction,
\* reconcile_prediction, upload_dataset, delete_dataset).
THEOREM ObjectsStayWhole == Spec => []ObjectsAreWhole
<1>1. PredictInv => ObjectsAreWhole
  BY DEF PredictInv, ObjectsAreWhole, ResultIsWhole, DatasetsAreSafe, DataIsWhole,
         RowsOk, RowOk, DataOk
<1> QED BY <1>1, PredictInvHolds, PTL

\* A cancellation that was accepted keeps a prediction from succeeding, and only
\* its user or the call that created it cancels a prediction (CallCancellation).
THEOREM CancelsAreKept == Spec => CancelIsKept
<1> DEFINE A ==
      \A p \in Keys :
        /\ pred[p].cancel /\ pred'[p].st = "SUCCEEDED" => pred[p].st = "SUCCEEDED"
        /\ pred'[p].cancel /\ ~pred[p].cancel =>
             \/ user'.pc = "asked" /\ user'.key = p
             \/ \E c \in Calls : call[c].key = p /\ call[c].made /\ call[c].event
<1>1. PredictInv /\ [Next]_vars => [A]_vars
  BY NextStep DEF StepOk, On, Cause
<1> HIDE DEF A
<1>2. Spec => [][A]_vars
  BY <1>1, PredictInvHolds, PTL DEF Spec
<1> QED BY <1>2, Zenon DEF CancelIsKept, A
=============================================================================
