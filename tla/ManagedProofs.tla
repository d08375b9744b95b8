---------------------------- MODULE ManagedProofs ----------------------------
(***************************************************************************)
(* Theorems about module ManagedRun, for every number of calls, stops,     *)
(* failed transactions and process exits: no computation runs twice, the   *)
(* selection is whole, what a call reports is its settled outcome, and     *)
(* what has ended stays as it ended.                                       *)
(***************************************************************************)
EXTENDS ManagedRun, FiniteSetTheorems, TLAPS

-----------------------------------------------------------------------------
(* The inductive invariant *)

\* The rows of the task and of its attempts.  Attempts are numbered without a
\* gap, in the order of their calls; an active attempt is the last one, of a
\* running task, ahead of the selection; what is selected has ended.
WholeRows ==
  /\ WholeTask(Task)
  /\ \A a \in Attempts :
       /\ WholeRun(Run(a))
       /\ Run(a).st = "none" => Run(a).out = "none"
       /\ Run(a).cut => Run(a).st = "FAILED" /\ Run(a).res = "none"
       /\ Run(a).res # "none" => Run(a).st = Run(a).res /\ Run(a).out = Run(a).res
       /\ Run(a).st \in Successes => Run(a).res = Run(a).st

Numbered ==
  /\ \E n \in 0..MaxCalls : Made = 1..n
  /\ \A a \in Made : Run(a).call \in Calls /\ a <= Run(a).call
  /\ \A a, b \in Made : a < b => Run(a).call < Run(b).call
  /\ 1 \in Made => Run(1).call = 1

Selected ==
  /\ \A a \in Active : Task.st = "RUNNING" /\ Task.run < a /\ a = Latest
  /\ Task.run \in Made \cup {None}
  /\ Task.run = None => Latest <= 1
  /\ Task.run # None =>
       /\ Run(Task.run).st \in Outcomes
       /\ Task.res = None => Run(Task.run).st = "FAILED" /\ Run(Task.run).res = "none"
  /\ Task.res # None => Task.run = Task.res /\ Run(Task.res).res # "none"
  /\ Task.st \in Outcomes /\ ~Cut => Task.run # None /\ Run(Task.run).st = Task.st
  /\ Cut => Task.st = "FAILED" /\ Task.run < Latest
  /\ Latest # None /\ Run(Latest).res # "none" =>
       Task.res = Latest /\ Task.st = Run(Latest).res

\* The conversation: a call is admitted when the earlier ones have ended, and a
\* second one when the first has failed.
Chain ==
  \A c \in Calls : call[c].st # "none" =>
    /\ \A d \in Calls : d < c => call[d].st # "none" /\ Ended(d)
    /\ c # 1 => call[1].obs = "FAILED"

\* The runtime.
Requested ==
  /\ \A a \in Attempts : Run(a).st = "none" => req[a] = "none" /\ sends[a] = 0
  /\ \A a, b \in Computing : a = b

\* Between the failure of an attempt and its selection nothing else is in
\* progress.
Selecting ==
  \A c \in Calls : At(c, "select") =>
    /\ Task.st = "RUNNING" /\ Active = {} /\ Own(c) = Latest
    /\ \A d \in Calls : At(d, "select") => c = d

Running == {"invoke", "wait", "record", "assets", "assetfail", "result", "failrun"}
Computed == {"record", "assets", "assetfail", "result", "failrun"}
Driving == {"mark", "create", "start", "select", "final", "finfail", "finunk"} \cup Running
Closed == {"SUCCEEDED", "FAILED", "DENIED", "OUTCOME_UNKNOWN"}

\* The outcome of an attempt cannot change any more, and is not that of an
\* interruption.
Known(r, q, s) ==
  q \notin {"way", "run"} /\ (s = 0 \/ (r.st # "RUNNING" /\ ~r.cut))

\* One call, from its own state alone: its thread t, the agent's record k, its
\* Invocation i, the number of its attempt, and of that the row r, the request q
\* and the number of computations s.
Thread1(c, t, k, i, own, r, q, s) ==
  /\ t.pc # "idle" => k.st = "fenced" /\ k.obs = "none"
  /\ t.pc = "claim" => i.st = "PENDING"
  /\ t.pc \in Driving => i.st = "RUNNING"
  /\ t.pc = "mark" => ~i.sent
  /\ t.pc \in {"create", "start", "invoke"} => i.sent
  /\ t.pc = "create" => c = 1
  /\ t.pc \in {"claim", "mark", "create"} /\ c = 1 => own = None
  /\ t.pc \in {"start", "select", "final"} \cup Running => own # None
  /\ t.pc \in {"start", "invoke"} => q = "none"
  /\ t.pc \in Running => r.st = "RUNNING"
  /\ t.pc \in {"invoke", "wait", "record"} => r.out = "none"
  /\ t.pc \in {"record", "assets", "result"} => t.out \in Outcomes
  /\ t.pc \in {"assets", "result"} => r.out = t.out
  /\ t.pc \in Computed => q \in {"none", "gone"}
  /\ t.pc = "select" => r.st = "FAILED" /\ ~r.cut /\ r.res = "none"
  /\ t.pc = "final" => r.res # "none"
  /\ t.pc = "finfail" /\ own # None => Known(r, q, s)
  /\ t.pc = "end" => i.st \in Closed
  /\ t.pc = "end" /\ i.st # "OUTCOME_UNKNOWN" /\ own # None => Known(r, q, s)

Call1(c, t, k, i, own, r, q, s) ==
  /\ k.st = "none" => i.st = "none" /\ own = None /\ k.obs = "none" /\ ~k.stopped
  /\ k.st = "prep" => i.st \in {"none", "PENDING"} /\ ~k.stopped /\ (c = 1 => own = None)
  /\ k.st = "fenced" => i.st # "none"
  /\ k.obs # "none" => k.st = "fenced"
  /\ i.st \in {"none", "PENDING"} => ~i.sent
  /\ i.st = "none" => i.run = None
  /\ i.st \notin {"SUCCEEDED", "FAILED"} => i.run \in {None, own}
  /\ c # 1 /\ i.st # "none" => own # None /\ i.run # None

Attempt1(c, t, k, i, own, r, q, s) ==
  own # None =>
    /\ s <= 1
    /\ q \in {"none", "way"} => s = 0
    /\ q # "none" => r.st # "PENDING" /\ i.sent
    /\ r.st \in Outcomes /\ ~r.cut => q \notin {"way", "run"}

Outcome1(c, t, k, i, own, r, q, s) ==
  /\ own # None /\ (i.st = "FAILED" \/ k.obs \in {"FAILED", "closed"}) => Known(r, q, s)
  /\ own # None /\ i.run \notin {None, own} => Known(r, q, s)
  /\ ~k.stopped =>
       /\ i.run # None => i.run = own
       /\ own # None /\ i.st = "SUCCEEDED" => r.res \in Successes
       /\ own # None /\ i.st = "FAILED" => r.res \notin Successes
       /\ k.obs \in Successes => own # None /\ r.res = k.obs
       /\ k.obs = "FAILED" /\ own # None => r.st = "FAILED"
  /\ k.obs \in Observed /\ t.pc = "idle" => i.st \notin {"RUNNING", "OUTCOME_UNKNOWN"}

Local(c, t, k, i, own, r, q, s) ==
  /\ Thread1(c, t, k, i, own, r, q, s)
  /\ Call1(c, t, k, i, own, r, q, s)
  /\ Attempt1(c, t, k, i, own, r, q, s)
  /\ Outcome1(c, t, k, i, own, r, q, s)

Sound(c) ==
  Local(c, w[c], call[c], Inv(c), Own(c), Run(Own(c)), req[Own(c)], sends[Own(c)])

Dbs == [task: Tasks, run: [Attempts -> Runs], inv: [Calls -> Invocations]]
Types ==
  /\ db \in Dbs
  /\ call \in [Calls -> CallStates]
  /\ w \in [Calls -> Workers]
  /\ req \in [Attempts -> Requests]
  /\ sends \in [Attempts -> Nat]
  /\ sys \in [faults: 0..MaxFaults, crashes: 0..MaxCrashes]

Rows == WholeRows /\ Numbered /\ Selected

ManagedInv ==
  /\ Types /\ Rows /\ Chain /\ Requested /\ Selecting
  /\ \A c \in Calls : Sound(c)

\* The step of TerminalIsKept.
Kept ==
  /\ \A a \in Attempts :
       /\ Run(a).st \in Outcomes => db'.run[a] = Run(a)
       /\ Run(a).out # "none" => db'.run[a].out = Run(a).out
  /\ \A c \in Calls :
       Inv(c).st \in {"SUCCEEDED", "FAILED", "DENIED"} => db'.inv[c] = Inv(c)
  /\ Task.run <= db'.task.run
  /\ Task.st = "SUCCEEDED" => db'.task = Task

-----------------------------------------------------------------------------
(* Attempts and calls *)

\* The rows by field.
LEMMA DbFields ==
  ASSUME db \in Dbs
  PROVE  /\ Task \in Tasks
         /\ \A a \in Attempts : Run(a) \in Runs
         /\ \A c \in Calls : Inv(c) \in Invocations
         /\ db.run \in [Attempts -> Runs] /\ db.inv \in [Calls -> Invocations]
         /\ db = [task |-> db.task, run |-> db.run, inv |-> db.inv]
  BY Zenon DEF Dbs, Task, Run, Inv

\* The number of the last attempt.
LEMMA LatestFacts ==
  ASSUME Numbered
  PROVE  /\ Latest \in Nat /\ Made = 1..Latest /\ Latest <= MaxCalls
         /\ Made = {} <=> Latest = 0
<1>1. PICK n \in 0..MaxCalls : Made = 1..n
  BY Zenon DEF Numbered
<1>2. CASE n = 0
  BY <1>1, <1>2, ManagedAssumption DEF Latest, None
<1>3. CASE n # 0
  <2>1. n \in Made /\ \A b \in Made : b <= n
    BY <1>1, <1>3, ManagedAssumption
  <2>2. \E a \in Made : \A b \in Made : b <= a
    BY <2>1
  <2>3. Latest \in Made /\ \A b \in Made : b <= Latest
    BY <2>1, <2>2, Zenon DEF Latest
  <2>4. Latest = n
    BY <2>1, <2>3, <1>1, ManagedAssumption
  <2> QED BY <2>4, <1>1, <1>3, ManagedAssumption
<1> QED BY <1>2, <1>3

\* A call has one attempt at most (reserve_retry_attempt: once per idempotency key).
LEMMA OneCall ==
  ASSUME Numbered
  PROVE  /\ \A a \in Made : Run(a).call \in Calls /\ a \in Attempts /\ a # None
         /\ \A a, b \in Made : Run(a).call = Run(b).call => a = b
<1>1. \A a \in Made : Run(a).call \in Calls /\ a \in Attempts /\ a # None
  BY DEF Made, Numbered, Attempts, None
<1> SUFFICES ASSUME NEW a \in Made, NEW b \in Made, Run(a).call = Run(b).call
             PROVE  a = b
  BY <1>1, Zenon
<1>2. ~(a < b) /\ ~(b < a)
  <2>1. \A i \in Calls : ~(i < i)
    BY ManagedAssumption DEF Calls
  <2> QED BY <1>1, <2>1, Zenon DEF Numbered
<1>3. a \in Int /\ b \in Int
  BY <1>1, ManagedAssumption DEF Attempts
<1> QED BY <1>2, <1>3

\* The attempt of a call is a row that names it.
LEMMA OwnFacts ==
  ASSUME Numbered, NEW c \in Calls
  PROVE  /\ Own(c) # None => Own(c) \in Made /\ Run(Own(c)).call = c
         /\ \A a \in Made : Run(a).call = c => a = Own(c)
         /\ Own(c) \in Attempts \cup {None}
<1>1. CASE \E a \in Made : Run(a).call = c
  <2>1. Own(c) \in Made /\ Run(Own(c)).call = c
    BY <1>1, Zenon DEF Own
  <2> QED BY <2>1, OneCall, Zenon
<1>2. CASE ~\E a \in Made : Run(a).call = c
  BY <1>2, Zenon DEF Own
<1> QED BY <1>1, <1>2, Zenon

\* The attempt in progress.
LEMMA ActiveFacts ==
  ASSUME Selected
  PROVE  \A a \in Active : Active = {a} /\ a = Latest /\ Task.st = "RUNNING" /\ a \in Attempts
  BY Zenon DEF Selected, Active

\* Calls that find their attempt again.
LEMMA OwnKept ==
  ASSUME Numbered, Made' = Made, \A a \in Made : Run(a)'.call = Run(a).call,
         NEW c \in Calls
  PROVE  Own(c)' = Own(c)
<1>1. CASE \E a \in Made : Run(a).call = c
  <2>1. PICK a \in Made : Run(a).call = c
    BY <1>1
  <2>2. \E b \in Made' : Run(b)'.call = c
    BY <2>1, Zenon
  <2>3. PICK b \in Made' : b = Own(c)' /\ Run(b)'.call = c
    BY <2>2, Zenon DEF Own
  <2>4. b \in Made /\ Run(b).call = c
    BY <2>3, Zenon
  <2> QED BY <2>3, <2>4, OwnFacts, Zenon
<1>2. CASE ~\E a \in Made : Run(a).call = c
  <2>1. ~\E a \in Made' : Run(a)'.call = c
    BY <1>2, Zenon
  <2> QED BY <1>2, <2>1, Zenon DEF Own
<1> QED BY <1>1, <1>2, Zenon

\* A call of which nothing changes stays sound.
LEMMA Frame ==
  ASSUME NEW d \in Calls, Sound(d), Own(d) \in Attempts \cup {None},
         w'[d] = w[d], call'[d] = call[d], Inv(d)' = Inv(d), Own(d)' = Own(d),
         \A a \in Attempts : a = Own(d) =>
           Run(a)' = Run(a) /\ req'[a] = req[a] /\ sends'[a] = sends[a]
  PROVE  Sound(d)'
<1>1. CASE Own(d) = None
  <2> DEFINE t == w[d]  k == call[d]  i == Inv(d)
  <2>1. Local(d, t, k, i, None, Run(Own(d)), req[Own(d)], sends[Own(d)])
    BY <1>1, Zenon DEF Sound
  <2>2. ASSUME NEW r, NEW q, NEW s
        PROVE  Local(d, t, k, i, None, r, q, s)
    <3>1. Thread1(d, t, k, i, None, r, q, s)
      BY <2>1 DEF Local, Thread1, Running, Computed
    <3>2. Call1(d, t, k, i, None, r, q, s) /\ Attempt1(d, t, k, i, None, r, q, s)
      BY <2>1, Zenon DEF Local, Call1, Attempt1
    <3>3. Outcome1(d, t, k, i, None, r, q, s)
      BY <2>1, Zenon DEF Local, Outcome1
    <3> QED BY <3>1, <3>2, <3>3, Zenon DEF Local
  <2> QED BY <1>1, <2>2, Zenon DEF Sound
<1>2. CASE Own(d) \in Attempts
  <2>1. PICK a \in Attempts : a = Own(d)
    BY <1>2
  <2>2. Local(d, w[d], call[d], Inv(d), a, Run(a), req[a], sends[a])
    BY <2>1, Zenon DEF Sound
  <2>3. Local(d, w'[d], call'[d], Inv(d)', a, Run(a)', req'[a], sends'[a])
    BY <2>1, <2>2, Zenon
  <2> QED BY <2>1, <2>3, Zenon DEF Sound
<1> QED BY <1>1, <1>2, Zenon

\* What is said of the task and its attempts depends on their rows alone.
LEMMA RowsSame ==
  ASSUME Rows, db'.task = db.task, db'.run = db.run
  PROVE  /\ Rows' /\ Made' = Made /\ Active' = Active /\ Latest' = Latest /\ Task' = Task
         /\ \A a \in Attempts : Run(a)' = Run(a)
         /\ \A c \in Calls : Own(c)' = Own(c)
<1>1. Task' = Task /\ \A a : Run(a)' = Run(a)
  BY Zenon DEF Task, Run
<1>2. Made' = Made /\ Active' = Active
  BY <1>1, Zenon DEF Made, Active
<1>3. Latest' = Latest
  BY <1>2 DEF Latest
<1>4. Cut' = Cut
  <2>1. db'.run[Latest'] = db.run[Latest]
    BY <1>3, Zenon
  <2> QED BY <1>3, <2>1, Zenon DEF Cut, Run
<1>5. \A c \in Calls : Own(c)' = Own(c)
  BY <1>1, <1>2, OwnKept, Zenon DEF Rows
<1>6. WholeRows'
  BY <1>1, Zenon DEF WholeRows, Rows
<1>7. Numbered'
  BY <1>1, <1>2, Zenon DEF Numbered, Rows
<1>8. Selected'
  BY <1>2, <1>3, <1>4, Zenon DEF Selected, Rows, Task, Run
<1> QED BY <1>1, <1>2, <1>3, <1>5, <1>6, <1>7, <1>8, Zenon DEF Rows

-----------------------------------------------------------------------------
(* Steps of one call that leave the attempts and the task alone *)

\* A write of one Invocation.
LEMMA InvWritten ==
  ASSUME db \in Dbs, NEW c \in Calls, NEW i \in Invocations
  PROVE  LET n == [db EXCEPT !.inv[c] = i]
         IN  n \in Dbs /\ n.task = db.task /\ n.run = db.run /\ n.inv = [db.inv EXCEPT ![c] = i]
  BY DbFields DEF Dbs

\* The same, or none.
LEMMA MaybeWritten ==
  ASSUME db \in Dbs, NEW c \in Calls, NEW i \in Invocations,
         \/ db' = [db EXCEPT !.inv[c] = i]
         \/ db' = db /\ i = Inv(c)
  PROVE  /\ db' \in Dbs /\ db'.task = db.task /\ db'.run = db.run
         /\ db'.inv = [db.inv EXCEPT ![c] = i]
  BY InvWritten, DbFields, Zenon DEF Inv

\* The agent's record: the conversation is as before.
LEMMA ChainStep ==
  ASSUME Chain, NEW c \in Calls, NEW k \in CallStates, call \in [Calls -> CallStates],
         call' = [call EXCEPT ![c] = k], call[c].st # "none", k.st # "none",
         Ended(c) => k.st = "over" \/ k.obs \in Observed \/ k.stopped,
         call[c].obs = "FAILED" => k.obs = "FAILED"
  PROVE  Chain'
<1>1. \A d \in Calls : call'[d] = IF d = c THEN k ELSE call[d]
  OBVIOUS
<1>2. \A d \in Calls : (call'[d].st # "none" <=> call[d].st # "none") /\ (Ended(d) => Ended(d)')
                       /\ (call[d].obs = "FAILED" => call'[d].obs = "FAILED")
  BY <1>1, Zenon DEF Ended
<1>3. 1 \in Calls
  BY ManagedAssumption DEF Calls
<1> QED BY <1>2, <1>3, Zenon DEF Chain

\* A step of c that ends with Invocation i, thread t and record k.
StepTo(c, t, k, i) ==
  /\ db' \in Dbs /\ db'.task = db.task /\ db'.run = db.run /\ db'.inv = [db.inv EXCEPT ![c] = i]
  /\ w' = [w EXCEPT ![c] = t]
  /\ call' = [call EXCEPT ![c] = k]
  /\ req' = req /\ sends' = sends
  /\ sys' \in [faults: 0..MaxFaults, crashes: 0..MaxCrashes]
\* What may change.
MayTurn(c, t, k, i) ==
  /\ Local(c, t, k, i, Own(c), Run(Own(c)), req[Own(c)], sends[Own(c)])
  /\ t.pc # "select"
  /\ Inv(c).st \in {"SUCCEEDED", "FAILED", "DENIED"} => i = Inv(c)
  /\ call[c].st # "none" /\ k.st # "none"
  /\ Ended(c) => k.st = "over" \/ k.obs \in Observed \/ k.stopped
  /\ call[c].obs = "FAILED" => k.obs = "FAILED"

\* A step of one call that leaves the task and the attempts alone keeps the
\* invariant when the call itself stays sound.
LEMMA CoreStep ==
  ASSUME ManagedInv,
         NEW c \in Calls, NEW i \in Invocations, NEW t \in Workers, NEW k \in CallStates,
         StepTo(c, t, k, i), Chain', t.pc = "select" => At(c, "select"),
         Local(c, t, k, i, Own(c), Run(Own(c)), req[Own(c)], sends[Own(c)]),
         Inv(c).st \in {"SUCCEEDED", "FAILED", "DENIED"} => i = Inv(c)
  PROVE  ManagedInv' /\ Kept
<1>0. Types /\ Rows /\ Chain /\ Requested /\ Selecting /\ (\A d \in Calls : Sound(d))
  BY Zenon DEF ManagedInv
<1>1. /\ Rows' /\ Made' = Made /\ Active' = Active /\ Latest' = Latest /\ Task' = Task
      /\ \A a \in Attempts : Run(a)' = Run(a)
      /\ \A d \in Calls : Own(d)' = Own(d)
  BY <1>0, RowsSame, Zenon DEF StepTo
<1>2. req' = req /\ sends' = sends
  BY DEF StepTo
<1>3. /\ \A d \in Calls : w'[d] = IF d = c THEN t ELSE w[d]
      /\ \A d \in Calls : call'[d] = IF d = c THEN k ELSE call[d]
      /\ \A d \in Calls : Inv(d)' = IF d = c THEN i ELSE Inv(d)
  BY <1>0, DbFields DEF Types, Inv, StepTo
<1>4. Types'
  BY <1>0, <1>2 DEF Types, StepTo
<1>6. Requested'
  <2>1. Computing' = Computing
    BY <1>2, Zenon DEF Computing
  <2>2. \A a \in Attempts : Run(a)' = Run(a) /\ req'[a] = req[a] /\ sends'[a] = sends[a]
    BY <1>1, <1>2, Zenon
  <2> QED BY <1>0, <2>1, <2>2, Zenon DEF Requested
<1>7. Selecting'
  BY <1>0, <1>1, <1>3 DEF Selecting, At
<1>8. ASSUME NEW d \in Calls PROVE Sound(d)'
  <2>1. CASE d = c
    <3>1. (Run(Own(c)))' = Run(Own(c))
      BY <1>1, Zenon DEF Run, StepTo
    <3>2. w'[c] = t /\ call'[c] = k /\ Inv(c)' = i /\ Own(c)' = Own(c)
      BY <1>1, <1>3, Zenon
    <3>3. req'[Own(c)'] = req[Own(c)] /\ sends'[Own(c)'] = sends[Own(c)]
      BY <1>2, <3>2, Zenon
    <3> QED BY <2>1, <3>1, <3>2, <3>3, Zenon DEF Sound
  <2>2. CASE d # c
    BY <2>2, <1>0, <1>1, <1>2, <1>3, Frame, OwnFacts, Zenon DEF Rows
  <2> QED BY <2>1, <2>2, Zenon
<1>9. Kept
  <2>1. Task.run <= Task.run
    BY <1>0, DbFields DEF Types, Tasks, Attempts, None
  <2> QED BY <1>1, <1>3, <2>1, Zenon DEF Kept, Task, Run, Inv
<1> QED BY <1>1, <1>4, <1>6, <1>7, <1>8, <1>9, Zenon DEF ManagedInv

\* The same, when the record of the call is as final as before.
LEMMA InvStep ==
  ASSUME ManagedInv,
         NEW c \in Calls, NEW i \in Invocations, NEW t \in Workers, NEW k \in CallStates,
         StepTo(c, t, k, i), MayTurn(c, t, k, i)
  PROVE  ManagedInv' /\ Kept
<1>1. Chain'
  BY ChainStep, Zenon DEF ManagedInv, Types, StepTo, MayTurn
<1> QED BY <1>1, CoreStep, Zenon DEF MayTurn

-----------------------------------------------------------------------------
(* The thread of a call *)

\* A call of which everything is named.
Fits(c, t, k, i) ==
  Local(c, t, k, i, Own(c), Run(Own(c)), req[Own(c)], sends[Own(c)])
\* A thread that goes to pc.
To(pc) == [pc |-> pc, try |-> 1, out |-> "none"]

\* Where a thread goes.
LEMMA ToFacts ==
  /\ \A pc \in WorkPc : To(pc) \in Workers /\ To(pc).pc = pc
  /\ \A c, pc : Go(c, pc) = [w EXCEPT ![c] = To(pc)]
<1>1. \A pc : [Idle EXCEPT !.pc = pc] = To(pc)
  BY DEF Idle, To
<1>2. \A c, pc : Go(c, pc) = [w EXCEPT ![c] = To(pc)]
  BY <1>1, Zenon DEF Go
<1>3. \A pc \in WorkPc : To(pc) \in Workers
  BY DEF To, Workers, MaxTries
<1> QED BY <1>2, <1>3 DEF To

\* A step of a thread that writes its Invocation, or not.
LEMMA DriveStep ==
  ASSUME ManagedInv, NEW c \in Calls, NEW i \in Invocations, NEW t \in Workers,
         ~At(c, "idle"),
         \/ db' = [db EXCEPT !.inv[c] = i]
         \/ db' = db /\ i = Inv(c),
         w' = [w EXCEPT ![c] = t], call' = call, UNCHANGED gpuVars,
         sys' \in [faults: 0..MaxFaults, crashes: 0..MaxCrashes],
         Fits(c, t, call[c], i), t.pc # "select",
         Inv(c).st \in {"SUCCEEDED", "FAILED", "DENIED"} => i = Inv(c)
  PROVE  ManagedInv' /\ Kept
<1>1. db \in Dbs /\ call[c] \in CallStates /\ call \in [Calls -> CallStates]
  BY Zenon DEF ManagedInv, Types
<1>2. /\ db' \in Dbs /\ db'.task = db.task /\ db'.run = db.run
      /\ db'.inv = [db.inv EXCEPT ![c] = i]
  BY <1>1, MaybeWritten, Zenon
<1>3. call' = [call EXCEPT ![c] = call[c]]
  BY <1>1, Zenon
<1>4. call[c].st = "fenced"
  <2>1. Sound(c)
    BY Zenon DEF ManagedInv
  <2> QED BY <2>1, Zenon DEF Sound, Local, Thread1, At
<1>5. call[c].st # "none" /\ (Ended(c) => call[c].st = "over" \/ call[c].obs \in Observed \/ call[c].stopped)
  BY <1>4, Zenon DEF Ended
<1>6. MayTurn(c, t, call[c], i)
  BY <1>5, Zenon DEF MayTurn, Fits
<1>7. StepTo(c, t, call[c], i)
  BY <1>2, <1>3, Zenon DEF StepTo, gpuVars
<1> QED BY <1>1, <1>6, <1>7, InvStep

\* The count of failed transactions stays in its bound.
LEMMA FaultFacts ==
  ASSUME Types
  PROVE  /\ sys' = sys => sys' \in [faults: 0..MaxFaults, crashes: 0..MaxCrashes]
         /\ Fault => sys' \in [faults: 0..MaxFaults, crashes: 0..MaxCrashes]
  BY ManagedAssumption DEF Types, Fault

\* A transaction of a thread that writes its Invocation.
LEMMA TxStep ==
  ASSUME ManagedInv, NEW c \in Calls, NEW i \in Invocations, NEW t \in WorkPc, NEW b \in WorkPc,
         ~At(c, "idle"), t # "select", b # "select",
         Tx(c, [db EXCEPT !.inv[c] = i], Go(c, t), Go(c, b)), call' = call, UNCHANGED gpuVars,
         Fits(c, To(t), call[c], i), Fits(c, To(b), call[c], i), Fits(c, To(b), call[c], Inv(c)),
         Inv(c).st \in {"SUCCEEDED", "FAILED", "DENIED"} => i = Inv(c)
  PROVE  ManagedInv' /\ Kept
<1>1. Inv(c) \in Invocations /\ Types
  BY DbFields, Zenon DEF ManagedInv, Types
<1>2. CASE db' = [db EXCEPT !.inv[c] = i] /\ w' = Go(c, t) /\ sys' = sys
  BY <1>1, <1>2, FaultFacts, ToFacts, DriveStep, Zenon
<1>3. CASE Fault /\ db' \in {db, [db EXCEPT !.inv[c] = i]} /\ w' = Go(c, b)
  BY <1>1, <1>3, FaultFacts, ToFacts, DriveStep, Zenon
<1> QED BY <1>2, <1>3, Zenon DEF Tx

\* A step of a thread that writes nothing.
LEMMA GoStep ==
  ASSUME ManagedInv, NEW c \in Calls, NEW t \in WorkPc, ~At(c, "idle"), t # "select",
         w' = Go(c, t), UNCHANGED <<db, call, sys, gpuVars>>, Fits(c, To(t), call[c], Inv(c))
  PROVE  ManagedInv' /\ Kept
<1>1. Inv(c) \in Invocations /\ Types
  BY DbFields, Zenon DEF ManagedInv, Types
<1> QED BY <1>1, FaultFacts, ToFacts, DriveStep, Zenon

\* The Invocation with another status.
LEMMA StatusFacts ==
  ASSUME db \in Dbs, NEW c \in Calls,
         NEW st \in {"PENDING", "RUNNING", "SUCCEEDED", "FAILED", "DENIED", "OUTCOME_UNKNOWN"}
  PROVE  LET i == [Inv(c) EXCEPT !.st = st]
         IN  /\ [db EXCEPT !.inv[c].st = st] = [db EXCEPT !.inv[c] = i]
             /\ i \in Invocations /\ i.st = st /\ i.sent = Inv(c).sent /\ i.run = Inv(c).run
<1>1. Inv(c) \in Invocations
  BY DbFields, Zenon
<1> QED BY <1>1, Zenon DEF Inv, Invocations

\* The claim of the Invocation, or its denial.
LEMMA ClaimStep ==
  ASSUME ManagedInv, NEW c \in Calls, Claim(c)
  PROVE  ManagedInv' /\ Kept
<1>1. db \in Dbs /\ Fits(c, w[c], call[c], Inv(c)) /\ At(c, "claim")
  BY Zenon DEF ManagedInv, Types, Sound, Fits, Claim
<1>2. Inv(c).st = "PENDING"
  BY <1>1, Zenon DEF Fits, Local, Thread1, At
<1> DEFINE r == [Inv(c) EXCEPT !.st = "RUNNING"]  n == [Inv(c) EXCEPT !.st = "DENIED"]
<1>3. /\ r \in Invocations /\ r.st = "RUNNING" /\ r.sent = Inv(c).sent /\ r.run = Inv(c).run
      /\ n \in Invocations /\ n.st = "DENIED" /\ n.sent = Inv(c).sent /\ n.run = Inv(c).run
  BY <1>1, StatusFacts, Zenon
<1>4. /\ To("mark").pc = "mark" /\ To("lost").pc = "lost" /\ To("end").pc = "end"
  BY ToFacts, Zenon DEF WorkPc
<1> HIDE DEF r, n
<1>5. /\ Fits(c, To("mark"), call[c], r) /\ Fits(c, To("lost"), call[c], r)
      /\ Fits(c, To("end"), call[c], n) /\ Fits(c, To("lost"), call[c], n)
      /\ Fits(c, To("lost"), call[c], Inv(c))
  BY <1>1, <1>2, <1>3, <1>4 DEF Fits, Local, Thread1, Call1, Attempt1, Outcome1, Known, Driving, Running, Computed, Closed, At
<1>6. ~At(c, "idle")
  BY <1>1, Zenon DEF At
<1>7. CASE Tx(c, [db EXCEPT !.inv[c] = r], Go(c, "mark"), Go(c, "lost"))
  BY <1>2, <1>3, <1>5, <1>6, <1>7, TxStep, Zenon DEF WorkPc, Claim
<1>8. CASE Tx(c, [db EXCEPT !.inv[c] = n], Go(c, "end"), Go(c, "lost"))
  BY <1>2, <1>3, <1>5, <1>6, <1>8, TxStep, Zenon DEF WorkPc, Claim
<1> QED BY <1>1, <1>2, <1>7, <1>8, StatusFacts, Zenon DEF Claim, r, n

\* dispatch_started_at is written before anything is sent.
LEMMA MarkStep ==
  ASSUME ManagedInv, NEW c \in Calls, Mark(c)
  PROVE  ManagedInv' /\ Kept
<1>1. db \in Dbs /\ Fits(c, w[c], call[c], Inv(c)) /\ At(c, "mark")
  BY Zenon DEF ManagedInv, Types, Sound, Fits, Mark
<1>2. Inv(c).st = "RUNNING" /\ Inv(c) \in Invocations
  BY <1>1, DbFields, Zenon DEF Fits, Local, Thread1, At, Driving
<1> DEFINE i == [Inv(c) EXCEPT !.sent = TRUE]
           next == IF c = 1 THEN "create" ELSE "start"
<1>3. i \in Invocations /\ i.st = Inv(c).st /\ i.sent = TRUE /\ i.run = Inv(c).run
  BY <1>2 DEF Invocations
<1>4. /\ To("create").pc = "create" /\ To("start").pc = "start" /\ To("lost").pc = "lost"
  BY ToFacts, Zenon DEF WorkPc
<1>5. Tx(c, [db EXCEPT !.inv[c] = i], Go(c, next), Go(c, "lost")) /\ call' = call /\ UNCHANGED gpuVars
  BY <1>2, Zenon DEF Mark, Inv
<1> HIDE DEF i
<1>6. c = 1 => Own(c) = None
  BY <1>1, Zenon DEF Fits, Local, Thread1, At
<1>7. /\ Fits(c, To(next), call[c], i) /\ Fits(c, To("lost"), call[c], i)
      /\ Fits(c, To("lost"), call[c], Inv(c))
  BY <1>1, <1>2, <1>3, <1>4, <1>6 DEF Fits, Local, Thread1, Call1, Attempt1, Outcome1, Known, Driving, Running, Computed, Closed, At
<1> QED BY <1>1, <1>2, <1>3, <1>5, <1>7, TxStep, Zenon DEF WorkPc, At

\* The fields of an attempt, and how its status, output and result agree.
LEMMA RowFacts ==
  ASSUME ManagedInv, NEW a \in Attempts
  PROVE  /\ Run(a) \in Runs /\ WholeRun(Run(a))
         /\ Run(a).st \in {"none", "PENDING", "RUNNING"} \cup Outcomes
         /\ Run(a).out \in Outcomes \cup {"none"} /\ Run(a).res \in Outcomes \cup {"none"}
         /\ Run(a).cut \in BOOLEAN /\ Run(a).call \in Calls \cup {None}
         /\ Run(a).cut => Run(a).st = "FAILED" /\ Run(a).res = "none"
         /\ Run(a).res # "none" => Run(a).st = Run(a).res /\ Run(a).out = Run(a).res
         /\ Run(a).st \in Successes => Run(a).res = Run(a).st
         /\ a \in Made <=> Run(a).st # "none"
<1>1. Run(a) \in Runs
  BY DbFields, Zenon DEF ManagedInv, Types
<1>2. /\ WholeRun(Run(a))
      /\ Run(a).cut => Run(a).st = "FAILED" /\ Run(a).res = "none"
      /\ Run(a).res # "none" => Run(a).st = Run(a).res /\ Run(a).out = Run(a).res
      /\ Run(a).st \in Successes => Run(a).res = Run(a).st
  BY Zenon DEF ManagedInv, Rows, WholeRows
<1>3. a \in Made <=> Run(a).st # "none"
  BY Zenon DEF Made
<1>4. /\ Run(a).st \in {"none", "PENDING", "RUNNING"} \cup Outcomes
      /\ Run(a).out \in Outcomes \cup {"none"} /\ Run(a).res \in Outcomes \cup {"none"}
      /\ Run(a).cut \in BOOLEAN /\ Run(a).call \in Calls \cup {None}
  BY <1>1 DEF Runs
<1> QED BY <1>1, <1>2, <1>3, <1>4, Zenon

\* The fields of the task, and the numbering of its attempts.
LEMMA TaskFacts ==
  ASSUME ManagedInv
  PROVE  /\ Task \in Tasks
         /\ Task.st \in {"none", "READY", "RUNNING"} \cup Outcomes
         /\ Task.run \in Made \cup {None} /\ Task.res \in Made \cup {None}
         /\ Task.run \in Attempts \cup {None} /\ Task.res \in Attempts \cup {None}
         /\ Latest \in Nat /\ Made = 1..Latest /\ Latest <= MaxCalls /\ Made \subseteq Attempts
         /\ Made = {} <=> Latest = None
<1>1. Task \in Tasks
  BY DbFields, Zenon DEF ManagedInv, Types
<1>2. /\ Latest \in Nat /\ Made = 1..Latest /\ Latest <= MaxCalls
      /\ Made = {} <=> Latest = None
  BY LatestFacts, Zenon DEF ManagedInv, Rows, None
<1>3. Task.run \in Made \cup {None} /\ (Task.res # None => Task.run = Task.res)
  BY Zenon DEF ManagedInv, Rows, Selected
<1>4. Made \subseteq Attempts
  BY DEF Made
<1> QED BY <1>1, <1>2, <1>3, <1>4 DEF Tasks

\* A call after which none was submitted has the last attempt.
LEMMA LastCall ==
  ASSUME ManagedInv, NEW c \in Calls, call[c].st = "fenced",
         \A d \in Calls : c < d => call[d].st = "none"
  PROVE  Own(c) = Latest
<1>1. \A d \in Calls : Local(d, w[d], call[d], Inv(d), Own(d), Run(Own(d)), req[Own(d)], sends[Own(d)])
  BY Zenon DEF ManagedInv, Sound
<1>2. \A d \in Calls : c < d => Own(d) = None
  BY <1>1, Zenon DEF Local, Call1
<1>3. c # 1 => Own(c) # None
  BY <1>1, Zenon DEF Local, Call1
<1>4. Numbered
  BY Zenon DEF ManagedInv, Rows
<1>5. \A a \in Made : Run(a).call \in Calls /\ Own(Run(a).call) = a /\ a # None
  BY <1>4, OneCall, OwnFacts, Zenon
<1>6. \A a \in Made : ~(c < Run(a).call)
  BY <1>2, <1>5, Zenon
<1>7. CASE Latest = None
  <2>1. Made = {}
    BY <1>7, TaskFacts, Zenon
  <2> QED BY <1>4, <1>7, <2>1, OwnFacts, Zenon
<1>8. CASE Latest # None
  <2>1. Latest \in Made /\ \A a \in Made : a <= Latest /\ a \in Nat
    BY <1>8, TaskFacts DEF None
  <2>2. CASE Run(Latest).call = c
    BY <2>1, <2>2, <1>5, Zenon
  <2>3. CASE Run(Latest).call # c
    <3>1. Run(Latest).call < c /\ c # 1
      BY <2>1, <2>3, <1>5, <1>6, ManagedAssumption DEF Calls
    <3>2. Own(c) \in Made /\ Run(Own(c)).call = c
      BY <3>1, <1>3, <1>4, OwnFacts, Zenon
    <3>3. Own(c) = Latest \/ Own(c) < Latest
      BY <2>1, <3>2
    <3>4. Own(c) < Latest => c < Run(Latest).call
      BY <2>1, <3>2, <1>4, Zenon DEF Numbered
    <3> QED BY <3>2, <3>3, <3>4, <2>1, <1>6, Zenon
  <2> QED BY <2>2, <2>3
<1> QED BY <1>7, <1>8

\* In particular one at work that was not stopped, and the first one until it has
\* failed.
LEMMA AtWork ==
  ASSUME ManagedInv, NEW c \in Calls, call[c].st = "fenced", call[c].obs \notin Observed,
         ~call[c].stopped \/ c = 1
  PROVE  Own(c) = Latest
<1>1. \A d \in Calls : call[d].st # "none" =>
        /\ \A e \in Calls : e < d => call[e].st # "none" /\ Ended(e)
        /\ d # 1 => call[1].obs = "FAILED"
  BY Zenon DEF ManagedInv, Chain
<1>2. CASE c = 1
  <2>1. call[1].obs # "FAILED"
    BY <1>2 DEF Observed, Outcomes
  <2>2. \A d \in Calls : c < d => d # 1
    BY <1>2 DEF Calls
  <2> QED BY <1>1, <2>1, <2>2, LastCall, Zenon
<1>3. CASE ~call[c].stopped
  <2>1. ~Ended(c)
    BY <1>3 DEF Ended
  <2> QED BY <1>1, <2>1, LastCall, Zenon
<1> QED BY <1>2, <1>3

\* What has a result is settled.
LEMMA ResultIsKnown ==
  ASSUME ManagedInv, NEW c \in Calls, Own(c) # None, Run(Own(c)).st \in Outcomes, ~Run(Own(c)).cut
  PROVE  Known(Run(Own(c)), req[Own(c)], sends[Own(c)])
<1>1. Attempt1(c, w[c], call[c], Inv(c), Own(c), Run(Own(c)), req[Own(c)], sends[Own(c)])
  BY Zenon DEF ManagedInv, Sound, Local
<1>2. req[Own(c)] \notin {"way", "run"}
  BY <1>1, Zenon DEF Attempt1
<1>3. Run(Own(c)).st # "RUNNING"
  BY DEF Outcomes, Successes
<1> QED BY <1>2, <1>3, Zenon DEF Known

\* _finalize_unknown.
LEMMA FinUnknownStep ==
  ASSUME ManagedInv, NEW c \in Calls, FinUnknown(c)
  PROVE  ManagedInv' /\ Kept
<1>1. db \in Dbs /\ Fits(c, w[c], call[c], Inv(c)) /\ At(c, "finunk")
  BY Zenon DEF ManagedInv, Types, Sound, Fits, FinUnknown
<1>2. Inv(c).st = "RUNNING"
  BY <1>1, Zenon DEF Fits, Local, Thread1, At, Driving
<1> DEFINE i == [Inv(c) EXCEPT !.st = "OUTCOME_UNKNOWN"]
<1>3. i \in Invocations /\ i.st = "OUTCOME_UNKNOWN" /\ i.sent = Inv(c).sent /\ i.run = Inv(c).run
  BY <1>1, StatusFacts, Zenon
<1>4. To("lost").pc = "lost" /\ To("end").pc = "end"
  BY ToFacts, Zenon DEF WorkPc
<1>5. Tx(c, [db EXCEPT !.inv[c] = i], Go(c, "end"), Go(c, "lost")) /\ call' = call /\ UNCHANGED gpuVars
  BY <1>1, <1>2, StatusFacts, Zenon DEF FinUnknown
<1> HIDE DEF i
<1>6. /\ Fits(c, To("end"), call[c], i) /\ Fits(c, To("lost"), call[c], i)
      /\ Fits(c, To("lost"), call[c], Inv(c))
  BY <1>1, <1>2, <1>3, <1>4 DEF Fits, Local, Thread1, Call1, Attempt1, Outcome1, Known, Driving, Running, Computed, Closed, At, Observed, Outcomes, Successes
<1> QED BY <1>1, <1>2, <1>3, <1>5, <1>6, TxStep, Zenon DEF WorkPc, At

\* Two fields of an Invocation.
Named(c, st, a) == [db EXCEPT !.inv[c].st = st, !.inv[c].run = a]
\* Status and attempt of an Invocation, in one write.
LEMMA TwoWritten ==
  ASSUME db \in Dbs, NEW c \in Calls
  PROVE  \A st, a : Named(c, st, a) =
                      [db EXCEPT !.inv[c] = [st |-> st, run |-> a, sent |-> Inv(c).sent]]
<1> SUFFICES ASSUME NEW st, NEW a
             PROVE  Named(c, st, a) =
                    [db EXCEPT !.inv[c] = [st |-> st, run |-> a, sent |-> Inv(c).sent]]
  BY Zenon
<1> DEFINE j == [Inv(c) EXCEPT !.st = st]
           d == [db EXCEPT !.inv[c] = j]
           i == [st |-> st, run |-> a, sent |-> Inv(c).sent]
<1>0. [j EXCEPT !.run = a] = i
  <2>1. Inv(c) = [st |-> Inv(c).st, run |-> Inv(c).run, sent |-> Inv(c).sent]
    BY DbFields DEF Invocations
  <2>2. j = [st |-> st, run |-> Inv(c).run, sent |-> Inv(c).sent]
    BY <2>1
  <2> HIDE DEF j
  <2> QED BY <2>2
<1>1. db = [task |-> db.task, run |-> db.run, inv |-> db.inv] /\ db.inv \in [Calls -> Invocations]
  BY DbFields, Zenon
<1>2. d = [task |-> db.task, run |-> db.run, inv |-> [db.inv EXCEPT ![c] = j]]
  BY <1>1
<1> HIDE DEF j, i
<1>3. d.inv[c] = j /\ [d.inv EXCEPT ![c] = i] = [db.inv EXCEPT ![c] = i]
  BY <1>1, <1>2
<1>4. [d EXCEPT !.inv[c].run = a] = [d EXCEPT !.inv[c] = i]
  BY <1>0, <1>3, Zenon
<1>5. [d EXCEPT !.inv = [db.inv EXCEPT ![c] = i]] = [db EXCEPT !.inv = [db.inv EXCEPT ![c] = i]]
  BY <1>1, <1>2
<1>6. [db EXCEPT !.inv[c].st = st, !.inv[c].run = a] = [d EXCEPT !.inv[c].run = a]
  BY Zenon DEF j, Inv
<1> QED BY <1>3, <1>4, <1>5, <1>6, Zenon DEF i, Named

\* A failure names the last attempt, which for a call at work is its own.
LEMMA FinFailStep ==
  ASSUME ManagedInv, NEW c \in Calls, FinFail(c)
  PROVE  ManagedInv' /\ Kept
<1>1. db \in Dbs /\ Fits(c, w[c], call[c], Inv(c)) /\ At(c, "finfail")
  BY Zenon DEF ManagedInv, Types, Sound, Fits, FinFail
<1>2. /\ Inv(c).st = "RUNNING" /\ Inv(c) \in Invocations
      /\ call[c].st = "fenced" /\ call[c].obs = "none"
  BY <1>1, DbFields, Zenon DEF Fits, Local, Thread1, At, Driving
<1> DEFINE st == FailedStatus(c)
           i == [st |-> st, run |-> Latest, sent |-> Inv(c).sent]
<1>3. st \in {"SUCCEEDED", "FAILED"}
  BY Zenon DEF FailedStatus, Status
<1>4. Latest \in Attempts \cup {None} /\ (Own(c) # None => Latest # None)
  <2>1. Own(c) # None => Made # {}
    BY OwnFacts, Zenon DEF ManagedInv, Rows
  <2> QED BY <2>1, TaskFacts DEF Attempts, None
<1>5. i \in Invocations /\ i.st = st /\ i.sent = Inv(c).sent /\ i.run = Latest
  BY <1>2, <1>3, <1>4 DEF Invocations
<1>6. [db EXCEPT !.inv[c].st = st, !.inv[c].run = Latest] = [db EXCEPT !.inv[c] = i]
  <2>1. Named(c, st, Latest) = [db EXCEPT !.inv[c] = i]
    BY <1>1, TwoWritten
  <2> QED BY <2>1, Zenon DEF Named
<1>7. ~call[c].stopped => Own(c) = Latest
  BY <1>2, AtWork DEF Observed, Outcomes, Successes
<1>8. /\ Own(c) = Latest /\ Own(c) # None /\ st = "SUCCEEDED" => Run(Own(c)).res \in Successes
      /\ Own(c) = Latest /\ Own(c) # None /\ st = "FAILED" => Run(Own(c)).res \notin Successes
  BY <1>4, RowFacts DEF FailedStatus, Status, Outcomes, Successes
<1>9. To("lost").pc = "lost" /\ To("end").pc = "end"
  BY ToFacts, Zenon DEF WorkPc
<1>10. Tx(c, [db EXCEPT !.inv[c] = i], Go(c, "end"), Go(c, "lost")) /\ call' = call /\ UNCHANGED gpuVars
  BY <1>2, <1>6, Zenon DEF FinFail
<1> HIDE DEF i, st
<1>11. /\ Fits(c, To("end"), call[c], i) /\ Fits(c, To("lost"), call[c], i)
       /\ Fits(c, To("lost"), call[c], Inv(c))
  BY <1>1, <1>2, <1>3, <1>4, <1>5, <1>7, <1>8, <1>9 DEF Fits, Local, Thread1, Call1, Attempt1, Outcome1, Driving, Running, Computed, Closed, At, Observed, Outcomes, Successes
<1> QED BY <1>1, <1>2, <1>5, <1>10, <1>11, TxStep, Zenon DEF WorkPc, At

FinalStatus(c) ==
  IF c = 1 THEN Status(Run(Task.res).res = "FAILED")
  ELSE Status(Task.run # Own(c) \/ Task.st = "FAILED")

FinalWrite(c, st, a) == [db EXCEPT !.inv[c].st = st, !.inv[c].run = IF c = 1 THEN a ELSE @]

\* What Final writes.
LEMMA FinalWritten ==
  ASSUME db \in Dbs, NEW c \in Calls
  PROVE  \A st, a : FinalWrite(c, st, a) =
                      Named(c, st, IF c = 1 THEN a ELSE Inv(c).run)
<1> SUFFICES ASSUME NEW st, NEW a
             PROVE  FinalWrite(c, st, a) =
                      Named(c, st, IF c = 1 THEN a ELSE Inv(c).run)
  BY Zenon
<1> DEFINE j == [Inv(c) EXCEPT !.st = st]
<1>1. db = [task |-> db.task, run |-> db.run, inv |-> db.inv] /\ db.inv \in [Calls -> Invocations]
      /\ Inv(c) = [st |-> Inv(c).st, run |-> Inv(c).run, sent |-> Inv(c).sent]
  BY DbFields DEF Invocations
<1>2. j.run = Inv(c).run
  BY <1>1
<1> HIDE DEF j
<1>3. [db EXCEPT !.inv[c] = j].inv[c].run = Inv(c).run
  BY <1>1, <1>2
<1> QED BY <1>3, Zenon DEF j, Inv, Named, FinalWrite

\* The Invocation takes the status of the result that the task selects.
LEMMA FinalStep ==
  ASSUME ManagedInv, NEW c \in Calls, Final(c)
  PROVE  ManagedInv' /\ Kept
<1>1. db \in Dbs /\ Fits(c, w[c], call[c], Inv(c)) /\ At(c, "final")
  BY Zenon DEF ManagedInv, Types, Sound, Fits, Final
<1>2. /\ Inv(c).st = "RUNNING" /\ Inv(c) \in Invocations
      /\ call[c].st = "fenced" /\ call[c].obs = "none"
      /\ Own(c) # None /\ Run(Own(c)).res # "none"
  BY <1>1, DbFields, Zenon DEF Fits, Local, Thread1, At, Driving
<1> DEFINE st == FinalStatus(c)
           a == IF c = 1 THEN Task.run ELSE Inv(c).run
           i == [st |-> st, run |-> a, sent |-> Inv(c).sent]
<1>3. st \in {"SUCCEEDED", "FAILED"}
  BY Zenon DEF FinalStatus, Status
<1>4. a \in Attempts \cup {None}
  BY <1>2, TaskFacts DEF Invocations
<1>5. i \in Invocations /\ i.st = st /\ i.sent = Inv(c).sent /\ i.run = a
  BY <1>2, <1>3, <1>4 DEF Invocations
<1>6. Tx(c, [db EXCEPT !.inv[c] = i], Go(c, "end"), Go(c, "lost")) /\ call' = call /\ UNCHANGED gpuVars
  <2>1. FinalWrite(c, st, Task.run) = Named(c, st, a)
    BY <1>1, FinalWritten
  <2>2. Named(c, st, a) = [db EXCEPT !.inv[c] = i]
    BY <1>1, TwoWritten
  <2> HIDE DEF i
  <2>3. Tx(c, FinalWrite(c, st, Task.run), Go(c, "end"), Go(c, "lost"))
        /\ call' = call /\ UNCHANGED gpuVars
    BY <1>2, Zenon DEF Final, FinalStatus, FinalWrite
  <2> HIDE DEF st, a
  <2> QED BY <2>1, <2>2, <2>3, Zenon
\* The result of the last attempt is the one that is selected.
<1>7. ~call[c].stopped \/ c = 1 =>
        /\ Task.run = Own(c) /\ Task.res = Own(c) /\ Task.st = Run(Own(c)).res
        /\ Own(c) = Latest
  <2> SUFFICES ASSUME ~call[c].stopped \/ c = 1
               PROVE  /\ Task.run = Own(c) /\ Task.res = Own(c) /\ Task.st = Run(Own(c)).res
                      /\ Own(c) = Latest
    OBVIOUS
  <2>1. PICK l : l = Latest /\ l = Own(c)
    BY <1>2, AtWork DEF Observed, Outcomes, Successes
  <2>2. l # None /\ Run(l).res # "none"
    BY <1>2, <2>1, Zenon
  <2>3. Task.res = l /\ Task.st = Run(l).res /\ Task.run = l
    BY <2>1, <2>2, Zenon DEF ManagedInv, Rows, Selected
  <2> QED BY <2>1, <2>3, Zenon
<1>8. /\ Own(c) \in Attempts /\ Run(Own(c)).res \in Outcomes
      /\ Known(Run(Own(c)), req[Own(c)], sends[Own(c)])
  <2>1. Own(c) \in Attempts
    BY <1>2, OwnFacts, Zenon DEF ManagedInv, Rows
  <2>2. Run(Own(c)).res \in Outcomes /\ Run(Own(c)).st \in Outcomes /\ ~Run(Own(c)).cut
    BY <1>2, <2>1, RowFacts
  <2> QED BY <1>2, <2>1, <2>2, ResultIsKnown, Zenon
<1>9. ~call[c].stopped =>
        /\ a = Own(c) \/ a = Inv(c).run
        /\ st = "SUCCEEDED" => Run(Own(c)).res \in Successes
        /\ st = "FAILED" => Run(Own(c)).res \notin Successes
  BY <1>7, <1>8 DEF FinalStatus, Status, Outcomes, Successes
<1>10. c = 1 => a = Own(c)
  BY <1>7
<1>11. c # 1 => a = Inv(c).run
  OBVIOUS
<1>12. To("lost").pc = "lost" /\ To("end").pc = "end"
  BY ToFacts, Zenon DEF WorkPc
<1> HIDE DEF i, st, a
<1>13. /\ Fits(c, To("end"), call[c], i) /\ Fits(c, To("lost"), call[c], i)
       /\ Fits(c, To("lost"), call[c], Inv(c))
  BY <1>1, <1>2, <1>3, <1>5, <1>8, <1>9, <1>10, <1>11, <1>12 DEF Fits, Local, Thread1, Call1, Attempt1, Outcome1, Driving, Running, Computed, Closed, At, Observed, Outcomes, Successes
<1> QED BY <1>1, <1>2, <1>5, <1>6, <1>13, TxStep, Zenon DEF WorkPc, At

\* A thread that goes on with its output.
With(pc, out) == [pc |-> pc, try |-> 1, out |-> out]

\* A thread that keeps the output in hand.
LEMMA HoldFacts ==
  ASSUME w \in [Calls -> Workers], NEW c \in Calls, NEW pc \in WorkPc
  PROVE  /\ Hold(c, pc) = [w EXCEPT ![c] = With(pc, w[c].out)]
         /\ With(pc, w[c].out) \in Workers
         /\ With(pc, w[c].out).pc = pc /\ With(pc, w[c].out).out = w[c].out
<1> DEFINE u == [w[c] EXCEPT !.pc = pc]
<1>1. w[c] = [pc |-> w[c].pc, try |-> w[c].try, out |-> w[c].out] /\ w[c].out \in Outcomes \cup {"none"}
  BY DEF Workers
<1>2. [u EXCEPT !.try = 1] = With(pc, w[c].out)
  <2>1. u = [pc |-> pc, try |-> w[c].try, out |-> w[c].out]
    BY <1>1
  <2> HIDE DEF u
  <2> QED BY <2>1 DEF With
<1> HIDE DEF u
<1>3. [w EXCEPT ![c] = u][c] = u
  OBVIOUS
<1>4. [[w EXCEPT ![c] = u] EXCEPT ![c] = With(pc, w[c].out)] = [w EXCEPT ![c] = With(pc, w[c].out)]
  OBVIOUS
<1>5. Hold(c, pc) = [[w EXCEPT ![c] = u] EXCEPT ![c] = [@ EXCEPT !.try = 1]]
  BY Zenon DEF Hold, u
<1>6. Hold(c, pc) = [w EXCEPT ![c] = With(pc, w[c].out)]
  BY <1>2, <1>3, <1>4, <1>5, Zenon
<1> QED BY <1>1, <1>6 DEF With, Workers, MaxTries

\* create_from_output leaves the rows of the run alone.
LEMMA SaveAssetsStep ==
  ASSUME ManagedInv, NEW c \in Calls, SaveAssets(c)
  PROVE  ManagedInv' /\ Kept
<1>1. db \in Dbs /\ Fits(c, w[c], call[c], Inv(c)) /\ At(c, "assets")
      /\ w \in [Calls -> Workers] /\ Types /\ Inv(c) \in Invocations
  BY DbFields, Zenon DEF ManagedInv, Types, Sound, Fits, SaveAssets
<1>2. To("finunk").pc = "finunk" /\ To("assetfail").pc = "assetfail"
  BY ToFacts, Zenon DEF WorkPc
<1> DEFINE h == With("result", w[c].out)
<1>3. Hold(c, "result") = [w EXCEPT ![c] = h] /\ h \in Workers /\ h.pc = "result" /\ h.out = w[c].out
  BY <1>1, HoldFacts, Zenon DEF WorkPc
<1> HIDE DEF h
<1>5. /\ Fits(c, To("finunk"), call[c], Inv(c)) /\ Fits(c, To("assetfail"), call[c], Inv(c))
      /\ Fits(c, h, call[c], Inv(c))
  BY <1>1, <1>2, <1>3 DEF Fits, Local, Thread1, Call1, Attempt1, Outcome1, Driving, Running, Computed, Closed, At, Known
<1>6. ~At(c, "idle")
  BY <1>1, Zenon DEF At
<1>7. CASE w' = Hold(c, "result")
  <2>1. w' = [w EXCEPT ![c] = h] /\ db' = db /\ call' = call /\ sys' = sys /\ UNCHANGED gpuVars
    BY <1>3, <1>7, Zenon DEF SaveAssets
  <2>2. h.pc # "select"
    BY <1>3, Zenon
  <2> QED BY <1>1, <1>3, <1>5, <1>6, <2>1, <2>2, FaultFacts, DriveStep, Zenon
<1>8. CASE w' = Go(c, "finunk") \/ w' = Go(c, "assetfail")
  <2>1. UNCHANGED <<db, call, sys, gpuVars>>
    BY Zenon DEF SaveAssets
  <2> QED BY <1>5, <1>6, <1>8, <2>1, GoStep, Zenon DEF WorkPc
<1> QED BY <1>7, <1>8, Zenon DEF SaveAssets

-----------------------------------------------------------------------------
(* Steps that change an attempt *)

\* Attempt a becomes r and the task tk.
RunTo(a, r, tk) ==
  /\ db' \in Dbs /\ db'.task = tk /\ db'.run = [db.run EXCEPT ![a] = r] /\ db'.inv = db.inv
\* A row that was made for the same call.
RowOk(a, r) ==
  /\ a \in Made /\ r.st # "none" /\ r.call = Run(a).call /\ WholeRun(r)
  /\ r.cut => r.st = "FAILED" /\ r.res = "none"
  /\ r.res # "none" => r.st = r.res /\ r.out = r.res
  /\ r.st \in Successes => r.res = r.st

\* What a change of one attempt leaves as it was.
LEMMA RunChange ==
  ASSUME ManagedInv, NEW a \in Attempts, NEW r \in Runs, NEW tk \in Tasks, WholeTask(tk),
         RunTo(a, r, tk), RowOk(a, r)
  PROVE  /\ Task' = tk
         /\ \A b \in Attempts : Run(b)' = IF b = a THEN r ELSE Run(b)
         /\ \A c \in Calls : Inv(c)' = Inv(c) /\ Own(c)' = Own(c)
         /\ Made' = Made /\ Latest' = Latest /\ Numbered' /\ WholeRows'
         /\ Active' = {b \in Attempts : IF b = a THEN r.st \in {"PENDING", "RUNNING"} ELSE b \in Active}
<1>1. Task' = tk /\ (\A c \in Calls : Inv(c)' = Inv(c))
  BY Zenon DEF Task, Inv, RunTo
<1>2. \A b \in Attempts : Run(b)' = IF b = a THEN r ELSE Run(b)
  BY DbFields DEF ManagedInv, Types, Run, RunTo
<1>3. \A b \in Attempts : b \in Made' <=> b \in Made
  BY <1>2, Zenon DEF Made, RowOk
<1>4. Made' = Made
  BY <1>3 DEF Made
<1>5. Latest' = Latest
  BY <1>4 DEF Latest
<1>6. \A b \in Made : Run(b)'.call = Run(b).call
  BY <1>2, Zenon DEF Made, RowOk
<1>7. Numbered
  BY Zenon DEF ManagedInv, Rows
<1>8. \A c \in Calls : Own(c)' = Own(c)
  BY <1>4, <1>6, <1>7, OwnKept, Zenon
<1>9. Numbered'
  BY <1>4, <1>6, <1>7, Zenon DEF Numbered
<1>10. WholeRows'
  BY <1>1, <1>2, Zenon DEF ManagedInv, Rows, WholeRows, RowOk
<1>11. Active' = {b \in Attempts : IF b = a THEN r.st \in {"PENDING", "RUNNING"} ELSE b \in Active}
  <2>1. \A b \in Attempts : b \in Active' <=> IF b = a THEN r.st \in {"PENDING", "RUNNING"} ELSE b \in Active
    BY <1>2, Zenon DEF Active
  <2>2. Active' \subseteq Attempts
    BY Zenon DEF Active
  <2> QED BY <2>1, <2>2
<1> QED BY <1>1, <1>2, <1>4, <1>5, <1>8, <1>9, <1>10, <1>11, Zenon

\* A thread that changes its attempt, and the task.
LEMMA RunStep ==
  ASSUME ManagedInv, NEW c \in Calls, NEW a \in Attempts, NEW r \in Runs, NEW tk \in Tasks,
         NEW t \in Workers, a = Own(c), WholeTask(tk), RunTo(a, r, tk), RowOk(a, r),
         w' = [w EXCEPT ![c] = t], UNCHANGED <<call, req, sends>>,
         sys' \in [faults: 0..MaxFaults, crashes: 0..MaxCrashes],
         Local(c, t, call[c], Inv(c), a, r, req[a], sends[a]),
         Selected',
         \A d \in Calls : At(d, "select") => d = c,
         t.pc = "select" => tk.st = "RUNNING" /\ Active' = {} /\ a = Latest,
         Run(a).st \in Outcomes => r = Run(a),
         Run(a).out # "none" => r.out = Run(a).out,
         Task.run <= tk.run, Task.st = "SUCCEEDED" => tk = Task
  PROVE  ManagedInv' /\ Kept
<1>0. Types /\ Rows /\ Chain /\ Requested /\ Selecting /\ (\A d \in Calls : Sound(d))
  BY Zenon DEF ManagedInv
<1>1. /\ Task' = tk /\ Numbered' /\ WholeRows' /\ Made' = Made /\ Latest' = Latest
      /\ \A b \in Attempts : Run(b)' = IF b = a THEN r ELSE Run(b)
      /\ \A d \in Calls : Inv(d)' = Inv(d) /\ Own(d)' = Own(d)
  BY RunChange, Zenon
<1>2. \A d \in Calls : w'[d] = IF d = c THEN t ELSE w[d]
  BY <1>0 DEF Types
<1>3. Types'
  BY <1>0 DEF Types, RunTo
<1>4. Chain'
  BY <1>0, Zenon DEF Chain, Ended
<1>5. Requested'
  <2>1. Computing' = Computing
    BY Zenon DEF Computing
  <2>2. \A b \in Attempts : Run(b)'.st = "none" => Run(b).st = "none"
    BY <1>1, Zenon DEF RowOk
  <2> QED BY <1>0, <2>1, <2>2, Zenon DEF Requested
<1>6. Selecting'
  <2>1. \A d \in Calls : At(d, "select")' => d = c /\ t.pc = "select"
    BY <1>2, Zenon DEF At
  <2> QED BY <1>1, <2>1, Zenon DEF Selecting
<1>7. ASSUME NEW d \in Calls PROVE Sound(d)'
  <2>1. CASE d = c
    <3>1. Own(c)' = a /\ Run(a)' = r /\ w'[c] = t /\ Inv(c)' = Inv(c)
      BY <1>1, <1>2, Zenon
    <3>2. Local(c, w'[c], call'[c], Inv(c)', a, Run(a)', req'[a], sends'[a])
      BY <3>1, Zenon
    <3> QED BY <2>1, <3>1, <3>2, Zenon DEF Sound
  <2>2. CASE d # c
    <3>1. Own(d) # a
      <4>1. a # None
        BY DEF None, Attempts
      <4>2. Run(a).call = c /\ (Own(d) = a => Run(a).call = d)
        BY <1>0, <4>1, OwnFacts, Zenon DEF Rows
      <4> QED BY <2>2, <4>2, Zenon
    <3>2. Own(d) \in Attempts \cup {None}
      BY <1>0, OwnFacts, Zenon DEF Rows
    <3> QED BY <2>2, <3>1, <3>2, <1>0, <1>1, <1>2, Frame, Zenon
  <2> QED BY <2>1, <2>2, Zenon
<1>8. Kept
  BY <1>1, Zenon DEF Kept, Task, Run, Inv
<1> QED BY <1>1, <1>3, <1>4, <1>5, <1>6, <1>7, <1>8, Zenon DEF ManagedInv, Rows

\* The rows that the thread writes.
Started(a) == [Run(a) EXCEPT !.st = "RUNNING"]
Recorded(a, out) == [Run(a) EXCEPT !.out = out]
FailedRow(a) == [Run(a) EXCEPT !.st = "FAILED"]
FailedTask(a) == [st |-> "FAILED", run |-> a, res |-> None]
DoneRow(a, out) == [[Run(a) EXCEPT !.st = out] EXCEPT !.res = out]
DoneTask(a, out) == [st |-> out, run |-> a, res |-> a]

\* A write of one attempt.
LEMMA OneRow ==
  ASSUME db \in Dbs, NEW a \in Attempts, NEW r \in Runs, NEW tk \in Tasks
  PROVE  /\ db' = [db EXCEPT !.run[a] = r] => RunTo(a, r, Task)
         /\ db' = [[db EXCEPT !.run[a] = r] EXCEPT !.task = tk] => RunTo(a, r, tk)
<1>1. db = [task |-> db.task, run |-> db.run, inv |-> db.inv]
      /\ db.task \in Tasks /\ db.run \in [Attempts -> Runs] /\ db.inv \in [Calls -> Invocations]
  BY DbFields DEF Task
<1>2. [db.run EXCEPT ![a] = r] \in [Attempts -> Runs]
  BY <1>1
<1> DEFINE f == [db.run EXCEPT ![a] = r]
<1>3. f \in [Attempts -> Runs]
  BY <1>2
<1> HIDE DEF f
<1>4. [db EXCEPT !.run = f] = [task |-> db.task, run |-> f, inv |-> db.inv]
  BY <1>1
<1>5. \A d : d = [task |-> db.task, run |-> f, inv |-> db.inv]
              => [d EXCEPT !.task = tk] = [task |-> tk, run |-> f, inv |-> db.inv]
  OBVIOUS
<1>6. ASSUME NEW x \in Tasks, db' = [task |-> x, run |-> f, inv |-> db.inv]
      PROVE  RunTo(a, r, x)
  <2>1. db' \in Dbs /\ db'.task = x /\ db'.run = f /\ db'.inv = db.inv
    BY <1>1, <1>3, <1>6 DEF Dbs
  <2> QED BY <2>1, Zenon DEF RunTo, f
<1> QED BY <1>1, <1>4, <1>5, <1>6, Zenon DEF f, Task

\* The writes of an attempt, with its task or without.
LEMMA RunWrites ==
  ASSUME db \in Dbs, NEW a \in Attempts
  PROVE  /\ db' = [db EXCEPT !.run[a].st = "RUNNING"] => RunTo(a, Started(a), Task)
         /\ db' = [db EXCEPT !.run[a].st = "FAILED"] => RunTo(a, FailedRow(a), Task)
         /\ db' = Failed(a) => RunTo(a, FailedRow(a), FailedTask(a))
         /\ \A out \in Outcomes :
              /\ db' = [db EXCEPT !.run[a].out = out] => RunTo(a, Recorded(a, out), Task)
              /\ db' = Committed(a, out) => RunTo(a, DoneRow(a, out), DoneTask(a, out))
         /\ Started(a) \in Runs /\ FailedRow(a) \in Runs /\ FailedTask(a) \in Tasks
         /\ \A out \in Outcomes : Recorded(a, out) \in Runs /\ DoneRow(a, out) \in Runs
                                  /\ DoneTask(a, out) \in Tasks
<1>1. Run(a) \in Runs /\ Task \in Tasks
  BY DbFields
<1>2. Started(a) \in Runs /\ FailedRow(a) \in Runs /\ FailedTask(a) \in Tasks
  BY <1>1 DEF Started, FailedRow, FailedTask, Runs, Tasks, Outcomes
<1>3. ASSUME NEW out \in Outcomes
      PROVE  Recorded(a, out) \in Runs /\ DoneRow(a, out) \in Runs /\ DoneTask(a, out) \in Tasks
  <2>1. Recorded(a, out) \in Runs /\ DoneTask(a, out) \in Tasks
    BY <1>1 DEF Recorded, DoneTask, Runs, Tasks
  <2>2. [Run(a) EXCEPT !.st = out] \in Runs
    BY <1>1 DEF Runs
  <2>3. \A x \in Runs : [x EXCEPT !.res = out] \in Runs
    BY DEF Runs
  <2> QED BY <2>1, <2>2, <2>3, Zenon DEF DoneRow
<1>4. /\ db' = [db EXCEPT !.run[a].st = "RUNNING"] => RunTo(a, Started(a), Task)
      /\ db' = [db EXCEPT !.run[a].st = "FAILED"] => RunTo(a, FailedRow(a), Task)
  <2>1. [db EXCEPT !.run[a].st = "RUNNING"] = [db EXCEPT !.run[a] = Started(a)]
    BY Zenon DEF Started, Run
  <2>2. [db EXCEPT !.run[a].st = "FAILED"] = [db EXCEPT !.run[a] = FailedRow(a)]
    BY Zenon DEF FailedRow, Run
  <2> QED BY <1>1, <1>2, <2>1, <2>2, OneRow, Zenon
<1>5. db' = Failed(a) => RunTo(a, FailedRow(a), FailedTask(a))
  <2>1. Failed(a) = [[db EXCEPT !.run[a] = FailedRow(a)] EXCEPT !.task = FailedTask(a)]
    BY Zenon DEF FailedRow, FailedTask, Failed, Run
  <2> QED BY <1>1, <1>2, <2>1, OneRow, Zenon
<1>6. ASSUME NEW out \in Outcomes, db' = [db EXCEPT !.run[a].out = out]
      PROVE  RunTo(a, Recorded(a, out), Task)
  <2>1. [db EXCEPT !.run[a].out = out] = [db EXCEPT !.run[a] = Recorded(a, out)]
    BY Zenon DEF Recorded, Run
  <2> QED BY <1>1, <1>3, <1>6, <2>1, OneRow, Zenon
<1>7. ASSUME NEW out \in Outcomes, db' = Committed(a, out)
      PROVE  RunTo(a, DoneRow(a, out), DoneTask(a, out))
  <2> DEFINE x == [Run(a) EXCEPT !.st = out]
             d == [db EXCEPT !.run[a] = x]
  <2>1. x \in Runs
    BY <1>1 DEF Runs
  <2>2. db = [task |-> db.task, run |-> db.run, inv |-> db.inv] /\ db.run \in [Attempts -> Runs]
    BY DbFields
  <2>3. d = [task |-> db.task, run |-> [db.run EXCEPT ![a] = x], inv |-> db.inv]
    BY <2>2
  <2> HIDE DEF x
  <2>4. d.run[a] = x
    BY <2>2, <2>3
  <2> DEFINE y == [x EXCEPT !.res = out]
  <2>5. y = DoneRow(a, out)
    BY Zenon DEF DoneRow, x
  <2> HIDE DEF y
  <2>6. [d EXCEPT !.run[a] = y] = [db EXCEPT !.run[a] = y]
    <3>1. [d.run EXCEPT ![a] = y] = [db.run EXCEPT ![a] = y]
      BY <2>2, <2>3
    <3>2. \A f : [d EXCEPT !.run = f] = [db EXCEPT !.run = f]
      BY <2>2, <2>3
    <3> HIDE DEF d
    <3> QED BY <3>1, <3>2, Zenon
  <2>7. Committed(a, out) = [[d EXCEPT !.run[a].res = out] EXCEPT !.task = DoneTask(a, out)]
    BY Zenon DEF Committed, DoneTask, Run, x
  <2>8. [d EXCEPT !.run[a].res = out] = [d EXCEPT !.run[a] = y]
    <3> HIDE DEF d
    <3> QED BY <2>4, Zenon DEF y
  <2> HIDE DEF d
  <2>9. db' = [[db EXCEPT !.run[a] = DoneRow(a, out)] EXCEPT !.task = DoneTask(a, out)]
    BY <1>7, <2>5, <2>6, <2>7, <2>8, Zenon
  <2> QED BY <1>3, <2>9, OneRow, Zenon
<1> QED BY <1>2, <1>3, <1>4, <1>5, <1>6, <1>7, Zenon

\* The rows that are written, field by field.
LEMMA RowFields ==
  ASSUME ManagedInv, NEW a \in Made
  PROVE  /\ LET r == Started(a) IN r.st = "RUNNING" /\ r.out = Run(a).out /\ r.res = Run(a).res
                                   /\ r.cut = Run(a).cut /\ r.call = Run(a).call
         /\ LET r == FailedRow(a) IN r.st = "FAILED" /\ r.out = Run(a).out /\ r.res = Run(a).res
                                     /\ r.cut = Run(a).cut /\ r.call = Run(a).call
         /\ \A out : LET r == Recorded(a, out)
                     IN  r.st = Run(a).st /\ r.out = out /\ r.res = Run(a).res
                         /\ r.cut = Run(a).cut /\ r.call = Run(a).call
         /\ \A out : LET r == DoneRow(a, out)
                     IN  r.st = out /\ r.out = Run(a).out /\ r.res = out
                         /\ r.cut = Run(a).cut /\ r.call = Run(a).call
<1>1. Run(a) \in Runs
  BY DbFields, Zenon DEF ManagedInv, Types, Made
<1>2. ASSUME NEW out
      PROVE  LET r == DoneRow(a, out)
             IN  r.st = out /\ r.out = Run(a).out /\ r.res = out
                 /\ r.cut = Run(a).cut /\ r.call = Run(a).call
  <2> DEFINE x == [Run(a) EXCEPT !.st = out]
  <2>1. x = [st |-> out, call |-> Run(a).call, out |-> Run(a).out, res |-> Run(a).res, cut |-> Run(a).cut]
    BY <1>1 DEF Runs
  <2>2. DoneRow(a, out) = [x EXCEPT !.res = out]
    BY Zenon DEF DoneRow
  <2> HIDE DEF x
  <2> QED BY <2>1, <2>2
<1> QED BY <1>1, <1>2 DEF Started, FailedRow, Recorded, Runs

\* The selection, of a task t with the last attempt l: rt is the row that is
\* selected, rl the last one.
SelectedAs(t, l, made, active, rt, rl) ==
  LET cut == l # None /\ rl.cut IN
  /\ \A a \in active : t.st = "RUNNING" /\ t.run < a /\ a = l
  /\ t.run \in made \cup {None}
  /\ t.run = None => l <= 1
  /\ t.run # None =>
       rt.st \in Outcomes /\ (t.res = None => rt.st = "FAILED" /\ rt.res = "none")
  /\ t.res # None => t.run = t.res /\ rt.res # "none"
  /\ t.st \in Outcomes /\ ~cut => t.run # None /\ rt.st = t.st
  /\ cut => t.st = "FAILED" /\ t.run < l
  /\ l # None /\ rl.res # "none" => t.res = l /\ t.st = rl.res

\* The selection of the present state.
LEMMA SelectedNow ==
  ASSUME Selected
  PROVE  SelectedAs(Task, Latest, Made, Active, Run(Task.run), Run(Latest))
  BY Zenon DEF Selected, SelectedAs, Cut

\* The selection of the next one.
LEMMA SelectedNext ==
  ASSUME NEW t, NEW l, NEW rt, NEW rl, Task' = t, Latest' = l,
         t.run # None => db'.run[t.run] = rt,
         l # None => db'.run[l] = rl,
         SelectedAs(t, l, Made', Active', rt, rl)
  PROVE  Selected'
<1>1. t.run # None => Run(Task.run)' = rt
  BY Zenon DEF Run
<1>2. t.res # None => Run(Task.res)' = rt
  BY Zenon DEF Run, SelectedAs
<1>3. l # None => Run(Latest)' = rl
  BY Zenon DEF Run
<1> QED BY <1>1, <1>2, <1>3, Zenon DEF Selected, SelectedAs, Cut

\* The attempt in progress goes on or fails; the task is as before.
LEMMA ActiveChanges ==
  ASSUME ManagedInv, NEW a \in Active, NEW r \in Runs, RunTo(a, r, Task), RowOk(a, r),
         r.st \in {"RUNNING", "FAILED"}, r.res = "none", ~r.cut
  PROVE  Selected' /\ Active' = IF r.st = "RUNNING" THEN {a} ELSE {}
<1>1. a \in Attempts /\ Selected /\ Active = {a} /\ a = Latest /\ Task.st = "RUNNING" /\ Task.run < a
  BY ActiveFacts, Zenon DEF ManagedInv, Rows, Selected
<1>2. WholeTask(Task) /\ Task \in Tasks
  BY TaskFacts, Zenon DEF ManagedInv, Rows, WholeRows
<1>3. /\ Task' = Task /\ Made' = Made /\ Latest' = Latest
      /\ \A b \in Attempts : Run(b)' = IF b = a THEN r ELSE Run(b)
      /\ Active' = {b \in Attempts : IF b = a THEN r.st \in {"PENDING", "RUNNING"} ELSE b \in Active}
  BY <1>1, <1>2, RunChange, Zenon
<1>4. Active' = IF r.st = "RUNNING" THEN {a} ELSE {}
  BY <1>1, <1>3
<1>5. Task.run # None => db'.run[Task.run] = Run(Task.run)
  <2>1. Task.run # None => Task.run \in Attempts /\ Task.run # a
    BY <1>1, TaskFacts DEF Attempts
  <2> QED BY <1>3, <2>1, Zenon DEF Run
<1>6. db'.run[Latest] = r
  BY <1>1, <1>3, Zenon DEF Run
<1>7. SelectedAs(Task, Latest, Made', Active', Run(Task.run), r)
  <2>1. SelectedAs(Task, Latest, Made, Active, Run(Task.run), Run(Latest))
    BY <1>1, SelectedNow
  <2>2. Task.st \notin Outcomes
    BY <1>1 DEF Outcomes, Successes
  <2> QED BY <1>1, <1>3, <1>4, <2>1, <2>2, Zenon DEF SelectedAs
<1> QED BY <1>3, <1>4, <1>5, <1>6, <1>7, SelectedNext, Zenon DEF None

\* The last attempt ends, and the task selects it.
LEMMA LastEnds ==
  ASSUME ManagedInv, NEW a \in Made, NEW r \in Runs, NEW tk \in Tasks, RunTo(a, r, tk), RowOk(a, r),
         a = Latest, Active \subseteq {a}, r.st \in Outcomes, ~r.cut, tk.st = r.st, tk.run = a,
         IF r.res = "none" THEN r.st = "FAILED" /\ tk.res = None ELSE tk.res = a /\ r.res = r.st
  PROVE  Selected' /\ Active' = {} /\ WholeTask(tk)
<1>1. a \in Attempts /\ a # None
  BY DEF Made, Attempts, None
<1>2. WholeTask(tk)
  BY <1>1, Zenon DEF WholeTask
<1>3. /\ Task' = tk /\ Made' = Made /\ Latest' = Latest
      /\ \A b \in Attempts : Run(b)' = IF b = a THEN r ELSE Run(b)
      /\ Active' = {b \in Attempts : IF b = a THEN r.st \in {"PENDING", "RUNNING"} ELSE b \in Active}
  BY <1>1, <1>2, RunChange, Zenon
<1>4. Active' = {}
  BY <1>3 DEF Outcomes, Successes
<1>5. db'.run[a] = r
  BY <1>1, <1>3, Zenon DEF Run
<1>6. SelectedAs(tk, a, Made', Active', r, r)
  BY <1>1, <1>3, <1>4, Zenon DEF SelectedAs
<1> QED BY <1>2, <1>3, <1>4, <1>5, <1>6, SelectedNext, Zenon

\* What such a step may do to the rows, and where its thread may go.
MayRun(c, a, r, tk) ==
  /\ a = Own(c) /\ WholeTask(tk) /\ RowOk(a, r)
  /\ \A d \in Calls : At(d, "select") => d = c
  /\ Run(a).st \in Outcomes => r = Run(a)
  /\ Run(a).out # "none" => r.out = Run(a).out
  /\ Task.run <= tk.run
  /\ Task.st = "SUCCEEDED" => tk = Task
RunFits(c, t, a, r) == Local(c, t, call[c], Inv(c), a, r, req[a], sends[a])

\* A transaction of a thread that changes its attempt.
LEMMA RunTx ==
  ASSUME ManagedInv, NEW c \in Calls, NEW a \in Attempts, NEW r \in Runs, NEW tk \in Tasks,
         NEW t \in Workers, NEW b \in WorkPc, NEW new, ~At(c, "idle"), UNCHANGED <<call, gpuVars>>,
         \/ Reread(c, new, [w EXCEPT ![c] = t], Go(c, b))
         \/ ~At(c, "select") /\ Repeated(c, new, [w EXCEPT ![c] = t], Go(c, b)),
         MayRun(c, a, r, tk), b # "select",
         RunFits(c, t, a, r), RunFits(c, To(b), a, r), Fits(c, To(b), call[c], Inv(c)),
         db' = new => RunTo(a, r, tk) /\ Selected'
                      /\ (t.pc = "select" => tk.st = "RUNNING" /\ Active' = {} /\ a = Latest)
  PROVE  ManagedInv' /\ Kept
<1>1. Types /\ Inv(c) \in Invocations /\ w[c] \in Workers /\ Fits(c, w[c], call[c], Inv(c))
  BY DbFields, Zenon DEF ManagedInv, Types, Sound, Fits
<1>2. req' = req /\ sends' = sends /\ call' = call
  BY Zenon DEF gpuVars
<1>3. sys' = sys \/ Fault => sys' \in [faults: 0..MaxFaults, crashes: 0..MaxCrashes]
  BY <1>1, FaultFacts, Zenon
<1>4. To(b) \in Workers /\ To(b).pc # "select" /\ Go(c, b) = [w EXCEPT ![c] = To(b)]
  BY ToFacts, Zenon
<1>5. ASSUME db' = new, w' = [w EXCEPT ![c] = t], sys' = sys \/ Fault
      PROVE  ManagedInv' /\ Kept
  BY <1>1, <1>2, <1>3, <1>5, RunStep, Zenon DEF MayRun, RunFits
<1>6. ASSUME db' = new, w' = Go(c, b), sys' = sys \/ Fault
      PROVE  ManagedInv' /\ Kept
  BY <1>1, <1>2, <1>3, <1>4, <1>6, RunStep, Zenon DEF MayRun, RunFits
<1>7. ASSUME db' = db, w' = Go(c, b), sys' = sys \/ Fault
      PROVE  ManagedInv' /\ Kept
  BY <1>1, <1>3, <1>4, <1>7, DriveStep, Zenon
<1>8. ASSUME db' = db, w' = [w EXCEPT ![c].try = @ + 1], sys' = sys \/ Fault, ~At(c, "select"),
             w[c].try < MaxTries
      PROVE  ManagedInv' /\ Kept
  <2> DEFINE u == [w[c] EXCEPT !.try = @ + 1]
  <2>1. u \in Workers /\ u.pc = w[c].pc /\ u.out = w[c].out
    BY <1>1, <1>8 DEF Workers, MaxTries
  <2>2. w' = [w EXCEPT ![c] = u]
    BY <1>8, Zenon
  <2> HIDE DEF u
  <2>3. Fits(c, u, call[c], Inv(c))
    <3> DEFINE a0 == Own(c)  q0 == req[Own(c)]  s0 == sends[Own(c)]
               r0 == Run(Own(c))  i0 == Inv(c)
    <3>1. Local(c, w[c], call[c], i0, a0, r0, q0, s0)
      BY <1>1, Zenon DEF Fits
    <3> HIDE DEF a0, q0, s0, r0, i0
    <3>2. Thread1(c, u, call[c], i0, a0, r0, q0, s0)
      BY <2>1, <3>1 DEF Local, Thread1
    <3>3. Call1(c, u, call[c], i0, a0, r0, q0, s0) /\ Attempt1(c, u, call[c], i0, a0, r0, q0, s0)
      BY <3>1, Zenon DEF Local, Call1, Attempt1
    <3>4. Outcome1(c, u, call[c], i0, a0, r0, q0, s0)
      BY <2>1, <3>1, Zenon DEF Local, Outcome1
    <3> QED BY <3>2, <3>3, <3>4, Zenon DEF Fits, Local, a0, q0, s0, r0, i0
  <2>4. u.pc # "select"
    BY <1>8, <2>1, Zenon DEF At
  <2> QED BY <1>1, <1>3, <1>8, <2>1, <2>2, <2>3, <2>4, DriveStep, Zenon
<1> QED BY <1>5, <1>6, <1>7, <1>8, Zenon DEF Repeated, Reread, Tx

\* While an attempt is in progress no other thread is about to select.
LEMMA NoOtherSelects ==
  ASSUME ManagedInv, NEW c \in Calls, Own(c) # None, Own(c) \in Active \/ At(c, "select")
  PROVE  /\ \A d \in Calls : At(d, "select") => d = c
         /\ Own(c) = Latest /\ Task.st = "RUNNING" /\ Own(c) \in Made /\ Own(c) \in Attempts
         /\ Run(Own(c)).call = c /\ ~Run(Own(c)).cut
<1>1. Selecting /\ Selected /\ Numbered
  BY Zenon DEF ManagedInv, Rows
<1>2. Own(c) \in Made /\ Run(Own(c)).call = c /\ Own(c) \in Attempts
  BY <1>1, OwnFacts, Zenon DEF Made
<1>3. ~Run(Own(c)).cut
  <2>1. CASE At(c, "select")
    BY <2>1, Zenon DEF ManagedInv, Sound, Local, Thread1, At
  <2>2. CASE Own(c) \in Active
    BY <1>2, <2>2, RowFacts DEF Active
  <2> QED BY <2>1, <2>2
<1> QED BY <1>1, <1>2, <1>3, ActiveFacts, Zenon DEF Selecting

\* The facts of a thread whose attempt is in progress.
AtAttempt(c) == w[c].pc \in Running \/ (At(c, "start") /\ Startable(c))
\* A thread at work has the attempt in progress.
LEMMA InProgress ==
  ASSUME ManagedInv, NEW c \in Calls, AtAttempt(c)
  PROVE  /\ Own(c) \in Active /\ Own(c) # None /\ Own(c) \in Made /\ Own(c) \in Attempts
         /\ Own(c) = Latest /\ Task.st = "RUNNING" /\ ~At(c, "idle")
         /\ Run(Own(c)).call = c /\ Run(Own(c)).res = "none" /\ ~Run(Own(c)).cut
         /\ Run(Own(c)).st \in {"PENDING", "RUNNING"}
         /\ \A d \in Calls : At(d, "select") => d = c
<1>1. Thread1(c, w[c], call[c], Inv(c), Own(c), Run(Own(c)), req[Own(c)], sends[Own(c)])
  BY Zenon DEF ManagedInv, Sound, Local
<1>2. Own(c) # None /\ Run(Own(c)).st \in {"PENDING", "RUNNING"} /\ ~At(c, "idle")
  BY <1>1 DEF AtAttempt, Thread1, At, Startable, Running
<1>3. Own(c) \in Attempts
  BY <1>2, OwnFacts, Zenon DEF ManagedInv, Rows
<1>4. Own(c) \in Active
  BY <1>2, <1>3, Zenon DEF Active
<1>5. Run(Own(c)).res = "none"
  BY <1>2, <1>3, RowFacts DEF Outcomes, Successes
<1> QED BY <1>2, <1>3, <1>4, <1>5, NoOtherSelects

\* An attempt is started once, by the thread of its call.
LEMMA StartRunStep ==
  ASSUME ManagedInv, NEW c \in Calls, StartRun(c)
  PROVE  ManagedInv' /\ Kept
<1>1. db \in Dbs /\ Fits(c, w[c], call[c], Inv(c)) /\ At(c, "start") /\ call' = call
      /\ UNCHANGED gpuVars /\ ~At(c, "idle") /\ ~At(c, "select")
  BY Zenon DEF ManagedInv, Types, Sound, Fits, StartRun, At
<1>2. /\ To("invoke").pc = "invoke" /\ To("finunk").pc = "finunk" /\ To("finfail").pc = "finfail"
      /\ To("invoke") \in Workers /\ Go(c, "invoke") = [w EXCEPT ![c] = To("invoke")]
  BY ToFacts, Zenon DEF WorkPc
<1>3. CASE Startable(c)
  <2>1. PICK a \in Attempts : a = Own(c)
    BY <1>1, <1>3, InProgress, Zenon DEF AtAttempt
  <2> DEFINE r == Started(a)
  <2>2. /\ a \in Active /\ a \in Made /\ Run(a).call = c /\ Run(a).st = "PENDING" /\ a # None
        /\ Run(a).res = "none" /\ ~Run(a).cut /\ Run(a).out = "none" /\ Task.run <= Task.run
        /\ \A d \in Calls : At(d, "select") => d = c
    <3>1. Run(a).st = "PENDING"
      BY <1>3, <2>1, Zenon DEF Startable
    <3>2. Run(a).out = "none"
      BY <3>1, RowFacts, Zenon DEF WholeRun
    <3>3. Task.run <= Task.run
      BY TaskFacts DEF Attempts, None
    <3> QED BY <1>1, <1>3, <2>1, <3>1, <3>2, <3>3, InProgress, Zenon DEF AtAttempt
  <2>3. /\ r \in Runs /\ r.st = "RUNNING" /\ r.out = "none" /\ r.res = "none" /\ r.cut = FALSE
        /\ r.call = c /\ Task \in Tasks /\ WholeTask(Task)
        /\ db' = [db EXCEPT !.run[a].st = "RUNNING"] => RunTo(a, r, Task)
    <3>1. r.cut = Run(a).cut /\ Run(a).cut \in BOOLEAN
      BY <2>2, RowFields, RowFacts, Zenon
    <3> QED BY <1>1, <2>2, <3>1, RowFields, RunWrites, TaskFacts, Zenon DEF ManagedInv, Rows, WholeRows
  <2> HIDE DEF r
  <2>4. MayRun(c, a, r, Task)
    BY <2>1, <2>2, <2>3 DEF MayRun, RowOk, WholeRun, Outcomes, Successes
  <2>5. Local(c, w[c], call[c], Inv(c), a, Run(a), req[a], sends[a])
    BY <1>1, <2>1, Zenon DEF Fits
  <2>6. RunFits(c, To("invoke"), a, r) /\ RunFits(c, To("finunk"), a, r)
    BY <1>1, <1>2, <2>2, <2>3, <2>5 DEF RunFits, Local, Thread1, Call1, Attempt1, Outcome1, Known, Driving, Running, Computed, Closed, At, Observed, Outcomes, Successes
  <2>7. RunFits(c, To("finunk"), a, Run(a))
    BY <1>1, <1>2, <2>5 DEF RunFits, Local, Thread1, Call1, Attempt1, Outcome1, Known, Driving, Running, Computed, Closed, At
  <2>8. Fits(c, To("finunk"), call[c], Inv(c))
    BY <2>1, <2>7, Zenon DEF RunFits, Fits
  <2>9. Reread(c, [db EXCEPT !.run[a].st = "RUNNING"], [w EXCEPT ![c] = To("invoke")], Go(c, "finunk"))
    BY <1>2, <1>3, <2>1, Zenon DEF StartRun
  <2>10. db' = [db EXCEPT !.run[a].st = "RUNNING"] => RunTo(a, r, Task) /\ Selected'
    BY <2>2, <2>3, <2>4, ActiveChanges, Zenon DEF MayRun
  <2> QED BY <1>1, <1>2, <2>2, <2>3, <2>4, <2>6, <2>8, <2>9, <2>10, RunTx, Zenon DEF WorkPc
<1>4. CASE ~Startable(c)
  <2>1. w' = Go(c, "finfail") /\ UNCHANGED <<db, call, sys, gpuVars>>
    BY <1>4, Zenon DEF StartRun
  <2>2. Fits(c, To("finfail"), call[c], Inv(c))
    BY <1>1, <1>2 DEF Fits, Local, Thread1, Call1, Attempt1, Outcome1, Known, Driving, Running, Computed, Closed, At
  <2> QED BY <1>1, <2>1, <2>2, GoStep, Zenon DEF WorkPc
<1> QED BY <1>3, <1>4, Zenon

\* The output of an attempt is recorded, once.
LEMMA RecordStep ==
  ASSUME ManagedInv, NEW c \in Calls, Record(c)
  PROVE  ManagedInv' /\ Kept
<1>1. db \in Dbs /\ Fits(c, w[c], call[c], Inv(c)) /\ At(c, "record") /\ call' = call
      /\ UNCHANGED gpuVars /\ ~At(c, "idle") /\ ~At(c, "select") /\ w \in [Calls -> Workers]
  BY Zenon DEF ManagedInv, Types, Sound, Fits, Record, At
<1>2. w[c].pc \in Running /\ AtAttempt(c)
  BY <1>1 DEF At, AtAttempt, Running
<1> DEFINE t == With("assets", w[c].out)
<1>3. /\ Hold(c, "assets") = [w EXCEPT ![c] = t] /\ t \in Workers /\ t.pc = "assets" /\ t.out = w[c].out
      /\ To("finunk").pc = "finunk"
  BY <1>1, HoldFacts, ToFacts, Zenon DEF WorkPc
<1> HIDE DEF t
<1>4. PICK a \in Attempts : a = Own(c)
  BY <1>2, InProgress, Zenon
<1>5. PICK out \in Outcomes : out = w[c].out
  BY <1>1, Zenon DEF Fits, Local, Thread1, At
<1> DEFINE r == Recorded(a, out)
<1>6. Local(c, w[c], call[c], Inv(c), a, Run(a), req[a], sends[a])
  BY <1>1, <1>4, Zenon DEF Fits
<1>7. /\ a \in Active /\ a \in Made /\ Run(a).call = c /\ Run(a).st = "RUNNING" /\ a # None
      /\ Run(a).res = "none" /\ ~Run(a).cut /\ Run(a).out = "none" /\ Task.run <= Task.run
      /\ \A d \in Calls : At(d, "select") => d = c
  <2>1. Run(a).st = "RUNNING" /\ Run(a).out = "none"
    BY <1>1, <1>2, <1>6, Zenon DEF Local, Thread1, At
  <2>2. Task.run <= Task.run
    BY TaskFacts DEF Attempts, None
  <2> QED BY <1>2, <1>4, <2>1, <2>2, InProgress, Zenon
<1>8. /\ r \in Runs /\ r.st = "RUNNING" /\ r.out = out /\ r.res = "none" /\ r.cut = FALSE
      /\ r.call = c /\ Task \in Tasks /\ WholeTask(Task)
      /\ db' = [db EXCEPT !.run[a].out = out] => RunTo(a, r, Task)
  <2>1. r.cut = Run(a).cut /\ Run(a).cut \in BOOLEAN
    BY <1>7, RowFields, RowFacts, Zenon
  <2>2. r \in Runs /\ (db' = [db EXCEPT !.run[a].out = out] => RunTo(a, r, Task))
    BY <1>1, RunWrites, Zenon
  <2>3. r.st = Run(a).st /\ r.out = out /\ r.res = Run(a).res /\ r.call = Run(a).call
    BY <1>7, RowFields, Zenon
  <2> QED BY <1>7, <2>1, <2>2, <2>3, TaskFacts, Zenon DEF ManagedInv, Rows, WholeRows
<1> HIDE DEF r
<1>9. MayRun(c, a, r, Task)
  BY <1>4, <1>7, <1>8 DEF MayRun, RowOk, WholeRun, Outcomes, Successes
<1>10. RunFits(c, t, a, r) /\ RunFits(c, To("finunk"), a, r)
  BY <1>1, <1>3, <1>5, <1>6, <1>7, <1>8 DEF RunFits, Local, Thread1, Call1, Attempt1, Outcome1, Known, Driving, Running, Computed, Closed, At, Observed, Outcomes, Successes
<1>11. RunFits(c, To("finunk"), a, Run(a))
  BY <1>1, <1>3, <1>6 DEF RunFits, Local, Thread1, Call1, Attempt1, Outcome1, Known, Driving, Running, Computed, Closed, At
<1>12. Fits(c, To("finunk"), call[c], Inv(c))
  BY <1>4, <1>11, Zenon DEF RunFits, Fits
<1>13. Repeated(c, [db EXCEPT !.run[a].out = out], [w EXCEPT ![c] = t], Go(c, "finunk"))
  BY <1>3, <1>4, <1>5, <1>7, Zenon DEF Record
<1>14. db' = [db EXCEPT !.run[a].out = out] => RunTo(a, r, Task) /\ Selected'
  BY <1>7, <1>8, <1>9, ActiveChanges, Zenon DEF MayRun
<1>15. t.pc # "select"
  BY <1>3, Zenon
<1> QED BY <1>1, <1>3, <1>7, <1>8, <1>9, <1>10, <1>12, <1>13, <1>14, <1>15, RunTx, Zenon DEF WorkPc

\* _persist_runtime_failure.
LEMMA FailRunStep ==
  ASSUME ManagedInv, NEW c \in Calls, FailRun(c)
  PROVE  ManagedInv' /\ Kept
<1>1. db \in Dbs /\ Fits(c, w[c], call[c], Inv(c)) /\ At(c, "failrun") /\ call' = call
      /\ UNCHANGED gpuVars /\ ~At(c, "idle") /\ ~At(c, "select")
  BY Zenon DEF ManagedInv, Types, Sound, Fits, FailRun, At
<1>2. w[c].pc \in Running /\ AtAttempt(c)
  BY <1>1 DEF At, AtAttempt, Running
<1>3. /\ To("select").pc = "select" /\ To("finunk").pc = "finunk" /\ To("select") \in Workers
      /\ Go(c, "select") = [w EXCEPT ![c] = To("select")]
  BY ToFacts, Zenon DEF WorkPc
<1>4. PICK a \in Attempts : a = Own(c)
  BY <1>2, InProgress, Zenon
<1> DEFINE r == FailedRow(a)
<1>6. Local(c, w[c], call[c], Inv(c), a, Run(a), req[a], sends[a])
  BY <1>1, <1>4, Zenon DEF Fits
<1>7. /\ a \in Active /\ a \in Made /\ Run(a).call = c /\ Run(a).st = "RUNNING" /\ a # None
      /\ Run(a).res = "none" /\ ~Run(a).cut /\ Task.run <= Task.run
      /\ Task.st = "RUNNING" /\ a = Latest
      /\ \A d \in Calls : At(d, "select") => d = c
  <2>1. Run(a).st = "RUNNING"
    BY <1>2, <1>6, Zenon DEF Local, Thread1
  <2>2. Task.run <= Task.run
    BY TaskFacts DEF Attempts, None
  <2> QED BY <1>2, <1>4, <2>1, <2>2, InProgress, Zenon
<1>8. /\ r \in Runs /\ r.st = "FAILED" /\ r.out = Run(a).out /\ r.res = "none" /\ r.cut = FALSE
      /\ r.call = c /\ Task \in Tasks /\ WholeTask(Task)
      /\ db' = [db EXCEPT !.run[a].st = "FAILED"] => RunTo(a, r, Task)
  <2>1. r.cut = Run(a).cut /\ Run(a).cut \in BOOLEAN
    BY <1>7, RowFields, RowFacts, Zenon
  <2> QED BY <1>1, <1>7, <2>1, RowFields, RunWrites, TaskFacts, Zenon DEF ManagedInv, Rows, WholeRows
<1> HIDE DEF r
<1>9. MayRun(c, a, r, Task)
  BY <1>4, <1>7, <1>8 DEF MayRun, RowOk, WholeRun, Outcomes, Successes
<1>10. RunFits(c, To("select"), a, r) /\ RunFits(c, To("finunk"), a, r)
  BY <1>1, <1>3, <1>6, <1>7, <1>8 DEF RunFits, Local, Thread1, Call1, Attempt1, Outcome1, Known, Driving, Running, Computed, Closed, At, Observed, Outcomes, Successes
<1>11. RunFits(c, To("finunk"), a, Run(a))
  BY <1>1, <1>3, <1>6 DEF RunFits, Local, Thread1, Call1, Attempt1, Outcome1, Known, Driving, Running, Computed, Closed, At
<1>12. Fits(c, To("finunk"), call[c], Inv(c))
  BY <1>4, <1>11, Zenon DEF RunFits, Fits
<1>13. Reread(c, [db EXCEPT !.run[a].st = "FAILED"], [w EXCEPT ![c] = To("select")], Go(c, "finunk"))
  BY <1>3, <1>4, <1>7, Zenon DEF FailRun
<1>14. db' = [db EXCEPT !.run[a].st = "FAILED"] => RunTo(a, r, Task) /\ Selected' /\ Active' = {}
  BY <1>7, <1>8, <1>9, ActiveChanges DEF MayRun
<1> QED BY <1>1, <1>3, <1>7, <1>8, <1>9, <1>10, <1>12, <1>13, <1>14, RunTx, Zenon DEF WorkPc

\* An output that cannot be kept fails the attempt and the task.
LEMMA AssetFailStep ==
  ASSUME ManagedInv, NEW c \in Calls, AssetFail(c)
  PROVE  ManagedInv' /\ Kept
<1>1. db \in Dbs /\ Fits(c, w[c], call[c], Inv(c)) /\ At(c, "assetfail") /\ call' = call
      /\ UNCHANGED gpuVars /\ ~At(c, "idle") /\ ~At(c, "select")
  BY Zenon DEF ManagedInv, Types, Sound, Fits, AssetFail, At
<1>2. w[c].pc \in Running /\ AtAttempt(c)
  BY <1>1 DEF At, AtAttempt, Running
<1>3. /\ To("finfail").pc = "finfail" /\ To("finunk").pc = "finunk" /\ To("finfail") \in Workers
      /\ Go(c, "finfail") = [w EXCEPT ![c] = To("finfail")]
  BY ToFacts, Zenon DEF WorkPc
<1>4. PICK a \in Attempts : a = Own(c)
  BY <1>2, InProgress, Zenon
<1> DEFINE r == FailedRow(a)  tk == FailedTask(a)
<1>6. Local(c, w[c], call[c], Inv(c), a, Run(a), req[a], sends[a])
  BY <1>1, <1>4, Zenon DEF Fits
<1>7. /\ a \in Active /\ a \in Made /\ Run(a).call = c /\ Run(a).st = "RUNNING" /\ a # None
      /\ Run(a).res = "none" /\ ~Run(a).cut /\ Task.run <= a
      /\ Task.st = "RUNNING" /\ a = Latest /\ Active \subseteq {a}
      /\ \A d \in Calls : At(d, "select") => d = c
  <2>1. Run(a).st = "RUNNING"
    BY <1>2, <1>6, Zenon DEF Local, Thread1
  <2>2. Task.run < a => Task.run <= a
    BY TaskFacts DEF Attempts, None
  <2>3. a \in Active => Task.run < a /\ Active \subseteq {a}
    BY ActiveFacts, Zenon DEF ManagedInv, Rows, Selected
  <2> QED BY <1>2, <1>4, <2>1, <2>2, <2>3, InProgress, Zenon
<1>8. /\ r \in Runs /\ r.st = "FAILED" /\ r.out = Run(a).out /\ r.res = "none" /\ r.cut = FALSE
      /\ r.call = c /\ tk \in Tasks
      /\ db' = Failed(a) => RunTo(a, r, tk)
  <2>1. r.cut = Run(a).cut /\ Run(a).cut \in BOOLEAN
    BY <1>7, RowFields, RowFacts, Zenon
  <2> QED BY <1>1, <1>7, <2>1, RowFields, RunWrites, Zenon
<1>9. tk.st = "FAILED" /\ tk.run = a /\ tk.res = None /\ WholeTask(tk)
  BY DEF FailedTask, WholeTask
<1> HIDE DEF r, tk
<1>10. MayRun(c, a, r, tk)
  BY <1>4, <1>7, <1>8, <1>9 DEF MayRun, RowOk, WholeRun, Outcomes, Successes
<1>11. RunFits(c, To("finfail"), a, r) /\ RunFits(c, To("finunk"), a, r)
  BY <1>1, <1>3, <1>6, <1>7, <1>8 DEF RunFits, Local, Thread1, Call1, Attempt1, Outcome1, Known, Driving, Running, Computed, Closed, At, Observed, Outcomes, Successes
<1>12. RunFits(c, To("finunk"), a, Run(a))
  BY <1>1, <1>3, <1>6 DEF RunFits, Local, Thread1, Call1, Attempt1, Outcome1, Known, Driving, Running, Computed, Closed, At
<1>13. Fits(c, To("finunk"), call[c], Inv(c))
  BY <1>4, <1>12, Zenon DEF RunFits, Fits
<1>14. Reread(c, Failed(a), [w EXCEPT ![c] = To("finfail")], Go(c, "finunk"))
  BY <1>3, <1>4, <1>7, Zenon DEF AssetFail, Reread
<1>15. db' = Failed(a) => RunTo(a, r, tk) /\ Selected'
  <2>1. r.st \in Outcomes /\ RowOk(a, r)
    BY <1>8, <1>10 DEF MayRun, Outcomes
  <2> QED BY <1>7, <1>8, <1>9, <2>1, LastEnds, Zenon
<1>16. To("finfail").pc # "select"
  BY <1>3, Zenon
<1> QED BY <1>1, <1>3, <1>7, <1>8, <1>10, <1>11, <1>13, <1>14, <1>15, <1>16, RunTx, Zenon DEF WorkPc

\* The first call makes the first attempt, and no other call does.
LEMMA FirstCall ==
  ASSUME ManagedInv, NEW c \in Calls, Own(c) # None
  PROVE  c = 1 <=> Own(c) = 1
<1>1. Numbered /\ Own(c) \in Made /\ Run(Own(c)).call = c
  BY OwnFacts, Zenon DEF ManagedInv, Rows
<1>2. 1 \in Made /\ Run(1).call = 1
  <2>1. 1 \in Made
    BY <1>1, TaskFacts DEF Attempts
  <2> QED BY <1>1, <2>1, Zenon DEF Numbered
<1>3. 1 \in Calls
  BY ManagedAssumption DEF Calls
<1> QED BY <1>1, <1>2, <1>3, OneCall, Zenon

\* The selection is always one that the result may replace.
LEMMA CanSelect ==
  ASSUME ManagedInv, NEW c \in Calls, At(c, "result")
  PROVE  Selectable(c)
<1>1. Fits(c, w[c], call[c], Inv(c)) /\ AtAttempt(c) /\ w[c].pc \in Running
  BY DEF ManagedInv, Sound, Fits, AtAttempt, At, Running
<1>2. PICK a \in Attempts : a = Own(c)
  BY <1>1, InProgress, Zenon
<1>3. /\ a \in Active /\ a \in Made /\ a # None /\ a = Latest /\ Task.st = "RUNNING"
  BY <1>1, <1>2, InProgress, Zenon
<1>4. Run(a).st = "RUNNING" /\ Run(a).out = w[c].out
  BY <1>1, <1>2, Zenon DEF Fits, Local, Thread1, At
<1>5. Selected /\ WholeRows /\ Active = {a} /\ Task.run < a
  BY <1>3, ActiveFacts, Zenon DEF ManagedInv, Rows, Selected
<1>6. c = 1 => Task.run = None /\ Task.res = None
  <2>1. c = 1 => a = 1
    BY <1>2, <1>3, FirstCall
  <2>2. Task.run < 1 => Task.run = None
    BY TaskFacts DEF Attempts, None
  <2> QED BY <1>5, <2>1, <2>2, Zenon DEF WholeRows, WholeTask
<1>7. c # 1 => Task.run # None
  <2>1. c # 1 => a # 1
    BY <1>2, <1>3, FirstCall
  <2>2. Latest <= 1 /\ a # None => a = 1
    BY <1>3, TaskFacts DEF None, Attempts
  <2> QED BY <1>3, <1>5, <2>1, <2>2, Zenon DEF Selected
<1>8. Task.run # None /\ Task.res = None => Run(Task.run).st = "FAILED" /\ Run(Task.run).res = "none"
  BY <1>5, Zenon DEF Selected
<1>9. Task.res # None => Task.res = Task.run /\ Run(Task.run).res = Run(Task.run).st
  <2>1. Task.res # None => Task.run = Task.res /\ Run(Task.res).res # "none" /\ Task.res \in Attempts
    BY <1>5, TaskFacts, Zenon DEF Selected
  <2> QED BY <1>5, <2>1, Zenon DEF WholeRows
<1> QED BY <1>2, <1>3, <1>4, <1>5, <1>6, <1>7, <1>8, <1>9, Zenon DEF Selectable

\* The result, the attempt and the task are committed together.
LEMMA ResultStep ==
  ASSUME ManagedInv, NEW c \in Calls, Result(c)
  PROVE  ManagedInv' /\ Kept
<1>1. db \in Dbs /\ Fits(c, w[c], call[c], Inv(c)) /\ At(c, "result") /\ call' = call
      /\ UNCHANGED gpuVars /\ ~At(c, "idle") /\ ~At(c, "select")
  BY Zenon DEF ManagedInv, Types, Sound, Fits, Result, At
<1>2. w[c].pc \in Running /\ AtAttempt(c) /\ Selectable(c)
  BY <1>1, CanSelect DEF At, AtAttempt, Running
<1>3. /\ To("final").pc = "final" /\ To("finunk").pc = "finunk" /\ To("final") \in Workers
      /\ Go(c, "final") = [w EXCEPT ![c] = To("final")]
  BY ToFacts, Zenon DEF WorkPc
<1>4. PICK a \in Attempts : a = Own(c)
  BY <1>2, InProgress, Zenon
<1>5. PICK out \in Outcomes : out = w[c].out
  BY <1>1, Zenon DEF Fits, Local, Thread1, At
<1> DEFINE r == DoneRow(a, out)  tk == DoneTask(a, out)
<1>6. Local(c, w[c], call[c], Inv(c), a, Run(a), req[a], sends[a])
  BY <1>1, <1>4, Zenon DEF Fits
<1>7. /\ a \in Active /\ a \in Made /\ Run(a).call = c /\ Run(a).st = "RUNNING" /\ a # None
      /\ Run(a).out = out /\ ~Run(a).cut /\ Task.run <= a
      /\ Task.st = "RUNNING" /\ a = Latest /\ Active \subseteq {a}
      /\ \A d \in Calls : At(d, "select") => d = c
  <2>1. Run(a).st = "RUNNING" /\ Run(a).out = out
    BY <1>1, <1>2, <1>5, <1>6, Zenon DEF Local, Thread1, At
  <2>2. Task.run < a => Task.run <= a
    BY TaskFacts DEF Attempts, None
  <2>3. a \in Active => Task.run < a /\ Active \subseteq {a}
    BY ActiveFacts, Zenon DEF ManagedInv, Rows, Selected
  <2> QED BY <1>2, <1>4, <2>1, <2>2, <2>3, InProgress, Zenon
<1>8. /\ r \in Runs /\ r.st = out /\ r.out = out /\ r.res = out /\ r.cut = FALSE
      /\ r.call = c /\ tk \in Tasks
      /\ db' = Committed(a, out) => RunTo(a, r, tk)
  <2>0. \A o : DoneRow(a, o).st = o /\ DoneRow(a, o).out = Run(a).out /\ DoneRow(a, o).res = o
               /\ DoneRow(a, o).cut = Run(a).cut /\ DoneRow(a, o).call = Run(a).call
    <3> HIDE DEF r, tk
    <3> QED BY <1>7, RowFields
  <2>1. r.cut = Run(a).cut /\ Run(a).cut \in BOOLEAN
    BY <1>7, <2>0, RowFacts, Zenon
  <2>2. r \in Runs /\ tk \in Tasks /\ (db' = Committed(a, out) => RunTo(a, r, tk))
    BY <1>1, RunWrites, Zenon
  <2>3. r.st = out /\ r.out = Run(a).out /\ r.res = out /\ r.call = Run(a).call
    BY <2>0, Zenon
  <2> QED BY <1>7, <2>1, <2>2, <2>3
<1>9. tk.st = out /\ tk.run = a /\ tk.res = a /\ WholeTask(tk)
  BY <1>7 DEF DoneTask, WholeTask
<1> HIDE DEF r, tk
<1>10. MayRun(c, a, r, tk)
  BY <1>4, <1>7, <1>8, <1>9 DEF MayRun, RowOk, WholeRun, Outcomes, Successes
<1>11. RunFits(c, To("final"), a, r) /\ RunFits(c, To("finunk"), a, r)
  BY <1>1, <1>3, <1>6, <1>7, <1>8 DEF RunFits, Local, Thread1, Call1, Attempt1, Outcome1, Known, Driving, Running, Computed, Closed, At, Observed, Outcomes, Successes
<1>12. RunFits(c, To("finunk"), a, Run(a))
  BY <1>1, <1>3, <1>6 DEF RunFits, Local, Thread1, Call1, Attempt1, Outcome1, Known, Driving, Running, Computed, Closed, At
<1>13. Fits(c, To("finunk"), call[c], Inv(c))
  BY <1>4, <1>12, Zenon DEF RunFits, Fits
<1>14. Repeated(c, Committed(a, out), [w EXCEPT ![c] = To("final")], Go(c, "finunk"))
  BY <1>2, <1>3, <1>4, <1>5, Zenon DEF Result
<1>15. db' = Committed(a, out) => RunTo(a, r, tk) /\ Selected'
  <2>1. r.st \in Outcomes /\ RowOk(a, r) /\ r.res # "none"
    BY <1>8, <1>10 DEF MayRun, Outcomes, Successes
  <2> QED BY <1>7, <1>8, <1>9, <2>1, LastEnds, Zenon
<1>16. To("final").pc # "select"
  BY <1>3, Zenon
<1> QED BY <1>1, <1>3, <1>7, <1>8, <1>10, <1>11, <1>13, <1>14, <1>15, <1>16, RunTx, Zenon DEF WorkPc

\* _select_failed_execution.
LEMMA SelectStep ==
  ASSUME ManagedInv, NEW c \in Calls, Select(c)
  PROVE  ManagedInv' /\ Kept
<1>1. db \in Dbs /\ Fits(c, w[c], call[c], Inv(c)) /\ At(c, "select") /\ call' = call
      /\ UNCHANGED gpuVars /\ ~At(c, "idle")
  BY Zenon DEF ManagedInv, Types, Sound, Fits, Select, At
<1>2. Own(c) # None /\ Active = {} /\ Selecting
  BY <1>1, Zenon DEF Fits, Local, Thread1, At, ManagedInv, Selecting
<1>3. /\ To("finfail").pc = "finfail" /\ To("finunk").pc = "finunk" /\ To("finfail") \in Workers
      /\ Go(c, "finfail") = [w EXCEPT ![c] = To("finfail")]
  BY ToFacts, Zenon DEF WorkPc
<1>4. PICK a \in Attempts : a = Own(c)
  BY <1>1, <1>2, NoOtherSelects, Zenon
<1> DEFINE r == FailedRow(a)  tk == FailedTask(a)
<1>6. Local(c, w[c], call[c], Inv(c), a, Run(a), req[a], sends[a])
  BY <1>1, <1>4, Zenon DEF Fits
<1>7. /\ a \in Made /\ Run(a).call = c /\ Run(a).st = "FAILED" /\ a # None
      /\ Run(a).res = "none" /\ ~Run(a).cut /\ Task.run <= a
      /\ Task.st = "RUNNING" /\ a = Latest /\ Active \subseteq {a}
      /\ \A d \in Calls : At(d, "select") => d = c
  <2>1. Run(a).st = "FAILED" /\ Run(a).res = "none"
    BY <1>1, <1>6, Zenon DEF Local, Thread1, At
  <2>2. a = Latest /\ Task.run \in Made \cup {None} => Task.run <= a
    BY TaskFacts DEF Attempts, None
  <2>3. Task.run \in Made \cup {None}
    BY TaskFacts
  <2> QED BY <1>1, <1>2, <1>4, <2>1, <2>2, <2>3, NoOtherSelects, Zenon
<1>8. /\ r \in Runs /\ r.st = "FAILED" /\ r.out = Run(a).out /\ r.res = "none" /\ r.cut = FALSE
      /\ r.call = c /\ tk \in Tasks /\ r = Run(a)
      /\ db' = Failed(a) => RunTo(a, r, tk)
  <2>1. r.cut = Run(a).cut /\ Run(a).cut \in BOOLEAN
    BY <1>7, RowFields, RowFacts, Zenon
  <2>2. r = Run(a)
    <3>1. Run(a) \in Runs
      BY RowFacts
    <3> QED BY <1>7, <3>1 DEF FailedRow, Runs
  <2>3. r \in Runs /\ tk \in Tasks /\ (db' = Failed(a) => RunTo(a, r, tk))
    BY <1>1, RunWrites, Zenon
  <2> QED BY <1>7, <2>1, <2>2, <2>3, Zenon
<1>9. tk.st = "FAILED" /\ tk.run = a /\ tk.res = None /\ WholeTask(tk)
  BY DEF FailedTask, WholeTask
<1> HIDE DEF r, tk
<1>10. MayRun(c, a, r, tk)
  BY <1>4, <1>7, <1>8, <1>9 DEF MayRun, RowOk, WholeRun, Outcomes, Successes
<1>11. RunFits(c, To("finfail"), a, r) /\ RunFits(c, To("finunk"), a, r)
  BY <1>1, <1>3, <1>6, <1>7, <1>8 DEF RunFits, Local, Thread1, Call1, Attempt1, Outcome1, Known, Driving, Running, Computed, Closed, At, Observed, Outcomes, Successes
<1>12. RunFits(c, To("finunk"), a, Run(a))
  BY <1>1, <1>3, <1>6 DEF RunFits, Local, Thread1, Call1, Attempt1, Outcome1, Known, Driving, Running, Computed, Closed, At
<1>13. Fits(c, To("finunk"), call[c], Inv(c))
  BY <1>4, <1>12, Zenon DEF RunFits, Fits
<1>14. Reread(c, Failed(a), [w EXCEPT ![c] = To("finfail")], Go(c, "finunk"))
  BY <1>3, <1>4, <1>7, Zenon DEF Select, Reread
<1>15. db' = Failed(a) => RunTo(a, r, tk) /\ Selected'
  <2>1. r.st \in Outcomes /\ RowOk(a, r)
    BY <1>8, <1>10 DEF MayRun, Outcomes
  <2> QED BY <1>7, <1>8, <1>9, <2>1, LastEnds, Zenon
<1>16. To("finfail").pc # "select"
  BY <1>3, Zenon
<1> QED BY <1>1, <1>3, <1>7, <1>8, <1>10, <1>11, <1>13, <1>14, <1>15, <1>16, RunTx, Zenon DEF WorkPc

-----------------------------------------------------------------------------
(* A new attempt *)

NewRow(c) == [NoRun EXCEPT !.st = "PENDING", !.call = c]
Begun == [Task EXCEPT !.st = "RUNNING"]

AddTo(c, n) ==
  /\ db' \in Dbs /\ db'.task = Begun /\ db'.run = [db.run EXCEPT ![n] = NewRow(c)]
  /\ db'.inv = db.inv
MayAdd(c, n) ==
  /\ n \in Attempts /\ n = Latest + 1 /\ n <= c /\ Own(c) = None /\ Active = {}
  /\ \A a \in Made : Run(a).call < c
  /\ Made = {} => c = 1
  /\ Made # {} => Task.run # None
  /\ \A d \in Calls : ~At(d, "select")
  /\ Task.st # "SUCCEEDED"

\* The last of n + 1 attempts.
LEMMA LastOf ==
  ASSUME NEW n \in Nat \ {0}
  PROVE  (CHOOSE a \in 1..n : \A b \in 1..n : b <= a) = n
<1> DEFINE m == CHOOSE a \in 1..n : \A b \in 1..n : b <= a
<1>1. \E a \in 1..n : \A b \in 1..n : b <= a
  <2>1. n \in 1..n /\ \A b \in 1..n : b <= n
    OBVIOUS
  <2> QED BY <2>1
<1>2. m \in 1..n /\ \A b \in 1..n : b <= m
  BY <1>1, Zenon
<1> QED BY <1>2

\* The fields of a new attempt.
LEMMA NewRowFacts ==
  ASSUME NEW c \in Calls
  PROVE  /\ NewRow(c) \in Runs /\ NewRow(c).st = "PENDING" /\ NewRow(c).call = c
         /\ NewRow(c).out = "none" /\ NewRow(c).res = "none" /\ NewRow(c).cut = FALSE
<1>1. NoRun \in Runs /\ NoRun.out = "none" /\ NoRun.res = "none" /\ NoRun.cut = FALSE
  BY DEF NoRun, Runs
<1> DEFINE x == [NoRun EXCEPT !.st = "PENDING"]
<1>2. x \in Runs /\ x.st = "PENDING" /\ x.out = "none" /\ x.res = "none" /\ x.cut = FALSE
  BY <1>1 DEF Runs
<1>3. NewRow(c) = [x EXCEPT !.call = c]
  BY Zenon DEF NewRow
<1> HIDE DEF x
<1> QED BY <1>2, <1>3 DEF Runs

\* The rows after a new attempt, which is the next number.
LEMMA AddRows ==
  ASSUME ManagedInv, NEW c \in Calls, NEW n, AddTo(c, n), MayAdd(c, n)
  PROVE  /\ Rows' /\ Made' = Made \cup {n} /\ n \notin Made
         /\ \A b \in Attempts : Run(b)' = IF b = n THEN NewRow(c) ELSE Run(b)
         /\ Own(c)' = n /\ (\A d \in Calls : d # c => Own(d)' = Own(d) /\ Own(d) # n)
<1>1. n \in Attempts /\ n \notin Made /\ n # None /\ Latest \in Nat /\ Made = 1..Latest /\ n = Latest + 1
  BY TaskFacts DEF MayAdd, None
<1>2. \A b \in Attempts : Run(b)' = IF b = n THEN NewRow(c) ELSE Run(b)
  BY <1>1, DbFields DEF ManagedInv, Types, Run, AddTo
<1>3. \A b \in Attempts : b \in Made' <=> b \in Made \/ b = n
  BY <1>2, NewRowFacts, Zenon DEF Made
<1>4. Made' = Made \cup {n} /\ Made' = 1..n
  <2>1. Made' = Made \cup {n}
    BY <1>1, <1>3 DEF Made
  <2> QED BY <1>1, <2>1
<1>5. Latest' = n
  <2>1. n \in Nat \ {0} /\ Made' # {}
    BY <1>1, <1>4
  <2>2. Latest' = CHOOSE a \in 1..n : \A b \in 1..n : b <= a
    BY <1>4, <2>1, Zenon DEF Latest
  <2> QED BY <2>1, <2>2, LastOf
<1>6. Active' = {n}
  <2>1. \A b \in Attempts : b \in Active' <=> b = n
    <3>1. \A b \in Attempts : Run(b).st \notin {"PENDING", "RUNNING"}
      BY Zenon DEF Active, MayAdd
    <3>2. NewRow(c).st \in {"PENDING", "RUNNING"}
      BY NewRowFacts
    <3> QED BY <1>2, <3>1, <3>2, Zenon DEF Active
  <2> QED BY <1>1, <2>1 DEF Active
<1>7. Numbered /\ \A a \in Made : Run(a).call < c
  BY Zenon DEF ManagedInv, Rows, MayAdd
<1>8. \A a \in Made : a \in Attempts /\ a # n /\ a < n /\ Run(a)' = Run(a)
  BY <1>1, <1>2 DEF Made, Attempts
<1>9. Run(n)'.call = c
  BY <1>1, <1>2, NewRowFacts, Zenon
<1>10. Numbered'
  <2>1. \E m \in 0..MaxCalls : Made' = 1..m
    BY <1>1, <1>4 DEF Attempts
  <2>2. \A a \in Made' : Run(a)'.call \in Calls /\ a <= Run(a)'.call
    BY <1>4, <1>7, <1>8, <1>9, Zenon DEF Numbered, MayAdd
  <2>3. \A a, b \in Made' : a < b => Run(a)'.call < Run(b)'.call
    <3>1. ~(n < n) /\ \A a \in Made : ~(n < a)
      BY <1>1
    <3> QED BY <1>4, <1>7, <1>8, <1>9, <3>1, Zenon DEF Numbered
  <2>4. 1 \in Made' => Run(1)'.call = 1
    <3>1. CASE 1 \in Made
      BY <3>1, <1>7, <1>8, Zenon DEF Numbered
    <3>2. CASE 1 \notin Made
      <4>1. 1 = n /\ Made = {}
        BY <3>2, <1>1
      <4> QED BY <4>1, <1>9, Zenon DEF MayAdd
    <3> QED BY <3>1, <3>2
  <2> QED BY <2>1, <2>2, <2>3, <2>4, Zenon DEF Numbered
<1>11. Task' = Begun /\ Begun.st = "RUNNING" /\ Begun.run = Task.run /\ Begun.res = Task.res
  BY TaskFacts DEF Begun, Tasks, AddTo, Task
<1>12. WholeRows'
  <2>1. WholeTask(Task)'
    BY <1>11, Zenon DEF ManagedInv, Rows, WholeRows, WholeTask
  <2>2. /\ WholeRun(NewRow(c)) /\ NewRow(c).st \notin Successes
    BY NewRowFacts DEF WholeRun, Successes
  <2>3. ~NewRow(c).cut /\ NewRow(c).res = "none" /\ NewRow(c).out = "none"
    BY NewRowFacts
  <2>4. WholeRows
    BY Zenon DEF ManagedInv, Rows
  <2>5. ASSUME NEW b \in Attempts
        PROVE  /\ WholeRun(Run(b)')
               /\ Run(b)'.st = "none" => Run(b)'.out = "none"
               /\ Run(b)'.cut => Run(b)'.st = "FAILED" /\ Run(b)'.res = "none"
               /\ Run(b)'.res # "none" => Run(b)'.st = Run(b)'.res /\ Run(b)'.out = Run(b)'.res
               /\ Run(b)'.st \in Successes => Run(b)'.res = Run(b)'.st
    <3>1. CASE b = n
      BY <1>2, <2>2, <2>3, <3>1, Zenon
    <3>2. CASE b # n
      BY <1>2, <2>4, <3>2, Zenon DEF WholeRows
    <3> QED BY <3>1, <3>2
  <2> QED BY <2>1, <2>5, Zenon DEF WholeRows, WholeRun
<1>13. Selected'
  <2>1. SelectedAs(Task, Latest, Made, Active, Run(Task.run), Run(Latest))
    BY SelectedNow, Zenon DEF ManagedInv, Rows
  <2>2. Begun.run < n /\ (Begun.run = None => n <= 1)
    <3>1. Task.run \in Made \cup {None} /\ (Task.run = None => Made = {})
      BY TaskFacts, Zenon DEF MayAdd
    <3> QED BY <1>1, <1>11, <3>1 DEF None
  <2>3. SelectedAs(Begun, n, Made', Active', Run(Task.run), NewRow(c))
    <3>1. Begun.st \notin Outcomes
      BY <1>11 DEF Outcomes, Successes
    <3> QED BY <1>4, <1>6, <1>11, <2>1, <2>2, <3>1, NewRowFacts DEF SelectedAs
  <2>4. Begun.run # None => db'.run[Begun.run] = Run(Task.run)
    <3>1. Task.run # None => Task.run \in Made
      BY TaskFacts
    <3> QED BY <1>8, <1>11, <3>1, Zenon DEF Run
  <2>5. db'.run[n] = NewRow(c)
    BY <1>1, <1>2, Zenon DEF Run
  <2> QED BY <1>5, <1>11, <2>3, <2>4, <2>5, SelectedNext, Zenon
<1>14. Own(c)' = n
  <2>1. \A a \in Made' : Run(a)'.call = c => a = n
    <3>1. \A i \in Calls : ~(i < i)
      BY ManagedAssumption DEF Calls
    <3> QED BY <1>4, <1>7, <1>8, <3>1, Zenon
  <2>2. n \in Made' /\ Run(n)'.call = c
    BY <1>4, <1>9
  <2>3. PICK b \in Made' : b = Own(c)' /\ Run(b)'.call = c
    BY <2>2, Zenon DEF Own
  <2> QED BY <2>1, <2>3, Zenon
<1>15. ASSUME NEW d \in Calls, d # c PROVE Own(d)' = Own(d) /\ Own(d) # n
  <2>1. Own(d) # n
    BY <1>1, <1>7, OwnFacts, Zenon
  <2>2. CASE Own(d) # None
    <3>1. Own(d) \in Made /\ Run(Own(d)).call = d
      BY <1>7, <2>2, OwnFacts, Zenon
    <3>2. PICK a \in Made : a = Own(d) /\ Run(a).call = d
      BY <3>1
    <3>3. a \in Made' /\ Run(a)'.call = d
      BY <1>4, <1>8, <3>2
    <3>4. PICK b \in Made' : b = Own(d)' /\ Run(b)'.call = d
      BY <3>3, Zenon DEF Own
    <3>5. b \in Made /\ Run(b).call = d
      BY <3>4, <1>4, <1>8, <1>9, <1>15
    <3> QED BY <2>1, <3>4, <3>5, <1>7, OwnFacts, Zenon
  <2>3. CASE Own(d) = None
    <3>1. \A a \in Made : Run(a).call # d
      <4>1. \A a \in Made : a # None
        BY <1>1 DEF None
      <4> QED BY <2>3, <4>1, <1>7, OwnFacts, Zenon
    <3>2. \A b \in Made' : Run(b)'.call # d
      BY <3>1, <1>4, <1>8, <1>9, <1>15, Zenon
    <3> QED BY <2>1, <2>3, <3>2, Zenon DEF Own
  <2> QED BY <2>1, <2>2, <2>3, Zenon
<1> QED BY <1>1, <1>2, <1>4, <1>10, <1>12, <1>13, <1>14, <1>15, Zenon DEF Rows

\* Only the call of the new attempt and its record are touched.
AddedBy(c, n, t, k) ==
  /\ AddTo(c, n) /\ w' = [w EXCEPT ![c] = t] /\ call' = [call EXCEPT ![c] = k]
  /\ req' = req /\ sends' = sends
  /\ sys' \in [faults: 0..MaxFaults, crashes: 0..MaxCrashes]
MayCall(c, k) ==
  /\ call[c].st # "none" /\ k.st # "none"
  /\ Ended(c) => k.st = "over" \/ k.obs \in Observed \/ k.stopped
  /\ call[c].obs = "FAILED" => k.obs = "FAILED"

\* A step that adds an attempt keeps the invariant.
LEMMA AddStep ==
  ASSUME ManagedInv, NEW c \in Calls, NEW n, NEW t \in Workers, NEW k \in CallStates,
         AddedBy(c, n, t, k), MayAdd(c, n), MayCall(c, k), t.pc # "select",
         Local(c, t, k, Inv(c), n, NewRow(c), "none", 0)
  PROVE  ManagedInv' /\ Kept
<1>0. Types /\ Rows /\ Chain /\ Requested /\ Selecting /\ (\A d \in Calls : Sound(d))
  BY Zenon DEF ManagedInv
<1>1. /\ Rows' /\ Made' = Made \cup {n} /\ n \notin Made /\ n \in Attempts
      /\ \A b \in Attempts : Run(b)' = IF b = n THEN NewRow(c) ELSE Run(b)
      /\ Own(c)' = n /\ (\A d \in Calls : d # c => Own(d)' = Own(d) /\ Own(d) # n)
      /\ \A d \in Calls : Inv(d)' = Inv(d)
  BY AddRows, Zenon DEF AddedBy, MayAdd, AddTo, Inv
<1>2. /\ \A d \in Calls : w'[d] = IF d = c THEN t ELSE w[d]
      /\ \A d \in Calls : call'[d] = IF d = c THEN k ELSE call[d]
      /\ req' = req /\ sends' = sends
  BY <1>0 DEF Types, AddedBy
<1>3. Types'
  BY <1>0 DEF Types, AddedBy, AddTo
<1>4. Chain'
  BY <1>0, ChainStep, Zenon DEF Types, AddedBy, MayCall
<1>5. Run(n).st = "none"
  BY <1>1, Zenon DEF Made
<1>6. Requested'
  <2>1. Computing' = Computing
    BY <1>2, Zenon DEF Computing
  <2>2. \A b \in Attempts : Run(b)'.st = "none" => Run(b).st = "none"
    BY <1>1, <1>5, Zenon
  <2> QED BY <1>0, <1>2, <2>1, <2>2, Zenon DEF Requested
<1>7. Selecting'
  BY <1>2, Zenon DEF Selecting, At, MayAdd
<1>8. ASSUME NEW d \in Calls PROVE Sound(d)'
  <2>1. CASE d = c
    <3>1. req[n] = "none" /\ sends[n] = 0
      BY <1>0, <1>1, <1>5, Zenon DEF Requested
    <3>2. Local(c, w'[c], call'[c], Inv(c)', n, Run(n)', req'[n], sends'[n])
      BY <1>1, <1>2, <3>1, Zenon
    <3> QED BY <2>1, <1>1, <3>2, Zenon DEF Sound
  <2>2. CASE d # c
    <3>1. Own(d) \in Attempts \cup {None}
      BY <1>0, OwnFacts, Zenon DEF Rows
    <3> QED BY <2>2, <3>1, <1>0, <1>1, <1>2, Frame, Zenon
  <2> QED BY <2>1, <2>2, Zenon
<1>9. Kept
  <2>1. Task' = Begun /\ Begun.run = Task.run /\ Task.st # "SUCCEEDED"
    BY TaskFacts DEF Begun, Tasks, AddedBy, AddTo, Task, MayAdd
  <2>2. Task.run <= Task.run
    BY TaskFacts DEF Attempts, None
  <2>3. Run(n).st \notin Outcomes /\ Run(n).out = "none"
    <3>1. Run(n).out = "none"
      BY <1>0, <1>1, <1>5, Zenon DEF Rows, WholeRows
    <3> QED BY <1>5, <3>1 DEF Outcomes, Successes
  <2> QED BY <1>1, <1>5, <2>1, <2>2, <2>3, Zenon DEF Kept, Task, Run, Inv
<1> QED BY <1>1, <1>3, <1>4, <1>6, <1>7, <1>8, <1>9, Zenon DEF ManagedInv

Added(c, n) == [db EXCEPT !.task.st = "RUNNING", !.run[n] = NewRow(c)]

\* What such a step writes.
LEMMA AddWritten ==
  ASSUME db \in Dbs, NEW c \in Calls, NEW n \in Attempts, db' = Added(c, n)
  PROVE  AddTo(c, n)
<1>1. db = [task |-> db.task, run |-> db.run, inv |-> db.inv]
      /\ db.task \in Tasks /\ db.run \in [Attempts -> Runs] /\ db.inv \in [Calls -> Invocations]
  BY DbFields DEF Task
<1> DEFINE d == [db EXCEPT !.task = Begun]
           f == [db.run EXCEPT ![n] = NewRow(c)]
<1>2. Begun \in Tasks
  BY <1>1 DEF Begun, Task, Tasks
<1>3. d = [task |-> Begun, run |-> db.run, inv |-> db.inv]
  BY <1>1
<1>4. f \in [Attempts -> Runs]
  BY <1>1, NewRowFacts
<1>5. Added(c, n) = [d EXCEPT !.run[n] = NewRow(c)]
  BY Zenon DEF Added, Begun, Task
<1> HIDE DEF d
<1>6. [d EXCEPT !.run[n] = NewRow(c)] = [d EXCEPT !.run = f]
  <2>1. d.run = db.run
    BY <1>3
  <2> QED BY <2>1, Zenon
<1> HIDE DEF f
<1>7. [d EXCEPT !.run = f] = [task |-> Begun, run |-> f, inv |-> db.inv]
  BY <1>3
<1>8. db' = [task |-> Begun, run |-> f, inv |-> db.inv]
  BY <1>5, <1>6, <1>7, Zenon
<1>9. db' \in Dbs /\ db'.task = Begun /\ db'.run = f /\ db'.inv = db.inv
  BY <1>1, <1>2, <1>4, <1>8 DEF Dbs
<1> QED BY <1>9, Zenon DEF AddTo, f

\* _create_initial_pending_attempt.
LEMMA CreateStep ==
  ASSUME ManagedInv, NEW c \in Calls, Create(c)
  PROVE  ManagedInv' /\ Kept
<1>1. db \in Dbs /\ Fits(c, w[c], call[c], Inv(c)) /\ At(c, "create") /\ call' = call
      /\ UNCHANGED gpuVars /\ ~At(c, "idle") /\ Types /\ Inv(c) \in Invocations
      /\ call[c] \in CallStates
  BY DbFields, Zenon DEF ManagedInv, Types, Sound, Fits, Create, At
<1>2. c = 1 /\ Own(c) = None /\ call[c].st = "fenced" /\ call[c].obs = "none"
  BY <1>1, Zenon DEF Fits, Local, Thread1, At
<1>3. /\ To("start").pc = "start" /\ To("finunk").pc = "finunk" /\ To("finfail").pc = "finfail"
      /\ To("start") \in Workers /\ To("finunk") \in Workers
      /\ \A pc : Go(c, pc) = [w EXCEPT ![c] = To(pc)]
  BY ToFacts, Zenon DEF WorkPc
<1>4. CASE w' = Go(c, "finfail") /\ UNCHANGED <<db, sys>>
  <2>1. Fits(c, To("finfail"), call[c], Inv(c))
    BY <1>1, <1>2, <1>3 DEF Fits, Local, Thread1, Call1, Attempt1, Outcome1, Known, Driving, Running, Computed, Closed, At
  <2> QED BY <1>1, <1>4, <2>1, GoStep, Zenon DEF WorkPc
<1>5. CASE /\ Task.st = "READY" /\ Made = {} /\ ~call[c].stopped
           /\ Reread(c, Added(c, 1), Go(c, "start"), Go(c, "finunk"))
  <2>1. sys' \in [faults: 0..MaxFaults, crashes: 0..MaxCrashes]
    BY <1>1, <1>5, FaultFacts, Zenon DEF Reread, Tx
  <2>2. CASE db' = db /\ w' = Go(c, "finunk")
    <3>1. Fits(c, To("finunk"), call[c], Inv(c))
      BY <1>1, <1>2, <1>3 DEF Fits, Local, Thread1, Call1, Attempt1, Outcome1, Known, Driving, Running, Computed, Closed, At
    <3>2. To("finunk").pc # "select"
      BY <1>3, Zenon
    <3> QED BY <1>1, <1>3, <2>1, <2>2, <3>1, <3>2, DriveStep, Zenon
  <2>3. CASE db' = Added(c, 1) /\ \E pc \in {"start", "finunk"} : w' = Go(c, pc)
    <3>1. PICK pc \in {"start", "finunk"} : w' = Go(c, pc)
      BY <2>3
    <3>2. MayAdd(c, 1)
      <4>1. 1 \in Attempts /\ Latest = 0 /\ 1 <= c /\ 1 = Latest + 1
        BY <1>2, <1>5, TaskFacts, ManagedAssumption DEF Attempts, None
      <4>2. Active = {}
        BY <1>5 DEF Active, Made
      <4>3. \A d \in Calls : ~At(d, "select")
        BY <1>5, Zenon DEF ManagedInv, Selecting
      <4> QED BY <1>2, <1>5, <4>1, <4>2, <4>3, Zenon DEF MayAdd
    <3>3. AddTo(c, 1)
      BY <1>1, <2>3, <3>2, AddWritten, Zenon DEF MayAdd
    <3>4. call' = [call EXCEPT ![c] = call[c]]
      BY <1>1 DEF Types
    <3>5. AddedBy(c, 1, To(pc), call[c])
      BY <1>1, <1>3, <2>1, <3>1, <3>3, <3>4, Zenon DEF AddedBy, gpuVars
    <3>6. MayCall(c, call[c])
      BY <1>2, Zenon DEF MayCall, Ended
    <3>7. To(pc) \in Workers /\ To(pc).pc # "select" /\ To(pc).pc = pc
      BY <1>3, <3>1
    <3>8. Local(c, To(pc), call[c], Inv(c), 1, NewRow(c), "none", 0)
      BY <1>1, <1>2, <1>5, <3>1, <3>7, NewRowFacts DEF Fits, Local, Thread1, Call1, Attempt1, Outcome1, Known, Driving, Running, Computed, Closed, At, Observed, Outcomes, Successes, None
    <3> QED BY <1>1, <3>2, <3>5, <3>6, <3>7, <3>8, AddStep, Zenon
  <2> QED BY <1>5, <2>2, <2>3, Zenon DEF Reread, Tx
<1> QED BY <1>2, <1>4, <1>5, Zenon DEF Create, Added, NewRow

\* A record of the agent that ends the run before anything was dispatched.
Gone(c) == [call[c] EXCEPT !.st = "over"]
\* The fields of such a record.
LEMMA GoneFacts ==
  ASSUME call \in [Calls -> CallStates], NEW c \in Calls
  PROVE  /\ Over(c) = [call EXCEPT ![c] = Gone(c)] /\ Gone(c) \in CallStates
         /\ Gone(c).st = "over" /\ Gone(c).stopped = call[c].stopped /\ Gone(c).obs = call[c].obs
<1>1. call[c] \in CallStates
  OBVIOUS
<1>2. Over(c) = [call EXCEPT ![c] = Gone(c)]
  BY Zenon DEF Over, Gone
<1> QED BY <1>1, <1>2 DEF Gone, CallStates

-----------------------------------------------------------------------------
(* Steps of the agent *)

\* The agent writes its record of a call, the Invocation and the thread.
LEMMA AgentStep ==
  ASSUME ManagedInv, NEW c \in Calls, NEW i \in Invocations, NEW t \in Workers, NEW k \in CallStates,
         \/ db' = [db EXCEPT !.inv[c] = i]
         \/ db' = db /\ i = Inv(c),
         w' = [w EXCEPT ![c] = t], call' = [call EXCEPT ![c] = k], UNCHANGED gpuVars,
         sys' \in [faults: 0..MaxFaults, crashes: 0..MaxCrashes],
         Fits(c, t, k, i), t.pc = "select" => At(c, "select"), Chain',
         Inv(c).st \in {"SUCCEEDED", "FAILED", "DENIED"} => i = Inv(c)
  PROVE  ManagedInv' /\ Kept
<1>1. db \in Dbs
  BY Zenon DEF ManagedInv, Types
<1>2. /\ db' \in Dbs /\ db'.task = db.task /\ db'.run = db.run
      /\ db'.inv = [db.inv EXCEPT ![c] = i]
  BY <1>1, MaybeWritten, Zenon
<1>3. StepTo(c, t, k, i)
  BY <1>2, Zenon DEF StepTo, gpuVars
<1> QED BY <1>3, CoreStep, Zenon DEF Fits

\* The conversation admits a call after the earlier ones have ended.
LEMMA SubmitStep ==
  ASSUME ManagedInv, NEW c \in Calls, Submit(c)
  PROVE  ManagedInv' /\ Kept
<1>1. /\ Types /\ Chain /\ Fits(c, w[c], call[c], Inv(c)) /\ Inv(c) \in Invocations
      /\ call[c] \in CallStates /\ w[c] \in Workers /\ call[c].st = "none"
  BY DbFields, Zenon DEF ManagedInv, Types, Sound, Fits, Submit
<1> DEFINE k == [call[c] EXCEPT !.st = "prep"]
<1>2. k \in CallStates /\ k.st = "prep" /\ k.stopped = call[c].stopped /\ k.obs = call[c].obs
  BY <1>1 DEF CallStates
<1>3. call' = [call EXCEPT ![c] = k] /\ w' = [w EXCEPT ![c] = w[c]]
  BY <1>1, Zenon DEF Submit, Types
<1> HIDE DEF k
<1>4. \A d \in Calls : call'[d] = IF d = c THEN k ELSE call[d]
  BY <1>1, <1>3 DEF Types
<1>5. w[c].pc = "idle"
  BY <1>1, Zenon DEF Fits, Local, Thread1
<1>6. Fits(c, w[c], k, Inv(c))
  BY <1>1, <1>2, <1>5 DEF Fits, Local, Thread1, Call1, Attempt1, Outcome1, Known, Driving, Running, Computed, Closed
<1>7. Chain'
  <2>1. \A d \in Calls : call[d].obs = "FAILED" => call[d].st # "none"
    BY Zenon DEF ManagedInv, Sound, Local, Call1
  <2>2. 1 \in Calls
    BY ManagedAssumption DEF Calls
  <2>3. c # 1 => call[1].obs = "FAILED" /\ 1 # c
    <3>1. c # 1 => \E d \in Calls : call[d].obs = "FAILED"
      BY ManagedAssumption DEF Submit, Calls
    <3> QED BY <1>1, <2>1, <3>1, Zenon DEF Chain
  <2>4. \A d \in Calls : ~(d < d)
    BY ManagedAssumption DEF Calls
  <2>5. \A d \in Calls : c < d => call[d].st = "none"
    BY <1>1, Zenon DEF Chain
  <2>6. \A d \in Calls : call[d].st # "none" => ~(c < d)
    BY <2>5, Zenon
  <2>7. ASSUME NEW d \in Calls, call'[d].st # "none"
        PROVE  /\ \A e \in Calls : e < d => call'[e].st # "none" /\ Ended(e)'
               /\ d # 1 => call'[1].obs = "FAILED"
    <3>1. CASE d = c
      BY <1>4, <2>2, <2>3, <2>4, <3>1, Zenon DEF Ended, Submit
    <3>2. CASE d # c
      <4>1. call[d].st # "none" /\ ~(c < d)
        BY <1>4, <2>7, <2>6, <3>2, Zenon
      <4>2. \A e \in Calls : e < d => e # c
        BY <4>1, Zenon
      <4>3. call'[1].obs = call[1].obs
        BY <1>2, <1>4, <2>2, Zenon
      <4> QED BY <1>1, <1>4, <4>1, <4>2, <4>3, Zenon DEF Chain, Ended
    <3> QED BY <3>1, <3>2
  <2> QED BY <2>7, Zenon DEF Chain
<1>8. db' = db /\ UNCHANGED gpuVars /\ sys' \in [faults: 0..MaxFaults, crashes: 0..MaxCrashes]
  BY <1>1, FaultFacts, Zenon DEF Submit
<1>9. w[c].pc # "select"
  BY <1>5
<1> QED BY <1>1, <1>2, <1>3, <1>6, <1>7, <1>8, <1>9, AgentStep, Zenon

\* The dispatch fence.
LEMMA FenceStep ==
  ASSUME ManagedInv, NEW c \in Calls, Fence(c)
  PROVE  ManagedInv' /\ Kept
<1>1. /\ Types /\ Chain /\ Fits(c, w[c], call[c], Inv(c)) /\ Inv(c) \in Invocations
      /\ call \in [Calls -> CallStates] /\ call[c] \in CallStates /\ Prep(c)
  BY DbFields, Zenon DEF ManagedInv, Types, Sound, Fits, Fence
<1> DEFINE k == [call[c] EXCEPT !.st = "fenced"]
<1>2. k \in CallStates /\ k.st = "fenced" /\ k.stopped = call[c].stopped /\ k.obs = call[c].obs
  BY <1>1 DEF CallStates
<1>3. call' = [call EXCEPT ![c] = k] /\ w' = [w EXCEPT ![c] = To("claim")]
      /\ To("claim").pc = "claim" /\ To("claim") \in Workers
  BY <1>1, ToFacts, Zenon DEF Fence, WorkPc
<1> HIDE DEF k
<1>4. Fits(c, To("claim"), k, Inv(c))
  BY <1>1, <1>2, <1>3 DEF Fits, Local, Thread1, Call1, Attempt1, Outcome1, Known, Driving, Running, Computed, Closed, Prep, Fence, Observed, Outcomes, Successes
<1>5. call[c].obs = "none"
  BY <1>1, Zenon DEF Fits, Local, Call1, Prep
<1>6. Chain'
  <2>1. ~Ended(c)
    BY <1>1, <1>5 DEF Ended, Prep, Observed, Outcomes, Successes
  <2> QED BY <1>1, <1>2, <1>3, <1>5, <2>1, ChainStep DEF Prep
<1>7. db' = db /\ UNCHANGED gpuVars /\ sys' \in [faults: 0..MaxFaults, crashes: 0..MaxCrashes]
  BY <1>1, FaultFacts, Zenon DEF Fence
<1>8. To("claim").pc # "select"
  BY <1>3
<1> QED BY <1>1, <1>2, <1>3, <1>4, <1>6, <1>7, <1>8, AgentStep, Zenon

StopRecord(c) == [call EXCEPT ![c].stopped = TRUE, ![c].st = IF @ = "prep" THEN "over" ELSE @]

\* A stop ends the call for the conversation, not its thread.
LEMMA StopStep ==
  ASSUME ManagedInv, NEW c \in Calls, Stop(c)
  PROVE  ManagedInv' /\ Kept
<1>1. /\ Types /\ Chain /\ Fits(c, w[c], call[c], Inv(c)) /\ Inv(c) \in Invocations
      /\ call \in [Calls -> CallStates] /\ call[c] \in CallStates /\ w[c] \in Workers
      /\ call[c].st \in {"prep", "fenced"}
  BY DbFields, Zenon DEF ManagedInv, Types, Sound, Fits, Stop
<1> DEFINE x == [call[c] EXCEPT !.stopped = TRUE]
           st == IF call[c].st = "prep" THEN "over" ELSE call[c].st
           k == [x EXCEPT !.st = st]
<1>2. x \in CallStates /\ x.st = call[c].st /\ x.stopped = TRUE /\ x.obs = call[c].obs
  BY <1>1 DEF CallStates
<1>3. call' = [call EXCEPT ![c] = k]
  <2> DEFINE y == [call EXCEPT ![c] = x]
  <2>1. y[c] = x /\ \A v : [y EXCEPT ![c] = v] = [call EXCEPT ![c] = v]
    BY <1>1
  <2>2. StopRecord(c) = [y EXCEPT ![c].st = IF @ = "prep" THEN "over" ELSE @]
    BY Zenon DEF StopRecord
  <2> HIDE DEF y
  <2>3. k = [x EXCEPT !.st = IF x.st = "prep" THEN "over" ELSE x.st]
    BY <1>2, Zenon
  <2> HIDE DEF x, k, st
  <2>4. [y EXCEPT ![c].st = IF @ = "prep" THEN "over" ELSE @] = [y EXCEPT ![c] = k]
    BY <2>1, <2>3, Zenon
  <2> QED BY <2>1, <2>2, <2>4, Zenon DEF Stop, StopRecord
<1> HIDE DEF x
<1>4. k \in CallStates /\ k.st = st /\ k.stopped = TRUE /\ k.obs = call[c].obs
  BY <1>1, <1>2 DEF CallStates
<1>5. st = IF call[c].st = "prep" THEN "over" ELSE "fenced"
  BY <1>1
<1> HIDE DEF k, st
<1>6. w' = [w EXCEPT ![c] = w[c]] /\ db' = db /\ UNCHANGED gpuVars
      /\ sys' \in [faults: 0..MaxFaults, crashes: 0..MaxCrashes]
  BY <1>1, FaultFacts, Zenon DEF Stop, Types
<1>7. Fits(c, w[c], k, Inv(c))
  BY <1>1, <1>4, <1>5 DEF Fits, Local, Thread1, Call1, Attempt1, Outcome1, Known, Driving, Running, Computed, Closed
<1>8. Chain'
  BY <1>1, <1>3, <1>4, <1>5, ChainStep
<1> QED BY <1>1, <1>3, <1>4, <1>6, <1>7, <1>8, AgentStep, Zenon DEF At

\* What was not dispatched can only be closed as failed, and never computed.
LEMMA StopCloseStep ==
  ASSUME ManagedInv, NEW c \in Calls, StopClose(c)
  PROVE  ManagedInv' /\ Kept
<1>1. /\ Types /\ Chain /\ Fits(c, w[c], call[c], Inv(c)) /\ db \in Dbs
      /\ call \in [Calls -> CallStates] /\ call[c] \in CallStates /\ w[c] \in Workers
      /\ call[c].st = "over" /\ call[c].stopped /\ Inv(c).st = "PENDING"
  BY DbFields, Zenon DEF ManagedInv, Types, Sound, Fits, StopClose
<1> DEFINE i == [Inv(c) EXCEPT !.st = "FAILED"]
<1>2. /\ i \in Invocations /\ i.st = "FAILED" /\ i.sent = Inv(c).sent /\ i.run = Inv(c).run
      /\ db' = [db EXCEPT !.inv[c] = i]
  BY <1>1, StatusFacts, Zenon DEF StopClose
<1> HIDE DEF i
<1>3. w' = [w EXCEPT ![c] = w[c]] /\ call' = [call EXCEPT ![c] = call[c]] /\ UNCHANGED gpuVars
      /\ sys' \in [faults: 0..MaxFaults, crashes: 0..MaxCrashes]
  BY <1>1, FaultFacts, Zenon DEF StopClose, Types
<1>4. Fits(c, w[c], call[c], i) /\ w[c].pc # "select"
  BY <1>1, <1>2 DEF Fits, Local, Thread1, Call1, Attempt1, Outcome1, Known, Driving, Running, Computed, Closed
<1>5. Chain'
  BY <1>1, <1>3, ChainStep
<1> QED BY <1>1, <1>2, <1>3, <1>4, <1>5, AgentStep, Zenon

\* A call in preparation: whatever its transaction leaves in the agent's record,
\* nothing was dispatched and no later call was submitted.
LEMMA PrepFacts ==
  ASSUME ManagedInv, NEW c \in Calls, Prep(c)
  PROVE  /\ call[c].obs = "none" /\ w[c].pc = "idle" /\ ~Ended(c)
         /\ \A k \in {call[c], Gone(c)} :
              /\ k \in CallStates /\ k.st \in {"prep", "over"} /\ ~k.stopped /\ k.obs = "none"
              /\ MayCall(c, k)
              /\ call' = [call EXCEPT ![c] = k] => Chain'
         /\ call' \in {call, Over(c)} => \E k \in {call[c], Gone(c)} : call' = [call EXCEPT ![c] = k]
<1>1. /\ Types /\ Chain /\ Fits(c, w[c], call[c], Inv(c)) /\ call[c].st = "prep" /\ ~call[c].stopped
      /\ call \in [Calls -> CallStates] /\ call[c] \in CallStates
  BY Zenon DEF ManagedInv, Types, Sound, Fits, Prep
<1>2. call[c].obs = "none" /\ w[c].pc = "idle"
  BY <1>1, Zenon DEF Fits, Local, Thread1, Call1
<1>3. ~Ended(c)
  BY <1>1, <1>2 DEF Ended, Observed, Outcomes, Successes
<1>4. ASSUME NEW k \in {call[c], Gone(c)}
      PROVE  k \in CallStates /\ k.st \in {"prep", "over"} /\ ~k.stopped /\ k.obs = "none"
  BY <1>1, <1>2, GoneFacts
<1>5. ASSUME NEW k \in {call[c], Gone(c)}
      PROVE  MayCall(c, k) /\ (call' = [call EXCEPT ![c] = k] => Chain')
  <2>1. k.st # "none" /\ call[c].st # "none" /\ call[c].obs # "FAILED"
    BY <1>1, <1>2, <1>4
  <2> QED BY <1>1, <1>3, <1>4, <2>1, ChainStep, Zenon DEF MayCall
<1>6. call = [call EXCEPT ![c] = call[c]] /\ Over(c) = [call EXCEPT ![c] = Gone(c)]
  BY <1>1, GoneFacts
<1> QED BY <1>2, <1>3, <1>4, <1>5, <1>6, Zenon

\* An Invocation that names attempt a, or none.
NewInv(a) == [NoInvocation EXCEPT !.st = "PENDING", !.run = a]
\* The fields of a new Invocation.
LEMMA NewInvFacts ==
  ASSUME NEW a \in Attempts \cup {None}
  PROVE  /\ NewInv(a) \in Invocations /\ NewInv(a).st = "PENDING" /\ NewInv(a).run = a
         /\ NewInv(a).sent = FALSE
<1>1. NoInvocation \in Invocations /\ NoInvocation.sent = FALSE
  BY DEF NoInvocation, Invocations
<1> DEFINE x == [NoInvocation EXCEPT !.st = "PENDING"]
<1>2. x \in Invocations /\ x.st = "PENDING" /\ x.sent = FALSE
  BY <1>1 DEF Invocations
<1>3. NewInv(a) = [x EXCEPT !.run = a]
  BY Zenon DEF NewInv
<1> HIDE DEF x
<1> QED BY <1>2, <1>3 DEF Invocations

\* A transaction of the preparation that leaves the attempts alone.
LEMMA PrepStep ==
  ASSUME ManagedInv, NEW c \in Calls, NEW i \in Invocations, Prep(c), UNCHANGED <<w, gpuVars>>,
         \/ db' = [db EXCEPT !.inv[c] = i]
         \/ db' = db /\ i = Inv(c),
         call' \in {call, Over(c)}, sys' = sys \/ Fault,
         Inv(c).st \in {"SUCCEEDED", "FAILED", "DENIED"} => i = Inv(c),
         \A k \in CallStates : k.st \in {"prep", "over"} /\ ~k.stopped /\ k.obs = "none"
                              => Fits(c, w[c], k, i)
  PROVE  ManagedInv' /\ Kept
<1>1. Types /\ w[c] \in Workers
  BY Zenon DEF ManagedInv, Types
<1>2. PICK k \in {call[c], Gone(c)} : call' = [call EXCEPT ![c] = k]
  BY PrepFacts, Zenon
<1>3. /\ k \in CallStates /\ k.st \in {"prep", "over"} /\ ~k.stopped /\ k.obs = "none"
      /\ Chain' /\ w[c].pc = "idle"
  BY <1>2, PrepFacts, Zenon
<1>4. w[c].pc # "select"
  BY <1>3
<1>5. sys' \in [faults: 0..MaxFaults, crashes: 0..MaxCrashes]
  BY <1>1, FaultFacts, Zenon
<1>6. w' = [w EXCEPT ![c] = w[c]] /\ UNCHANGED gpuVars
  BY <1>1, Zenon DEF Types
<1>7. Fits(c, w[c], k, i)
  BY <1>3, Zenon
<1> QED BY <1>1, <1>2, <1>3, <1>4, <1>5, <1>6, <1>7, AgentStep, Zenon

\* Without an Invocation or with it, a call in preparation is sound.
LEMMA PrepSound ==
  ASSUME ManagedInv, NEW c \in Calls, Prep(c), NEW k \in CallStates,
         k.st \in {"prep", "over"}, ~k.stopped, k.obs = "none"
  PROVE  Fits(c, w[c], k, Inv(c))
<1>1. Fits(c, w[c], call[c], Inv(c)) /\ w[c].pc = "idle" /\ call[c].st = "prep" /\ ~call[c].stopped
      /\ call[c].obs = "none"
  BY PrepFacts, Zenon DEF ManagedInv, Sound, Fits, Prep
<1> QED BY <1>1 DEF Fits, Local, Thread1, Call1, Attempt1, Outcome1, Known, Driving, Running, Computed, Closed, Observed, Outcomes, Successes

\* The Invocation of a call is inserted.
LEMMA InsertStep ==
  ASSUME ManagedInv, NEW c \in Calls, Insert(c)
  PROVE  ManagedInv' /\ Kept
<1>1. Fits(c, w[c], call[c], Inv(c)) /\ Prep(c) /\ Inv(c).st = "none" /\ w[c].pc = "idle"
      /\ call[c].st = "prep" /\ ~call[c].stopped /\ call[c].obs = "none" /\ Inv(c) \in Invocations
  BY PrepFacts, DbFields, Zenon DEF ManagedInv, Types, Sound, Fits, Insert, Prep
<1> DEFINE own == Own(c)
           a == IF c = 1 THEN None ELSE own
           i == NewInv(a)
<1>2. own \in Attempts \cup {None} /\ (c # 1 => own # None) /\ (c = 1 => own = None)
  <2>1. c = 1 => own = None
    BY <1>1, Zenon DEF Fits, Local, Call1
  <2>2. c # 1 => own # None
    BY Zenon DEF Insert
  <2> QED BY <2>1, <2>2, OwnFacts, Zenon DEF ManagedInv, Rows
<1>3. i \in Invocations /\ i.st = "PENDING" /\ i.run = a /\ i.sent = FALSE
  BY <1>2, NewInvFacts
<1>4. /\ PrepTx(c, [db EXCEPT !.inv[c] = i]) /\ UNCHANGED <<w, gpuVars>>
  BY Zenon DEF Insert, NewInv
<1> HIDE DEF i
<1>5. ASSUME NEW k \in CallStates, k.st \in {"prep", "over"}, ~k.stopped, k.obs = "none"
      PROVE  Fits(c, w[c], k, i)
  <2>1. Local(c, w[c], call[c], Inv(c), own, Run(own), req[own], sends[own])
    BY <1>1, Zenon DEF Fits
  <2> HIDE DEF own
  <2>2. Local(c, w[c], k, i, own, Run(own), req[own], sends[own])
    BY <1>1, <1>2, <1>3, <1>5, <2>1 DEF Local, Thread1, Call1, Attempt1, Outcome1, Known, Driving, Running, Computed, Closed, Observed, Outcomes, Successes
  <2> QED BY <2>2, Zenon DEF Fits, own
<1>6. Inv(c).st \notin {"SUCCEEDED", "FAILED", "DENIED"}
  BY <1>1
<1>7. CASE db' = [db EXCEPT !.inv[c] = i]
  BY <1>1, <1>3, <1>4, <1>5, <1>6, <1>7, PrepStep, Zenon DEF PrepTx
<1>8. CASE db' = db
  BY <1>1, <1>4, <1>8, PrepSound, PrepStep, Zenon DEF PrepTx
<1> QED BY <1>4, <1>7, <1>8, Zenon DEF PrepTx

\* The calls of the attempts made so far precede a call that is prepared.
LEMMA EarlierCalls ==
  ASSUME ManagedInv, NEW c \in Calls, Prep(c), Own(c) = None
  PROVE  \A a \in Made : Run(a).call < c /\ a < c
<1>1. ~Ended(c) /\ Chain /\ Numbered
  BY PrepFacts, Zenon DEF ManagedInv, Rows
<1>2. ASSUME NEW a \in Made
      PROVE  Run(a).call < c /\ a < c
  <2>1. PICK d \in Calls : d = Run(a).call
    BY <1>1, OneCall, Zenon
  <2>2. Own(d) = a /\ a # None /\ a <= d /\ a \in Attempts
    BY <1>1, <2>1, OneCall, OwnFacts, Zenon DEF Numbered
  <2>3. call[d].st # "none"
    <3>1. Call1(d, w[d], call[d], Inv(d), Own(d), Run(Own(d)), req[Own(d)], sends[Own(d)])
      BY Zenon DEF ManagedInv, Sound, Local
    <3> QED BY <2>2, <3>1, Zenon DEF Call1
  <2>4. ~(c < d) /\ c # d
    BY <1>1, <2>2, <2>3, Zenon DEF Chain
  <2>5. d < c
    BY <2>4, ManagedAssumption DEF Calls
  <2>6. a < c
    BY <2>2, <2>5, ManagedAssumption DEF Calls, Attempts
  <2> QED BY <2>1, <2>5, <2>6
<1> QED BY <1>2

\* reserve_retry_attempt.
LEMMA ReserveStep ==
  ASSUME ManagedInv, NEW c \in Calls, Reserve(c)
  PROVE  ManagedInv' /\ Kept
<1>1. /\ Types /\ db \in Dbs /\ Inv(c) \in Invocations /\ Prep(c) /\ Own(c) = None /\ c > 1
      /\ UNCHANGED <<w, gpuVars>> /\ w[c] \in Workers /\ Fits(c, w[c], call[c], Inv(c))
  BY DbFields, Zenon DEF ManagedInv, Types, Sound, Fits, Reserve
<1>2. ASSUME db' = db, call' \in {call, Over(c)}, sys' = sys \/ Fault
      PROVE  ManagedInv' /\ Kept
  BY <1>1, <1>2, PrepSound, PrepStep, Zenon
<1>3. ASSUME Retryable(c), db' = Reserved(c), call' \in {call, Over(c)}, sys' = sys \/ Fault
      PROVE  ManagedInv' /\ Kept
  <2> DEFINE n == Latest + 1
  <2>1. Task.st \in {"FAILED", "PARTIALLY_SUCCEEDED"} /\ Active = {}
    BY <1>3, Zenon DEF Retryable
  <2>2. Made # {} /\ Task.run # None
    <3>1. SelectedAs(Task, Latest, Made, Active, Run(Task.run), Run(Latest))
      BY SelectedNow, Zenon DEF ManagedInv, Rows
    <3>2. Task.st \in Outcomes
      BY <2>1 DEF Outcomes, Successes
    <3>3. Made = {} => Latest = None
      BY TaskFacts
    <3>4. Made # {}
      BY <3>1, <3>2, <3>3, Zenon DEF SelectedAs
    <3> QED BY <1>3, <3>4, Zenon DEF Retryable, ManagedInv, Rows, WholeRows, WholeTask
  <2>3. MayAdd(c, n)
    <3>1. n \in Attempts /\ n <= c
      <4>1. Latest \in Made
        BY <2>2, TaskFacts DEF None
      <4>2. Latest < c /\ Latest \in Nat
        BY <1>1, <4>1, EarlierCalls, TaskFacts
      <4> QED BY <4>2, ManagedAssumption DEF Calls, Attempts
    <3>2. \A d \in Calls : ~At(d, "select")
      BY <2>1 DEF ManagedInv, Selecting
    <3>3. Task.st # "SUCCEEDED"
      BY <2>1
    <3> QED BY <1>1, <2>1, <2>2, <3>1, <3>2, <3>3, EarlierCalls, Zenon DEF MayAdd
  <2>4. AddTo(c, n)
    <3>1. db' = Added(c, n)
      BY <1>3, Zenon DEF Reserved, Added, NewRow
    <3> HIDE DEF n
    <3> QED BY <1>1, <2>3, <3>1, AddWritten, Zenon DEF MayAdd
  <2> HIDE DEF n
  <2>5. PICK k \in {call[c], Gone(c)} : call' = [call EXCEPT ![c] = k]
    BY <1>1, <1>3, PrepFacts, Zenon
  <2>6. /\ k \in CallStates /\ k.st \in {"prep", "over"} /\ ~k.stopped /\ k.obs = "none"
        /\ MayCall(c, k) /\ w[c].pc = "idle"
    BY <1>1, <2>5, PrepFacts, Zenon
  <2>7. sys' \in [faults: 0..MaxFaults, crashes: 0..MaxCrashes]
    BY <1>1, <1>3, FaultFacts, Zenon
  <2>8. AddedBy(c, n, w[c], k)
    BY <1>1, <2>4, <2>5, <2>7, Zenon DEF AddedBy, gpuVars, Types
  <2>9. w[c].pc # "select" /\ c # 1
    BY <1>1, <2>6 DEF Calls
  <2>10. call[c].st = "prep" /\ ~call[c].stopped
    BY <1>1, Zenon DEF Prep
  <2>11. Inv(c).st = "none" /\ Inv(c).run = None
    BY <1>1, <2>9, <2>10, Zenon DEF Fits, Local, Call1
  <2>12. Local(c, w[c], k, Inv(c), n, NewRow(c), "none", 0)
    BY <1>1, <2>6, <2>9, <2>10, <2>11, NewRowFacts DEF Fits, Local, Thread1, Call1, Attempt1, Outcome1, Known, Driving, Running, Computed, Closed, Observed, Outcomes, Successes, None
  <2> QED BY <1>1, <2>3, <2>6, <2>8, <2>9, <2>12, AddStep, Zenon
<1>4. sys' = sys \/ Fault
  BY Zenon DEF Reserve, PrepTx
<1> QED BY <1>2, <1>3, <1>4, Zenon DEF Reserve, PrepTx

\* The input of the task is complete; nothing else changes.
LEMMA ReadyRows ==
  ASSUME ManagedInv, Task.st = "none", db' = [db EXCEPT !.task.st = "READY"]
  PROVE  /\ Rows' /\ db' \in Dbs /\ db'.run = db.run /\ db'.inv = db.inv /\ Kept
         /\ \A a \in Attempts : Run(a)' = Run(a)
         /\ \A c \in Calls : Own(c)' = Own(c) /\ Inv(c)' = Inv(c)
         /\ \A d \in Calls : ~At(d, "select")
<1> DEFINE tk == [Task EXCEPT !.st = "READY"]
<1>1. db \in Dbs /\ Task \in Tasks
  BY TaskFacts, Zenon DEF ManagedInv, Types
<1>2. tk \in Tasks /\ tk.st = "READY" /\ tk.run = Task.run /\ tk.res = Task.res
  BY <1>1 DEF Tasks
<1>3. db = [task |-> db.task, run |-> db.run, inv |-> db.inv]
      /\ db.run \in [Attempts -> Runs] /\ db.inv \in [Calls -> Invocations]
  BY <1>1, DbFields
<1>4. db' = [db EXCEPT !.task = tk]
  BY Zenon DEF Task
<1> HIDE DEF tk
<1>5. db' \in Dbs /\ db'.run = db.run /\ db'.inv = db.inv /\ db'.task = tk
  BY <1>2, <1>3, <1>4 DEF Dbs
<1>6. /\ \A a \in Attempts : Run(a)' = Run(a)
      /\ \A a \in Made : Run(a)'.call = Run(a).call
      /\ \A c \in Calls : Inv(c)' = Inv(c)
      /\ Task' = tk /\ Made' = Made /\ Active' = Active
  BY <1>5, Zenon DEF Run, Inv, Task, Made, Active
<1>7. Latest' = Latest
  BY <1>6 DEF Latest
<1>8. Rows /\ Numbered
  BY Zenon DEF ManagedInv, Rows
<1>9. \A c \in Calls : Own(c)' = Own(c)
  BY <1>6, <1>8, OwnKept, Zenon
<1>10. Numbered'
  BY <1>6, <1>8, Zenon DEF Numbered
<1>11. WholeRows'
  BY <1>2, <1>6, <1>8, Zenon DEF Rows, WholeRows, WholeTask
<1>12. Selected'
  <2>1. SelectedAs(Task, Latest, Made, Active, Run(Task.run), Run(Latest))
    BY <1>8, SelectedNow, Zenon DEF Rows
  <2>2. db'.run[tk.run] = Run(Task.run) /\ db'.run[Latest] = Run(Latest)
    BY <1>2, <1>5, Zenon DEF Run
  <2>3. tk.st \notin Outcomes /\ Task.st \notin Outcomes /\ Task.st # "RUNNING" /\ Task.st # "FAILED"
    BY <1>2 DEF Outcomes, Successes
  <2>4. Latest # None => Run(Latest).res = "none"
    <3>1. Latest # None => Latest \in Attempts
      BY TaskFacts DEF None, Attempts
    <3>2. Latest # None => Run(Latest).res \in Outcomes \cup {"none"}
      BY <3>1, RowFacts, Zenon
    <3> QED BY <2>1, <2>3, <3>2, Zenon DEF SelectedAs
  <2>5. SelectedAs(tk, Latest, Made', Active', Run(Task.run), Run(Latest))
    BY <1>2, <1>6, <2>1, <2>3, <2>4, Zenon DEF SelectedAs
  <2> QED BY <1>6, <1>7, <2>2, <2>5, SelectedNext, Zenon
<1>13. Kept
  <2>1. Task.run <= Task.run /\ Task.st # "SUCCEEDED"
    BY TaskFacts DEF Attempts, None
  <2> QED BY <1>2, <1>5, <1>6, <2>1, Zenon DEF Kept, Task, Run, Inv
<1>14. \A d \in Calls : ~At(d, "select")
  BY DEF ManagedInv, Selecting
<1> QED BY <1>5, <1>6, <1>8, <1>9, <1>10, <1>11, <1>12, <1>13, <1>14, Zenon DEF Rows

\* _save_revision: the task of the first call.
LEMMA ResolveStep ==
  ASSUME ManagedInv, NEW c \in Calls, Resolve(c)
  PROVE  ManagedInv' /\ Kept
<1>1. /\ Types /\ db \in Dbs /\ Inv(c) \in Invocations /\ Prep(c)
      /\ UNCHANGED <<w, gpuVars>> /\ w' = w /\ req' = req /\ sends' = sends
  BY DbFields, Zenon DEF ManagedInv, Types, Resolve, gpuVars
<1>2. call' \in {call, Over(c)} /\ (sys' = sys \/ Fault)
  BY Zenon DEF Resolve, PrepTx
<1>3. CASE db' = db
  BY <1>1, <1>2, <1>3, PrepSound, PrepStep, Zenon
<1>4. CASE db' = [db EXCEPT !.task.st = "READY"]
  <2>0. Types /\ Rows /\ Chain /\ Requested /\ Selecting /\ (\A d \in Calls : Sound(d))
    BY Zenon DEF ManagedInv
  <2>1. /\ Rows' /\ db' \in Dbs /\ db'.run = db.run /\ Kept
        /\ \A a \in Attempts : Run(a)' = Run(a)
        /\ \A d \in Calls : Own(d)' = Own(d) /\ Inv(d)' = Inv(d)
        /\ \A d \in Calls : ~At(d, "select")
    BY <1>4, ReadyRows, Zenon DEF Resolve
  <2>2. PICK k \in {call[c], Gone(c)} : call' = [call EXCEPT ![c] = k]
    BY <1>1, <1>2, PrepFacts, Zenon
  <2>3. /\ k \in CallStates /\ k.st \in {"prep", "over"} /\ ~k.stopped /\ k.obs = "none" /\ Chain'
    BY <1>1, <2>2, PrepFacts, Zenon
  <2>4. \A d \in Calls : call'[d] = IF d = c THEN k ELSE call[d]
    BY <2>0, <2>2 DEF Types
  <2>5. sys' \in [faults: 0..MaxFaults, crashes: 0..MaxCrashes]
    BY <1>2, <2>0, FaultFacts, Zenon
  <2>6. Types'
    BY <1>1, <2>0, <2>1, <2>2, <2>3, <2>5 DEF Types
  <2>7. Requested'
    <3>1. Computing' = Computing
      BY <1>1, Zenon DEF Computing
    <3> QED BY <1>1, <2>0, <2>1, <3>1, Zenon DEF Requested
  <2>8. Selecting'
    BY <1>1, <2>1, Zenon DEF Selecting, At
  <2>9. ASSUME NEW d \in Calls PROVE Sound(d)'
    <3>1. CASE d = c
      <4>1. Fits(c, w[c], k, Inv(c))
        BY <1>1, <2>3, PrepSound, Zenon
      <4>2. (Run(Own(c)))' = Run(Own(c))
        BY <2>1, Zenon DEF Run
      <4> QED BY <1>1, <2>1, <2>4, <3>1, <4>1, <4>2, Zenon DEF Sound, Fits
    <3>2. CASE d # c
      <4>1. Own(d) \in Attempts \cup {None}
        BY <2>0, OwnFacts, Zenon DEF Rows
      <4> QED BY <1>1, <2>0, <2>1, <2>4, <3>2, <4>1, Frame, Zenon
    <3> QED BY <3>1, <3>2
  <2> QED BY <2>1, <2>3, <2>6, <2>7, <2>8, <2>9, Zenon DEF ManagedInv
<1> QED BY <1>3, <1>4, Zenon DEF Resolve, PrepTx

-----------------------------------------------------------------------------
(* The observation *)

\* A call that may still be observed: its thread has gone or is at its end.
Observable(c) ==
  call[c].st = "fenced" /\ call[c].obs \in {"none", "unknown"} /\ w[c].pc \in {"idle", "end", "lost"}

\* A selected result that is not another one's settles the call, and belongs to
\* it unless it was stopped.
LEMMA ResultSettles ==
  ASSUME ManagedInv, NEW c \in Calls, Observable(c), ~Mismatch(c), Task.res # None
  PROVE  /\ Own(c) # None => Known(Run(Own(c)), req[Own(c)], sends[Own(c)])
         /\ ~call[c].stopped => Own(c) = Task.res
         /\ Run(Task.res).res \in Outcomes /\ Run(Task.res).st = Run(Task.res).res
<1>1. /\ Fits(c, w[c], call[c], Inv(c)) /\ Numbered /\ Selected
      /\ call[c].st = "fenced" /\ call[c].obs \notin Observed
  BY DEF ManagedInv, Sound, Fits, Rows, Observable, Observed, Outcomes, Successes
<1>2. PICK a \in Attempts : a = Task.res
  BY TaskFacts
<1>3. a \in Made /\ a # None /\ Run(a).res # "none" /\ Latest \in Nat /\ a <= Latest /\ a \in Nat \ {0}
  BY <1>1, <1>2, TaskFacts DEF Selected, None, Attempts
<1>4. Run(a).res \in Outcomes /\ Run(a).st = Run(a).res /\ ~Run(a).cut
  BY <1>3, RowFacts
<1>5. Inv(c).run \in {None, a}
  BY <1>2, Zenon DEF Mismatch
<1>6. CASE c = 1
  <2>1. Own(c) = Latest
    BY <1>1, <1>6, AtWork
  <2>2. Own(c) # None
    BY <1>3, <2>1 DEF None
  <2>3. Own(c) = a
    BY <1>3, <1>6, <2>1, <2>2, FirstCall
  <2> QED BY <1>2, <1>4, <2>2, <2>3, ResultIsKnown, Zenon
<1>7. CASE c # 1
  <2>1. Own(c) # None /\ Inv(c).run = a
    BY <1>1, <1>3, <1>5, <1>7, Zenon DEF Fits, Local, Call1
  <2>2. ~call[c].stopped => Own(c) = a
    BY <1>1, <1>3, <2>1, Zenon DEF Fits, Local, Outcome1
  <2>3. CASE Own(c) = a
    BY <1>2, <1>4, <2>1, <2>3, ResultIsKnown, Zenon
  <2>4. CASE Own(c) # a
    <3>1. Inv(c).run \notin {None, Own(c)}
      BY <1>3, <2>1, <2>4
    <3>2. Known(Run(Own(c)), req[Own(c)], sends[Own(c)])
      BY <1>1, <2>1, <3>1, Zenon DEF Fits, Local, Outcome1
    <3> QED BY <1>2, <1>4, <2>2, <2>4, <3>2, Zenon
  <2> QED BY <2>3, <2>4
<1> QED BY <1>6, <1>7

\* A task that failed without a result, and was not interrupted, did so with the
\* attempt of the call at work.
LEMMA FailureIsOwn ==
  ASSUME ManagedInv, NEW c \in Calls, Observable(c), ~call[c].stopped, Own(c) # None,
         Task.res = None, Task.st = "FAILED"
  PROVE  Run(Own(c)).st = "FAILED"
<1>1. call[c].st = "fenced" /\ call[c].obs \notin Observed /\ Selected
  BY DEF ManagedInv, Rows, Observable, Observed, Outcomes, Successes
<1>2. PICK a \in Attempts : a = Own(c)
  BY OwnFacts, Zenon DEF ManagedInv, Rows
<1>3. a = Latest /\ a # None /\ a \in Made
  BY <1>1, <1>2, AtWork, OwnFacts, Zenon DEF ManagedInv, Rows
<1>4. Run(a).res = "none"
  BY <1>1, <1>3, Zenon DEF Selected
<1>5. Run(a).st \notin {"PENDING", "RUNNING"}
  <2>1. a \in Active => Task.st = "RUNNING"
    BY <1>1, Zenon DEF Selected
  <2> QED BY <2>1, Zenon DEF Active
<1>6. Run(a).st \in Outcomes /\ Run(a).st \notin Successes
  BY <1>3, <1>4, <1>5, RowFacts DEF Outcomes, Successes
<1> QED BY <1>2, <1>6 DEF Outcomes

\* The Invocation after repair.
RepairedInv(c) ==
  IF Task.res # None /\ Inv(c).st \in {"RUNNING", "OUTCOME_UNKNOWN"}
    THEN [st |-> Status(Run(Task.res).res = "FAILED"), run |-> Task.res, sent |-> Inv(c).sent]
  ELSE Inv(c)

\* The rows d differ in the Invocation of c alone, which is i.
Writes(c, i, d) == d = [db EXCEPT !.inv[c] = i] \/ (d = db /\ i = Inv(c))

\* What repair writes; a settled Invocation it leaves alone.
LEMMA RepairWritten ==
  ASSUME ManagedInv, NEW c \in Calls
  PROVE  /\ RepairedInv(c) \in Invocations
         /\ Writes(c, RepairedInv(c), Repaired(c).db)
         /\ Inv(c).st \in {"SUCCEEDED", "FAILED", "DENIED"} => RepairedInv(c) = Inv(c)
<1>1. db \in Dbs /\ Inv(c) \in Invocations /\ Task.res \in Attempts \cup {None}
  BY DbFields, TaskFacts, Zenon DEF ManagedInv, Types
<1>2. CASE Task.res # None /\ Inv(c).st \in {"RUNNING", "OUTCOME_UNKNOWN"}
  <2> DEFINE st == Status(Run(Task.res).res = "FAILED")
  <2>1. st \in {"SUCCEEDED", "FAILED"}
    BY Zenon DEF Status
  <2>2. RepairedInv(c) = [st |-> st, run |-> Task.res, sent |-> Inv(c).sent]
    BY <1>2, Zenon DEF RepairedInv
  <2>3. RepairedInv(c) \in Invocations
    <3> HIDE DEF st
    <3> QED BY <1>1, <2>1, <2>2 DEF Invocations
  <2>4. Repaired(c).db = Named(c, st, Task.res)
    BY <1>2, Zenon DEF Repaired, Named
  <2>5. Named(c, st, Task.res) = [db EXCEPT !.inv[c] = RepairedInv(c)]
    <3> HIDE DEF st
    <3>1. Named(c, st, Task.res) = [db EXCEPT !.inv[c] = [st |-> st, run |-> Task.res, sent |-> Inv(c).sent]]
      BY <1>1, TwoWritten
    <3> QED BY <2>2, <3>1, Zenon
  <2>6. Inv(c).st \notin {"SUCCEEDED", "FAILED", "DENIED"}
    BY <1>2
  <2> HIDE DEF st
  <2>7. Writes(c, RepairedInv(c), Repaired(c).db)
    BY <2>4, <2>5, Zenon DEF Writes
  <2> QED BY <2>3, <2>6, <2>7, Zenon
<1>3. CASE ~(Task.res # None /\ Inv(c).st \in {"RUNNING", "OUTCOME_UNKNOWN"})
  <2>1. RepairedInv(c) = Inv(c)
    BY <1>3, Zenon DEF RepairedInv
  <2>2. Repaired(c).db = db
    BY <1>3, Zenon DEF Repaired
  <2> QED BY <1>1, <2>1, <2>2, Zenon DEF Writes
<1> QED BY <1>2, <1>3

\* What is reported of a call: nothing new, or what repair finds.
MayReport(c, o) ==
  \/ o = call[c].obs
  \/ o = Repaired(c).obs /\ o # "none"
  \/ o = Observation(c) /\ w[c].pc # "idle"

\* What may be reported of a call whose task selects no result.
LEMMA ReportCases ==
  ASSUME NEW c \in Calls, NEW o, MayReport(c, o), Task.res = None
  PROVE  \/ o = call[c].obs
         \/ o = "unknown"
         \/ o = "FAILED" /\ Inv(c).st = "FAILED" /\ Task.st = "FAILED"
         \/ o = "closed" /\ Inv(c).st = "FAILED"
         \/ o = "closed" /\ Inv(c).st # "OUTCOME_UNKNOWN" /\ w[c].pc \notin {"idle", "lost"}
<1> DEFINE x == CASE Inv(c).st = "OUTCOME_UNKNOWN" -> "unknown"
                  [] Inv(c).st = "FAILED" ->
                       IF Task.st = "FAILED" /\ ~Cut THEN "FAILED" ELSE "closed"
                  [] OTHER -> "none"
<1>1. Repaired(c).obs = x
  BY Zenon DEF Repaired
<1>2. /\ Inv(c).st = "OUTCOME_UNKNOWN" => x = "unknown"
      /\ Inv(c).st = "FAILED" => x \in {"FAILED", "closed"} /\ (x = "FAILED" => Task.st = "FAILED")
      /\ Inv(c).st \notin {"OUTCOME_UNKNOWN", "FAILED"} => x = "none"
  OBVIOUS
<1> HIDE DEF x
<1>3. Observation(c) = IF x # "none" THEN x ELSE IF At(c, "lost") THEN "unknown" ELSE "closed"
  BY <1>1, Zenon DEF Observation
<1>4. o = call[c].obs \/ (o = x /\ x # "none")
      \/ (x = "none" /\ w[c].pc # "idle" /\ o = IF w[c].pc = "lost" THEN "unknown" ELSE "closed")
  BY <1>1, <1>3, Zenon DEF MayReport, At
<1> QED BY <1>2, <1>4

\* After repair, what is reported is the settled outcome of the own attempt.
LEMMA RepairSound ==
  ASSUME ManagedInv, NEW c \in Calls, Observable(c), ~Mismatch(c),
         NEW t \in Workers, t.pc = "idle", NEW k \in CallStates, k.st = "fenced",
         k.stopped = call[c].stopped, MayReport(c, k.obs)
  PROVE  Fits(c, t, k, RepairedInv(c))
<1> DEFINE own == Own(c)  r == Run(Own(c))  q == req[Own(c)]  s == sends[Own(c)]
<1>1. /\ Local(c, w[c], call[c], Inv(c), own, r, q, s)
      /\ call[c].st = "fenced" /\ call[c].obs \in {"none", "unknown"} /\ w[c].pc \in {"idle", "end", "lost"}
  BY Zenon DEF ManagedInv, Sound, Observable
<1>2. CASE Task.res = None
  <2>1. RepairedInv(c) = Inv(c)
    BY <1>2, Zenon DEF RepairedInv
  <2>2. \/ k.obs \in {"none", "unknown"}
        \/ k.obs = "FAILED" /\ Inv(c).st = "FAILED" /\ Task.st = "FAILED"
        \/ k.obs = "closed" /\ Inv(c).st = "FAILED"
        \/ k.obs = "closed" /\ Inv(c).st # "OUTCOME_UNKNOWN" /\ w[c].pc = "end"
    BY <1>1, <1>2, ReportCases
  <2>3. Task.st = "FAILED" /\ ~k.stopped /\ own # None => r.st = "FAILED"
    BY <1>2, FailureIsOwn, Zenon
  <2> HIDE DEF own, r, q, s
  <2>4. Local(c, t, k, Inv(c), own, r, q, s)
    BY <1>1, <2>2, <2>3 DEF Local, Thread1, Call1, Attempt1, Outcome1, Driving, Running, Computed, Closed, Observed, Outcomes, Successes
  <2> QED BY <2>1, <2>4, Zenon DEF Fits, own, r, q, s
<1>3. CASE Task.res # None
  <2> DEFINE x == Run(Task.res).res
             i == RepairedInv(c)
             i0 == Inv(c)
  <2>1. Repaired(c).obs = x
    BY <1>3, Zenon DEF Repaired
  <2>2. /\ own # None => Known(r, q, s)
        /\ ~k.stopped => own = Task.res
        /\ x \in Outcomes /\ Run(Task.res).st = x
    BY <1>3, ResultSettles, Zenon
  <2>3. k.obs \in {"none", "unknown", x}
    <3>1. x # "none"
      BY <2>2 DEF Outcomes, Successes
    <3>2. Observation(c) = x
      BY <2>1, <3>1, Zenon DEF Observation
    <3> QED BY <1>1, <2>1, <3>2 DEF MayReport
  <2>4. ~k.stopped => own # None /\ r.res = x /\ r.st = x
    BY <1>3, <2>2, Zenon
  <2>5. IF i0.st \in {"RUNNING", "OUTCOME_UNKNOWN"}
          THEN i.st = (IF x = "FAILED" THEN "FAILED" ELSE "SUCCEEDED") /\ i.run = Task.res /\ i.sent = i0.sent
        ELSE i = i0
    <3>1. CASE i0.st \in {"RUNNING", "OUTCOME_UNKNOWN"}
      <4>1. i = [st |-> Status(x = "FAILED"), run |-> Task.res, sent |-> i0.sent]
        BY <1>3, <3>1, Zenon DEF RepairedInv
      <4>2. Status(x = "FAILED") = IF x = "FAILED" THEN "FAILED" ELSE "SUCCEEDED"
        BY Zenon DEF Status
      <4> HIDE DEF i, x, i0
      <4> QED BY <3>1, <4>1, <4>2
    <3>2. CASE i0.st \notin {"RUNNING", "OUTCOME_UNKNOWN"}
      BY <3>2, Zenon DEF RepairedInv
    <3> QED BY <3>1, <3>2
  <2>6. PICK a : a = Task.res
    OBVIOUS
  <2> HIDE DEF own, r, q, s, x, i, i0
  <2>7. Local(c, w[c], call[c], i0, own, r, q, s)
    BY <1>1, Zenon DEF i0
  <2>8. Thread1(c, t, k, i, own, r, q, s)
    BY DEF Thread1, Driving, Running, Computed
  <2>9. Call1(c, t, k, i, own, r, q, s)
    BY <1>1, <1>3, <2>3, <2>5, <2>7 DEF Local, Call1
  <2>10. Attempt1(c, t, k, i, own, r, q, s)
    BY <2>5, <2>7 DEF Local, Attempt1
  <2>11. Outcome1(c, t, k, i, own, r, q, s)
    <3>1. own # None => Known(r, q, s)
      BY <2>2
    <3>2. x = "FAILED" \/ x \in Successes
      BY <2>2 DEF Outcomes
    <3>3. ~k.stopped =>
            /\ i.run # None => i.run = own
            /\ own # None /\ i.st = "SUCCEEDED" => r.res \in Successes
            /\ own # None /\ i.st = "FAILED" => r.res \notin Successes
            /\ k.obs \in Successes => own # None /\ r.res = k.obs
            /\ k.obs = "FAILED" /\ own # None => r.st = "FAILED"
      BY <2>2, <2>3, <2>4, <2>5, <2>7, <3>2 DEF Local, Outcome1, Successes
    <3>4. i.st \notin {"RUNNING", "OUTCOME_UNKNOWN"}
      BY <2>5
    <3> QED BY <3>1, <3>3, <3>4, Zenon DEF Outcome1
  <2> QED BY <2>8, <2>9, <2>10, <2>11, Zenon DEF Fits, Local, own, r, q, s, i
<1> QED BY <1>2, <1>3

\* A report is an observation.
LEMMA ReportIsTyped ==
  ASSUME ManagedInv, NEW c \in Calls, Observable(c), ~Mismatch(c), NEW o, MayReport(c, o)
  PROVE  LET k == [call[c] EXCEPT !.obs = o]
         IN  k \in CallStates /\ k.st = "fenced" /\ k.stopped = call[c].stopped /\ k.obs = o
<1>1. call[c] \in CallStates /\ call[c].st = "fenced"
  BY DEF ManagedInv, Types, Observable
<1>2. o \in Observed \cup {"none", "unknown"}
  <2>1. CASE Task.res = None
    <3>1. call[c].obs \in {"none", "unknown"}
      BY DEF Observable
    <3> QED BY <2>1, <3>1, ReportCases DEF Observed, Outcomes
  <2>2. CASE Task.res # None
    <3>1. Repaired(c).obs = Run(Task.res).res
      BY <2>2, Zenon DEF Repaired
    <3>2. Run(Task.res).res \in Outcomes
      BY <2>2, ResultSettles, Zenon
    <3>3. Run(Task.res).res # "none"
      BY <3>2 DEF Outcomes, Successes
    <3>4. Observation(c) = Run(Task.res).res
      BY <3>1, <3>3, Zenon DEF Observation
    <3> QED BY <3>1, <3>2, <3>4 DEF MayReport, Observable, Observed
  <2> QED BY <2>1, <2>2
<1> QED BY <1>1, <1>2 DEF CallStates

\* A call is looked at, and its Invocation brought up to the result.
LEMMA LookStep ==
  ASSUME ManagedInv, NEW c \in Calls, Observable(c), ~Mismatch(c), NEW o, MayReport(c, o),
         NEW t \in Workers, t.pc = "idle", w' = [w EXCEPT ![c] = t],
         call' = [call EXCEPT ![c] = [call[c] EXCEPT !.obs = o]],
         db' = Repaired(c).db, UNCHANGED gpuVars,
         sys' \in [faults: 0..MaxFaults, crashes: 0..MaxCrashes]
  PROVE  ManagedInv' /\ Kept
<1> DEFINE k == [call[c] EXCEPT !.obs = o]
<1>1. k \in CallStates /\ k.st = "fenced" /\ k.stopped = call[c].stopped /\ k.obs = o
  BY ReportIsTyped
<1>2. call' = [call EXCEPT ![c] = k]
  OBVIOUS
<1> HIDE DEF k
<1>3. Fits(c, t, k, RepairedInv(c))
  BY <1>1, RepairSound, Zenon
<1>4. /\ RepairedInv(c) \in Invocations
      /\ db' = [db EXCEPT !.inv[c] = RepairedInv(c)] \/ (db' = db /\ RepairedInv(c) = Inv(c))
      /\ Inv(c).st \in {"SUCCEEDED", "FAILED", "DENIED"} => RepairedInv(c) = Inv(c)
  BY RepairWritten, Zenon DEF Writes
<1>5. Chain'
  <2>1. Chain /\ call \in [Calls -> CallStates]
    BY Zenon DEF ManagedInv, Types
  <2>2. call[c].st = "fenced" /\ call[c].obs \in {"none", "unknown"}
    BY Zenon DEF Observable
  <2>3. call[c].st # "none" /\ k.st # "none" /\ call[c].obs # "FAILED" /\ (Ended(c) => k.stopped)
    BY <1>1, <2>2 DEF Ended, Observed, Outcomes, Successes
  <2> QED BY <1>1, <1>2, <2>1, <2>3, ChainStep, Zenon
<1>6. t.pc # "select"
  OBVIOUS
<1> QED BY <1>1, <1>2, <1>3, <1>4, <1>5, <1>6, AgentStep, Zenon

\* The thread of a call goes, and nothing of the call is written.
LEMMA QuietStep ==
  ASSUME ManagedInv, NEW c \in Calls, Observable(c),
         NEW t \in Workers, t.pc = "idle", w' = [w EXCEPT ![c] = t],
         call' = call, db' = db, UNCHANGED gpuVars,
         sys' \in [faults: 0..MaxFaults, crashes: 0..MaxCrashes]
  PROVE  ManagedInv' /\ Kept
<1>1. /\ call' = [call EXCEPT ![c] = call[c]] /\ call[c] \in CallStates
      /\ Inv(c) \in Invocations /\ Chain
  BY DbFields, Zenon DEF ManagedInv, Types
<1>2. Chain'
  BY <1>1, Zenon DEF Chain, Ended
<1>3. Fits(c, t, call[c], Inv(c))
  <2> DEFINE own == Own(c)  r == Run(Own(c))  q == req[Own(c)]  s == sends[Own(c)]
  <2>1. /\ Local(c, w[c], call[c], Inv(c), own, r, q, s)
        /\ call[c].obs \in {"none", "unknown"}
    BY Zenon DEF ManagedInv, Sound, Observable
  <2> HIDE DEF own, r, q, s
  <2>2. Local(c, t, call[c], Inv(c), own, r, q, s)
    BY <2>1 DEF Local, Thread1, Call1, Attempt1, Outcome1, Driving, Running, Computed, Closed, Observed, Outcomes, Successes
  <2> QED BY <2>2, Zenon DEF Fits, own, r, q, s
<1>4. t.pc # "select"
  OBVIOUS
<1> QED BY <1>1, <1>2, <1>3, <1>4, AgentStep, Zenon

\* The observation of a call whose thread is done.
LEMMA ObserveStep ==
  ASSUME ManagedInv, NEW c \in Calls, Observe(c)
  PROVE  ManagedInv' /\ Kept
<1>1. /\ Types /\ Sound(c) /\ Chain /\ call \in [Calls -> CallStates] /\ call[c] \in CallStates
      /\ Inv(c) \in Invocations
  BY DbFields, Zenon DEF ManagedInv, Types
<1>2. w[c].pc \in {"end", "lost"} /\ w' = [w EXCEPT ![c] = Idle] /\ UNCHANGED gpuVars
  BY Zenon DEF Observe
<1>3. w[c].pc # "idle" /\ call[c].st = "fenced" /\ call[c].obs = "none" /\ Observable(c)
  BY <1>1, <1>2 DEF Sound, Local, Thread1, Observable
<1>4. Idle \in Workers /\ Idle.pc = "idle"
  BY DEF Idle, Workers, WorkPc, MaxTries
<1>5. call[c].obs \notin Observed
  BY <1>3 DEF Observed, Outcomes, Successes
<1>6. CASE Mismatch(c)
  <2>1. call' = [call EXCEPT ![c] = Gone(c)] /\ db' = db /\ sys' = sys
    BY <1>1, <1>5, <1>6, GoneFacts, Zenon DEF Observe
  <2>2. /\ Gone(c) \in CallStates /\ Gone(c).st = "over"
        /\ Gone(c).stopped = call[c].stopped /\ Gone(c).obs = "none"
    BY <1>1, <1>3, GoneFacts, Zenon
  <2>3. Chain'
    <3>1. call[c].st # "none" /\ Gone(c).st # "none" /\ call[c].obs # "FAILED"
      BY <1>3, <2>2
    <3> QED BY <1>1, <2>1, <2>2, <3>1, ChainStep, Zenon
  <2>4. Fits(c, Idle, Gone(c), Inv(c))
    <3> DEFINE own == Own(c)  r == Run(Own(c))  q == req[Own(c)]  s == sends[Own(c)]
    <3>1. Local(c, w[c], call[c], Inv(c), own, r, q, s)
      BY <1>1, Zenon DEF Sound
    <3>2. PICK k : k = Gone(c)
      OBVIOUS
    <3>3. PICK t : t = Idle
      OBVIOUS
    <3> HIDE DEF own, r, q, s
    <3>4. Local(c, t, k, Inv(c), own, r, q, s)
      BY <1>3, <1>4, <2>2, <3>1, <3>2, <3>3 DEF Local, Thread1, Call1, Attempt1, Outcome1, Driving, Running, Computed, Closed, Observed, Outcomes, Successes
    <3> QED BY <3>2, <3>3, <3>4, Zenon DEF Fits, own, r, q, s
  <2>5. Idle.pc # "select"
    BY <1>4
  <2>6. sys' \in [faults: 0..MaxFaults, crashes: 0..MaxCrashes]
    BY <1>1, <2>1, FaultFacts, Zenon
  <2> QED BY <1>1, <1>2, <1>4, <2>1, <2>2, <2>3, <2>4, <2>5, <2>6, AgentStep, Zenon
<1>7. CASE ~Mismatch(c)
  <2>1. \/ /\ db' = Repaired(c).db /\ sys' = sys
           /\ call' = [call EXCEPT ![c].obs = Observation(c)]
        \/ Fault /\ db' \in {db, Repaired(c).db} /\ call' = call
    BY <1>5, <1>7, Zenon DEF Observe
  <2>2. sys' \in [faults: 0..MaxFaults, crashes: 0..MaxCrashes]
    BY <1>1, <2>1, FaultFacts, Zenon
  <2>3. CASE db' = Repaired(c).db /\ call' = [call EXCEPT ![c].obs = Observation(c)]
    <3>1. call' = [call EXCEPT ![c] = [call[c] EXCEPT !.obs = Observation(c)]]
      BY <2>3, Zenon
    <3>2. MayReport(c, Observation(c))
      BY <1>3, Zenon DEF MayReport
    <3> QED BY <1>2, <1>3, <1>4, <1>7, <2>2, <2>3, <3>1, <3>2, LookStep, Zenon
  <2>4. CASE db' = Repaired(c).db /\ call' = call
    <3>1. call' = [call EXCEPT ![c] = [call[c] EXCEPT !.obs = call[c].obs]]
      <4>1. [call[c] EXCEPT !.obs = call[c].obs] = call[c]
        BY <1>1 DEF CallStates
      <4> QED BY <1>1, <2>4, <4>1, Zenon
    <3>2. MayReport(c, call[c].obs)
      BY Zenon DEF MayReport
    <3> QED BY <1>2, <1>3, <1>4, <1>7, <2>2, <2>4, <3>1, <3>2, LookStep, Zenon
  <2>5. CASE db' = db /\ call' = call
    BY <1>2, <1>3, <1>4, <2>2, <2>5, QuietStep, Zenon
  <2> QED BY <2>1, <2>3, <2>4, <2>5, Zenon
<1> QED BY <1>6, <1>7

\* A resumed run looks again.
LEMMA ResumeStep ==
  ASSUME ManagedInv, NEW c \in Calls, Resume(c)
  PROVE  ManagedInv' /\ Kept
<1>1. /\ Types /\ call \in [Calls -> CallStates] /\ call[c] \in CallStates
      /\ w \in [Calls -> Workers] /\ w[c] \in Workers
  BY Zenon DEF ManagedInv, Types
<1>2. /\ w[c].pc = "idle" /\ w' = [w EXCEPT ![c] = w[c]] /\ UNCHANGED gpuVars
      /\ ~Mismatch(c) /\ Repaired(c).obs # "none"
  BY <1>1, Zenon DEF Resume, At
<1>3. Observable(c)
  BY <1>2, Zenon DEF Resume, Observable
<1>4. \/ /\ db' = Repaired(c).db /\ sys' = sys
         /\ call' = [call EXCEPT ![c].obs = Repaired(c).obs]
      \/ Fault /\ db' \in {db, Repaired(c).db} /\ call' = call
  BY Zenon DEF Resume
<1>5. sys' \in [faults: 0..MaxFaults, crashes: 0..MaxCrashes]
  BY <1>1, <1>4, FaultFacts, Zenon
<1>6. CASE db' = Repaired(c).db /\ call' = [call EXCEPT ![c].obs = Repaired(c).obs]
  <2>1. call' = [call EXCEPT ![c] = [call[c] EXCEPT !.obs = Repaired(c).obs]]
    BY <1>6, Zenon
  <2>2. MayReport(c, Repaired(c).obs)
    BY <1>2, Zenon DEF MayReport
  <2> QED BY <1>1, <1>2, <1>3, <1>5, <1>6, <2>1, <2>2, LookStep, Zenon
<1>7. CASE db' = Repaired(c).db /\ call' = call
  <2>1. call' = [call EXCEPT ![c] = [call[c] EXCEPT !.obs = call[c].obs]]
    <3>1. [call[c] EXCEPT !.obs = call[c].obs] = call[c]
      BY <1>1 DEF CallStates
    <3> QED BY <1>1, <1>7, <3>1, Zenon
  <2>2. MayReport(c, call[c].obs)
    BY Zenon DEF MayReport
  <2> QED BY <1>1, <1>2, <1>3, <1>5, <1>7, <2>1, <2>2, LookStep, Zenon
<1>8. CASE db' = db /\ call' = call
  BY <1>1, <1>2, <1>3, <1>5, <1>8, QuietStep, Zenon
<1> QED BY <1>4, <1>6, <1>7, <1>8, Zenon

-----------------------------------------------------------------------------
(* The request of an attempt *)

\* The request of attempt a becomes q, with s computations, and the thread of
\* its call becomes t.
ReqTo(c, a, t, q, s) ==
  /\ db' = db /\ call' = call /\ sys' = sys /\ w' = [w EXCEPT ![c] = t]
  /\ req' = [req EXCEPT ![a] = q] /\ sends' = [sends EXCEPT ![a] = s]
MayAsk(c, a, t, q, s) ==
  /\ t \in Workers /\ q \in Requests /\ s \in Nat
  /\ t.pc = "select" => At(c, "select")
  /\ q = "run" => Computing = {}
  /\ Local(c, t, call[c], Inv(c), a, Run(a), q, s)

\* The thread of call c, or the runtime, changes the request of its attempt.
LEMMA ReqStep ==
  ASSUME ManagedInv, NEW c \in Calls, NEW a \in Attempts, a = Own(c),
         NEW t, NEW q, NEW s, ReqTo(c, a, t, q, s), MayAsk(c, a, t, q, s)
  PROVE  ManagedInv' /\ Kept
<1> USE DEF ReqTo, MayAsk
<1>0. Types /\ Rows /\ Chain /\ Requested /\ Selecting /\ (\A d \in Calls : Sound(d))
  BY Zenon DEF ManagedInv
<1>1. db' = db /\ call' = call /\ sys' = sys
  OBVIOUS
<1>2. /\ Rows' /\ Made' = Made /\ Active' = Active /\ Latest' = Latest /\ Task' = Task
      /\ \A b \in Attempts : Run(b)' = Run(b)
      /\ \A d \in Calls : Own(d)' = Own(d) /\ Inv(d)' = Inv(d)
  BY <1>0, <1>1, RowsSame, Zenon DEF Inv
<1>3. /\ \A d \in Calls : w'[d] = IF d = c THEN t ELSE w[d]
      /\ \A b \in Attempts : req'[b] = IF b = a THEN q ELSE req[b]
      /\ \A b \in Attempts : sends'[b] = IF b = a THEN s ELSE sends[b]
  BY <1>0 DEF Types
<1>4. Types'
  BY <1>0, <1>1 DEF Types
<1>5. Chain'
  BY <1>0, <1>1, Zenon DEF Chain, Ended
<1>6. Own(c) # None /\ a \in Made /\ Run(a).call = c
  <2>1. a # None
    BY DEF Attempts, None
  <2> QED BY <1>0, <2>1, OwnFacts, Zenon DEF Rows
<1>7. Requested'
  <2>1. \A b \in Attempts : Run(b)'.st = "none" => req'[b] = "none" /\ sends'[b] = 0
    <3>1. Run(a).st # "none"
      BY <1>6, Zenon DEF Made
    <3> QED BY <1>0, <1>2, <1>3, <3>1, Zenon DEF Requested
  <2>2. ASSUME NEW x \in Computing', NEW y \in Computing' PROVE x = y
    <3>1. x \in Attempts /\ y \in Attempts /\ req'[x] = "run" /\ req'[y] = "run"
      BY Zenon DEF Computing
    <3>2. CASE q = "run"
      <4>1. \A b \in Attempts : req[b] # "run"
        BY <3>2, Zenon DEF Computing
      <4> QED BY <1>3, <3>1, <4>1, Zenon
    <3>3. CASE q # "run"
      <4>1. x \in Computing /\ y \in Computing
        BY <1>3, <3>1, <3>3, Zenon DEF Computing
      <4> QED BY <1>0, <4>1, Zenon DEF Requested
    <3> QED BY <3>2, <3>3
  <2> QED BY <2>1, <2>2, Zenon DEF Requested
<1>8. Selecting'
  <2>1. \A d \in Calls : w'[d].pc = "select" => w[d].pc = "select"
    BY <1>3, Zenon DEF At
  <2> QED BY <1>0, <1>2, <2>1, Zenon DEF Selecting, At
<1>9. ASSUME NEW d \in Calls PROVE Sound(d)'
  <2>1. CASE d = c
    <3>1. Own(d)' = a /\ w'[d] = t /\ call'[d] = call[d] /\ Inv(d)' = Inv(d)
      BY <1>1, <1>2, <1>3, <2>1, Zenon
    <3>2. (Run(Own(d)))' = Run(a) /\ req'[a] = q /\ sends'[a] = s
      BY <1>1, <1>3, <3>1, Zenon DEF Run
    <3> QED BY <2>1, <3>1, <3>2, Zenon DEF Sound
  <2>2. CASE d # c
    <3>1. Own(d) \in Attempts \cup {None}
      BY <1>0, OwnFacts, Zenon DEF Rows
    <3>2. a # Own(d)
      <4>1. Own(d) # None => Run(Own(d)).call = d
        BY <1>0, OwnFacts, Zenon DEF Rows
      <4> QED BY <1>6, <2>2, <4>1, Zenon
    <3> QED BY <1>0, <1>1, <1>2, <1>3, <2>2, <3>1, <3>2, Frame, Zenon
  <2> QED BY <2>1, <2>2
<1>10. Kept
  <2>1. Task.run <= Task.run
    BY TaskFacts DEF Attempts, None
  <2> QED BY <1>1, <2>1, Zenon DEF Kept, Task, Run, Inv
<1> QED BY <1>2, <1>4, <1>5, <1>7, <1>8, <1>9, <1>10, Zenon DEF ManagedInv

\* The attempt of a thread at work.
LEMMA AtRequest ==
  ASSUME ManagedInv, NEW c \in Calls, w[c].pc \in {"invoke", "wait"}
  PROVE  /\ Own(c) \in Attempts /\ req[Own(c)] \in Requests /\ sends[Own(c)] \in Nat
         /\ Fits(c, w[c], call[c], Inv(c)) /\ Run(Own(c)).st = "RUNNING"
         /\ sends = [sends EXCEPT ![Own(c)] = sends[Own(c)]]
<1>1. Fits(c, w[c], call[c], Inv(c)) /\ Types
  BY Zenon DEF ManagedInv, Sound, Fits
<1>2. Own(c) # None /\ Run(Own(c)).st = "RUNNING"
  BY <1>1 DEF Fits, Local, Thread1, Running
<1>3. Own(c) \in Attempts
  BY <1>2, OwnFacts, Zenon DEF ManagedInv, Rows
<1> QED BY <1>1, <1>2, <1>3, Zenon DEF Types

\* The request of an attempt is sent, once.
LEMMA SendStep ==
  ASSUME ManagedInv, NEW c \in Calls, Send(c)
  PROVE  ManagedInv' /\ Kept
<1>1. w[c].pc = "invoke" /\ db' = db /\ call' = call /\ sys' = sys /\ sends' = sends
  BY Zenon DEF Send, At
<1>2. /\ Own(c) \in Attempts /\ req[Own(c)] \in Requests /\ sends[Own(c)] \in Nat
      /\ Fits(c, w[c], call[c], Inv(c)) /\ Run(Own(c)).st = "RUNNING"
      /\ sends = [sends EXCEPT ![Own(c)] = sends[Own(c)]]
  BY <1>1, AtRequest, Zenon
<1>3. To("wait").pc = "wait" /\ To("failrun").pc = "failrun" /\ To("finunk").pc = "finunk"
      /\ To("wait") \in Workers
  BY ToFacts, Zenon DEF WorkPc
<1>4. PICK a \in Attempts : a = Own(c)
  BY <1>2
<1>5. Local(c, w[c], call[c], Inv(c), a, Run(a), req[a], sends[a])
  BY <1>2, <1>4, Zenon DEF Fits
<1>6. CASE req' = [req EXCEPT ![a] = "way"] /\ w' = Go(c, "wait")
  <2> DEFINE r == Run(a)  s == sends[a]  k == call[c]  i == Inv(c)
  <2>1. PICK t : t = To("wait")
    OBVIOUS
  <2>2. Local(c, w[c], k, i, a, r, req[a], s) /\ r.st = "RUNNING" /\ t.pc = "wait"
    BY <1>2, <1>3, <1>4, <1>5, <2>1, Zenon
  <2>3. a # None
    BY DEF Attempts, None
  <2> HIDE DEF r, s, k, i
  <2>4. s = 0 /\ i.sent /\ i.st = "RUNNING" /\ i.run \in {None, a} /\ k.st = "fenced" /\ k.obs = "none" /\ r.out = "none"
    BY <1>1, <2>2, <2>3 DEF Local, Thread1, Call1, Attempt1, Driving, Running
  <2>5. Thread1(c, t, k, i, a, r, "way", s)
    BY <2>2, <2>3, <2>4 DEF Thread1, Driving, Running, Computed
  <2>6. Call1(c, t, k, i, a, r, "way", s)
    BY <2>2, <2>4 DEF Local, Call1
  <2>7. Attempt1(c, t, k, i, a, r, "way", s)
    BY <2>2, <2>4 DEF Attempt1, Outcomes, Successes
  <2>8. Outcome1(c, t, k, i, a, r, "way", s)
    BY <2>2, <2>4 DEF Local, Outcome1, Observed, Outcomes, Successes
  <2>9. Local(c, t, call[c], Inv(c), a, Run(a), "way", sends[a])
    BY <2>5, <2>6, <2>7, <2>8, Zenon DEF Local, r, s, k, i
  <2>10. sends' = [sends EXCEPT ![a] = sends[a]] /\ w' = [w EXCEPT ![c] = t] /\ t \in Workers
    BY <1>1, <1>2, <1>3, <1>4, <1>6, <2>1, ToFacts, Zenon
  <2>11. "way" \in Requests /\ "way" # "run" /\ t.pc # "select" /\ sends[a] \in Nat
    BY <1>2, <1>4, <2>2 DEF Requests
  <2>12. ReqTo(c, a, t, "way", sends[a])
    BY <1>1, <1>6, <2>10, Zenon DEF ReqTo
  <2>13. MayAsk(c, a, t, "way", sends[a])
    BY <2>9, <2>10, <2>11, Zenon DEF MayAsk
  <2> QED BY <1>4, <2>12, <2>13, ReqStep, Zenon
<1>7. CASE UNCHANGED req /\ w' \in {Go(c, "failrun"), LostAnswer(c)}
  <2>1. UNCHANGED <<db, call, sys, gpuVars>> /\ ~At(c, "idle")
    BY <1>1, <1>7 DEF gpuVars, At
  <2>2. w' = Go(c, "failrun") \/ w' = Go(c, "finunk")
    BY <1>7, Zenon DEF LostAnswer
  <2>3. Fits(c, To("failrun"), call[c], Inv(c)) /\ Fits(c, To("finunk"), call[c], Inv(c))
    BY <1>1, <1>2, <1>3 DEF Fits, Local, Thread1, Call1, Attempt1, Outcome1, Driving, Running, Computed, Closed, Known
  <2> QED BY <2>1, <2>2, <2>3, GoStep, Zenon DEF WorkPc
<1> QED BY <1>4, <1>6, <1>7, Zenon DEF Send

\* Nobody waits any more: the outcome is left open.
LEMMA GiveUpStep ==
  ASSUME ManagedInv, NEW c \in Calls, GiveUp(c)
  PROVE  ManagedInv' /\ Kept
<1>1. w[c].pc = "wait" /\ UNCHANGED <<db, call, sys, gpuVars>> /\ w' = Go(c, "finunk") /\ ~At(c, "idle")
  BY Zenon DEF GiveUp, At, LostAnswer
<1>2. Fits(c, w[c], call[c], Inv(c)) /\ To("finunk").pc = "finunk"
  BY <1>1, AtRequest, ToFacts, Zenon DEF WorkPc
<1>3. Fits(c, To("finunk"), call[c], Inv(c))
  BY <1>1, <1>2 DEF Fits, Local, Thread1, Call1, Attempt1, Outcome1, Driving, Running, Computed, Closed, Known
<1> QED BY <1>1, <1>3, GoStep, Zenon DEF WorkPc

\* An answer is taken.
LEMMA ReceiveStep ==
  ASSUME ManagedInv, NEW c \in Calls, Receive(c)
  PROVE  ManagedInv' /\ Kept
<1>1. /\ w[c].pc = "wait" /\ db' = db /\ call' = call /\ sys' = sys /\ sends' = sends
      /\ req[Own(c)] \in Replies /\ req' = [req EXCEPT ![Own(c)] = "gone"]
  BY Zenon DEF Receive, At
<1>2. /\ Own(c) \in Attempts /\ req[Own(c)] \in Requests /\ sends[Own(c)] \in Nat
      /\ Fits(c, w[c], call[c], Inv(c)) /\ Run(Own(c)).st = "RUNNING"
      /\ sends = [sends EXCEPT ![Own(c)] = sends[Own(c)]]
  BY <1>1, AtRequest, Zenon
<1>3. /\ To("failrun").pc = "failrun" /\ To("finunk").pc = "finunk"
      /\ To("failrun") \in Workers /\ To("finunk") \in Workers
  BY ToFacts, Zenon DEF WorkPc
<1>4. PICK a \in Attempts : a = Own(c)
  BY <1>2
<1>5. w \in [Calls -> Workers]
  BY Zenon DEF ManagedInv, Types
<1>6. PICK t : t \in Workers /\ w' = [w EXCEPT ![c] = t]
               /\ (t.pc \in {"failrun", "finunk"} \/ (t.pc = "record" /\ t.out \in Outcomes))
  <2>1. CASE req[a] \in Outcomes /\ w' = [Go(c, "record") EXCEPT ![c].out = req[a]]
    <3>1. PICK x \in Outcomes : x = req[a]
      BY <2>1
    <3>2. Go(c, "record") = [w EXCEPT ![c] = To("record")]
      BY ToFacts, Zenon
    <3>3. [To("record") EXCEPT !.out = x] = With("record", x)
      BY DEF To, With
    <3>4. w' = [w EXCEPT ![c] = With("record", x)]
      <4>1. [w EXCEPT ![c] = To("record")][c] = To("record")
        BY <1>5
      <4>2. [[w EXCEPT ![c] = To("record")] EXCEPT ![c] = With("record", x)] = [w EXCEPT ![c] = With("record", x)]
        BY <1>5
      <4>3. w' = [[w EXCEPT ![c] = To("record")] EXCEPT ![c] = [@ EXCEPT !.out = x]]
        BY <2>1, <3>1, <3>2, Zenon
      <4> QED BY <3>3, <4>1, <4>2, <4>3, Zenon
    <3>5. With("record", x) \in Workers /\ With("record", x).pc = "record" /\ With("record", x).out = x
      BY DEF With, Workers, WorkPc, MaxTries
    <3> QED BY <3>4, <3>5
  <2>2. CASE w' = Go(c, "failrun")
    BY <1>3, <2>2, ToFacts, Zenon
  <2>3. CASE w' = LostAnswer(c)
    BY <1>3, <2>3, ToFacts, Zenon DEF LostAnswer
  <2> QED BY <1>4, <2>1, <2>2, <2>3, Zenon DEF Receive
<1>7. Local(c, t, call[c], Inv(c), a, Run(a), "gone", sends[a])
  <2> DEFINE r == Run(a)  s == sends[a]  k == call[c]  i == Inv(c)
  <2>1. Local(c, w[c], k, i, a, r, req[a], s) /\ r.st = "RUNNING" /\ a # None /\ req[a] \in Replies
    <3>1. a # None
      BY DEF Attempts, None
    <3> QED BY <1>1, <1>2, <1>4, <3>1, Zenon DEF Fits
  <2>2. req[a] \notin {"none", "way", "run"}
    BY <2>1 DEF Replies, Outcomes, Successes
  <2> HIDE DEF r, s, k, i
  <2>3. /\ i.sent /\ i.st = "RUNNING" /\ i.run \in {None, a} /\ k.st = "fenced" /\ k.obs = "none"
        /\ r.out = "none" /\ s <= 1
    BY <1>1, <2>1, <2>2 DEF Local, Thread1, Call1, Attempt1, Driving, Running
  <2>4. Thread1(c, t, k, i, a, r, "gone", s)
    BY <1>6, <2>1, <2>3 DEF Thread1, Driving, Running, Computed
  <2>5. Call1(c, t, k, i, a, r, "gone", s)
    BY <2>1, <2>3 DEF Local, Call1
  <2>6. Attempt1(c, t, k, i, a, r, "gone", s)
    BY <2>1, <2>3 DEF Attempt1
  <2>7. Outcome1(c, t, k, i, a, r, "gone", s)
    BY <2>1, <2>3 DEF Local, Outcome1, Observed, Outcomes, Successes
  <2> QED BY <2>4, <2>5, <2>6, <2>7, Zenon DEF Local, r, s, k, i
<1>8. sends' = [sends EXCEPT ![a] = sends[a]] /\ req' = [req EXCEPT ![a] = "gone"] /\ sends[a] \in Nat
  BY <1>1, <1>2, <1>4, Zenon
<1>9. "gone" \in Requests /\ "gone" # "run" /\ t.pc # "select"
  BY <1>6 DEF Requests
<1>10. ReqTo(c, a, t, "gone", sends[a])
  BY <1>1, <1>6, <1>8, Zenon DEF ReqTo
<1>11. MayAsk(c, a, t, "gone", sends[a])
  BY <1>6, <1>7, <1>8, <1>9, Zenon DEF MayAsk
<1> QED BY <1>4, <1>10, <1>11, ReqStep, Zenon

\* The call of an attempt that was asked for.
LEMMA Asked ==
  ASSUME ManagedInv, NEW a \in Attempts, req[a] # "none"
  PROVE  \E c \in Calls : a = Own(c)
<1>1. a \in Made
  BY Zenon DEF ManagedInv, Requested, Made
<1> QED BY <1>1, OneCall, OwnFacts, Zenon DEF ManagedInv, Rows

\* The runtime serves a request.
LEMMA ServeStep ==
  ASSUME ManagedInv, NEW a \in Attempts, Serve(a), UNCHANGED <<db, call, w, sys>>
  PROVE  ManagedInv' /\ Kept
<1>1. /\ db' = db /\ call' = call /\ sys' = sys /\ w' = w /\ Types
      /\ req \in [Attempts -> Requests] /\ sends \in [Attempts -> Nat]
      /\ w \in [Calls -> Workers]
  BY Zenon DEF ManagedInv, Types
<1>2. PICK q \in Requests, s \in Nat :
        /\ req' = [req EXCEPT ![a] = q] /\ sends' = [sends EXCEPT ![a] = s]
        /\ \/ req[a] = "way" /\ q = "run" /\ s = sends[a] + 1 /\ Computing = {}
           \/ req[a] \in {"way", "run"} /\ q \in Replies \cup {"gone"} /\ s = sends[a]
  <2>1. CASE Start(a)
    <3>1. sends[a] + 1 \in Nat
      BY <1>1
    <3> QED BY <2>1, <3>1, Zenon DEF Start, Lock, Requests
  <2>2. ASSUME NEW h \in BOOLEAN, NEW reply \in Answers, Answer(a, reply, h), sends' = sends,
               req[a] \in {"way", "run"}
        PROVE  \E q \in Requests, s \in Nat :
                 /\ req' = [req EXCEPT ![a] = q] /\ sends' = [sends EXCEPT ![a] = s]
                 /\ req[a] \in {"way", "run"} /\ q \in Replies \cup {"gone"} /\ s = sends[a]
    <3>1. reply \in Replies
      <4>1. \A b, m \in BOOLEAN : Engine(b, m).status \in Outcomes
        BY DEF Engine, Outcomes, Successes
      <4>2. CASE reply = "error"
        BY <4>2, Zenon DEF Replies
      <4>3. CASE reply # "error"
        <5>1. \E b, m \in BOOLEAN : reply = Engine(b, m).status
          BY <4>3 DEF Answers
        <5> QED BY <4>1, <5>1, Zenon DEF Replies
      <4> QED BY <4>2, <4>3
    <3>2. PICK q : q = IF h THEN reply ELSE "gone"
      OBVIOUS
    <3>3. q \in Requests /\ q \in Replies \cup {"gone"}
      BY <3>1, <3>2 DEF Requests
    <3>4. req' = [req EXCEPT ![a] = q]
      BY <2>2, <3>2, Zenon DEF Answer
    <3>5. sends' = [sends EXCEPT ![a] = sends[a]] /\ sends[a] \in Nat
      BY <1>1, <2>2
    <3> QED BY <2>2, <3>3, <3>4, <3>5, Zenon
  <2>3. Heard(a) \in BOOLEAN
    BY DEF Heard
  <2>4. CASE Refuse(a, Heard(a))
    <3>1. "error" \in Answers
      BY DEF Answers
    <3> QED BY <2>2, <2>3, <2>4, <3>1, Zenon DEF Refuse
  <2>5. CASE Finish(a, Heard(a))
    BY <2>2, <2>3, <2>5, Zenon DEF Finish
  <2> QED BY <2>1, <2>4, <2>5, Zenon DEF Serve
<1>3. PICK c \in Calls : a = Own(c)
  BY <1>2, Asked
<1>4. w' = [w EXCEPT ![c] = w[c]] /\ w[c] \in Workers
  BY <1>1
<1>5. ReqTo(c, a, w[c], q, s)
  BY <1>1, <1>2, <1>4, Zenon DEF ReqTo
<1>6. Local(c, w[c], call[c], Inv(c), a, Run(a), q, s)
  <2> DEFINE r == Run(a)  k == call[c]  i == Inv(c)  t == w[c]  q0 == req[a]  s0 == sends[a]
  <2>1. a # None /\ s0 \in Nat
    BY <1>1 DEF Attempts, None
  <2>2. Local(c, t, k, i, a, r, q0, s0)
    BY <1>3, Zenon DEF ManagedInv, Sound
  <2>3. \/ q0 = "way" /\ q = "run" /\ s = s0 + 1
        \/ q0 \in {"way", "run"} /\ q \in Replies \cup {"gone"} /\ s = s0
    BY <1>2, Zenon
  <2> HIDE DEF r, k, i, t, q0, s0
  <2>4. q \notin {"none", "way"} /\ q0 \in {"way", "run"} /\ (q # "run" \/ (q0 = "way" /\ s = s0 + 1))
    BY <2>3 DEF Replies, Outcomes, Successes
  <2>5. ~Known(r, q0, s0) /\ (q0 = "way" => s0 = 0) /\ s0 <= 1
    BY <2>1, <2>2, <2>4 DEF Known, Local, Attempt1
  <2>6. Thread1(c, t, k, i, a, r, q, s)
    BY <2>1, <2>2, <2>4, <2>5 DEF Local, Thread1, Driving, Running, Computed
  <2>7. Call1(c, t, k, i, a, r, q, s)
    BY <2>2 DEF Local, Call1
  <2>8. Attempt1(c, t, k, i, a, r, q, s)
    BY <2>1, <2>2, <2>3, <2>4, <2>5 DEF Local, Attempt1
  <2>9. Outcome1(c, t, k, i, a, r, q, s)
    BY <2>1, <2>2, <2>5 DEF Local, Outcome1
  <2> QED BY <2>6, <2>7, <2>8, <2>9, Zenon DEF Local, r, k, i, t
<1>7. q = "run" => Computing = {}
  BY <1>2 DEF Replies, Outcomes, Successes
<1>8. MayAsk(c, a, w[c], q, s)
  BY <1>4, <1>6, <1>7, Zenon DEF MayAsk, At
<1> QED BY <1>3, <1>5, <1>8, ReqStep, Zenon

-----------------------------------------------------------------------------
(* Process exits *)

\* What an exit, of the program or of the runtime, makes of a call: the thread
\* is gone or goes on, the request is as before or nobody asks for it, an
\* attempt in progress may have been interrupted.
Interrupts(r, r2) ==
  /\ r.st \in {"PENDING", "RUNNING"} /\ r.res = "none"
  /\ r2.st = "FAILED" /\ r2.cut /\ r2.res = "none" /\ r2.out = r.out
Drops(q, q2) == q2 = q \/ (q # "none" /\ q2 = "gone")

\* A call stays sound over an exit.
LEMMA CallSurvives ==
  ASSUME NEW c, NEW t, NEW k, NEW i, NEW own, NEW r, NEW q, NEW s, NEW t2, NEW r2, NEW q2,
         Local(c, t, k, i, own, r, q, s),
         t2.pc = "idle" \/ (t2 = t /\ r2 = r),
         r2 = r \/ Interrupts(r, r2),
         Drops(q, q2)
  PROVE  Local(c, t2, k, i, own, r2, q2, s)
<1>1. t2.pc = "idle" \/ (t2 = t /\ r2 = r)
  OBVIOUS
<1>2. Thread1(c, t2, k, i, own, r2, q2, s)
  <2>1. CASE t2.pc = "idle"
    BY <2>1 DEF Thread1, Driving, Running, Computed
  <2>2. CASE t2 = t /\ r2 = r
    BY <2>2 DEF Local, Thread1, Driving, Running, Computed, Known, Drops
  <2> QED BY <1>1, <2>1, <2>2
<1>3. Call1(c, t2, k, i, own, r2, q2, s)
  BY Zenon DEF Local, Call1
<1>4. Attempt1(c, t2, k, i, own, r2, q2, s)
  <2>1. CASE r2 = r
    BY <2>1 DEF Local, Attempt1, Drops
  <2>2. CASE Interrupts(r, r2)
    BY <2>2 DEF Local, Attempt1, Drops, Interrupts
  <2> QED BY <2>1, <2>2
<1>5. own # None /\ Known(r, q, s) => Known(r2, q2, s)
  <2>1. CASE r2 = r
    BY <2>1 DEF Known, Drops
  <2>2. CASE Interrupts(r, r2)
    BY <2>2 DEF Local, Attempt1, Known, Drops, Interrupts
  <2> QED BY <2>1, <2>2
<1>6. r2.res = r.res /\ (r2.st # r.st => r2.st = "FAILED")
  BY DEF Interrupts
<1>7. k.obs \in Observed /\ t2.pc = "idle" => i.st \notin {"RUNNING", "OUTCOME_UNKNOWN"}
  <2>1. t.pc # "idle" => k.obs \notin Observed
    BY DEF Local, Thread1, Observed, Outcomes, Successes
  <2> QED BY <2>1, Zenon DEF Local, Outcome1
<1>8. Outcome1(c, t2, k, i, own, r2, q2, s)
  <2>1. Outcome1(c, t, k, i, own, r, q, s)
    BY DEF Local
  <2> QED BY <1>5, <1>6, <1>7, <2>1, Zenon DEF Outcome1
<1> QED BY <1>2, <1>3, <1>4, <1>8, Zenon DEF Local

\* The same, of all calls.
LEMMA CallsSurvive ==
  ASSUME ManagedInv, call' = call, sends' = sends,
         \A c \in Calls : Own(c)' = Own(c) /\ Inv(c)' = Inv(c),
         \A a \in Attempts : Drops(req[a], req'[a]),
         \A a \in Attempts : Run(a)' = Run(a) \/ Interrupts(Run(a), Run(a)'),
         \A c \in Calls : w'[c] = Idle \/ (w' = w /\ \A a \in Attempts : Run(a)' = Run(a))
  PROVE  \A c \in Calls : Sound(c)'
<1> SUFFICES ASSUME NEW c \in Calls PROVE Sound(c)'
  OBVIOUS
<1>1. Sound(c) /\ Own(c) \in Attempts \cup {None}
  BY OwnFacts, Zenon DEF ManagedInv, Rows
<1>2. Idle.pc = "idle"
  BY DEF Idle
<1>3. CASE Own(c) \in Attempts
  <2>1. PICK a \in Attempts : a = Own(c)
    BY <1>3
  <2>2. Local(c, w[c], call[c], Inv(c), a, Run(a), req[a], sends[a])
    BY <1>1, <2>1, Zenon DEF Sound
  <2>3. w'[c].pc = "idle" \/ (w'[c] = w[c] /\ Run(a)' = Run(a))
    BY <1>2, Zenon
  <2>4. Local(c, w'[c], call[c], Inv(c), a, Run(a)', req'[a], sends[a])
    BY <2>2, <2>3, CallSurvives, Zenon
  <2> QED BY <2>1, <2>4, Zenon DEF Sound
<1>4. CASE Own(c) = None
  <2> DEFINE t == w[c]  k == call[c]  i == Inv(c)  t2 == w'[c]
  <2>1. Local(c, t, k, i, None, Run(Own(c)), req[Own(c)], sends[Own(c)])
    BY <1>1, <1>4, Zenon DEF Sound
  <2>2. t2.pc = "idle" \/ t2 = t
    BY <1>2, Zenon
  <2> HIDE DEF t, k, i, t2
  <2>3. ASSUME NEW r, NEW q, NEW s
        PROVE  Local(c, t2, k, i, None, r, q, s)
    <3>1. Local(c, t, k, i, None, r, q, s)
      <4>1. Thread1(c, t, k, i, None, r, q, s)
        BY <2>1 DEF Local, Thread1, Running, Computed
      <4>2. Call1(c, t, k, i, None, r, q, s) /\ Attempt1(c, t, k, i, None, r, q, s)
        BY <2>1, Zenon DEF Local, Call1, Attempt1
      <4>3. Outcome1(c, t, k, i, None, r, q, s)
        BY <2>1, Zenon DEF Local, Outcome1
      <4> QED BY <4>1, <4>2, <4>3, Zenon DEF Local
    <3> QED BY <2>2, <3>1, CallSurvives, Zenon DEF Drops
  <2> QED BY <1>4, <2>3, Zenon DEF Sound, t, k, i, t2
<1> QED BY <1>1, <1>3, <1>4

\* The runtime exits.
LEMMA ExitStep ==
  ASSUME ManagedInv, Exit, UNCHANGED <<db, call, w, sys>>
  PROVE  ManagedInv' /\ Kept
<1>0. Types /\ Rows /\ Chain /\ Requested /\ Selecting
  BY Zenon DEF ManagedInv
<1>1. /\ db' = db /\ call' = call /\ sys' = sys /\ w' = w /\ sends' = sends
      /\ \A a \in Attempts : req'[a] = IF req[a] = "none" THEN "none" ELSE "gone"
      /\ req' \in [Attempts -> Requests]
  BY DEF Exit, Requests
<1>2. /\ Rows' /\ Made' = Made /\ Active' = Active /\ Latest' = Latest /\ Task' = Task
      /\ \A b \in Attempts : Run(b)' = Run(b)
      /\ \A d \in Calls : Own(d)' = Own(d) /\ Inv(d)' = Inv(d)
  BY <1>0, <1>1, RowsSame, Zenon DEF Inv
<1>3. \A a \in Attempts : Drops(req[a], req'[a])
  BY <1>1, Zenon DEF Drops
<1>4. \A c \in Calls : Sound(c)'
  BY <1>1, <1>2, <1>3, CallsSurvive, Zenon
<1>5. Types'
  BY <1>0, <1>1 DEF Types
<1>6. Chain'
  BY <1>0, <1>1, Zenon DEF Chain, Ended
<1>7. Requested'
  <2>1. Computing' = {}
    BY <1>1 DEF Computing
  <2> QED BY <1>0, <1>1, <1>2, <2>1, Zenon DEF Requested
<1>8. Selecting'
  BY <1>0, <1>1, <1>2, Zenon DEF Selecting, At
<1>9. Kept
  <2>1. Task.run <= Task.run
    BY TaskFacts DEF Attempts, None
  <2> QED BY <1>1, <2>1, Zenon DEF Kept, Task, Run, Inv
<1> QED BY <1>2, <1>4, <1>5, <1>6, <1>7, <1>8, <1>9, Zenon DEF ManagedInv

\* The recovery fails the attempt in progress, and keeps the selection.
Cutoff(a) == [Run(a) EXCEPT !.st = "FAILED", !.cut = TRUE]
CutTask == [Task EXCEPT !.st = IF Active # {} /\ @ \in {"READY", "RUNNING"} THEN "FAILED" ELSE @]

\* What a recovery writes to an attempt in progress and to the task.
LEMMA InterruptedFields ==
  ASSUME ManagedInv
  PROVE  /\ CutTask \in Tasks /\ CutTask.run = Task.run /\ CutTask.res = Task.res
         /\ Active = {} => CutTask = Task
         /\ Active # {} => CutTask.st = "FAILED" /\ Task.st = "RUNNING"
         /\ \A a \in Active : Cutoff(a) \in Runs /\ Interrupts(Run(a), Cutoff(a))
                              /\ Cutoff(a).call = Run(a).call
<1>1. Task \in Tasks /\ Selected
  BY TaskFacts, Zenon DEF ManagedInv, Rows
<1>2. Active # {} => Task.st = "RUNNING"
  BY <1>1, Zenon DEF Selected
<1>3. PICK st : st = IF Active # {} /\ Task.st \in {"READY", "RUNNING"} THEN "FAILED" ELSE Task.st
  OBVIOUS
<1>4. CutTask = [Task EXCEPT !.st = st]
  BY <1>3, Zenon DEF CutTask
<1>5. (Active = {} => st = Task.st) /\ (Active # {} => st = "FAILED")
  BY <1>2, <1>3
<1>6. /\ CutTask \in Tasks /\ CutTask.run = Task.run /\ CutTask.res = Task.res /\ CutTask.st = st
      /\ st = Task.st => CutTask = Task
  BY <1>1, <1>4, <1>5 DEF Tasks, Outcomes
<1>7. ASSUME NEW a \in Active
      PROVE  Cutoff(a) \in Runs /\ Interrupts(Run(a), Cutoff(a)) /\ Cutoff(a).call = Run(a).call
  <2>1. a \in Attempts /\ Run(a).st \in {"PENDING", "RUNNING"}
    BY DEF Active
  <2>2. Run(a) \in Runs /\ (Run(a).res # "none" => Run(a).st = Run(a).res)
        /\ Run(a).res \in Outcomes \cup {"none"}
    BY <2>1, RowFacts, Zenon
  <2>3. Run(a).res = "none"
    BY <2>1, <2>2 DEF Outcomes, Successes
  <2> DEFINE x == [Run(a) EXCEPT !.st = "FAILED"]
  <2>4. x \in Runs /\ x.st = "FAILED" /\ x.res = Run(a).res /\ x.out = Run(a).out /\ x.call = Run(a).call
    BY <2>2 DEF Runs, Outcomes
  <2>5. Cutoff(a) = [x EXCEPT !.cut = TRUE]
    BY Zenon DEF Cutoff
  <2> HIDE DEF x
  <2>6. /\ Cutoff(a) \in Runs /\ Cutoff(a).st = "FAILED" /\ Cutoff(a).cut /\ Cutoff(a).res = Run(a).res
        /\ Cutoff(a).out = Run(a).out /\ Cutoff(a).call = Run(a).call
    BY <2>4, <2>5 DEF Runs
  <2> QED BY <2>1, <2>3, <2>6 DEF Interrupts
<1> QED BY <1>2, <1>5, <1>6, <1>7

\* What a recovery writes to all rows (recover_stale).
LEMMA InterruptedWritten ==
  ASSUME ManagedInv, db' = Interrupted
  PROVE  /\ db' \in Dbs /\ db'.inv = db.inv /\ db'.task = CutTask
         /\ \A a \in Attempts : db'.run[a] = IF a \in Active THEN Cutoff(a) ELSE Run(a)
<1> DEFINE runs == [a \in Attempts |-> IF a \in Active THEN Cutoff(a) ELSE Run(a)]
           mid == [db EXCEPT !.run = runs]
<1>1. db \in Dbs /\ \A a \in Attempts : Run(a) \in Runs
  BY RowFacts, Zenon DEF ManagedInv, Types
<1>2. runs \in [Attempts -> Runs]
  BY <1>1, InterruptedFields
<1>3. db = [task |-> db.task, run |-> db.run, inv |-> db.inv] /\ db.inv \in [Calls -> Invocations]
  BY <1>1, DbFields, Zenon
<1>4. \A a \in Attempts : runs[a] = IF a \in Active THEN Cutoff(a) ELSE Run(a)
  OBVIOUS
<1>5. Interrupted = [[db EXCEPT !.run = runs] EXCEPT
                       !.task.st = IF Active # {} /\ @ \in {"READY", "RUNNING"} THEN "FAILED" ELSE @]
  BY Zenon DEF Interrupted, Cutoff
<1> HIDE DEF runs
<1>6. mid = [task |-> db.task, run |-> runs, inv |-> db.inv]
  BY <1>3
<1>7. Interrupted = [mid EXCEPT !.task = [mid.task EXCEPT !.st =
                       IF Active # {} /\ @ \in {"READY", "RUNNING"} THEN "FAILED" ELSE @]]
  BY <1>5, Zenon
<1>8. mid.task = Task /\ mid.run = runs /\ mid.inv = db.inv
  BY <1>6 DEF Task
<1>9. Interrupted = [mid EXCEPT !.task = CutTask]
  BY <1>7, <1>8, Zenon DEF CutTask
<1> HIDE DEF mid
<1>10. Interrupted = [task |-> CutTask, run |-> runs, inv |-> db.inv]
  BY <1>6, <1>9
<1>11. CutTask \in Tasks
  BY InterruptedFields
<1> QED BY <1>2, <1>3, <1>4, <1>10, <1>11 DEF Dbs

\* The rows after a recovery.
LEMMA InterruptedRows ==
  ASSUME ManagedInv, db' = Interrupted
  PROVE  /\ Rows' /\ db' \in Dbs /\ Kept
         /\ \A a \in Attempts : Run(a)' = Run(a) \/ Interrupts(Run(a), Run(a)')
         /\ \A c \in Calls : Own(c)' = Own(c) /\ Inv(c)' = Inv(c)
<1>1. /\ db' \in Dbs /\ db'.inv = db.inv /\ db'.task = CutTask
      /\ \A a \in Attempts : db'.run[a] = IF a \in Active THEN Cutoff(a) ELSE Run(a)
  BY InterruptedWritten, Zenon
<1>2. Rows /\ Selected /\ Types /\ db \in Dbs
  BY Zenon DEF ManagedInv, Rows, Types
<1>3. /\ CutTask \in Tasks /\ CutTask.run = Task.run /\ CutTask.res = Task.res
      /\ Active = {} => CutTask = Task
      /\ Active # {} => CutTask.st = "FAILED" /\ Task.st = "RUNNING"
      /\ \A a \in Active : Cutoff(a) \in Runs /\ Interrupts(Run(a), Cutoff(a))
                           /\ Cutoff(a).call = Run(a).call
  BY InterruptedFields, Zenon
<1>4. db.run \in [Attempts -> Runs] /\ db'.run \in [Attempts -> Runs]
  <2>1. \A d \in Dbs : d.run \in [Attempts -> Runs]
    BY DEF Dbs
  <2> QED BY <1>1, <1>2, <2>1, Zenon
<1>5. \A c \in Calls : Inv(c)' = Inv(c)
  BY <1>1, Zenon DEF Inv
<1>6. Task.run <= Task.run
  BY TaskFacts DEF Attempts, None
<1>7. CASE Active = {}
  <2>1. db'.task = db.task
    BY <1>1, <1>3, <1>7, Zenon DEF Task
  <2>2. \A a \in Attempts : db'.run[a] = db.run[a]
    BY <1>1, <1>7, Zenon DEF Run
  <2>3. db'.run = db.run
    BY <1>4, <2>2
  <2>4. /\ Rows' /\ \A a \in Attempts : Run(a)' = Run(a)
        /\ \A c \in Calls : Own(c)' = Own(c)
    BY <1>2, <2>1, <2>3, RowsSame, Zenon
  <2>5. Kept
    BY <1>1, <1>6, <2>1, <2>3, Zenon DEF Kept, Task, Run, Inv
  <2> QED BY <1>1, <1>5, <2>4, <2>5, Zenon
<1>8. CASE Active # {}
  <2>1. PICK a \in Active : TRUE
    BY <1>8
  <2>2. a \in Attempts /\ Active = {a} /\ a = Latest /\ Task.run < a
    BY <1>2, <2>1, ActiveFacts, Zenon DEF Selected
  <2>3. PICK r \in Runs : r = Cutoff(a)
    BY <1>3, <2>1
  <2>4. Interrupts(Run(a), r) /\ r.call = Run(a).call
    BY <1>3, <2>1, <2>3, Zenon
  <2>5. db'.run = [db.run EXCEPT ![a] = r]
    <3>1. \A b \in Attempts : db'.run[b] = IF b = a THEN r ELSE db.run[b]
      BY <1>1, <2>2, <2>3, Zenon DEF Run
    <3>2. [db.run EXCEPT ![a] = r] \in [Attempts -> Runs]
      BY <1>4
    <3>3. \A b \in Attempts : [db.run EXCEPT ![a] = r][b] = IF b = a THEN r ELSE db.run[b]
      BY <1>4
    <3> QED BY <1>4, <3>1, <3>2, <3>3
  <2>6. RunTo(a, r, CutTask)
    BY <1>1, <2>5, Zenon DEF RunTo
  <2>8. a \in Made /\ Run(a) \in Runs /\ WholeRun(Run(a))
    <3>1. Run(a).st \in {"PENDING", "RUNNING"}
      BY <2>1, Zenon DEF Active
    <3>2. Run(a).st # "none"
      BY <3>1
    <3> QED BY <2>2, <3>2, RowFacts, Zenon
  <2>9. RowOk(a, r)
    BY <2>4, <2>8 DEF RowOk, Interrupts, WholeRun, Successes
  <2>10. WholeTask(CutTask)
    BY <1>2, <1>3, Zenon DEF Rows, WholeRows, WholeTask
  <2>11. /\ Task' = CutTask
         /\ \A b \in Attempts : Run(b)' = IF b = a THEN r ELSE Run(b)
         /\ \A c \in Calls : Own(c)' = Own(c)
         /\ Made' = Made /\ Latest' = Latest /\ Numbered' /\ WholeRows'
         /\ Active' = {b \in Attempts : IF b = a THEN r.st \in {"PENDING", "RUNNING"} ELSE b \in Active}
    BY <1>3, <2>2, <2>6, <2>9, <2>10, RunChange, Zenon
  <2>12. Active' = {}
    BY <2>2, <2>4, <2>11 DEF Interrupts
  <2>13. Selected'
    <3>1. SelectedAs(Task, Latest, Made, Active, Run(Task.run), Run(Latest))
      BY <1>2, SelectedNow, Zenon
    <3>2. CutTask.run # None => db'.run[CutTask.run] = Run(Task.run)
      <4>1. Task.run # None => Task.run \in Attempts /\ Task.run # a
        BY <2>2, TaskFacts DEF Attempts
      <4> QED BY <1>3, <2>11, <4>1, Zenon DEF Run
    <3>3. db'.run[Latest] = r
      BY <2>2, <2>11, Zenon DEF Run
    <3>4. r.cut /\ r.res = "none" /\ CutTask.st = "FAILED"
      BY <1>3, <1>8, <2>4, Zenon DEF Interrupts
    <3>5. Latest # None
      BY <2>2 DEF Attempts, None
    <3>6. SelectedAs(CutTask, Latest, Made', Active', Run(Task.run), r)
      BY <1>3, <2>2, <2>11, <2>12, <3>1, <3>4, <3>5 DEF SelectedAs
    <3> QED BY <2>11, <3>2, <3>3, <3>6, SelectedNext, Zenon
  <2>14. \A b \in Attempts : Run(b)' = Run(b) \/ Interrupts(Run(b), Run(b)')
    BY <2>4, <2>11, Zenon
  <2>15. Kept
    <3>1. Run(a).st \notin Outcomes
      BY <2>1 DEF Active, Outcomes, Successes
    <3>2. r.out = Run(a).out /\ Task.st # "SUCCEEDED"
      BY <1>3, <1>8, <2>4 DEF Interrupts
    <3> QED BY <1>1, <1>3, <1>5, <1>6, <2>11, <3>1, <3>2, Zenon DEF Kept, Task, Run, Inv
  <2> QED BY <1>1, <1>5, <2>11, <2>13, <2>14, <2>15, Zenon DEF Rows
<1> QED BY <1>7, <1>8

\* The program exits; its recovery runs, or is refused by the database.
LEMMA CrashStep ==
  ASSUME ManagedInv, Crash
  PROVE  ManagedInv' /\ Kept
<1>0. Types /\ Rows /\ Chain /\ Requested /\ Selecting
  BY Zenon DEF ManagedInv
<1>1. /\ w' = [c \in Calls |-> Idle] /\ call' = call /\ sends' = sends
      /\ \A a \in Attempts : req'[a] = IF req[a] \in Replies THEN "gone" ELSE req[a]
      /\ req' \in [Attempts -> Requests]
  <2>1. req \in [Attempts -> Requests]
    BY <1>0, Zenon DEF Types
  <2> QED BY <2>1 DEF Crash, Requests
<1>2. Idle \in Workers /\ Idle.pc = "idle"
  BY DEF Idle, Workers, WorkPc, MaxTries
<1>3. /\ Rows' /\ db' \in Dbs /\ Kept
      /\ \A a \in Attempts : Run(a)' = Run(a) \/ Interrupts(Run(a), Run(a)')
      /\ \A c \in Calls : Own(c)' = Own(c) /\ Inv(c)' = Inv(c)
  <2>1. CASE db' = Interrupted
    BY <2>1, InterruptedRows, Zenon
  <2>2. CASE db' = db
    <3>1. Task.run <= Task.run
      BY TaskFacts DEF Attempts, None
    <3>2. Kept
      BY <2>2, <3>1, Zenon DEF Kept, Task, Run, Inv
    <3> QED BY <1>0, <2>2, <3>2, RowsSame, Zenon DEF Types, Inv
  <2> QED BY <2>1, <2>2, Zenon DEF Crash
<1>4. \A a \in Attempts : Drops(req[a], req'[a])
  BY <1>1 DEF Drops, Replies, Outcomes, Successes
<1>5. \A c \in Calls : w'[c] = Idle
  BY <1>1
<1>6. \A c \in Calls : Sound(c)'
  BY <1>1, <1>3, <1>4, <1>5, CallsSurvive, Zenon
<1>7. Types'
  <2>1. sys' \in [faults: 0..MaxFaults, crashes: 0..MaxCrashes]
    <3>1. sys \in [faults: 0..MaxFaults, crashes: 0..MaxCrashes]
      BY <1>0, Zenon DEF Types
    <3>2. sys.crashes < MaxCrashes
      BY DEF Crash
    <3>3. \/ sys' = [sys EXCEPT !.crashes = @ + 1]
          \/ sys.faults < MaxFaults /\ sys' = [sys EXCEPT !.crashes = @ + 1, !.faults = @ + 1]
      BY Zenon DEF Crash
    <3>4. CASE sys' = [sys EXCEPT !.crashes = @ + 1]
      BY <3>1, <3>2, <3>4, ManagedAssumption
    <3>5. CASE sys.faults < MaxFaults /\ sys' = [sys EXCEPT !.crashes = @ + 1, !.faults = @ + 1]
      <4> DEFINE one == [sys EXCEPT !.crashes = @ + 1]
      <4>1. one \in [faults: 0..MaxFaults, crashes: 0..MaxCrashes] /\ one.faults = sys.faults
        BY <3>1, <3>2, ManagedAssumption
      <4>2. sys' = [one EXCEPT !.faults = @ + 1]
        BY <3>5, Zenon
      <4> HIDE DEF one
      <4> QED BY <3>5, <4>1, <4>2, ManagedAssumption
    <3> QED BY <3>3, <3>4, <3>5
  <2>2. w' \in [Calls -> Workers]
    BY <1>1, <1>2
  <2> QED BY <1>0, <1>1, <1>3, <2>1, <2>2, Zenon DEF Types
<1>8. Chain'
  BY <1>0, <1>1, Zenon DEF Chain, Ended
<1>9. Requested'
  <2>1. \A a \in Attempts : Run(a)'.st = "none" => Run(a).st = "none"
    BY <1>3 DEF Interrupts
  <2>2. \A a \in Attempts : req[a] = "none" => req'[a] = "none"
    BY <1>1 DEF Replies, Outcomes, Successes
  <2>3. \A a \in Attempts : req'[a] = "run" => req[a] = "run"
    BY <1>1, Zenon
  <2>4. Computing' \subseteq Computing
    BY <2>3, Zenon DEF Computing
  <2> QED BY <1>0, <1>1, <2>1, <2>2, <2>4, Zenon DEF Requested
<1>10. Selecting'
  BY <1>2, <1>5 DEF Selecting, At
<1> QED BY <1>3, <1>6, <1>7, <1>8, <1>9, <1>10, Zenon DEF ManagedInv

-----------------------------------------------------------------------------
(* The theorems *)

\* Nothing was asked yet.
LEMMA InitInv ==
  ASSUME Init
  PROVE  ManagedInv
<1>1. /\ Task = NoTask /\ \A a \in Attempts : Run(a) = NoRun
      /\ \A c \in Calls : Inv(c) = NoInvocation /\ call[c] = NoCall /\ w[c] = Idle
      /\ \A a \in Attempts : req[a] = "none" /\ sends[a] = 0
  BY DEF Init, GpuInit, Task, Run, Inv
<1>2. /\ NoTask.st = "none" /\ NoTask.run = None /\ NoTask.res = None
      /\ NoRun.st = "none" /\ NoRun.out = "none" /\ NoRun.res = "none" /\ NoRun.cut = FALSE
      /\ NoTask \in Tasks /\ NoRun \in Runs /\ NoInvocation \in Invocations
      /\ NoInvocation.st = "none" /\ NoInvocation.run = None /\ NoInvocation.sent = FALSE
      /\ NoCall.st = "none" /\ NoCall.obs = "none" /\ NoCall.stopped = FALSE /\ NoCall \in CallStates
      /\ Idle.pc = "idle" /\ Idle \in Workers
  BY DEF NoTask, NoRun, NoInvocation, NoCall, Idle, Tasks, Runs, Invocations, CallStates, Workers, WorkPc, MaxTries
<1>3. Made = {} /\ Active = {} /\ Computing = {}
  BY <1>1, <1>2 DEF Made, Active, Computing
<1>4. Latest = None /\ \A c \in Calls : Own(c) = None
  BY <1>3 DEF Latest, Own
<1>5. ~Cut
  BY <1>4, Zenon DEF Cut
<1>6. Types
  <2>1. db \in Dbs
    BY <1>2 DEF Init, Dbs
  <2>2. sys \in [faults: 0..MaxFaults, crashes: 0..MaxCrashes]
    BY ManagedAssumption DEF Init
  <2>3. req \in [Attempts -> Requests] /\ sends \in [Attempts -> Nat]
    BY DEF Init, GpuInit, Requests
  <2>4. call \in [Calls -> CallStates] /\ w \in [Calls -> Workers]
    BY <1>2 DEF Init
  <2> QED BY <2>1, <2>2, <2>3, <2>4, Zenon DEF Types
<1>7. WholeRows
  BY <1>1, <1>2 DEF WholeRows, WholeTask, WholeRun, Successes
<1>8. Numbered
  <2>1. 0 \in 0..MaxCalls /\ Made = 1..0
    BY <1>3, ManagedAssumption
  <2> QED BY <1>3, <2>1, Zenon DEF Numbered
<1>9. Selected
  BY <1>1, <1>2, <1>3, <1>4, <1>5 DEF Selected, Outcomes, Successes, None
<1>10. Chain /\ Requested /\ Selecting
  BY <1>1, <1>2, <1>3 DEF Chain, Requested, Selecting, At
<1>11. ASSUME NEW c \in Calls PROVE Sound(c)
  <2> DEFINE r == Run(Own(c))  q == req[Own(c)]  s == sends[Own(c)]
             t == Idle  k == NoCall  i == NoInvocation
  <2>1. /\ t.pc = "idle" /\ k.st = "none" /\ k.obs = "none" /\ k.stopped = FALSE
        /\ i.st = "none" /\ i.run = None /\ i.sent = FALSE
    BY <1>2
  <2> HIDE DEF r, q, s, t, k, i
  <2>2. Local(c, t, k, i, None, r, q, s)
    BY <2>1 DEF Local, Thread1, Call1, Attempt1, Outcome1, Driving, Running, Computed, Observed, Outcomes, Successes
  <2> QED BY <1>1, <1>4, <2>2, Zenon DEF Sound, r, q, s, t, k, i
<1> QED BY <1>6, <1>7, <1>8, <1>9, <1>10, <1>11, Zenon DEF ManagedInv, Rows

\* The steps of the agent.
LEMMA AgentSteps ==
  ASSUME ManagedInv, NEW c \in Calls, Agent(c)
  PROVE  ManagedInv' /\ Kept
<1>1. CASE Submit(c) \/ Resolve(c) \/ Reserve(c)
  BY <1>1, SubmitStep, ResolveStep, ReserveStep, Zenon
<1>2. CASE Insert(c) \/ Fence(c) \/ Stop(c)
  BY <1>2, InsertStep, FenceStep, StopStep, Zenon
<1>3. CASE StopClose(c) \/ Observe(c) \/ Resume(c)
  BY <1>3, StopCloseStep, ObserveStep, ResumeStep, Zenon
<1> QED BY <1>1, <1>2, <1>3, Zenon DEF Agent

\* The steps of a thread.
LEMMA ThreadSteps ==
  ASSUME ManagedInv, NEW c \in Calls, Thread(c)
  PROVE  ManagedInv' /\ Kept
<1>1. CASE Claim(c) \/ Mark(c) \/ Create(c) \/ StartRun(c)
  BY <1>1, ClaimStep, MarkStep, CreateStep, StartRunStep, Zenon
<1>2. CASE Send(c) \/ Receive(c) \/ GiveUp(c) \/ Record(c)
  BY <1>2, SendStep, ReceiveStep, GiveUpStep, RecordStep, Zenon
<1>3. CASE SaveAssets(c) \/ AssetFail(c) \/ Result(c) \/ FailRun(c)
  BY <1>3, SaveAssetsStep, AssetFailStep, ResultStep, FailRunStep, Zenon
<1>4. CASE Select(c) \/ Final(c) \/ FinFail(c) \/ FinUnknown(c)
  BY <1>4, SelectStep, FinalStep, FinFailStep, FinUnknownStep, Zenon
<1> QED BY <1>1, <1>2, <1>3, <1>4, Zenon DEF Thread

\* Every step keeps the invariant, and what has ended.
LEMMA NextStep ==
  ASSUME ManagedInv, [Next]_vars
  PROVE  ManagedInv' /\ Kept
<1>1. CASE UNCHANGED vars
  <2>1. PICK c \in Calls : c = 1
    BY ManagedAssumption DEF Calls
  <2>2. w' = w /\ call' = call /\ req' = req /\ sends' = sends /\ db' = db /\ sys' = sys
    BY <1>1 DEF vars
  <2>3. Types /\ db \in Dbs /\ Inv(c) \in Invocations /\ w[c] \in Workers /\ call[c] \in CallStates
        /\ db.inv \in [Calls -> Invocations] /\ Sound(c) /\ Chain
    BY DbFields, Zenon DEF ManagedInv, Types
  <2>4. db'.inv = [db.inv EXCEPT ![c] = Inv(c)]
    BY <2>2, <2>3 DEF Inv
  <2>5. w' = [w EXCEPT ![c] = w[c]] /\ call' = [call EXCEPT ![c] = call[c]]
    BY <2>2, <2>3 DEF Types
  <2>6. StepTo(c, w[c], call[c], Inv(c))
    BY <2>2, <2>3, <2>4, <2>5, Zenon DEF StepTo, Types
  <2>7. Chain'
    BY <2>2, <2>3, Zenon DEF Chain, Ended
  <2> QED BY <2>3, <2>6, <2>7, CoreStep, Zenon DEF Sound, At
<1>2. CASE Crash
  BY <1>2, CrashStep
<1>3. CASE Runtime
  <2>1. UNCHANGED <<db, call, w, sys>> /\ (Exit \/ \E a \in Attempts : Serve(a))
    BY <1>3, Zenon DEF Runtime
  <2> QED BY <2>1, ExitStep, ServeStep, Zenon
<1>4. CASE \E c \in Calls : Agent(c) \/ Thread(c)
  BY <1>4, AgentSteps, ThreadSteps, Zenon
<1> QED BY <1>1, <1>2, <1>3, <1>4, Zenon DEF Next

\* The inductive invariant holds in every behaviour of a managed task, whatever
\* is stopped, fails or exits (agent_tools.py, tool_execution.py).
THEOREM ManagedInvHolds == Spec => []ManagedInv
<1>1. Init => ManagedInv
  BY InitInv
<1>2. ManagedInv /\ [Next]_vars => ManagedInv'
  BY NextStep
<1> QED BY <1>1, <1>2, PTL DEF Spec

\* A set whose elements are all equal.
LEMMA AtMostOne ==
  ASSUME NEW S, \A x, y \in S : x = y
  PROVE  Cardinality(S) <= 1
<1>1. CASE S = {}
  BY <1>1, FS_EmptySet
<1>2. CASE S # {}
  <2>1. PICK x \in S : S = {x}
    BY <1>2
  <2> QED BY <2>1, FS_Singleton
<1> QED BY <1>1, <1>2

\* The invariant says that nothing is computed twice.
LEMMA InvComputes ==
  ASSUME ManagedInv
  PROVE  ComputedOnce
<1>1. Types /\ Rows /\ Requested /\ Numbered /\ Selected /\ \A c \in Calls : Sound(c)
  BY Zenon DEF ManagedInv, Rows
<1>2. TypeOK
  BY <1>1, Zenon DEF Types, Dbs, Rows, WholeRows, TypeOK
<1>3. OneActive
  <2>1. Cardinality(Active) <= 1
    <3>1. \A a, b \in Active : a = b
      BY <1>1, Zenon DEF Selected
    <3> QED BY <3>1, AtMostOne, Zenon
  <2>2. \A a \in Active : Task.st = "RUNNING" /\ a = Latest /\ Task.run < a
    BY <1>1, Zenon DEF Selected
  <2>3. ASSUME NEW c \in Calls PROVE Cardinality({a \in Made : Run(a).call = c}) <= 1
    <3>1. \A a, b \in {x \in Made : Run(x).call = c} : a = b
      BY <1>1, OneCall, Zenon
    <3> QED BY <3>1, AtMostOne, Zenon
  <2> QED BY <2>1, <2>2, <2>3, Zenon DEF OneActive
<1>4. SentOnce
  <2> SUFFICES ASSUME NEW a \in Attempts, sends[a] > 0
               PROVE  sends[a] = 1 /\ Inv(Run(a).call).sent /\ Run(a).st \notin {"none", "PENDING"}
    BY Zenon DEF SentOnce
  <2>1. sends[a] \in Nat /\ sends[a] # 0
    BY <1>1 DEF Types
  <2>2. Run(a).st # "none" /\ a \in Made
    BY <1>1, <2>1, Zenon DEF Requested, Made
  <2>3. PICK c \in Calls : c = Run(a).call /\ a = Own(c)
    BY <1>1, <2>2, OneCall, OwnFacts, Zenon
  <2>4. a # None
    BY DEF Attempts, None
  <2>5. Attempt1(c, w[c], call[c], Inv(c), a, Run(a), req[a], sends[a])
    BY <1>1, <2>3, Zenon DEF Sound, Local
  <2>6. sends[a] <= 1 /\ req[a] \notin {"none", "way"} /\ Run(a).st # "PENDING" /\ Inv(c).sent
    BY <2>1, <2>4, <2>5 DEF Attempt1
  <2> QED BY <2>1, <2>2, <2>3, <2>6
<1>5. OneComputes
  BY <1>1, AtMostOne, Zenon DEF Requested, OneComputes
<1> QED BY <1>2, <1>3, <1>4, <1>5, Zenon DEF ComputedOnce

\* It says that the selection is whole.
LEMMA InvSelects ==
  ASSUME ManagedInv
  PROVE  SelectionIsWhole
  BY Zenon DEF ManagedInv, Rows, WholeRows, Selected, SelectionIsWhole

\* It says that outcomes are settled.
LEMMA InvSettles ==
  ASSUME ManagedInv
  PROVE  OutcomeIsSettled
<1>1. \A c \in Calls : Sound(c)
  BY Zenon DEF ManagedInv
<1>2. NoFalseFailure
  BY <1>1, Zenon DEF NoFalseFailure, Sound, Local, Outcome1, Known, Pending
<1>3. OwnOutcome
  <2> SUFFICES ASSUME NEW c \in Calls, ~call[c].stopped
               PROVE  /\ Inv(c).run # None => Inv(c).run = Own(c)
                      /\ Own(c) # None => CASE Inv(c).st = "SUCCEEDED" -> Run(Own(c)).res \in Successes
                                            [] Inv(c).st = "FAILED" -> Run(Own(c)).res \notin Successes
                                            [] OTHER -> TRUE
                      /\ call[c].obs \in Successes => Own(c) # None /\ Run(Own(c)).res = call[c].obs
                      /\ call[c].obs = "FAILED" /\ Own(c) # None => Run(Own(c)).st = "FAILED"
    BY Zenon DEF OwnOutcome
  <2> DEFINE own == Own(c)  r == Run(Own(c))  k == call[c]  i == Inv(c)
  <2>1. /\ i.run # None => i.run = own
        /\ own # None /\ i.st = "SUCCEEDED" => r.res \in Successes
        /\ own # None /\ i.st = "FAILED" => r.res \notin Successes
        /\ k.obs \in Successes => own # None /\ r.res = k.obs
        /\ k.obs = "FAILED" /\ own # None => r.st = "FAILED"
    BY <1>1, Zenon DEF Sound, Local, Outcome1
  <2> HIDE DEF own, r, k, i
  <2>2. own # None => CASE i.st = "SUCCEEDED" -> r.res \in Successes
                        [] i.st = "FAILED" -> r.res \notin Successes
                        [] OTHER -> TRUE
    BY <2>1
  <2> QED BY <2>1, <2>2, Zenon DEF own, r, k, i
<1>4. NothingOpen
  BY <1>1, Zenon DEF NothingOpen, Sound, Local, Outcome1, At
<1> QED BY <1>2, <1>3, <1>4, Zenon DEF OutcomeIsSettled

\* No computation runs twice: one attempt is in progress at most, each is
\* computed at most once after it was marked and started, and two of them never
\* at the same time (reserve_retry_attempt, _start_pending_attempt, _execute).
THEOREM NothingIsComputedTwice == Spec => []ComputedOnce
<1>1. ManagedInv => ComputedOnce
  BY InvComputes
<1> QED BY <1>1, ManagedInvHolds, PTL

\* What the task selects is a committed result with its terminal attempt, over
\* failed transactions, interruptions and slow threads
\* (_terminalize_tool_run_and_select_result).
THEOREM SelectionStaysWhole == Spec => []SelectionIsWhole
<1>1. ManagedInv => SelectionIsWhole
  BY InvSelects
<1> QED BY <1>1, ManagedInvHolds, PTL

\* What a call reports is the settled outcome of its own attempt
\* (_finalize_managed_failure, repair, complete).
THEOREM OutcomesAreSettled == Spec => []OutcomeIsSettled
<1>1. ManagedInv => OutcomeIsSettled
  BY InvSettles
<1> QED BY <1>1, ManagedInvHolds, PTL

\* What has ended stays as it ended, and the selection only moves on
\* (_commit_result_once, _select_failed_execution).
THEOREM EndedIsKept == Spec => TerminalIsKept
<1>1. ManagedInv /\ [Next]_vars => [Kept]_vars
  BY NextStep
<1>2. Spec => [][Kept]_vars
  BY <1>1, ManagedInvHolds, PTL DEF Spec
<1> QED BY <1>2, Zenon DEF TerminalIsKept, Kept
=============================================================================
