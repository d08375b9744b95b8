----------------------------- MODULE Submission -----------------------------
(***************************************************************************)
(* How the user's operations become work: the browser tabs of one user     *)
(* (useAgentRuns.ts), the requests on their way, and the transactions that *)
(* admit a message, a reply, a decision, a regeneration, a retry, a resume *)
(* or a stop (routes/agent_runs.py, db/agent.py, conversations.py).        *)
(*                                                                         *)
(* A tab keeps one pending operation in its session storage, sends it      *)
(* again with the same key until it knows the outcome, and shows runs by   *)
(* the versions it has seen.  A request may be served after its tab gave   *)
(* it up; one that is lost is never served.  What a run does between two   *)
(* operations is the subject of AgentRun: here it is at work until it      *)
(* waits, pauses or ends, and PENDING and RUNNING are one state.           *)
(***************************************************************************)
EXTENDS Integers, Sequences, FiniteSets

CONSTANTS
  Tabs,         \* the user's browser tabs
  None,
  MaxOps,       \* bound: operations the user starts
  MaxRuns,      \* bound: runs of all conversations
  MaxMoves,     \* bound: moves of the agent
  MaxStops,     \* bound: presses of the stop button
  MaxTries,     \* bound: times an operation is sent
  MaxGiveUps    \* bound: answers that are not awaited to the end, and reloads

ASSUME SubmissionAssumption ==
  None \notin Nat /\ {MaxOps, MaxRuns, MaxMoves, MaxStops, MaxTries, MaxGiveUps} \subseteq Nat /\ MaxRuns > 0

VARIABLES
  convs,   \* conversations that exist
  runs,    \* the rows of the runs, in the order they were created
  subs,    \* the run each operation was admitted to (0: none), by its key
  ops,     \* what the user asked for, in order: an operation is its index
  hits,    \* history: how often an operation changed something
  tab,     \* the tabs
  net,     \* requests on their way to the server
  sys      \* bounds

vars == <<convs, runs, subs, ops, hits, tab, net, sys>>
server == <<convs, runs, subs, hits>>

Ops == 1..MaxOps
Runs == DOMAIN runs
\* Conversation 0 exists from the beginning; another one is named by the
\* operation whose create key made it.
Convs == 0..MaxOps

Active == {"WORKING", "WAITING_FOR_CONFIRMATION", "INTERRUPTED"}
Terminal == {"SUCCEEDED", "TERMINATED"}
Statuses == Active \cup Terminal \cup {"WAITING_FOR_USER"}
Kinds == {"message", "reply", "confirm", "reject", "regenerate", "retry", "resume"}

\* sub: the operation that was admitted last; wait: its questions and cards so
\* far; card, decision: of the call it holds; done: the cards of recorded calls;
\* resumed: the version a resume was granted for; retryable: it ended with a
\* failed call that may be retried; stopped: ended by its user.
RunRows == [conv: Convs, st: Statuses, ver: Nat, sub: 0..MaxOps, wait: Nat,
            card: Nat, decision: {"none", "confirm", "reject"}, done: SUBSET (1..MaxMoves),
            resumed: Nat, retryable: BOOLEAN, stopped: BOOLEAN]

\* The intention, as pressed: the run it is about with the question or card,
\* the version and the submission that were on the screen.
Intentions == [kind: Kinds, run: Nat, wait: Nat, ver: Nat, sub: 0..MaxOps]
Stops == [run: Nat, sub: 0..MaxOps]
Requests ==
  [type: {"create", "send"}, op: Ops, tab: Tabs, n: Nat, to: Convs \cup {None}]
    \cup [type: {"stop"}, tab: Tabs, at: Stops]

\* op: the pending operation (0: none), the conversation it goes to, the run and
\* submission it is known to be accepted for, and the wish to stop it; pc, n: what
\* is awaited for it, and the attempt; stop: the stop that is awaited;
\* answer, stopped: answers that have arrived.
NoStop == [run |-> 0, sub |-> 0]
Answers == [ok: BOOLEAN, run: Nat, row: RunRows \cup {None}]
TabRows == [conv: Convs \cup {None}, view: [1..MaxRuns -> RunRows \cup {None}],
            op: 0..MaxOps, to: Convs \cup {None}, accepted: Stops, wish: BOOLEAN,
            pc: {"idle", "create", "send"}, n: Nat, stop: Stops,
            answer: Answers \cup {None}, stopped: Answers \cup {None}]

NewRun(c, k) ==
  [conv |-> c, st |-> "WORKING", ver |-> 0, sub |-> k, wait |-> 0, card |-> 0,
   decision |-> "none", done |-> {}, resumed |-> 0, retryable |-> FALSE, stopped |-> FALSE]
\* A run that rests: it failed, is paused, or waits for its user.
OldRuns ==
  LET old == [NewRun(0, 0) EXCEPT !.ver = 3] IN
  {[old EXCEPT !.st = "TERMINATED", !.retryable = TRUE], [old EXCEPT !.st = "INTERRUPTED"], [old EXCEPT !.st = "WAITING_FOR_USER", !.wait = 1],
   [old EXCEPT !.st = "WAITING_FOR_CONFIRMATION", !.wait = 1, !.card = 1]}
Blank == [r \in 1..MaxRuns |-> None]

\* Tabs that show a conversation with one run, or a new conversation.
TabOn(c) ==
  [conv |-> c, view |-> Blank, op |-> 0, to |-> None, accepted |-> NoStop, wish |-> FALSE,
   pc |-> "idle", n |-> 0, stop |-> NoStop, answer |-> None, stopped |-> None]
Init ==
  /\ \/ convs = {0} /\ runs \in {<<old>> : old \in OldRuns} /\ tab = [t \in Tabs |-> TabOn(0)]
     \/ convs = {} /\ runs = << >> /\ tab = [t \in Tabs |-> TabOn(None)]
  /\ ops = << >> /\ net = {}
  /\ hits = [k \in Ops |-> 0] /\ subs = [k \in Ops |-> 0]
  /\ sys = [moves |-> 0, gave |-> 0, stops |-> 0]

-----------------------------------------------------------------------------
(* The server: one transaction under the lock of the conversation *)

\* Slip: a paused run does not hold its conversation.
OccupiedByWork(c) ==
  \E r \in Runs : runs[r].conv = c /\ runs[r].st \in {"WORKING", "WAITING_FOR_CONFIRMATION"}
Occupied(c) == \E r \in Runs : runs[r].conv = c /\ runs[r].st \in Active
Asking(c) == \E r \in Runs : runs[r].conv = c /\ runs[r].st = "WAITING_FOR_USER"

\* What a message, a reply, a regeneration or a retry needs; waiting for an
\* answer does not keep an older run from being repeated.
QuestionStands(i) ==
  runs[i.run].st = "WAITING_FOR_USER" /\ runs[i.run].wait = i.wait
MayOpen(i, c) ==
  /\ ~Occupied(c)
  /\ i.kind = "reply" => QuestionStands(i)
  /\ i.kind = "message" => ~Asking(c)
  /\ i.kind = "retry" => runs[i.run].st \in Terminal /\ runs[i.run].retryable

Opened(k, c) ==
  IF ops[k].kind = "reply"
  THEN [runs EXCEPT ![ops[k].run].st = "WORKING", ![ops[k].run].sub = k, ![ops[k].run].ver = @ + 1]
  ELSE Append(runs, NewRun(c, k))
Home(k) == IF ops[k].kind = "reply" THEN ops[k].run ELSE Len(runs) + 1

Refusal == [ok |-> FALSE, run |-> 0, row |-> None]
Shown(r, row) == [ok |-> TRUE, run |-> r, row |-> row]

\* The answer reaches the tab if it still awaits this attempt.
Answer(q, a) ==
  tab' = IF tab[q.tab].op = q.op /\ tab[q.tab].n = q.n /\ tab[q.tab].pc = q.type
         THEN [tab EXCEPT ![q.tab].answer = a] ELSE tab
Hit(k) == hits' = [hits EXCEPT ![k] = @ + 1]

\* The record of the create key, which is stored with the conversation.
Created(k) == k \in convs

\* POST /conversations: the create key finds the conversation of an earlier attempt.
ServeCreate(q) ==
  /\ q.type = "create"
  /\ convs' = IF Created(q.op) THEN convs ELSE convs \cup {q.op}
  /\ Answer(q, Shown(0, None))
  /\ UNCHANGED <<runs, subs, hits>>

\* The run an earlier attempt with this key was admitted to, if any.
\* Slip: the key is found only while that run is at work.
AdmittedAtWork(k) == IF subs[k] # 0 /\ runs[subs[k]].st = "WORKING" THEN subs[k] ELSE 0
Admitted(k) == subs[k]

\* store.submit: the key of an earlier attempt is found before anything is checked.
ServeSubmit(q) ==
  /\ q.type = "send" /\ ops[q.op].kind \in {"message", "reply", "regenerate", "retry"}
  /\ IF Admitted(q.op) # 0
     THEN Answer(q, Shown(Admitted(q.op), runs[Admitted(q.op)])) /\ UNCHANGED server
     ELSE IF MayOpen(ops[q.op], q.to)
     THEN /\ runs' = Opened(q.op, q.to)
          /\ subs' = [subs EXCEPT ![q.op] = Home(q.op)]
          /\ Hit(q.op) /\ Answer(q, Shown(Home(q.op), runs'[Home(q.op)]))
          /\ UNCHANGED convs
     ELSE Answer(q, Refusal) /\ UNCHANGED server

\* _confirmation and accept_confirmation: a decision that was taken before is
\* taken again; an approval is recognised even after its call was recorded, but
\* not by a request that read the row before that and finds its card gone.
Decided(row, i) ==
  \/ row.card = i.wait /\ row.wait = i.wait /\ row.decision = i.kind
  \/ row.card # i.wait /\ i.wait \in row.done /\ i.kind = "confirm"
CardStands(row, i) ==
  row.st = "WAITING_FOR_CONFIRMATION" /\ row.wait = i.wait /\ row.card = i.wait
ServeDecision(q) ==
  LET i == ops[q.op]
      row == runs[i.run] IN
  /\ q.type = "send" /\ i.kind \in {"confirm", "reject"}
  /\ IF CardStands(row, i)
     THEN /\ runs' = [runs EXCEPT ![i.run].st = "WORKING", ![i.run].decision = i.kind, ![i.run].ver = @ + 1]
          /\ Hit(q.op) /\ Answer(q, Shown(i.run, runs'[i.run]))
          /\ UNCHANGED <<convs, subs>>
     ELSE /\ \/ Decided(row, i) /\ Answer(q, Shown(i.run, row))
             \/ (Decided(row, i) => row.card # i.wait) /\ Answer(q, Refusal)
          /\ UNCHANGED server

\* _resume: a receipt found meanwhile is stored first, whether or not the run
\* can then go on.
Resumable(row, i) == row.st = "INTERRUPTED" /\ row.ver = i.ver
ServeResume(q) ==
  LET i == ops[q.op]
      row == runs[i.run] IN
  /\ q.type = "send" /\ i.kind = "resume"
  /\ IF row.sub = i.sub /\ row.resumed # i.ver /\ Resumable(row, i)
     THEN \E found \in {0, 1} :
            \/ /\ runs' = [runs EXCEPT ![i.run].st = "WORKING", ![i.run].resumed = i.ver,
                                       ![i.run].ver = @ + found + 1]
               /\ Hit(q.op) /\ Answer(q, Shown(i.run, runs'[i.run]))
               /\ UNCHANGED <<convs, subs>>
            \/ /\ runs' = [runs EXCEPT ![i.run].ver = @ + found]
               /\ Answer(q, Refusal)
               /\ UNCHANGED <<convs, subs, hits>>
     ELSE /\ Answer(q, IF row.sub = i.sub /\ row.resumed = i.ver THEN Shown(i.run, row) ELSE Refusal)
          /\ UNCHANGED server

\* store._stop: only the submission that was meant, and only while it works or is paused.
\* Slip: whatever the run is doing by now is stopped.
StoppableAlways(row, at) == row.st \in {"WORKING", "INTERRUPTED"}
Stoppable(row, at) == row.sub = at.sub /\ row.st \in {"WORKING", "INTERRUPTED"}
StopAnswer(q, a) ==
  tab' = IF tab[q.tab].stop = q.at THEN [tab EXCEPT ![q.tab].stopped = a] ELSE tab
ServeStop(q) ==
  /\ q.type = "stop"
  /\ LET r == q.at.run IN
     IF Stoppable(runs[r], q.at)
     THEN /\ runs' = [runs EXCEPT ![r].st = "TERMINATED", ![r].stopped = TRUE, ![r].ver = @ + 1]
          /\ StopAnswer(q, Shown(r, runs'[r]))
     ELSE /\ StopAnswer(q, IF runs[r].sub = q.at.sub THEN Shown(r, runs[r]) ELSE Refusal)
          /\ UNCHANGED runs
  /\ UNCHANGED <<convs, subs, hits>>

Serve(q) ==
  /\ ServeCreate(q) \/ ServeSubmit(q) \/ ServeDecision(q) \/ ServeResume(q) \/ ServeStop(q)
  /\ net' = net \ {q}
  /\ UNCHANGED <<ops, sys>>

-----------------------------------------------------------------------------
(* The agent: what a run at work does next *)

\* The call it held was recorded, unless its user rejected it.
Recorded(row) ==
  IF row.card # 0 /\ row.decision = "confirm"
  THEN [row EXCEPT !.card = 0, !.decision = "none", !.done = @ \cup {row.card}] ELSE row
Move(r, row) ==
  /\ runs[r].st = "WORKING" /\ sys.moves < MaxMoves
  /\ sys' = [sys EXCEPT !.moves = @ + 1]
  /\ runs' = [runs EXCEPT ![r] = [row EXCEPT !.ver = @ + 1]]
  /\ UNCHANGED <<convs, subs, hits, ops, tab, net>>
Rejected(r) == runs[r].decision = "reject"

Ask(r) ==
  ~Rejected(r) /\ Move(r, [Recorded(runs[r]) EXCEPT !.st = "WAITING_FOR_USER", !.wait = @ + 1])
PutCard(r) ==
  ~Rejected(r) /\ Move(r, [Recorded(runs[r]) EXCEPT !.st = "WAITING_FOR_CONFIRMATION",
                              !.wait = @ + 1, !.card = runs[r].wait + 1])
Pause(r) == \E row \in {runs[r], Recorded(runs[r])} : Move(r, [row EXCEPT !.st = "INTERRUPTED"])
Succeed(r) == ~Rejected(r) /\ Move(r, [Recorded(runs[r]) EXCEPT !.st = "SUCCEEDED"])
Fail(r) ==
  \/ Move(r, [runs[r] EXCEPT !.st = "TERMINATED"])
  \/ ~Rejected(r) /\ Move(r, [Recorded(runs[r]) EXCEPT !.st = "TERMINATED", !.retryable = TRUE])

-----------------------------------------------------------------------------
(* A tab *)

\* updateRun: a run of the selected conversation, unless a later version is shown.
Newer(t, r, row) ==
  /\ row.conv = tab[t].conv
  /\ tab[t].view[r] # None => tab[t].view[r].ver <= row.ver
Viewed(t, r, row) == IF Newer(t, r, row) THEN [tab[t].view EXCEPT ![r] = row] ELSE tab[t].view
OnScreen(t, states) == {r \in 1..MaxRuns : tab[t].view[r] # None /\ tab[t].view[r].st \in states}

\* refresh, which also stands for the stream of a run at work.
Refreshed(t) == [r \in 1..MaxRuns |-> IF r \in Runs /\ Newer(t, r, runs[r]) THEN runs[r] ELSE tab[t].view[r]]
Refresh(t) ==
  /\ tab[t].view # Refreshed(t)
  /\ tab' = [tab EXCEPT ![t].view = Refreshed(t)]
  /\ UNCHANGED <<server, ops, net, sys>>

Generating(t) ==
  tab[t].pc # "idle" \/ tab[t].stop # NoStop \/ OnScreen(t, {"WORKING"}) # {}
Busy(t) == Generating(t) \/ tab[t].op # 0

About(t, kind, r) ==
  [kind |-> kind, run |-> r, wait |-> tab[t].view[r].wait,
   ver |-> tab[t].view[r].ver, sub |-> tab[t].view[r].sub]

\* What may be written: an answer to the question on the screen, or a message.
Writings(t) ==
  IF OnScreen(t, {"WAITING_FOR_CONFIRMATION", "INTERRUPTED"}) # {} THEN {}
  ELSE IF OnScreen(t, {"WAITING_FOR_USER"}) # {}
  THEN {About(t, "reply", r) : r \in OnScreen(t, {"WAITING_FOR_USER"})}
  ELSE {[kind |-> "message", run |-> 0, wait |-> 0, ver |-> 0, sub |-> 0]}
\* What may be pressed.
Offers(t) ==
  LET failed == {r \in OnScreen(t, Terminal) : tab[t].view[r].retryable} IN
  Writings(t)
    \cup {About(t, d, r) : d \in {"confirm", "reject"}, r \in OnScreen(t, {"WAITING_FOR_CONFIRMATION"})}
    \cup {About(t, "regenerate", r) : r \in OnScreen(t, {"SUCCEEDED"})}
    \cup {About(t, "retry", r) : r \in failed}
    \cup {About(t, "resume", r) : r \in OnScreen(t, {"INTERRUPTED"})}

Send(t, k, n, to) ==
  [type |-> IF to = None THEN "create" ELSE "send", op |-> k, tab |-> t, n |-> n, to |-> to]
Await(row, q) == [row EXCEPT !.pc = q.type, !.n = q.n, !.answer = None]

\* submit, confirm, regenerate, retry, resume: stored, then sent.
Press(t) ==
  /\ ~Busy(t) /\ Len(ops) < MaxOps /\ Len(runs) < MaxRuns
  /\ tab[t].conv = None => ops = << >>  \* bound: one new conversation
  /\ \E i \in Offers(t) :
       LET k == Len(ops) + 1
           q == Send(t, k, 1, tab[t].conv) IN
       /\ ops' = Append(ops, i)
       /\ net' = net \cup {q}
       /\ tab' = [tab EXCEPT ![t] = Await([@ EXCEPT !.op = k, !.to = tab[t].conv], q)]
  /\ UNCHANGED <<server, sys>>

AskStop(t, at) == net' = net \cup {[type |-> "stop", tab |-> t, at |-> at]}
Cleared(row) == [row EXCEPT !.op = 0, !.to = None, !.accepted = NoStop, !.wish = FALSE,
                            !.pc = "idle", !.n = 0, !.answer = None]

\* sendPending: again, with the same key.
Check(t) ==
  /\ tab[t].op # 0 /\ tab[t].pc = "idle" /\ tab[t].n < MaxTries
  /\ IF tab[t].accepted # NoStop
     THEN /\ tab[t].stop = NoStop
          /\ AskStop(t, tab[t].accepted) /\ tab' = [tab EXCEPT ![t].stop = tab[t].accepted]
     ELSE LET q == Send(t, tab[t].op, tab[t].n + 1, tab[t].to) IN
          net' = net \cup {q} /\ tab' = [tab EXCEPT ![t] = Await(@, q)]
  /\ UNCHANGED <<server, ops, sys>>

\* The answer of sendPending: a conversation to go to, an acceptance, which is
\* dropped at once or stopped as its user wished, or a definite refusal, which
\* drops the operation unless it was to be stopped.
Acceptance(t) ==
  LET a == tab[t].answer IN
  [run |-> a.run, sub |-> IF subs[tab[t].op] # 0 THEN tab[t].op ELSE a.row.sub]
Receive(t) ==
  LET a == tab[t].answer
      seen == [tab[t] EXCEPT !.answer = None, !.view = Viewed(t, a.run, a.row)]
      again == Send(t, tab[t].op, tab[t].n, tab[t].op) IN
  /\ a # None
  /\ CASE tab[t].pc = "create" ->
           /\ net' = net \cup {again}
           /\ tab' = [tab EXCEPT ![t] = Await([@ EXCEPT !.to = tab[t].op, !.conv = tab[t].op, !.view = Blank], again)]
       [] tab[t].pc = "send" /\ a.ok /\ ~tab[t].wish ->
           tab' = [tab EXCEPT ![t] = Cleared(seen)] /\ UNCHANGED net
       [] tab[t].pc = "send" /\ a.ok /\ tab[t].wish /\ tab[t].stop = NoStop ->
           /\ AskStop(t, Acceptance(t))
           /\ tab' = [tab EXCEPT ![t] = [seen EXCEPT !.pc = "idle", !.accepted = Acceptance(t), !.stop = Acceptance(t)]]
       [] tab[t].pc = "send" /\ a.ok /\ tab[t].wish /\ tab[t].stop # NoStop ->
           tab' = [tab EXCEPT ![t] = [seen EXCEPT !.pc = "idle", !.accepted = Acceptance(t)]] /\ UNCHANGED net
       [] ~a.ok /\ ~tab[t].wish -> tab' = [tab EXCEPT ![t] = Cleared(@)] /\ UNCHANGED net
       [] ~a.ok /\ tab[t].wish -> tab' = [tab EXCEPT ![t].pc = "idle", ![t].answer = None] /\ UNCHANGED net
  /\ UNCHANGED <<server, ops, sys>>

\* stop(): what was accepted, or else a run on the screen; with neither, only
\* the wish is kept, until sendPending knows of an acceptance.
Targets(t) ==
  IF tab[t].accepted # NoStop THEN {tab[t].accepted}
  ELSE {[run |-> r, sub |-> tab[t].view[r].sub] : r \in OnScreen(t, {"WORKING", "INTERRUPTED"})}
PressStop(t) ==
  /\ tab[t].stop = NoStop /\ sys.stops < MaxStops
  /\ sys' = [sys EXCEPT !.stops = @ + 1]
  /\ Generating(t) \/ (~Busy(t) /\ OnScreen(t, {"INTERRUPTED"}) # {})
  /\ \/ \E at \in Targets(t) :
          AskStop(t, at) /\ tab' = [tab EXCEPT ![t].stop = at, ![t].wish = tab[t].op # 0]
     \/ /\ Targets(t) = {} /\ tab[t].op # 0 /\ ~tab[t].wish
        /\ tab' = [tab EXCEPT ![t].wish = TRUE] /\ UNCHANGED net
  /\ UNCHANGED <<server, ops>>

\* The answer of the stop replaces what is shown, and a stopped tab has nothing
\* pending; a refusal leaves everything as it is.
ReceiveStop(t) ==
  LET a == tab[t].stopped
      shown == IF a.row.conv = tab[t].conv THEN [tab[t].view EXCEPT ![a.run] = a.row] ELSE tab[t].view IN
  /\ a # None
  /\ tab' = [tab EXCEPT ![t] =
       IF a.ok THEN Cleared([@ EXCEPT !.stop = NoStop, !.stopped = None, !.view = shown])
               ELSE [@ EXCEPT !.stop = NoStop, !.stopped = None]]
  /\ UNCHANGED <<server, ops, net, sys>>

\* No answer that can be read: a network error, a fault of the server.
Gave == sys.gave < MaxGiveUps /\ sys' = [sys EXCEPT !.gave = @ + 1]
GiveUp(t) ==
  /\ Gave /\ tab[t].pc # "idle"
  /\ tab' = [tab EXCEPT ![t].pc = "idle", ![t].answer = None]
  /\ UNCHANGED <<server, ops, net>>
GiveUpStop(t) ==
  /\ Gave /\ tab[t].stop # NoStop
  /\ tab' = [tab EXCEPT ![t].stop = NoStop, ![t].stopped = None]
  /\ UNCHANGED <<server, ops, net>>
\* Only the session storage outlives a reload.
Reload(t) ==
  /\ Gave
  /\ tab' = [tab EXCEPT ![t] = [@ EXCEPT !.pc = "idle", !.answer = None, !.stop = NoStop,
                                        !.stopped = None, !.view = Blank]]
  /\ UNCHANGED <<server, ops, net>>

-----------------------------------------------------------------------------
Agent == \E r \in Runs : Ask(r) \/ PutCard(r) \/ Pause(r) \/ Succeed(r) \/ Fail(r)

Next ==
  \/ \E q \in net : Serve(q)
  \/ Agent
  \/ \E t \in Tabs :
       \/ Refresh(t) \/ Press(t) \/ Check(t) \/ Receive(t)
       \/ PressStop(t) \/ ReceiveStop(t)
       \/ GiveUp(t) \/ GiveUpStop(t) \/ Reload(t)

Spec == Init /\ [][Next]_vars

-----------------------------------------------------------------------------
(* Properties *)

TypeOK ==
  /\ convs \subseteq Convs /\ net \subseteq Requests
  /\ runs \in Seq(RunRows) /\ ops \in Seq(Intentions)
  /\ subs \in [Ops -> Nat] /\ hits \in [Ops -> Nat]
  /\ tab \in [Tabs -> TabRows]

\* However often an operation is sent, and whatever arrives late, it posts one
\* message, opens one run, decides one card or resumes one pause.
OncePerIntention == TypeOK /\ \A k \in Ops : hits[k] <= 1

\* One run of a conversation is at work or holds its place, whichever tabs and
\* late requests compete for it.
OneAtWork ==
  \A c \in convs : Cardinality({r \in Runs : runs[r].conv = c /\ runs[r].st \in Active}) <= 1

\* What happens to a run is what somebody who saw that very state asked for: a
\* reply answers the question, a decision the card, a resume the pause, and a
\* stop the submission that was on the screen.
RightTarget ==
  [][\A r \in Runs :
       /\ runs[r].st \in {"WAITING_FOR_USER", "WAITING_FOR_CONFIRMATION", "INTERRUPTED"} /\ runs'[r].st = "WORKING" =>
            \E k \in DOMAIN ops :
              /\ hits'[k] > hits[k] /\ ops[k].run = r /\ ops[k].wait = runs[r].wait
              /\ runs[r].st = "INTERRUPTED" => ops[k].ver = runs[r].ver /\ ops[k].sub = runs[r].sub
              /\ ops[k].kind \in CASE runs[r].st = "WAITING_FOR_USER" -> {"reply"}
                                   [] runs[r].st = "INTERRUPTED" -> {"resume"}
                                   [] OTHER -> {runs'[r].decision}
       /\ runs'[r].stopped /\ ~runs[r].stopped =>
            \E q \in net : q.type = "stop" /\ q.at = [run |-> r, sub |-> runs[r].sub]]_vars
=============================================================================
