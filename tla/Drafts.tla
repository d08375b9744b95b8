------------------------------- MODULE Drafts -------------------------------
(***************************************************************************)
(* How a tool call the model proposes becomes the arguments that are       *)
(* executed: the resources shown to the model under temporary references   *)
(* (ml_resource_context.py), the proposal it answers with and its decoding *)
(* (native_tool_protocol.py, context_framework.py), the resolver that      *)
(* binds resources, settles units and normalizes values (agent_tools.py,   *)
(* unit_resolution.py, zta35g_input.py), the draft and the pending call    *)
(* kept in the run (agent_runtime.py on_model, on_tool), and the revision  *)
(* kept for a managed task.                                                *)
(*                                                                         *)
(* One run at a time works in one conversation whose references change     *)
(* under it; the process may die between any two commits, and the graph's  *)
(* checkpoint is written behind the graph.  Three tools stand for all:     *)
(* "train" takes a dataset and has one column whose unit may be declared,  *)
(* "lab" is managed and normalizes two parameters, "convert" only names    *)
(* units.  The dispatch of a prepared call is one step here: AgentRun and  *)
(* Invocation are about what may happen inside it.                         *)
(***************************************************************************)
EXTENDS Integers, Sequences, FiniteSets, SequencesExt

CONSTANTS
  Unset, Ambiguous,
  Datasets,      \* references to datasets
  Training,      \* the reference a successful training registers
  Declared,      \* the unit declared for the column of a dataset, or Unset
  Dimension,     \* of a unit
  InitialRefs,   \* the references a run may find
  Candidates,    \* what the model may propose
  MaxCalls,      \* bound: model responses
  MaxMessages,   \* bound: messages of the user
  MaxCrashes,
  MaxChanges,    \* bound: uploads, lost datasets and new releases
  MaxRetries

ASSUME DraftsAssumption ==
  /\ {Unset, Ambiguous, Training} \cap Datasets = {}
  /\ Declared \in [Datasets -> (DOMAIN Dimension) \cup {Unset}]
  /\ \A i \in InitialRefs : i.list \in Seq(Datasets) /\ IsInjective(i.list) /\ i.attached \in Range(i.list) \cup {Unset}
  /\ {MaxCalls, MaxMessages, MaxCrashes, MaxChanges, MaxRetries} \subseteq Nat

VARIABLES
  refs,    \* references of the conversation, newest first
  lost,    \* datasets that are not AVAILABLE any more
  schema,  \* schema hash and version of the registered tools, as a number
  run,     \* the durable row of the run at work
  worker,  \* the process that advances it
  sdk,     \* the durable checkpoint: the call to execute, or Unset: the model is next
  tasks,   \* managed tasks with their input revisions
  seen,    \* history: the resources shown to the model, by call
  said,    \* history: units the user asserted for a dataset, as the resolver took them
  sent,    \* history: calls that reached their tool
  bounds   \* what the bounds below have counted

draftsVars == <<refs, lost, schema, run, worker, sdk, tasks, seen, said, sent, bounds>>

Tools == {"train", "lab", "convert"}

\* What the resolver settled for one tool: args are normalized, bound is the
\* dataset, notes the unit the model inferred, units the unit annotation.
Draft == [tool |-> "train", schema |-> 0, args |-> Unset, bound |-> Unset, notes |-> Unset,
          units |-> Unset, issues |-> {}, task |-> 0, rev |-> 0]

\* The pending call of a run that has none.
NoCall == [call |-> 0, tool |-> "train", schema |-> 0, args |-> Unset, bound |-> Unset, units |-> Unset]

FreshRun(n, target) ==
  [no |-> n, status |-> "RUNNING", draft |-> Unset, pcall |-> 0, pmap |-> <<>>, rec |-> NoCall,
   execs |-> <<>>, answered |-> {}, asking |-> FALSE, retry |-> target]

\* pc: where the graph stands; frame: the resources of the context it built, Unset
\* when it has none; due: the checkpoint it has reached; draft: resolved, not saved.
Idle == [pc |-> "idle", frame |-> Unset, call |-> Unset, due |-> Unset, draft |-> Unset, replay |-> FALSE]
AtModel(replay) == [Idle EXCEPT !.pc = "model", !.replay = replay]

DraftsInit ==
  /\ refs \in InitialRefs
  /\ lost = {} /\ schema = 1
  /\ run = FreshRun(1, Unset) /\ worker = AtModel(FALSE) /\ sdk = Unset
  /\ tasks = <<>> /\ seen = <<>> /\ said = {} /\ sent = <<>>
  /\ bounds = [calls |-> 0, messages |-> 1, crashes |-> 0, changes |-> 0, retries |-> 0]

-----------------------------------------------------------------------------
(* The context of a model call *)

\* The attachment first, then the kinds in turn, newest first within a kind.
Frame ==
  LET others == SelectSeq(refs.list, LAMBDA r : r # refs.attached)
      data == SelectSeq(others, LAMBDA r : r # Training)
      first == IF refs.attached = Unset THEN <<>> ELSE <<refs.attached>>
  IN IF ~Contains(others, Training) THEN first \o data
     ELSE IF data = <<>> THEN first \o <<Training>>
     ELSE first \o <<data[1], Training>> \o Tail(data)

\* context(): the frame is built before the request and kept for the response.
BuildContext ==
  /\ worker.pc = "model" /\ run.status = "RUNNING" /\ bounds.calls < MaxCalls
  /\ worker' = [worker EXCEPT !.pc = "asked", !.frame = Frame]
  /\ UNCHANGED <<refs, lost, schema, run, sdk, tasks, seen, said, sent, bounds>>

\* A proposal: ref is a position of the frame or 0 for unresolved; args are the
\* values of "lab" and "convert"; note is a unit the model inferred; claim is one
\* it says the user gave, in the newest message or in an older one.
Proposals == {o \in Candidates : o.claim # Unset /\ ~o.claim.newest => bounds.messages > 1}

Executed(id) == \E i \in DOMAIN run.execs : run.execs[i].call = id
End(status) == /\ run' = [run EXCEPT !.status = status]
               /\ worker' = Idle

\* The marker of a call whose checkpoint was never written, seen by a replay.
StaleMarker ==
  /\ worker.replay /\ run.pcall # 0 /\ run.rec = NoCall /\ ~run.asking
  /\ ~Executed(run.pcall) /\ run.pcall \notin run.answered

\* The call a proposal becomes.
AsCall(n, p) ==
  [id |-> n, tool |-> p.tool, ref |-> p.ref, args |-> p.args, note |-> p.note, claim |-> p.claim]

\* on_model: the call and the frame it was made in are durable together.
OnModel ==
  /\ worker.pc = "asked"
  /\ bounds' = [bounds EXCEPT !.calls = @ + 1]
  /\ \E p \in Proposals :
       /\ seen' = Append(seen, worker.frame)
       /\ IF run.pcall # 0 /\ ~StaleMarker THEN End("TERMINATED")
          ELSE /\ run' = [run EXCEPT !.pcall = bounds'.calls, !.pmap = worker.frame]
               /\ worker' = [worker EXCEPT !.pc = "tool", !.call = AsCall(bounds'.calls, p),
                                               !.due = AsCall(bounds'.calls, p)]
  /\ UNCHANGED <<refs, lost, schema, sdk, tasks, said, sent>>

\* A message without a call is the final answer.
Finish ==
  /\ worker.pc = "asked" /\ End("SUCCEEDED")
  /\ UNCHANGED <<refs, lost, schema, sdk, tasks, seen, said, sent, bounds>>

\* The checkpoint is written behind the graph.
Checkpoint ==
  /\ worker.pc # "idle" /\ sdk # worker.due
  /\ sdk' = worker.due
  /\ UNCHANGED <<refs, lost, schema, run, worker, tasks, seen, said, sent, bounds>>

-----------------------------------------------------------------------------
(* Decoding and resolving *)

\* Slip: a replay looks the references up again.
ShownAnew == IF worker.frame # Unset THEN worker.frame ELSE Frame
\* The frame of the call is used as it was shown; a replay builds a new one only
\* when nothing was kept.
ShownFrame ==
  IF run.pmap # <<>> THEN run.pmap
  ELSE IF worker.frame # Unset THEN worker.frame ELSE Frame

\* Assertions are about a resource of the tool and quote the newest message.
Decodable(p) == p.claim # Unset => p.tool = "train" /\ p.claim.newest

Previous(p) == IF run.draft # Unset /\ run.draft.tool = p.tool THEN run.draft ELSE Unset

\* bind(): the resource must be of the tool's type and still be there.
ResourceIssue(p) ==
  IF p.tool # "train" \/ run.retry # Unset THEN "none"
  ELSE IF p.ref = Unset THEN "Missing"
  ELSE IF p.ref = 0 THEN "Ambiguous"
  ELSE IF p.ref \notin DOMAIN ShownFrame \/ ShownFrame[p.ref] = Training THEN "Invalid"
  ELSE IF ShownFrame[p.ref] \in lost THEN "Conflict" ELSE "none"

\* A retry keeps the resources of the failed call.
Bound(p) ==
  IF p.tool # "train" THEN Unset
  ELSE IF run.retry # Unset THEN run.retry.bound
  ELSE IF ResourceIssue(p) = "none" THEN ShownFrame[p.ref] ELSE Unset

\* Slip: the confirmation is kept for the argument, whatever is bound to it.
CarriedOn(prev, bound) ==
  IF prev # Unset /\ prev.units # Unset /\ bound # Unset /\ prev.units.by = "confirmed"
    THEN prev.units.unit ELSE Unset
\* A confirmed unit is carried over while the binding is the same.
Carried(prev, bound) ==
  IF /\ prev # Unset
     /\ prev.units # Unset /\ prev.bound # Unset
     /\ prev.units.by = "confirmed" /\ prev.bound = bound
    THEN prev.units.unit ELSE Unset

Confirmed(p) == IF p.claim # Unset THEN p.claim.unit ELSE Carried(Previous(p), Bound(p))

\* An inference dropped from a conversion stays with its draft.
Notes(p) ==
  IF p.note = Unset /\ p.tool = "convert" /\ Previous(p) # Unset THEN Previous(p).notes ELSE p.note

\* UnitResolutionPolicy: what is trusted decides, an inference only asks.
Annotation(note, declared, confirmed) ==
  LET trusted == IF confirmed # Unset THEN confirmed ELSE declared
  IN [unit |-> IF trusted # Unset THEN trusted ELSE note,
      by |-> IF confirmed # Unset THEN "confirmed" ELSE IF declared # Unset THEN "declared" ELSE "inferred"]

DeclaredOf(p) == IF Bound(p) = Unset THEN Unset ELSE Declared[Bound(p)]
Annotated(p) == Notes(p) # Unset /\ (p.tool = "train" => Bound(p) # Unset)

UnitsOf(p) ==
  IF run.retry # Unset THEN run.retry.units
  ELSE IF Annotated(p) THEN Annotation(Notes(p), DeclaredOf(p), Confirmed(p)) ELSE Unset

UnitIssue(p) ==
  IF Notes(p) = Unset THEN "none"
  ELSE IF ~Annotated(p) THEN "Ambiguous"
  ELSE IF Unset \notin {DeclaredOf(p), Confirmed(p)} /\ DeclaredOf(p) # Confirmed(p) THEN "Conflict"
  ELSE IF {DeclaredOf(p), Confirmed(p)} = {Unset} THEN "Ambiguous" ELSE "none"

-----------------------------------------------------------------------------
(* Normalization of the managed tool and validation of the others *)

\* Temperatures are in tenths of a degree and become degrees.
Temperatures == {v \in 9000..11000 : v % 10 = 0}
Temperature(v) ==
  IF v = Unset THEN [value |-> Unset, issue |-> "Missing"]
  ELSE IF v = Ambiguous THEN [value |-> Unset, issue |-> "Ambiguous"]
  ELSE IF v \notin Temperatures THEN [value |-> Unset, issue |-> "Invalid"]
  ELSE [value |-> v \div 10, issue |-> "none"]

\* Times are in hundredths of an hour or of a minute and become tenths of an hour.
Durations == {m \in 6000..30000 : m % 600 = 0}
InMinutes(t) == IF t.unit = "h" THEN 60 * t.value ELSE t.value
Duration(t) ==
  IF t = Unset THEN [value |-> Unset, issue |-> "Missing"]
  ELSE IF t = Ambiguous THEN [value |-> Unset, issue |-> "Ambiguous"]
  ELSE IF InMinutes(t) \notin Durations THEN [value |-> Unset, issue |-> "Invalid"]
  ELSE [value |-> InMinutes(t) \div 600, issue |-> "none"]

Normalized(in) == [temp |-> Temperature(in.temp), time |-> Duration(in.time)]

\* One invalid field hides that another one was ambiguous.
LabIssues(in) ==
  LET n == Normalized(in)
      open == {f \in DOMAIN n : n[f].issue # "none"}
      invalid == \E f \in open : n[f].issue = "Invalid"
  IN {<<f, IF invalid /\ n[f].issue = "Ambiguous" THEN "Missing" ELSE n[f].issue>> : f \in open}

ArgsOf(p) ==
  IF p.tool = "lab" THEN [f \in {"temp", "time"} |-> Normalized(p.args)[f].value] ELSE p.args

\* A standard tool is validated only when nothing else is open.
Issues(p) ==
  LET resource == IF ResourceIssue(p) = "none" THEN {} ELSE {<<"dataset", ResourceIssue(p)>>}
      unit == IF UnitIssue(p) = "none" THEN {} ELSE {<<"semantic_annotations", UnitIssue(p)>>}
      lab == IF p.tool = "lab" THEN LabIssues(p.args) ELSE {}
      found == resource \cup unit \cup lab
  IN IF found = {} /\ p.tool = "convert" /\ Dimension[p.args.from] # Dimension[p.args.to]
       THEN {<<"units", "Invalid">>} ELSE found

\* authorize: a draft goes on under the registration that it was made with.
Authorized(p) == Previous(p) # Unset => Previous(p).schema = schema

\* What ends the run: a proposal for another registration than the draft's or the
\* retried call's, one that changes a retry, an assertion about nothing bound.
Refused(p) ==
  \/ ~Decodable(p)
  \/ ~Authorized(p)
  \/ /\ run.retry # Unset
     /\ \/ run.retry.tool # p.tool \/ run.retry.schema # schema
        \/ p.ref # Unset \/ Notes(p) # Unset
        \/ run.retry.bound \in lost
  \/ p.claim # Unset /\ Bound(p) = Unset

-----------------------------------------------------------------------------
(* The draft, its revision and the pending call *)

Fingerprint(d) == <<d.tool, d.schema, d.args, d.bound>>

\* Slip: only the last call is looked at.
SucceededLast(d) ==
  run.execs # <<>> /\ Last(run.execs).status = "SUCCEEDED" /\ Fingerprint(Last(run.execs)) = Fingerprint(d)
Succeeded(d) ==
  \E i \in DOMAIN run.execs : run.execs[i].status = "SUCCEEDED" /\ Fingerprint(run.execs[i]) = Fingerprint(d)

ResolvedDraft(p) ==
  LET prev == Previous(p)
  IN [Draft EXCEPT !.tool = p.tool, !.schema = schema, !.args = ArgsOf(p), !.bound = Bound(p),
        !.notes = Notes(p), !.units = UnitsOf(p), !.issues = Issues(p),
        !.task = IF prev # Unset THEN prev.task ELSE 0, !.rev = IF prev # Unset THEN prev.rev ELSE 0]

\* A ready managed draft gets a revision of its task; a retry takes the newest
\* one of the failed task; a repeated or unchanged input gets none.
SameInput(d) == run.draft # Unset /\ run.draft.tool = d.tool /\ run.draft.args = d.args /\ run.draft.issues = {}
Revises(d) == d.tool = "lab" /\ d.issues = {} /\ run.retry = Unset /\ ~Succeeded(d) /\ ~SameInput(d)
Located(d) ==
  IF d.tool = "lab" /\ d.issues = {} /\ run.retry # Unset
    THEN [d EXCEPT !.task = run.retry.task, !.rev = Len(tasks[run.retry.task].revs)]
  ELSE IF Revises(d)
    THEN IF d.task = 0 THEN [d EXCEPT !.task = Len(tasks) + 1, !.rev = 1]
         ELSE [d EXCEPT !.rev = Len(tasks[d.task].revs) + 1]
  ELSE d

Editable(d) == d.task = 0 \/ tasks[d.task].status \in {"READY", "NEEDS_INPUT"}
WithRevision(d) ==
  IF d.task = 0 THEN Append(tasks, [status |-> "READY", revs |-> <<d.args>>])
  ELSE [tasks EXCEPT ![d.task].status = "READY", ![d.task].revs = Append(@, d.args)]

AtTool == worker.pc = "tool" /\ ~Executed(worker.call.id) /\ worker.call.id \notin run.answered
Owned == AtTool /\ run.pcall = worker.call.id
Proposed == Owned /\ worker.call.tool \in Tools /\ run.rec = NoCall

\* resolve: a new revision is committed here, the draft only later.
Resolve ==
  /\ Proposed
  /\ LET p == worker.call
         d == ResolvedDraft(p)
     IN IF Refused(p) \/ (Revises(d) /\ ~Editable(d))
          THEN End("TERMINATED") /\ UNCHANGED <<tasks, said>>
          ELSE /\ worker' = [worker EXCEPT !.pc = "resolved", !.draft = Located(d)]
               /\ tasks' = IF Revises(d) THEN WithRevision(d) ELSE tasks
               /\ said' = IF p.claim # Unset THEN said \cup {<<Bound(p), p.claim.unit>>} ELSE said
               /\ UNCHANGED run
  /\ UNCHANGED <<refs, lost, schema, sdk, seen, sent, bounds>>

Unmarked(r) == [r EXCEPT !.pcall = 0, !.pmap = <<>>]
BackToModel == [worker EXCEPT !.pc = "model", !.frame = Unset, !.call = Unset, !.due = Unset, !.draft = Unset]

\* An open draft goes back to the model as NEEDS_INPUT.
NeedInput ==
  /\ worker.pc = "resolved" /\ worker.draft.issues # {}
  /\ run' = Unmarked([run EXCEPT !.draft = worker.draft])
  /\ worker' = BackToModel
  /\ UNCHANGED <<refs, lost, schema, sdk, tasks, seen, said, sent, bounds>>

\* A ready one becomes the pending call, unless it repeats a success or departs
\* from the call to retry.
Repeats(d) == Succeeded(d)
Departs(d) == run.retry # Unset /\ Fingerprint(d) # Fingerprint(run.retry)
Record ==
  /\ worker.pc = "resolved" /\ worker.draft.issues = {}
  /\ LET d == worker.draft
     IN IF Repeats(d) \/ Departs(d) THEN End("TERMINATED")
        ELSE /\ run' = [run EXCEPT !.draft = d,
                          !.rec = [call |-> worker.call.id, tool |-> d.tool, schema |-> d.schema, args |-> d.args,
                                   bound |-> d.bound, units |-> d.units]]
             /\ worker' = [worker EXCEPT !.pc = "tool", !.draft = Unset]
  /\ UNCHANGED <<refs, lost, schema, sdk, tasks, seen, said, sent, bounds>>

-----------------------------------------------------------------------------
(* The pending call reaches its tool *)

\* _prepare refuses another registration; dispatch() verifies the bindings again.
Drifted == run.rec.schema # schema
Gone == run.rec.bound \in lost

\* What the run keeps of a call, and what its tool was given.
Execution(status, retryable) ==
  LET r == run.rec
  IN [call |-> r.call, tool |-> r.tool, schema |-> r.schema, args |-> r.args, bound |-> r.bound, units |-> r.units,
      status |-> status, retryable |-> retryable, task |-> run.draft.task]
Request(status) ==
  LET r == run.rec
  IN [call |-> r.call, tool |-> r.tool, schema |-> r.schema, args |-> r.args, bound |-> r.bound, units |-> r.units,
      run |-> run.no, ref |-> worker.call.ref, status |-> status, of |-> run.retry,
      input |-> IF r.tool = "lab" THEN tasks[run.draft.task].revs[run.draft.rev] ELSE r.args]

Reported(status, retryable) ==
  [run EXCEPT !.execs = Append(@, Execution(status, retryable)), !.rec = NoCall, !.draft = Unset, !.retry = Unset]

\* after_result registers what a training made.
Adopted(status) ==
  IF run.rec.tool = "train" /\ status = "SUCCEEDED" /\ ~Contains(refs.list, Training)
    THEN [refs EXCEPT !.list = <<Training>> \o @] ELSE refs

Dispatch ==
  /\ Owned /\ run.rec # NoCall
  /\ \E status \in {"SUCCEEDED", "FAILED"}, retryable \in BOOLEAN :
       /\ retryable => status = "FAILED"
       /\ Drifted \/ Gone => status = "FAILED" /\ ~retryable
       /\ IF Drifted THEN End("TERMINATED") ELSE run' = Reported(status, retryable) /\ UNCHANGED worker
       /\ tasks' = IF ~Drifted /\ run.rec.tool = "lab" THEN [tasks EXCEPT ![run.draft.task].status = status] ELSE tasks
       /\ refs' = IF Drifted \/ Gone THEN refs ELSE Adopted(status)
       /\ sent' = IF Drifted \/ Gone THEN sent ELSE Append(sent, Request(status))
  /\ UNCHANGED <<lost, schema, sdk, seen, said, bounds>>

\* A call that is recorded, now or by an earlier process: only a success goes on.
Complete ==
  /\ worker.pc = "tool" /\ Executed(worker.call.id)
  /\ LET i == CHOOSE j \in DOMAIN run.execs : run.execs[j].call = worker.call.id
     IN IF run.execs[i].status = "SUCCEEDED"
          THEN /\ run' = IF run.pcall = worker.call.id THEN Unmarked(run) ELSE run
               /\ worker' = BackToModel
          ELSE /\ run' = [(IF run.pcall = worker.call.id THEN Unmarked(run) ELSE run) EXCEPT !.status = "TERMINATED"]
               /\ worker' = Idle
  /\ UNCHANGED <<refs, lost, schema, sdk, tasks, seen, said, sent, bounds>>

\* The marker of the call is gone: it cannot be told what was done about it.
Mismatch ==
  /\ AtTool /\ run.pcall # worker.call.id /\ End("TERMINATED")
  /\ UNCHANGED <<refs, lost, schema, sdk, tasks, seen, said, sent, bounds>>

-----------------------------------------------------------------------------
(* Questions, other requests, restarts *)

\* The graph pauses with its checkpoint written.
AskUser ==
  /\ Owned /\ worker.call.tool = "ask_user" /\ ~run.asking
  /\ run' = [run EXCEPT !.asking = TRUE, !.status = "WAITING_FOR_USER"]
  /\ sdk' = worker.call /\ worker' = Idle
  /\ UNCHANGED <<refs, lost, schema, tasks, seen, said, sent, bounds>>

\* A reply may attach a dataset.
Reply ==
  /\ run.status = "WAITING_FOR_USER" /\ bounds.messages < MaxMessages
  /\ \E a \in {refs.attached} \cup (Range(refs.list) \cap Datasets) : refs' = [refs EXCEPT !.attached = a]
  /\ bounds' = [bounds EXCEPT !.messages = @ + 1]
  /\ run' = [run EXCEPT !.status = "RUNNING"]
  /\ worker' = [Idle EXCEPT !.pc = "tool", !.call = sdk, !.due = sdk]
  /\ UNCHANGED <<lost, schema, sdk, tasks, seen, said, sent>>

Replied ==
  /\ Owned /\ worker.call.tool = "ask_user" /\ run.asking
  /\ run' = Unmarked([run EXCEPT !.asking = FALSE, !.answered = @ \cup {worker.call.id}])
  /\ worker' = BackToModel
  /\ UNCHANGED <<refs, lost, schema, sdk, tasks, seen, said, sent, bounds>>

\* A replayed question that was answered.
Reread ==
  /\ worker.pc = "tool" /\ worker.call.id \in run.answered
  /\ worker' = BackToModel
  /\ UNCHANGED <<refs, lost, schema, run, sdk, tasks, seen, said, sent, bounds>>

Upload ==
  /\ bounds.changes < MaxChanges
  /\ \E d \in Datasets \ Range(refs.list) : refs' = [refs EXCEPT !.list = <<d>> \o @]
  /\ bounds' = [bounds EXCEPT !.changes = @ + 1]
  /\ UNCHANGED <<lost, schema, run, worker, sdk, tasks, seen, said, sent>>

Lose ==
  /\ bounds.changes < MaxChanges
  /\ \E d \in (Range(refs.list) \cap Datasets) \ lost : lost' = lost \cup {d}
  /\ bounds' = [bounds EXCEPT !.changes = @ + 1]
  /\ UNCHANGED <<refs, schema, run, worker, sdk, tasks, seen, said, sent>>

\* The process dies; another release may start in its place.
Crash ==
  /\ worker.pc # "idle" /\ bounds.crashes < MaxCrashes
  /\ worker' = Idle /\ run' = [run EXCEPT !.status = "INTERRUPTED"]
  /\ \E new \in {schema, schema + 1} :
       /\ new - schema <= MaxChanges - bounds.changes
       /\ schema' = new
       /\ bounds' = [bounds EXCEPT !.crashes = @ + 1, !.changes = @ + new - schema]
  /\ UNCHANGED <<refs, lost, sdk, tasks, seen, said, sent>>

Resume ==
  /\ run.status = "INTERRUPTED"
  /\ run' = [run EXCEPT !.status = "RUNNING"]
  /\ worker' = IF sdk = Unset THEN AtModel(TRUE)
               ELSE [Idle EXCEPT !.pc = "tool", !.call = sdk, !.due = sdk, !.replay = TRUE]
  /\ UNCHANGED <<refs, lost, schema, sdk, tasks, seen, said, sent, bounds>>

\* The user retries a failed call in a run of its own.
Retry ==
  /\ run.status = "TERMINATED" /\ bounds.retries < MaxRetries
  /\ \E i \in DOMAIN run.execs : run.execs[i].retryable /\ run' = FreshRun(run.no + 1, run.execs[i])
  /\ worker' = AtModel(FALSE) /\ sdk' = Unset
  /\ bounds' = [bounds EXCEPT !.retries = @ + 1]
  /\ UNCHANGED <<refs, lost, schema, tasks, seen, said, sent>>

DraftsNext ==
  \/ BuildContext \/ OnModel \/ Finish \/ Checkpoint \/ Resolve \/ NeedInput \/ Record \/ Dispatch \/ Complete \/ Mismatch
  \/ AskUser \/ Reply \/ Replied \/ Reread \/ Upload \/ Lose \/ Crash \/ Resume \/ Retry

DraftsSpec == DraftsInit /\ [][DraftsNext]_draftsVars

-----------------------------------------------------------------------------
(* Properties *)

Sent == Range(sent)

\* The resource a call is sent with is the one the model was shown under the
\* reference it chose, whatever was uploaded, registered or lost since and
\* however often the process restarted.  (Where it was shown none, an invented
\* reference may name what a restart finds.)
BoundAsShown ==
  \A s \in Sent : s.tool = "train" /\ s.of = Unset /\ seen[s.call] # <<>>
    => s.ref \in DOMAIN seen[s.call] /\ seen[s.call][s.ref] = s.bound

\* No unit is sent as a fact unless it is declared for that dataset or its user
\* asserted it for that very dataset; what the model inferred is not sent.
UnitsAreTrusted ==
  \A s \in Sent : s.units # Unset =>
    \/ s.units.by = "declared" /\ s.units.unit = Declared[s.bound]
    \/ s.units.by = "confirmed" /\ <<s.bound, s.units.unit>> \in said

\* What validate_input of the managed tool accepts, in degrees and tenths of hours.
ValidInput(in) == in.temp \in 900..1100 /\ in.time \in 10..50

\* A call that succeeded is not sent again by its run, however its values are
\* restated; a retry sends what failed, unchanged; a managed call computes the
\* revision kept for its task, which its tool accepts.
CallsAreKept ==
  /\ \A i, j \in DOMAIN sent : i < j /\ sent[i].run = sent[j].run /\ sent[i].status = "SUCCEEDED"
       => Fingerprint(sent[i]) # Fingerprint(sent[j])
  /\ \A s \in Sent : s.of # Unset
       => s.of.status = "FAILED" /\ Fingerprint(s) = Fingerprint(s.of) /\ s.units = s.of.units
  /\ \A s \in Sent : s.tool = "lab" => s.args = s.input /\ ValidInput(s.args)
=============================================================================
