-------------------------------- MODULE Batch --------------------------------
(***************************************************************************)
(* One batch of images (the TC4 segmentation tool): an agent's call, the   *)
(* managed rows behind it, one versioned row for each image                *)
(* (local_tc4.py, tool_run_item.py, tc4_assets.py, tc4_results.py), and    *)
(* the GPU runtime with its durable receipts (tc4.py, app.py).             *)
(*                                                                         *)
(* Two threads work on the batch: the one the agent drives ("drive"), and  *)
(* the one of an explicit reconciliation after the user's stop ("check").  *)
(* Each database transaction and each HTTP exchange is one action; a       *)
(* transaction is refused when the thread no longer owns the run.  The     *)
(* model starts where the agent's dispatch fence is durable.               *)
(***************************************************************************)
EXTENDS Naturals, FiniteSets

CONSTANTS
  NImages,      \* images of the batch
  MaxResumes,   \* bound: the user's resumes
  MaxChecks,    \* bound: reconciliations
  MaxFailures   \* bound: exits of the backend or the runtime, failed
                \* transactions, storage outages, spent deadlines, in total

ASSUME BatchAssumption ==
  /\ NImages \in 1..10
  /\ {MaxResumes, MaxChecks, MaxFailures} \subseteq Nat

VARIABLES
  db,    \* the rows: agent run, invocation, tool run, result, images, outbox
  thr,   \* the threads
  posts,   \* images whose POST is on its way to the runtime
  rt,    \* the runtime: its lock, its receipts, its files
  sys    \* shutdown in progress, bounds

batchVars == <<db, thr, posts, rt, sys>>

Images == 0..NImages - 1
Threads == {"drive", "check"}

Unresolved == {"DISPATCHED", "OUTCOME_UNKNOWN", "RESULT_RECEIVED"}
Final == {"SUCCEEDED", "FAILED", "SKIPPED"}
ItemStates == Unresolved \cup Final \cup {"none", "NOT_DISPATCHED"}
\* why: what the error of a failed image says.
Items == [st: ItemStates, ver: Nat, rcpt: {"none", "SUCCEEDED", "FAILED"},
          why: {"none", "INPUT_UNAVAILABLE", "TC4_INFERENCE_FAILED"}]
NoItem == [st |-> "none", ver |-> 0, rcpt |-> "none", why |-> "none"]

\* ToolRunItemRepository.update: the steps an image's row may take.
Allowed == [s \in ItemStates |->
  CASE s = "NOT_DISPATCHED" -> {"DISPATCHED", "FAILED", "SKIPPED"}
    [] s = "DISPATCHED" -> {"RESULT_RECEIVED", "OUTCOME_UNKNOWN", "NOT_DISPATCHED"}
    [] s = "OUTCOME_UNKNOWN" -> {"RESULT_RECEIVED"}
    [] s = "RESULT_RECEIVED" -> {"SUCCEEDED", "FAILED"}
    [] OTHER -> {}]

Statuses == {"SUCCEEDED", "PARTIALLY_SUCCEEDED", "FAILED"}
\* The run (STOPPED stands for TERMINATED by the user, OVER for any later
\* state of a run that has the result), its claim (0: none) and its
\* observation of the call; the invocation; the tool run with its recorded
\* output and its committed result, both by image; the receipt outbox.
Outputs == [Images -> Final \cup {"none"}]
NoOutput == [i \in Images |-> "none"]
Rows == [run: {"RUNNING", "PENDING", "INTERRUPTED", "STOPPED", "TERMINATED", "OVER", "DELETED"},
         claim: Nat, obs: {"none", "FAILED", "RESULT"},
         inv: {"PENDING", "RUNNING", "SUCCEEDED", "FAILED", "OUTCOME_UNKNOWN"},
         parent: Statuses \cup {"none", "PENDING", "RUNNING"},
         out: Outputs, res: Outputs, item: [Images -> Items],
         asset: [Images -> 0..2], box: [Images -> {"none", "PENDING", "COMPLETED"}]]

Pcs == {"idle", "begin", "plan", "start", "load", "ready", "skip", "lose",
        "mark", "post", "wait", "back", "ask", "got", "unk", "recv", "fail", "art",
        "close", "record", "commit", "settle", "undo", "repair", "tell", "leave"}
\* mode: the first execution; a resumed run that finds its invocation still
\* PENDING; a resumed run; a reconciliation.  how: the error on its way up, an
\* unknown outcome, a failed dependency or any other; or the verdict.
Workers == [pc: Pcs, mode: {"first", "replay", "again", "check"}, claim: Nat,
            view: [Images -> Items], img: Images,
            ans: {"none", "SUCCEEDED", "FAILED", "UNKNOWN", "DELETED"},
            how: {"none", "unknown", "db", "bad", "FAILED", "RESULT"}]
IdleThread == [pc |-> "idle", mode |-> "first", claim |-> 0,
         view |-> [i \in Images |-> NoItem], img |-> 0, ans |-> "none", how |-> "none"]

Receipts == {"none", "UNKNOWN", "SUCCEEDED", "FAILED", "DELETED"}

BatchInit ==
  /\ db = [run |-> "RUNNING", claim |-> 1, obs |-> "none", inv |-> "PENDING",
           parent |-> "none", out |-> NoOutput, res |-> NoOutput,
           item |-> [i \in Images |-> NoItem], asset |-> [i \in Images |-> 0],
           box |-> [i \in Images |-> "none"]]
  /\ thr = [t \in Threads |-> IF t = "drive" THEN [IdleThread EXCEPT !.pc = "begin", !.claim = 1]
                                             ELSE IdleThread]
  /\ posts = {}
  /\ rt = [st |-> "up", lock |-> "free", on |-> 0, rcpt |-> [i \in Images |-> "none"],
           files |-> {}, ran |-> [i \in Images |-> 0]]
  /\ sys = [closing |-> FALSE, claims |-> 1, resumes |-> 0, checks |-> 0, failures |-> 0]

-----------------------------------------------------------------------------
(* Transactions of a thread *)

MayFail == sys.failures < MaxFailures
Fault == MayFail /\ sys' = [sys EXCEPT !.failures = @ + 1]

At(t, pc) == thr[t].pc = pc
Go(t, pc) == [thr EXCEPT ![t].pc = pc]
\* The image that a thread works on.
Img(t) == thr[t].img
Row(t) == db.item[Img(t)]
Seen(t) == thr[t].view[Img(t)]

\* The owner check of commit, and what a thread may still write about its own
\* call after the run was stopped or interrupted: not a new dispatch.
Owns(t) == db.run = "RUNNING" /\ db.claim = thr[t].claim
Late(t, dispatch) ==
  /\ ~dispatch
  /\ db.run \in {"INTERRUPTED", "STOPPED"} /\ db.claim = thr[t].claim
  /\ db.obs = "none"
\* Slip: the dispatch of an image passes the check like any other row.
FencedLoose(t, dispatch) == Owns(t) \/ Late(t, FALSE)
Fenced(t, dispatch) == Owns(t) \/ Late(t, dispatch)

\* Where an error goes: the first execution settles its invocation; a
\* continuation repairs; what fails outside of both leaves the drive.
Trouble(t, how) ==
  [thr EXCEPT ![t].how = how,
     ![t].pc = IF thr[t].mode \in {"first", "replay"} THEN "undo" ELSE "repair"]

\* A transaction that writes new: refused, applied, or failed with or without
\* having been applied.
Write(t, may, dispatch, new, next) ==
  LET ok == may /\ Fenced(t, dispatch) IN
  \/ ok /\ db' = new /\ thr' = next /\ UNCHANGED sys
  \/ ok /\ Fault /\ db' \in {db, new} /\ thr' = Trouble(t, "db")
  \/ ~ok /\ thr' = Trouble(t, "bad") /\ UNCHANGED <<db, sys>>

\* LocalTC4Client.update on the image at hand: the version is the one last
\* read, and the thread goes on with the row it wrote.
Updated(t, s, rcpt, why) ==
  [st |-> s, ver |-> Seen(t).ver + 1, rcpt |-> rcpt, why |-> why]
Current(t, s) == Row(t).ver = Seen(t).ver /\ s \in Allowed[Row(t).st]

Update(t, s, rcpt, why, next) ==
  LET row == Updated(t, s, rcpt, why) IN
  Write(t, Current(t, s), s = "DISPATCHED", [db EXCEPT !.item[Img(t)] = row],
        [next EXCEPT ![t].view[Img(t)] = row])

\* Slip: an image whose outcome is unknown is passed over.
OnwardPast(t, view, from) ==
  LET open == {i \in from..NImages - 1 : view[i].st \notin Final \cup {"OUTCOME_UNKNOWN"}}
      i == CHOOSE j \in open : \A k \in open : j <= k IN
  IF open = {} THEN [thr EXCEPT ![t].pc = "record", ![t].view = view]
  ELSE [thr EXCEPT ![t].view = view, ![t].img = i, ![t].ans = "none",
          ![t].pc = CASE view[i].st = "DISPATCHED" -> "ask"
                      [] view[i].st = "RESULT_RECEIVED" -> "got"
                      [] OTHER -> "ready"]
\* The loop of execute: the next image that is not final, in the order of the
\* batch, is looked up, collected or prepared for sending.
Onward(t, view, from) ==
  LET open == {i \in from..NImages - 1 : view[i].st \notin Final}
      i == CHOOSE j \in open : \A k \in open : j <= k IN
  IF open = {} THEN [thr EXCEPT ![t].pc = "record", ![t].view = view, ![t].ans = "none"]
  ELSE [thr EXCEPT ![t].view = view, ![t].img = i,
          ![t].pc = CASE view[i].st \in {"DISPATCHED", "OUTCOME_UNKNOWN"} -> "ask"
                      [] view[i].st = "RESULT_RECEIVED" -> "got"
                      [] OTHER -> "ready",
          ![t].ans = IF view[i].st = "RESULT_RECEIVED" THEN view[i].rcpt ELSE "none"]
Advance(t) == Onward(t, thr[t].view, Img(t) + 1)

-----------------------------------------------------------------------------
(* The way to the images *)

\* Settled statuses: batch_status, and what the invocation becomes by it.
Good(f) == {i \in Images : f[i] = "SUCCEEDED"}
\* Slip: images that were skipped do not count.
BatchStatusSent(f) ==
  IF \A i \in Images : f[i] # "FAILED" THEN "SUCCEEDED"
  ELSE IF Good(f) # {} THEN "PARTIALLY_SUCCEEDED" ELSE "FAILED"
BatchStatus(f) ==
  IF Good(f) = Images THEN "SUCCEEDED" ELSE IF Good(f) # {} THEN "PARTIALLY_SUCCEEDED" ELSE "FAILED"
InvStatus(f) == IF BatchStatus(f) = "FAILED" THEN "FAILED" ELSE "SUCCEEDED"
Public == [i \in Images |-> db.item[i].st]

\* _drive_managed: only a pending invocation is driven.
Begin(t) ==
  /\ At(t, "begin")
  /\ IF db.inv # "PENDING" THEN thr' = Go(t, "repair") /\ UNCHANGED <<db, sys>>
     ELSE Write(t, TRUE, FALSE, [db EXCEPT !.inv = "RUNNING"], Go(t, "start"))
  /\ UNCHANGED <<posts, rt>>

\* continue_batch: what the resumed run or the reconciliation finds.
Plan(t) ==
  /\ At(t, "plan")
  /\ thr' = IF db.res # NoOutput THEN Go(t, "repair")
            ELSE IF db.inv = "PENDING" THEN [thr EXCEPT ![t].pc = "begin", ![t].mode = "replay"]
            ELSE IF db.parent \in {"none", "PENDING"} THEN Go(t, "start")
            ELSE IF db.parent = "RUNNING" THEN Go(t, "load")
            ELSE Go(t, "repair")
  /\ UNCHANGED <<db, posts, rt, sys>>

\* _prepare_initial_attempt; a stopped run does not get its task to RUNNING.
Start(t) ==
  /\ At(t, "start")
  /\ CASE db.parent = "none" ->
            Write(t, TRUE, TRUE, [db EXCEPT !.parent = "PENDING"], thr)
       [] db.parent = "PENDING" ->
            Write(t, TRUE, FALSE, [db EXCEPT !.parent = "RUNNING"], Go(t, "load"))
       [] OTHER -> Write(t, FALSE, FALSE, db, thr)
  /\ UNCHANGED <<posts, rt>>

\* execute: the rows of all the images, then the rows as they are now, which
\* the whole pass goes by.
Load(t) ==
  /\ At(t, "load")
  /\ IF db.item[0].st = "none"
       THEN Write(t, TRUE, FALSE,
                  [db EXCEPT !.item = [i \in Images |-> [NoItem EXCEPT !.st = "NOT_DISPATCHED"]]], thr)
     ELSE thr' = Onward(t, db.item, 0) /\ UNCHANGED <<db, sys>>
  /\ UNCHANGED <<posts, rt>>

-----------------------------------------------------------------------------
(* One image *)

\* _can_dispatch, and the image's content.  A spent deadline is raised as it
\* is; a storage that cannot be reached leaves the batch open.
Ready(t) ==
  /\ At(t, "ready")
  /\ \/ /\ thr' \in (IF db.run = "RUNNING" THEN {Go(t, "mark"), Go(t, "lose")} ELSE {Go(t, "skip")})
        /\ UNCHANGED sys
     \/ Fault /\ thr' = Trouble(t, "bad")
     \/ Fault /\ db.run = "RUNNING" /\ thr' = Trouble(t, "unknown")
  /\ UNCHANGED <<db, posts, rt>>

Skip(t) == At(t, "skip") /\ Update(t, "SKIPPED", "none", "none", Advance(t)) /\ UNCHANGED <<posts, rt>>
Lose(t) ==
  /\ At(t, "lose")
  /\ Update(t, "FAILED", "none", "INPUT_UNAVAILABLE", Advance(t))
  /\ UNCHANGED <<posts, rt>>

\* The image is sent only after this row is durable.
Mark(t) ==
  /\ At(t, "mark")
  /\ Update(t, "DISPATCHED", "none", "none", Go(t, "post"))
  /\ UNCHANGED <<posts, rt>>

Post(t) ==
  /\ At(t, "post")
  /\ posts' = posts \cup {Img(t)}
  /\ thr' = Go(t, "wait")
  /\ UNCHANGED <<db, rt, sys>>

\* The thread may stop waiting for the answer.
GiveUp(t) ==
  /\ At(t, "wait")
  /\ thr' = Go(t, "ask")
  /\ UNCHANGED <<db, posts, rt, sys>>

\* Refused before inference: the image may be sent again, by a resumed run.
Back(t) ==
  /\ At(t, "back")
  /\ Update(t, "NOT_DISPATCHED", "none", "none", Trouble(t, "unknown"))
  /\ UNCHANGED <<posts, rt>>

\* lookup: the receipt of the original request; what a deleted one says is
\* not valid.
Lookup(t) ==
  /\ At(t, "ask")
  /\ thr' \in {Trouble(t, "unknown")} \cup
       (IF rt.st = "down" \/ rt.rcpt[Img(t)] = "DELETED" THEN {}
        ELSE {[Go(t, "got") EXCEPT ![t].ans = rt.rcpt[Img(t)]]})
  /\ UNCHANGED <<db, posts, rt, sys>>

\* _receive: no receipt, or one of an unfinished computation, leaves the image
\* and the batch open; otherwise the receipt is saved first.
Receive(t) ==
  /\ At(t, "got")
  /\ CASE thr[t].ans \in {"none", "UNKNOWN"} ->
            IF Seen(t).st = "DISPATCHED"
              THEN Update(t, "OUTCOME_UNKNOWN", "none", "none", Trouble(t, "unknown"))
            ELSE thr' = Trouble(t, "unknown") /\ UNCHANGED <<db, sys>>
       [] thr[t].ans = "DELETED" -> thr' = Trouble(t, "unknown") /\ UNCHANGED <<db, sys>>
       [] OTHER ->
            LET next == Go(t, IF thr[t].ans = "FAILED" THEN "fail" ELSE "art") IN
            IF Seen(t).st = "RESULT_RECEIVED" THEN thr' = next /\ UNCHANGED <<db, sys>>
            ELSE Update(t, "RESULT_RECEIVED", thr[t].ans, "none", next)
  /\ UNCHANGED <<posts, rt>>

\* A failed inference pauses the batch.
Fail(t) ==
  /\ At(t, "fail")
  /\ Update(t, "FAILED", Seen(t).rcpt, "TC4_INFERENCE_FAILED", Trouble(t, "unknown"))
  /\ UNCHANGED <<posts, rt>>

\* tc4_assets.create: the overlay, then the mask, each fetched from the
\* runtime and stored under an identity of its own; an asset that is there
\* already is returned.
Save(t) ==
  /\ At(t, "art")
  /\ \/ db.asset[Img(t)] = 2 /\ thr' = Go(t, "close") /\ UNCHANGED <<db, sys>>
     \/ /\ db.asset[Img(t)] < 2
        /\ IF rt.st = "down" \/ Img(t) \notin rt.files \/ rt.rcpt[Img(t)] # "SUCCEEDED"
             THEN thr' = Trouble(t, "unknown") /\ UNCHANGED <<db, sys>>
           ELSE Write(t, db.parent = "RUNNING", FALSE, [db EXCEPT !.asset[Img(t)] = @ + 1], thr)
  /\ UNCHANGED <<posts, rt>>

Close(t) ==
  /\ At(t, "close")
  /\ Update(t, "SUCCEEDED", Seen(t).rcpt, "none", Advance(t))
  /\ UNCHANGED <<posts, rt>>

-----------------------------------------------------------------------------
(* The result, and the ways out *)

\* _persist_runtime_success: the rows as they are now, as the recorded output.
\* validate_batch raises at the commit when one is not final.
Record(t) ==
  /\ At(t, "record")
  /\ Write(t, db.parent = "RUNNING" /\ \A i \in Images : Public[i] \in Final, FALSE,
           [db EXCEPT !.out = Public], Go(t, "commit"))
  /\ UNCHANGED <<posts, rt>>

\* tc4_results.commit: an equal result is taken as it is.
Committable ==
  /\ db.parent = "RUNNING" /\ db.out = Public
  /\ \A i \in Good(db.out) : db.asset[i] = 2
Commit(t) ==
  /\ At(t, "commit")
  /\ LET next == Go(t, IF thr[t].mode \in {"first", "replay"} THEN "settle" ELSE "repair") IN
     IF db.res # NoOutput /\ db.res = db.out THEN thr' = next /\ UNCHANGED <<db, sys>>
     ELSE Write(t, db.res = NoOutput /\ Committable, FALSE,
                [db EXCEPT !.res = db.out, !.parent = BatchStatus(db.out)], next)
  /\ UNCHANGED <<posts, rt>>

\* The end of _dispatch_managed.  Its failure is looked into by no one but
\* repair.
Settle(t) ==
  /\ At(t, "settle")
  /\ LET ok == db.inv = "RUNNING" /\ Fenced(t, FALSE)
         out(how) == [thr EXCEPT ![t].pc = IF thr[t].mode = "first" THEN "repair" ELSE "leave",
                                 ![t].how = how]
         new == [db EXCEPT !.inv = InvStatus(db.res)] IN
     \/ ok /\ db' = new /\ thr' = Go(t, "repair") /\ UNCHANGED sys
     \/ ok /\ Fault /\ db' \in {db, new} /\ thr' = out("db")
     \/ ~ok /\ thr' = out("bad") /\ UNCHANGED <<db, sys>>
  /\ UNCHANGED <<posts, rt>>

\* _finalize_unknown, _finalize_managed_failure: only a running invocation.
Undone(t) ==
  IF thr[t].how \in {"unknown", "db"} THEN "OUTCOME_UNKNOWN"
  ELSE IF db.res # NoOutput THEN InvStatus(db.res) ELSE "FAILED"

Undo(t) ==
  /\ At(t, "undo")
  /\ LET new == [db EXCEPT !.inv = Undone(t)]
         next(how) == [thr EXCEPT ![t].pc = IF thr[t].mode = "first" THEN "repair" ELSE "leave",
                                  ![t].how = how] IN
     IF db.inv # "RUNNING" THEN thr' = next(thr[t].how) /\ UNCHANGED <<db, sys>>
     ELSE \/ Fenced(t, FALSE) /\ db' = new /\ thr' = next(thr[t].how) /\ UNCHANGED sys
          \/ Fenced(t, FALSE) /\ Fault /\ db' \in {db, new} /\ thr' = next("db")
          \/ ~Fenced(t, FALSE) /\ thr' = next("bad") /\ UNCHANGED <<db, sys>>
  /\ UNCHANGED <<posts, rt>>

\* repair: the committed result decides, and brings the invocation along;
\* without one, the invocation.  complete() takes a failure it can say nothing
\* else about for a definite one, unless a dependency failed.
Verdict(t) ==
  IF db.inv = "OUTCOME_UNKNOWN" THEN "unknown"
  ELSE IF db.inv = "FAILED" THEN "FAILED"
  ELSE IF thr[t].mode = "first" /\ thr[t].how # "db" THEN "FAILED" ELSE "unknown"
Repair(t) ==
  /\ At(t, "repair")
  /\ LET tell(how) == [thr EXCEPT ![t].pc = "tell", ![t].how = how]
         fixes == db.res # NoOutput /\ db.inv \in {"RUNNING", "OUTCOME_UNKNOWN"}
         new == [db EXCEPT !.inv = InvStatus(db.res)]
         out(how) == [thr EXCEPT ![t].pc = "leave", ![t].how = how] IN
     IF db.res = NoOutput THEN thr' = tell(Verdict(t)) /\ UNCHANGED <<db, sys>>
     ELSE IF ~fixes THEN thr' = tell("RESULT") /\ UNCHANGED <<db, sys>>
     ELSE \/ Fenced(t, FALSE) /\ db' = new /\ thr' = tell("RESULT") /\ UNCHANGED sys
          \/ Fenced(t, FALSE) /\ Fault /\ db' \in {db, new} /\ thr' = out("db")
          \/ ~Fenced(t, FALSE) /\ thr' = out("bad") /\ UNCHANGED <<db, sys>>
  /\ UNCHANGED <<posts, rt>>

Done(t) == [thr EXCEPT ![t] = IdleThread]

\* store.receipt for a definite outcome; for an unknown one mark_outcome_unknown
\* or, in a resumed run, the drive that gives up.
Tell(t) ==
  /\ At(t, "tell")
  /\ thr' = Done(t)
  /\ IF thr[t].how # "unknown"
       THEN db' = IF db.obs = "none" /\ db.run \in {"RUNNING", "INTERRUPTED", "STOPPED"}
                    THEN [db EXCEPT !.obs = thr[t].how] ELSE db
     ELSE db' = IF /\ db.obs = "none"
                   /\ \/ thr[t].mode = "first" /\ db.run \in {"RUNNING", "PENDING"}
                      \/ thr[t].mode \in {"replay", "again"} /\ Owns(t)
                  THEN [db EXCEPT !.run = "INTERRUPTED"] ELSE db
  /\ UNCHANGED <<posts, rt, sys>>

\* An exception that reaches the drive: a failed dependency pauses the run, any
\* other ends it.  A reconciliation answers with an error.
Leave(t) ==
  /\ At(t, "leave")
  /\ thr' = Done(t)
  /\ db' = IF thr[t].mode # "check" /\ Owns(t)
             THEN [db EXCEPT !.run = IF thr[t].how = "db" THEN "INTERRUPTED" ELSE "TERMINATED"]
           ELSE db
  /\ UNCHANGED <<posts, rt, sys>>

-----------------------------------------------------------------------------
(* The agent run *)

\* A run that has its observation goes on, or ends on a failure.
Finish ==
  /\ db.run = "RUNNING" /\ db.obs # "none" /\ At("drive", "idle")
  /\ db' = [db EXCEPT !.run = IF db.obs = "RESULT" THEN "OVER" ELSE "TERMINATED"]
  /\ UNCHANGED <<thr, posts, rt, sys>>

Stop ==
  /\ db.run \in {"PENDING", "RUNNING", "INTERRUPTED"}
  /\ db' = [db EXCEPT !.run = "STOPPED"]
  /\ UNCHANGED <<thr, posts, rt, sys>>

Resume ==
  /\ ~sys.closing /\ sys.resumes < MaxResumes
  /\ db.run = "INTERRUPTED"
  /\ db' = [db EXCEPT !.run = "PENDING"]
  /\ sys' = [sys EXCEPT !.resumes = @ + 1]
  /\ UNCHANGED <<thr, posts, rt>>

\* advance claims the run; the checkpoint replays the call.
Claim ==
  /\ ~sys.closing /\ db.run = "PENDING" /\ At("drive", "idle")
  /\ db' = [db EXCEPT !.run = "RUNNING", !.claim = sys.claims + 1]
  /\ sys' = [sys EXCEPT !.claims = @ + 1]
  /\ thr' = IF db.obs # "none" THEN thr
            ELSE [thr EXCEPT !["drive"] = [IdleThread EXCEPT !.pc = "plan", !.mode = "again",
                                                       !.claim = sys.claims + 1]]
  /\ UNCHANGED <<posts, rt>>

\* The reconcile route: the batch of a stopped run is brought to its end under
\* the claim the run was stopped with; for any other only what is known is read.
Reconcile ==
  /\ ~sys.closing /\ sys.checks < MaxChecks
  /\ At("check", "idle")
  /\ db.obs = "none" /\ db.run # "DELETED"
  /\ thr' = [thr EXCEPT !["check"] =
       [IdleThread EXCEPT !.mode = "check", !.claim = db.claim,
                    !.pc = IF db.run = "STOPPED" /\ db.item[0].st # "none" THEN "plan" ELSE "repair"]]
  /\ sys' = [sys EXCEPT !.checks = @ + 1]
  /\ UNCHANGED <<db, posts, rt>>

\* Shutdown saves the run; a thread that drives a tool call is waited for.
Shutdown ==
  /\ ~sys.closing /\ MayFail
  /\ sys' = [sys EXCEPT !.closing = TRUE]
  /\ db' = IF db.run = "RUNNING" THEN [db EXCEPT !.run = "INTERRUPTED"] ELSE db
  /\ UNCHANGED <<thr, posts, rt>>

\* The process ends, at any time, and starts again: recover_interrupted.
Restart ==
  /\ MayFail
  /\ sys' = [sys EXCEPT !.failures = @ + 1, !.closing = FALSE]
  /\ thr' = [t \in Threads |-> IdleThread]
  /\ db' = IF db.run \in {"RUNNING", "PENDING"}
             THEN [db EXCEPT !.run = "INTERRUPTED", !.claim = 0] ELSE db
  /\ UNCHANGED <<posts, rt>>

-----------------------------------------------------------------------------
(* The runtime *)

\* The answer reaches the thread that waits for this image, if one does.
Deliver(i, a) ==
  thr' = [t \in Threads |->
    IF At(t, "wait") /\ Img(t) = i
      THEN [thr[t] EXCEPT !.ans = IF a \in Receipts THEN a ELSE "none",
                          !.pc = CASE a = "busy" -> "back" [] a = "error" -> "ask" [] OTHER -> "got"]
    ELSE thr[t]]

\* A request that does not get in: lost, refused as invalid (the receipt could
\* not be saved), or turned away because the runtime closes or the lock is
\* held by another image, an SEM, an EBSD or a cleanup request.
TurnAway(i) ==
  /\ i \in posts
  /\ posts' = posts \ {i}
  /\ \/ Deliver(i, "error")
     \/ rt.st # "down" /\ Deliver(i, "busy")
  /\ UNCHANGED <<db, rt, sys>>

\* ReceiptStore.execute: an operation on record is answered, never run again;
\* a new one is on disk as unknown before it runs.
Replayed(i) == rt.rcpt[i] # "none"

Accept(i) ==
  /\ i \in posts /\ rt.st = "up" /\ rt.lock = "free"
  /\ posts' = posts \ {i}
  /\ IF Replayed(i) THEN Deliver(i, rt.rcpt[i]) /\ UNCHANGED rt
     ELSE /\ rt' = [rt EXCEPT !.lock = "run", !.on = i, !.rcpt[i] = "UNKNOWN", !.ran[i] = @ + 1]
          /\ UNCHANGED thr
  /\ UNCHANGED <<db, sys>>

\* The artifacts, then the receipt.
Compute ==
  /\ rt.lock = "run"
  /\ \E out \in {"SUCCEEDED", "FAILED"} :
       /\ rt' = [rt EXCEPT !.lock = "free", !.rcpt[rt.on] = out,
                           !.files = IF out = "SUCCEEDED" THEN @ \cup {rt.on} ELSE @]
       /\ Deliver(rt.on, out)
  /\ UNCHANGED <<db, posts, sys>>

\* close_runtime_server waits for the lock.
RtClose ==
  /\ rt.st = "up" /\ MayFail
  /\ rt' = [rt EXCEPT !.st = "closing"]
  /\ UNCHANGED <<db, thr, posts, sys>>
RtDown ==
  /\ rt.st # "down" /\ Fault
  /\ rt' = [rt EXCEPT !.st = "down", !.lock = "free"]
  /\ IF rt.lock = "run" THEN Deliver(rt.on, "error") ELSE UNCHANGED thr
  /\ UNCHANGED <<db, posts>>
RtStart ==
  /\ rt.st = "down"
  /\ rt' = [rt EXCEPT !.st = "up"]
  /\ UNCHANGED <<db, thr, posts, sys>>

-----------------------------------------------------------------------------
(* Deletion of the conversation *)

\* Slip: the images are not looked at.
IdlenessOfRun == db.run \notin {"PENDING", "RUNNING", "DELETED"} /\ db.obs # "none"
\* Refused while the run or an image is open; a receipt is remembered in the
\* same transaction that removes the rows.
Idleness ==
  /\ db.run \notin {"PENDING", "RUNNING", "DELETED"} /\ db.obs # "none"
  /\ \A i \in Images : db.item[i].st \notin Unresolved

Delete ==
  /\ Idleness
  /\ db' = [db EXCEPT !.run = "DELETED",
              !.box = [i \in Images |-> IF db.item[i].rcpt # "none" THEN "PENDING" ELSE "none"]]
  /\ UNCHANGED <<thr, posts, rt, sys>>

\* ReceiptStore.cleanup under the lock: the tombstone, then the files.
Tombstone(i) ==
  /\ db.box[i] = "PENDING" /\ rt.st # "down" /\ rt.lock = "free"
  /\ rt.rcpt[i] # "UNKNOWN"
  /\ rt' = [rt EXCEPT !.lock = "clean", !.on = i, !.rcpt[i] = "DELETED"]
  /\ UNCHANGED <<db, thr, posts, sys>>
\* _drain_runtime_receipts closes the record when the answer arrives.
Unlink ==
  /\ rt.lock = "clean"
  /\ rt' = [rt EXCEPT !.lock = "free", !.files = @ \ {rt.on}]
  /\ db' \in {db, [db EXCEPT !.box[rt.on] = "COMPLETED"]}
  /\ UNCHANGED <<thr, posts, sys>>

-----------------------------------------------------------------------------
Work(t) ==
  \/ Begin(t) \/ Plan(t) \/ Start(t) \/ Load(t)
  \/ Ready(t) \/ Skip(t) \/ Lose(t) \/ Mark(t) \/ Post(t) \/ GiveUp(t) \/ Back(t)
  \/ Lookup(t) \/ Receive(t) \/ Fail(t) \/ Save(t) \/ Close(t)
  \/ Record(t) \/ Commit(t) \/ Settle(t) \/ Undo(t) \/ Repair(t) \/ Tell(t) \/ Leave(t)

BatchNext ==
  \/ \E t \in Threads : Work(t)
  \/ Finish \/ Stop \/ Resume \/ Claim \/ Reconcile \/ Shutdown \/ Restart
  \/ \E i \in Images : TurnAway(i) \/ Accept(i) \/ Tombstone(i)
  \/ Compute \/ RtClose \/ RtDown \/ RtStart
  \/ Delete \/ Unlink

BatchSpec == BatchInit /\ [][BatchNext]_batchVars

-----------------------------------------------------------------------------
(* Properties *)

BatchTypeOK ==
  /\ db \in Rows
  /\ thr \in [Threads -> Workers]
  /\ posts \subseteq Images
  /\ rt.st \in {"up", "closing", "down"} /\ rt.lock \in {"free", "run", "clean"}
  /\ rt.rcpt \in [Images -> Receipts] /\ rt.ran \in [Images -> Nat] /\ rt.files \subseteq Images

\* The batch goes one image at a time, in order: while an image is open all
\* the earlier ones are final and none of the later ones was sent, and no two
\* images are on their way or computing, whatever was resumed or reconciled
\* (the loop of execute, local_tc4.py:177-224).
OneAtATime ==
  /\ \A i, j \in Images : i < j /\ db.item[j].st \in Unresolved => db.item[i].st \in Final
  /\ Cardinality(posts \cup (IF rt.lock = "run" THEN {rt.on} ELSE {})) <= 1

\* An image is computed at most once, through refusals, restarts of either
\* side and resumes; and its row says what happened to it: a success has the
\* runtime's receipt and both assets, a failed inference failed, and an image
\* that was skipped, could not be read or waits was never computed.
ItemIsTrue ==
  /\ BatchTypeOK
  /\ \A i \in Images : LET row == db.item[i] IN
    /\ rt.ran[i] <= 1
    /\ row.st = "SUCCEEDED" => db.asset[i] = 2 /\ rt.rcpt[i] \in {"SUCCEEDED", "DELETED"}
    /\ row.why = "TC4_INFERENCE_FAILED" => rt.rcpt[i] \in {"FAILED", "DELETED"}
    /\ row.st \in {"NOT_DISPATCHED", "SKIPPED"} \/ row.why = "INPUT_UNAVAILABLE"
         => rt.ran[i] = 0 /\ i \notin posts

\* The result is what the images' rows say for good: every one is final, and
\* the tool run succeeded exactly when all of them did and failed exactly when
\* none did; a run that observed the result has one (tc4_results.py:14-61).
ResultIsTrue ==
  /\ db.res # NoOutput =>
       /\ db.res = Public
       /\ \A i \in Images : db.res[i] \in Final
       /\ db.parent \in Statuses
       /\ (db.parent = "SUCCEEDED") <=> (\A i \in Images : db.item[i].st = "SUCCEEDED")
       /\ (db.parent = "FAILED") <=> (\A i \in Images : db.item[i].st # "SUCCEEDED")
  /\ db.obs = "RESULT" => db.res # NoOutput

\* The rows, the stored result and the runtime's receipts tell one story, however
\* the thread, a resume and a reconciliation interleave.
RecordsAreTrue == ItemIsTrue /\ ResultIsTrue

\* Once the user has stopped the run, or while it is paused, no image is
\* marked as sent: only an owner that is RUNNING starts one, even when its
\* thread goes on (unit_of_work.py:270-275).
OnlyOwnersStart ==
  [][\A i \in Images : db.item[i].st # "DISPATCHED" /\ db'.item[i].st = "DISPATCHED"
                         => db.run = "RUNNING"]_batchVars

\* Deleting the conversation loses no trace of a computation: what the runtime
\* keeps a receipt of is in the outbox or erased, nothing is on its way, and a
\* completed record has left no file (tool_run_item.py:55-70).
CleanedUp ==
  db.run = "DELETED" => \A i \in Images :
    /\ rt.rcpt[i] # "none" => db.box[i] # "none"
    /\ i \notin posts
    /\ db.box[i] = "COMPLETED" => rt.rcpt[i] = "DELETED" /\ i \notin rt.files
=============================================================================
