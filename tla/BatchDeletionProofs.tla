------------------------ MODULE BatchDeletionProofs ------------------------
(***************************************************************************)
(* Theorems about the modules Batch and Deletion: what is stored outside   *)
(* the database by a batch, an upload or a training, and what becomes of   *)
(* it when the conversation is deleted.                                    *)
(***************************************************************************)
EXTENDS Batch, Deletion, FiniteSetTheorems, TLAPS

-----------------------------------------------------------------------------
(***************************************************************************)
(* Theorems about module Batch, for every number of images, resumes,       *)
(* reconciliations and failures: the batch goes one image at a time, each  *)
(* is computed at most once, the rows and the result say what the runtime  *)
(* did, and a deletion loses no receipt.                                   *)
(*                                                                         *)
(* The argument: a thread writes the row of an image only at the version   *)
(* that it read, so the row is still what the thread knows of it; an image *)
(* is marked as sent only when the rows that were read of all the earlier  *)
(* ones are final, and those never change.  So at most one image is open,  *)
(* and the request and the computation on their way are that image's.      *)
(***************************************************************************)

-----------------------------------------------------------------------------
(* The inductive invariant *)

\* The program points at which a thread works on an image by the rows it read.
AtImage == {"ready", "skip", "lose", "mark", "post", "wait", "back", "ask", "got",
            "fail", "art", "close"}
\* The program points of the one who sends.
Sending == {"mark", "post", "wait", "back"}
Sent == {"DISPATCHED", "OUTCOME_UNKNOWN"}
Ended == {"SUCCEEDED", "FAILED"}

Runtimes == [st: {"up", "closing", "down"}, lock: {"free", "run", "clean"}, on: Images,
             rcpt: [Images -> Receipts], files: SUBSET Images, ran: [Images -> Nat]]
Bounds == [closing: BOOLEAN, claims: Nat, resumes: Nat, checks: Nat, failures: Nat]
TypeInv == db \in Rows /\ posts \subseteq Images /\ rt \in Runtimes
ActorsTyped == thr \in [Threads -> Workers] /\ sys \in Bounds

\* What the state of a row says of its error, its receipt and the runtime's.
RowOk(i, item) ==
  /\ item.st = "none" => item = NoItem
  /\ item.why # "none" => item.st = "FAILED"
  /\ item.st \in {"none", "NOT_DISPATCHED", "SKIPPED"} \/ item.why = "INPUT_UNAVAILABLE"
       => item.rcpt = "none" /\ rt.rcpt[i] = "none" /\ i \notin posts
  /\ item.st \in Sent => item.rcpt = "none"
  /\ item.st = "RESULT_RECEIVED" => item.rcpt \in Ended
  /\ item.st = "SUCCEEDED" => item.rcpt = "SUCCEEDED" /\ db.asset[i] = 2
  /\ item.st = "FAILED" /\ item.why # "INPUT_UNAVAILABLE"
       => item.rcpt = "FAILED" /\ item.why = "TC4_INFERENCE_FAILED"
  /\ item.rcpt # "none" => rt.rcpt[i] \in {item.rcpt, "DELETED"}

RowsInv ==
  /\ \A i, j \in Images : db.item[i].st = "none" => db.item[j].st = "none"
  /\ \A i \in Images : RowOk(i, db.item[i])

OrderInv ==
  \A i, j \in Images : i < j /\ db.item[j].st \in Unresolved => db.item[i].st \in Final

\* A request on its way has no receipt yet; the lock is held for an image whose
\* receipt is open, or for one that is being erased.
FlightInv ==
  /\ \A i \in posts : rt.rcpt[i] = "none" /\ db.item[i].st \in Sent
  /\ rt.lock = "run" => rt.rcpt[rt.on] = "UNKNOWN" /\ db.item[rt.on].st \in Sent
  /\ rt.lock = "clean" => rt.rcpt[rt.on] = "DELETED" /\ db.box[rt.on] # "none"
  /\ \A i \in Images :
       /\ rt.ran[i] <= 1
       /\ rt.rcpt[i] = "none" => rt.ran[i] = 0
       /\ rt.rcpt[i] = "DELETED" => db.run = "DELETED"

ResultInv ==
  /\ db.out # NoOutput => db.out = Public /\ \A i \in Images : db.item[i].st \in Final
  /\ db.res # NoOutput =>
       /\ db.res = Public
       /\ \A i \in Images : db.item[i].st \in Final
       /\ db.parent = BatchStatus(db.res)
  /\ db.obs = "RESULT" => db.res # NoOutput

\* While the conversation is there the outbox is empty; afterwards nothing is
\* open, and every receipt is in it.
DeletedInv ==
  /\ db.run # "DELETED" => \A i \in Images : db.box[i] = "none"
  /\ db.run = "DELETED" => \A i \in Images :
       /\ db.item[i].st \notin Unresolved
       /\ rt.rcpt[i] # "none" => db.box[i] # "none"
       /\ db.box[i] # "none" => db.item[i].rcpt # "none"
       /\ db.box[i] = "COMPLETED" => rt.rcpt[i] = "DELETED" /\ i \notin rt.files

\* A row as a thread once read it: as old as its version says.
SeenOk(i, seen) ==
  /\ seen.st # "none"
  /\ seen.ver <= db.item[i].ver
  /\ seen.ver = db.item[i].ver \/ seen.st \in Final => db.item[i] = seen
  /\ seen.rcpt # "none" => rt.rcpt[i] \in {seen.rcpt, "DELETED"}
  /\ seen.st = "RESULT_RECEIVED" => seen.rcpt \in Ended

\* What a thread at an image knows: the rows it read, and that the earlier
\* images are final.
ViewOk(w) ==
  w.pc \in AtImage => \A i \in Images :
    SeenOk(i, w.view[i]) /\ (i < w.img => w.view[i].st \in Final)

PlaceOk(w) ==
  /\ w.pc \in {"ready", "skip", "lose", "mark"} => w.view[w.img].st = "NOT_DISPATCHED"
  /\ w.pc \in {"post", "wait", "back"} => w.view[w.img].st = "DISPATCHED"
  /\ w.pc = "ask" => w.view[w.img].st \in Sent
  /\ w.pc = "got" =>
       /\ \/ w.view[w.img].st \in Sent
          \/ w.view[w.img].st = "RESULT_RECEIVED" /\ w.ans = w.view[w.img].rcpt
       /\ w.ans \in Ended => rt.rcpt[w.img] \in {w.ans, "DELETED"}
  /\ w.pc = "fail" => w.view[w.img].st = "RESULT_RECEIVED" /\ w.view[w.img].rcpt = "FAILED"
  /\ w.pc \in {"art", "close"} =>
       w.view[w.img].st = "RESULT_RECEIVED" /\ w.view[w.img].rcpt = "SUCCEEDED"
  /\ w.pc = "close" => db.asset[w.img] = 2
  /\ w.pc \in {"post", "back"} =>
       db.item[w.img].st \in Sent /\ rt.rcpt[w.img] = "none" /\ w.img \notin posts
  /\ w.pc = "commit" => db.out # NoOutput
  /\ w.pc = "tell" => /\ w.how \in {"unknown", "FAILED", "RESULT"}
                      /\ w.how = "RESULT" => db.res # NoOutput

\* A reconciliation never sends, and works on a stopped run only.
CheckOk(w) ==
  /\ w.pc \notin Sending
  /\ w.pc \notin {"idle", "repair", "tell", "leave"} => db.run \in {"STOPPED", "DELETED"}

ThreadOk(t, w) == ViewOk(w) /\ PlaceOk(w) /\ (t = "check" => CheckOk(w))
ThreadsInv == \A t \in Threads : ThreadOk(t, thr[t])

\* The rows, the requests and the runtime, without the threads.
RecordsInv == TypeInv /\ RowsInv /\ OrderInv /\ FlightInv /\ ResultInv /\ DeletedInv
BatchInv == RecordsInv /\ ActorsTyped /\ ThreadsInv

\* A step of the records that no thread needs to know of.
Calm ==
  /\ RecordsInv'
  /\ \A u \in Threads : \A w \in Workers : ThreadOk(u, w) => ThreadOk(u, w)'
\* A step of thread t that no other thread needs to know of.
CalmFor(t) ==
  /\ RecordsInv'
  /\ \A u \in Threads \ {t} : \A w \in Workers : w = thr[u] => ThreadOk(u, w)'

-----------------------------------------------------------------------------
(* Facts about the values *)

LEMMA ImagesFacts ==
  /\ Images \subseteq 0..9
  /\ Images \subseteq Nat
  /\ 0 \in Images
  /\ \A i \in Images : i \in Nat /\ i \in 0..NImages - 1
BY BatchAssumption DEF Images

LEMMA NoItemTyped == NoItem \in Items
BY DEF NoItem, Items, ItemStates

LEMMA IdleTyped == IdleThread \in Workers
<1>1. [i \in Images |-> NoItem] \in [Images -> Items]
  BY NoItemTyped
<1> QED BY <1>1, ImagesFacts DEF IdleThread, Workers, Pcs

\* A step of the records that are typed keeps their types; one member at a time.
LEMMA RowTyped ==
  ASSUME NEW d \in Rows, NEW i \in Images, NEW item \in Items
  PROVE  [d EXCEPT !.item[i] = item] \in Rows
<1> DEFINE f == [d.item EXCEPT ![i] = item]
<1>1. f \in [Images -> Items]
  BY DEF Rows
<1>2. [d EXCEPT !.item = f] \in Rows
  <2> HIDE DEF f
  <2> QED BY <1>1 DEF Rows
<1> QED BY <1>2

LEMMA WorkerMoves ==
  ASSUME NEW w \in Workers
  PROVE  /\ \A pc \in Pcs : [w EXCEPT !.pc = pc] \in Workers
         /\ \A a \in {"none", "SUCCEEDED", "FAILED", "UNKNOWN", "DELETED"} :
              [w EXCEPT !.ans = a] \in Workers
         /\ \A h \in {"none", "unknown", "db", "bad", "FAILED", "RESULT"} :
              [w EXCEPT !.how = h] \in Workers
         /\ \A m \in {"first", "replay", "again", "check"} : [w EXCEPT !.mode = m] \in Workers
         /\ \A v \in [Images -> Items] : [w EXCEPT !.view = v] \in Workers
         /\ \A i \in Images : [w EXCEPT !.img = i] \in Workers
BY DEF Workers

LEMMA ViewTyped ==
  ASSUME NEW w \in Workers, NEW i \in Images, NEW item \in Items
  PROVE  [w EXCEPT !.view[i] = item] \in Workers
<1> DEFINE f == [w.view EXCEPT ![i] = item]
<1>1. f \in [Images -> Items]
  BY DEF Workers
<1>2. [w EXCEPT !.view = f] \in Workers
  <2> HIDE DEF f
  <2> QED BY <1>1, WorkerMoves
<1> QED BY <1>2

LEMMA FaultTyped ==
  ASSUME sys \in Bounds, Fault \/ UNCHANGED sys
  PROVE  sys' \in Bounds
BY DEF Bounds, Fault

\* The first open image of a batch.
LEMMA LeastOfSet ==
  ASSUME NEW S \in SUBSET Images, S # {}
  PROVE  \E i \in S : \A k \in S : i <= k
<1>1. S \subseteq 0..9
  BY ImagesFacts
<1>2. \A k \in S : k \in Nat /\ k <= 9
  BY <1>1
<1>3. CASE \E i \in S : i <= 4
  <2>1. CASE 0 \in S BY <2>1, <1>2
  <2>2. CASE 0 \notin S /\ 1 \in S BY <2>2, <1>2
  <2>3. CASE {0, 1} \cap S = {} /\ 2 \in S BY <2>3, <1>2
  <2>4. CASE {0, 1, 2} \cap S = {} /\ 3 \in S BY <2>4, <1>2
  <2>5. CASE {0, 1, 2, 3} \cap S = {}
    <3>1. \A k \in S : k >= 4 BY <2>5, <1>2
    <3> QED BY <3>1, <1>2, <1>3
  <2> QED BY <2>1, <2>2, <2>3, <2>4, <2>5
<1>4. CASE \A i \in S : i > 4
  <2>1. CASE 5 \in S BY <2>1, <1>2, <1>4
  <2>2. CASE 5 \notin S /\ 6 \in S BY <2>2, <1>2, <1>4
  <2>3. CASE {5, 6} \cap S = {} /\ 7 \in S BY <2>3, <1>2, <1>4
  <2>4. CASE {5, 6, 7} \cap S = {} /\ 8 \in S BY <2>4, <1>2, <1>4
  <2>5. CASE {5, 6, 7, 8} \cap S = {}
    <3>1. \A k \in S : k = 9 BY <2>5, <1>2, <1>4
    <3> QED BY <3>1
  <2> QED BY <2>1, <2>2, <2>3, <2>4, <2>5
<1> QED BY <1>2, <1>3, <1>4

-----------------------------------------------------------------------------
(* How a step of the records and a step of a thread are put together *)

LEMMA CalmForAll ==
  ASSUME BatchInv, Calm, NEW t \in Threads
  PROVE  CalmFor(t)
BY DEF Calm, CalmFor, BatchInv, ThreadsInv

LEMMA Joined ==
  ASSUME BatchInv, NEW t \in Threads, CalmFor(t), NEW q \in Workers,
         thr' = [thr EXCEPT ![t] = q], sys' \in Bounds, ThreadOk(t, q)'
  PROVE  BatchInv'
<1>1. thr' \in [Threads -> Workers]
  BY DEF BatchInv, ActorsTyped
<1>2. ASSUME NEW u \in Threads
      PROVE  \E w \in Workers : w = thr'[u] /\ ThreadOk(u, w)'
  <2>1. CASE u = t
    <3>1. q = thr'[u]
      BY <2>1 DEF BatchInv, ActorsTyped
    <3> QED BY <2>1, <3>1
  <2>2. CASE u # t
    <3>1. thr[u] = thr'[u] /\ thr[u] \in Workers
      BY <2>2 DEF BatchInv, ActorsTyped
    <3>2. PICK w \in Workers : w = thr[u]
      BY <3>1
    <3> QED BY <2>2, <3>1, <3>2 DEF CalmFor
  <2> QED BY <2>1, <2>2
<1>3. ThreadsInv'
  BY SMTT(30), <1>2 DEF ThreadsInv, ThreadOk, ViewOk, SeenOk, PlaceOk, CheckOk
<1> QED BY <1>1, <1>3 DEF BatchInv, ActorsTyped, CalmFor

\* The threads stand still.
LEMMA OnlyRecords ==
  ASSUME BatchInv, Calm, thr' = thr, sys' \in Bounds
  PROVE  BatchInv'
<1>1. ASSUME NEW u \in Threads
      PROVE  \E w \in Workers : w = thr'[u] /\ ThreadOk(u, w)'
  <2>1. PICK w \in Workers : w = thr[u]
    BY DEF BatchInv, ActorsTyped
  <2>2. ThreadOk(u, w)
    BY <2>1 DEF BatchInv, ThreadsInv
  <2> QED BY <2>1, <2>2 DEF Calm
<1>2. ThreadsInv'
  BY <1>1 DEF ThreadsInv, ThreadOk, ViewOk, SeenOk, PlaceOk, CheckOk
<1> QED BY <1>2 DEF BatchInv, ActorsTyped, Calm

LEMMA Still ==
  ASSUME BatchInv, UNCHANGED <<db, posts, rt>>
  PROVE  Calm
<1>1. RecordsInv'
  BY DEF BatchInv, RecordsInv, TypeInv, RowsInv, RowOk, OrderInv, FlightInv, ResultInv,
         DeletedInv, Public
<1>2. ASSUME NEW u \in Threads, NEW w \in Workers, ThreadOk(u, w)
      PROVE  ThreadOk(u, w)'
  BY <1>2 DEF ThreadOk, ViewOk, SeenOk, PlaceOk, CheckOk
<1> QED BY <1>1, <1>2 DEF Calm

\* The thread of a reconciliation that has work left.
LEMMA CheckStopped ==
  ASSUME BatchInv, thr["check"].pc \notin {"idle", "repair", "tell", "leave"}
  PROVE  db.run \in {"STOPPED", "DELETED"}
BY DEF BatchInv, ThreadsInv, ThreadOk, CheckOk, Threads

LEMMA OwnWorker ==
  ASSUME BatchInv, NEW t \in Threads
  PROVE  /\ thr[t] \in Workers
         /\ ThreadOk(t, thr[t])
         /\ thr[t].img \in Images
BY DEF BatchInv, ActorsTyped, ThreadsInv, Workers

\* A thread that is at no image, and has no verdict, needs to know nothing; one
\* of a reconciliation keeps the run stopped.
Resting == {"idle", "repair", "tell", "leave"}
Away == Pcs \ (AtImage \cup {"commit", "tell"})
LEMMA WentAway ==
  ASSUME BatchInv, NEW t \in Threads, CalmFor(t), NEW q \in Workers, q.pc \in Away,
         thr' = [thr EXCEPT ![t] = q], sys' \in Bounds,
         t = "check" /\ q.pc \notin Resting => db'.run \in {"STOPPED", "DELETED"}
  PROVE  BatchInv'
<1>1. ThreadOk(t, q)'
  BY DEF ThreadOk, ViewOk, PlaceOk, CheckOk, Away, AtImage, Sending, Resting
<1> QED BY <1>1, Joined

\* A thread that is at work goes on where it needs to know nothing.
LEMMA WentTo ==
  ASSUME BatchInv, NEW t \in Threads, CalmFor(t), NEW pc \in Away, thr' = Go(t, pc),
         sys' \in Bounds, thr[t].pc \notin Resting, db'.run = db.run
  PROVE  BatchInv'
<1>1. PICK q \in Workers : q = [thr[t] EXCEPT !.pc = pc]
  BY OwnWorker, WorkerMoves DEF Away
<1>2. thr' = [thr EXCEPT ![t] = q] /\ q.pc = pc
  BY <1>1, OwnWorker DEF Go, BatchInv, ActorsTyped, Workers
<1>3. t = "check" => db'.run \in {"STOPPED", "DELETED"}
  BY CheckStopped DEF Resting
<1> QED BY <1>2, <1>3, WentAway

\* An error takes the thread away from the image.
LEMMA TroubleOk ==
  ASSUME BatchInv, NEW t \in Threads, CalmFor(t), NEW how \in {"unknown", "db", "bad"},
         thr' = Trouble(t, how), sys' \in Bounds, thr[t].pc \notin Resting, db'.run = db.run
  PROVE  BatchInv'
<1>1. PICK pc \in {"undo", "repair"} : thr' = [thr EXCEPT ![t].how = how, ![t].pc = pc]
  BY DEF Trouble
<1>2. PICK q \in Workers : q = [thr[t] EXCEPT !.how = how, !.pc = pc]
  <2>1. [thr[t] EXCEPT !.how = how] \in Workers
    BY OwnWorker, WorkerMoves
  <2> QED BY <2>1, WorkerMoves DEF Pcs
<1>3. thr' = [thr EXCEPT ![t] = q] /\ q.pc = pc /\ pc \in Away
  <2>1. pc \in Away
    BY DEF Away, Pcs, AtImage
  <2> QED BY <1>1, <1>2, <2>1, OwnWorker DEF BatchInv, ActorsTyped, Workers
<1>4. t = "check" => db'.run \in {"STOPPED", "DELETED"}
  BY CheckStopped DEF Resting
<1> QED BY <1>3, <1>4, WentAway

\* A transaction that was refused, or failed: what it wrote, if it did, is no
\* one else's business.
LEMMA Refused ==
  ASSUME BatchInv, NEW t \in Threads, thr[t].pc \notin Resting, NEW how \in {"unknown", "db", "bad"},
         thr' = Trouble(t, how), sys' \in Bounds,
         UNCHANGED <<posts, rt>>, UNCHANGED db \/ (CalmFor(t) /\ db'.run = db.run)
  PROVE  BatchInv'
<1>1. CASE UNCHANGED db
  <2>1. CalmFor(t) /\ db'.run = db.run
    BY <1>1, Still, CalmForAll
  <2> QED BY <2>1, TroubleOk
<1>2. CASE CalmFor(t) /\ db'.run = db.run
  BY <1>2, TroubleOk
<1> QED BY <1>1, <1>2

\* Only the thread moves.
LEMMA Walked ==
  ASSUME BatchInv, NEW t \in Threads, NEW q \in Workers, thr' = [thr EXCEPT ![t] = q],
         UNCHANGED <<db, posts, rt>>, sys' \in Bounds, ThreadOk(t, q)
  PROVE  BatchInv'
<1>1. CalmFor(t) /\ ThreadOk(t, q)'
  BY Still, CalmForAll DEF Calm
<1> QED BY <1>1, Joined

-----------------------------------------------------------------------------
(* The steps of the rows that leave the images alone *)

LEMMA StatusTyped ==
  ASSUME NEW f \in Outputs
  PROVE  BatchStatus(f) \in Statuses /\ InvStatus(f) \in {"SUCCEEDED", "FAILED"}
BY DEF BatchStatus, InvStatus, Statuses

LEMMA PublicTyped ==
  ASSUME BatchInv, \A i \in Images : db.item[i].st \in Final
  PROVE  Public \in Outputs /\ Public # NoOutput
<1>1. \A i \in Images : Public[i] \in Final
  BY DEF Public
<1>2. Public \in Outputs
  BY <1>1 DEF Public, Outputs
<1>3. Public[0] # NoOutput[0]
  BY <1>1, ImagesFacts DEF NoOutput, Final
<1> QED BY <1>2, <1>3

LEMMA CalmInvocation ==
  ASSUME BatchInv, NEW v \in {"PENDING", "RUNNING", "SUCCEEDED", "FAILED", "OUTCOME_UNKNOWN"},
         db' = [db EXCEPT !.inv = v], UNCHANGED <<posts, rt>>
  PROVE  Calm /\ db'.run = db.run
<1>1. /\ db' \in Rows
      /\ db'.run = db.run /\ db'.item = db.item /\ db'.asset = db.asset /\ db'.box = db.box
      /\ db'.out = db.out /\ db'.res = db.res /\ db'.parent = db.parent /\ db'.obs = db.obs
  BY DEF BatchInv, RecordsInv, TypeInv, Rows
<1>2. RecordsInv'
  BY <1>1 DEF BatchInv, RecordsInv, TypeInv, RowsInv, RowOk, OrderInv, FlightInv, ResultInv,
         DeletedInv, Public
<1>3. ASSUME NEW u \in Threads, NEW w \in Workers, ThreadOk(u, w)
      PROVE  ThreadOk(u, w)'
  BY <1>1, <1>3 DEF ThreadOk, ViewOk, SeenOk, PlaceOk, CheckOk
<1> QED BY <1>1, <1>2, <1>3 DEF Calm

\* The tool run is started; it has no result then.
LEMMA CalmParent ==
  ASSUME BatchInv, NEW v \in {"PENDING", "RUNNING"}, db.parent \in {"none", "PENDING"},
         db' = [db EXCEPT !.parent = v], UNCHANGED <<posts, rt>>
  PROVE  Calm /\ db'.run = db.run
<1>1. /\ db' \in Rows
      /\ db'.run = db.run /\ db'.item = db.item /\ db'.asset = db.asset /\ db'.box = db.box
      /\ db'.out = db.out /\ db'.res = db.res /\ db'.obs = db.obs
  BY DEF BatchInv, RecordsInv, TypeInv, Rows
<1>2. db.res = NoOutput
  <2>1. db.res \in Outputs
    BY DEF BatchInv, RecordsInv, TypeInv, Rows
  <2> QED BY <2>1, StatusTyped DEF BatchInv, RecordsInv, ResultInv, Statuses
<1>3. RecordsInv'
  BY <1>1, <1>2 DEF BatchInv, RecordsInv, TypeInv, RowsInv, RowOk, OrderInv, FlightInv,
         ResultInv, DeletedInv, Public
<1>4. ASSUME NEW u \in Threads, NEW w \in Workers, ThreadOk(u, w)
      PROVE  ThreadOk(u, w)'
  BY <1>1, <1>4 DEF ThreadOk, ViewOk, SeenOk, PlaceOk, CheckOk
<1> QED BY <1>1, <1>3, <1>4 DEF Calm

\* The observation of the call.
LEMMA CalmObservation ==
  ASSUME BatchInv, NEW v \in {"FAILED", "RESULT"}, v = "RESULT" => db.res # NoOutput,
         db' = [db EXCEPT !.obs = v], UNCHANGED <<posts, rt>>
  PROVE  Calm /\ db'.run = db.run
<1>1. /\ db' \in Rows
      /\ db'.run = db.run /\ db'.item = db.item /\ db'.asset = db.asset /\ db'.box = db.box
      /\ db'.out = db.out /\ db'.res = db.res /\ db'.parent = db.parent /\ db'.obs = v
  BY DEF BatchInv, RecordsInv, TypeInv, Rows
<1>2. RecordsInv'
  BY <1>1 DEF BatchInv, RecordsInv, TypeInv, RowsInv, RowOk, OrderInv, FlightInv, ResultInv,
         DeletedInv, Public
<1>3. ASSUME NEW u \in Threads, NEW w \in Workers, ThreadOk(u, w)
      PROVE  ThreadOk(u, w)'
  BY <1>1, <1>3 DEF ThreadOk, ViewOk, SeenOk, PlaceOk, CheckOk
<1> QED BY <1>1, <1>2, <1>3 DEF Calm

\* The state of a run that the user has not stopped.
LEMMA CalmRun ==
  ASSUME BatchInv, db.run \notin {"STOPPED", "DELETED"},
         NEW v \in {"RUNNING", "PENDING", "INTERRUPTED", "STOPPED", "TERMINATED", "OVER"},
         NEW c \in Nat, db' = [db EXCEPT !.run = v, !.claim = c], UNCHANGED <<posts, rt>>
  PROVE  Calm
<1>1. /\ db' \in Rows
      /\ db'.run = v /\ db'.item = db.item /\ db'.asset = db.asset /\ db'.box = db.box
      /\ db'.out = db.out /\ db'.res = db.res /\ db'.parent = db.parent /\ db'.obs = db.obs
  BY DEF BatchInv, RecordsInv, TypeInv, Rows
<1>2. RecordsInv'
  BY <1>1 DEF BatchInv, RecordsInv, TypeInv, RowsInv, RowOk, OrderInv, FlightInv, ResultInv,
         DeletedInv, Public
<1>3. ASSUME NEW u \in Threads, NEW w \in Workers, ThreadOk(u, w)
      PROVE  ThreadOk(u, w)'
  BY <1>1, <1>3 DEF ThreadOk, ViewOk, SeenOk, PlaceOk, CheckOk
<1> QED BY <1>2, <1>3 DEF Calm

\* The output is recorded when every image is final.
LEMMA CalmOutput ==
  ASSUME BatchInv, \A i \in Images : db.item[i].st \in Final,
         db' = [db EXCEPT !.out = Public], UNCHANGED <<posts, rt>>
  PROVE  Calm /\ db'.run = db.run
<1>1. /\ db' \in Rows
      /\ db'.run = db.run /\ db'.item = db.item /\ db'.asset = db.asset /\ db'.box = db.box
      /\ db'.out = Public /\ db'.res = db.res /\ db'.parent = db.parent /\ db'.obs = db.obs
  <2>1. PICK o \in Outputs : o = Public
    BY PublicTyped
  <2>2. db' = [db EXCEPT !.out = o]
    BY <2>1
  <2>3. db' \in Rows
    BY <2>2 DEF BatchInv, RecordsInv, TypeInv, Rows
  <2> QED BY <2>1, <2>2, <2>3 DEF BatchInv, RecordsInv, TypeInv, Rows
<1>2. Public' = Public /\ Public # NoOutput
  BY <1>1, PublicTyped DEF Public
<1>3. RecordsInv'
  BY <1>1, <1>2 DEF BatchInv, RecordsInv, TypeInv, RowsInv, RowOk, OrderInv, FlightInv,
         ResultInv, DeletedInv
<1>4. ASSUME NEW u \in Threads, NEW w \in Workers, ThreadOk(u, w)
      PROVE  ThreadOk(u, w)'
  BY <1>1, <1>2, <1>4 DEF ThreadOk, ViewOk, SeenOk, PlaceOk, CheckOk
<1> QED BY <1>1, <1>3, <1>4 DEF Calm

\* The recorded output becomes the result.
LEMMA CalmResult ==
  ASSUME BatchInv, db.out = Public, \A i \in Images : db.item[i].st \in Final,
         db' = [db EXCEPT !.res = db.out, !.parent = BatchStatus(db.out)],
         UNCHANGED <<posts, rt>>
  PROVE  Calm /\ db'.run = db.run
<1>1. PICK o \in Outputs : o = db.out
  BY DEF BatchInv, RecordsInv, TypeInv, Rows
<1>2. PICK p \in Statuses : p = BatchStatus(o)
  BY StatusTyped
<1>3. db' = [db EXCEPT !.res = o, !.parent = p]
  BY <1>1, <1>2
<1>4. /\ db' \in Rows
      /\ db'.run = db.run /\ db'.item = db.item /\ db'.asset = db.asset /\ db'.box = db.box
      /\ db'.out = db.out /\ db'.res = o /\ db'.parent = p /\ db'.obs = db.obs
  BY <1>3 DEF BatchInv, RecordsInv, TypeInv, Rows
<1>5. Public' = Public /\ o = Public /\ o # NoOutput
  BY <1>1, <1>4, PublicTyped DEF Public
<1>6. RecordsInv'
  BY <1>2, <1>4, <1>5 DEF BatchInv, RecordsInv, TypeInv, RowsInv, RowOk, OrderInv, FlightInv,
         ResultInv, DeletedInv
<1>7. ASSUME NEW u \in Threads, NEW w \in Workers, ThreadOk(u, w)
      PROVE  ThreadOk(u, w)'
  BY <1>4, <1>5, <1>7 DEF ThreadOk, ViewOk, SeenOk, PlaceOk, CheckOk
<1> QED BY <1>4, <1>6, <1>7 DEF Calm

\* An asset of an image that is not closed.
LEMMA CalmAsset ==
  ASSUME BatchInv, NEW i \in Images, db.asset[i] < 2,
         db' = [db EXCEPT !.asset[i] = @ + 1], UNCHANGED <<posts, rt>>
  PROVE  Calm /\ db'.run = db.run
<1>1. PICK a \in [Images -> 0..2] : a = [db.asset EXCEPT ![i] = @ + 1]
  <2>1. db.asset \in [Images -> 0..2] /\ db.asset[i] + 1 \in 0..2
    BY DEF BatchInv, RecordsInv, TypeInv, Rows
  <2> QED BY <2>1
<1>2. db' = [db EXCEPT !.asset = a]
  BY <1>1
<1>3. /\ db' \in Rows
      /\ db'.run = db.run /\ db'.item = db.item /\ db'.asset = a /\ db'.box = db.box
      /\ db'.out = db.out /\ db'.res = db.res /\ db'.parent = db.parent /\ db'.obs = db.obs
  BY <1>2 DEF BatchInv, RecordsInv, TypeInv, Rows
<1>4. \A k \in Images : db.asset[k] = 2 => db'.asset[k] = 2
  BY <1>1, <1>3 DEF BatchInv, RecordsInv, TypeInv, Rows
<1>5. RecordsInv'
  <2>1. RowsInv'
    BY <1>3, <1>4 DEF BatchInv, RecordsInv, RowsInv, RowOk
  <2> QED BY <1>3, <2>1 DEF BatchInv, RecordsInv, TypeInv, OrderInv, FlightInv,
         ResultInv, DeletedInv, Public
<1>6. ASSUME NEW u \in Threads, NEW w \in Workers, ThreadOk(u, w)
      PROVE  ThreadOk(u, w)'
  <2>1. w.img \in Images
    BY DEF Workers
  <2> QED BY <1>3, <1>4, <1>6, <2>1 DEF ThreadOk, ViewOk, SeenOk, PlaceOk, CheckOk
<1> QED BY <1>3, <1>5, <1>6 DEF Calm

-----------------------------------------------------------------------------
(* The steps of the images *)

FreshRows == [i \in Images |-> [NoItem EXCEPT !.st = "NOT_DISPATCHED"]]
LEMMA FreshTyped ==
  /\ FreshRows \in [Images -> Items]
  /\ \A i \in Images : /\ FreshRows[i].st = "NOT_DISPATCHED" /\ FreshRows[i].ver = 0
                       /\ FreshRows[i].rcpt = "none" /\ FreshRows[i].why = "none"
BY DEF FreshRows, NoItem, Items, ItemStates

\* The rows of all the images are created; no thread has read a row then.
LEMMA CalmCreated ==
  ASSUME BatchInv, db.item[0].st = "none", db' = [db EXCEPT !.item = FreshRows],
         UNCHANGED <<posts, rt>>
  PROVE  Calm /\ db'.run = db.run
<1>1. /\ db' \in Rows
      /\ db'.run = db.run /\ db'.item = FreshRows /\ db'.asset = db.asset /\ db'.box = db.box
      /\ db'.out = db.out /\ db'.res = db.res /\ db'.parent = db.parent /\ db'.obs = db.obs
  BY FreshTyped DEF BatchInv, RecordsInv, TypeInv, Rows
<1>2. \A i \in Images : /\ db.item[i] = NoItem /\ db.item[i].st = "none"
                        /\ rt.rcpt[i] = "none" /\ i \notin posts
  <2>1. \A i \in Images : db.item[i].st = "none"
    BY ImagesFacts DEF BatchInv, RecordsInv, RowsInv
  <2> QED BY <2>1 DEF BatchInv, RecordsInv, RowsInv, RowOk
<1>3. db.out = NoOutput /\ db.res = NoOutput
  BY <1>2, ImagesFacts DEF BatchInv, RecordsInv, ResultInv, Final
<1>4. rt.on \in Images
  BY DEF BatchInv, RecordsInv, TypeInv, Runtimes
<1>5. RowsInv' /\ OrderInv'
  BY <1>1, <1>2, FreshTyped DEF RowsInv, RowOk, OrderInv, Unresolved, Sent
<1>6. FlightInv'
  BY <1>1, <1>2, <1>4 DEF BatchInv, RecordsInv, TypeInv, FlightInv, Sent
<1>7. ResultInv' /\ DeletedInv'
  BY <1>1, <1>2, <1>3, FreshTyped
  DEF BatchInv, RecordsInv, ResultInv, DeletedInv, Unresolved, NoItem
<1>8. RecordsInv'
  BY <1>1, <1>5, <1>6, <1>7 DEF BatchInv, RecordsInv, TypeInv
<1>9. ASSUME NEW u \in Threads, NEW w \in Workers, ThreadOk(u, w)
      PROVE  ThreadOk(u, w)'
  <2>1. w.pc \notin AtImage
    <3>1. ASSUME w.pc \in AtImage PROVE FALSE
      <4>1. SeenOk(0, w.view[0])
        BY <1>9, <3>1, ImagesFacts DEF ThreadOk, ViewOk
      <4>2. w.view[0].ver \in Nat
        BY ImagesFacts DEF Workers, Items
      <4>3. w.view[0].ver = 0
        BY <4>1, <4>2, <1>2, ImagesFacts DEF SeenOk, NoItem
      <4>4. db.item[0] = w.view[0]
        BY <4>1, <4>3, <1>2, ImagesFacts DEF SeenOk, NoItem
      <4> QED BY <4>1, <4>4, <1>2, ImagesFacts DEF SeenOk
    <3> QED BY <3>1
  <2> QED BY <1>1, <1>9, <2>1 DEF ThreadOk, ViewOk, PlaceOk, CheckOk, AtImage
<1> QED BY <1>1, <1>8, <1>9 DEF Calm

\* One row takes a step.  The thread has read the row as it is; a new row agrees
\* with what the runtime knows; an image is marked as sent after the earlier
\* ones are final, and taken back by its sender only.
Turn(t, i, item) ==
  /\ t \in Threads /\ thr[t].pc \in AtImage /\ i = Img(t) /\ i \in Images
  /\ item \in Items /\ item.ver = db.item[i].ver + 1
  /\ item.st \in Allowed[db.item[i].st]
  /\ RowOk(i, item)
  /\ item.st = "NOT_DISPATCHED" => thr[t].pc = "back"
  /\ db.run # "DELETED"
  /\ db' = [db EXCEPT !.item[i] = item]
  /\ UNCHANGED <<posts, rt>>

LEMMA AllowedFacts ==
  ASSUME NEW s \in ItemStates, NEW r \in Allowed[s]
  PROVE  /\ s \notin Final /\ s # "none" /\ r # "none" /\ r \in ItemStates
         /\ r \in Unresolved => s \in Unresolved \/ (s = "NOT_DISPATCHED" /\ r = "DISPATCHED")
         /\ s \in Sent => r \in {"RESULT_RECEIVED", "OUTCOME_UNKNOWN", "NOT_DISPATCHED"}
<1>1. CASE s = "NOT_DISPATCHED"
  <2>1. Allowed[s] = {"DISPATCHED", "FAILED", "SKIPPED"}
    BY <1>1 DEF Allowed
  <2> QED BY <1>1, <2>1 DEF ItemStates, Final, Unresolved, Sent
<1>2. CASE s = "DISPATCHED"
  <2>1. Allowed[s] = {"RESULT_RECEIVED", "OUTCOME_UNKNOWN", "NOT_DISPATCHED"}
    BY <1>2 DEF Allowed
  <2> QED BY <1>2, <2>1 DEF ItemStates, Final, Unresolved, Sent
<1>3. CASE s = "OUTCOME_UNKNOWN"
  <2>1. Allowed[s] = {"RESULT_RECEIVED"}
    BY <1>3 DEF Allowed
  <2> QED BY <1>3, <2>1 DEF ItemStates, Final, Unresolved, Sent
<1>4. CASE s = "RESULT_RECEIVED"
  <2>1. Allowed[s] = {"SUCCEEDED", "FAILED"}
    BY <1>4 DEF Allowed
  <2> QED BY <1>4, <2>1 DEF ItemStates, Final, Unresolved, Sent
<1>5. CASE s \notin {"NOT_DISPATCHED", "DISPATCHED", "OUTCOME_UNKNOWN", "RESULT_RECEIVED"}
  <2>1. Allowed[s] = {}
    BY <1>5 DEF Allowed
  <2> QED BY <2>1
<1> QED BY <1>1, <1>2, <1>3, <1>4, <1>5

LEMMA TurnedRows ==
  ASSUME BatchInv, NEW t, NEW i, NEW item, Turn(t, i, item)
  PROVE  /\ db' \in Rows
         /\ db'.run = db.run /\ db'.asset = db.asset /\ db'.box = db.box
         /\ db'.out = db.out /\ db'.res = db.res /\ db'.parent = db.parent /\ db'.obs = db.obs
         /\ db'.item[i] = item
         /\ \A k \in Images : k # i => db'.item[k] = db.item[k]
         /\ db.item[i].st \in ItemStates /\ db.item[i].st \notin Final
         /\ db.item[i].st # "none" /\ item.st # "none"
         /\ db.out = NoOutput /\ db.res = NoOutput /\ db.obs # "RESULT"
<1>1. db' \in Rows
  BY RowTyped DEF Turn, BatchInv, RecordsInv, TypeInv
<1>2. /\ db'.run = db.run /\ db'.asset = db.asset /\ db'.box = db.box
      /\ db'.out = db.out /\ db'.res = db.res /\ db'.parent = db.parent /\ db'.obs = db.obs
      /\ db'.item = [db.item EXCEPT ![i] = item]
  BY DEF Turn, BatchInv, RecordsInv, TypeInv, Rows
<1>3. db.item \in [Images -> Items]
  BY DEF BatchInv, RecordsInv, TypeInv, Rows
<1>4. db.item[i].st \in ItemStates /\ i \in Images
  BY <1>3 DEF Turn, Items
<1>5. db.item[i].st \notin Final /\ db.item[i].st # "none" /\ item.st # "none"
  BY <1>4, AllowedFacts DEF Turn
<1>6. db.out = NoOutput /\ db.res = NoOutput /\ db.obs # "RESULT"
  BY <1>4, <1>5 DEF BatchInv, RecordsInv, ResultInv
<1> QED BY <1>1, <1>2, <1>3, <1>4, <1>5, <1>6

LEMMA TurnedRecords ==
  ASSUME BatchInv, NEW t, NEW i, NEW item, Turn(t, i, item),
         item.st = "DISPATCHED" => \A k \in Images : k < i => db.item[k].st \in Final
  PROVE  RecordsInv'
<1>1. i \in Images /\ t \in Threads /\ rt.on \in Images
  BY DEF Turn, BatchInv, RecordsInv, TypeInv, Runtimes
<1>2. RowsInv'
  <2>1. \A k \in Images : RowOk(k, db'.item[k])
    BY SMTT(30), <1>1, TurnedRows DEF Turn, BatchInv, RecordsInv, RowsInv, RowOk
  <2>2. \A k \in Images : db.item[k].st # "none"
    BY <1>1, TurnedRows DEF BatchInv, RecordsInv, RowsInv
  <2>3. \A k \in Images : db'.item[k].st # "none"
    BY <1>1, <2>2, TurnedRows
  <2> QED BY SMTT(30), <2>1, <2>3, TurnedRows DEF Turn, RowsInv, RowOk
<1>3. OrderInv'
  <2> SUFFICES ASSUME NEW k \in Images, NEW j \in Images, k < j, db'.item[j].st \in Unresolved
               PROVE  db'.item[k].st \in Final
    BY DEF OrderInv
  <2>1. k # j
    BY ImagesFacts
  <2>2. CASE j = i
    <3>1. db'.item[k] = db.item[k]
      BY <1>1, <2>1, <2>2, TurnedRows
    <3>2. db.item[i].st \in Unresolved \/ item.st = "DISPATCHED"
      BY <2>2, TurnedRows, AllowedFacts DEF Turn
    <3> QED BY <3>1, <3>2, <2>2 DEF BatchInv, RecordsInv, OrderInv
  <2>3. CASE j # i
    <3>1. db.item[k].st \in Final
      BY <2>3, <1>1, TurnedRows DEF BatchInv, RecordsInv, OrderInv
    <3> QED BY <3>1, TurnedRows
  <2> QED BY <2>2, <2>3
<1>4. FlightInv'
  <2>1. i \in posts \/ (rt.lock = "run" /\ rt.on = i) => item.st \in Sent
    <3>1. i \in posts \/ (rt.lock = "run" /\ rt.on = i)
            => rt.rcpt[i] \in {"none", "UNKNOWN"} /\ db.item[i].st \in Sent
      BY DEF BatchInv, RecordsInv, FlightInv
    <3>2. db.item[i].st \in Sent => item.st \in {"RESULT_RECEIVED", "OUTCOME_UNKNOWN", "NOT_DISPATCHED"}
      BY TurnedRows, AllowedFacts DEF Turn
    <3>3. item.st = "RESULT_RECEIVED" => rt.rcpt[i] \in {"SUCCEEDED", "FAILED", "DELETED"}
      BY DEF Turn, RowOk, Ended
    <3>4. item.st = "NOT_DISPATCHED" => rt.rcpt[i] = "none" /\ i \notin posts
      BY DEF Turn, RowOk
    <3>5. rt.lock = "run" => rt.rcpt[rt.on] = "UNKNOWN"
      BY DEF BatchInv, RecordsInv, FlightInv
    <3> QED BY <3>1, <3>2, <3>3, <3>4, <3>5 DEF Sent
  <2>2. posts \subseteq Images
    BY DEF BatchInv, RecordsInv, TypeInv
  <2>3. UNCHANGED <<posts, rt>>
    BY DEF Turn
  <2> QED BY <1>1, <2>1, <2>2, <2>3, TurnedRows DEF BatchInv, RecordsInv, FlightInv
<1>5. ResultInv' /\ DeletedInv'
  BY TurnedRows DEF Turn, BatchInv, RecordsInv, ResultInv, DeletedInv
<1> QED BY <1>2, <1>3, <1>4, <1>5, TurnedRows DEF Turn, BatchInv, RecordsInv, TypeInv

\* What was read of the images stays true.
LEMMA TurnedSeen ==
  ASSUME BatchInv, NEW t, NEW i, NEW item, Turn(t, i, item),
         NEW k \in Images, NEW seen \in Items, SeenOk(k, seen)
  PROVE  SeenOk(k, seen)'
<1>1. CASE k # i
  BY <1>1, TurnedRows DEF SeenOk, Turn
<1>2. CASE k = i
  <2>1. seen.ver <= db.item[i].ver /\ seen.st \notin Final
    BY <1>2, TurnedRows DEF SeenOk
  <2>2. seen.ver \in Nat /\ db.item[i].ver \in Nat /\ item.ver = db.item[i].ver + 1
    BY <1>2 DEF Turn, Items, BatchInv, RecordsInv, TypeInv, Rows
  <2>3. seen.ver <= item.ver /\ seen.ver # item.ver
    BY <2>1, <2>2
  <2> QED BY <1>2, <2>1, <2>3, TurnedRows DEF SeenOk, Turn
<1> QED BY <1>1, <1>2

\* The row that was written is as good as one that was read.
LEMMA WrittenSeen ==
  ASSUME BatchInv, NEW t, NEW i, NEW item, Turn(t, i, item)
  PROVE  SeenOk(i, item)'
<1>1. db'.item[i] = item /\ item.ver \in Nat /\ item.st # "none"
  BY TurnedRows DEF Turn, Items
<1> QED BY <1>1 DEF SeenOk, Turn, RowOk

LEMMA TurnedOthers ==
  ASSUME BatchInv, NEW t, NEW i, NEW item, Turn(t, i, item), NEW u \in Threads, u # t
  PROVE  \A w \in Workers : w = thr[u] => ThreadOk(u, w)'
<1> SUFFICES ASSUME NEW w \in Workers, w = thr[u] PROVE ThreadOk(u, w)'
  OBVIOUS
<1>1. ThreadOk(u, w)
  BY DEF BatchInv, ThreadsInv
<1>2. ViewOk(w)'
  <2>1. \A k \in Images : w.view[k] \in Items
    BY DEF Workers
  <2> QED BY <1>1, <2>1, TurnedSeen DEF ThreadOk, ViewOk
<1>3. w.pc \in {"post", "back"} => db'.item[w.img].st \in Sent
  <2> SUFFICES ASSUME w.pc \in {"post", "back"} PROVE db'.item[w.img].st \in Sent
    OBVIOUS
  <2>1. w.img \in Images /\ db.item[w.img].st \in Sent /\ rt.rcpt[w.img] = "none"
    BY <1>1 DEF ThreadOk, PlaceOk, Workers
  <2>2. CASE w.img # i
    BY <2>1, <2>2, TurnedRows
  <2>3. CASE w.img = i
    <3>1. item.st \in {"RESULT_RECEIVED", "OUTCOME_UNKNOWN", "NOT_DISPATCHED"}
      BY <2>1, <2>3, TurnedRows, AllowedFacts DEF Turn
    <3>2. item.st # "RESULT_RECEIVED"
      BY <2>1, <2>3 DEF Turn, RowOk, Ended
    <3>3. item.st # "NOT_DISPATCHED"
      <4>1. \A v \in Threads : thr[v].pc \in Sending => v = "drive"
        <5>1. \A v \in Threads : v = "check" => CheckOk(thr[v])
          BY DEF BatchInv, ThreadsInv, ThreadOk
        <5> QED BY <5>1 DEF CheckOk, Threads
      <4> QED BY <4>1 DEF Turn, Sending
    <3> QED BY <2>3, <3>1, <3>2, <3>3, TurnedRows DEF Sent
  <2> QED BY <2>2, <2>3
<1>4. PlaceOk(w)'
  BY <1>1, <1>3, TurnedRows DEF ThreadOk, PlaceOk, Turn
<1> QED BY <1>1, <1>2, <1>4, TurnedRows DEF ThreadOk, CheckOk

-----------------------------------------------------------------------------
(* The loop over the images *)

\* Where the loop takes the thread, by the rows it goes by.
NextPlace(w, view, from) ==
  /\ w.view = view
  /\ \/ w.pc = "record"
     \/ /\ w.img \in Images /\ w.img >= from
        /\ \A k \in Images : from <= k /\ k < w.img => view[k].st \in Final
        /\ \/ w.pc = "ask" /\ view[w.img].st \in Sent
           \/ w.pc = "got" /\ view[w.img].st = "RESULT_RECEIVED" /\ w.ans = view[w.img].rcpt
           \/ w.pc = "ready" /\ view[w.img].st \in {"none", "NOT_DISPATCHED"}

LEMMA WorkerPlaced ==
  ASSUME NEW w \in Workers, NEW view \in [Images -> Items], NEW i \in Images, NEW pc \in Pcs,
         NEW ans \in {"none", "SUCCEEDED", "FAILED"}
  PROVE  /\ [w EXCEPT !.view = view, !.img = i, !.pc = pc, !.ans = ans] \in Workers
         /\ [w EXCEPT !.pc = pc, !.view = view, !.ans = ans] \in Workers
<1>1. PICK v \in Workers : v = [w EXCEPT !.view = view]
  BY WorkerMoves
<1>2. PICK x \in Workers : x = [v EXCEPT !.pc = pc]
  BY WorkerMoves
<1>3. PICK y \in Workers : y = [x EXCEPT !.ans = ans]
  BY WorkerMoves
<1>4. PICK z \in Workers : z = [y EXCEPT !.img = i]
  BY WorkerMoves
<1>5. y = [w EXCEPT !.pc = pc, !.view = view, !.ans = ans]
  BY ZenonT(40), <1>1, <1>2, <1>3 DEF Workers
<1>6. z = [w EXCEPT !.view = view, !.img = i, !.pc = pc, !.ans = ans]
  <2> SUFFICES [y EXCEPT !.img = i] = [w EXCEPT !.view = view, !.img = i, !.pc = pc, !.ans = ans]
    BY <1>4
  <2> QED BY <1>5 DEF Workers
<1> QED BY <1>5, <1>6

LEMMA OnwardStep ==
  ASSUME ActorsTyped, NEW t \in Threads, NEW view \in [Images -> Items], NEW from \in Nat
  PROVE  \E w \in Workers : /\ Onward(t, view, from) = [thr EXCEPT ![t] = w]
                            /\ NextPlace(w, view, from)
<1> DEFINE open == {i \in from..NImages - 1 : view[i].st \notin Final}
           i == CHOOSE j \in open : \A k \in open : j <= k
<1>1. open \subseteq Images
  BY BatchAssumption DEF Images
<1>2. CASE open = {}
  <2>1. Onward(t, view, from) = [thr EXCEPT ![t].pc = "record", ![t].view = view, ![t].ans = "none"]
    BY <1>2 DEF Onward
  <2>2. PICK w \in Workers : w = [thr[t] EXCEPT !.pc = "record", !.view = view, !.ans = "none"]
    <3>1. thr[t] \in Workers /\ "record" \in Pcs
      BY DEF ActorsTyped, Pcs
    <3> QED BY <3>1, WorkerPlaced, ImagesFacts
  <2>3. Onward(t, view, from) = [thr EXCEPT ![t] = w]
    BY <2>1, <2>2 DEF ActorsTyped
  <2>4. NextPlace(w, view, from)
    BY <2>2 DEF NextPlace, ActorsTyped, Workers
  <2> QED BY <2>3, <2>4
<1>3. CASE open # {}
  <2>1. i \in open /\ \A k \in open : i <= k
    <3>1. \E j \in open : \A k \in open : j <= k
      <4> HIDE DEF open
      <4> QED BY <1>1, <1>3, LeastOfSet
    <3> QED BY <3>1
  <2>2. i \in Images /\ i >= from /\ view[i].st \notin Final
    BY <1>1, <2>1
  <2>3. \A k \in Images : from <= k /\ k < i => view[k].st \in Final
    <3> SUFFICES ASSUME NEW k \in Images, from <= k, k < i, view[k].st \notin Final PROVE FALSE
      OBVIOUS
    <3>1. k \in open
      BY ImagesFacts DEF Images
    <3> QED BY <3>1, <2>1, <2>2, ImagesFacts
  <2> DEFINE pc == CASE view[i].st \in {"DISPATCHED", "OUTCOME_UNKNOWN"} -> "ask"
                     [] view[i].st = "RESULT_RECEIVED" -> "got"
                     [] OTHER -> "ready"
             ans == IF view[i].st = "RESULT_RECEIVED" THEN view[i].rcpt ELSE "none"
  <2>4. Onward(t, view, from) =
          [thr EXCEPT ![t].view = view, ![t].img = i, ![t].pc = pc, ![t].ans = ans]
    BY <1>3 DEF Onward
  <2>5. view[i] \in Items /\ view[i].st \in ItemStates
    BY <2>2 DEF Items
  <2>6. /\ pc \in {"ask", "got", "ready"}
        /\ pc = "ask" => view[i].st \in Sent
        /\ pc = "got" => view[i].st = "RESULT_RECEIVED" /\ ans = view[i].rcpt
        /\ pc = "ready" => view[i].st \in {"none", "NOT_DISPATCHED"}
    <3> HIDE DEF i
    <3> QED BY <2>2, <2>5 DEF ItemStates, Unresolved, Final, Sent
  <2>7. ans \in {"none", "SUCCEEDED", "FAILED"}
    <3> HIDE DEF i
    <3> QED BY <2>5 DEF Items
  <2> HIDE DEF pc, ans, i, open
  <2>8. PICK w \in Workers : w = [thr[t] EXCEPT !.view = view, !.img = i, !.pc = pc, !.ans = ans]
    <3>1. thr[t] \in Workers /\ pc \in Pcs
      BY <2>6 DEF ActorsTyped, Pcs
    <3> QED BY <3>1, <2>2, <2>7, WorkerPlaced
  <2>9. Onward(t, view, from) = [thr EXCEPT ![t] = w]
    BY <2>4, <2>8 DEF ActorsTyped
  <2>10. w.view = view /\ w.img = i /\ w.pc = pc /\ w.ans = ans
    BY <2>8 DEF ActorsTyped, Workers
  <2>11. NextPlace(w, view, from)
    BY <2>2, <2>3, <2>6, <2>10 DEF NextPlace
  <2> QED BY <2>9, <2>11
<1> QED BY <1>2, <1>3

\* The place that the loop takes the thread to is one that the invariant allows.
LEMMA NextPlaceOk ==
  ASSUME NEW t \in Threads, NEW w \in Workers, NEW view, NEW from \in Nat, NextPlace(w, view, from),
         \A k \in Images : SeenOk(k, view[k])' /\ (k < from => view[k].st \in Final),
         t = "check" => db'.run \in {"STOPPED", "DELETED"}
  PROVE  ThreadOk(t, w)'
<1>1. CASE w.pc = "record"
  BY <1>1 DEF ThreadOk, ViewOk, PlaceOk, CheckOk, AtImage, Sending
<1>2. CASE w.pc # "record"
  <2>1. w.pc \in {"ask", "got", "ready"} /\ w.view = view /\ w.img \in Images
    BY <1>2 DEF NextPlace
  <2>2. view[w.img].st # "none" /\ SeenOk(w.img, view[w.img])'
    BY <2>1 DEF SeenOk
  <2>3. ViewOk(w)'
    <3>1. \A k \in Images : k < w.img => view[k].st \in Final
      BY <1>2, ImagesFacts DEF NextPlace
    <3> QED BY <2>1, <3>1 DEF ViewOk
  <2>4. PlaceOk(w)'
    <3>1. w.pc = "got" => /\ view[w.img].st = "RESULT_RECEIVED" /\ w.ans = view[w.img].rcpt
                          /\ rt'.rcpt[w.img] \in {w.ans, "DELETED"}
      BY <1>2, <2>1, <2>2 DEF NextPlace, SeenOk, Ended
    <3> QED BY <1>2, <2>1, <2>2, <3>1 DEF NextPlace, PlaceOk
  <2> QED BY <2>1, <2>3, <2>4 DEF ThreadOk, CheckOk, Sending
<1> QED BY <1>1, <1>2

-----------------------------------------------------------------------------
(* The actions of a thread, on the way to the images *)

LEMMA BeginOk ==
  ASSUME BatchInv, NEW t \in Threads, Begin(t)
  PROVE  BatchInv'
<1>1. thr[t].pc \notin Resting /\ UNCHANGED <<posts, rt>> /\ {"repair", "start"} \subseteq Away
  BY DEF Begin, At, Resting, Away, Pcs, AtImage
<1>2. sys' \in Bounds
  BY FaultTyped DEF Begin, Write, BatchInv, ActorsTyped
<1>3. CASE db' = db /\ thr' = Go(t, "repair")
  <2>1. CalmFor(t)
    BY <1>1, <1>3, Still, CalmForAll
  <2> QED BY <1>1, <1>2, <1>3, <2>1, WentTo
<1>4. db' = [db EXCEPT !.inv = "RUNNING"] => CalmFor(t) /\ db'.run = db.run
  BY <1>1, CalmInvocation, CalmForAll
<1>5. CASE db' = [db EXCEPT !.inv = "RUNNING"] /\ thr' = Go(t, "start")
  BY <1>1, <1>2, <1>4, <1>5, WentTo
<1>6. CASE /\ \E how \in {"db", "bad"} : thr' = Trouble(t, how)
           /\ db' = db \/ db' = [db EXCEPT !.inv = "RUNNING"]
  BY <1>1, <1>2, <1>4, <1>6, Refused
<1> QED BY <1>3, <1>5, <1>6 DEF Begin, Write

LEMMA PlanOk ==
  ASSUME BatchInv, NEW t \in Threads, Plan(t)
  PROVE  BatchInv'
<1>1. /\ thr[t].pc \notin Resting /\ UNCHANGED <<db, posts, rt>>
      /\ {"repair", "start", "load", "begin"} \subseteq Away
      /\ sys' \in Bounds
  BY DEF Plan, At, Resting, Away, Pcs, AtImage, BatchInv, ActorsTyped
<1>2. CalmFor(t)
  BY <1>1, Still, CalmForAll
<1>3. CASE \E pc \in {"repair", "start", "load"} : thr' = Go(t, pc)
  BY <1>1, <1>2, <1>3, WentTo
<1>4. CASE thr' = [thr EXCEPT ![t].pc = "begin", ![t].mode = "replay"]
  <2>1. PICK q \in Workers : q = [thr[t] EXCEPT !.pc = "begin", !.mode = "replay"]
    <3>1. [thr[t] EXCEPT !.pc = "begin"] \in Workers
      BY OwnWorker, WorkerMoves DEF Pcs
    <3> QED BY <3>1, WorkerMoves
  <2>2. thr' = [thr EXCEPT ![t] = q] /\ q.pc = "begin"
    BY <1>4, <2>1, OwnWorker DEF BatchInv, ActorsTyped, Workers
  <2>3. t = "check" => db'.run \in {"STOPPED", "DELETED"}
    BY <1>1, CheckStopped DEF Resting
  <2> QED BY <1>1, <1>2, <2>2, <2>3, WentAway
<1> QED BY <1>3, <1>4 DEF Plan

LEMMA StartOk ==
  ASSUME BatchInv, NEW t \in Threads, Start(t)
  PROVE  BatchInv'
<1>1. thr[t].pc \notin Resting /\ UNCHANGED <<posts, rt>> /\ "load" \in Away
  BY DEF Start, At, Resting, Away, Pcs, AtImage
<1>2. sys' \in Bounds
  BY FaultTyped DEF Start, Write, BatchInv, ActorsTyped
<1>3. CASE db.parent \in {"none", "PENDING"}
  <2>1. PICK v \in {"PENDING", "RUNNING"} :
          \/ db' = [db EXCEPT !.parent = v] /\ (thr' = thr \/ thr' = Go(t, "load"))
          \/ /\ db' = db \/ db' = [db EXCEPT !.parent = v]
             /\ \E how \in {"db", "bad"} : thr' = Trouble(t, how)
    BY <1>3 DEF Start, Write
  <2>2. db' = [db EXCEPT !.parent = v] => Calm /\ CalmFor(t) /\ db'.run = db.run
    BY <1>1, <1>3, CalmParent, CalmForAll
  <2>3. CASE db' = [db EXCEPT !.parent = v] /\ thr' = thr
    BY <1>2, <2>2, <2>3, OnlyRecords
  <2>4. CASE db' = [db EXCEPT !.parent = v] /\ thr' = Go(t, "load")
    BY <1>1, <1>2, <2>2, <2>4, WentTo
  <2>5. CASE /\ db' = db \/ db' = [db EXCEPT !.parent = v]
             /\ \E how \in {"db", "bad"} : thr' = Trouble(t, how)
    BY <1>1, <1>2, <2>2, <2>5, Refused
  <2> QED BY <2>1, <2>3, <2>4, <2>5
<1>4. CASE db.parent \notin {"none", "PENDING"}
  <2>1. thr' = Trouble(t, "bad") /\ UNCHANGED db
    BY <1>4 DEF Start, Write
  <2> QED BY <1>1, <1>2, <2>1, Refused
<1> QED BY <1>3, <1>4

LEMMA LoadOk ==
  ASSUME BatchInv, NEW t \in Threads, Load(t)
  PROVE  BatchInv'
<1>1. thr[t].pc \notin Resting /\ UNCHANGED <<posts, rt>>
  BY DEF Load, At, Resting
<1>2. sys' \in Bounds
  BY FaultTyped DEF Load, Write, BatchInv, ActorsTyped
<1>3. CASE db.item[0].st = "none"
  <2>1. \/ db' = [db EXCEPT !.item = FreshRows] /\ thr' = thr
        \/ /\ db' = db \/ db' = [db EXCEPT !.item = FreshRows]
           /\ \E how \in {"db", "bad"} : thr' = Trouble(t, how)
    BY <1>3 DEF Load, Write, FreshRows
  <2>2. db' = [db EXCEPT !.item = FreshRows] => Calm /\ CalmFor(t) /\ db'.run = db.run
    BY <1>1, <1>3, CalmCreated, CalmForAll
  <2>3. CASE db' = [db EXCEPT !.item = FreshRows] /\ thr' = thr
    BY <1>2, <2>2, <2>3, OnlyRecords
  <2>4. CASE /\ db' = db \/ db' = [db EXCEPT !.item = FreshRows]
             /\ \E how \in {"db", "bad"} : thr' = Trouble(t, how)
    BY <1>1, <1>2, <2>2, <2>4, Refused
  <2> QED BY <2>1, <2>3, <2>4
<1>4. CASE db.item[0].st # "none"
  <2>1. thr' = Onward(t, db.item, 0) /\ UNCHANGED db
    BY <1>4 DEF Load
  <2>2. PICK view \in [Images -> Items] : view = db.item
    BY DEF BatchInv, RecordsInv, TypeInv, Rows
  <2>3. PICK w \in Workers : thr' = [thr EXCEPT ![t] = w] /\ NextPlace(w, view, 0)
    BY <2>1, <2>2, OnwardStep DEF BatchInv
  <2>4. \A k \in Images : SeenOk(k, view[k])' /\ ~(k < 0)
    <3> SUFFICES ASSUME NEW k \in Images PROVE SeenOk(k, view[k])' /\ ~(k < 0)
      OBVIOUS
    <3>1. db.item[k].st # "none" /\ RowOk(k, db.item[k])
      BY <1>4, ImagesFacts DEF BatchInv, RecordsInv, RowsInv
    <3>2. view[k].ver \in Nat /\ view[k] = db.item[k] /\ db'.item[k] = view[k] /\ rt' = rt
      BY <1>1, <2>1, <2>2 DEF Items
    <3> QED BY <3>1, <3>2, ImagesFacts DEF SeenOk, RowOk
  <2>5. t = "check" => db'.run \in {"STOPPED", "DELETED"}
    BY <1>1, <2>1, CheckStopped DEF Resting
  <2>6. ThreadOk(t, w)'
    BY <2>3, <2>4, <2>5, NextPlaceOk
  <2>7. CalmFor(t)
    BY <1>1, <2>1, Still, CalmForAll
  <2> QED BY <1>2, <2>3, <2>6, <2>7, Joined
<1> QED BY <1>3, <1>4

-----------------------------------------------------------------------------
(* The actions of a thread at an image that only move the thread *)

\* The thread goes from one place at its image to another, with what it read.
Moved(t, q, pc, ans) ==
  /\ q = [thr[t] EXCEPT !.pc = pc, !.ans = ans]
  /\ q.pc = pc /\ q.ans = ans /\ q.img = Img(t) /\ q.view = thr[t].view
  /\ ViewOk(q)

LEMMA StaysAtImage ==
  ASSUME BatchInv, NEW t \in Threads, thr[t].pc \in AtImage,
         NEW pc \in AtImage, NEW ans \in {"none", "SUCCEEDED", "FAILED", "UNKNOWN", "DELETED"}
  PROVE  \E q \in Workers : Moved(t, q, pc, ans)
<1>1. PICK q \in Workers : q = [thr[t] EXCEPT !.pc = pc, !.ans = ans]
  <2>1. [thr[t] EXCEPT !.pc = pc] \in Workers
    BY OwnWorker, WorkerMoves DEF AtImage, Pcs
  <2> QED BY <2>1, WorkerMoves
<1>2. q.pc = pc /\ q.ans = ans /\ q.img = Img(t) /\ q.view = thr[t].view
  BY <1>1, OwnWorker DEF Workers, Img
<1>3. ViewOk(q)
  BY <1>2, OwnWorker DEF ThreadOk, ViewOk, Img
<1> QED BY <1>1, <1>2, <1>3 DEF Moved

LEMMA SameAnswer ==
  ASSUME BatchInv, NEW t \in Threads
  PROVE  /\ thr[t].ans \in {"none", "SUCCEEDED", "FAILED", "UNKNOWN", "DELETED"}
         /\ \A pc : [thr[t] EXCEPT !.pc = pc] = [thr[t] EXCEPT !.pc = pc, !.ans = thr[t].ans]
BY OwnWorker DEF Workers

LEMMA ReadyOk ==
  ASSUME BatchInv, NEW t \in Threads, Ready(t)
  PROVE  BatchInv'
<1>1. /\ thr[t].pc = "ready" /\ thr[t].pc \in AtImage /\ thr[t].pc \notin Resting
      /\ UNCHANGED <<db, posts, rt>>
  BY DEF Ready, At, Resting, AtImage
<1>2. sys' \in Bounds
  BY FaultTyped DEF Ready, BatchInv, ActorsTyped
<1>3. CASE \E how \in {"bad", "unknown"} : thr' = Trouble(t, how)
  BY <1>1, <1>2, <1>3, Refused
<1>4. ASSUME NEW pc \in {"mark", "lose", "skip"}, thr' = Go(t, pc), pc = "skip" \/ db.run = "RUNNING"
      PROVE  BatchInv'
  <2>1. PICK q \in Workers : Moved(t, q, pc, thr[t].ans)
    <3>1. pc \in AtImage
      BY DEF AtImage
    <3> QED BY <1>1, <3>1, StaysAtImage, SameAnswer
  <2>2. thr' = [thr EXCEPT ![t] = q]
    BY <1>4, <2>1, SameAnswer DEF Go, BatchInv, ActorsTyped, Moved
  <2>3. PlaceOk(q)
    BY <1>1, <2>1, OwnWorker DEF ThreadOk, PlaceOk, Img, Moved
  <2>4. t = "check" => CheckOk(q)
    BY <1>1, <1>4, <2>1, CheckStopped DEF CheckOk, Sending, Resting, Moved
  <2> QED BY <1>1, <1>2, <2>1, <2>2, <2>3, <2>4, Walked DEF ThreadOk, Moved
<1> QED BY <1>3, <1>4 DEF Ready

LEMMA GiveUpOk ==
  ASSUME BatchInv, NEW t \in Threads, GiveUp(t)
  PROVE  BatchInv'
<1>1. /\ thr[t].pc = "wait" /\ thr[t].pc \in AtImage /\ thr' = Go(t, "ask")
      /\ UNCHANGED <<db, posts, rt>> /\ sys' \in Bounds
  BY DEF GiveUp, At, AtImage, BatchInv, ActorsTyped
<1>2. PICK q \in Workers : Moved(t, q, "ask", thr[t].ans)
  <2>1. "ask" \in AtImage
    BY DEF AtImage
  <2> QED BY <1>1, <2>1, StaysAtImage, SameAnswer
<1>3. thr' = [thr EXCEPT ![t] = q]
  BY <1>1, <1>2, SameAnswer DEF Go, BatchInv, ActorsTyped, Moved
<1>4. PlaceOk(q)
  BY <1>1, <1>2, OwnWorker DEF ThreadOk, PlaceOk, Img, Moved, Sent
<1>5. t # "check"
  BY <1>1, OwnWorker DEF ThreadOk, CheckOk, Sending
<1> QED BY <1>1, <1>2, <1>3, <1>4, <1>5, Walked DEF ThreadOk, Moved

LEMMA AskOk ==
  ASSUME BatchInv, NEW t \in Threads, Lookup(t)
  PROVE  BatchInv'
<1>1. /\ thr[t].pc = "ask" /\ thr[t].pc \in AtImage /\ thr[t].pc \notin Resting
      /\ UNCHANGED <<db, posts, rt>> /\ sys' \in Bounds
  BY DEF Lookup, At, AtImage, Resting, BatchInv, ActorsTyped
<1>2. CASE thr' = Trouble(t, "unknown")
  BY <1>1, <1>2, Refused
<1>3. CASE thr' = [Go(t, "got") EXCEPT ![t].ans = rt.rcpt[Img(t)]]
  <2>1. PICK a \in Receipts : a = rt.rcpt[Img(t)]
    BY OwnWorker DEF BatchInv, RecordsInv, TypeInv, Runtimes, Img
  <2>2. PICK q \in Workers : Moved(t, q, "got", a)
    <3>1. "got" \in AtImage /\ a \in {"none", "SUCCEEDED", "FAILED", "UNKNOWN", "DELETED"}
      BY DEF AtImage, Receipts
    <3> QED BY <1>1, <3>1, StaysAtImage
  <2>3. thr' = [thr EXCEPT ![t] = q]
    BY <1>3, <2>1, <2>2, OwnWorker DEF Go, BatchInv, ActorsTyped, Moved, Workers
  <2>4. PlaceOk(q)
    BY <1>1, <2>1, <2>2, OwnWorker DEF ThreadOk, PlaceOk, Img, Moved, Sent
  <2>5. t = "check" => CheckOk(q)
    BY <1>1, <2>2, CheckStopped DEF CheckOk, Sending, Resting, Moved
  <2> QED BY <1>1, <2>2, <2>3, <2>4, <2>5, Walked DEF ThreadOk, Moved
<1> QED BY <1>2, <1>3 DEF Lookup

\* The request is sent: the row says so, and the runtime has not seen it.
LEMMA PostOk ==
  ASSUME BatchInv, NEW t \in Threads, Post(t)
  PROVE  BatchInv'
<1>1. /\ thr[t].pc = "post" /\ thr[t].pc \in AtImage /\ thr' = Go(t, "wait")
      /\ posts' = posts \cup {Img(t)} /\ UNCHANGED <<db, rt>> /\ sys' \in Bounds
  BY DEF Post, At, AtImage, BatchInv, ActorsTyped
<1>2. PICK i \in Images : /\ i = Img(t) /\ db.item[i].st \in Sent /\ rt.rcpt[i] = "none"
                          /\ thr[t].view[i].st = "DISPATCHED"
  BY <1>1, OwnWorker DEF ThreadOk, PlaceOk, Img, Moved
<1>3. t = "drive"
  BY <1>1, OwnWorker DEF ThreadOk, CheckOk, Sending, Threads
<1>4. db.run # "DELETED"
  BY <1>2 DEF BatchInv, RecordsInv, DeletedInv, Sent, Unresolved
<1>5. RecordsInv'
  <2>1. RowsInv'
    <3>1. \A k \in Images : RowOk(k, db.item[k]) /\ (k # i => (k \in posts') = (k \in posts))
      BY <1>1, <1>2 DEF BatchInv, RecordsInv, RowsInv
    <3>2. RowOk(i, db.item[i])'
      BY <1>1, <1>2, <3>1 DEF RowOk, Sent
    <3>3. \A k \in Images : RowOk(k, db.item[k])'
      <4> SUFFICES ASSUME NEW k \in Images, k # i PROVE RowOk(k, db.item[k])'
        BY <3>2
      <4> QED BY <1>1, <3>1 DEF RowOk
    <3> QED BY <1>1, <3>3 DEF BatchInv, RecordsInv, RowsInv
  <2>2. TypeInv' /\ OrderInv' /\ FlightInv' /\ ResultInv' /\ DeletedInv'
    BY <1>1, <1>2, <1>4 DEF BatchInv, RecordsInv, TypeInv, OrderInv, FlightInv, ResultInv,
       DeletedInv, Public
  <2> QED BY <2>1, <2>2 DEF RecordsInv
<1>6. CalmFor(t)
  <2> SUFFICES ASSUME NEW u \in Threads \ {t}, NEW w \in Workers, w = thr[u]
               PROVE  ThreadOk(u, w)'
    BY <1>5 DEF CalmFor
  <2>1. ThreadOk(u, w) /\ CheckOk(w) /\ u = "check"
    BY <1>3 DEF BatchInv, ThreadsInv, ThreadOk, Threads
  <2> QED BY SMTT(30), <1>1, <2>1 DEF ThreadOk, ViewOk, SeenOk, PlaceOk, CheckOk, Sending
<1>7. PICK q \in Workers : Moved(t, q, "wait", thr[t].ans)
  <2>1. "wait" \in AtImage
    BY DEF AtImage
  <2> QED BY <1>1, <2>1, StaysAtImage, SameAnswer
<1>8. thr' = [thr EXCEPT ![t] = q]
  BY <1>1, <1>7, SameAnswer DEF Go, BatchInv, ActorsTyped, Moved
<1>9. ThreadOk(t, q)'
  BY SMTT(30), <1>1, <1>2, <1>3, <1>7 DEF ThreadOk, ViewOk, SeenOk, PlaceOk, Moved
<1> QED BY <1>1, <1>6, <1>8, <1>9, Joined

-----------------------------------------------------------------------------
(* The actions of a thread that write the row of its image *)

LEMMA CurrentRow ==
  ASSUME BatchInv, NEW t \in Threads, thr[t].pc \in AtImage, NEW s, Current(t, s)
  PROVE  /\ Img(t) \in Images /\ Row(t) = Seen(t) /\ Seen(t) \in Items
         /\ RowOk(Img(t), Seen(t)) /\ SeenOk(Img(t), Seen(t))
         /\ s \in Allowed[Seen(t).st]
         /\ \A k \in Images : k < Img(t) => db.item[k].st \in Final
<1>1. Img(t) \in Images /\ ThreadOk(t, thr[t]) /\ thr[t].view \in [Images -> Items]
  BY OwnWorker DEF Img, Workers
<1>2. \A k \in Images : SeenOk(k, thr[t].view[k]) /\ (k < Img(t) => thr[t].view[k].st \in Final)
  BY <1>1 DEF ThreadOk, ViewOk, Img
<1>3. Row(t) = Seen(t)
  BY <1>1, <1>2 DEF Current, SeenOk, Row, Seen, Img
<1>4. RowOk(Img(t), Seen(t))
  BY <1>1, <1>3 DEF BatchInv, RecordsInv, RowsInv, Row
<1>5. \A k \in Images : k < Img(t) => db.item[k].st \in Final
  BY <1>2 DEF SeenOk
<1>6. SeenOk(Img(t), Seen(t)) /\ Seen(t) \in Items
  BY <1>1, <1>2 DEF Seen, Img
<1> QED BY <1>1, <1>3, <1>4, <1>5, <1>6 DEF Current

LEMMA UpdatedTyped ==
  ASSUME BatchInv, NEW t \in Threads, NEW s \in ItemStates, NEW rcpt \in {"none", "SUCCEEDED", "FAILED"},
         NEW why \in {"none", "INPUT_UNAVAILABLE", "TC4_INFERENCE_FAILED"}
  PROVE  /\ Updated(t, s, rcpt, why) \in Items
         /\ Updated(t, s, rcpt, why).st = s
         /\ Updated(t, s, rcpt, why).ver = Seen(t).ver + 1
         /\ Updated(t, s, rcpt, why).rcpt = rcpt
         /\ Updated(t, s, rcpt, why).why = why
<1>1. Seen(t).ver \in Nat
  BY OwnWorker DEF Seen, Img, Workers, Items
<1> QED BY <1>1 DEF Updated, Items

LEMMA TurnCalm ==
  ASSUME BatchInv, NEW t, NEW i, NEW item, Turn(t, i, item),
         \A k \in Images : k < i => db.item[k].st \in Final
  PROVE  CalmFor(t) /\ db'.run = db.run
<1>1. RecordsInv'
  BY TurnedRecords
<1>2. \A u \in Threads \ {t} : \A w \in Workers : w = thr[u] => ThreadOk(u, w)'
  BY TurnedOthers
<1> QED BY <1>1, <1>2, TurnedRows DEF CalmFor

\* Either the update is refused or fails, or the row has taken a step.
LEMMA UpdateSplit ==
  ASSUME BatchInv, NEW t \in Threads, thr[t].pc \in AtImage, NEW s \in ItemStates,
         NEW rcpt \in {"none", "SUCCEEDED", "FAILED"},
         NEW why \in {"none", "INPUT_UNAVAILABLE", "TC4_INFERENCE_FAILED"}, NEW next,
         Update(t, s, rcpt, why, next), UNCHANGED <<posts, rt>>,
         NEW item, item = Updated(t, s, rcpt, why),
         Current(t, s) => RowOk(Img(t), item), s = "NOT_DISPATCHED" => thr[t].pc = "back"
  PROVE  \/ BatchInv'
         \/ /\ Current(t, s) /\ Turn(t, Img(t), item) /\ CalmFor(t) /\ db'.run = db.run
            /\ thr' = [next EXCEPT ![t].view[Img(t)] = item] /\ sys' \in Bounds
<1>1. thr[t].pc \notin Resting /\ sys' \in Bounds
  BY FaultTyped DEF AtImage, Resting, Update, Write, BatchInv, ActorsTyped
<1>2. ASSUME Current(t, s), Fenced(t, s = "DISPATCHED"), db' = [db EXCEPT !.item[Img(t)] = item]
      PROVE  Turn(t, Img(t), item) /\ CalmFor(t) /\ db'.run = db.run
  <2>1. Turn(t, Img(t), item)
    <3>1. db.run # "DELETED"
      BY <1>2 DEF Fenced, Owns, Late
    <3>2. item \in Items /\ item.st = s /\ item.ver = Seen(t).ver + 1
      BY UpdatedTyped
    <3>3. Img(t) \in Images /\ Row(t) = Seen(t) /\ s \in Allowed[Seen(t).st]
      BY <1>2, CurrentRow
    <3> QED BY <1>2, <3>1, <3>2, <3>3 DEF Turn, Row
  <2> QED BY <1>2, <2>1, CurrentRow, TurnCalm
<1>3. \/ /\ Current(t, s) /\ Fenced(t, s = "DISPATCHED")
         /\ db' = [db EXCEPT !.item[Img(t)] = item]
         /\ thr' = [next EXCEPT ![t].view[Img(t)] = item] \/ thr' = Trouble(t, "db")
      \/ /\ UNCHANGED db
         /\ thr' = Trouble(t, "db") \/ thr' = Trouble(t, "bad")
  BY DEF Update, Write
<1>4. CASE /\ Current(t, s) /\ Fenced(t, s = "DISPATCHED")
           /\ db' = [db EXCEPT !.item[Img(t)] = item]
           /\ thr' = [next EXCEPT ![t].view[Img(t)] = item]
  BY <1>1, <1>2, <1>4
<1>5. CASE /\ Current(t, s) /\ Fenced(t, s = "DISPATCHED")
           /\ db' = [db EXCEPT !.item[Img(t)] = item] /\ thr' = Trouble(t, "db")
  BY <1>1, <1>2, <1>5, Refused
<1>6. CASE UNCHANGED db /\ (thr' = Trouble(t, "db") \/ thr' = Trouble(t, "bad"))
  BY <1>1, <1>6, Refused
<1> QED BY <1>3, <1>4, <1>5, <1>6

\* The rows that a thread goes by, after it has written one of them.
LEMMA TurnedView ==
  ASSUME BatchInv, NEW t \in Threads, NEW item, Turn(t, Img(t), item)
  PROVE  \E view \in [Images -> Items] :
           /\ view = [thr[t].view EXCEPT ![Img(t)] = item]
           /\ view[Img(t)] = item
           /\ \A k \in Images : /\ SeenOk(k, view[k])'
                                /\ k # Img(t) => view[k] = thr[t].view[k]
                                /\ k < Img(t) => view[k].st \in Final
<1>1. thr[t].view \in [Images -> Items] /\ Img(t) \in Images /\ item \in Items /\ thr[t].pc \in AtImage
  BY OwnWorker DEF Img, Workers, Turn
<1>2. PICK view \in [Images -> Items] : view = [thr[t].view EXCEPT ![Img(t)] = item]
  BY <1>1
<1>3. \A k \in Images : SeenOk(k, thr[t].view[k]) /\ (k < Img(t) => thr[t].view[k].st \in Final)
  BY <1>1, OwnWorker DEF ThreadOk, ViewOk, Img
<1>4. PICK i \in Images : i = Img(t)
  BY <1>1
<1>5. \A k \in Images : SeenOk(k, view[k])'
  <2> SUFFICES ASSUME NEW k \in Images PROVE SeenOk(k, view[k])'
    OBVIOUS
  <2>1. CASE k = i
    BY <2>1, <1>1, <1>2, <1>4, WrittenSeen
  <2>2. CASE k # i
    <3>1. view[k] = thr[t].view[k] /\ view[k] \in Items /\ SeenOk(k, view[k])
      BY <1>1, <1>2, <1>3, <1>4, <2>2
    <3> QED BY <3>1, TurnedSeen
  <2> QED BY <2>1, <2>2
<1>6. \A k \in Images : k # Img(t) => view[k] = thr[t].view[k]
  BY <1>1, <1>2
<1>7. view[Img(t)] = item
  BY <1>1, <1>2
<1>8. \A k \in Images : k < Img(t) => view[k].st \in Final
  BY <1>1, <1>3, <1>6, ImagesFacts
<1> QED BY <1>2, <1>5, <1>6, <1>7, <1>8

\* The row is final: the loop goes on.
LEMMA PassesOn ==
  ASSUME BatchInv, NEW t \in Threads, NEW item, Turn(t, Img(t), item), item.st \in Final,
         CalmFor(t), db'.run = db.run, sys' \in Bounds,
         thr' = [Advance(t) EXCEPT ![t].view[Img(t)] = item]
  PROVE  BatchInv'
<1>1. thr[t].view \in [Images -> Items] /\ Img(t) \in Images /\ Img(t) + 1 \in Nat
      /\ item \in Items /\ thr[t].pc \notin Resting
  BY OwnWorker, ImagesFacts DEF Img, Workers, Turn, AtImage, Resting
<1>2. PICK w \in Workers : /\ Advance(t) = [thr EXCEPT ![t] = w]
                           /\ NextPlace(w, thr[t].view, Img(t) + 1)
  BY <1>1, OnwardStep DEF Advance, BatchInv
<1>3. PICK view \in [Images -> Items] :
           /\ view = [thr[t].view EXCEPT ![Img(t)] = item]
           /\ view[Img(t)] = item
           /\ \A k \in Images : /\ SeenOk(k, view[k])'
                                /\ k # Img(t) => view[k] = thr[t].view[k]
                                /\ k < Img(t) => view[k].st \in Final
  BY TurnedView
<1>4. PICK q \in Workers : q = [w EXCEPT !.view = view]
  BY WorkerMoves
<1>5. q.view = view /\ q.pc = w.pc /\ q.img = w.img /\ q.ans = w.ans
  BY <1>4 DEF Workers
<1>6. thr' = [thr EXCEPT ![t] = q]
  <2>1. w.view = thr[t].view
    BY <1>2 DEF NextPlace
  <2> QED BY ZenonT(40), <1>2, <1>3, <1>4, <2>1 DEF BatchInv, ActorsTyped, Workers
<1>7. NextPlace(q, view, Img(t) + 1)
  <2>1. CASE w.pc = "record"
    BY <1>5, <2>1 DEF NextPlace
  <2>2. CASE w.pc # "record"
    <3>1. w.img \in Images /\ w.img >= Img(t) + 1 /\ w.img # Img(t)
      BY <1>1, <1>2, <2>2, ImagesFacts DEF NextPlace
    <3>2. view[w.img] = thr[t].view[w.img]
      BY <1>3, <3>1
    <3>3. \A k \in Images : Img(t) + 1 <= k => k # Img(t)
      BY <1>1, ImagesFacts
    <3> QED BY <1>2, <1>3, <1>5, <2>2, <3>1, <3>2, <3>3 DEF NextPlace
  <2> QED BY <2>1, <2>2
<1>8. \A k \in Images : SeenOk(k, view[k])' /\ (k < Img(t) + 1 => view[k].st \in Final)
  <2>1. \A k \in Images : k < Img(t) + 1 => k < Img(t) \/ k = Img(t)
    BY <1>1, ImagesFacts
  <2> QED BY <1>3, <2>1
<1>9. t = "check" => db'.run \in {"STOPPED", "DELETED"}
  BY <1>1, CheckStopped DEF Resting
<1>10. ThreadOk(t, q)'
  BY <1>1, <1>7, <1>8, <1>9, NextPlaceOk
<1> QED BY <1>6, <1>10, Joined

\* The thread goes on with the image, by the row it wrote.
LEMMA GoesOn ==
  ASSUME BatchInv, NEW t \in Threads, NEW item, Turn(t, Img(t), item), CalmFor(t), db'.run = db.run,
         sys' \in Bounds, NEW pc \in {"post", "fail", "art"},
         thr' = [Go(t, pc) EXCEPT ![t].view[Img(t)] = item],
         pc = "post" => /\ t # "check" /\ item.st = "DISPATCHED"
                        /\ rt.rcpt[Img(t)] = "none" /\ Img(t) \notin posts,
         pc = "fail" => item.st = "RESULT_RECEIVED" /\ item.rcpt = "FAILED",
         pc = "art" => item.st = "RESULT_RECEIVED" /\ item.rcpt = "SUCCEEDED"
  PROVE  BatchInv'
<1>1. thr[t].pc \notin Resting /\ pc \in Pcs /\ pc \in AtImage
  BY DEF Turn, AtImage, Resting, Pcs
<1>2. PICK view \in [Images -> Items] :
           /\ view = [thr[t].view EXCEPT ![Img(t)] = item]
           /\ view[Img(t)] = item
           /\ \A k \in Images : /\ SeenOk(k, view[k])'
                                /\ k # Img(t) => view[k] = thr[t].view[k]
                                /\ k < Img(t) => view[k].st \in Final
  BY TurnedView
<1>3. PICK q \in Workers : q = [thr[t] EXCEPT !.pc = pc, !.view = view]
  <2>1. [thr[t] EXCEPT !.pc = pc] \in Workers
    BY <1>1, OwnWorker, WorkerMoves
  <2> QED BY <2>1, WorkerMoves
<1>4. q.pc = pc /\ q.view = view /\ q.img = Img(t)
  BY <1>3, OwnWorker DEF Workers, Img
<1>5. thr' = [thr EXCEPT ![t] = q]
  BY ZenonT(40), <1>2, <1>3, OwnWorker DEF Go, BatchInv, ActorsTyped, Workers
<1>6. ViewOk(q)'
  BY <1>2, <1>4 DEF ViewOk
<1>7. PlaceOk(q)'
  <2>1. db'.item[Img(t)] = item /\ UNCHANGED <<posts, rt>>
    BY TurnedRows DEF Turn
  <2> QED BY <1>2, <1>4, <2>1 DEF PlaceOk, Sent
<1>8. t = "check" => CheckOk(q)'
  BY <1>1, <1>4, CheckStopped DEF CheckOk, Sending, Resting
<1>9. ThreadOk(t, q)'
  BY <1>6, <1>7, <1>8 DEF ThreadOk
<1> QED BY <1>5, <1>9, Joined

\* The thread leaves the batch open.
LEMMA GivesUp ==
  ASSUME BatchInv, NEW t \in Threads, NEW item, Turn(t, Img(t), item), CalmFor(t), db'.run = db.run,
         sys' \in Bounds, thr' = [Trouble(t, "unknown") EXCEPT ![t].view[Img(t)] = item]
  PROVE  BatchInv'
<1>1. thr[t].pc \notin Resting /\ item \in Items /\ Img(t) \in Images
  BY DEF Turn, AtImage, Resting
<1>2. PICK pc \in {"undo", "repair"} :
         thr' = [[thr EXCEPT ![t].how = "unknown", ![t].pc = pc] EXCEPT ![t].view[Img(t)] = item]
  BY DEF Trouble
<1>3. PICK q \in Workers :
         q = [[thr[t] EXCEPT !.how = "unknown", !.pc = pc] EXCEPT !.view[Img(t)] = item]
  <2>1. PICK v \in Workers : v = [thr[t] EXCEPT !.how = "unknown"]
    BY OwnWorker, WorkerMoves
  <2>2. PICK x \in Workers : x = [v EXCEPT !.pc = pc]
    BY WorkerMoves DEF Pcs
  <2>3. x = [thr[t] EXCEPT !.how = "unknown", !.pc = pc]
    BY <2>1, <2>2, OwnWorker DEF Workers
  <2> QED BY <1>1, <2>3, ViewTyped
<1>4. q.pc = pc /\ pc \in Away
  <2>1. pc \in Away
    BY DEF Away, Pcs, AtImage
  <2> QED BY <1>3, <2>1, OwnWorker DEF Workers
<1>5. thr' = [thr EXCEPT ![t] = q]
  BY ZenonT(40), <1>2, <1>3, OwnWorker DEF BatchInv, ActorsTyped, Workers
<1>6. t = "check" => db'.run \in {"STOPPED", "DELETED"}
  BY <1>1, CheckStopped DEF Resting
<1> QED BY <1>4, <1>5, <1>6, WentAway

LEMMA SkipOk ==
  ASSUME BatchInv, NEW t \in Threads, Skip(t)
  PROVE  BatchInv'
<1>1. thr[t].pc = "skip" /\ thr[t].pc \in AtImage /\ UNCHANGED <<posts, rt>>
      /\ Update(t, "SKIPPED", "none", "none", Advance(t))
  BY DEF Skip, At, AtImage
<1>2. PICK item \in Items : /\ item = Updated(t, "SKIPPED", "none", "none")
                           /\ item.st = "SKIPPED" /\ item.rcpt = "none" /\ item.why = "none"
  BY UpdatedTyped DEF ItemStates, Final
<1>3. Current(t, "SKIPPED") => RowOk(Img(t), item)
  <2> SUFFICES ASSUME Current(t, "SKIPPED") PROVE RowOk(Img(t), item)
    OBVIOUS
  <2>1. RowOk(Img(t), Seen(t)) /\ Seen(t).st = "NOT_DISPATCHED"
    BY <1>1, CurrentRow, OwnWorker DEF ThreadOk, PlaceOk, Seen, Img
  <2> QED BY <1>2, <2>1 DEF RowOk, Sent
<1>4. \/ BatchInv'
      \/ /\ Turn(t, Img(t), item) /\ CalmFor(t) /\ db'.run = db.run
         /\ thr' = [Advance(t) EXCEPT ![t].view[Img(t)] = item] /\ sys' \in Bounds
  BY <1>1, <1>2, <1>3, UpdateSplit DEF ItemStates, Final
<1>5. item.st \in Final
  BY <1>2 DEF Final
<1> QED BY <1>4, <1>5, PassesOn

LEMMA LoseOk ==
  ASSUME BatchInv, NEW t \in Threads, Lose(t)
  PROVE  BatchInv'
<1>1. thr[t].pc = "lose" /\ thr[t].pc \in AtImage /\ UNCHANGED <<posts, rt>>
      /\ Update(t, "FAILED", "none", "INPUT_UNAVAILABLE", Advance(t))
  BY DEF Lose, At, AtImage
<1>2. PICK item \in Items : /\ item = Updated(t, "FAILED", "none", "INPUT_UNAVAILABLE")
                           /\ item.st = "FAILED" /\ item.rcpt = "none"
                           /\ item.why = "INPUT_UNAVAILABLE"
  BY UpdatedTyped DEF ItemStates, Final
<1>3. Current(t, "FAILED") => RowOk(Img(t), item)
  <2> SUFFICES ASSUME Current(t, "FAILED") PROVE RowOk(Img(t), item)
    OBVIOUS
  <2>1. RowOk(Img(t), Seen(t)) /\ Seen(t).st = "NOT_DISPATCHED"
    BY <1>1, CurrentRow, OwnWorker DEF ThreadOk, PlaceOk, Seen, Img
  <2> QED BY <1>2, <2>1 DEF RowOk, Sent
<1>4. \/ BatchInv'
      \/ /\ Turn(t, Img(t), item) /\ CalmFor(t) /\ db'.run = db.run
         /\ thr' = [Advance(t) EXCEPT ![t].view[Img(t)] = item] /\ sys' \in Bounds
  BY <1>1, <1>2, <1>3, UpdateSplit DEF ItemStates, Final
<1>5. item.st \in Final
  BY <1>2 DEF Final
<1> QED BY <1>4, <1>5, PassesOn

LEMMA MarkOk ==
  ASSUME BatchInv, NEW t \in Threads, Mark(t)
  PROVE  BatchInv'
<1>1. thr[t].pc = "mark" /\ thr[t].pc \in AtImage /\ UNCHANGED <<posts, rt>>
      /\ Update(t, "DISPATCHED", "none", "none", Go(t, "post"))
  BY DEF Mark, At, AtImage
<1>2. PICK item \in Items : /\ item = Updated(t, "DISPATCHED", "none", "none")
                           /\ item.st = "DISPATCHED" /\ item.rcpt = "none" /\ item.why = "none"
  BY UpdatedTyped DEF ItemStates, Unresolved
<1>3. Current(t, "DISPATCHED") => RowOk(Img(t), item)
  BY <1>2 DEF RowOk
<1>4. \/ BatchInv'
      \/ /\ Current(t, "DISPATCHED") /\ Turn(t, Img(t), item) /\ CalmFor(t) /\ db'.run = db.run
         /\ thr' = [Go(t, "post") EXCEPT ![t].view[Img(t)] = item] /\ sys' \in Bounds
  BY <1>1, <1>2, <1>3, UpdateSplit DEF ItemStates, Unresolved
<1>5. Current(t, "DISPATCHED") => rt.rcpt[Img(t)] = "none" /\ Img(t) \notin posts
  <2> SUFFICES ASSUME Current(t, "DISPATCHED") PROVE rt.rcpt[Img(t)] = "none" /\ Img(t) \notin posts
    OBVIOUS
  <2>1. RowOk(Img(t), Seen(t)) /\ Seen(t).st = "NOT_DISPATCHED"
    BY <1>1, CurrentRow, OwnWorker DEF ThreadOk, PlaceOk, Seen, Img
  <2> QED BY <2>1 DEF RowOk
<1>6. t # "check"
  BY <1>1, OwnWorker DEF ThreadOk, CheckOk, Sending
<1> QED BY <1>2, <1>4, <1>5, <1>6, GoesOn

LEMMA BackOk ==
  ASSUME BatchInv, NEW t \in Threads, Back(t)
  PROVE  BatchInv'
<1>1. thr[t].pc = "back" /\ thr[t].pc \in AtImage /\ UNCHANGED <<posts, rt>>
      /\ Update(t, "NOT_DISPATCHED", "none", "none", Trouble(t, "unknown"))
  BY DEF Back, At, AtImage
<1>2. PICK item \in Items : /\ item = Updated(t, "NOT_DISPATCHED", "none", "none")
                           /\ item.st = "NOT_DISPATCHED" /\ item.rcpt = "none" /\ item.why = "none"
  BY UpdatedTyped DEF ItemStates
<1>3. Current(t, "NOT_DISPATCHED") => RowOk(Img(t), item)
  <2>1. rt.rcpt[Img(t)] = "none" /\ Img(t) \notin posts
    BY <1>1, OwnWorker DEF ThreadOk, PlaceOk, Img
  <2> QED BY <1>2, <2>1 DEF RowOk, Sent
<1>4. \/ BatchInv'
      \/ /\ Turn(t, Img(t), item) /\ CalmFor(t) /\ db'.run = db.run
         /\ thr' = [Trouble(t, "unknown") EXCEPT ![t].view[Img(t)] = item] /\ sys' \in Bounds
  BY <1>1, <1>2, <1>3, UpdateSplit DEF ItemStates
<1> QED BY <1>4, GivesUp

\* A receipt is saved before anything is made of it.
LEMMA ReceiveOk ==
  ASSUME BatchInv, NEW t \in Threads, Receive(t)
  PROVE  BatchInv'
<1>1. /\ thr[t].pc = "got" /\ thr[t].pc \in AtImage /\ thr[t].pc \notin Resting
      /\ UNCHANGED <<posts, rt>>
  BY DEF Receive, At, AtImage, Resting
<1>2. /\ thr[t].ans \in {"none", "SUCCEEDED", "FAILED", "UNKNOWN", "DELETED"}
      /\ Img(t) \in Images
      /\ \/ Seen(t).st \in Sent
         \/ Seen(t).st = "RESULT_RECEIVED" /\ thr[t].ans = Seen(t).rcpt
      /\ thr[t].ans \in Ended => rt.rcpt[Img(t)] \in {thr[t].ans, "DELETED"}
  BY <1>1, OwnWorker, SameAnswer DEF ThreadOk, PlaceOk, Seen, Img
<1>3. CASE thr' = Trouble(t, "unknown") /\ UNCHANGED <<db, sys>>
  BY <1>1, <1>3, Refused DEF BatchInv, ActorsTyped
<1>4. CASE Update(t, "OUTCOME_UNKNOWN", "none", "none", Trouble(t, "unknown"))
  <2>1. PICK item \in Items : /\ item = Updated(t, "OUTCOME_UNKNOWN", "none", "none")
                             /\ item.st = "OUTCOME_UNKNOWN" /\ item.rcpt = "none" /\ item.why = "none"
    BY UpdatedTyped DEF ItemStates, Unresolved
  <2>2. RowOk(Img(t), item)
    BY <2>1 DEF RowOk
  <2>3. \/ BatchInv'
        \/ /\ Turn(t, Img(t), item) /\ CalmFor(t) /\ db'.run = db.run
           /\ thr' = [Trouble(t, "unknown") EXCEPT ![t].view[Img(t)] = item] /\ sys' \in Bounds
    BY <1>1, <1>4, <2>1, <2>2, UpdateSplit DEF ItemStates, Unresolved
  <2> QED BY <2>3, GivesUp
<1>5. ASSUME thr[t].ans \in Ended,
             NEW pc \in {"fail", "art"}, pc = IF thr[t].ans = "FAILED" THEN "fail" ELSE "art",
             Update(t, "RESULT_RECEIVED", thr[t].ans, "none", Go(t, pc))
      PROVE  BatchInv'
  <2>1. PICK item \in Items : /\ item = Updated(t, "RESULT_RECEIVED", thr[t].ans, "none")
                             /\ item.st = "RESULT_RECEIVED" /\ item.rcpt = thr[t].ans /\ item.why = "none"
    BY <1>5, UpdatedTyped DEF ItemStates, Unresolved, Ended
  <2>2. RowOk(Img(t), item)
    BY <1>2, <1>5, <2>1 DEF RowOk, Sent
  <2>3. \/ BatchInv'
        \/ /\ Turn(t, Img(t), item) /\ CalmFor(t) /\ db'.run = db.run
           /\ thr' = [Go(t, pc) EXCEPT ![t].view[Img(t)] = item] /\ sys' \in Bounds
    <3>1. "RESULT_RECEIVED" \in ItemStates /\ thr[t].ans \in {"none", "SUCCEEDED", "FAILED"}
      BY <1>5 DEF ItemStates, Unresolved, Ended
    <3> QED BY <1>1, <1>5, <2>1, <2>2, <3>1, UpdateSplit
  <2> QED BY SMTT(30), <1>5, <2>1, <2>3, GoesOn DEF Ended
<1>6. ASSUME thr[t].ans \in Ended, Seen(t).st = "RESULT_RECEIVED", UNCHANGED <<db, sys>>,
             NEW pc \in {"fail", "art"}, pc = IF thr[t].ans = "FAILED" THEN "fail" ELSE "art",
             thr' = Go(t, pc)
      PROVE  BatchInv'
  <2>1. PICK q \in Workers : Moved(t, q, pc, thr[t].ans)
    <3>1. pc \in AtImage
      BY DEF AtImage
    <3> QED BY <1>1, <3>1, StaysAtImage, SameAnswer
  <2>2. thr' = [thr EXCEPT ![t] = q]
    BY <1>6, <2>1, SameAnswer DEF Go, BatchInv, ActorsTyped, Moved
  <2>3. PlaceOk(q)
    BY <1>2, <1>6, <2>1 DEF PlaceOk, Img, Seen, Moved, Sent, Ended
  <2>4. t = "check" => CheckOk(q)
    BY <1>1, <2>1, CheckStopped DEF CheckOk, Sending, Resting, Moved
  <2> QED BY <1>1, <1>6, <2>1, <2>2, <2>3, <2>4, Walked DEF ThreadOk, Moved, BatchInv, ActorsTyped
<1>7. \/ thr' = Trouble(t, "unknown") /\ UNCHANGED <<db, sys>>
      \/ Update(t, "OUTCOME_UNKNOWN", "none", "none", Trouble(t, "unknown"))
      \/ /\ thr[t].ans \in Ended
         /\ \E pc \in {"fail", "art"} :
              /\ pc = IF thr[t].ans = "FAILED" THEN "fail" ELSE "art"
              /\ \/ /\ Seen(t).st = "RESULT_RECEIVED" /\ UNCHANGED <<db, sys>>
                    /\ thr' = Go(t, pc)
                 \/ Update(t, "RESULT_RECEIVED", thr[t].ans, "none", Go(t, pc))
  <2>1. CASE thr[t].ans \in {"none", "UNKNOWN"}
    BY <2>1 DEF Receive
  <2>2. CASE thr[t].ans = "DELETED"
    BY <2>2 DEF Receive
  <2>3. CASE thr[t].ans \in Ended
    <3>1. PICK pc \in {"fail", "art"} : pc = IF thr[t].ans = "FAILED" THEN "fail" ELSE "art"
      OBVIOUS
    <3>2. thr[t].ans \notin {"none", "UNKNOWN", "DELETED"}
      BY <2>3 DEF Ended
    <3>3. \/ Seen(t).st = "RESULT_RECEIVED" /\ UNCHANGED <<db, sys>> /\ thr' = Go(t, pc)
          \/ Update(t, "RESULT_RECEIVED", thr[t].ans, "none", Go(t, pc))
      BY <3>1, <3>2 DEF Receive
    <3> QED BY <2>3, <3>1, <3>3
  <2> QED BY <1>2, <2>1, <2>2, <2>3 DEF Ended
<1> QED BY <1>3, <1>4, <1>5, <1>6, <1>7

LEMMA FailOk ==
  ASSUME BatchInv, NEW t \in Threads, Fail(t)
  PROVE  BatchInv'
<1>1. thr[t].pc = "fail" /\ thr[t].pc \in AtImage /\ UNCHANGED <<posts, rt>>
      /\ Update(t, "FAILED", Seen(t).rcpt, "TC4_INFERENCE_FAILED", Trouble(t, "unknown"))
  BY DEF Fail, At, AtImage
<1>2. Seen(t).rcpt = "FAILED" /\ Seen(t).st = "RESULT_RECEIVED"
  BY <1>1, OwnWorker DEF ThreadOk, PlaceOk, Seen, Img
<1>3. PICK item \in Items : /\ item = Updated(t, "FAILED", Seen(t).rcpt, "TC4_INFERENCE_FAILED")
                           /\ item.st = "FAILED" /\ item.rcpt = "FAILED"
                           /\ item.why = "TC4_INFERENCE_FAILED"
  BY <1>2, UpdatedTyped DEF ItemStates, Final
<1>4. Current(t, "FAILED") => RowOk(Img(t), item)
  <2> SUFFICES ASSUME Current(t, "FAILED") PROVE RowOk(Img(t), item)
    OBVIOUS
  <2>1. rt.rcpt[Img(t)] \in {"FAILED", "DELETED"}
    BY <1>1, <1>2, CurrentRow DEF SeenOk
  <2> QED BY <1>3, <2>1 DEF RowOk, Sent
<1>5. \/ BatchInv'
      \/ /\ Turn(t, Img(t), item) /\ CalmFor(t) /\ db'.run = db.run
         /\ thr' = [Trouble(t, "unknown") EXCEPT ![t].view[Img(t)] = item] /\ sys' \in Bounds
  BY <1>1, <1>2, <1>3, <1>4, UpdateSplit DEF ItemStates, Final
<1> QED BY <1>5, GivesUp

LEMMA CloseOk ==
  ASSUME BatchInv, NEW t \in Threads, Close(t)
  PROVE  BatchInv'
<1>1. thr[t].pc = "close" /\ thr[t].pc \in AtImage /\ UNCHANGED <<posts, rt>>
      /\ Update(t, "SUCCEEDED", Seen(t).rcpt, "none", Advance(t))
  BY DEF Close, At, AtImage
<1>2. Seen(t).rcpt = "SUCCEEDED" /\ db.asset[Img(t)] = 2
  BY <1>1, OwnWorker DEF ThreadOk, PlaceOk, Seen, Img
<1>3. PICK item \in Items : /\ item = Updated(t, "SUCCEEDED", Seen(t).rcpt, "none")
                           /\ item.st = "SUCCEEDED" /\ item.rcpt = "SUCCEEDED" /\ item.why = "none"
  BY <1>2, UpdatedTyped DEF ItemStates, Final
<1>4. Current(t, "SUCCEEDED") => RowOk(Img(t), item)
  <2> SUFFICES ASSUME Current(t, "SUCCEEDED") PROVE RowOk(Img(t), item)
    OBVIOUS
  <2>1. rt.rcpt[Img(t)] \in {"SUCCEEDED", "DELETED"}
    BY <1>1, <1>2, CurrentRow DEF SeenOk
  <2> QED BY <1>2, <1>3, <2>1 DEF RowOk, Sent
<1>5. \/ BatchInv'
      \/ /\ Turn(t, Img(t), item) /\ CalmFor(t) /\ db'.run = db.run
         /\ thr' = [Advance(t) EXCEPT ![t].view[Img(t)] = item] /\ sys' \in Bounds
  BY <1>1, <1>2, <1>3, <1>4, UpdateSplit DEF ItemStates, Final
<1>6. item.st \in Final
  BY <1>3 DEF Final
<1> QED BY <1>5, <1>6, PassesOn

\* An asset is stored, or both are there.
LEMMA SaveOk ==
  ASSUME BatchInv, NEW t \in Threads, Save(t)
  PROVE  BatchInv'
<1>1. /\ thr[t].pc = "art" /\ thr[t].pc \in AtImage /\ thr[t].pc \notin Resting
      /\ UNCHANGED <<posts, rt>> /\ Img(t) \in Images
  BY OwnWorker DEF Save, At, AtImage, Resting, Img
<1>2. sys' \in Bounds
  BY FaultTyped DEF Save, Write, BatchInv, ActorsTyped
<1>3. CASE db.asset[Img(t)] = 2 /\ thr' = Go(t, "close") /\ UNCHANGED db
  <2>1. PICK q \in Workers : Moved(t, q, "close", thr[t].ans)
    <3>1. "close" \in AtImage
      BY DEF AtImage
    <3> QED BY <1>1, <3>1, StaysAtImage, SameAnswer
  <2>2. thr' = [thr EXCEPT ![t] = q]
    BY <1>3, <2>1, SameAnswer DEF Go, BatchInv, ActorsTyped, Moved
  <2>3. PlaceOk(q)
    BY <1>1, <1>3, <2>1, OwnWorker DEF ThreadOk, PlaceOk, Img, Moved
  <2>4. t = "check" => CheckOk(q)
    BY <1>1, <2>1, CheckStopped DEF CheckOk, Sending, Resting, Moved
  <2> QED BY <1>1, <1>2, <1>3, <2>1, <2>2, <2>3, <2>4, Walked DEF ThreadOk, Moved
<1>4. CASE UNCHANGED db /\ \E how \in {"unknown", "db", "bad"} : thr' = Trouble(t, how)
  BY <1>1, <1>2, <1>4, Refused
<1>5. CASE /\ db.asset[Img(t)] < 2 /\ db' = [db EXCEPT !.asset[Img(t)] = @ + 1]
           /\ thr' = thr \/ thr' = Trouble(t, "db")
  <2>1. Calm /\ CalmFor(t) /\ db'.run = db.run
    BY <1>1, <1>5, CalmAsset, CalmForAll
  <2>2. CASE thr' = thr
    BY <1>2, <2>1, <2>2, OnlyRecords
  <2>3. CASE thr' = Trouble(t, "db")
    BY <1>1, <1>2, <2>1, <2>3, Refused
  <2> QED BY <1>5, <2>2, <2>3
<1> QED BY <1>3, <1>4, <1>5 DEF Save, Write

-----------------------------------------------------------------------------
(* The actions of a thread after the images *)

LEMMA RecordOk ==
  ASSUME BatchInv, NEW t \in Threads, Record(t)
  PROVE  BatchInv'
<1>1. thr[t].pc \notin Resting /\ UNCHANGED <<posts, rt>>
  BY DEF Record, At, Resting
<1>2. sys' \in Bounds
  BY FaultTyped DEF Record, Write, BatchInv, ActorsTyped
<1>3. \/ /\ \A i \in Images : db.item[i].st \in Final
         /\ db' = [db EXCEPT !.out = Public]
         /\ thr' = Go(t, "commit") \/ thr' = Trouble(t, "db")
      \/ /\ UNCHANGED db
         /\ thr' = Trouble(t, "db") \/ thr' = Trouble(t, "bad")
  BY DEF Record, Write, Public
<1>4. ASSUME \A i \in Images : db.item[i].st \in Final, db' = [db EXCEPT !.out = Public]
      PROVE  CalmFor(t) /\ db'.run = db.run /\ db'.out # NoOutput
  <2>1. db'.out = Public
    BY <1>4 DEF BatchInv, RecordsInv, TypeInv, Rows
  <2> QED BY <1>1, <1>4, <2>1, CalmOutput, CalmForAll, PublicTyped
<1>5. CASE /\ \A i \in Images : db.item[i].st \in Final
           /\ db' = [db EXCEPT !.out = Public] /\ thr' = Go(t, "commit")
  <2>1. PICK q \in Workers : q = [thr[t] EXCEPT !.pc = "commit"]
    BY OwnWorker, WorkerMoves DEF Pcs
  <2>2. thr' = [thr EXCEPT ![t] = q] /\ q.pc = "commit"
    BY <1>5, <2>1, OwnWorker DEF Go, BatchInv, ActorsTyped, Workers
  <2>3. t = "check" => db'.run \in {"STOPPED", "DELETED"}
    BY <1>1, <1>4, <1>5, CheckStopped DEF Resting
  <2>4. ThreadOk(t, q)'
    BY <1>4, <1>5, <2>2, <2>3 DEF ThreadOk, ViewOk, PlaceOk, CheckOk, AtImage, Sending
  <2> QED BY <1>2, <1>4, <1>5, <2>2, <2>4, Joined
<1>6. CASE /\ \A i \in Images : db.item[i].st \in Final
           /\ db' = [db EXCEPT !.out = Public] /\ thr' = Trouble(t, "db")
  BY <1>1, <1>2, <1>4, <1>6, Refused
<1>7. CASE UNCHANGED db /\ (thr' = Trouble(t, "db") \/ thr' = Trouble(t, "bad"))
  BY <1>1, <1>2, <1>7, Refused
<1> QED BY <1>3, <1>5, <1>6, <1>7

LEMMA CommitOk ==
  ASSUME BatchInv, NEW t \in Threads, Commit(t)
  PROVE  BatchInv'
<1>1. /\ thr[t].pc \notin Resting /\ UNCHANGED <<posts, rt>>
      /\ \A i \in Images : db.item[i].st \in Final
      /\ db.out = Public
  <2>1. thr[t].pc = "commit" /\ UNCHANGED <<posts, rt>>
    BY DEF Commit, At
  <2>2. db.out # NoOutput
    BY <2>1, OwnWorker DEF ThreadOk, PlaceOk
  <2> QED BY <2>1, <2>2 DEF Resting, BatchInv, RecordsInv, ResultInv
<1>2. sys' \in Bounds
  BY FaultTyped DEF Commit, Write, BatchInv, ActorsTyped
<1>3. PICK pc \in {"settle", "repair"} :
        pc = IF thr[t].mode \in {"first", "replay"} THEN "settle" ELSE "repair"
  OBVIOUS
<1> DEFINE new == [db EXCEPT !.res = db.out, !.parent = BatchStatus(db.out)]
<1>4. pc \in Away
  BY DEF Away, Pcs, AtImage
<1>5. db' = new => CalmFor(t) /\ db'.run = db.run
  BY <1>1, CalmResult, CalmForAll
<1>6. CalmFor(t) \/ ~UNCHANGED db
  BY <1>1, Still, CalmForAll
<1>7. \/ (db' = new \/ UNCHANGED db) /\ thr' = Go(t, pc)
      \/ (db' = new \/ UNCHANGED db) /\ (thr' = Trouble(t, "db") \/ thr' = Trouble(t, "bad"))
  BY <1>3 DEF Commit, Write
<1> HIDE DEF new
<1>8. CASE thr' = Go(t, pc)
  BY <1>1, <1>2, <1>4, <1>5, <1>6, <1>7, <1>8, WentTo
<1>9. CASE (db' = new \/ UNCHANGED db) /\ (thr' = Trouble(t, "db") \/ thr' = Trouble(t, "bad"))
  BY <1>1, <1>2, <1>5, <1>9, Refused
<1> QED BY <1>7, <1>8, <1>9

\* Whatever the thread says of its invocation, it then repairs, tells or leaves.
LEMMA Closing ==
  ASSUME BatchInv, NEW t \in Threads, thr[t].pc \in {"settle", "undo", "repair"},
         UNCHANGED <<posts, rt>>, sys' \in Bounds,
         NEW v \in {"PENDING", "RUNNING", "SUCCEEDED", "FAILED", "OUTCOME_UNKNOWN"},
         UNCHANGED db \/ db' = [db EXCEPT !.inv = v],
         NEW pc \in {"repair", "leave", "tell"},
         NEW how \in {"none", "unknown", "db", "bad", "FAILED", "RESULT"},
         pc = "tell" => /\ how \in {"unknown", "FAILED", "RESULT"}
                        /\ how = "RESULT" => db.res # NoOutput,
         thr' = [thr EXCEPT ![t].pc = pc, ![t].how = how]
  PROVE  BatchInv'
<1>1. CalmFor(t)
  BY Still, CalmInvocation, CalmForAll
<1>2. db'.res = db.res
  BY DEF BatchInv, RecordsInv, TypeInv, Rows
<1>3. PICK q \in Workers : q = [thr[t] EXCEPT !.pc = pc, !.how = how]
  <2>1. [thr[t] EXCEPT !.pc = pc] \in Workers
    BY OwnWorker, WorkerMoves DEF Pcs
  <2> QED BY <2>1, WorkerMoves
<1>4. thr' = [thr EXCEPT ![t] = q] /\ q.pc = pc /\ q.how = how
  BY <1>3, OwnWorker DEF BatchInv, ActorsTyped, Workers
<1>5. ThreadOk(t, q)'
  BY <1>2, <1>4 DEF ThreadOk, ViewOk, PlaceOk, CheckOk, AtImage, Sending
<1> QED BY <1>1, <1>4, <1>5, Joined

LEMMA SettleOk ==
  ASSUME BatchInv, NEW t \in Threads, Settle(t)
  PROVE  BatchInv'
<1>1. thr[t].pc \in {"settle", "undo", "repair"} /\ UNCHANGED <<posts, rt>>
  BY DEF Settle, At
<1>2. sys' \in Bounds
  BY FaultTyped DEF Settle, BatchInv, ActorsTyped
<1>3. PICK v \in {"SUCCEEDED", "FAILED"} : v = InvStatus(db.res)
  BY StatusTyped DEF BatchInv, RecordsInv, TypeInv, Rows
<1>4. UNCHANGED db \/ db' = [db EXCEPT !.inv = v]
  BY <1>3 DEF Settle
<1>5. CASE thr' = Go(t, "repair")
  <2>1. CalmFor(t) /\ db'.run = db.run
    BY <1>1, <1>4, Still, CalmInvocation, CalmForAll
  <2>2. "repair" \in Away /\ thr[t].pc \notin Resting
    BY DEF Away, Pcs, AtImage, Settle, At, Resting
  <2> QED BY <1>2, <1>5, <2>1, <2>2, WentTo
<1>6. CASE \E how \in {"db", "bad"} : \E pc \in {"repair", "leave"} :
             thr' = [thr EXCEPT ![t].pc = pc, ![t].how = how]
  BY ZenonT(40), <1>1, <1>2, <1>4, <1>6, Closing
<1>7. thr' = Go(t, "repair") \/ \E how \in {"db", "bad"} : \E pc \in {"repair", "leave"} :
             thr' = [thr EXCEPT ![t].pc = pc, ![t].how = how]
  BY DEF Settle
<1> QED BY <1>5, <1>6, <1>7

LEMMA UndoOk ==
  ASSUME BatchInv, NEW t \in Threads, Undo(t)
  PROVE  BatchInv'
<1>1. thr[t].pc \in {"settle", "undo", "repair"} /\ UNCHANGED <<posts, rt>>
  BY DEF Undo, At
<1>2. sys' \in Bounds
  BY FaultTyped DEF Undo, BatchInv, ActorsTyped
<1>3. PICK v \in {"SUCCEEDED", "FAILED", "OUTCOME_UNKNOWN"} : v = Undone(t)
  BY StatusTyped DEF Undone, BatchInv, RecordsInv, TypeInv, Rows
<1>4. UNCHANGED db \/ db' = [db EXCEPT !.inv = v]
  BY <1>3 DEF Undo
<1>5. PICK how \in {thr[t].how, "db", "bad"} : \E pc \in {"repair", "leave"} :
        thr' = [thr EXCEPT ![t].pc = pc, ![t].how = how]
  BY DEF Undo
<1>6. how \in {"none", "unknown", "db", "bad", "FAILED", "RESULT"}
  BY OwnWorker DEF Workers
<1> QED BY ZenonT(40), <1>1, <1>2, <1>4, <1>5, <1>6, Closing

LEMMA RepairOk ==
  ASSUME BatchInv, NEW t \in Threads, Repair(t)
  PROVE  BatchInv'
<1>1. thr[t].pc \in {"settle", "undo", "repair"} /\ UNCHANGED <<posts, rt>>
  BY DEF Repair, At
<1>2. sys' \in Bounds
  BY FaultTyped DEF Repair, BatchInv, ActorsTyped
<1>3. PICK v \in {"SUCCEEDED", "FAILED"} : v = InvStatus(db.res)
  BY StatusTyped DEF BatchInv, RecordsInv, TypeInv, Rows
<1>4. UNCHANGED db \/ db' = [db EXCEPT !.inv = v]
  BY <1>3 DEF Repair
<1>5. Verdict(t) \in {"unknown", "FAILED"}
  BY DEF Verdict
<1>6. CASE db.res = NoOutput
  <2>1. thr' = [thr EXCEPT ![t].pc = "tell", ![t].how = Verdict(t)]
    BY <1>6 DEF Repair
  <2> QED BY <1>1, <1>2, <1>4, <1>5, <2>1, Closing
<1>7. CASE db.res # NoOutput
  <2>1. \/ thr' = [thr EXCEPT ![t].pc = "tell", ![t].how = "RESULT"]
        \/ \E how \in {"db", "bad"} : thr' = [thr EXCEPT ![t].pc = "leave", ![t].how = how]
    BY <1>7 DEF Repair
  <2> QED BY <1>1, <1>2, <1>4, <1>7, <2>1, Closing
<1> QED BY <1>6, <1>7

\* A thread that is done.
LEMMA DoneOk ==
  ASSUME BatchInv, NEW t \in Threads, CalmFor(t), thr' = Done(t), sys' \in Bounds
  PROVE  BatchInv'
<1>1. IdleThread.pc = "idle" /\ "idle" \in Away /\ "idle" \in Resting
  BY DEF IdleThread, Away, Pcs, AtImage, Resting
<1>2. PICK q \in Workers : q = IdleThread
  BY IdleTyped
<1> QED BY <1>1, <1>2, WentAway DEF Done

LEMMA TellOk ==
  ASSUME BatchInv, NEW t \in Threads, Tell(t)
  PROVE  BatchInv'
<1>1. thr[t].pc = "tell" /\ UNCHANGED <<posts, rt>> /\ thr' = Done(t) /\ sys' \in Bounds
  BY DEF Tell, At, BatchInv, ActorsTyped
<1>2. CASE UNCHANGED db
  BY <1>1, <1>2, Still, CalmForAll, DoneOk
<1>3. CASE db' = [db EXCEPT !.obs = thr[t].how] /\ thr[t].how # "unknown"
  <2>1. CASE thr[t].how \in {"FAILED", "RESULT"}
    <3>1. PICK v \in {"FAILED", "RESULT"} : v = thr[t].how
      BY <2>1
    <3>2. v = "RESULT" => db.res # NoOutput
      BY <1>1, <3>1, OwnWorker DEF ThreadOk, PlaceOk
    <3> QED BY <1>1, <1>3, <3>1, <3>2, CalmObservation, CalmForAll, DoneOk
  <2>2. CASE thr[t].how \notin {"FAILED", "RESULT"}
    <3>1. FALSE
      BY <1>1, <1>3, <2>2, OwnWorker DEF ThreadOk, PlaceOk, Workers
    <3> QED BY <3>1
  <2> QED BY <2>1, <2>2
<1>4. CASE db' = [db EXCEPT !.run = "INTERRUPTED"] /\ db.run \in {"RUNNING", "PENDING"}
  <2>1. PICK c \in Nat : c = db.claim
    BY DEF BatchInv, RecordsInv, TypeInv, Rows
  <2>2. db' = [db EXCEPT !.run = "INTERRUPTED", !.claim = c]
    BY <1>4, <2>1 DEF BatchInv, RecordsInv, TypeInv, Rows
  <2> QED BY <1>1, <1>4, <2>2, CalmRun, CalmForAll, DoneOk
<1> QED BY <1>2, <1>3, <1>4 DEF Tell, Owns

LEMMA LeaveOk ==
  ASSUME BatchInv, NEW t \in Threads, Leave(t)
  PROVE  BatchInv'
<1>1. UNCHANGED <<posts, rt>> /\ thr' = Done(t) /\ sys' \in Bounds
  BY DEF Leave, BatchInv, ActorsTyped
<1>2. CASE UNCHANGED db
  BY <1>1, <1>2, Still, CalmForAll, DoneOk
<1>3. ASSUME NEW v \in {"INTERRUPTED", "TERMINATED"}, db' = [db EXCEPT !.run = v],
             db.run = "RUNNING"
      PROVE  BatchInv'
  <2>1. PICK c \in Nat : c = db.claim
    BY DEF BatchInv, RecordsInv, TypeInv, Rows
  <2>2. db' = [db EXCEPT !.run = v, !.claim = c]
    BY <1>3, <2>1 DEF BatchInv, RecordsInv, TypeInv, Rows
  <2> QED BY <1>1, <1>3, <2>2, CalmRun, CalmForAll, DoneOk
<1>4. UNCHANGED db \/ \E v \in {"INTERRUPTED", "TERMINATED"} :
        db' = [db EXCEPT !.run = v] /\ db.run = "RUNNING"
  BY DEF Leave, Owns
<1> QED BY <1>2, <1>3, <1>4

-----------------------------------------------------------------------------
(* The agent run *)

LEMMA AllJoined ==
  ASSUME BatchInv, RecordsInv', thr' \in [Threads -> Workers], sys' \in Bounds,
         \A u \in Threads : \E w \in Workers : w = thr'[u] /\ ThreadOk(u, w)'
  PROVE  BatchInv'
<1>1. ThreadsInv'
  BY DEF ThreadsInv, ThreadOk, ViewOk, SeenOk, PlaceOk, CheckOk
<1> QED BY <1>1 DEF BatchInv, ActorsTyped

LEMMA ClaimTyped ==
  ASSUME BatchInv
  PROVE  /\ db.claim \in Nat /\ sys.claims + 1 \in Nat
         /\ \A v \in {"RUNNING", "PENDING", "INTERRUPTED", "STOPPED", "TERMINATED", "OVER"} :
              [db EXCEPT !.run = v] = [db EXCEPT !.run = v, !.claim = db.claim]
<1>1. db \in Rows /\ sys \in Bounds
  BY DEF BatchInv, RecordsInv, TypeInv, ActorsTyped
<1>2. db.claim \in Nat /\ sys.claims + 1 \in Nat
  BY <1>1 DEF Rows, Bounds
<1>3. ASSUME NEW v PROVE [db EXCEPT !.run = v] = [db EXCEPT !.run = v, !.claim = db.claim]
  BY <1>1 DEF Rows
<1> QED BY <1>2, <1>3

LEMMA FinishOk ==
  ASSUME BatchInv, Finish
  PROVE  BatchInv'
<1>1. UNCHANGED <<thr, posts, rt>> /\ sys' \in Bounds /\ db.run \notin {"STOPPED", "DELETED"}
  BY DEF Finish, BatchInv, ActorsTyped
<1>2. PICK v \in {"OVER", "TERMINATED"} : db' = [db EXCEPT !.run = v]
  BY DEF Finish
<1>3. Calm
  <2>1. PICK c \in Nat : c = db.claim
    BY ClaimTyped
  <2>2. db' = [db EXCEPT !.run = v, !.claim = c]
    BY <1>2, <2>1, ClaimTyped
  <2> QED BY <1>1, <2>2, CalmRun
<1> QED BY <1>1, <1>3, OnlyRecords

LEMMA StopOk ==
  ASSUME BatchInv, Stop
  PROVE  BatchInv'
<1>1. UNCHANGED <<thr, posts, rt>> /\ sys' \in Bounds /\ db.run \notin {"STOPPED", "DELETED"}
  BY DEF Stop, BatchInv, ActorsTyped
<1>2. Calm
  BY <1>1, ClaimTyped, CalmRun DEF Stop
<1> QED BY <1>1, <1>2, OnlyRecords

LEMMA ResumeOk ==
  ASSUME BatchInv, Resume
  PROVE  BatchInv'
<1>1. UNCHANGED <<thr, posts, rt>> /\ sys' \in Bounds /\ db.run \notin {"STOPPED", "DELETED"}
  BY DEF Resume, BatchInv, ActorsTyped, Bounds
<1>2. Calm
  BY <1>1, ClaimTyped, CalmRun DEF Resume
<1> QED BY <1>1, <1>2, OnlyRecords

LEMMA ClaimOk ==
  ASSUME BatchInv, Claim
  PROVE  BatchInv'
<1>1. UNCHANGED <<posts, rt>> /\ db.run \notin {"STOPPED", "DELETED"} /\ "drive" \in Threads
  BY DEF Claim, Threads
<1>2. sys' \in Bounds
  BY DEF Claim, BatchInv, ActorsTyped, Bounds
<1>3. PICK c \in Nat : c = sys.claims + 1
  BY ClaimTyped
<1>4. Calm
  BY <1>1, <1>3, CalmRun DEF Claim
<1>5. CASE thr' = thr
  BY <1>2, <1>4, <1>5, OnlyRecords
<1>6. CASE thr' = [thr EXCEPT !["drive"] = [IdleThread EXCEPT !.pc = "plan", !.mode = "again",
                                                        !.claim = c]]
  <2>1. PICK q \in Workers : q = [IdleThread EXCEPT !.pc = "plan", !.mode = "again", !.claim = c]
    <3>1. IdleThread \in Workers /\ "plan" \in Pcs
      BY IdleTyped DEF Pcs
    <3> QED BY <3>1 DEF Workers
  <2>2. q.pc = "plan"
    BY <2>1, IdleTyped DEF Workers
  <2>3. "plan" \in Away /\ "drive" # "check"
    BY DEF Away, Pcs, AtImage
  <2> QED BY <1>1, <1>2, <1>4, <1>6, <2>1, <2>2, <2>3, CalmForAll, WentAway
<1> QED BY <1>3, <1>5, <1>6 DEF Claim

LEMMA ReconcileOk ==
  ASSUME BatchInv, Reconcile
  PROVE  BatchInv'
<1>1. UNCHANGED <<db, posts, rt>> /\ "check" \in Threads
  BY DEF Reconcile, Threads
<1>2. sys' \in Bounds
  BY DEF Reconcile, BatchInv, ActorsTyped, Bounds
<1>3. PICK pc \in {"plan", "repair"} :
        /\ pc = "plan" => db.run = "STOPPED"
        /\ thr' = [thr EXCEPT !["check"] = [IdleThread EXCEPT !.mode = "check", !.claim = db.claim,
                                                        !.pc = pc]]
  BY DEF Reconcile
<1>4. PICK q \in Workers : q = [IdleThread EXCEPT !.mode = "check", !.claim = db.claim, !.pc = pc]
  <2>1. IdleThread \in Workers /\ pc \in Pcs /\ db.claim \in Nat
    BY IdleTyped, ClaimTyped DEF Pcs
  <2> QED BY <2>1 DEF Workers
<1>5. q.pc = pc
  BY <1>4, IdleTyped DEF Workers
<1>6. pc \in Away /\ "repair" \in Resting
  BY DEF Away, Pcs, AtImage, Resting
<1>7. CalmFor("check")
  BY <1>1, Still, CalmForAll
<1> QED BY <1>1, <1>2, <1>3, <1>4, <1>5, <1>6, <1>7, WentAway

LEMMA ShutdownOk ==
  ASSUME BatchInv, Shutdown
  PROVE  BatchInv'
<1>1. UNCHANGED <<thr, posts, rt>> /\ sys' \in Bounds
  BY DEF Shutdown, BatchInv, ActorsTyped, Bounds
<1>2. CASE UNCHANGED db
  BY <1>1, <1>2, Still, OnlyRecords
<1>3. CASE db.run = "RUNNING" /\ db' = [db EXCEPT !.run = "INTERRUPTED"]
  <2>1. Calm
    BY <1>1, <1>3, ClaimTyped, CalmRun
  <2> QED BY <1>1, <2>1, OnlyRecords
<1> QED BY <1>2, <1>3 DEF Shutdown

LEMMA CrashOk ==
  ASSUME BatchInv, Restart
  PROVE  BatchInv'
<1>1. UNCHANGED <<posts, rt>> /\ sys' \in Bounds
  <2>1. sys \in Bounds /\ sys' = [sys EXCEPT !.failures = @ + 1, !.closing = FALSE]
    BY DEF Restart, BatchInv, ActorsTyped
  <2>2. sys.failures + 1 \in Nat
    BY <2>1 DEF Bounds
  <2>3. sys' \in Bounds
    BY <2>1, <2>2 DEF Bounds
  <2> QED BY <2>3 DEF Restart
<1>2. Calm
  <2>1. CASE UNCHANGED db
    BY <1>1, <2>1, Still
  <2>2. CASE db.run \in {"RUNNING", "PENDING"} /\ db' = [db EXCEPT !.run = "INTERRUPTED", !.claim = 0]
    BY <1>1, <2>2, CalmRun
  <2> QED BY <2>1, <2>2 DEF Restart
<1>3. thr' = [u \in Threads |-> IdleThread]
  BY DEF Restart
<1>4. ASSUME NEW u \in Threads
      PROVE  \E w \in Workers : w = thr'[u] /\ ThreadOk(u, w)'
  <2>1. PICK w \in Workers : w = IdleThread
    BY IdleTyped
  <2>2. w.pc = "idle"
    BY <2>1 DEF IdleThread
  <2>3. ThreadOk(u, w)'
    BY <2>2 DEF ThreadOk, ViewOk, PlaceOk, CheckOk, AtImage, Sending
  <2> QED BY <1>3, <2>1, <2>3
<1>5. thr' \in [Threads -> Workers]
  BY <1>3, IdleTyped
<1> QED BY <1>1, <1>2, <1>4, <1>5, AllJoined DEF Calm

-----------------------------------------------------------------------------
(* The runtime *)

\* What a thread knows of the runtime: a receipt with an end keeps it until it
\* is erased, and an image that was not sent has none.
LEMMA CalmRuntime ==
  ASSUME BatchInv, RecordsInv', UNCHANGED db, posts' \subseteq posts,
         \A k \in Images :
           /\ rt.rcpt[k] \in {"SUCCEEDED", "FAILED", "DELETED"} => rt'.rcpt[k] \in {rt.rcpt[k], "DELETED"}
           /\ rt.rcpt[k] = "none" /\ k \notin posts => rt'.rcpt[k] = "none"
  PROVE  Calm
<1> SUFFICES ASSUME NEW u \in Threads, NEW w \in Workers, ThreadOk(u, w) PROVE ThreadOk(u, w)'
  BY DEF Calm
<1>1. w.img \in Images /\ \A k \in Images : w.view[k] \in Items
  BY DEF Workers
<1>2. ASSUME NEW k \in Images, NEW seen \in Items, SeenOk(k, seen)
      PROVE  SeenOk(k, seen)'
  <2>1. seen.rcpt \in {"none", "SUCCEEDED", "FAILED"}
    BY DEF Items
  <2> QED BY <1>2, <2>1 DEF SeenOk
<1>3. ViewOk(w)'
  BY <1>1, <1>2 DEF ThreadOk, ViewOk
<1>4. PlaceOk(w)'
  BY <1>1 DEF ThreadOk, PlaceOk, Ended
<1> QED BY <1>3, <1>4 DEF ThreadOk, CheckOk

\* The answer reaches the thread that waits for it.
LEMMA Answered ==
  ASSUME BatchInv, Calm, sys' \in Bounds, NEW i \in Images,
         NEW a \in Receipts \cup {"busy", "error"}, Deliver(i, a),
         a \in Ended => rt'.rcpt[i] = a,
         a = "busy" => db'.item[i].st \in Sent /\ rt'.rcpt[i] = "none" /\ i \notin posts'
  PROVE  BatchInv'
<1>1. ASSUME NEW u \in Threads
      PROVE  \E w \in Workers : w = thr'[u] /\ ThreadOk(u, w)'
  <2>1. CASE ~(At(u, "wait") /\ Img(u) = i)
    <3>1. thr'[u] = thr[u] /\ thr[u] \in Workers
      BY <2>1, OwnWorker DEF Deliver
    <3>2. PICK w \in Workers : w = thr[u]
      BY <3>1
    <3>3. ThreadOk(u, w)
      BY <3>2, OwnWorker
    <3> QED BY <3>1, <3>2, <3>3 DEF Calm
  <2>2. CASE At(u, "wait") /\ Img(u) = i
    <3>1. PICK v \in Workers : v = thr[u]
      BY OwnWorker
    <3>2. ThreadOk(u, v)' /\ v.pc = "wait" /\ v.img = i
      BY <2>2, <3>1, OwnWorker DEF Calm, At, Img
    <3>3. PICK ans \in Receipts : ans = IF a \in Receipts THEN a ELSE "none"
      BY DEF Receipts
    <3>4. PICK pc \in {"back", "ask", "got"} :
            pc = CASE a = "busy" -> "back" [] a = "error" -> "ask" [] OTHER -> "got"
      OBVIOUS
    <3>5. thr'[u] = [v EXCEPT !.ans = ans, !.pc = pc]
      BY <2>2, <3>1, <3>3, <3>4 DEF Deliver
    <3>6. PICK q \in Workers : q = [v EXCEPT !.ans = ans, !.pc = pc]
      <4>1. [v EXCEPT !.ans = ans] \in Workers
        BY WorkerMoves DEF Receipts
      <4> QED BY <4>1, WorkerMoves DEF Pcs
    <3>7. q.pc = pc /\ q.ans = ans /\ q.view = v.view /\ q.img = i
      BY <3>2, <3>6 DEF Workers
    <3>8. ViewOk(q)'
      BY <3>2, <3>7 DEF ThreadOk, ViewOk, AtImage
    <3>9. q.view[i].st = "DISPATCHED"
      BY <3>2, <3>7 DEF ThreadOk, PlaceOk
    <3>10. (pc = "back" => a = "busy") /\ (ans \in Ended => a = ans)
      BY <3>3, <3>4 DEF Ended
    <3>11. PlaceOk(q)'
      BY <3>7, <3>9, <3>10 DEF PlaceOk, Sent
    <3>12. u # "check"
      BY <3>2 DEF ThreadOk, CheckOk, Sending
    <3>13. ThreadOk(u, q)'
      BY <3>8, <3>11, <3>12 DEF ThreadOk
    <3> QED BY <3>5, <3>6, <3>13
  <2> QED BY <2>1, <2>2
<1>2. thr' \in [Threads -> Workers]
  <2>1. DOMAIN thr' = Threads /\ thr' = [u \in Threads |-> thr'[u]]
    BY DEF Deliver
  <2> QED BY <1>1, <2>1
<1> QED BY <1>1, <1>2, AllJoined DEF Calm

LEMMA InFlight ==
  ASSUME BatchInv, NEW i \in posts
  PROVE  /\ i \in Images /\ rt.rcpt[i] = "none" /\ rt.ran[i] = 0
         /\ db.item[i].st \in Sent /\ db.run # "DELETED"
BY DEF BatchInv, RecordsInv, TypeInv, FlightInv, DeletedInv, Sent, Unresolved

\* A request that does not get in leaves the records as they are.
LEMMA CalmLoss ==
  ASSUME BatchInv, NEW i \in posts, posts' = posts \ {i}, UNCHANGED <<db, rt>>
  PROVE  Calm
<1>1. RecordsInv'
  BY DEF BatchInv, RecordsInv, TypeInv, RowsInv, RowOk, OrderInv, FlightInv, ResultInv,
     DeletedInv, Public
<1> QED BY <1>1, CalmRuntime

LEMMA TurnAwayOk ==
  ASSUME BatchInv, NEW i \in Images, TurnAway(i)
  PROVE  BatchInv'
<1>1. i \in posts /\ posts' = posts \ {i} /\ UNCHANGED <<db, rt>> /\ sys' \in Bounds
  BY DEF TurnAway, BatchInv, ActorsTyped
<1>2. Calm
  BY <1>1, CalmLoss
<1>3. PICK a \in {"busy", "error"} : Deliver(i, a)
  BY DEF TurnAway
<1>4. db'.item[i].st \in Sent /\ rt'.rcpt[i] = "none" /\ i \notin posts' /\ a \notin Ended
  BY <1>1, InFlight DEF Ended
<1> QED BY <1>1, <1>2, <1>3, <1>4, Answered

LEMMA AcceptOk ==
  ASSUME BatchInv, NEW i \in Images, Accept(i)
  PROVE  BatchInv'
<1>1. i \in posts /\ posts' = posts \ {i} /\ UNCHANGED <<db, thr, sys>>
      /\ rt' = [rt EXCEPT !.lock = "run", !.on = i, !.rcpt[i] = "UNKNOWN", !.ran[i] = @ + 1]
  <2>1. i \in posts
    BY DEF Accept
  <2>2. ~Replayed(i)
    BY <2>1, InFlight DEF Replayed
  <2> QED BY <2>1, <2>2 DEF Accept
<1>2. rt \in Runtimes /\ posts \subseteq Images
  BY DEF BatchInv, RecordsInv, TypeInv
<1>3. /\ rt' \in Runtimes
      /\ rt'.lock = "run" /\ rt'.on = i /\ rt'.files = rt.files
      /\ rt'.rcpt = [rt.rcpt EXCEPT ![i] = "UNKNOWN"]
      /\ rt'.ran = [rt.ran EXCEPT ![i] = rt.ran[i] + 1]
  <2>1. [rt.rcpt EXCEPT ![i] = "UNKNOWN"] \in [Images -> Receipts]
    BY <1>2 DEF Runtimes, Receipts
  <2>2. [rt.ran EXCEPT ![i] = rt.ran[i] + 1] \in [Images -> Nat]
    BY <1>2 DEF Runtimes
  <2> QED BY <1>1, <1>2, <2>1, <2>2 DEF Runtimes
<1>4. /\ rt'.rcpt[i] = "UNKNOWN" /\ rt'.ran[i] = 1
      /\ \A k \in Images : k # i => rt'.rcpt[k] = rt.rcpt[k] /\ rt'.ran[k] = rt.ran[k]
  BY <1>1, <1>2, <1>3, InFlight DEF Runtimes
<1>5. db.item[i].st \in Sent /\ db.run # "DELETED" /\ rt.rcpt[i] = "none"
  BY <1>1, InFlight
<1>6. RowsInv'
  <2> SUFFICES ASSUME NEW k \in Images PROVE RowOk(k, db.item[k])'
    BY <1>1 DEF BatchInv, RecordsInv, RowsInv
  <2>1. RowOk(k, db.item[k])
    BY DEF BatchInv, RecordsInv, RowsInv
  <2>2. CASE k = i
    BY <1>1, <1>5, <2>1, <2>2 DEF RowOk, Sent
  <2>3. CASE k # i
    BY <1>1, <1>4, <2>1, <2>3 DEF RowOk
  <2> QED BY <2>2, <2>3
<1>7. FlightInv'
  BY <1>1, <1>2, <1>3, <1>4, <1>5 DEF BatchInv, RecordsInv, FlightInv
<1>8. RecordsInv'
  BY <1>1, <1>2, <1>3, <1>5, <1>6, <1>7
  DEF BatchInv, RecordsInv, TypeInv, OrderInv, ResultInv, DeletedInv, Public
<1>9. Calm
  BY <1>1, <1>4, <1>5, <1>8, CalmRuntime
<1> QED BY <1>1, <1>9, OnlyRecords DEF BatchInv, ActorsTyped

LEMMA ComputeOk ==
  ASSUME BatchInv, Compute
  PROVE  BatchInv'
<1>1. PICK out \in {"SUCCEEDED", "FAILED"} :
        /\ rt' = [rt EXCEPT !.lock = "free", !.rcpt[rt.on] = out,
                            !.files = IF out = "SUCCEEDED" THEN @ \cup {rt.on} ELSE @]
        /\ Deliver(rt.on, out)
  BY DEF Compute
<1>2. rt.lock = "run" /\ UNCHANGED <<db, posts, sys>> /\ sys' \in Bounds
  BY DEF Compute, BatchInv, ActorsTyped
<1>3. rt \in Runtimes /\ posts \subseteq Images
  BY DEF BatchInv, RecordsInv, TypeInv
<1>4. PICK i \in Images : i = rt.on
  BY <1>3 DEF Runtimes
<1>5. rt.rcpt[i] = "UNKNOWN" /\ db.item[i].st \in Sent /\ db.run # "DELETED"
  BY <1>2, <1>4 DEF BatchInv, RecordsInv, FlightInv, DeletedInv, Sent, Unresolved
<1>6. /\ rt' \in Runtimes
      /\ rt'.lock = "free" /\ rt'.ran = rt.ran /\ rt'.on = rt.on
      /\ rt'.rcpt = [rt.rcpt EXCEPT ![i] = out]
  <2>1. [rt.rcpt EXCEPT ![i] = out] \in [Images -> Receipts]
    BY <1>3 DEF Runtimes, Receipts
  <2>2. PICK f \in SUBSET Images : f = IF out = "SUCCEEDED" THEN rt.files \cup {rt.on} ELSE rt.files
    BY <1>3, <1>4 DEF Runtimes
  <2>3. rt' = [rt EXCEPT !.lock = "free", !.rcpt = [rt.rcpt EXCEPT ![i] = out], !.files = f]
    BY <1>1, <1>4, <2>2
  <2> QED BY <1>3, <2>1, <2>2, <2>3 DEF Runtimes
<1>7. /\ rt'.rcpt[i] = out
      /\ \A k \in Images : k # i => rt'.rcpt[k] = rt.rcpt[k]
  BY <1>3, <1>6 DEF Runtimes
<1>8. RowsInv'
  <2> SUFFICES ASSUME NEW k \in Images PROVE RowOk(k, db.item[k])'
    BY <1>2 DEF BatchInv, RecordsInv, RowsInv
  <2>1. RowOk(k, db.item[k])
    BY DEF BatchInv, RecordsInv, RowsInv
  <2>2. CASE k = i
    BY <1>2, <1>5, <2>1, <2>2 DEF RowOk, Sent
  <2>3. CASE k # i
    BY <1>2, <1>7, <2>1, <2>3 DEF RowOk
  <2> QED BY <2>2, <2>3
<1>9. FlightInv'
  BY <1>2, <1>3, <1>5, <1>6, <1>7 DEF BatchInv, RecordsInv, FlightInv
<1>10. RecordsInv'
  BY <1>2, <1>3, <1>5, <1>6, <1>8, <1>9
  DEF BatchInv, RecordsInv, TypeInv, OrderInv, ResultInv, DeletedInv, Public
<1>11. Calm
  BY <1>2, <1>5, <1>7, <1>10, CalmRuntime
<1> QED BY <1>1, <1>2, <1>4, <1>7, <1>11, Answered DEF Receipts

\* The runtime closes, goes down, or starts; the receipts are on disk.
LEMMA CalmLifecycle ==
  ASSUME BatchInv, NEW s \in {"up", "closing", "down"}, NEW l \in {"free", rt.lock},
         rt' = [rt EXCEPT !.st = s, !.lock = l], UNCHANGED <<db, posts>>
  PROVE  Calm
<1>1. rt \in Runtimes
  BY DEF BatchInv, RecordsInv, TypeInv
<1>2. /\ rt' \in Runtimes
      /\ rt'.rcpt = rt.rcpt /\ rt'.ran = rt.ran /\ rt'.files = rt.files /\ rt'.on = rt.on
      /\ rt'.lock \in {"free", rt.lock}
  BY <1>1 DEF Runtimes
<1>3. RecordsInv'
  <2>1. RowsInv' /\ OrderInv' /\ ResultInv' /\ DeletedInv'
    BY <1>2 DEF BatchInv, RecordsInv, RowsInv, RowOk, OrderInv, ResultInv, DeletedInv, Public
  <2>2. FlightInv'
    BY <1>2 DEF BatchInv, RecordsInv, FlightInv
  <2> QED BY <1>2, <2>1, <2>2 DEF BatchInv, RecordsInv, TypeInv
<1> QED BY <1>2, <1>3, CalmRuntime

LEMMA LifecycleOk ==
  ASSUME BatchInv, RtClose \/ RtDown \/ RtStart
  PROVE  BatchInv'
<1>1. rt \in Runtimes /\ rt.lock \in {"free", "run", "clean"} /\ rt.on \in Images
  BY DEF BatchInv, RecordsInv, TypeInv, Runtimes
<1>2. sys' \in Bounds
  BY FaultTyped DEF RtClose, RtDown, RtStart, BatchInv, ActorsTyped
<1>3. PICK s \in {"up", "closing", "down"} : \E l \in {"free", rt.lock} :
        rt' = [rt EXCEPT !.st = s, !.lock = l] /\ UNCHANGED <<db, posts>>
  <2>1. \A s : [rt EXCEPT !.st = s] = [rt EXCEPT !.st = s, !.lock = rt.lock]
    BY <1>1 DEF Runtimes
  <2>2. CASE RtClose
    <3>1. rt' = [rt EXCEPT !.st = "closing"] /\ UNCHANGED <<db, posts>>
      BY <2>2 DEF RtClose
    <3> QED BY <2>1, <3>1
  <2>3. CASE RtDown
    BY <2>3 DEF RtDown
  <2>4. CASE RtStart
    <3>1. rt' = [rt EXCEPT !.st = "up"] /\ UNCHANGED <<db, posts>>
      BY <2>4 DEF RtStart
    <3> QED BY <2>1, <3>1
  <2> QED BY <2>2, <2>3, <2>4
<1>4. Calm
  BY <1>3, CalmLifecycle
<1>5. CASE thr' = thr
  BY <1>2, <1>4, <1>5, OnlyRecords
<1>6. CASE Deliver(rt.on, "error")
  <2>1. "error" \notin Ended
    BY DEF Ended
  <2> QED BY <1>1, <1>2, <1>4, <1>6, <2>1, Answered
<1> QED BY <1>5, <1>6 DEF RtClose, RtDown, RtStart

-----------------------------------------------------------------------------
(* Deletion *)

LEMMA DeleteOk ==
  ASSUME BatchInv, Delete
  PROVE  BatchInv'
<1>1. /\ UNCHANGED <<thr, posts, rt>> /\ sys' \in Bounds
      /\ db.run # "DELETED" /\ \A i \in Images : db.item[i].st \notin Unresolved
  BY DEF Delete, Idleness, BatchInv, ActorsTyped
<1>2. PICK box \in [Images -> {"none", "PENDING", "COMPLETED"}] :
        box = [i \in Images |-> IF db.item[i].rcpt # "none" THEN "PENDING" ELSE "none"]
  OBVIOUS
<1>3. db' = [db EXCEPT !.run = "DELETED", !.box = box]
  BY <1>2 DEF Delete
<1>4. /\ db' \in Rows
      /\ db'.run = "DELETED" /\ db'.item = db.item /\ db'.asset = db.asset /\ db'.box = box
      /\ db'.out = db.out /\ db'.res = db.res /\ db'.parent = db.parent /\ db'.obs = db.obs
  BY <1>3 DEF BatchInv, RecordsInv, TypeInv, Rows
<1>5. \A i \in Images : rt.rcpt[i] # "none" => db.item[i].rcpt # "none"
  <2> SUFFICES ASSUME NEW i \in Images, db.item[i].rcpt = "none" PROVE rt.rcpt[i] = "none"
    OBVIOUS
  <2>1. RowOk(i, db.item[i]) /\ db.item[i].st \in ItemStates \ Unresolved
    BY <1>1 DEF BatchInv, RecordsInv, TypeInv, RowsInv, Rows, Items
  <2>2. db.item[i].st \in {"none", "NOT_DISPATCHED", "SUCCEEDED", "FAILED", "SKIPPED"}
    BY <2>1 DEF ItemStates, Unresolved, Final
  <2> QED BY <2>1, <2>2 DEF RowOk
<1>6. rt.lock # "clean" /\ rt.on \in Images
  BY <1>1 DEF BatchInv, RecordsInv, TypeInv, FlightInv, Runtimes
<1>7. RowsInv' /\ OrderInv' /\ ResultInv'
  BY <1>1, <1>4 DEF BatchInv, RecordsInv, RowsInv, RowOk, OrderInv, ResultInv, Public
<1>8. FlightInv'
  BY <1>1, <1>4, <1>6 DEF BatchInv, RecordsInv, FlightInv
<1>9. DeletedInv'
  BY <1>1, <1>2, <1>4, <1>5 DEF DeletedInv
<1>10. RecordsInv'
  BY <1>1, <1>4, <1>7, <1>8, <1>9 DEF BatchInv, RecordsInv, TypeInv
<1>11. Calm
  <2> SUFFICES ASSUME NEW u \in Threads, NEW w \in Workers, ThreadOk(u, w) PROVE ThreadOk(u, w)'
    BY <1>10 DEF Calm
  <2> QED BY <1>1, <1>4 DEF ThreadOk, ViewOk, SeenOk, PlaceOk, CheckOk
<1> QED BY <1>1, <1>11, OnlyRecords

LEMMA TombstoneOk ==
  ASSUME BatchInv, NEW i \in Images, Tombstone(i)
  PROVE  BatchInv'
<1>1. /\ UNCHANGED <<db, thr, posts>> /\ sys' \in Bounds
      /\ db.box[i] = "PENDING" /\ rt.lock = "free" /\ rt.rcpt[i] # "UNKNOWN"
      /\ rt' = [rt EXCEPT !.lock = "clean", !.on = i, !.rcpt[i] = "DELETED"]
  BY DEF Tombstone, BatchInv, ActorsTyped
<1>2. db.run = "DELETED" /\ db.item[i].rcpt # "none"
  BY <1>1 DEF BatchInv, RecordsInv, DeletedInv
<1>3. rt.rcpt[i] # "none"
  <2>1. RowOk(i, db.item[i]) /\ db.item[i] \in Items
    BY DEF BatchInv, RecordsInv, TypeInv, RowsInv, Rows
  <2> QED BY <1>2, <2>1 DEF RowOk, Items
<1>4. rt \in Runtimes /\ posts = {}
  BY <1>2, InFlight DEF BatchInv, RecordsInv, TypeInv
<1>5. /\ rt' \in Runtimes
      /\ rt'.lock = "clean" /\ rt'.on = i /\ rt'.files = rt.files /\ rt'.ran = rt.ran
      /\ rt'.rcpt = [rt.rcpt EXCEPT ![i] = "DELETED"]
  <2>1. [rt.rcpt EXCEPT ![i] = "DELETED"] \in [Images -> Receipts]
    BY <1>4 DEF Runtimes, Receipts
  <2> QED BY <1>1, <1>4, <2>1 DEF Runtimes
<1>6. /\ rt'.rcpt[i] = "DELETED"
      /\ \A k \in Images : k # i => rt'.rcpt[k] = rt.rcpt[k]
  BY <1>4, <1>5 DEF Runtimes
<1>7. RowsInv'
  <2> SUFFICES ASSUME NEW k \in Images PROVE RowOk(k, db.item[k])'
    BY <1>1 DEF BatchInv, RecordsInv, RowsInv
  <2>1. RowOk(k, db.item[k])
    BY DEF BatchInv, RecordsInv, RowsInv
  <2>2. CASE k = i
    BY <1>1, <1>2, <1>6, <2>1, <2>2 DEF RowOk
  <2>3. CASE k # i
    BY <1>1, <1>6, <2>1, <2>3 DEF RowOk
  <2> QED BY <2>2, <2>3
<1>8. FlightInv' /\ DeletedInv'
  BY <1>1, <1>2, <1>4, <1>5, <1>6 DEF BatchInv, RecordsInv, FlightInv, DeletedInv
<1>9. RecordsInv'
  BY <1>1, <1>4, <1>5, <1>7, <1>8 DEF BatchInv, RecordsInv, TypeInv, OrderInv, ResultInv, Public
<1>10. Calm
  BY <1>1, <1>3, <1>6, <1>9, CalmRuntime
<1> QED BY <1>1, <1>10, OnlyRecords

LEMMA UnlinkOk ==
  ASSUME BatchInv, Unlink
  PROVE  BatchInv'
<1>1. /\ UNCHANGED <<thr, posts>> /\ sys' \in Bounds /\ rt.lock = "clean"
      /\ rt' = [rt EXCEPT !.lock = "free", !.files = @ \ {rt.on}]
      /\ db' = db \/ db' = [db EXCEPT !.box[rt.on] = "COMPLETED"]
  BY DEF Unlink, BatchInv, ActorsTyped
<1>2. rt \in Runtimes /\ rt.on \in Images /\ db \in Rows
  BY DEF BatchInv, RecordsInv, TypeInv, Runtimes
<1>3. rt.rcpt[rt.on] = "DELETED" /\ db.box[rt.on] # "none" /\ db.run = "DELETED"
  BY <1>1, <1>2 DEF BatchInv, RecordsInv, FlightInv
<1>4. /\ rt' \in Runtimes
      /\ rt'.lock = "free" /\ rt'.on = rt.on /\ rt'.ran = rt.ran /\ rt'.rcpt = rt.rcpt
      /\ rt'.files = rt.files \ {rt.on}
  <2>1. rt.files \ {rt.on} \in SUBSET Images
    BY <1>2 DEF Runtimes
  <2> QED BY <1>1, <1>2, <2>1 DEF Runtimes
<1>5. PICK box \in [Images -> {"none", "PENDING", "COMPLETED"}] :
        /\ box = db.box \/ box = [db.box EXCEPT ![rt.on] = "COMPLETED"]
        /\ db' = [db EXCEPT !.box = box]
  <2>1. db.box \in [Images -> {"none", "PENDING", "COMPLETED"}]
    BY <1>2 DEF Rows
  <2>2. db = [db EXCEPT !.box = db.box]
    BY <1>2 DEF Rows
  <2> QED BY <1>1, <1>2, <2>1, <2>2
<1>6. /\ db' \in Rows
      /\ db'.run = "DELETED" /\ db'.item = db.item /\ db'.asset = db.asset /\ db'.box = box
      /\ db'.out = db.out /\ db'.res = db.res /\ db'.parent = db.parent /\ db'.obs = db.obs
  BY <1>2, <1>3, <1>5 DEF Rows
<1>7. /\ \A k \in Images : box[k] # "none" <=> db.box[k] # "none"
      /\ \A k \in Images : box[k] = "COMPLETED" => db.box[k] = "COMPLETED" \/ k = rt.on
  BY <1>2, <1>3, <1>5 DEF Rows
<1>8. RecordsInv'
  <2>1. RowsInv' /\ OrderInv' /\ ResultInv'
    BY <1>1, <1>4, <1>6 DEF BatchInv, RecordsInv, RowsInv, RowOk, OrderInv, ResultInv, Public
  <2>2. FlightInv'
    BY <1>1, <1>4, <1>6 DEF BatchInv, RecordsInv, FlightInv
  <2>3. DeletedInv'
    BY <1>1, <1>3, <1>4, <1>6, <1>7 DEF BatchInv, RecordsInv, DeletedInv
  <2> QED BY <1>1, <1>4, <1>6, <2>1, <2>2, <2>3 DEF BatchInv, RecordsInv, TypeInv
<1>9. Calm
  <2> SUFFICES ASSUME NEW u \in Threads, NEW w \in Workers, ThreadOk(u, w) PROVE ThreadOk(u, w)'
    BY <1>8 DEF Calm
  <2> QED BY <1>1, <1>3, <1>4, <1>6 DEF ThreadOk, ViewOk, SeenOk, PlaceOk, CheckOk
<1> QED BY <1>1, <1>9, OnlyRecords

-----------------------------------------------------------------------------
(* The invariant is inductive *)

LEMMA BatchInvInit ==
  ASSUME BatchInit
  PROVE  BatchInv
<1>1. db \in Rows
  BY NoItemTyped DEF BatchInit, Rows, Outputs, NoOutput
<1>2. thr \in [Threads -> Workers]
  <2>1. PICK q \in Workers : q = [IdleThread EXCEPT !.pc = "begin", !.claim = 1]
    <3>1. IdleThread \in Workers /\ "begin" \in Pcs
      BY IdleTyped DEF Pcs
    <3> QED BY <3>1 DEF Workers
  <2> QED BY <2>1, IdleTyped DEF BatchInit
<1>3. rt \in Runtimes
  BY ImagesFacts DEF BatchInit, Runtimes, Receipts
<1>4. sys \in Bounds /\ posts \subseteq Images
  BY DEF BatchInit, Bounds
<1>5. \A i \in Images : db.item[i] = NoItem
  BY DEF BatchInit
<1>6. RowsInv /\ OrderInv
  BY <1>5 DEF BatchInit, RowsInv, RowOk, OrderInv, NoItem, Sent, Unresolved
<1>7. FlightInv /\ ResultInv /\ DeletedInv
  BY DEF BatchInit, FlightInv, ResultInv, DeletedInv
<1>8. \A t \in Threads : thr[t].pc \in {"begin", "idle"} /\ (t = "check" => thr[t].pc = "idle")
  BY IdleTyped DEF BatchInit, IdleThread, Threads
<1>9. ThreadsInv
  BY <1>8 DEF ThreadsInv, ThreadOk, ViewOk, PlaceOk, CheckOk, AtImage, Sending
<1> QED BY <1>1, <1>2, <1>3, <1>4, <1>6, <1>7, <1>9
        DEF BatchInv, RecordsInv, TypeInv, ActorsTyped

LEMMA BatchInvStep ==
  ASSUME BatchInv, [BatchNext]_batchVars
  PROVE  BatchInv'
<1>1. CASE UNCHANGED batchVars
  BY <1>1, Still, OnlyRecords DEF batchVars, BatchInv, ActorsTyped
<1>2. ASSUME NEW t \in Threads, Work(t)
      PROVE  BatchInv'
  BY <1>2, BeginOk, PlanOk, StartOk, LoadOk, ReadyOk, SkipOk, LoseOk, MarkOk, PostOk, GiveUpOk,
     BackOk, AskOk, ReceiveOk, FailOk, SaveOk, CloseOk, RecordOk, CommitOk, SettleOk, UndoOk,
     RepairOk, TellOk, LeaveOk DEF Work
<1>3. CASE Finish \/ Stop \/ Resume \/ Claim \/ Reconcile \/ Shutdown \/ Restart
  BY <1>3, FinishOk, StopOk, ResumeOk, ClaimOk, ReconcileOk, ShutdownOk, CrashOk
<1>4. ASSUME NEW i \in Images, TurnAway(i) \/ Accept(i) \/ Tombstone(i)
      PROVE  BatchInv'
  BY <1>4, TurnAwayOk, AcceptOk, TombstoneOk
<1>5. CASE Compute \/ RtClose \/ RtDown \/ RtStart
  BY <1>5, ComputeOk, LifecycleOk
<1>6. CASE Delete \/ Unlink
  BY <1>6, DeleteOk, UnlinkOk
<1> QED BY <1>1, <1>2, <1>3, <1>4, <1>5, <1>6 DEF BatchNext

-----------------------------------------------------------------------------
(* The theorems *)

\* The rows, the requests on their way, the runtime's receipts and what the two
\* threads know of them fit together, in every state.
THEOREM BatchInvHolds == BatchSpec => []BatchInv
<1>1. BatchInit => BatchInv
  BY BatchInvInit
<1>2. BatchInv /\ [BatchNext]_batchVars => BatchInv'
  BY BatchInvStep
<1> QED BY <1>1, <1>2, PTL DEF BatchSpec

\* The batch goes one image at a time, in order, and at most one request is on
\* its way or computing (the loop of execute, local_tc4.py:177-224).
THEOREM GoesOneAtATime == BatchSpec => []OneAtATime
<1>1. BatchInv => OneAtATime
  <2> SUFFICES ASSUME BatchInv PROVE OneAtATime
    OBVIOUS
  <2> DEFINE busy == posts \cup (IF rt.lock = "run" THEN {rt.on} ELSE {})
  <2>1. busy \subseteq Images
    BY DEF BatchInv, RecordsInv, TypeInv, Runtimes
  <2>2. \A i \in busy : db.item[i].st \in Unresolved /\ db.item[i].st \notin Final
    BY DEF BatchInv, RecordsInv, FlightInv, Sent, Unresolved, Final
  <2>3. \A i, j \in busy : i = j
    <3> SUFFICES ASSUME NEW i \in busy, NEW j \in busy, i # j PROVE FALSE
      OBVIOUS
    <3>1. i \in Images /\ j \in Images /\ (i < j \/ j < i)
      <4>1. i \in Images /\ j \in Images
        BY <2>1
      <4>2. i \in Nat /\ j \in Nat
        BY <4>1, ImagesFacts
      <4> HIDE DEF busy
      <4> QED BY <4>1, <4>2
    <3> QED BY <2>2, <3>1 DEF BatchInv, RecordsInv, OrderInv
  <2>4. Cardinality(busy) <= 1
    <3>1. CASE busy = {}
      BY <3>1, FS_EmptySet
    <3>2. CASE busy # {}
      <4>1. PICK i \in busy : TRUE
        BY <3>2
      <4>2. busy = {i}
        BY <4>1, <2>3
      <4>3. Cardinality({i}) = 1
        BY FS_Singleton
      <4> QED BY <4>2, <4>3
    <3> QED BY <3>1, <3>2
  <2> QED BY <2>4 DEF OneAtATime, BatchInv, RecordsInv, OrderInv
<1> QED BY <1>1, BatchInvHolds, PTL

\* Every image is computed at most once, its row says what happened to it, and
\* the result is the rows' (tc4_results.py:14-61).
THEOREM RecordsStayTrue == BatchSpec => []RecordsAreTrue
<1>1. BatchInv => RecordsAreTrue
  <2> SUFFICES ASSUME BatchInv PROVE RecordsAreTrue
    OBVIOUS
  <2>1. BatchTypeOK
    BY DEF BatchInv, RecordsInv, TypeInv, ActorsTyped, Runtimes, BatchTypeOK
  <2>2. ASSUME NEW i \in Images
        PROVE  /\ rt.ran[i] <= 1
               /\ db.item[i].st = "SUCCEEDED" => db.asset[i] = 2 /\ rt.rcpt[i] \in {"SUCCEEDED", "DELETED"}
               /\ db.item[i].why = "TC4_INFERENCE_FAILED" => rt.rcpt[i] \in {"FAILED", "DELETED"}
               /\ db.item[i].st \in {"NOT_DISPATCHED", "SKIPPED"} \/ db.item[i].why = "INPUT_UNAVAILABLE"
                    => rt.ran[i] = 0 /\ i \notin posts
    <3>1. RowOk(i, db.item[i]) /\ rt.ran[i] <= 1 /\ (rt.rcpt[i] = "none" => rt.ran[i] = 0)
      BY DEF BatchInv, RecordsInv, RowsInv, FlightInv
    <3> QED BY <3>1 DEF RowOk
  <2>3. ItemIsTrue
    BY <2>1, <2>2 DEF ItemIsTrue
  <2>4. ResultIsTrue
    <3>1. db.obs = "RESULT" => db.res # NoOutput
      BY DEF BatchInv, RecordsInv, ResultInv
    <3>2. CASE db.res # NoOutput
      <4>1. /\ db.res = Public /\ db.parent = BatchStatus(db.res)
            /\ \A i \in Images : db.item[i].st \in Final
        BY <3>2 DEF BatchInv, RecordsInv, ResultInv
      <4>2. \A i \in Images : db.res[i] = db.item[i].st
        BY <4>1 DEF Public
      <4>3. db.parent \in Statuses
        BY <4>1 DEF BatchStatus, Statuses
      <4>4. (db.parent = "SUCCEEDED") <=> Good(db.res) = Images
        BY <4>1 DEF BatchStatus
      <4>5. (db.parent = "FAILED") <=> Good(db.res) = {}
        BY <4>1, ImagesFacts DEF BatchStatus
      <4>6. Good(db.res) = Images <=> \A i \in Images : db.item[i].st = "SUCCEEDED"
        BY <4>2 DEF Good
      <4>7. Good(db.res) = {} <=> \A i \in Images : db.item[i].st # "SUCCEEDED"
        BY <4>2 DEF Good
      <4> QED BY <3>1, <4>1, <4>2, <4>3, <4>4, <4>5, <4>6, <4>7 DEF ResultIsTrue
    <3> QED BY <3>1, <3>2 DEF ResultIsTrue
  <2> QED BY <2>3, <2>4 DEF RecordsAreTrue
<1> QED BY <1>1, BatchInvHolds, PTL

\* Deleting the conversation loses no trace of a computation
\* (tool_run_item.py:55-70).
THEOREM DeletionCleansUp == BatchSpec => []CleanedUp
<1>1. BatchInv => CleanedUp
  BY InFlight DEF CleanedUp, BatchInv, RecordsInv, DeletedInv
<1> QED BY <1>1, BatchInvHolds, PTL

-----------------------------------------------------------------------------
(* Who starts an image *)

\* Only the transaction that marks an image as sent needs a run that is RUNNING;
\* every other one leaves the set of the images that are being sent, or shrinks it.
LEMMA UpdateStarts ==
  ASSUME BatchInv, NEW t \in Threads, NEW s, NEW rcpt, NEW why, NEW next,
         Update(t, s, rcpt, why, next), NEW i \in Images,
         db.item[i].st # "DISPATCHED", db'.item[i].st = "DISPATCHED"
  PROVE  db.run = "RUNNING"
<1>1. PICK item : item = Updated(t, s, rcpt, why)
  OBVIOUS
<1>2. /\ Fenced(t, s = "DISPATCHED") /\ db' = [db EXCEPT !.item[Img(t)] = item]
  BY <1>1 DEF Update, Write
<1>3. db'.item = [db.item EXCEPT ![Img(t)] = item] /\ db.item \in [Images -> Items]
  BY <1>2 DEF BatchInv, RecordsInv, TypeInv, Rows
<1>4. item.st = "DISPATCHED"
  BY <1>3
<1>5. s = "DISPATCHED"
  BY <1>1, <1>4 DEF Updated
<1> QED BY <1>2, <1>5 DEF Fenced, Owns, Late

LEMMA WorkStarts ==
  ASSUME BatchInv, NEW t \in Threads, Work(t), NEW i \in Images,
         db.item[i].st # "DISPATCHED", db'.item[i].st = "DISPATCHED"
  PROVE  db.run = "RUNNING"
<1>1. db \in Rows
  BY DEF BatchInv, RecordsInv, TypeInv
<1>2. \A s, rcpt, why, next : Update(t, s, rcpt, why, next) => db.run = "RUNNING"
  BY UpdateStarts
<1>3. CASE Skip(t) \/ Lose(t) \/ Mark(t) \/ Back(t) \/ Fail(t) \/ Close(t)
  BY <1>2, <1>3 DEF Skip, Lose, Mark, Back, Fail, Close
<1>4. CASE Receive(t)
  <2>1. db' # db
    OBVIOUS
  <2> QED BY <1>2, <1>4, <2>1 DEF Receive
<1>5. CASE Load(t)
  <2>1. db' = [db EXCEPT !.item = FreshRows]
    BY <1>5 DEF Load, Write, FreshRows
  <2>2. db'.item = FreshRows
    BY <1>1, <2>1 DEF Rows
  <2> QED BY <2>2, FreshTyped
<1>6. db'.item # db.item
  OBVIOUS
<1>7. CASE Begin(t) \/ Plan(t) \/ Start(t)
  BY <1>1, <1>6, <1>7 DEF Begin, Plan, Start, Write, Rows
<1>8. CASE Ready(t) \/ Post(t) \/ GiveUp(t) \/ Lookup(t)
  BY <1>6, <1>8 DEF Ready, Post, GiveUp, Lookup
<1>9. CASE Save(t) \/ Record(t) \/ Commit(t)
  BY <1>1, <1>6, <1>9 DEF Save, Record, Commit, Write, Rows
<1>10. CASE Settle(t) \/ Undo(t) \/ Repair(t)
  BY <1>1, <1>6, <1>10 DEF Settle, Undo, Repair, Rows
<1>11. CASE Tell(t) \/ Leave(t)
  BY <1>1, <1>6, <1>11 DEF Tell, Leave, Rows
<1> QED BY <1>3, <1>4, <1>5, <1>7, <1>8, <1>9, <1>10, <1>11 DEF Work

\* An image is marked as sent only while the run is RUNNING
\* (unit_of_work.py:270-275).
THEOREM OwnersStart == BatchSpec => OnlyOwnersStart
<1> DEFINE Starts == \A i \in Images : db.item[i].st # "DISPATCHED" /\ db'.item[i].st = "DISPATCHED"
                                         => db.run = "RUNNING"
<1>1. BatchInv /\ [BatchNext]_batchVars => [Starts]_batchVars
  <2> SUFFICES ASSUME BatchInv, BatchNext, NEW i \in Images,
                      db.item[i].st # "DISPATCHED", db'.item[i].st = "DISPATCHED"
               PROVE  db.run = "RUNNING"
    OBVIOUS
  <2>1. db \in Rows /\ db'.item # db.item
    BY DEF BatchInv, RecordsInv, TypeInv
  <2>2. CASE \E t \in Threads : Work(t)
    BY <2>2, WorkStarts
  <2>3. CASE Finish \/ Stop \/ Resume \/ Claim \/ Reconcile \/ Shutdown \/ Restart
    BY <2>1, <2>3 DEF Finish, Stop, Resume, Claim, Reconcile, Shutdown, Restart, Rows
  <2>4. CASE \E k \in Images : TurnAway(k) \/ Accept(k) \/ Tombstone(k)
    BY <2>1, <2>4 DEF TurnAway, Accept, Tombstone
  <2>5. CASE Compute \/ RtClose \/ RtDown \/ RtStart
    BY <2>1, <2>5 DEF Compute, RtClose, RtDown, RtStart
  <2>6. CASE Delete \/ Unlink
    BY <2>1, <2>6 DEF Delete, Unlink, Rows
  <2> QED BY <2>2, <2>3, <2>4, <2>5, <2>6 DEF BatchNext
<1>2. BatchSpec => [][Starts]_batchVars
  BY <1>1, BatchInvHolds, PTL DEF BatchSpec
<1> QED BY <1>2 DEF OnlyOwnersStart

-----------------------------------------------------------------------------
(***************************************************************************)
(* Theorems about module Deletion, for every number of requests, deletions *)
(* and failures: no object of ours is left without a trace, the platform   *)
(* and the ML service decide a deletion alike, and nothing starts in the   *)
(* service for a conversation that is fenced or gone.                      *)
(*                                                                         *)
(* The argument: a deletion commits only when nothing is at work, and      *)
(* nothing starts while the row is fenced or gone.  So whoever still holds *)
(* an object, a request or an answer of before finds the row in the state  *)
(* that its own transaction refuses.                                       *)
(***************************************************************************)

-----------------------------------------------------------------------------
(* The inductive invariant *)

\* The values of the variables that TypeOK leaves out.
SendRecords == [pc : {"idle", "asked", "send", "read", "look", "adopt", "resume"},
             ver : Nat, seen : Nat, saw : {"none", "PENDING", "ENDED", "UNAVAILABLE"},
             again : BOOLEAN]
AgentRecords == [pc : {"idle", "look", "close", "fact", "local"}, op : Deletions \cup {None},
           got : {"none", "UNKNOWN", "BUSY", "CLOSED"}]
Placed ==
  /\ drain \in [Assets -> {"idle", "mine", "gone"}]
  /\ up \in [Uploaders -> {"idle", "put", "commit", "found"}]
  /\ maker \in {"idle", "put", "commit"}
  /\ turn \in {"idle", "running", "interrupted"}
  /\ inv \in {"none", "RUNNING", "UNKNOWN", "SUCCEEDED", "FOUND"}
  /\ send \in [Senders -> SendRecords]
  /\ agent \in [Deleters -> AgentRecords]
  /\ net \subseteq {"start", "upload"}

\* One asset: an object of ours has a row or a record that will look for it; a
\* record is made by the deletion, and only then is its object looked at.
AssetOk(a) ==
  /\ obj[a] = "own" => row[a] # "none" \/ record[a] = "PENDING"
  /\ row[a] = "AVAILABLE" => obj[a] = "own"
  /\ conv.alive => record[a] = "none"
  /\ ~conv.alive => row[a] = "none"
  /\ record[a] = "none" => drain[a] = "idle"
  /\ drain[a] = "gone" => obj[a] # "own"
  /\ drain[a] = "mine" => obj[a] # "foreign"

\* A request that uploads keeps the conversation and its row; what it has stored
\* or found is there as long as the conversation is.
UploaderOk(u) ==
  /\ up[u] \in {"put", "commit"} => conv.alive /\ row[Uploaded] # "none"
  /\ up[u] \in {"commit", "found"} /\ conv.alive => obj[Uploaded] = "own"

\* The thread that stores the produced image lives within its turn.
MakerOk ==
  /\ maker # "idle" => turn = "running" /\ row[Produced] = "PENDING"
  /\ maker = "commit" => obj[Produced] = "own"
  /\ ~conv.alive => turn = "idle"

ImagesOk ==
  /\ obj[Uploaded] # "foreign"
  /\ \A a \in Assets : AssetOk(a)
  /\ \A u \in Uploaders : UploaderOk(u)
  /\ MakerOk

\* One deletion: a live conversation is fenced by the one that is undecided; what
\* is decided was said by the service, and an unheard one is not decided.
Undecided == {"DELETE_PENDING", "RECONCILING"}
DeletionOk(d) ==
  /\ conv.alive /\ conv.fence = d => del[d].st \in Undecided
  /\ conv.alive /\ del[d].st \in Undecided => conv.fence = d
  /\ del[d].got = "CLOSED" => scope.said[d] = "CLOSED"
  /\ del[d].st = "REJECTED_BUSY" => scope.said[d] = "BUSY"
  /\ del[d].st = "COMPLETED" => scope.said[d] = "CLOSED"
  /\ scope.said[d] = "CLOSED" => scope.closed

\* A deleter works for a deletion that was begun, and heard what the service said.
AgentOk(a) ==
  /\ agent[a].pc \in {"look", "close", "fact"} =>
       agent[a].op \in Deletions /\ del[agent[a].op].st # "none"
  /\ agent[a].pc = "fact" /\ agent[a].got \in {"BUSY", "CLOSED"} =>
       scope.said[agent[a].op] = agent[a].got

\* A closed scope belongs to a conversation that is gone, or fenced by the very
\* deletion it was closed for.
ScopeOk ==
  /\ scope.closed /\ conv.alive =>
       conv.fence \in Deletions /\ scope.said[conv.fence] = "CLOSED"
  /\ ~conv.alive /\ conv.bound => scope.closed

DecisionOk ==
  /\ \A d \in Deletions : DeletionOk(d)
  /\ \A a \in Deleters : AgentOk(a)
  /\ ScopeOk

\* The call: a request on its way was recorded, a settled call has its job.
CallOk ==
  /\ inv = "none" => "start" \notin net
  /\ inv \in {"SUCCEEDED", "FOUND"} => remote.job # "none"
  /\ ~Writable => inv \in {"none", "SUCCEEDED", "FOUND"}

\* The dataset: nothing is sent before its row, and a resolved row was registered
\* from a dataset that had ended.
DatasetOk ==
  /\ op.st = "none" => "upload" \notin net /\ remote.data = "none"
  /\ op.st = "RESOLVED" => remote.data = "ENDED"
  /\ ~Writable => op.st \in {"none", "RESOLVED"}
SenderOk(s) ==
  /\ send[s].pc \notin {"idle", "asked"} => op.st # "none"
  /\ send[s].pc = "adopt" /\ send[s].saw = "ENDED" => remote.data = "ENDED"

ServiceOk == CallOk /\ DatasetOk /\ \A s \in Senders : SenderOk(s)

DeletionInv == TypeOK /\ Placed /\ ImagesOk /\ DecisionOk /\ ServiceOk

-----------------------------------------------------------------------------
(* Types *)

\* A deletion, a deleter and a sender, field by field.
LEMMA DeletionType ==
  ASSUME TypeOK, NEW d \in Deletions
  PROVE  /\ del[d] \in [st : {"none", "DELETE_PENDING", "RECONCILING", "REJECTED_BUSY", "COMPLETED"},
                        got : {"none", "UNKNOWN", "BUSY", "CLOSED"}, ver : Nat]
         /\ scope.said[d] \in {"NOT_FOUND", "BUSY", "CLOSED"}
BY DEF TypeOK

\* What a call of the service answers is an answer.
LEMMA AnswerType ==
  ASSUME TypeOK, NEW d \in Deletions
  PROVE  Answer(d) \in {"BUSY", "CLOSED"}
BY DeletionType DEF Answer

\* Only the values of the images, of the calls, of the datasets or of the
\* deletion change, and each keeps its type.
LEMMA ImageTypes ==
  ASSUME TypeOK, Placed,
         \/ \E u \in Uploaders : UploadImage(u) \/ DropImage(u) \/ PutImage(u) \/ ReviewImage(u)
                                 \/ CommitImage(u)
         \/ MakeImage \/ MakeFails \/ MakeStored \/ MakeUnknown \/ MakeConflicts \/ MakeAvailable
         \/ \E a \in Assets : LookObject(a) \/ DeleteObject(a) \/ CompleteRecord(a)
  PROVE  TypeOK' /\ Placed'
<1> USE DEF TypeOK, Placed, images, datasets, calls, service
<1>0. Uploaded \in Assets /\ Produced \in Assets
  BY DEF Assets
<1>1. ASSUME NEW u \in Uploaders, UploadImage(u) PROVE TypeOK' /\ Placed'
  BY <1>0, <1>1 DEF UploadImage
<1>2. ASSUME NEW u \in Uploaders, DropImage(u) PROVE TypeOK' /\ Placed'
  BY <1>0, <1>2 DEF DropImage
<1>3. ASSUME NEW u \in Uploaders, PutImage(u) PROVE TypeOK' /\ Placed'
  BY <1>0, <1>3 DEF PutImage
<1>4. ASSUME NEW u \in Uploaders, ReviewImage(u) PROVE TypeOK' /\ Placed'
  BY <1>0, <1>4 DEF ReviewImage
<1>5. ASSUME NEW u \in Uploaders, CommitImage(u) PROVE TypeOK' /\ Placed'
  BY <1>0, <1>5 DEF CommitImage
<1>6. CASE MakeImage
  BY <1>0, <1>6 DEF MakeImage
<1>7. CASE MakeFails
  BY <1>0, <1>7 DEF MakeFails
<1>8. CASE MakeStored
  BY <1>0, <1>8 DEF MakeStored
<1>9. CASE MakeUnknown
  BY <1>0, <1>9 DEF MakeUnknown
<1>10. CASE MakeConflicts
  BY <1>0, <1>10 DEF MakeConflicts
<1>11. CASE MakeAvailable
  BY <1>0, <1>11 DEF MakeAvailable
<1>12. ASSUME NEW a \in Assets, LookObject(a) PROVE TypeOK' /\ Placed'
  <2>1. /\ drain' = drain \/ \E at \in {"mine", "gone"} : drain' = [drain EXCEPT ![a] = at]
        /\ record' = record \/ record' = [record EXCEPT ![a] = "SAFETY_BLOCKED"]
    BY <1>12 DEF LookObject
  <2>2. drain' \in [Assets -> {"idle", "mine", "gone"}]
    BY <2>1
  <2>3. record' \in [Assets -> {"none", "PENDING", "COMPLETED", "SAFETY_BLOCKED"}]
    BY <2>1
  <2>4. UNCHANGED <<row, obj, up, maker, conv, del, agent, op, send, turn, inv, scope, net, remote>>
    BY <1>12 DEF LookObject
  <2> QED BY <2>2, <2>3, <2>4
<1>13. ASSUME NEW a \in Assets, DeleteObject(a) PROVE TypeOK' /\ Placed'
  BY <1>0, <1>13 DEF DeleteObject
<1>14. ASSUME NEW a \in Assets, CompleteRecord(a) PROVE TypeOK' /\ Placed'
  BY <1>0, <1>14 DEF CompleteRecord
<1> QED BY <1>1, <1>2, <1>3, <1>4, <1>5, <1>6, <1>7, <1>8, <1>9, <1>10, <1>11, <1>12, <1>13, <1>14

LEMMA CallTypes ==
  ASSUME TypeOK, Placed,
         \/ StartTurn \/ StartCall \/ CallAnswered \/ CallFound \/ EndTurn
         \/ ArriveStart \/ ArriveUpload \/ JobEnds \/ DatasetEnds
  PROVE  TypeOK' /\ Placed'
<1> USE DEF TypeOK, Placed, images, datasets, calls, service
<1>1. CASE StartTurn
  BY <1>1 DEF StartTurn
<1>2. CASE StartCall
  BY ZenonT(40), <1>2 DEF StartCall
<1>3. CASE CallAnswered
  BY <1>3 DEF CallAnswered
<1>4. CASE CallFound
  BY <1>4 DEF CallFound
<1>5. CASE EndTurn
  BY <1>5 DEF EndTurn
<1>6. CASE ArriveStart
  BY <1>6 DEF ArriveStart
<1>7. CASE ArriveUpload
  BY <1>7 DEF ArriveUpload
<1>8. CASE JobEnds
  BY <1>8 DEF JobEnds
<1>9. CASE DatasetEnds
  BY <1>9 DEF DatasetEnds
<1> QED BY <1>1, <1>2, <1>3, <1>4, <1>5, <1>6, <1>7, <1>8, <1>9

\* A sender is a record of its fields, and so is what replaces it.
LEMMA SendType ==
  ASSUME Placed, NEW s \in Senders, NEW q \in SendRecords
  PROVE  /\ send[s] \in SendRecords
         /\ [send EXCEPT ![s] = q] \in [Senders -> SendRecords]
BY DEF Placed

LEMMA NoSendType == NoSend \in SendRecords
BY DEF NoSend, SendRecords

LEMMA DatasetTypes ==
  ASSUME TypeOK, Placed, NEW s \in Senders,
         \/ AskUpload(s) \/ RecordUpload(s) \/ SendUpload(s) \/ Recheck(s)
         \/ ReadUpload(s) \/ LookUpload(s) \/ AdoptUpload(s) \/ ResumeUpload(s)
  PROVE  TypeOK' /\ Placed'
<1> DEFINE Rest == /\ UNCHANGED <<del, scope, row, obj, record, drain, up, maker, turn, inv, remote, agent>>
           OpType(p) == p \in [st : {"none", "DISPATCHED", "OUTCOME_UNKNOWN", "REMOTE_PENDING", "RESOLVED"},
                               known : BOOLEAN, ver : Nat]
<1>0. /\ send[s] \in SendRecords /\ NoSend \in SendRecords
      /\ OpType(op) /\ conv.ver \in Nat
  BY NoSendType DEF Placed, TypeOK
<1>1. /\ Rest
      /\ \E q \in SendRecords : send' = [send EXCEPT ![s] = q]
      /\ OpType(op')
      /\ conv' = conv \/ conv' = [conv EXCEPT !.bound = TRUE]
      /\ net' \subseteq net \cup {"upload"}
  <2> USE DEF images, calls, service
  <2>1. CASE AskUpload(s)
    <3> DEFINE q == [NoSend EXCEPT !.pc = "asked", !.ver = conv.ver]
    <3>1. q \in SendRecords
      BY <1>0 DEF SendRecords
    <3> QED BY <2>1, <3>1, <1>0 DEF AskUpload
  <2>2. CASE RecordUpload(s)
    <3> DEFINE q == [send[s] EXCEPT !.pc = IF op.st = "none" THEN "send" ELSE "read",
                                    !.again = op.st # "none"]
    <3>1. q \in SendRecords
      BY <1>0 DEF SendRecords
    <3>2. send' = [send EXCEPT ![s] = q] \/ send' = [send EXCEPT ![s] = NoSend]
      BY <2>2 DEF RecordUpload, Placed
    <3>3. OpType(op') /\ (conv' = conv \/ conv' = [conv EXCEPT !.bound = TRUE])
      BY <2>2, <1>0 DEF RecordUpload
    <3> QED BY <2>2, <3>1, <3>2, <3>3, <1>0 DEF RecordUpload
  <2>3. CASE SendUpload(s)
    <3> DEFINE q == [send[s] EXCEPT !.pc = "read", !.again = FALSE]
    <3>1. q \in SendRecords
      BY <1>0 DEF SendRecords
    <3>2. send' = [send EXCEPT ![s] = q]
      BY <2>3 DEF SendUpload, Placed
    <3> QED BY <2>3, <3>1, <3>2, <1>0 DEF SendUpload
  <2>4. CASE Recheck(s)
    <3> DEFINE q == [NoSend EXCEPT !.pc = "read"]
    <3>1. q \in SendRecords
      BY <1>0 DEF SendRecords
    <3> QED BY <2>4, <3>1, <1>0 DEF Recheck, datasets
  <2>5. CASE ReadUpload(s)
    <3> DEFINE q == IF op.st = "RESOLVED" THEN NoSend
                    ELSE [send[s] EXCEPT !.pc = "look", !.seen = op.ver]
    <3>1. q \in SendRecords
      BY <1>0 DEF SendRecords
    <3>2. send' = [send EXCEPT ![s] = q]
      BY <2>5 DEF ReadUpload, Placed
    <3> QED BY <2>5, <3>1, <3>2, <1>0 DEF ReadUpload
  <2>6. CASE LookUpload(s)
    <3> DEFINE q(saw) == [send[s] EXCEPT !.pc = "adopt", !.saw = saw]
    <3>1. q(remote.data) \in SendRecords /\ q("UNAVAILABLE") \in SendRecords
      BY <1>0 DEF SendRecords, TypeOK
    <3>2. send' = [send EXCEPT ![s] = q(remote.data)] \/ send' = [send EXCEPT ![s] = q("UNAVAILABLE")]
      BY <2>6 DEF LookUpload, Placed
    <3> QED BY <2>6, <3>1, <3>2, <1>0 DEF LookUpload
  <2>7. CASE AdoptUpload(s)
    <3> DEFINE q == IF send[s].again /\ conv.alive /\ op'.st = "REMOTE_PENDING"
                      THEN [send[s] EXCEPT !.pc = "resume"] ELSE NoSend
    <3>1. q \in SendRecords
      BY <1>0 DEF SendRecords
    <3>2. send' = [send EXCEPT ![s] = q]
      BY <2>7 DEF AdoptUpload, Placed
    <3>3. OpType(Adopted(s))
      <4>1. op.st \in {"none", "DISPATCHED", "OUTCOME_UNKNOWN", "REMOTE_PENDING", "RESOLVED"}
            /\ op.known \in BOOLEAN /\ op.ver + 1 \in Nat
        BY <1>0
      <4>2. /\ OpType([st |-> "RESOLVED", known |-> TRUE, ver |-> op.ver + 1])
            /\ OpType([st |-> "REMOTE_PENDING", known |-> TRUE, ver |-> op.ver + 1])
        BY <4>1
      <4>3. OpType([op EXCEPT !.st = IF op.known THEN op.st ELSE "OUTCOME_UNKNOWN",
                              !.ver = op.ver + 1])
        BY <4>1, <1>0
      <4> QED BY <4>2, <4>3 DEF Adopted
    <3> QED BY <2>7, <3>1, <3>2, <3>3, <1>0 DEF AdoptUpload
  <2>8. CASE ResumeUpload(s)
    <3> DEFINE q == [send[s] EXCEPT !.pc = "send"]
    <3>1. q \in SendRecords
      BY <1>0 DEF SendRecords
    <3>2. send' = [send EXCEPT ![s] = q] \/ send' = [send EXCEPT ![s] = NoSend]
      BY <2>8 DEF ResumeUpload, Placed
    <3>3. OpType(op')
      <4>1. op.ver + 1 \in Nat
        BY <1>0
      <4>2. \A n \in Nat : OpType([op EXCEPT !.st = "DISPATCHED", !.ver = n])
        BY <1>0
      <4> QED BY <2>8, <4>1, <4>2, <1>0 DEF ResumeUpload
    <3> QED BY <2>8, <3>1, <3>2, <3>3, <1>0 DEF ResumeUpload
  <2> QED BY <2>1, <2>2, <2>3, <2>4, <2>5, <2>6, <2>7, <2>8
<1>2. send' \in [Senders -> SendRecords]
  BY <1>1, SendType
<1>3. conv' \in [alive : BOOLEAN, fence : Deletions \cup {None}, ver : Nat, bound : BOOLEAN]
  <2>1. conv \in [alive : BOOLEAN, fence : Deletions \cup {None}, ver : Nat, bound : BOOLEAN]
    BY DEF TypeOK
  <2>2. conv' = conv \/ conv' = [conv EXCEPT !.bound = TRUE]
    BY <1>1
  <2> QED BY <2>1, <2>2
<1>4. net' \subseteq {"start", "upload"}
  BY <1>1 DEF Placed
<1> HIDE DEF OpType
<1>5. OpType(op')
  BY <1>1
<1> QED BY <1>1, <1>2, <1>3, <1>4, <1>5 DEF TypeOK, Placed, OpType

LEMMA AgentType ==
  ASSUME Placed, NEW a \in Deleters, NEW q \in AgentRecords
  PROVE  /\ agent[a] \in AgentRecords
         /\ [agent EXCEPT ![a] = q] \in [Deleters -> AgentRecords]
BY DEF Placed

\* What a deleter becomes in its steps is a deleter.
LEMMA AgentRecordTypes ==
  ASSUME TypeOK, Placed, NEW a \in Deleters
  PROVE  /\ NoAgent \in AgentRecords
         /\ [NoAgent EXCEPT !.pc = "local"] \in AgentRecords
         /\ \A d \in Deletions : [NoAgent EXCEPT !.pc = "look", !.op = d] \in AgentRecords
         /\ [agent[a] EXCEPT !.pc = "close"] \in AgentRecords
         /\ [agent[a] EXCEPT !.pc = "local"] \in AgentRecords
         /\ \A got \in {"UNKNOWN", "BUSY", "CLOSED"} :
              [agent[a] EXCEPT !.pc = "fact", !.got = got] \in AgentRecords
<1>1. agent[a] \in AgentRecords
  BY DEF Placed
<1> QED BY <1>1 DEF AgentRecords, NoAgent

\* The row of the conversation after a transaction.
LEMMA ConvTypes ==
  ASSUME TypeOK
  PROVE  LET ConvType == [alive : BOOLEAN, fence : Deletions \cup {None}, ver : Nat, bound : BOOLEAN] IN
         /\ conv \in ConvType
         /\ [conv EXCEPT !.alive = FALSE] \in ConvType
         /\ [conv EXCEPT !.bound = TRUE] \in ConvType
         /\ [conv EXCEPT !.fence = None, !.ver = @ + 1] \in ConvType
         /\ \A d \in Deletions : [conv EXCEPT !.fence = d, !.ver = @ + 1] \in ConvType
<1> DEFINE ConvType == [alive : BOOLEAN, fence : Deletions \cup {None}, ver : Nat, bound : BOOLEAN]
<1>1. conv \in ConvType
  BY DEF TypeOK
<1>2. conv.ver + 1 \in Nat
  BY <1>1
<1>3. /\ [conv EXCEPT !.alive = FALSE] \in ConvType
      /\ [conv EXCEPT !.bound = TRUE] \in ConvType
  BY <1>1
<1>4. \A f \in Deletions \cup {None}, n \in Nat : [conv EXCEPT !.fence = f, !.ver = n] \in ConvType
  BY <1>1
<1> QED BY <1>1, <1>2, <1>3, <1>4

\* The steps of a deleter, one by one: what changes of its own record, and of
\* the deletion it is about.
LEMMA DeleterTypes ==
  ASSUME TypeOK, Placed, NEW a \in Deleters,
         \/ BeginDelete(a) \/ ResumeDelete(a) \/ LookClose(a) \/ CloseScope(a)
         \/ Fact(a) \/ DeleteLocal(a),
         agent[a].pc \in {"look", "close", "fact"} => agent[a].op \in Deletions
  PROVE  TypeOK' /\ Placed'
<1> DEFINE Rest == UNCHANGED <<obj, drain, up, maker, turn, inv, op, send, net, remote>>
           DelType == [st : {"none", "DELETE_PENDING", "RECONCILING", "REJECTED_BUSY", "COMPLETED"},
                       got : {"none", "UNKNOWN", "BUSY", "CLOSED"}, ver : Nat]
           ConvType == [alive : BOOLEAN, fence : Deletions \cup {None}, ver : Nat, bound : BOOLEAN]
<1>0. del \in [Deletions -> DelType] /\ conv \in ConvType
  BY DEF TypeOK
<1>1. agent' \in [Deleters -> AgentRecords]
  <2> SUFFICES \E q \in AgentRecords : agent' = [agent EXCEPT ![a] = q]
    BY AgentType
  <2> USE AgentRecordTypes
  <2>0. \A q : [agent EXCEPT ![a] = q] = [agent EXCEPT ![a] = q]
    OBVIOUS
  <2>1. CASE BeginDelete(a)
    <3> conv.fence # None => conv.fence \in Deletions
      BY <1>0
    <3> QED BY <2>1 DEF BeginDelete
  <2>2. CASE ResumeDelete(a)
    BY <2>2 DEF ResumeDelete
  <2>3. CASE LookClose(a)
    <3> DEFINE q(got) == [agent[a] EXCEPT !.pc = "fact", !.got = got]
               said == scope.said[agent[a].op]
    <3>1. agent[a].op \in Deletions
      BY <2>3 DEF LookClose
    <3>2. said \in {"NOT_FOUND", "BUSY", "CLOSED"}
      BY <3>1, DeletionType
    <3>3. \/ agent' = [agent EXCEPT ![a] = q("UNKNOWN")]
          \/ said = "NOT_FOUND" /\ agent' = [agent EXCEPT ![a] = [agent[a] EXCEPT !.pc = "close"]]
          \/ said # "NOT_FOUND" /\ agent' = [agent EXCEPT ![a] = q(said)]
      BY <2>3 DEF LookClose, Placed
    <3>4. q("UNKNOWN") \in AgentRecords /\ (said # "NOT_FOUND" => q(said) \in AgentRecords)
      BY <3>2
    <3> HIDE DEF q, said
    <3> QED BY <3>3, <3>4
  <2>4. CASE CloseScope(a)
    <3> DEFINE q(got) == [agent[a] EXCEPT !.pc = "fact", !.got = got]
    <3>1. Answer(agent[a].op) \in {"BUSY", "CLOSED"}
      BY <2>4, AnswerType DEF CloseScope
    <3>2. \/ agent' = [agent EXCEPT ![a] = q("UNKNOWN")]
          \/ agent' = [agent EXCEPT ![a] = q(Answer(agent[a].op))]
      BY <2>4 DEF CloseScope, Placed
    <3>3. q("UNKNOWN") \in AgentRecords /\ q(Answer(agent[a].op)) \in AgentRecords
      BY <3>1
    <3> HIDE DEF q
    <3> QED BY <3>2, <3>3
  <2>5. CASE Fact(a)
    <3>1. \/ agent' = [agent EXCEPT ![a] = [agent[a] EXCEPT !.pc = "local"]]
          \/ agent' = [agent EXCEPT ![a] = NoAgent]
      BY <2>5 DEF Fact, Placed
    <3> QED BY <3>1
  <2>6. CASE DeleteLocal(a)
    BY <2>6 DEF DeleteLocal
  <2> QED BY <2>1, <2>2, <2>3, <2>4, <2>5, <2>6
<1>2. conv' \in ConvType
  <2>1. \/ conv' = conv
        \/ conv' = [conv EXCEPT !.alive = FALSE]
        \/ conv' = [conv EXCEPT !.fence = None, !.ver = @ + 1]
        \/ \E d \in Deletions : conv' = [conv EXCEPT !.fence = d, !.ver = @ + 1]
    BY DEF BeginDelete, ResumeDelete, LookClose, CloseScope, Fact, DeleteLocal
  <2> QED BY <2>1, ConvTypes
<1>3. del' \in [Deletions -> DelType]
  <2>1. \/ del' = del
        \/ \E d \in Deletions, p \in DelType : del' = [del EXCEPT ![d] = p]
    <3>1. CASE BeginDelete(a)
      <4>1. \A d \in Deletions :
              [st |-> "DELETE_PENDING", got |-> "none", ver |-> conv.ver + 1] \in DelType
        BY <1>0
      <4> QED BY <3>1, <4>1 DEF BeginDelete
    <3>2. CASE Fact(a)
      <4> DEFINE d == agent[a].op
                 got == IF del[d].got = "CLOSED" THEN "CLOSED" ELSE agent[a].got
                 p == [del[d] EXCEPT !.st = IF got = "BUSY" THEN "REJECTED_BUSY" ELSE "RECONCILING",
                                     !.got = got]
      <4>1. d \in Deletions /\ del[d] \in DelType
        BY <3>2, <1>0 DEF Fact
      <4>2. agent[a].got \in {"none", "UNKNOWN", "BUSY", "CLOSED"}
        BY DEF Placed, AgentRecords
      <4>3. got \in {"none", "UNKNOWN", "BUSY", "CLOSED"}
        BY <4>2
      <4>4. p \in DelType
        <5> HIDE DEF d, got
        <5> QED BY <4>1, <4>3
      <4>5. del' = del \/ del' = [del EXCEPT ![d].st = IF got = "BUSY" THEN "REJECTED_BUSY" ELSE "RECONCILING",
                                             ![d].got = got]
        BY <3>2 DEF Fact
      <4>6. del' = del \/ del' = [del EXCEPT ![d] = p]
        <5> HIDE DEF d, got
        <5> QED BY <4>5, <4>1, <1>0
      <4> HIDE DEF p, d
      <4> QED BY <4>4, <4>6, <4>1
    <3>3. CASE DeleteLocal(a)
      <4> DEFINE d == agent[a].op
                 p == [del[d] EXCEPT !.st = "COMPLETED"]
      <4>1. del' = del \/ (d # None /\ del' = [del EXCEPT ![d].st = "COMPLETED"])
        BY <3>3 DEF DeleteLocal
      <4>2. d \in Deletions \cup {None}
        BY DEF Placed, AgentRecords
      <4>3. d # None => del[d] \in DelType
        BY <4>2, <1>0
      <4>4. d # None => p \in DelType /\ [del EXCEPT ![d].st = "COMPLETED"] = [del EXCEPT ![d] = p]
        <5> HIDE DEF d
        <5> QED BY <4>3, <4>2, <1>0
      <4> HIDE DEF p, d
      <4> QED BY <4>1, <4>2, <4>4
    <3>4. CASE ResumeDelete(a) \/ LookClose(a) \/ CloseScope(a)
      BY <3>4 DEF ResumeDelete, LookClose, CloseScope
    <3> QED BY <3>1, <3>2, <3>3, <3>4
  <2> HIDE DEF DelType
  <2> QED BY <2>1, <1>0
<1>4. scope' \in [closed : BOOLEAN, said : [Deletions -> {"NOT_FOUND", "BUSY", "CLOSED"}]]
  <2>1. CASE CloseScope(a)
    <3> DEFINE d == agent[a].op
    <3>1. Answer(d) \in {"BUSY", "CLOSED"}
      BY <2>1, AnswerType DEF CloseScope
    <3>2. scope' = [closed |-> scope.closed \/ Answer(d) = "CLOSED",
                    said |-> [scope.said EXCEPT ![d] = Answer(d)]]
      BY <2>1 DEF CloseScope
    <3>3. scope.closed \in BOOLEAN /\ scope.said \in [Deletions -> {"NOT_FOUND", "BUSY", "CLOSED"}]
      BY DEF TypeOK
    <3> HIDE DEF d
    <3> QED BY <3>1, <3>2, <3>3
  <2>2. CASE ~CloseScope(a)
    <3>1. scope' = scope
      BY <2>2 DEF BeginDelete, ResumeDelete, LookClose, Fact, DeleteLocal, service
    <3> QED BY <3>1 DEF TypeOK
  <2> QED BY <2>1, <2>2
<1>5. /\ row' \in [Assets -> {"none", "PENDING", "AVAILABLE", "FAILED", "ORPHANED"}]
      /\ record' \in [Assets -> {"none", "PENDING", "COMPLETED", "SAFETY_BLOCKED"}]
  <2>0. /\ row \in [Assets -> {"none", "PENDING", "AVAILABLE", "FAILED", "ORPHANED"}]
        /\ record \in [Assets -> {"none", "PENDING", "COMPLETED", "SAFETY_BLOCKED"}]
    BY DEF TypeOK
  <2>1. CASE DeleteLocal(a)
    <3>1. \/ /\ record' = [b \in Assets |-> IF row[b] # "none" THEN "PENDING" ELSE record[b]]
             /\ row' = [b \in Assets |-> "none"]
          \/ UNCHANGED <<record, row>>
      BY <2>1 DEF DeleteLocal
    <3> QED BY <2>0, <3>1
  <2>2. CASE ~DeleteLocal(a)
    <3>1. UNCHANGED <<record, row>>
      BY <2>2 DEF BeginDelete, ResumeDelete, LookClose, CloseScope, Fact, images
    <3> QED BY <2>0, <3>1
  <2> QED BY <2>1, <2>2
<1>6. Rest
  BY DEF BeginDelete, ResumeDelete, LookClose, CloseScope, Fact, DeleteLocal, images,
         datasets, calls, service
<1> QED BY <1>1, <1>2, <1>3, <1>4, <1>5, <1>6 DEF TypeOK, Placed

LEMMA CrashTypes ==
  ASSUME TypeOK, Placed, Crash
  PROVE  TypeOK' /\ Placed'
<1>1. NoSend \in SendRecords /\ NoAgent \in AgentRecords
  BY NoSendType DEF NoAgent, AgentRecords
<1>2. row' \in [Assets -> {"none", "PENDING", "AVAILABLE", "FAILED", "ORPHANED"}]
  <2>1. row' = row \/ row' = [row EXCEPT ![Produced] = IF @ = "PENDING" THEN "ORPHANED" ELSE @]
    BY DEF Crash
  <2> QED BY <2>1 DEF TypeOK
<1>3. /\ drain' \in [Assets -> {"idle", "mine", "gone"}]
      /\ up' \in [Uploaders -> {"idle", "put", "commit", "found"}]
      /\ send' \in [Senders -> SendRecords]
      /\ agent' \in [Deleters -> AgentRecords]
  BY <1>1 DEF Crash
<1> QED BY <1>2, <1>3 DEF Crash, TypeOK, Placed, service

-----------------------------------------------------------------------------
(* Images *)

LEMMA AssetNames ==
  /\ Uploaded \in Assets /\ Produced \in Assets /\ Uploaded # Produced
  /\ \A a \in Assets : a = Uploaded \/ a = Produced
BY DEF Assets, Uploaded, Produced

\* A step that moves neither an image nor the turn nor the life of the
\* conversation leaves the images in order.
LEMMA ImagesRest ==
  ASSUME ImagesOk, UNCHANGED <<images, turn>>, conv'.alive = conv.alive
  PROVE  ImagesOk'
BY DEF ImagesOk, AssetOk, UploaderOk, MakerOk, images

\* The steps of a request that uploads, in a live conversation or without effect.
LEMMA UploaderImages ==
  ASSUME TypeOK, Placed, ImagesOk, NEW u \in Uploaders,
         \/ UploadImage(u) \/ DropImage(u) \/ PutImage(u) \/ ReviewImage(u) \/ CommitImage(u)
  PROVE  ImagesOk'
<1> USE AssetNames DEF AssetOk, UploaderOk, MakerOk
<1>1. UNCHANGED <<record, drain, maker, turn, conv>>
  BY DEF UploadImage, DropImage, PutImage, ReviewImage, CommitImage, calls
<1>2. CASE UploadImage(u)
  <2>1. /\ row' = [row EXCEPT ![Uploaded] = "PENDING"] /\ obj' = obj /\ conv.alive
        /\ up' = [up EXCEPT ![u] = "put"] /\ row[Uploaded] # "AVAILABLE"
    BY <1>2 DEF UploadImage, Writable
  <2> QED BY <1>1, <2>1 DEF ImagesOk, TypeOK, Placed
<1>3. CASE DropImage(u) \/ PutImage(u)
  <2>1. /\ up[u] = "put" /\ row' = row
        /\ obj' = obj \/ obj' = [obj EXCEPT ![Uploaded] = "own"]
        /\ \/ up' = [up EXCEPT ![u] = "idle"]
           \/ up' = [up EXCEPT ![u] = "commit"] /\ obj' = [obj EXCEPT ![Uploaded] = "own"]
    BY <1>3 DEF DropImage, PutImage, TypeOK
  <2>2. conv.alive /\ row[Uploaded] # "none" /\ obj[Uploaded] # "foreign"
    BY <2>1 DEF ImagesOk
  <2>3. \A a \in Assets : drain[a] = "idle"
    BY <2>2 DEF ImagesOk
  <2> QED BY <1>1, <2>1, <2>2, <2>3 DEF ImagesOk, TypeOK, Placed
<1>4. CASE ReviewImage(u)
  <2>1. UNCHANGED <<row, obj>> /\ obj[Uploaded] = "own" /\ up' = [up EXCEPT ![u] = "found"]
    BY <1>4 DEF ReviewImage
  <2> QED BY <1>1, <2>1 DEF ImagesOk, TypeOK, Placed
<1>5. CASE CommitImage(u)
  <2>1. /\ up[u] \in {"commit", "found"} /\ up' = [up EXCEPT ![u] = "idle"] /\ obj' = obj
        /\ \/ row' = row
           \/ conv.alive /\ row' = [row EXCEPT ![Uploaded] = "AVAILABLE"]
    BY <1>5 DEF CommitImage, Writable
  <2> QED BY <1>1, <2>1 DEF ImagesOk, TypeOK, Placed
<1> QED BY <1>2, <1>3, <1>4, <1>5

\* The thread that stores the produced image.
LEMMA MakerImages ==
  ASSUME TypeOK, Placed, ImagesOk,
         \/ MakeImage \/ MakeFails \/ MakeStored \/ MakeUnknown \/ MakeConflicts \/ MakeAvailable
  PROVE  ImagesOk'
<1> USE AssetNames DEF AssetOk, UploaderOk, MakerOk
<1>1. UNCHANGED <<record, drain, up, turn, conv>>
  BY DEF MakeImage, MakeFails, MakeStored, MakeUnknown, MakeConflicts, MakeAvailable, calls
<1>2. turn = "running" /\ conv.alive
  <2>1. maker # "idle" \/ turn = "running"
    BY DEF MakeImage, MakeFails, MakeStored, MakeUnknown, MakeConflicts, MakeAvailable
  <2> QED BY <2>1 DEF ImagesOk
<1>3. \A a \in Assets : drain[a] = "idle"
  BY <1>2 DEF ImagesOk
<1>4. CASE MakeImage
  <2>1. /\ row[Produced] = "none" /\ row' = [row EXCEPT ![Produced] = "PENDING"]
        /\ maker' = "put" /\ obj' = obj
    BY <1>4 DEF MakeImage
  <2> QED BY <1>1, <1>2, <1>3, <2>1 DEF ImagesOk, TypeOK, Placed
<1>5. CASE MakeFails \/ MakeConflicts
  <2>1. /\ row' = [row EXCEPT ![Produced] = "FAILED"] \/ row' = [row EXCEPT ![Produced] = "ORPHANED"]
        /\ maker' = "idle" /\ obj' = obj
    BY <1>5 DEF MakeFails, MakeConflicts
  <2> QED BY <1>1, <1>2, <1>3, <2>1 DEF ImagesOk, TypeOK, Placed
<1>6. CASE MakeStored \/ MakeUnknown
  <2>1. /\ maker # "idle" /\ row' = row
        /\ obj' = obj \/ obj' = [obj EXCEPT ![Produced] = "own"]
        /\ \/ maker' = "idle"
           \/ maker' = "commit" /\ obj' = [obj EXCEPT ![Produced] = "own"]
    BY <1>6 DEF MakeStored, MakeUnknown, TypeOK
  <2> QED BY <1>1, <1>2, <1>3, <2>1 DEF ImagesOk, TypeOK, Placed
<1>7. CASE MakeAvailable
  <2>1. /\ maker = "commit" /\ maker' = "idle" /\ obj' = obj
        /\ row' = [row EXCEPT ![Produced] = "AVAILABLE"] \/ row' = row
    BY <1>7 DEF MakeAvailable
  <2> QED BY <1>1, <1>2, <1>3, <2>1 DEF ImagesOk, TypeOK, Placed
<1> QED BY <1>4, <1>5, <1>6, <1>7

\* The cleanup of a record: the conversation is gone, and nobody stores.
LEMMA CleanupImages ==
  ASSUME TypeOK, Placed, ImagesOk, NEW a \in Assets,
         LookObject(a) \/ DeleteObject(a) \/ CompleteRecord(a)
  PROVE  ImagesOk'
<1> USE AssetNames DEF AssetOk, UploaderOk, MakerOk
<1>1. UNCHANGED <<row, up, maker, turn, conv>>
  BY DEF LookObject, DeleteObject, CompleteRecord, calls
<1>2. record[a] # "none"
  <2>1. record[a] = "PENDING" \/ drain[a] # "idle"
    BY DEF LookObject, DeleteObject, CompleteRecord
  <2> QED BY <2>1 DEF ImagesOk
<1>3. ~conv.alive
  BY <1>2 DEF ImagesOk
<1>4. /\ \A u \in Uploaders : up[u] \notin {"put", "commit"}
      /\ maker = "idle"
  BY <1>3 DEF ImagesOk
<1>5. CASE LookObject(a)
  <2>1. /\ obj' = obj /\ record[a] = "PENDING"
        /\ \/ obj[a] = "none" /\ drain' = [drain EXCEPT ![a] = "gone"] /\ record' = record
           \/ obj[a] = "own" /\ drain' = [drain EXCEPT ![a] = "mine"] /\ record' = record
           \/ obj[a] # "own" /\ record' = [record EXCEPT ![a] = "SAFETY_BLOCKED"] /\ drain' = drain
    BY <1>5 DEF LookObject
  <2> QED BY <1>1, <1>2, <1>3, <1>4, <2>1 DEF ImagesOk, TypeOK, Placed
<1>6. CASE DeleteObject(a)
  <2>1. /\ drain[a] = "mine" /\ obj' = [obj EXCEPT ![a] = "none"] /\ record' = record
        /\ drain' = [drain EXCEPT ![a] = "gone"] \/ drain' = [drain EXCEPT ![a] = "idle"]
    BY <1>6 DEF DeleteObject
  <2> QED BY <1>1, <1>2, <1>3, <1>4, <2>1 DEF ImagesOk, TypeOK, Placed
<1>7. CASE CompleteRecord(a)
  <2>1. /\ drain[a] = "gone" /\ obj' = obj /\ drain' = [drain EXCEPT ![a] = "idle"]
        /\ record' = record \/ record' = [record EXCEPT ![a] = "COMPLETED"]
    BY <1>7 DEF CompleteRecord
  <2> QED BY <1>1, <1>2, <1>3, <1>4, <2>1 DEF ImagesOk, TypeOK, Placed
<1> QED BY <1>5, <1>6, <1>7

\* The turn starts in a live conversation and ends when its threads have ended.
LEMMA TurnImages ==
  ASSUME TypeOK, Placed, ImagesOk,
         StartTurn \/ StartCall \/ CallAnswered \/ CallFound \/ EndTurn
         \/ ArriveStart \/ ArriveUpload \/ JobEnds \/ DatasetEnds
  PROVE  ImagesOk'
<1>1. CASE StartTurn \/ EndTurn
  <2>1. /\ UNCHANGED <<images, conv>>
        /\ \/ conv.alive /\ turn' = "running"
           \/ maker = "idle" /\ turn' = "idle"
        /\ turn = "idle" => turn' = "running"
    BY <1>1 DEF StartTurn, EndTurn, Writable
  <2>2. UNCHANGED <<row, obj, record, drain, up, maker, conv>>
    BY <2>1 DEF images
  <2>3. MakerOk'
    BY <2>1, <2>2 DEF ImagesOk, MakerOk
  <2> QED BY <2>2, <2>3 DEF ImagesOk, AssetOk, UploaderOk
<1>2. CASE ~(StartTurn \/ EndTurn)
  <2>1. UNCHANGED <<images, turn>> /\ (conv' = conv \/ conv' = [conv EXCEPT !.bound = TRUE])
    BY <1>2 DEF StartCall, CallAnswered, CallFound, ArriveStart, ArriveUpload, JobEnds,
                DatasetEnds, calls
  <2> QED BY <2>1, ImagesRest DEF TypeOK
<1> QED BY <1>1, <1>2

LEMMA SenderImages ==
  ASSUME TypeOK, Placed, ImagesOk, NEW s \in Senders,
         \/ AskUpload(s) \/ RecordUpload(s) \/ SendUpload(s) \/ Recheck(s)
         \/ ReadUpload(s) \/ LookUpload(s) \/ AdoptUpload(s) \/ ResumeUpload(s)
  PROVE  ImagesOk'
<1>1. UNCHANGED <<images, turn>> /\ (conv' = conv \/ conv' = [conv EXCEPT !.bound = TRUE])
  BY DEF AskUpload, RecordUpload, SendUpload, Recheck, ReadUpload, LookUpload, AdoptUpload,
         ResumeUpload, calls
<1> QED BY <1>1, ImagesRest DEF TypeOK

\* Only the local deletion moves the images, and it leaves a record of each row.
LEMMA DeleterImages ==
  ASSUME TypeOK, Placed, ImagesOk, NEW a \in Deleters,
         \/ BeginDelete(a) \/ ResumeDelete(a) \/ LookClose(a) \/ CloseScope(a)
         \/ Fact(a) \/ DeleteLocal(a)
  PROVE  ImagesOk'
<1>1. CASE DeleteLocal(a) /\ conv'.alive # conv.alive
  <2>1. /\ conv.alive /\ ~conv'.alive /\ turn = "idle" /\ ~InProgress
        /\ record' = [b \in Assets |-> IF row[b] # "none" THEN "PENDING" ELSE record[b]]
        /\ row' = [b \in Assets |-> "none"]
        /\ UNCHANGED <<obj, drain, up, maker, turn>>
    BY <1>1 DEF DeleteLocal, Idle, calls, TypeOK
  <2>2. maker = "idle" /\ \A u \in Uploaders : up[u] \notin {"put", "commit"}
    BY <2>1 DEF ImagesOk, MakerOk, InProgress
  <2>3. \A b \in Assets : AssetOk(b)'
    <3> SUFFICES ASSUME NEW b \in Assets PROVE AssetOk(b)'
      OBVIOUS
    <3>1. AssetOk(b)
      BY DEF ImagesOk
    <3> QED BY <2>1, <3>1 DEF AssetOk
  <2>4. \A u \in Uploaders : UploaderOk(u)'
    BY <2>1, <2>2 DEF UploaderOk
  <2>5. MakerOk'
    BY <2>1, <2>2 DEF MakerOk
  <2> QED BY <2>1, <2>3, <2>4, <2>5 DEF ImagesOk
<1>2. CASE ~(DeleteLocal(a) /\ conv'.alive # conv.alive)
  <2>1. conv'.alive = conv.alive
    <3>1. \/ conv' = conv \/ conv' = [conv EXCEPT !.fence = None, !.ver = @ + 1]
          \/ \E d \in Deletions : conv' = [conv EXCEPT !.fence = d, !.ver = @ + 1]
          \/ DeleteLocal(a)
      BY DEF BeginDelete, ResumeDelete, LookClose, CloseScope, Fact
    <3> QED BY <3>1, <1>2 DEF TypeOK
  <2>2. UNCHANGED <<images, turn>>
    <3>1. CASE DeleteLocal(a)
      <4>1. ~(conv.alive /\ conv' = [conv EXCEPT !.alive = FALSE])
        BY <2>1 DEF TypeOK
      <4> QED BY <3>1, <4>1 DEF DeleteLocal, images, calls
    <3>2. CASE ~DeleteLocal(a)
      BY <3>2 DEF BeginDelete, ResumeDelete, LookClose, CloseScope, Fact, calls
    <3> QED BY <3>1, <3>2
  <2> QED BY <2>1, <2>2, ImagesRest
<1> QED BY <1>1, <1>2

LEMMA CrashImages ==
  ASSUME TypeOK, Placed, ImagesOk, Crash
  PROVE  ImagesOk'
<1> USE AssetNames
<1>1. /\ UNCHANGED <<conv, obj, record>> /\ maker' = "idle"
      /\ drain' = [b \in Assets |-> "idle"] /\ up' = [u \in Uploaders |-> "idle"]
      /\ turn' = IF turn = "running" THEN "interrupted" ELSE turn
  BY DEF Crash
<1>2. \A a \in Assets : row'[a] = row[a] \/ (row[a] = "PENDING" /\ row'[a] = "ORPHANED")
  <2>1. row' = row \/ row' = [row EXCEPT ![Produced] = IF @ = "PENDING" THEN "ORPHANED" ELSE @]
    BY DEF Crash
  <2> QED BY <2>1 DEF TypeOK
<1> QED BY <1>1, <1>2 DEF ImagesOk, AssetOk, UploaderOk, MakerOk

-----------------------------------------------------------------------------
(* The decision *)

\* What the decision rests on, when neither the deletions nor their scope move:
\* the row may only be bound, and only while it can be written.
LEMMA DecisionRest ==
  ASSUME TypeOK, DecisionOk, UNCHANGED <<del, scope, agent>>,
         \/ conv' = conv
         \/ conv.alive /\ conv' = [conv EXCEPT !.bound = TRUE]
  PROVE  DecisionOk'
<1>1. conv'.alive = conv.alive /\ conv'.fence = conv.fence
  BY DEF TypeOK
<1>2. conv'.bound => conv.bound \/ conv.alive
  BY DEF TypeOK
<1>3. \A d \in Deletions : DeletionOk(d)'
  BY <1>1 DEF DecisionOk, DeletionOk
<1>4. \A a \in Deleters : AgentOk(a)'
  BY DEF DecisionOk, AgentOk
<1>5. ScopeOk'
  BY <1>1, <1>2 DEF DecisionOk, ScopeOk
<1> QED BY <1>3, <1>4, <1>5 DEF DecisionOk

\* The deleters that did not move, when no deletion is unmade and nothing the
\* service said is unsaid.
LEMMA AgentsRest ==
  ASSUME DecisionOk, Placed, NEW a \in Deleters, NEW q, agent' = [agent EXCEPT ![a] = q],
         \A d \in Deletions : del[d].st # "none" => del'[d].st # "none",
         \A d \in Deletions : scope.said[d] # "NOT_FOUND" => scope'.said[d] = scope.said[d],
         AgentOk(a)'
  PROVE  \A b \in Deleters : AgentOk(b)'
<1> SUFFICES ASSUME NEW b \in Deleters, b # a PROVE AgentOk(b)'
  OBVIOUS
<1>1. agent'[b] = agent[b] /\ AgentOk(b)
  BY DEF Placed, DecisionOk
<1> QED BY <1>1 DEF AgentOk

\* An idle deleter and one at the local deletion rely on nothing.
LEMMA AgentFree ==
  ASSUME Placed, NEW a \in Deleters, NEW q \in AgentRecords,
         agent' = [agent EXCEPT ![a] = q], q.pc \in {"idle", "local"}
  PROVE  AgentOk(a)'
<1>1. agent'[a] = q
  BY DEF Placed
<1> QED BY <1>1 DEF AgentOk

LEMMA BeginDecision ==
  ASSUME TypeOK, Placed, DecisionOk, NEW a \in Deleters, BeginDelete(a)
  PROVE  DecisionOk'
<1>0. scope' = scope
  BY DEF BeginDelete, service
<1>1. CASE UNCHANGED <<conv, del>>
  <2>1. \A d \in Deletions : DeletionOk(d)'
    BY <1>0, <1>1 DEF DecisionOk, DeletionOk
  <2>2. ScopeOk'
    BY <1>0, <1>1 DEF DecisionOk, ScopeOk
  <2>3. CASE conv.fence # None /\ agent' = [agent EXCEPT ![a] = [NoAgent EXCEPT !.pc = "look", !.op = conv.fence]]
    <3>1. conv.alive /\ conv.fence \in Deletions
      BY <2>3 DEF BeginDelete, TypeOK
    <3>2. agent'[a].pc = "look" /\ agent'[a].op = conv.fence
      BY <2>3 DEF Placed, NoAgent
    <3>3. del[conv.fence].st # "none"
      BY <3>1 DEF DecisionOk, DeletionOk, Undecided
    <3>4. AgentOk(a)'
      BY <1>1, <3>1, <3>2, <3>3 DEF AgentOk
    <3> QED BY <1>0, <1>1, <2>1, <2>2, <2>3, <3>4, AgentsRest DEF DecisionOk
  <2>4. CASE agent' = [agent EXCEPT ![a] = [NoAgent EXCEPT !.pc = "local"]]
    <3> DEFINE q == [NoAgent EXCEPT !.pc = "local"]
    <3>1. q \in AgentRecords /\ q.pc = "local"
      BY AgentRecordTypes DEF NoAgent
    <3>2. AgentOk(a)'
      BY <2>4, <3>1, AgentFree
    <3> QED BY <1>0, <1>1, <2>1, <2>2, <2>4, <3>2, AgentsRest DEF DecisionOk
  <2>5. conv' # conv \/ ~(\E d \in Deletions : conv' = [conv EXCEPT !.fence = d, !.ver = @ + 1])
    <3> SUFFICES ASSUME NEW d \in Deletions, conv = [conv EXCEPT !.fence = d, !.ver = @ + 1]
                 PROVE FALSE
      BY <1>1
    <3>1. conv.ver \in Nat /\ conv.ver = conv.ver + 1
      BY DEF TypeOK
    <3> QED BY <3>1
  <2> QED BY <1>1, <2>3, <2>4, <2>5 DEF BeginDelete
<1>2. CASE ~UNCHANGED <<conv, del>>
  <2>1. PICK d \in Deletions :
          /\ conv.fence = None /\ conv.alive /\ conv.bound
          /\ del[d].st = "none"
          /\ conv' = [conv EXCEPT !.fence = d, !.ver = @ + 1]
          /\ del' = [del EXCEPT ![d] = [st |-> "DELETE_PENDING", got |-> "none", ver |-> conv.ver + 1]]
          /\ agent' = [agent EXCEPT ![a] = [NoAgent EXCEPT !.pc = "look", !.op = d]]
    BY <1>2 DEF BeginDelete
  <2>2. /\ conv'.alive /\ conv'.fence = d /\ d # None
    BY <2>1, NamesAssumption DEF TypeOK
  <2>3. /\ del'[d].st = "DELETE_PENDING" /\ del'[d].got = "none"
        /\ \A e \in Deletions : e # d => del'[e] = del[e]
    BY <2>1 DEF TypeOK
  <2>4. \A e \in Deletions : DeletionOk(e)'
    <3> SUFFICES ASSUME NEW e \in Deletions PROVE DeletionOk(e)'
      OBVIOUS
    <3>1. DeletionOk(e) /\ e # None
      BY NamesAssumption DEF DecisionOk
    <3>2. CASE e = d
      BY <1>0, <2>2, <2>3, <3>1, <3>2 DEF DeletionOk, Undecided
    <3>3. CASE e # d
      BY <1>0, <2>1, <2>2, <2>3, <3>1, <3>3 DEF DeletionOk, Undecided
    <3> QED BY <3>2, <3>3
  <2>5. agent'[a].pc = "look" /\ agent'[a].op = d
    BY <2>1 DEF Placed, NoAgent
  <2>6. AgentOk(a)'
    BY <2>3, <2>5 DEF AgentOk
  <2>7. \A b \in Deleters : AgentOk(b)'
    <3>1. \A e \in Deletions : del[e].st # "none" => del'[e].st # "none"
      BY <2>3
    <3> QED BY <1>0, <2>1, <2>6, <3>1, AgentsRest
  <2>8. ScopeOk'
    <3>1. ~scope.closed
      BY <2>1, NamesAssumption DEF DecisionOk, ScopeOk
    <3> QED BY <1>0, <2>2, <3>1 DEF ScopeOk
  <2> QED BY <2>4, <2>7, <2>8 DEF DecisionOk
<1> QED BY <1>1, <1>2

LEMMA ResumeDecision ==
  ASSUME TypeOK, Placed, DecisionOk, NEW a \in Deleters, ResumeDelete(a)
  PROVE  DecisionOk'
<1>1. UNCHANGED <<conv, del, scope>>
  BY DEF ResumeDelete, service
<1>2. PICK d \in Deletions :
        /\ del[d].st \in Undecided
        /\ agent' = [agent EXCEPT ![a] = [NoAgent EXCEPT !.pc = "look", !.op = d]]
  BY DEF ResumeDelete, Undecided
<1>3. agent'[a].pc = "look" /\ agent'[a].op = d
  BY <1>2 DEF Placed, NoAgent
<1>4. AgentOk(a)'
  BY <1>1, <1>2, <1>3 DEF AgentOk, Undecided
<1>5. \A b \in Deleters : AgentOk(b)'
  BY <1>1, <1>2, <1>4, AgentsRest
<1> QED BY <1>1, <1>5 DEF DecisionOk, DeletionOk, ScopeOk

LEMMA LookDecision ==
  ASSUME TypeOK, Placed, DecisionOk, NEW a \in Deleters, LookClose(a)
  PROVE  DecisionOk'
<1> DEFINE d == agent[a].op
<1>1. UNCHANGED <<conv, del, scope>>
  BY DEF LookClose, service
<1>2. d \in Deletions /\ del[d].st # "none"
  BY DEF LookClose, DecisionOk, AgentOk
<1>3. agent[a] \in AgentRecords
  BY DEF Placed
<1>4. PICK q : agent' = [agent EXCEPT ![a] = q]
  BY DEF LookClose, Placed
<1>5. agent'[a].pc \in {"close", "fact"} /\ agent'[a].op = d
      /\ (agent'[a].pc = "fact" => agent'[a].got \in {scope.said[d], "UNKNOWN"})
  <2>1. \/ agent' = [agent EXCEPT ![a] = [agent[a] EXCEPT !.pc = "close"]]
        \/ agent' = [agent EXCEPT ![a] = [agent[a] EXCEPT !.pc = "fact", !.got = scope.said[d]]]
        \/ agent' = [agent EXCEPT ![a] = [agent[a] EXCEPT !.pc = "fact", !.got = "UNKNOWN"]]
    BY DEF LookClose, Placed
  <2> DEFINE close == [agent[a] EXCEPT !.pc = "close"]
             fact(got) == [agent[a] EXCEPT !.pc = "fact", !.got = got]
  <2>2. /\ close.pc = "close" /\ close.op = d
        /\ \A got : fact(got).pc = "fact" /\ fact(got).op = d /\ fact(got).got = got
    BY <1>3 DEF AgentRecords
  <2>3. agent'[a] \in {close, fact(scope.said[d]), fact("UNKNOWN")}
    BY <2>1 DEF Placed
  <2> HIDE DEF close, fact
  <2> QED BY <2>2, <2>3
<1>6. AgentOk(a)'
  BY <1>1, <1>2, <1>5 DEF AgentOk
<1>7. \A b \in Deleters : AgentOk(b)'
  BY <1>1, <1>4, <1>6, AgentsRest
<1> QED BY <1>1, <1>7 DEF DecisionOk, DeletionOk, ScopeOk

\* The service: what it said stays said; it closes only for a deletion that is
\* undecided, hence for the one that fences a live conversation.
LEMMA CloseDecision ==
  ASSUME TypeOK, Placed, DecisionOk, NEW a \in Deleters, CloseScope(a)
  PROVE  DecisionOk'
<1> DEFINE d == agent[a].op
<1>1. UNCHANGED <<conv, del>>
  BY DEF CloseScope
<1>2. d \in Deletions /\ del[d].st # "none" /\ DeletionOk(d) /\ del[d].st \in Undecided \cup {"REJECTED_BUSY", "COMPLETED"}
  <2>1. d \in Deletions /\ del[d].st # "none"
    BY DEF CloseScope, DecisionOk, AgentOk
  <2>2. del[d].st \in {"none", "DELETE_PENDING", "RECONCILING", "REJECTED_BUSY", "COMPLETED"}
    BY <2>1, DeletionType
  <2> QED BY <2>1, <2>2 DEF DecisionOk, Undecided
<1>3. /\ scope'.closed = (scope.closed \/ Answer(d) = "CLOSED")
      /\ scope'.said = [scope.said EXCEPT ![d] = Answer(d)]
  BY DEF CloseScope
<1>4. /\ scope.said[d] # "NOT_FOUND" => Answer(d) = scope.said[d]
      /\ Answer(d) \in {"BUSY", "CLOSED"}
  BY <1>2, AnswerType DEF Answer
<1>5. /\ scope'.said[d] = Answer(d)
      /\ \A e \in Deletions : e # d => scope'.said[e] = scope.said[e]
  BY <1>2, <1>3 DEF TypeOK
<1>6. \A e \in Deletions : scope.said[e] # "NOT_FOUND" => scope'.said[e] = scope.said[e]
  BY <1>4, <1>5
<1>7. \A e \in Deletions : DeletionOk(e)'
  <2> SUFFICES ASSUME NEW e \in Deletions PROVE DeletionOk(e)'
    OBVIOUS
  <2>1. DeletionOk(e)
    BY DEF DecisionOk
  <2>2. scope'.said[e] = "CLOSED" => scope'.closed
    BY <1>3, <1>5, <2>1 DEF DeletionOk
  <2> QED BY <1>1, <1>6, <2>1, <2>2 DEF DeletionOk
<1>8. PICK q : agent' = [agent EXCEPT ![a] = q]
  BY DEF CloseScope, Placed
<1>9. agent'[a].op = d /\ agent'[a].pc = "fact" /\ agent'[a].got \in {Answer(d), "UNKNOWN"}
  BY DEF CloseScope, Placed, AgentRecords
<1>10. AgentOk(a)'
  BY <1>1, <1>2, <1>5, <1>9 DEF AgentOk
<1>11. \A b \in Deleters : AgentOk(b)'
  BY <1>1, <1>6, <1>8, <1>10, AgentsRest
<1>12. ScopeOk'
  <2>1. CASE scope.closed
    <3>1. scope'.closed
      BY <1>3, <2>1
    <3>2. conv.alive => conv.fence \in Deletions /\ scope.said[conv.fence] = "CLOSED"
      BY <2>1 DEF DecisionOk, ScopeOk
    <3> QED BY <1>1, <1>6, <3>1, <3>2 DEF ScopeOk
  <2>2. CASE ~scope.closed
    <3>1. scope'.closed => Answer(d) = "CLOSED"
      BY <1>3, <2>2
    <3>2. scope'.closed /\ conv.alive => conv.fence = d
      <4>1. scope'.closed => del[d].st \in Undecided
        BY <1>2, <1>4, <2>2, <3>1 DEF DeletionOk
      <4> QED BY <1>2, <4>1 DEF DeletionOk
    <3>3. conv.alive \/ ~conv.bound
      BY <2>2 DEF DecisionOk, ScopeOk
    <3> HIDE DEF d
    <3> QED BY <1>1, <1>2, <1>5, <3>1, <3>2, <3>3 DEF ScopeOk
  <2> QED BY <2>1, <2>2
<1> QED BY <1>7, <1>11, <1>12 DEF DecisionOk

\* deletion_fact: only the deletion that fences a live row is written, and what
\* it writes the service has said.
LEMMA FactDecision ==
  ASSUME TypeOK, Placed, DecisionOk, NEW a \in Deleters, Fact(a)
  PROVE  DecisionOk'
<1> DEFINE d == agent[a].op
           got == IF del[d].got = "CLOSED" THEN "CLOSED" ELSE agent[a].got
           local == [agent[a] EXCEPT !.pc = "local"]
<1>1. scope' = scope /\ d \in Deletions /\ del[d].st # "none" /\ DeletionOk(d)
  BY DEF Fact, service, DecisionOk, AgentOk
<1>2. got \in {"BUSY", "CLOSED"} => scope.said[d] = got
  BY <1>1 DEF Fact, DecisionOk, AgentOk, DeletionOk
<1>3. PICK q \in AgentRecords : agent' = [agent EXCEPT ![a] = q] /\ q.pc \in {"idle", "local"}
  <2>1. agent[a] \in AgentRecords /\ local \in AgentRecords /\ NoAgent \in AgentRecords
    BY AgentRecordTypes DEF Placed
  <2>2. local.pc = "local" /\ NoAgent.pc = "idle"
    BY <2>1 DEF AgentRecords, NoAgent
  <2>3. agent' = [agent EXCEPT ![a] = local] \/ agent' = [agent EXCEPT ![a] = NoAgent]
    BY DEF Fact, Placed
  <2> HIDE DEF local
  <2> QED BY <2>1, <2>2, <2>3
<1>4. AgentOk(a)'
  BY <1>3, AgentFree
<1>5. CASE UnderFence(d)
  <2>1. /\ del' = [del EXCEPT ![d].st = IF got = "BUSY" THEN "REJECTED_BUSY" ELSE "RECONCILING",
                              ![d].got = got]
        /\ conv' = IF got = "BUSY" THEN [conv EXCEPT !.fence = None, !.ver = @ + 1] ELSE conv
    BY <1>5 DEF Fact
  <2>2. /\ del'[d].st = IF got = "BUSY" THEN "REJECTED_BUSY" ELSE "RECONCILING"
        /\ del'[d].got = got
        /\ \A e \in Deletions : e # d => del'[e] = del[e]
    <3> HIDE DEF d, got
    <3> QED BY <1>1, <2>1, DeletionType DEF TypeOK
  <2>3. /\ conv'.alive = conv.alive /\ conv'.bound = conv.bound
        /\ conv'.fence = IF got = "BUSY" THEN None ELSE conv.fence
    <3> HIDE DEF d, got
    <3> QED BY <2>1 DEF TypeOK
  <2>4. conv.alive /\ conv.fence = d
    BY <1>5 DEF UnderFence
  <2>5. \A e \in Deletions : DeletionOk(e)'
    <3> SUFFICES ASSUME NEW e \in Deletions PROVE DeletionOk(e)'
      OBVIOUS
    <3>1. DeletionOk(e) /\ e # None
      BY NamesAssumption DEF DecisionOk
    <3> HIDE DEF d, got
    <3>2. CASE e = d
      BY <1>1, <1>2, <2>2, <2>3, <2>4, <3>1, <3>2 DEF DeletionOk, Undecided
    <3>3. CASE e # d
      BY <1>1, <2>2, <2>3, <2>4, <3>1, <3>3 DEF DeletionOk, Undecided
    <3> QED BY <3>2, <3>3
  <2>6. \A b \in Deleters : AgentOk(b)'
    <3>1. \A e \in Deletions : del[e].st # "none" => del'[e].st # "none"
      BY <2>2
    <3> QED BY <1>1, <1>3, <1>4, <3>1, AgentsRest
  <2>7. ScopeOk'
    <3> HIDE DEF d, got
    <3> QED BY <1>1, <1>2, <2>3, <2>4 DEF DecisionOk, ScopeOk
  <2> QED BY <2>5, <2>6, <2>7 DEF DecisionOk
<1>6. CASE ~UnderFence(d)
  <2>1. UNCHANGED <<conv, del>>
    BY <1>6 DEF Fact
  <2>2. \A b \in Deleters : AgentOk(b)'
    BY <1>1, <1>3, <1>4, <2>1, AgentsRest
  <2> QED BY <1>1, <2>1, <2>2 DEF DecisionOk, DeletionOk, ScopeOk
<1> QED BY <1>5, <1>6

\* The local deletion is made once the service has closed the scope, or when
\* there is no scope.
LEMMA LocalDecision ==
  ASSUME TypeOK, Placed, DecisionOk, NEW a \in Deleters, DeleteLocal(a)
  PROVE  DecisionOk'
<1> DEFINE d == agent[a].op
<1>1. scope' = scope
  BY DEF DeleteLocal, service
<1>2. agent' = [agent EXCEPT ![a] = NoAgent] /\ NoAgent \in AgentRecords /\ NoAgent.pc = "idle"
  BY AgentRecordTypes DEF DeleteLocal, NoAgent
<1>3. AgentOk(a)'
  BY <1>2, AgentFree
<1>4. CASE UNCHANGED <<conv, del>>
  <2>1. \A b \in Deleters : AgentOk(b)'
    BY <1>1, <1>2, <1>3, <1>4, AgentsRest
  <2> QED BY <1>1, <1>4, <2>1 DEF DecisionOk, DeletionOk, ScopeOk
<1>5. CASE ~UNCHANGED <<conv, del>>
  <2>1. /\ conv.alive /\ MayDelete(d)
        /\ conv' = [conv EXCEPT !.alive = FALSE]
        /\ del' = IF d = None THEN del ELSE [del EXCEPT ![d].st = "COMPLETED"]
    BY <1>5 DEF DeleteLocal
  <2>2. ~conv'.alive /\ conv'.bound = conv.bound
    BY <2>1 DEF TypeOK
  <2>3. d \in Deletions \cup {None}
    BY DEF Placed, AgentRecords
  <2>4. \A e \in Deletions : del'[e].got = del[e].got /\ del'[e].st \in {del[e].st, "COMPLETED"}
                             /\ (e # d => del'[e].st = del[e].st)
    <3> HIDE DEF d
    <3> QED BY <2>1, <2>3, DeletionType DEF TypeOK
  <2>5. d # None => scope.said[d] = "CLOSED" /\ scope.closed
    BY <2>1, <2>3 DEF MayDelete, DecisionOk, DeletionOk
  <2>6. \A e \in Deletions : DeletionOk(e)'
    <3> SUFFICES ASSUME NEW e \in Deletions PROVE DeletionOk(e)'
      OBVIOUS
    <3>1. DeletionOk(e) /\ e # None
      BY NamesAssumption DEF DecisionOk
    <3> HIDE DEF d
    <3> QED BY <1>1, <2>2, <2>4, <2>5, <3>1 DEF DeletionOk, Undecided
  <2>7. \A b \in Deleters : AgentOk(b)'
    <3>1. \A e \in Deletions : del[e].st # "none" => del'[e].st # "none"
      BY <2>4
    <3> QED BY <1>1, <1>2, <1>3, <3>1, AgentsRest
  <2>8. ScopeOk'
    <3>1. conv.bound => scope.closed
      BY <2>1, <2>5 DEF MayDelete
    <3> QED BY <1>1, <2>2, <3>1 DEF ScopeOk
  <2> QED BY <2>6, <2>7, <2>8 DEF DecisionOk
<1> QED BY <1>4, <1>5

LEMMA DeleterDecision ==
  ASSUME TypeOK, Placed, DecisionOk, NEW a \in Deleters,
         \/ BeginDelete(a) \/ ResumeDelete(a) \/ LookClose(a) \/ CloseScope(a)
         \/ Fact(a) \/ DeleteLocal(a)
  PROVE  DecisionOk'
BY BeginDecision, ResumeDecision, LookDecision, CloseDecision, FactDecision, LocalDecision

\* A start of the process finds no deleter at work.
LEMMA CrashDecision ==
  ASSUME TypeOK, Placed, DecisionOk, Crash
  PROVE  DecisionOk'
<1>1. UNCHANGED <<conv, del, scope>> /\ agent' = [a \in Deleters |-> NoAgent]
  BY DEF Crash, service
<1>2. \A a \in Deleters : AgentOk(a)'
  BY <1>1 DEF AgentOk, NoAgent
<1> QED BY <1>1, <1>2 DEF DecisionOk, DeletionOk, ScopeOk

\* The other steps: the row of a conversation that can be written may be bound.
LEMMA OtherDecision ==
  ASSUME TypeOK, Placed, DecisionOk,
         \/ \E u \in Uploaders : UploadImage(u) \/ DropImage(u) \/ PutImage(u) \/ ReviewImage(u)
                                 \/ CommitImage(u)
         \/ MakeImage \/ MakeFails \/ MakeStored \/ MakeUnknown \/ MakeConflicts \/ MakeAvailable
         \/ \E a \in Assets : LookObject(a) \/ DeleteObject(a) \/ CompleteRecord(a)
         \/ StartTurn \/ StartCall \/ CallAnswered \/ CallFound \/ EndTurn
         \/ ArriveStart \/ ArriveUpload \/ JobEnds \/ DatasetEnds
         \/ \E s \in Senders :
              \/ AskUpload(s) \/ RecordUpload(s) \/ SendUpload(s) \/ Recheck(s)
              \/ ReadUpload(s) \/ LookUpload(s) \/ AdoptUpload(s) \/ ResumeUpload(s)
  PROVE  DecisionOk'
<1>1. /\ UNCHANGED <<del, scope, agent>>
      /\ conv' = conv \/ (conv.alive /\ conv' = [conv EXCEPT !.bound = TRUE])
  BY DEF UploadImage, DropImage, PutImage, ReviewImage, CommitImage, MakeImage, MakeFails,
         MakeStored, MakeUnknown, MakeConflicts, MakeAvailable, LookObject, DeleteObject,
         CompleteRecord, StartTurn, StartCall, CallAnswered, CallFound, EndTurn, ArriveStart,
         ArriveUpload, JobEnds, DatasetEnds, AskUpload, RecordUpload, SendUpload, Recheck,
         ReadUpload, LookUpload, AdoptUpload, ResumeUpload, Writable, service
<1> QED BY <1>1, DecisionRest

-----------------------------------------------------------------------------
(* The calls of the service *)

\* A step that moves neither the call nor the dataset keeps them in order, unless
\* it fences or deletes the conversation while they are at work.
LEMMA ServiceRest ==
  ASSUME ServiceOk, UNCHANGED <<inv, op, send, net, remote>>, Writable => Writable' \/ Idle
  PROVE  ServiceOk'
<1>1. CallOk' /\ DatasetOk'
  BY DEF ServiceOk, CallOk, DatasetOk, Idle
<1>2. \A s \in Senders : SenderOk(s)'
  BY DEF ServiceOk, SenderOk
<1> QED BY <1>1, <1>2 DEF ServiceOk

LEMMA ImageService ==
  ASSUME TypeOK, ServiceOk,
         \/ \E u \in Uploaders : UploadImage(u) \/ DropImage(u) \/ PutImage(u) \/ ReviewImage(u)
                                 \/ CommitImage(u)
         \/ MakeImage \/ MakeFails \/ MakeStored \/ MakeUnknown \/ MakeConflicts \/ MakeAvailable
         \/ \E a \in Assets : LookObject(a) \/ DeleteObject(a) \/ CompleteRecord(a)
         \/ StartTurn \/ EndTurn
  PROVE  ServiceOk'
<1>1. UNCHANGED <<inv, op, send, net, remote, conv>>
  BY DEF UploadImage, DropImage, PutImage, ReviewImage, CommitImage, MakeImage, MakeFails,
         MakeStored, MakeUnknown, MakeConflicts, MakeAvailable, LookObject, DeleteObject,
         CompleteRecord, StartTurn, EndTurn, datasets, calls, service
<1>2. Writable => Writable'
  BY <1>1 DEF Writable
<1> QED BY <1>1, <1>2, ServiceRest

\* The call, its request and its job.
LEMMA CallService ==
  ASSUME TypeOK, Placed, ServiceOk,
         StartCall \/ CallAnswered \/ CallFound \/ ArriveStart \/ JobEnds
  PROVE  ServiceOk'
<1>1. /\ UNCHANGED <<op, send>> /\ remote'.data = remote.data
      /\ "upload" \in net' => "upload" \in net
      /\ Writable' <=> Writable
  BY DEF StartCall, CallAnswered, CallFound, ArriveStart, JobEnds, Writable, datasets,
         service, TypeOK
<1>2. DatasetOk' /\ \A s \in Senders : SenderOk(s)'
  BY <1>1 DEF ServiceOk, DatasetOk, SenderOk
<1>3. CallOk'
  <2>1. CASE StartCall
    BY <2>1 DEF StartCall, ServiceOk, CallOk, Writable, TypeOK
  <2>2. CASE CallAnswered \/ CallFound
    BY <2>2, <1>1 DEF CallAnswered, CallFound, ServiceOk, CallOk, service
  <2>3. CASE ArriveStart \/ JobEnds
    <3>1. inv' = inv /\ (remote'.job = "none" => remote.job = "none") /\ net' \subseteq net
      BY <2>3 DEF ArriveStart, JobEnds, calls, TypeOK
    <3> QED BY <3>1, <1>1 DEF ServiceOk, CallOk
  <2> QED BY <2>1, <2>2, <2>3
<1> QED BY <1>2, <1>3 DEF ServiceOk

\* The dataset in the service.
LEMMA DatasetService ==
  ASSUME TypeOK, Placed, ServiceOk, ArriveUpload \/ DatasetEnds
  PROVE  ServiceOk'
<1>1. /\ UNCHANGED <<op, send, inv, conv>> /\ remote'.job = remote.job /\ net' \subseteq net
      /\ remote.data = "ENDED" => remote'.data = "ENDED"
      /\ remote'.data # remote.data => op.st # "none"
  BY DEF ArriveUpload, DatasetEnds, datasets, calls, TypeOK, ServiceOk, DatasetOk
<1>2. Writable' <=> Writable
  BY <1>1 DEF Writable
<1> QED BY <1>1, <1>2 DEF ServiceOk, CallOk, DatasetOk, SenderOk

\* The requests that upload the dataset: one that was left behind finds the row
\* resolved as soon as the conversation is fenced or gone.
LEMMA SenderService ==
  ASSUME TypeOK, Placed, ServiceOk, NEW s \in Senders,
         \/ AskUpload(s) \/ RecordUpload(s) \/ SendUpload(s) \/ Recheck(s)
         \/ ReadUpload(s) \/ LookUpload(s) \/ AdoptUpload(s) \/ ResumeUpload(s)
  PROVE  ServiceOk'
<1>1. /\ UNCHANGED <<inv, remote>>
      /\ "start" \in net' => "start" \in net
      /\ Writable' <=> Writable
  BY DEF AskUpload, RecordUpload, SendUpload, Recheck, ReadUpload, LookUpload, AdoptUpload,
         ResumeUpload, Writable, calls, service, TypeOK
<1>2. CallOk'
  BY <1>1 DEF ServiceOk, CallOk
<1>3. \A t \in Senders : t # s => send'[t] = send[t]
  BY DEF AskUpload, RecordUpload, SendUpload, Recheck, ReadUpload, LookUpload, AdoptUpload,
         ResumeUpload, Placed
<1>4. op.st # "none" => op'.st # "none"
  <2>1. CASE AdoptUpload(s)
    <3>1. op' = op \/ op' = Adopted(s)
      BY <2>1 DEF AdoptUpload
    <3>2. op.st # "none" => Adopted(s).st # "none"
      BY DEF Adopted, TypeOK
    <3> QED BY <3>1, <3>2
  <2>2. CASE RecordUpload(s)
    BY <2>2 DEF RecordUpload, TypeOK
  <2>3. CASE ResumeUpload(s)
    BY ZenonT(40), <2>3 DEF ResumeUpload, TypeOK
  <2>4. CASE AskUpload(s) \/ SendUpload(s) \/ Recheck(s) \/ ReadUpload(s) \/ LookUpload(s)
    BY <2>4 DEF AskUpload, SendUpload, Recheck, ReadUpload, LookUpload
  <2> QED BY <2>1, <2>2, <2>3, <2>4
<1>5. \A t \in Senders : t # s => SenderOk(t)'
  BY <1>1, <1>3, <1>4 DEF ServiceOk, SenderOk
<1>6. DatasetOk' /\ SenderOk(s)'
  <2>0. DatasetOk /\ SenderOk(s) /\ send[s] \in SendRecords /\ op.st \in {"none", "DISPATCHED", "OUTCOME_UNKNOWN", "REMOTE_PENDING", "RESOLVED"}
    BY DEF ServiceOk, Placed, TypeOK
  <2> USE DEF DatasetOk, SenderOk
  <2>1. CASE AskUpload(s)
    <3>1. UNCHANGED <<op, net>> /\ send'[s].pc = "asked"
      BY <2>1 DEF AskUpload, Placed, NoSend, service
    <3> QED BY <1>1, <2>0, <3>1
  <2>2. CASE RecordUpload(s)
    <3>1. /\ net' = net /\ send'[s].pc \in {"idle", "send", "read"}
          /\ \/ Writable /\ op'.st = IF op.st = "none" THEN "DISPATCHED" ELSE op.st
             \/ op' = op /\ send'[s].pc = "idle"
      BY <2>2, <2>0 DEF RecordUpload, Placed, NoSend, SendRecords, service, TypeOK
    <3> QED BY <1>1, <2>0, <3>1
  <2>3. CASE SendUpload(s)
    <3>1. op' = op /\ net' = net \cup {"upload"} /\ send[s].pc = "send" /\ send'[s].pc = "read"
      BY <2>3 DEF SendUpload, Placed
    <3> QED BY <1>1, <2>0, <3>1
  <2>4. CASE Recheck(s) \/ ReadUpload(s)
    <3>1. /\ UNCHANGED <<op, net>> /\ send'[s].pc \in {"idle", "read", "look"}
          /\ op.st # "none" \/ send[s].pc = "read"
      <4>1. CASE Recheck(s)
        BY <2>0, <4>1 DEF Recheck, Placed, NoSend, service
      <4>2. CASE ReadUpload(s)
        BY <2>0, <4>2 DEF ReadUpload, Placed, NoSend, SendRecords, service
      <4> QED BY <2>4, <4>1, <4>2
    <3> QED BY <1>1, <2>0, <3>1
  <2>5. CASE LookUpload(s)
    <3>1. /\ UNCHANGED <<op, net>> /\ send[s].pc = "look" /\ send'[s].pc = "adopt"
          /\ send'[s].saw \in {remote.data, "UNAVAILABLE"}
      BY <2>5, <2>0 DEF LookUpload, Placed, SendRecords, service
    <3> QED BY <1>1, <2>0, <3>1
  <2>6. CASE AdoptUpload(s)
    <3>1. /\ net' = net /\ send[s].pc = "adopt" /\ send'[s].pc \in {"idle", "resume"}
          /\ op' = IF Adopts(s) THEN Adopted(s) ELSE op
      BY <2>6 DEF AdoptUpload, Placed, NoSend, service
    <3>2. op.st # "none" /\ op'.st # "none"
      BY <1>4, <2>0, <3>1
    <3>3. Adopts(s) => Writable
      BY <2>0, <3>2 DEF Adopts
    <3>4. Adopts(s) /\ op'.st = "RESOLVED" => remote.data = "ENDED"
      <4>1. Adopts(s) => op.st # "RESOLVED"
        BY DEF Adopts
      <4>2. Adopted(s).st = "RESOLVED" => send[s].saw = "ENDED" \/ op.st = "RESOLVED"
        BY DEF Adopted, TypeOK
      <4> QED BY <2>0, <3>1, <4>1, <4>2
    <3> QED BY <1>1, <2>0, <3>1, <3>2, <3>3, <3>4
  <2>7. CASE ResumeUpload(s)
    <3>1. /\ net' = net /\ send[s].pc = "resume" /\ send'[s].pc \in {"idle", "send"}
          /\ op' = op \/ (Writable /\ op'.st = "DISPATCHED")
      <4>1. [op EXCEPT !.st = "DISPATCHED", !.ver = @ + 1].st = "DISPATCHED"
        BY DEF TypeOK
      <4>2. send[s].pc = "resume" /\ net' = net
        BY <2>7 DEF ResumeUpload, service
      <4>3. [send EXCEPT ![s].pc = "send"][s].pc = "send" /\ [send EXCEPT ![s] = NoSend][s].pc = "idle"
        BY <2>0 DEF Placed, SendRecords, NoSend
      <4> QED BY <2>7, <4>1, <4>2, <4>3 DEF ResumeUpload
    <3> QED BY <1>1, <2>0, <3>1
  <2> QED BY <2>1, <2>2, <2>3, <2>4, <2>5, <2>6, <2>7
<1> QED BY <1>2, <1>5, <1>6 DEF ServiceOk

\* A deletion fences or removes only what is idle.
LEMMA DeleterService ==
  ASSUME TypeOK, Placed, ServiceOk, NEW a \in Deleters,
         \/ BeginDelete(a) \/ ResumeDelete(a) \/ LookClose(a) \/ CloseScope(a)
         \/ Fact(a) \/ DeleteLocal(a)
  PROVE  ServiceOk'
<1>1. UNCHANGED <<inv, op, send, net, remote>>
  BY DEF BeginDelete, ResumeDelete, LookClose, CloseScope, Fact, DeleteLocal, datasets,
         calls, service
<1>2. Writable => Writable' \/ Idle
  <2>1. conv' = conv \/ conv' = [conv EXCEPT !.fence = None, !.ver = @ + 1] \/ Idle
    BY DEF BeginDelete, ResumeDelete, LookClose, CloseScope, Fact, DeleteLocal
  <2> QED BY ZenonT(40), <2>1 DEF Writable, TypeOK
<1> QED BY <1>1, <1>2, ServiceRest

LEMMA CrashService ==
  ASSUME TypeOK, Placed, ServiceOk, Crash
  PROVE  ServiceOk'
<1>1. /\ UNCHANGED <<op, net, remote, conv>> /\ send' = [s \in Senders |-> NoSend]
      /\ inv' = IF inv = "RUNNING" THEN "UNKNOWN" ELSE inv
  BY DEF Crash, service
<1> QED BY <1>1 DEF ServiceOk, CallOk, DatasetOk, SenderOk, Writable, NoSend

-----------------------------------------------------------------------------
(* The theorems *)

\* What may change is changed by one of the parties.
LEMMA Steps ==
  ASSUME Next
  PROVE  \/ \E u \in Uploaders : UploadImage(u) \/ DropImage(u) \/ PutImage(u) \/ ReviewImage(u)
                                 \/ CommitImage(u)
         \/ MakeImage \/ MakeFails \/ MakeStored \/ MakeUnknown \/ MakeConflicts \/ MakeAvailable
         \/ \E a \in Assets : LookObject(a) \/ DeleteObject(a) \/ CompleteRecord(a)
         \/ StartTurn \/ StartCall \/ CallAnswered \/ CallFound \/ EndTurn
         \/ ArriveStart \/ ArriveUpload \/ JobEnds \/ DatasetEnds
         \/ \E s \in Senders :
              \/ AskUpload(s) \/ RecordUpload(s) \/ SendUpload(s) \/ Recheck(s)
              \/ ReadUpload(s) \/ LookUpload(s) \/ AdoptUpload(s) \/ ResumeUpload(s)
         \/ \E a \in Deleters :
              \/ BeginDelete(a) \/ ResumeDelete(a) \/ LookClose(a) \/ CloseScope(a)
              \/ Fact(a) \/ DeleteLocal(a)
         \/ Crash
BY Zenon DEF Next

LEMMA InitInv ==
  ASSUME Init
  PROVE  DeletionInv
<1> USE DEF Init, NoDeletion, NoSend, NoAgent
<1>0. Uploaded \in Assets /\ Uploaded # Produced
  BY AssetNames
<1>1. \E taken \in SUBSET {Produced} :
        obj = [a \in Assets |-> IF a \in taken THEN "foreign" ELSE "none"]
  BY Zenon
<1>2. /\ obj \in [Assets -> {"none", "foreign"}]
      /\ obj[Uploaded] = "none"
  BY <1>0, <1>1
<1>3. TypeOK
  BY <1>2 DEF TypeOK
<1>4. Placed
  BY DEF Placed, SendRecords, AgentRecords
<1>5. ImagesOk
  BY <1>0, <1>2 DEF ImagesOk, AssetOk, UploaderOk, MakerOk
<1>6. DecisionOk
  BY NamesAssumption DEF DecisionOk, DeletionOk, AgentOk, ScopeOk, Undecided
<1>7. ServiceOk
  BY DEF ServiceOk, CallOk, DatasetOk, SenderOk, Writable
<1> QED BY <1>3, <1>4, <1>5, <1>6, <1>7 DEF DeletionInv

LEMMA TypesStep ==
  ASSUME DeletionInv, Next
  PROVE  TypeOK' /\ Placed'
<1>1. TypeOK /\ Placed
  BY DEF DeletionInv
<1>2. ASSUME NEW a \in Deleters,
             \/ BeginDelete(a) \/ ResumeDelete(a) \/ LookClose(a) \/ CloseScope(a)
             \/ Fact(a) \/ DeleteLocal(a)
      PROVE  TypeOK' /\ Placed'
  <2>1. agent[a].pc \in {"look", "close", "fact"} => agent[a].op \in Deletions
    BY DEF DeletionInv, DecisionOk, AgentOk
  <2> QED BY <1>1, <1>2, <2>1, DeleterTypes
<1> QED BY <1>1, <1>2, Steps, ImageTypes, CallTypes, DatasetTypes, CrashTypes

LEMMA ImagesStep ==
  ASSUME DeletionInv, Next
  PROVE  ImagesOk'
<1>1. TypeOK /\ Placed /\ ImagesOk
  BY DEF DeletionInv
<1> QED BY <1>1, Steps, UploaderImages, MakerImages, CleanupImages, TurnImages, SenderImages,
           DeleterImages, CrashImages

LEMMA DecisionStep ==
  ASSUME DeletionInv, Next
  PROVE  DecisionOk'
<1>1. TypeOK /\ Placed /\ DecisionOk
  BY DEF DeletionInv
<1> QED BY <1>1, Steps, DeleterDecision, OtherDecision, CrashDecision

LEMMA ServiceStep ==
  ASSUME DeletionInv, Next
  PROVE  ServiceOk'
<1>1. TypeOK /\ Placed /\ ServiceOk
  BY DEF DeletionInv
<1> QED BY <1>1, Steps, ImageService, CallService, DatasetService, SenderService,
           DeleterService, CrashService

LEMMA InvStep ==
  ASSUME DeletionInv, [Next]_vars
  PROVE  DeletionInv'
<1>1. CASE Next
  BY <1>1, TypesStep, ImagesStep, DecisionStep, ServiceStep DEF DeletionInv
<1>2. CASE UNCHANGED vars
  <2>1. UNCHANGED <<conv, del, scope, row, obj, record, drain, up, maker, turn, inv, op, send,
                    net, remote, agent>>
    BY <1>2 DEF vars
  <2>2. TypeOK' /\ Placed'
    BY <2>1 DEF DeletionInv, TypeOK, Placed
  <2>3. ImagesOk'
    BY <2>1 DEF DeletionInv, ImagesOk, AssetOk, UploaderOk, MakerOk
  <2>4. DecisionOk'
    BY <2>1 DEF DeletionInv, DecisionOk, DeletionOk, AgentOk, ScopeOk
  <2>5. ServiceOk'
    BY <2>1 DEF DeletionInv, ServiceOk, CallOk, DatasetOk, SenderOk, Writable
  <2> QED BY <2>2, <2>3, <2>4, <2>5 DEF DeletionInv
<1> QED BY <1>1, <1>2

\* In every reachable state the images, the decision of each deletion and what is
\* at work in the service agree with the row of the conversation
\* (conversation_cleanup.py, ml_resources.py, ebsd_assets.py, asset_service.py).
THEOREM DeletionInvHolds == Spec => []DeletionInv
<1>1. Init => DeletionInv
  BY InitInv
<1>2. DeletionInv /\ [Next]_vars => DeletionInv'
  BY InvStep
<1> QED BY <1>1, <1>2, PTL DEF Spec

\* Every object of ours has a row or a cleanup record that will look for it, and
\* an announced image is in the store (conversation_cleanup.py:_delete_local,
\* _attempt, _persist_outcome; asset_service.py, ebsd_assets.py).
THEOREM ObjectsStayTracked == Spec => []ObjectsAreTracked
<1>1. DeletionInv => ObjectsAreTracked
  BY DEF DeletionInv, ImagesOk, AssetOk, ObjectsAreTracked
<1> QED BY <1>1, DeletionInvHolds, PTL

\* The platform and the service agree about every decided deletion, and the scope
\* of a conversation that can be written is open (infrastructure/db/ml_resources.py
\* and conversation_cleanup.py: deletion_fact, require_closed_scope;
\* resource_application.py:close_scope).
THEOREM DecisionStaysShared == Spec => []DecisionIsShared
<1>1. DeletionInv => DecisionIsShared
  BY NamesAssumption DEF DeletionInv, DecisionOk, DeletionOk, ScopeOk, Writable, DecisionIsShared
<1> QED BY <1>1, DeletionInvHolds, PTL

\* While the row cannot be written nothing changes in the service but a job that
\* ends.
LEMMA NothingStarts ==
  ASSUME DeletionInv, Next, ~Writable
  PROVE  \/ remote' = remote
         \/ remote.job = "running" /\ remote'.job = "ended" /\ remote'.data = remote.data
<1>1. TypeOK /\ CallOk /\ DatasetOk
  BY DEF DeletionInv, ServiceOk
<1>2. CASE ArriveStart
  <2>1. remote.job # "none"
    BY <1>1, <1>2 DEF ArriveStart, CallOk
  <2> QED BY <1>2, <2>1 DEF ArriveStart
<1>3. CASE ArriveUpload
  <2>1. remote.data # "none"
    BY <1>1, <1>3 DEF ArriveUpload, DatasetOk
  <2> QED BY <1>3, <2>1 DEF ArriveUpload
<1>4. CASE JobEnds
  BY <1>1, <1>4 DEF JobEnds, TypeOK
<1>5. CASE DatasetEnds
  BY <1>1, <1>5 DEF DatasetEnds, DatasetOk
<1>6. CASE ~(ArriveStart \/ ArriveUpload \/ JobEnds \/ DatasetEnds)
  BY <1>6, Steps DEF UploadImage, DropImage, PutImage, ReviewImage, CommitImage, MakeImage,
         MakeFails, MakeStored, MakeUnknown, MakeConflicts, MakeAvailable, LookObject,
         DeleteObject, CompleteRecord, StartTurn, StartCall, CallAnswered, CallFound, EndTurn,
         AskUpload, RecordUpload, SendUpload, Recheck, ReadUpload, LookUpload, AdoptUpload,
         ResumeUpload, BeginDelete, ResumeDelete, LookClose, CloseScope, Fact, DeleteLocal,
         Crash, service
<1> QED BY <1>2, <1>3, <1>4, <1>5, <1>6

\* What belongs to somebody else stays in the store, and a settled record is kept.
LEMMA SettledStays ==
  ASSUME DeletionInv, Next, NEW a \in Assets
  PROVE  /\ obj[a] = "foreign" => obj'[a] = "foreign"
         /\ record[a] \in {"COMPLETED", "SAFETY_BLOCKED"} => record'[a] = record[a]
<1>1. /\ TypeOK /\ Placed /\ obj[Uploaded] # "foreign"
      /\ drain[a] = "mine" => obj[a] # "foreign"
      /\ conv.alive => record[a] = "none"
  BY DEF DeletionInv, ImagesOk, AssetOk
<1>2. obj[a] = "foreign" => obj'[a] = "foreign"
  <2>1. \/ obj' = obj
        \/ obj' = [obj EXCEPT ![Uploaded] = "own"]
        \/ obj[Produced] # "foreign" /\ obj' = [obj EXCEPT ![Produced] = "own"]
        \/ \E b \in Assets : DeleteObject(b)
    <3>1. CASE \E u \in Uploaders : DropImage(u) \/ PutImage(u)
      BY <3>1, <1>1 DEF DropImage, PutImage, TypeOK
    <3>2. CASE MakeStored \/ MakeUnknown
      BY <3>2, <1>1 DEF MakeStored, MakeUnknown, TypeOK
    <3>3. CASE ~(MakeStored \/ MakeUnknown \/ \E u \in Uploaders : DropImage(u) \/ PutImage(u))
      BY <3>3, Steps DEF UploadImage, ReviewImage, CommitImage, MakeImage, MakeFails,
         MakeConflicts, MakeAvailable, LookObject, CompleteRecord, StartTurn, StartCall,
         CallAnswered, CallFound, EndTurn, ArriveStart, ArriveUpload, JobEnds, DatasetEnds,
         AskUpload, RecordUpload, SendUpload, Recheck, ReadUpload, LookUpload, AdoptUpload,
         ResumeUpload, BeginDelete, ResumeDelete, LookClose, CloseScope, Fact, DeleteLocal,
         Crash, images
    <3> QED BY <3>1, <3>2, <3>3
  <2>2. ASSUME NEW b \in Assets, DeleteObject(b), obj[a] = "foreign"
        PROVE  obj'[a] = "foreign"
    <3>1. drain[b] = "mine" /\ obj' = [obj EXCEPT ![b] = "none"]
      BY <2>2 DEF DeleteObject
    <3>2. b # a
      BY <1>1, <2>2, <3>1
    <3> QED BY <1>1, <2>2, <3>1, <3>2 DEF TypeOK
  <2> QED BY <1>1, <2>1, <2>2, AssetNames DEF TypeOK
<1>3. ASSUME record[a] \in {"COMPLETED", "SAFETY_BLOCKED"} PROVE record'[a] = record[a]
  <2>1. ~conv.alive
    BY <1>1, <1>3
  <2>2. CASE \E b \in Assets : LookObject(b) \/ CompleteRecord(b)
    BY <1>1, <1>3, <2>2 DEF LookObject, CompleteRecord, TypeOK
  <2>3. CASE ~(\E b \in Assets : LookObject(b) \/ CompleteRecord(b))
    <3>1. record' = record
      BY <2>1, <2>3, Steps DEF UploadImage, DropImage, PutImage, ReviewImage, CommitImage,
         MakeImage, MakeFails, MakeStored, MakeUnknown, MakeConflicts, MakeAvailable,
         DeleteObject, StartTurn, StartCall, CallAnswered, CallFound, EndTurn,
         ArriveStart, ArriveUpload, JobEnds, DatasetEnds,
         AskUpload, RecordUpload, SendUpload, Recheck, ReadUpload, LookUpload, AdoptUpload,
         ResumeUpload, BeginDelete, ResumeDelete, LookClose, CloseScope, Fact, DeleteLocal,
         Crash, images
    <3> QED BY <3>1
  <2> QED BY <2>2, <2>3
<1> QED BY <1>2, <1>3

\* A decided deletion is not touched again: only the one that fences a live row is.
LEMMA DecisionStays ==
  ASSUME DeletionInv, Next, NEW d \in Deletions, del[d].st \in {"REJECTED_BUSY", "COMPLETED"}
  PROVE  del'[d] = del[d]
<1>1. TypeOK /\ Placed /\ (conv.alive => conv.fence # d)
  BY DEF DeletionInv, DecisionOk, DeletionOk, Undecided
<1>2. \/ del' = del
      \/ \E e \in Deletions : \E p : del[e].st = "none" /\ del' = [del EXCEPT ![e] = p]
      \/ \E a \in Deleters : Fact(a) \/ DeleteLocal(a)
  BY ZenonT(40), Steps DEF UploadImage, DropImage, PutImage, ReviewImage, CommitImage, MakeImage,
         MakeFails, MakeStored, MakeUnknown, MakeConflicts, MakeAvailable, LookObject,
         DeleteObject, CompleteRecord, StartTurn, StartCall, CallAnswered, CallFound, EndTurn,
         ArriveStart, ArriveUpload, JobEnds, DatasetEnds,
         AskUpload, RecordUpload, SendUpload, Recheck, ReadUpload, LookUpload, AdoptUpload,
         ResumeUpload, BeginDelete, ResumeDelete, LookClose, CloseScope, Crash
<1>3. ASSUME NEW e \in Deletions, NEW p, del[e].st = "none", del' = [del EXCEPT ![e] = p]
      PROVE  del'[d] = del[d]
  BY <1>1, <1>3 DEF TypeOK
<1>4. ASSUME NEW a \in Deleters, Fact(a) \/ DeleteLocal(a)
      PROVE  del'[d] = del[d]
  <2> DEFINE e == agent[a].op
  <2>1. del' = del \/ (UnderFence(e) /\ e \in Deletions)
    <3>1. e \in Deletions \cup {None}
      BY DEF DeletionInv, Placed, AgentRecords
    <3>2. Fact(a) => e \in Deletions
      BY DEF Fact, DeletionInv, DecisionOk, AgentOk
    <3> QED BY <1>4, <3>1, <3>2 DEF Fact, DeleteLocal, MayDelete
  <2>2. UnderFence(e) => e # d
    BY <1>1 DEF UnderFence
  <2>3. \A c \in Deletions : c # e => del'[c] = del[c]
    <3>1. CASE Fact(a)
      BY <1>1, <3>1 DEF Fact, TypeOK
    <3>2. CASE DeleteLocal(a)
      BY <1>1, <3>2 DEF DeleteLocal, TypeOK
    <3> QED BY <1>4, <3>1, <3>2
  <2> QED BY <2>1, <2>2, <2>3
<1> QED BY <1>2, <1>3, <1>4

\* Nothing starts in the service for a conversation that is fenced or gone, what
\* is not ours is not removed, and what is decided stays (ml_resources.py,
\* conversation_cleanup.py, resource_application.py).
THEOREM DecidedStaysHolds == Spec => DecidedStays
<1>1. DeletionInv /\ [Next]_vars =>
        [/\ ~Writable => \/ remote' = remote
                         \/ remote.job = "running" /\ remote'.job = "ended" /\ remote'.data = remote.data
         /\ \A a \in Assets :
              /\ obj[a] = "foreign" => obj'[a] = "foreign"
              /\ record[a] \in {"COMPLETED", "SAFETY_BLOCKED"} => record'[a] = record[a]
         /\ \A d \in Deletions :
              del[d].st \in {"REJECTED_BUSY", "COMPLETED"} => del'[d] = del[d]]_vars
  BY NothingStarts, SettledStays, DecisionStays
<1> QED BY <1>1, DeletionInvHolds, PTL DEF Spec, DecidedStays
=============================================================================
