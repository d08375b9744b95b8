----------------------------- MODULE GpuRuntime -----------------------------
(***************************************************************************)
(* The GPU runtime as a managed computation meets it: the requests of the  *)
(* attempts of one task, each on its own connection (app.py, contracts.py, *)
(* inference.py of the runtime).  One request computes at a time.  Another *)
(* model may hold the same lock, the bundle may not be loaded, the process *)
(* may be closing, a request may be found malformed: all of that shows as  *)
(* a refusal.                                                              *)
(*                                                                         *)
(* A request whose sender gave up is served all the same, and its answer   *)
(* is written to nobody.                                                   *)
(***************************************************************************)
EXTENDS Integers, FiniteSets

CONSTANTS
  MaxCalls,   \* bound: the call and its retries
  Outputs     \* the outputs that the task asks for

VARIABLES
  req,     \* the request of each attempt
  sends    \* computations started, by attempt

gpuVars == <<req, sends>>

Attempts == 1..MaxCalls
AllOutputs == {"sem_image", "mechanical_properties"}

ASSUME OutputsAssumption == Outputs \subseteq AllOutputs /\ Outputs # {}

Successes == {"SUCCEEDED", "PARTIALLY_SUCCEEDED"}
Outcomes == Successes \cup {"FAILED"}

\* A written answer: an output, or the envelope of an error.
Replies == Outcomes \cup {"error"}
\* way: sent, not yet served; run: computing; gone: nobody asks any more.
Requests == {"none", "way", "run", "gone"} \cup Replies

GpuInit ==
  /\ req = [a \in Attempts |-> "none"]
  /\ sends = [a \in Attempts |-> 0]

\* A result of the engine, with the picture that comes with it.
Results == [status: Outcomes, completed: SUBSET Outputs, failed: SUBSET Outputs,
            image: {"none", "generated_sem", "intermediate_sem"}, error: BOOLEAN]

\* The picture is always made, and all else needs it.  The properties are only
\* predicted when they were asked for; their failure leaves the picture.
Engine(sem, mechanical) ==
  LET image == IF "sem_image" \in Outputs THEN "generated_sem" ELSE "intermediate_sem"
      kept  == Outputs \ {"mechanical_properties"}
  IN  IF ~sem THEN [status |-> "FAILED", completed |-> {}, failed |-> Outputs,
                    image |-> "none", error |-> TRUE]
      ELSE IF mechanical \/ kept = Outputs
        THEN [status |-> "SUCCEEDED", completed |-> Outputs, failed |-> {},
              image |-> image, error |-> FALSE]
      ELSE [status |-> IF kept = {} THEN "FAILED" ELSE "PARTIALLY_SUCCEEDED",
            completed |-> kept, failed |-> Outputs \ kept, image |-> image, error |-> TRUE]

\* Status, outputs and error agree: both sides look.
Consistent(r) ==
  /\ r.completed \cap r.failed = {} /\ r.completed \cup r.failed = Outputs
  /\ r.error <=> r.status # "SUCCEEDED"
  /\ CASE r.status = "SUCCEEDED" -> r.failed = {}
       [] r.status = "PARTIALLY_SUCCEEDED" -> r.completed # {} /\ r.failed # {}
       [] OTHER -> r.completed = {}
RightImage(r) ==
  r.image = IF "sem_image" \in r.completed THEN "generated_sem" ELSE "intermediate_sem"

\* build_execute_response: what the runtime answers with.
Built(r) ==
  /\ Consistent(r)
  /\ r.status \in Successes => r.image # "none"
  /\ r.image # "none" =>
       RightImage(r) /\ ("sem_image" \in r.completed \/ Outputs = {"mechanical_properties"})
\* _parse_output: what the client takes.
Parsed(r) ==
  /\ Consistent(r)
  /\ r.status \in Successes =>
       RightImage(r) /\ ("sem_image" \in r.completed \/ Outputs = {"mechanical_properties"})

\* _commit_result_once: what becomes a ToolResult with its images.
Committable(r) ==
  /\ Consistent(r)
  /\ r.status = IF r.completed = Outputs THEN "SUCCEEDED"
                ELSE IF r.completed # {} THEN "PARTIALLY_SUCCEEDED" ELSE "FAILED"
  /\ "mechanical_properties" \in r.completed => r.image # "none"
  /\ "sem_image" \in r.completed <=> r.image = "generated_sem"

\* The engine's results can be answered; what is answered is taken, and what is
\* taken is committed.
ASSUME ContractAssumption ==
  /\ \A sem, mechanical \in BOOLEAN : Built(Engine(sem, mechanical))
  /\ \A r \in Results : Built(r) => Parsed(r) /\ Committable(r)

\* One that cannot be built, or an exception, is the envelope of an error.
Answers == {Engine(s, m).status : s, m \in BOOLEAN} \cup {"error"}

Computing == {a \in Attempts : req[a] = "run"}
\* What may still come about.
Pending(a) == req[a] \in {"way", "run"}

\* Slip: the lock is not looked at.
LockIgnored == TRUE
\* The execution lock is free.
Lock == Computing = {}

\* An answer is only kept for a sender that still waits.
Answer(a, reply, heard) == req' = [req EXCEPT ![a] = IF heard THEN reply ELSE "gone"]

\* _execute up to the engine.
Start(a) ==
  /\ req[a] = "way" /\ Lock
  /\ req' = [req EXCEPT ![a] = "run"]
  /\ sends' = [sends EXCEPT ![a] = @ + 1]

\* Unauthorized, malformed, closed, not loaded, or the lock is taken.
Refuse(a, heard) ==
  /\ req[a] = "way"
  /\ Answer(a, "error", heard)
  /\ UNCHANGED sends

\* The engine is done; the lock is given back however it ended.
Finish(a, heard) ==
  /\ req[a] = "run"
  /\ \E reply \in Answers : Answer(a, reply, heard)
  /\ UNCHANGED sends

\* The process is closed, which waits for the lock, or it just ends; then
\* another one starts.
Exit ==
  /\ \E a \in Attempts : req[a] \notin {"none", "gone"}
  /\ req' = [a \in Attempts |-> IF req[a] = "none" THEN "none" ELSE "gone"]
  /\ UNCHANGED sends
=============================================================================
