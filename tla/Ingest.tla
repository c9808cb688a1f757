------------------------------ MODULE Ingest ------------------------------
(***************************************************************************)
(* One upload of a question paper and the runs that turn it into a draft   *)
(* test: the admin's handlers (apps/api/src/routes/admin/uploads.ts), the  *)
(* "ingest" queue (services/ingestQueue.ts), its worker and what that does *)
(* when it starts (apps/worker/src/runtime.ts), and the pipeline           *)
(* (apps/worker/src/ingest/pipeline.ts).                                   *)
(*                                                                         *)
(* Every command to MongoDB that another step could notice is a step of    *)
(* its own.  What a run makes is an output: a test and its questions; the  *)
(* questions it extracts are in module PaperText.  External: BullMQ, which   *)
(* gives a job whose lock was not renewed (its worker died, or is slow) to *)
(* another worker once and fails it the second time, and adds no job under *)
(* an id it still knows; the process manager, which restarts workers.      *)
(***************************************************************************)
EXTENDS Naturals, FiniteSets

CONSTANTS
    Workers,     \* processes with an "ingest" worker, one job at a time each
    MaxOutputs,  \* bound: what runs make
    MaxRuns,     \* bound: runs asked for
    MaxFaults    \* bound: locks that expire (the worker died, or is slow), requests that die half way and
                 \* commands that fail, of the save, before the run's try or in its catch

ASSUME BoundsAssumption == MaxOutputs \in Nat /\ MaxRuns \in Nat \ {0} /\ MaxFaults \in Nat

VARIABLES
    upload,      \* the upload's document
    test,        \* the test of each output
    questions,   \* the questions of each output that are in the bank
    borrowed,    \* outputs of which another test uses a question
    made,        \* how many outputs there have been: ids are taken in order
    job,         \* external: the state of the job of each run in BullMQ
    stalls,      \* external: how often each job's lock expired
    worker,      \* what each worker is doing
    request,     \* the admin's request in progress
    overlapped,  \* history: did two runs go on at once, or was a test published that a run was replacing?
    lost,        \* history: did a run end without its own error handling?
    faults       \* how many of these there were

queue == <<job, stalls>>
outputs == <<test, questions, borrowed, made>>
vars == <<upload, outputs, queue, worker, request, overlapped, lost, faults>>

None == "none"
Runs == 1..MaxRuns
Outputs == 1..MaxOutputs
\* "processing" stands for "extracting", "answer_key" and "validating", which are told apart nowhere.
Unfinished == {"queued", "processing"}
Statuses == Unfinished \cup {None, "ready", "failed"}
Idle == [at |-> "idle"]
\* previous: the test that the run is going to replace, output: what it makes (0: none).
Stages == {"start", "extract", "validate", "find", "deleteQuestions",
           "deleteTest", "insert", "create", "ready", "failed"}
Busy == {w \in Workers : worker[w] # Idle}
Saving(w) == worker[w] # Idle /\ worker[w].at \in {"deleteQuestions", "deleteTest", "insert", "create", "ready"}
Step(w, at) == worker' = [worker EXCEPT ![w].at = at]
Status(status) == upload' = [upload EXCEPT !.status = status]
\* queue.add with a job id: nothing happens when the queue knows the id.
Added(run) == IF job[run] = "none" THEN [job EXCEPT ![run] = "waiting"] ELSE job

Init ==
    /\ upload = [status |-> None, runs |-> 0, output |-> 0]
    /\ test = [o \in Outputs |-> None] /\ questions = [o \in Outputs |-> None] /\ borrowed = {} /\ made = 0
    /\ job = [r \in Runs |-> "none"] /\ stalls = [r \in Runs |-> 0]
    /\ worker = [w \in Workers |-> Idle] /\ request = Idle
    /\ overlapped = FALSE /\ lost = FALSE /\ faults = 0

-----------------------------------------------------------------------------
(* The admin. *)

CreateUpload ==
    /\ request = Idle /\ upload.status = None
    /\ upload' = [status |-> "queued", runs |-> 1, output |-> 0]
    /\ request' = [at |-> "enqueue", run |-> 1]
    /\ UNCHANGED <<outputs, queue, worker, overlapped, lost, faults>>

\* retry: not while the upload is being processed ...
MayRetry(status) == status \notin Unfinished \/ status = "queued"
\* ... nor when its test is published.
Retry ==
    /\ request = Idle /\ upload.status # None /\ upload.runs < MaxRuns
    /\ MayRetry(upload.status)
    /\ \A o \in Outputs : test[o] # "published"
    /\ request' = [at |-> "save", status |-> upload.status, run |-> upload.runs + 1]
    /\ UNCHANGED <<upload, outputs, queue, worker, overlapped, lost, faults>>
\* save writes the status only if the request changed it.
SaveRetry ==
    /\ request.at = "save"
    /\ upload' = [upload EXCEPT !.runs = request.run,
                                !.status = IF request.status = "queued" THEN @ ELSE "queued"]
    /\ request' = [at |-> "enqueue", run |-> request.run]
    /\ UNCHANGED <<outputs, queue, worker, overlapped, lost, faults>>
Enqueue ==
    /\ request.at = "enqueue"
    /\ job' = Added(request.run)
    /\ request' = Idle
    /\ UNCHANGED <<upload, outputs, stalls, worker, overlapped, lost, faults>>
DieInRequest ==
    /\ request # Idle /\ faults < MaxFaults
    /\ request' = Idle /\ faults' = faults + 1
    /\ UNCHANGED <<upload, outputs, queue, worker, overlapped, lost>>

\* External to this module: an output's test is published, unpublished or deleted, and another
\* test takes one of its questions (module Publishing; of one output at most, a bound).
EditOutput(o) ==
    /\ \/ test[o] = "draft" /\ questions[o] = "all" /\ test' = [test EXCEPT ![o] = "published"] /\ UNCHANGED borrowed
       \/ test[o] = "published" /\ test' = [test EXCEPT ![o] = "draft"] /\ UNCHANGED borrowed
       \/ test[o] = "draft" /\ test' = [test EXCEPT ![o] = "deleted"] /\ UNCHANGED borrowed
       \/ questions[o] = "all" /\ borrowed = {} /\ borrowed' = borrowed \cup {o} /\ UNCHANGED test
    /\ overlapped' = (overlapped \/ (test'[o] = "published" /\ \E w \in Busy : worker[w].previous = o))
    /\ UNCHANGED <<upload, questions, made, queue, worker, request, lost, faults>>

-----------------------------------------------------------------------------
(* The queue and its workers. *)

Started(r) == [at |-> "start", run |-> r, previous |-> 0, output |-> 0]
Take(w, r) ==
    /\ worker[w] = Idle /\ job[r] = "waiting"
    /\ job' = [job EXCEPT ![r] = "active"]
    /\ worker' = [worker EXCEPT ![w] = Started(r)]
    /\ overlapped' = (overlapped \/ Busy # {})
    /\ UNCHANGED <<upload, outputs, stalls, request, lost, faults>>

\* BullMQ: the lock of a job expired; the job is waiting again, or over (failed) the second time.
\* Its worker is slow and goes on, or died.
Stall(w, dies) ==
    /\ worker[w] # Idle /\ faults < MaxFaults
    /\ LET r == worker[w].run
       IN  /\ job[r] = "active"
           /\ job' = [job EXCEPT ![r] = IF stalls[r] = 0 THEN "waiting" ELSE "over"]
           /\ stalls' = [stalls EXCEPT ![r] = @ + 1]
           /\ lost' = (lost \/ stalls[r] # 0)
    /\ faults' = faults + 1
    /\ IF dies THEN worker' = [worker EXCEPT ![w] = Idle] ELSE UNCHANGED worker
    /\ UNCHANGED <<upload, outputs, request, overlapped>>

\* startWorkers: an unfinished upload is queued again under the id of its latest run.
Restart(w) ==
    /\ worker[w] = Idle /\ upload.status \in Unfinished
    /\ job' = Added(upload.runs)
    /\ UNCHANGED <<upload, outputs, stalls, worker, request, overlapped, lost, faults>>

\* runIngest returns or throws: a job that is still its own is over, and its id stays known.
Finish(w) ==
    LET r == worker[w].run
    IN  /\ job' = IF job[r] = "active" THEN [job EXCEPT ![r] = "over"] ELSE job
        /\ worker' = [worker EXCEPT ![w] = Idle]

-----------------------------------------------------------------------------
(* The pipeline. *)

\* The run goes through its first stages, each announced in the upload's status (the last
\* announcement stands for all of them between the answer key and the save).
Advance(w) ==
    /\ worker[w] # Idle
    /\ \/ worker[w].at = "start" /\ Step(w, "extract")
       \/ worker[w].at = "extract" /\ Step(w, "validate")
       \/ worker[w].at = "validate" /\ Step(w, "find")
    /\ Status("processing")
    /\ UNCHANGED <<outputs, queue, request, overlapped, lost, faults>>

\* In the try: something is wrong with the paper, or a command fails: the run ends in "failed".
Throw(w) ==
    /\ worker[w] # Idle /\ worker[w].at \in Stages \ {"start", "failed"}
    /\ Saving(w) => faults < MaxFaults
    /\ faults' = IF Saving(w) THEN faults + 1 ELSE faults
    /\ Step(w, "failed")
    /\ UNCHANGED <<upload, outputs, queue, request, overlapped, lost>>

\* Before the try, or in the catch, a command fails: runIngest throws, and its job fails for good.
Abort(w) ==
    /\ worker[w] # Idle /\ worker[w].at \in {"start", "failed"} /\ faults < MaxFaults
    /\ faults' = faults + 1 /\ lost' = TRUE
    /\ Finish(w)
    /\ UNCHANGED <<upload, outputs, stalls, request, overlapped>>

OfUpload == {o \in Outputs : test[o] \in {"draft", "published"}}
\* Mutant: a published test is replaced, too.
ReplaceAny(o) == TRUE
Replaceable(o) == test[o] # "published"
\* save: one test of the upload is the previous one; a published one is an error.
FindPrevious(w) ==
    /\ worker[w] # Idle /\ worker[w].at = "find"
    /\ IF OfUpload = {} THEN Step(w, "deleteQuestions")
       ELSE \E o \in OfUpload :
              worker' = [worker EXCEPT ![w].previous = o,
                            ![w].at = IF Replaceable(o) THEN "deleteQuestions" ELSE "failed"]
    /\ UNCHANGED <<upload, outputs, queue, request, overlapped, lost, faults>>

\* The upload's questions are deleted, but those of the previous test that another test uses.
DeleteQuestions(w) ==
    /\ worker[w] # Idle /\ worker[w].at = "deleteQuestions"
    /\ questions' = [o \in Outputs |->
          IF o = worker[w].previous /\ o \in borrowed THEN (IF questions[o] = None THEN None ELSE "some")
          ELSE None]
    /\ Step(w, "deleteTest")
    /\ UNCHANGED <<upload, test, borrowed, made, queue, request, overlapped, lost, faults>>

\* Mutant: the previous test is kept.
NoTestDeleted(o) == test
TestDeleted(o) == [test EXCEPT ![o] = "deleted"]
DeleteTest(w) ==
    /\ worker[w] # Idle /\ worker[w].at = "deleteTest"
    /\ test' = IF worker[w].previous = 0 THEN test ELSE TestDeleted(worker[w].previous)
    /\ Step(w, "insert")
    /\ UNCHANGED <<upload, questions, borrowed, made, queue, request, overlapped, lost, faults>>

\* insertMany, all under new ids ...
InsertQuestions(w) ==
    /\ worker[w] # Idle /\ worker[w].at = "insert"
    /\ \E o \in Outputs :
          /\ made = o - 1 /\ made' = o
          /\ questions' = [questions EXCEPT ![o] = "all"]
          /\ worker' = [worker EXCEPT ![w].output = o, ![w].at = "create"]
    /\ UNCHANGED <<upload, test, borrowed, queue, request, overlapped, lost, faults>>
\* ... and the draft test of them.
CreateTest(w) ==
    /\ worker[w] # Idle /\ worker[w].at = "create"
    /\ test' = [test EXCEPT ![worker[w].output] = "draft"]
    /\ Step(w, "ready")
    /\ UNCHANGED <<upload, questions, borrowed, made, queue, request, overlapped, lost, faults>>

SetReady(w) ==
    /\ worker[w] # Idle /\ worker[w].at = "ready"
    /\ upload' = [upload EXCEPT !.status = "ready", !.output = worker[w].output]
    /\ Finish(w)
    /\ UNCHANGED <<outputs, stalls, request, overlapped, lost, faults>>
\* Mutant: the failure is only logged.
NoStatus(status) == UNCHANGED upload
EndStatus(status) == Status(status)
SetFailed(w) ==
    /\ worker[w] # Idle /\ worker[w].at = "failed"
    /\ EndStatus("failed")
    /\ Finish(w)
    /\ UNCHANGED <<outputs, stalls, request, overlapped, lost, faults>>

Run(w) ==
    \/ Advance(w) \/ FindPrevious(w) \/ DeleteQuestions(w) \/ DeleteTest(w)
    \/ InsertQuestions(w) \/ CreateTest(w) \/ SetReady(w) \/ SetFailed(w)
WorkerStep(w) == Run(w) \/ \E r \in Runs : Take(w, r)

Next ==
    \/ CreateUpload \/ Retry \/ SaveRetry \/ Enqueue \/ DieInRequest
    \/ \E o \in Outputs : EditOutput(o)
    \/ \E w \in Workers : WorkerStep(w) \/ Restart(w) \/ Throw(w) \/ Abort(w) \/ \E dies \in BOOLEAN : Stall(w, dies)

Spec == Init /\ [][Next]_vars
\* Workers take jobs and go on, a request goes on, and workers are restarted now and then.
FairSpec ==
    /\ Spec /\ WF_vars(SaveRetry) /\ WF_vars(Enqueue)
    /\ \A w \in Workers : WF_vars(WorkerStep(w)) /\ SF_vars(Restart(w))

-----------------------------------------------------------------------------
\* Types.
TypeOK ==
    /\ upload \in [status: Statuses, runs: 0..MaxRuns, output: 0..MaxOutputs]
    /\ test \in [Outputs -> {None, "draft", "published", "deleted"}]
    /\ questions \in [Outputs -> {None, "all", "some"}] /\ borrowed \subseteq Outputs
    /\ made \in 0..MaxOutputs
    /\ job \in [Runs -> {"none", "waiting", "active", "over"}] /\ stalls \in [Runs -> Nat]
    /\ worker \in [Workers -> {Idle} \cup
          [at: Stages, run: Runs, previous: 0..MaxOutputs, output: 0..MaxOutputs]]
    /\ request \in {Idle} \cup [at: {"save"}, status: Statuses, run: Runs] \cup [at: {"enqueue"}, run: Runs]
    /\ overlapped \in BOOLEAN /\ lost \in BOOLEAN /\ faults \in Nat

\* A published test of the upload has all its questions, although runs are repeated, fail and are
\* cut off half way: a run that finds it published stops.  Not so once two runs have gone on at once
\* (a slow one and its successor), or a test was published after the run replacing it had looked:
\* the check and the deletion are two commands, and the test loses its questions between them.
PublishedWhole ==
    \A o \in Outputs : test[o] = "published" /\ ~overlapped => questions[o] = "all"

\* A retry "replaces" what the upload made before (pipeline.ts:287): as long as no two runs have gone
\* on at once and no test was published under a run, there is one test of the upload at most
\* between runs, whatever failed or died in the middle of a save, and a ready upload links to that
\* one, never to a test that was replaced since.
Linked == upload.status = "ready" => \A o \in OfUpload : o = upload.output
OneTest == Busy = {} /\ ~overlapped => Cardinality(OfUpload) <= 1 /\ Linked

\* pipeline.ts:296 asks for questions used in other tests: they stay in the bank.
BorrowedKept == \A o \in borrowed : questions[o] # None

\* An upload whose request died before it was queued, whose worker died, or whose run failed
\* half way is ready or failed some day: by the run's own error handling, or because the next
\* start of a worker queues it again. Not if a job is given up for good while the upload is
\* unfinished: a command failed outside that error handling, or the lock expired twice.
Settles == (upload.status \in Unfinished /\ ~lost) ~> (upload.status \in {"ready", "failed"} \/ lost)

\* "Uploads left unfinished by a crash or deploy: queue them again" (runtime.ts:167): every
\* upload is ready or failed some day.
AlwaysSettles == upload.status \in Unfinished ~> upload.status \in {"ready", "failed"}
=============================================================================
