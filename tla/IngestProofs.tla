---------------------------- MODULE IngestProofs ----------------------------
(***************************************************************************)
(* Theorems about Ingest, for any workers and any number of outputs, runs  *)
(* and faults.  What a run finds out about the upload's test holds until   *)
(* it acts on it as long as no other run goes on and nobody publishes the  *)
(* test that it is replacing.                                              *)
(***************************************************************************)
EXTENDS Ingest, FiniteSetTheorems, TLAPS

Record == [at: Stages, run: Runs, previous: 0..MaxOutputs, output: 0..MaxOutputs]

\* A busy worker has a run's record, and what a step makes of it is one.
LEMMA BusyRecord ==
    ASSUME TypeOK, NEW w \in Workers, worker[w] # Idle
    PROVE  worker[w] \in Record
BY DEF TypeOK, Record

LEMMA WorkerAt ==
    ASSUME TypeOK, NEW w \in Workers, NEW r, worker' = [worker EXCEPT ![w] = r]
    PROVE  worker'[w] = r /\ \A v \in Workers : v # w => worker'[v] = worker[v]
BY DEF TypeOK

LEMMA WorkerType ==
    ASSUME TypeOK, NEW w \in Workers, NEW r \in Record \cup {Idle},
           worker' = [worker EXCEPT ![w] = r]
    PROVE  worker' \in [Workers -> {Idle} \cup Record]
BY DEF TypeOK, Record

LEMMA RecordNotIdle == \A r \in Record : r # Idle
BY DEF Record, Idle, Stages

\* Step changes only the stage.
LEMMA StepFields ==
    ASSUME TypeOK, NEW w \in Workers, worker[w] # Idle, NEW at \in Stages, Step(w, at)
    PROVE  /\ worker' \in [Workers -> {Idle} \cup Record]
           /\ worker'[w] \in Record
           /\ worker'[w].at = at /\ worker'[w].output = worker[w].output
           /\ worker'[w].previous = worker[w].previous
           /\ \A v \in Workers : v # w => worker'[v] = worker[v]
<1>1. PICK r : r = [worker[w] EXCEPT !.at = at]
  OBVIOUS
<1>2. /\ r \in Record /\ r.at = at
      /\ r.output = worker[w].output /\ r.previous = worker[w].previous
  BY <1>1, BusyRecord DEF Record
<1>3. worker' = [worker EXCEPT ![w] = r]
  BY <1>1 DEF Step
<1> QED
  BY <1>2, <1>3, WorkerAt, WorkerType

LEMMA AddedType ==
    ASSUME TypeOK, NEW r
    PROVE  Added(r) \in [Runs -> {"none", "waiting", "active", "over"}]
BY DEF TypeOK, Added

LEMMA FinishType ==
    ASSUME TypeOK, NEW w \in Workers, Finish(w)
    PROVE  /\ job' \in [Runs -> {"none", "waiting", "active", "over"}]
           /\ worker' \in [Workers -> {Idle} \cup Record]
           /\ worker'[w] = Idle /\ \A v \in Workers : v # w => worker'[v] = worker[v]
<1>1. worker' = [worker EXCEPT ![w] = Idle]
  BY DEF Finish
<1> QED
  BY <1>1, WorkerAt, WorkerType DEF Finish, TypeOK

-----------------------------------------------------------------------------
(* The types. *)

LEMMA InitType == Init => TypeOK
<1> SUFFICES ASSUME Init PROVE TypeOK
  OBVIOUS
<1>1. MaxRuns \in Nat /\ MaxOutputs \in Nat
  BY BoundsAssumption
<1>2. upload \in [status: Statuses, runs: 0..MaxRuns, output: 0..MaxOutputs]
  BY <1>1 DEF Init, Statuses
<1>3. /\ test \in [Outputs -> {None, "draft", "published", "deleted"}]
      /\ questions \in [Outputs -> {None, "all", "some"}]
      /\ borrowed \subseteq Outputs /\ made \in 0..MaxOutputs
  BY <1>1 DEF Init
<1>4. /\ job \in [Runs -> {"none", "waiting", "active", "over"}] /\ stalls \in [Runs -> Nat]
      /\ worker \in [Workers -> {Idle} \cup Record]
  BY DEF Init
<1> QED
  BY <1>2, <1>3, <1>4 DEF Init, TypeOK, Record

Admin == CreateUpload \/ Retry \/ SaveRetry \/ Enqueue \/ DieInRequest

LEMMA AdminType ==
    ASSUME TypeOK, Admin
    PROVE  TypeOK'
<1>0. MaxRuns \in Nat \ {0} /\ MaxOutputs \in Nat
  BY BoundsAssumption
<1>1. CASE CreateUpload
  <2>1. upload' \in [status: Statuses, runs: 0..MaxRuns, output: 0..MaxOutputs]
    BY <1>0, <1>1 DEF CreateUpload, Statuses, Unfinished
  <2>2. 1 \in Runs
    BY <1>0 DEF Runs
  <2>3. request' \in [at: {"enqueue"}, run: Runs]
    BY <1>1, <2>2 DEF CreateUpload
  <2> QED
    BY <1>1, <2>1, <2>3 DEF CreateUpload, TypeOK, outputs, queue
<1>2. CASE Retry
  <2>1. upload.runs + 1 \in Runs /\ upload.status \in Statuses
    BY <1>0, <1>2 DEF Retry, Runs, TypeOK
  <2>2. request' \in [at: {"save"}, status: Statuses, run: Runs]
    BY <1>2, <2>1 DEF Retry
  <2> QED
    BY <1>2, <2>2 DEF Retry, TypeOK, outputs, queue
<1>3. CASE SaveRetry
  <2>1. request.run \in Runs
    BY <1>3 DEF SaveRetry, TypeOK, Idle
  <2>2. request.run \in 0..MaxRuns
    BY <1>0, <2>1 DEF Runs
  <2>3. upload' \in [status: Statuses, runs: 0..MaxRuns, output: 0..MaxOutputs]
    BY <1>3, <2>2 DEF SaveRetry, TypeOK, Statuses, Unfinished
  <2>4. request' \in [at: {"enqueue"}, run: Runs]
    BY <1>3, <2>1 DEF SaveRetry
  <2> QED
    BY <1>3, <2>3, <2>4 DEF SaveRetry, TypeOK, outputs, queue
<1>4. CASE Enqueue
  BY <1>4, AddedType DEF Enqueue, TypeOK, outputs
<1>5. CASE DieInRequest
  BY <1>5 DEF DieInRequest, TypeOK, outputs, queue
<1> QED
  BY <1>1, <1>2, <1>3, <1>4, <1>5 DEF Admin

LEMMA EditType ==
    ASSUME TypeOK, NEW o \in Outputs, EditOutput(o)
    PROVE  TypeOK'
<1>1. overlapped' \in BOOLEAN
  BY DEF EditOutput, TypeOK
<1>2. /\ test' \in [Outputs -> {None, "draft", "published", "deleted"}]
      /\ borrowed' \subseteq Outputs
  BY DEF EditOutput, TypeOK
<1> QED
  BY <1>1, <1>2 DEF EditOutput, TypeOK, queue

LEMMA QueueType ==
    ASSUME TypeOK, NEW w \in Workers,
           \/ \E r \in Runs : Take(w, r)
           \/ Restart(w) \/ \E dies \in BOOLEAN : Stall(w, dies)
    PROVE  TypeOK'
<1>1. CASE \E r \in Runs : Take(w, r)
  <2>1. PICK r \in Runs : Take(w, r)
    BY <1>1
  <2>2. Started(r) \in Record
    BY BoundsAssumption DEF Started, Record, Stages
  <2>3. worker' \in [Workers -> {Idle} \cup Record]
    BY <2>1, <2>2, WorkerType DEF Take
  <2> QED
    BY <2>1, <2>3 DEF Take, TypeOK, Record, outputs
<1>2. CASE Restart(w)
  BY <1>2, AddedType DEF Restart, TypeOK, outputs
<1>3. CASE \E dies \in BOOLEAN : Stall(w, dies)
  <2>1. PICK dies \in BOOLEAN : Stall(w, dies)
    BY <1>3
  <2>2. worker[w] \in Record
    BY <2>1, BusyRecord DEF Stall
  <2>3. worker[w].run \in Runs
    BY <2>2 DEF Record
  <2>4. /\ job' \in [Runs -> {"none", "waiting", "active", "over"}]
        /\ stalls' \in [Runs -> Nat]
    BY <2>1, <2>3 DEF Stall, TypeOK
  <2>5. worker' \in [Workers -> {Idle} \cup Record]
    BY <2>1, WorkerType DEF Stall, TypeOK, Record
  <2> QED
    BY <2>1, <2>4, <2>5 DEF Stall, TypeOK, Record, outputs
<1> QED
  BY <1>1, <1>2, <1>3

LEMMA RunType ==
    ASSUME TypeOK, NEW w \in Workers, Run(w) \/ Throw(w) \/ Abort(w)
    PROVE  TypeOK'
<1>1. worker[w] # Idle /\ worker[w] \in Record
  BY BusyRecord
     DEF Run, Advance, Throw, Abort, FindPrevious, DeleteQuestions, DeleteTest, InsertQuestions,
         CreateTest, SetReady, SetFailed
<1>2. ASSUME NEW at \in Stages, Step(w, at)
      PROVE  worker' \in [Workers -> {Idle} \cup Record]
  BY <1>1, <1>2, StepFields
<1>3. CASE Advance(w)
  <2>1. worker' \in [Workers -> {Idle} \cup Record]
    BY <1>2, <1>3 DEF Advance, Stages
  <2> QED
    BY <1>3, <2>1 DEF Advance, Status, TypeOK, Record, outputs, queue, Statuses, Unfinished
<1>4. CASE Throw(w)
  <2>1. worker' \in [Workers -> {Idle} \cup Record]
    BY <1>2, <1>4 DEF Throw, Stages
  <2> QED
    BY <1>4, <2>1 DEF Throw, TypeOK, Record, outputs, queue
<1>5. CASE FindPrevious(w)
  <2>1. worker' \in [Workers -> {Idle} \cup Record]
    <3>1. CASE Step(w, "deleteQuestions")
      BY <1>2, <3>1 DEF Stages
    <3>2. ASSUME NEW o \in OfUpload, NEW at \in {"deleteQuestions", "failed"},
                 worker' = [worker EXCEPT ![w].previous = o, ![w].at = at]
          PROVE  worker' \in [Workers -> {Idle} \cup Record]
      <4>1. PICK r : r = [worker[w] EXCEPT !.previous = o, !.at = at]
        OBVIOUS
      <4>2. o \in 0..MaxOutputs /\ at \in Stages
        BY BoundsAssumption DEF Stages, OfUpload, Outputs
      <4>3. r \in Record
        BY <1>1, <4>1, <4>2 DEF Record
      <4>4. worker' = [worker EXCEPT ![w] = r]
        BY <3>2, <4>1 DEF TypeOK
      <4> QED
        BY <4>3, <4>4, WorkerType
    <3> QED
      BY <1>5, <3>1, <3>2 DEF FindPrevious
  <2> QED
    BY <1>5, <2>1 DEF FindPrevious, TypeOK, Record, outputs, queue
<1>6. CASE DeleteQuestions(w)
  <2>1. worker' \in [Workers -> {Idle} \cup Record]
    BY <1>2, <1>6 DEF DeleteQuestions, Stages
  <2>2. questions' \in [Outputs -> {None, "all", "some"}]
    BY <1>6 DEF DeleteQuestions, None
  <2> QED
    BY <1>6, <2>1, <2>2 DEF DeleteQuestions, TypeOK, Record, queue
<1>7. CASE DeleteTest(w)
  <2>1. worker' \in [Workers -> {Idle} \cup Record]
    BY <1>2, <1>7 DEF DeleteTest, Stages
  <2>2. test' \in [Outputs -> {None, "draft", "published", "deleted"}]
    BY <1>7 DEF DeleteTest, TestDeleted, TypeOK
  <2> QED
    BY <1>7, <2>1, <2>2 DEF DeleteTest, TypeOK, Record, queue
<1>8. CASE InsertQuestions(w)
  <2>1. PICK o \in Outputs : /\ made = o - 1 /\ made' = o
                             /\ questions' = [questions EXCEPT ![o] = "all"]
                             /\ worker' = [worker EXCEPT ![w].output = o, ![w].at = "create"]
    BY <1>8 DEF InsertQuestions
  <2>2. PICK r : r = [worker[w] EXCEPT !.output = o, !.at = "create"]
    OBVIOUS
  <2>3. r \in Record
    <3>1. o \in 0..MaxOutputs /\ "create" \in Stages
      BY BoundsAssumption DEF Stages, Outputs
    <3> QED
      BY <1>1, <2>2, <3>1 DEF Record
  <2>4. worker' = [worker EXCEPT ![w] = r]
    BY <2>1, <2>2 DEF TypeOK
  <2>5. worker' \in [Workers -> {Idle} \cup Record]
    BY <2>3, <2>4, WorkerType
  <2>6. made' \in 0..MaxOutputs
    BY <2>1, BoundsAssumption DEF Outputs
  <2> QED
    BY <1>8, <2>1, <2>5, <2>6 DEF InsertQuestions, TypeOK, Record, queue
<1>9. CASE CreateTest(w)
  <2>1. worker' \in [Workers -> {Idle} \cup Record]
    BY <1>2, <1>9 DEF CreateTest, Stages
  <2> QED
    BY <1>9, <2>1 DEF CreateTest, TypeOK, Record, queue
<1>10. CASE SetReady(w)
  <2>1. upload' \in [status: Statuses, runs: 0..MaxRuns, output: 0..MaxOutputs]
    BY <1>1, <1>10 DEF SetReady, TypeOK, Record, Statuses
  <2> QED
    BY <1>10, <2>1, FinishType DEF SetReady, TypeOK, Record, outputs
<1>11. CASE SetFailed(w)
  BY <1>11, FinishType DEF SetFailed, EndStatus, Status, Statuses, TypeOK, Record, outputs
<1>12. CASE Abort(w)
  BY <1>12, FinishType DEF Abort, TypeOK, Record, outputs
<1> QED
  BY <1>3, <1>4, <1>5, <1>6, <1>7, <1>8, <1>9, <1>10, <1>11, <1>12 DEF Run

LEMMA NextType == TypeOK /\ [Next]_vars => TypeOK'
<1> SUFFICES ASSUME TypeOK, [Next]_vars PROVE TypeOK'
  OBVIOUS
<1>1. CASE UNCHANGED vars
  BY <1>1 DEF vars, outputs, queue, TypeOK
<1> QED
  BY <1>1, AdminType, EditType, QueueType, RunType DEF Next, WorkerStep, Admin

\* Type correctness of the uploads, their queue and the runs.
THEOREM TypeCorrect == Spec => []TypeOK
BY InitType, NextType, PTL DEF Spec

-----------------------------------------------------------------------------
(* What a run relies on while it is alone: it is the only one, and what it *)
(* has found out, or done, about the upload's test is still so.            *)

Relies(w) ==
    /\ worker[w].at \in {"deleteQuestions", "deleteTest"} =>
         \A o \in OfUpload : o = worker[w].previous /\ test[o] = "draft"
    /\ worker[w].at \in {"insert", "create"} => OfUpload = {}
    /\ worker[w].at = "ready" => \A o \in OfUpload : o = worker[w].output
    /\ worker[w].at # "start" => upload.status # "ready"
OneRun == \A w, v \in Busy : w = v
Single == \A o, p \in OfUpload : o = p
Whole == \A o \in Outputs : test[o] = "published" => questions[o] = "all"
Calm == OneRun /\ Single /\ Whole /\ Linked /\ \A w \in Busy : Relies(w)
CalmInv == ~overlapped => Calm

LEMMA InitCalm == Init => CalmInv
<1> SUFFICES ASSUME Init PROVE Calm
  BY DEF CalmInv
<1>1. OfUpload = {} /\ Busy = {} /\ \A o \in Outputs : test[o] # "published"
  BY DEF Init, OfUpload, Busy, None
<1> QED
  BY <1>1 DEF Calm, OneRun, Single, Whole, Linked

\* A step that leaves the tests, their questions and the workers alone, and makes no upload ready.
LEMMA Untouched ==
    ASSUME Calm, UNCHANGED <<test, questions, worker>>,
           upload'.status = "ready" => upload.status = "ready" /\ upload'.output = upload.output
    PROVE  Calm'
<1>1. OfUpload' = OfUpload /\ Busy' = Busy
  BY DEF OfUpload, Busy
<1>2. \A w \in Busy : Relies(w)'
  <2>1. TAKE w \in Busy
  <2>2. Relies(w)
    BY DEF Calm
  <2> QED
    BY <1>1, <2>2 DEF Relies
<1> QED
  BY <1>1, <1>2 DEF Calm, OneRun, Single, Whole, Linked

\* After a step of the only run no other one goes on.
LEMMA StillAlone ==
    ASSUME Calm, NEW w \in Workers, worker[w] # Idle,
           \A v \in Workers : v # w => worker'[v] = worker[v]
    PROVE  /\ \A v \in Busy' : v = w
           /\ OneRun'
BY DEF Calm, OneRun, Busy

\* The run ends, or its worker dies, and the tests are left alone.
LEMMA Ends ==
    ASSUME Calm, NEW w \in Workers, worker[w] # Idle, worker'[w] = Idle,
           \A v \in Workers : v # w => worker'[v] = worker[v],
           UNCHANGED <<test, questions>>, Linked'
    PROVE  Calm'
<1>1. OfUpload' = OfUpload /\ Busy' = {} /\ OneRun'
  BY StillAlone DEF OfUpload, Busy
<1> QED
  BY <1>1 DEF Calm, Single, Whole

LEMMA AdminCalm ==
    ASSUME TypeOK, CalmInv, Admin
    PROVE  CalmInv'
<1> SUFFICES ASSUME Calm,
                    upload'.status = "ready" =>
                        upload.status = "ready" /\ upload'.output = upload.output
             PROVE  Calm'
  <2>1. upload'.status = "ready" => upload.status = "ready" /\ upload'.output = upload.output
    <3>1. CASE CreateUpload
      BY <3>1 DEF CreateUpload
    <3>2. CASE SaveRetry
      <4>1. PICK status : upload' = [upload EXCEPT !.runs = request.run, !.status = status]
                          /\ status \in {upload.status, "queued"}
        BY <3>2 DEF SaveRetry
      <4>2. upload \in [status: Statuses, runs: 0..MaxRuns, output: 0..MaxOutputs]
        BY DEF TypeOK
      <4> QED
        BY <4>1, <4>2
    <3>3. CASE UNCHANGED upload
      BY <3>3
    <3> QED
      BY <3>1, <3>2, <3>3 DEF Admin, Retry, Enqueue, DieInRequest
  <2>2. overlapped' = overlapped
    BY DEF Admin, CreateUpload, Retry, SaveRetry, Enqueue, DieInRequest
  <2> QED
    BY <2>1, <2>2 DEF CalmInv
<1>1. UNCHANGED <<test, questions, worker>>
  BY DEF Admin, CreateUpload, Retry, SaveRetry, Enqueue, DieInRequest, outputs
<1> QED
  BY <1>1, Untouched

LEMMA EditCalm ==
    ASSUME TypeOK, CalmInv, NEW o \in Outputs, EditOutput(o)
    PROVE  CalmInv'
<1> SUFFICES ASSUME ~overlapped' PROVE Calm'
  BY DEF CalmInv
<1>1. /\ Calm
      /\ test'[o] = "published" => \A w \in Busy : worker[w].previous # o
  BY DEF EditOutput, CalmInv
<1>2. UNCHANGED <<upload, questions, worker>> /\ Busy' = Busy
  BY DEF EditOutput, Busy
<1>3. /\ \A p \in Outputs : p # o => test'[p] = test[p]
      /\ test'[o] = test[o] \/ (test[o] = "draft" /\ questions[o] = "all" /\ test'[o] = "published")
           \/ (test[o] = "published" /\ test'[o] = "draft")
           \/ (test[o] = "draft" /\ test'[o] = "deleted")
  BY DEF EditOutput, TypeOK
<1>4. OfUpload' \subseteq OfUpload
  BY <1>3 DEF OfUpload
<1>5. Whole'
  BY <1>1, <1>2, <1>3 DEF Calm, Whole
<1>6. ASSUME NEW w \in Busy
      PROVE  Relies(w)'
  <2>1. Relies(w)
    BY <1>1 DEF Calm
  <2>2. ASSUME worker[w].at \in {"deleteQuestions", "deleteTest"}, NEW p \in OfUpload'
        PROVE  p = worker[w].previous /\ test'[p] = "draft"
    <3>1. p \in OfUpload /\ p = worker[w].previous /\ test[p] = "draft"
      BY <1>4, <2>1, <2>2 DEF Relies
    <3>2. test'[p] \in {"draft", "published"}
      BY <2>2 DEF OfUpload
    <3> QED
      BY <1>1, <1>3, <3>1, <3>2 DEF OfUpload
  <2> QED
    BY <1>2, <1>4, <2>1, <2>2 DEF Relies
<1> QED
  BY <1>1, <1>2, <1>4, <1>5, <1>6 DEF Calm, OneRun, Single, Linked

LEMMA QueueCalm ==
    ASSUME TypeOK, CalmInv, NEW w \in Workers,
           \/ \E r \in Runs : Take(w, r)
           \/ Restart(w) \/ \E dies \in BOOLEAN : Stall(w, dies)
    PROVE  CalmInv'
<1>1. CASE \E r \in Runs : Take(w, r)
  <2> SUFFICES ASSUME ~overlapped' PROVE Calm'
    BY DEF CalmInv
  <2>1. PICK r \in Runs : Take(w, r)
    BY <1>1
  <2>2. Calm /\ Busy = {} /\ UNCHANGED <<upload, test, questions>>
    BY <2>1 DEF Take, CalmInv, outputs
  <2>3. /\ worker'[w] = Started(r)
        /\ \A v \in Workers : v # w => worker'[v] = worker[v]
    BY <2>1, WorkerAt DEF Take
  <2>4. Busy' \subseteq {w} /\ OfUpload' = OfUpload
    BY <2>2, <2>3 DEF Busy, OfUpload
  <2>5. Relies(w)'
    BY <2>3 DEF Relies, Started
  <2> QED
    BY <2>2, <2>4, <2>5 DEF Calm, OneRun, Single, Whole, Linked
<1>2. CASE Restart(w)
  <2>1. UNCHANGED <<upload, test, questions, worker, overlapped>>
    BY <1>2 DEF Restart, outputs
  <2> QED
    BY <2>1, Untouched DEF CalmInv
<1>3. CASE \E dies \in BOOLEAN : Stall(w, dies)
  <2>1. PICK dies \in BOOLEAN : Stall(w, dies)
    BY <1>3
  <2>2. UNCHANGED <<upload, test, questions, overlapped>> /\ worker[w] # Idle
    BY <2>1 DEF Stall, outputs
  <2>3. CASE dies
    <3>1. worker' = [worker EXCEPT ![w] = Idle]
      BY <2>1, <2>3 DEF Stall
    <3>2. /\ worker'[w] = Idle
          /\ \A v \in Workers : v # w => worker'[v] = worker[v]
      BY <3>1, WorkerAt
    <3>3. Linked' = Linked
      BY <2>2 DEF Linked, OfUpload
    <3> QED
      BY <2>2, <3>2, <3>3, Ends DEF CalmInv, Calm
  <2>4. CASE ~dies
    <3>1. UNCHANGED worker
      BY <2>1, <2>4 DEF Stall
    <3> QED
      BY <2>2, <3>1, Untouched DEF CalmInv
  <2> QED
    BY <2>3, <2>4
<1> QED
  BY <1>1, <1>2, <1>3

\* A step to another stage that leaves the tests and questions alone, and makes no upload ready.
LEMMA Moves ==
    ASSUME Calm, NEW w \in Workers, worker[w] # Idle,
           \A v \in Workers : v # w => worker'[v] = worker[v],
           UNCHANGED <<test, questions>>,
           upload' = upload \/ upload'.status # "ready", Relies(w)'
    PROVE  Calm'
<1>1. OfUpload' = OfUpload /\ OneRun' /\ \A v \in Busy' : v = w
  BY StillAlone DEF OfUpload
<1> QED
  BY <1>1 DEF Calm, Single, Whole, Linked

LEMMA RunCalm ==
    ASSUME TypeOK, CalmInv, NEW w \in Workers, Run(w) \/ Throw(w) \/ Abort(w)
    PROVE  CalmInv'
<1>1. /\ worker[w] # Idle /\ worker[w] \in Record
      /\ UNCHANGED overlapped
  BY BusyRecord
     DEF Run, Advance, Throw, Abort, FindPrevious, DeleteQuestions, DeleteTest, InsertQuestions,
         CreateTest, SetReady, SetFailed
<1> SUFFICES ASSUME Calm PROVE Calm'
  BY <1>1 DEF CalmInv
<1>2. Relies(w) /\ \A v \in Busy : v = w
  BY <1>1 DEF Calm, OneRun, Busy
<1>3. ASSUME NEW at \in Stages, Step(w, at)
      PROVE  /\ worker'[w] # Idle
             /\ worker'[w].at = at /\ worker'[w].output = worker[w].output
             /\ worker'[w].previous = worker[w].previous
             /\ \A v \in Workers : v # w => worker'[v] = worker[v]
  BY <1>1, <1>3, StepFields, RecordNotIdle
<1>4. ASSUME Status("processing") \/ Status("failed")
      PROVE  upload'.status # "ready"
  BY <1>4 DEF Status, TypeOK
<1>5. CASE Advance(w)
  <2>1. PICK at \in {"extract", "validate", "find"} : Step(w, at)
    BY <1>5 DEF Advance
  <2>2. Relies(w)'
    BY <1>3, <1>4, <1>5, <2>1 DEF Advance, Relies, Stages
  <2> QED
    BY <1>1, <1>3, <1>4, <1>5, <2>1, <2>2, Moves DEF Advance, outputs, Stages
<1>6. CASE Throw(w)
  <2>1. Relies(w)'
    BY <1>2, <1>3, <1>6 DEF Throw, Relies, Stages
  <2> QED
    BY <1>1, <1>3, <1>6, <2>1, Moves DEF Throw, outputs, Stages
<1>7. CASE FindPrevious(w)
  <2>1. UNCHANGED <<upload, test, questions>> /\ upload.status # "ready"
    BY <1>2, <1>7 DEF FindPrevious, outputs, Relies
  <2>2. CASE OfUpload = {}
    <3>1. Step(w, "deleteQuestions")
      BY <1>7, <2>2 DEF FindPrevious
    <3>2. Relies(w)' /\ \A v \in Workers : v # w => worker'[v] = worker[v]
      BY <1>3, <2>1, <2>2, <3>1 DEF Relies, Stages, OfUpload
    <3> QED
      BY <1>1, <2>1, <3>2, Moves
  <2>3. CASE OfUpload # {}
    <3>1. PICK o \in OfUpload :
            worker' = [worker EXCEPT ![w].previous = o,
                          ![w].at = IF Replaceable(o) THEN "deleteQuestions" ELSE "failed"]
      BY <1>7, <2>3 DEF FindPrevious
    <3>2. PICK r : r = [worker[w] EXCEPT !.previous = o,
                          !.at = IF Replaceable(o) THEN "deleteQuestions" ELSE "failed"]
      OBVIOUS
    <3>3. /\ r.previous = o
          /\ r.at = IF Replaceable(o) THEN "deleteQuestions" ELSE "failed"
      BY <1>1, <3>2 DEF Record
    <3>4. worker' = [worker EXCEPT ![w] = r]
      BY <3>1, <3>2 DEF TypeOK
    <3>5. worker'[w] = r /\ \A v \in Workers : v # w => worker'[v] = worker[v]
      BY <3>4, WorkerAt
    <3>6. \A p \in OfUpload : p = o
      BY DEF Calm, Single
    <3>7. Replaceable(o) => test[o] = "draft"
      BY DEF Replaceable, OfUpload
    <3>8. Relies(w)'
      BY <2>1, <3>3, <3>5, <3>6, <3>7 DEF Relies, OfUpload
    <3> QED
      BY <1>1, <2>1, <3>5, <3>8, Moves
  <2> QED
    BY <2>2, <2>3
<1>8. CASE DeleteQuestions(w)
  <2>1. /\ UNCHANGED <<upload, test>> /\ Step(w, "deleteTest")
        /\ \A o \in OfUpload : o = worker[w].previous /\ test[o] = "draft"
        /\ upload.status # "ready"
    BY <1>2, <1>8 DEF DeleteQuestions, Relies
  <2>2. /\ worker'[w].at = "deleteTest" /\ worker'[w].previous = worker[w].previous
        /\ OneRun' /\ \A v \in Busy' : v = w
    BY <1>1, <1>3, <2>1, StillAlone DEF Stages
  <2>3. OfUpload' = OfUpload
    BY <2>1 DEF OfUpload
  <2>4. Relies(w)'
    BY <2>1, <2>2, <2>3 DEF Relies
  <2>5. Whole'
    BY <2>1 DEF Whole, OfUpload
  <2> QED
    BY <2>1, <2>2, <2>3, <2>4, <2>5 DEF Calm, Single, Linked
<1>9. CASE DeleteTest(w)
  <2>1. /\ UNCHANGED <<upload, questions>> /\ Step(w, "insert")
        /\ test' = IF worker[w].previous = 0 THEN test ELSE TestDeleted(worker[w].previous)
        /\ \A o \in OfUpload : o = worker[w].previous
        /\ upload.status # "ready"
    BY <1>2, <1>9 DEF DeleteTest, Relies
  <2>2. /\ worker'[w].at = "insert"
        /\ OneRun' /\ \A v \in Busy' : v = w
    BY <1>1, <1>3, <2>1, StillAlone DEF Stages
  <2>3. OfUpload' = {}
    <3>1. SUFFICES ASSUME NEW o \in Outputs, test'[o] \in {"draft", "published"}
                   PROVE  FALSE
      BY DEF OfUpload
    <3>2. o # 0
      BY BoundsAssumption DEF Outputs
    <3>3. CASE o = worker[w].previous
      BY <2>1, <3>1, <3>2, <3>3 DEF TestDeleted, TypeOK
    <3>4. CASE o # worker[w].previous
      BY <2>1, <3>1, <3>4 DEF TestDeleted, TypeOK, OfUpload
    <3> QED
      BY <3>3, <3>4
  <2>4. Relies(w)'
    BY <2>1, <2>2, <2>3 DEF Relies
  <2>5. Whole'
    BY <2>3 DEF Whole, OfUpload
  <2> QED
    BY <2>1, <2>2, <2>3, <2>4, <2>5 DEF Calm, Single, Linked
<1>10. CASE InsertQuestions(w)
  <2>1. /\ UNCHANGED <<upload, test>>
        /\ OfUpload = {} /\ upload.status # "ready"
    BY <1>2, <1>10 DEF InsertQuestions, Relies
  <2>2. PICK o \in Outputs : /\ questions' = [questions EXCEPT ![o] = "all"]
                             /\ worker' = [worker EXCEPT ![w].output = o, ![w].at = "create"]
    BY <1>10 DEF InsertQuestions
  <2>3. PICK r : r = [worker[w] EXCEPT !.output = o, !.at = "create"]
    OBVIOUS
  <2>4. r.at = "create"
    BY <1>1, <2>3 DEF Record
  <2>5. worker' = [worker EXCEPT ![w] = r]
    BY <2>2, <2>3 DEF TypeOK
  <2>6. /\ worker'[w] = r
        /\ \A v \in Workers : v # w => worker'[v] = worker[v]
    BY <2>5, WorkerAt
  <2>7. OneRun' /\ \A v \in Busy' : v = w
    BY <1>1, <2>6, StillAlone
  <2>8. OfUpload' = {}
    BY <2>1 DEF OfUpload
  <2>9. Relies(w)' /\ Whole'
    BY <2>1, <2>4, <2>6, <2>8 DEF Relies, Whole, OfUpload
  <2> QED
    BY <2>1, <2>7, <2>8, <2>9 DEF Calm, Single, Linked
<1>11. CASE CreateTest(w)
  <2>1. /\ UNCHANGED <<upload, questions>> /\ Step(w, "ready")
        /\ test' = [test EXCEPT ![worker[w].output] = "draft"]
        /\ OfUpload = {} /\ upload.status # "ready"
    BY <1>2, <1>11 DEF CreateTest, Relies
  <2>2. /\ worker'[w].at = "ready" /\ worker'[w].output = worker[w].output
        /\ OneRun' /\ \A v \in Busy' : v = w
    BY <1>1, <1>3, <2>1, StillAlone DEF Stages
  <2>3. /\ \A o \in OfUpload' : o = worker[w].output
        /\ \A o \in Outputs : test'[o] # "published"
    BY <2>1 DEF OfUpload, TypeOK
  <2>4. Relies(w)'
    BY <2>1, <2>2, <2>3 DEF Relies
  <2> QED
    BY <2>1, <2>2, <2>3, <2>4 DEF Calm, Single, Whole, Linked
<1>12. CASE SetReady(w)
  <2>1. UNCHANGED <<test, questions>> /\ Finish(w) /\ upload'.output = worker[w].output
    BY <1>12 DEF SetReady, outputs, TypeOK
  <2>2. OfUpload' = OfUpload /\ \A o \in OfUpload : o = worker[w].output
    BY <1>2, <1>12, <2>1 DEF SetReady, Relies, OfUpload
  <2>3. Linked'
    BY <2>1, <2>2 DEF Linked
  <2> QED
    BY <1>1, <2>1, <2>3, FinishType, Ends
<1>13. CASE SetFailed(w)
  <2>1. UNCHANGED <<test, questions>> /\ Finish(w) /\ upload'.status # "ready"
    BY <1>4, <1>13 DEF SetFailed, EndStatus, outputs
  <2> QED
    BY <1>1, <2>1, FinishType, Ends DEF Linked
<1>14. CASE Abort(w)
  <2>1. UNCHANGED <<upload, test, questions>> /\ Finish(w)
    BY <1>14 DEF Abort, outputs
  <2>2. Linked'
    BY <2>1 DEF Calm, Linked, OfUpload
  <2> QED
    BY <1>1, <2>1, <2>2, FinishType, Ends
<1> QED
  BY <1>5, <1>6, <1>7, <1>8, <1>9, <1>10, <1>11, <1>12, <1>13, <1>14 DEF Run

LEMMA NextCalm == TypeOK /\ CalmInv /\ [Next]_vars => CalmInv'
<1> SUFFICES ASSUME TypeOK, CalmInv, [Next]_vars PROVE CalmInv'
  OBVIOUS
<1>1. CASE UNCHANGED vars
  <2>1. UNCHANGED <<upload, test, questions, worker, overlapped>>
    BY <1>1 DEF vars, outputs
  <2> QED
    BY <2>1, Untouched DEF CalmInv
<1> QED
  BY <1>1, AdminCalm, EditCalm, QueueCalm, RunCalm DEF Next, WorkerStep, Admin

LEMMA AlwaysCalm == Spec => []CalmInv
BY InitCalm, NextCalm, TypeCorrect, PTL DEF Spec

\* As long as no two runs of the upload go on at once, and nobody publishes a test that a run has
\* begun to replace, a published test keeps all its questions through every repeated, failed and
\* abandoned run (pipeline.ts: save stops at a published test).  Both exceptions are needed: the
\* check and the deletion are two commands (pipeline.ts:290), and either can come between them.
THEOREM PublishedWholeInvariant == Spec => []PublishedWhole
<1>1. CalmInv => PublishedWhole
  BY DEF CalmInv, Calm, Whole, PublishedWhole
<1> QED
  BY <1>1, AlwaysCalm, PTL

\* As long as no two runs of the upload go on at once, and nobody publishes a test that a run has
\* begun to replace, the upload has one test at most between runs: a run deletes the one there is
\* before it makes its own. A ready upload links to it: the run that replaces a test has announced itself
\* before it deletes the one that the upload links to.
THEOREM OneTestInvariant == Spec => []OneTest
<1>1. ASSUME CalmInv PROVE OneTest
  <2> SUFFICES ASSUME Single PROVE Cardinality(OfUpload) <= 1
    BY <1>1 DEF OneTest, CalmInv, Calm
  <2>1. CASE OfUpload = {}
    BY <2>1, FS_EmptySet
  <2>2. CASE OfUpload # {}
    <3>1. PICK o : o \in OfUpload
      BY <2>2
    <3>2. OfUpload = {o}
      BY <3>1 DEF Single
    <3>3. Cardinality(OfUpload) = 1
      BY <3>2, FS_Singleton
    <3> QED
      BY <3>3
  <2> QED
    BY <2>1, <2>2
<1>2. CalmInv => OneTest
  BY <1>1
<1> QED
  BY <1>2, AlwaysCalm, PTL
=============================================================================
