------------------------- MODULE AttemptStoreProofs -------------------------
(***************************************************************************)
(* Theorems about AttemptStore.  The types and AttemptLifecycle: for any   *)
(* paper, any number of requests and workers, any of them failing          *)
(* anywhere, and a Redis that loses data.  What becomes of saved answers:  *)
(* for a student with one tab and a Redis that keeps its data.  And about  *)
(* ClockedAttempt: the clock of locked sections, for every template.       *)
(***************************************************************************)
EXTENDS AttemptStore, ClockedAttempt, FiniteSetTheorems, SequenceTheorems, WellFoundedInduction, TLAPS

\* What the helpers return is of the right type.
LEMMA NothingType == Nothing \in Answers
BY MaxAtAssumption DEF Answers, Nothing

LEMMA AnswersTypes ==
    ASSUME NEW a \in Answers, NEW b \in Answers
    PROVE  Overlay(b, a) \in Answers /\ Newer(b, a) \in Answers
BY MaxAtAssumption DEF Answers, Overlay, Newer

LEMMA AcceptedType ==
    ASSUME NEW b \in Answers, NEW m \in Meta
    PROVE  Accepted(m, b) \subseteq Answers
BY MaxAtAssumption DEF Answers, Accepted

LEMMA MetaTypes ==
    /\ NoMeta \in Meta
    /\ \A m \in Meta : FinishSection(m) \in Meta
BY SectionAssumption DEF Meta, NoMeta, FinishSection, Sections, Status

LEMMA FreshType == Fresh \in Process /\ Fresh.won = FALSE /\ Fresh.pc = "new"
BY NothingType, MetaTypes DEF Fresh, Process, Steps, Kinds

LEMMA FinishedType ==
    \A p : /\ Finished(p) \in Process
           /\ Finished(p).won = FALSE
           /\ Finished(p).pc \in {"idle", "gone"}
BY FreshType DEF Finished, Process, Steps

LEMMA LoadedType ==
    ASSUME TypeOK, NEW p \in Procs, NEW m \in Meta
    PROVE  Loaded(p, m) \in Process
<1>1. [proc[p] EXCEPT !.meta = m, !.read = Nothing] \in Process
  BY NothingType DEF TypeOK, Process
<1> QED
  BY <1>1, FinishedType DEF Loaded, Process, Steps

LEMMA MergedType ==
    ASSUME TypeOK, NEW p \in Procs
    PROVE  Merged(p) \in Process
BY NothingType, FinishedType, ZenonT(60) DEF TypeOK, Merged, Process, Steps

\* The updates of several fields at once.
LEMMA UpdateTypes ==
    ASSUME NEW r \in Process, NEW a \in Answers, NEW b \in Answers, NEW m \in Meta
    PROVE  /\ [r EXCEPT !.pc = "hget", !.sub = TRUE] \in Process
           /\ [r EXCEPT !.pc = "hget", !.sub = TRUE, !.meta = m] \in Process
           /\ [r EXCEPT !.pc = "hget", !.sub = TRUE, !.meta = m, !.batch = a] \in Process
           /\ [r EXCEPT !.pc = "guard", !.meta = m] \in Process
           /\ [r EXCEPT !.pc = "flushRead", !.meta = m] \in Process
           /\ [r EXCEPT !.pc = "flushWrite", !.read = a] \in Process
           /\ [r EXCEPT !.pc = "del", !.won = SubmitFilter] \in Process
           /\ [r EXCEPT !.pc = "hset", !.batch = a] \in Process
           /\ [r EXCEPT !.pc = "hmget", !.batch = a] \in Process
           /\ [r EXCEPT !.pc = "update", !.read = a, !.owed = b] \in Process
           /\ [r EXCEPT !.meta = m, !.read = a, !.pc = "writeBack"] \in Process
           /\ [r EXCEPT !.meta = m, !.read = a, !.pc = "refill"] \in Process
BY DEF Process, Steps, SubmitFilter

\* A step that leaves every process in a state of its type.
LEMMA BecomesType ==
    ASSUME TypeOK, NEW p, NEW r \in Process, Becomes(p, r)
    PROVE  proc' \in [Procs -> Process]
BY DEF TypeOK, Becomes

-----------------------------------------------------------------------------

LEMMA InitType == Init => TypeOK
<1> SUFFICES ASSUME Init PROVE TypeOK
  OBVIOUS
<1>1. [status |-> "in_progress", section |-> 0] \in Meta
  BY SectionAssumption DEF Meta, Status, Sections
<1>2. [Fresh EXCEPT !.pc = "startMeta", !.meta = [status |-> "in_progress", section |-> 0]]
        \in Process
  BY <1>1, FreshType DEF Process, Steps
<1>3. proc \in [Procs -> Process]
  BY <1>2, FreshType, FinishedType DEF Init
<1>4. attempt \in [status: Status, section: Sections, answers: Answers]
  BY NothingType, SectionAssumption DEF Init, Status, Sections
<1>5. hash \in [meta: Meta, ans: Answers]
  BY NothingType, MetaTypes DEF Init, NoHash
<1> QED
  BY <1>3, <1>4, <1>5, NothingType DEF Init, TypeOK

LEMMA LoadStepType ==
    ASSUME TypeOK, NEW p \in Procs, LoadStep(p)
    PROVE  TypeOK'
<1> USE DEF TypeOK
<1>1. CASE HgetMeta(p)
  <2>1. hash.meta \in Meta /\ Loaded(p, hash.meta) \in Process
    BY LoadedType
  <2>2. [proc[p] EXCEPT !.pc = "find"] \in Process
    BY DEF Process, Steps
  <2> QED
    BY <1>1, <2>1, <2>2, BecomesType DEF HgetMeta
<1>2. CASE FindAttempt(p)
  <2> DEFINE m == [status |-> attempt.status, section |-> attempt.section]
             next == IF attempt.answers = Nothing THEN "writeBack" ELSE "refill"
  <2>1. m \in Meta
    BY DEF Meta
  <2>2. Loaded(p, m) \in Process
    BY <2>1, LoadedType
  <2>3. [proc[p] EXCEPT !.meta = m, !.read = attempt.answers, !.pc = next] \in Process
    BY <2>1, UpdateTypes
  <2>4. CASE m.status # "in_progress"
    BY <1>2, <2>2, <2>4, BecomesType DEF FindAttempt
  <2>5. CASE m.status = "in_progress"
    <3>1. Becomes(p, [proc[p] EXCEPT !.meta = m, !.read = attempt.answers, !.pc = next])
      BY <1>2, <2>5 DEF FindAttempt
    <3> QED
      BY <1>2, <2>3, <3>1, BecomesType DEF FindAttempt
  <2> QED
    BY <2>4, <2>5
<1>3. CASE RefillAnswers(p)
  <2>1. [proc[p] EXCEPT !.pc = "writeBack"] \in Process
    BY DEF Process, Steps
  <2>2. Overlay(proc[p].read, hash.ans) \in Answers
    BY AnswersTypes DEF Process
  <2> QED
    BY <1>3, <2>1, <2>2, BecomesType DEF RefillAnswers
<1>4. CASE WriteBackMeta(p)
  <2>1. proc[p].meta \in Meta
    BY DEF Process
  <2>2. Loaded(p, proc[p].meta) \in Process
    BY <2>1, LoadedType
  <2> QED
    BY <1>4, <2>1, <2>2, BecomesType DEF WriteBackMeta
<1> QED
  BY <1>1, <1>2, <1>3, <1>4 DEF LoadStep

LEMMA RequestStepType ==
    ASSUME TypeOK, NEW p \in Procs, RequestStep(p)
    PROVE  TypeOK'
<1> USE DEF TypeOK
<1>0. proc[p].meta \in Meta /\ proc[p].batch \in Answers
  BY DEF Process
<1>1. CASE StartAttempt(p)
  BY <1>0, <1>1, FinishedType, BecomesType DEF StartAttempt
<1>2. CASE OwnMeta(p)
  <2>1. PICK s \in proc[p].meta.section..LastSection :
          LET m == [proc[p].meta EXCEPT !.section = s] IN
          /\ hash' = IF m # proc[p].meta THEN [hash EXCEPT !.meta = m] ELSE hash
          /\ Becomes(p, [proc[p] EXCEPT !.pc = "guard", !.meta = m])
    BY <1>2 DEF OwnMeta
  <2> DEFINE m == [proc[p].meta EXCEPT !.section = s]
  <2>2. m \in Meta
    BY <1>0, SectionAssumption DEF Meta, Sections
  <2>3. [proc[p] EXCEPT !.pc = "guard", !.meta = m] \in Process
    BY <2>2, NothingType, UpdateTypes
  <2>4. hash' \in [meta: Meta, ans: Answers]
    BY <2>1, <2>2
  <2>5. proc' \in [Procs -> Process]
    BY <2>1, <2>3, BecomesType
  <2> QED
    BY <1>2, <2>4, <2>5 DEF OwnMeta
<1>3. CASE SaveAnswers(p)
  <2>1. PICK b \in Accepted(proc[p].meta, proc[p].batch) :
          \/ Becomes(p, Finished(p))
          \/ Becomes(p, [proc[p] EXCEPT !.pc = "hmget", !.batch = b])
    BY <1>3 DEF SaveAnswers
  <2>2. b \in Answers
    BY <1>0, AcceptedType
  <2> QED
    BY <1>3, <2>1, <2>2, UpdateTypes, FinishedType, BecomesType DEF SaveAnswers
<1>4. CASE NextSection(p)
  BY <1>0, <1>4, MetaTypes, FinishedType, BecomesType DEF NextSection
<1>5. CASE SubmitRequest(p)
  <2>1. PICK b \in Accepted(proc[p].meta, proc[p].batch) :
          \/ Becomes(p, Finished(p))
          \/ Becomes(p, [proc[p] EXCEPT !.pc = "hget", !.sub = TRUE, !.meta = NoMeta,
                           !.batch = IF over THEN Nothing ELSE b])
    BY <1>5 DEF SubmitRequest
  <2>2. (IF over THEN Nothing ELSE b) \in Answers
    BY <1>0, AcceptedType, NothingType
  <2> QED
    BY <1>5, <2>1, <2>2, MetaTypes, UpdateTypes, FinishedType, BecomesType DEF SubmitRequest
<1>6. CASE OpenAttempt(p)
  <2>1. [proc[p] EXCEPT !.pc = "hget", !.sub = TRUE, !.meta = NoMeta] \in Process
    BY MetaTypes, NothingType, UpdateTypes
  <2> QED
    BY <1>6, <2>1, FinishedType, BecomesType DEF OpenAttempt
<1> QED
  BY <1>1, <1>2, <1>3, <1>4, <1>5, <1>6 DEF RequestStep

LEMMA MergeStepType ==
    ASSUME TypeOK, NEW p \in Procs, MergeStep(p)
    PROVE  TypeOK'
<1> USE DEF TypeOK
<1>0. proc[p].batch \in Answers /\ hash.ans \in Answers
  BY DEF Process
<1>1. CASE ReadStored(p)
  <2> DEFINE fields == Newer(proc[p].batch, hash.ans)
  <2>1. fields \in Answers
    BY <1>0, AnswersTypes
  <2>2. [proc[p] EXCEPT !.pc = "hset", !.batch = fields] \in Process
    BY <2>1, UpdateTypes
  <2>3. Merged(p) \in Process
    BY MergedType
  <2> QED
    BY <1>1, <2>2, <2>3, BecomesType DEF ReadStored
<1>2. CASE StoreAnswers(p)
  <2>1. Overlay(proc[p].batch, hash.ans) \in Answers
    BY <1>0, AnswersTypes
  <2>2. saved' \in Answers
    BY <1>0, <1>2, MaxAtAssumption DEF StoreAnswers, Answers
  <2> QED
    BY <1>2, <2>1, <2>2, MergedType, BecomesType DEF StoreAnswers, DirtyAfterSave
<1> QED
  BY <1>1, <1>2 DEF MergeStep

LEMMA SubmitStepType ==
    ASSUME TypeOK, NEW p \in Procs, SubmitStep(p)
    PROVE  TypeOK'
<1> USE DEF TypeOK
<1>1. CASE CollectAnswers(p)
  <2>1. [proc[p] EXCEPT !.pc = "update", !.read = hash.ans, !.owed = saved] \in Process
    BY UpdateTypes
  <2> QED
    BY <1>1, <2>1, BecomesType DEF CollectAnswers
<1>2. CASE MarkSubmitted(p)
  <2>1. [proc[p] EXCEPT !.pc = "del", !.won = SubmitFilter] \in Process
    BY MetaTypes, NothingType, UpdateTypes
  <2>2. proc[p].meta.section \in Sections /\ proc[p].read \in Answers
    BY DEF Process, Meta
  <2>3. attempt' \in [status: Status, section: Sections, answers: Answers]
    BY <1>2, <2>2 DEF MarkSubmitted, Status
  <2> QED
    BY <1>2, <2>1, <2>3, BecomesType DEF MarkSubmitted
<1>3. CASE DropHash(p)
  <2>1. [proc[p] EXCEPT !.pc = "enqueue"] \in Process
    BY DEF Process, Steps
  <2> QED
    BY <1>3, <2>1, NothingType, MetaTypes, FinishedType, BecomesType DEF DropHash, NoHash
<1>4. CASE EnqueueScore(p)
  BY <1>4, FinishedType, BecomesType DEF EnqueueScore
<1> QED
  BY <1>1, <1>2, <1>3, <1>4 DEF SubmitStep

LEMMA WorkerStepType ==
    ASSUME TypeOK, NEW p \in Procs, WorkerStep(p)
    PROVE  TypeOK'
<1> USE DEF TypeOK
<1>0. ASSUME NEW t \in Steps
      PROVE  [proc[p] EXCEPT !.pc = t] \in Process
  BY <1>0 DEF Process
<1>1. CASE PopDirty(p)
  <2>1. (IF dirty THEN "flushMeta" ELSE "overdue") \in Steps
    BY DEF Steps
  <2> QED
    BY <1>0, <1>1, <2>1, BecomesType DEF PopDirty
<1>2. CASE FlushReadMeta(p)
  <2>1. [proc[p] EXCEPT !.pc = "flushRead", !.meta = hash.meta] \in Process
    BY NothingType, UpdateTypes
  <2> QED
    BY <1>2, <2>1, FinishedType, BecomesType DEF FlushReadMeta
<1>3. CASE FlushReadAnswers(p)
  <2>1. [proc[p] EXCEPT !.pc = "flushWrite", !.read = hash.ans] \in Process
    BY MetaTypes, UpdateTypes
  <2> QED
    BY <1>3, <2>1, BecomesType DEF FlushReadAnswers
<1>4. CASE FlushWrite(p)
  <2>1. proc[p].meta.section \in Sections /\ proc[p].read \in Answers
    BY DEF Process, Meta
  <2> QED
    BY <1>4, <2>1, FinishedType, BecomesType DEF FlushWrite
<1>5. CASE FindOverdue(p)
  <2>1. [proc[p] EXCEPT !.pc = "hget", !.sub = TRUE] \in Process
    BY MetaTypes, NothingType, UpdateTypes
  <2> QED
    BY <1>5, <2>1, FinishedType, BecomesType DEF FindOverdue
<1> QED
  BY <1>1, <1>2, <1>3, <1>4, <1>5 DEF WorkerStep

LEMMA BeginType ==
    ASSUME TypeOK, NEW p \in Procs, Begin(p)
    PROVE  TypeOK'
<1>1. PICK kind \in Kinds, b \in Answers :
        Becomes(p, [Fresh EXCEPT !.pc = "hget", !.kind = kind, !.batch = b, !.late = Closed])
  BY DEF Begin
<1>2. [Fresh EXCEPT !.pc = "hget", !.kind = kind, !.batch = b, !.late = Closed] \in Process
  BY FreshType DEF Process, Steps, Closed
<1> QED
  BY <1>1, <1>2, BecomesType DEF Begin, TypeOK

LEMMA NextType == TypeOK /\ [Next]_vars => TypeOK'
<1> SUFFICES ASSUME TypeOK, [Next]_vars PROVE TypeOK'
  OBVIOUS
<1>1. CASE \E p \in Procs : Begin(p) \/ Step(p)
  BY <1>1, BeginType, LoadStepType, MergeStepType, SubmitStepType, RequestStepType,
     WorkerStepType DEF Step
<1>2. CASE \E p \in Procs : Fail(p)
  BY <1>2, FinishedType, BecomesType DEF Fail, TypeOK
<1>3. CASE TimeIsUp
  BY <1>3 DEF TimeIsUp, TypeOK
<1>4. CASE RedisLosesHash
  BY <1>4, NothingType, MetaTypes DEF RedisLosesHash, TypeOK, NoHash
<1>5. CASE UNCHANGED vars
  BY <1>5 DEF vars, TypeOK
<1> QED
  BY <1>1, <1>2, <1>3, <1>4, <1>5 DEF Next

\* Type correctness of the live answer store.
THEOREM TypeCorrect == Spec => []TypeOK
BY InitType, NextType, PTL DEF Spec

-----------------------------------------------------------------------------
(***************************************************************************)
(* OneWinner: most steps leave a process that has not won as it was; only  *)
(* MarkSubmitted, DropHash and EnqueueScore touch what OneWinner is about. *)
(***************************************************************************)

Quiet(p) ==
    /\ \A x \in Procs : x # p => proc'[x] = proc[x]
    /\ ~proc'[p].won
    /\ proc'[p].pc # "enqueue"
    /\ attempt'.status = attempt.status
    /\ enqueued' = enqueued

LEMMA QuietStep ==
    ASSUME OneWinner, NEW p \in Procs, Quiet(p)
    PROVE  OneWinner'
BY DEF OneWinner, Winners, At, Quiet

\* What a step that replaces the record of p by r does to the table of processes.
LEMMA BecomesAt ==
    ASSUME TypeOK, NEW p \in Procs, NEW r, Becomes(p, r)
    PROVE  /\ proc'[p] = r
           /\ \A x \in Procs : x # p => proc'[x] = proc[x]
BY DEF TypeOK, Becomes

LEMMA LoadedQuiet ==
    ASSUME TypeOK, NEW p \in Procs, ~proc[p].won, NEW m
    PROVE  ~Loaded(p, m).won /\ Loaded(p, m).pc # "enqueue"
BY FinishedType DEF TypeOK, Process, Loaded

LEMMA MergedQuiet ==
    ASSUME TypeOK, NEW p \in Procs, ~proc[p].won
    PROVE  ~Merged(p).won /\ Merged(p).pc # "enqueue"
BY FinishedType DEF TypeOK, Process, Merged

LEMMA LoadStepQuiet ==
    ASSUME TypeOK, OneWinner, NEW p \in Procs, LoadStep(p)
    PROVE  Quiet(p)
<1>1. proc[p] \in Process /\ ~proc[p].won
  BY DEF TypeOK, OneWinner, LoadStep, HgetMeta, FindAttempt, RefillAnswers,
         WriteBackMeta, At
<1>2. attempt'.status = attempt.status /\ enqueued' = enqueued
  BY DEF LoadStep, HgetMeta, FindAttempt, RefillAnswers, WriteBackMeta
<1> USE DEF Quiet
<1>3. CASE HgetMeta(p)
  BY <1>1, <1>2, <1>3, LoadedQuiet DEF TypeOK, Becomes, HgetMeta, Process
<1>4. CASE FindAttempt(p)
  <2> DEFINE m == [status |-> attempt.status, section |-> attempt.section]
  <2>1. PICK t \in {"writeBack", "refill"} :
          \/ Becomes(p, Loaded(p, m))
          \/ Becomes(p, [proc[p] EXCEPT !.meta = m, !.read = attempt.answers, !.pc = t])
    BY <1>4 DEF FindAttempt
  <2>2. CASE Becomes(p, Loaded(p, m))
    BY <1>1, <1>2, <2>2, LoadedQuiet, BecomesAt
  <2>3. CASE Becomes(p, [proc[p] EXCEPT !.meta = m, !.read = attempt.answers, !.pc = t])
    BY <1>1, <1>2, <2>3 DEF TypeOK, Becomes, Process
  <2> QED
    BY <2>1, <2>2, <2>3
<1>5. CASE RefillAnswers(p)
  BY <1>1, <1>2, <1>5 DEF TypeOK, Becomes, RefillAnswers, Process
<1>6. CASE WriteBackMeta(p)
  BY <1>1, <1>2, <1>6, LoadedQuiet, BecomesAt DEF WriteBackMeta
<1> QED
  BY <1>3, <1>4, <1>5, <1>6 DEF LoadStep

LEMMA MergeStepQuiet ==
    ASSUME TypeOK, OneWinner, NEW p \in Procs, MergeStep(p)
    PROVE  Quiet(p)
<1>1. proc[p] \in Process /\ ~proc[p].won
  BY DEF TypeOK, OneWinner, MergeStep, ReadStored, StoreAnswers, At
<1>2. attempt'.status = attempt.status /\ enqueued' = enqueued
  BY DEF MergeStep, ReadStored, StoreAnswers
<1> USE DEF Quiet
<1>3. CASE ReadStored(p)
  <2>1. PICK b : \/ Becomes(p, Merged(p))
                 \/ Becomes(p, [proc[p] EXCEPT !.pc = "hset", !.batch = b])
    BY <1>3 DEF ReadStored
  <2>2. CASE Becomes(p, Merged(p))
    BY <1>1, <1>2, <2>2, MergedQuiet, BecomesAt
  <2>3. CASE Becomes(p, [proc[p] EXCEPT !.pc = "hset", !.batch = b])
    BY <1>1, <1>2, <2>3 DEF TypeOK, Becomes, Process
  <2> QED
    BY <2>1, <2>2, <2>3
<1>4. CASE StoreAnswers(p)
  BY <1>1, <1>2, <1>4, MergedQuiet, BecomesAt DEF StoreAnswers
<1> QED
  BY <1>3, <1>4 DEF MergeStep

LEMMA RequestStepQuiet ==
    ASSUME TypeOK, OneWinner, NEW p \in Procs, RequestStep(p)
    PROVE  Quiet(p)
<1>1. proc[p] \in Process /\ ~proc[p].won
  BY DEF TypeOK, OneWinner, RequestStep, StartAttempt, OwnMeta, SaveAnswers,
         NextSection, SubmitRequest, OpenAttempt, At
<1>2. attempt'.status = attempt.status /\ enqueued' = enqueued
  BY DEF RequestStep, StartAttempt, OwnMeta, SaveAnswers, NextSection, SubmitRequest,
         OpenAttempt
<1> USE DEF Quiet
<1>3. CASE StartAttempt(p)
  BY <1>2, <1>3, FinishedType, BecomesAt DEF StartAttempt
<1>4. CASE OwnMeta(p)
  <2>1. PICK m : Becomes(p, [proc[p] EXCEPT !.pc = "guard", !.meta = m])
    BY <1>4 DEF OwnMeta
  <2> QED
    BY <1>1, <1>2, <2>1 DEF TypeOK, Becomes, Process
<1>5. CASE SaveAnswers(p)
  <2>1. PICK b : \/ Becomes(p, Finished(p))
                 \/ Becomes(p, [proc[p] EXCEPT !.pc = "hmget", !.batch = b])
    BY <1>5 DEF SaveAnswers
  <2>2. CASE Becomes(p, Finished(p))
    BY <1>1, <1>2, <2>2, FinishedType, BecomesAt
  <2>3. CASE Becomes(p, [proc[p] EXCEPT !.pc = "hmget", !.batch = b])
    BY <1>1, <1>2, <2>3 DEF TypeOK, Becomes, Process
  <2> QED
    BY <2>1, <2>2, <2>3
<1>6. CASE NextSection(p)
  BY <1>2, <1>6, FinishedType, BecomesAt DEF NextSection
<1>7. CASE SubmitRequest(p)
  <2>1. PICK b : \/ Becomes(p, Finished(p))
                 \/ Becomes(p, [proc[p] EXCEPT !.pc = "hget", !.sub = TRUE,
                                  !.meta = NoMeta, !.batch = b])
    BY <1>7 DEF SubmitRequest
  <2>2. CASE Becomes(p, Finished(p))
    BY <1>1, <1>2, <2>2, FinishedType, BecomesAt
  <2>3. CASE Becomes(p, [proc[p] EXCEPT !.pc = "hget", !.sub = TRUE,
                              !.meta = NoMeta, !.batch = b])
    BY <1>1, <1>2, <2>3 DEF TypeOK, Becomes, Process
  <2> QED
    BY <2>1, <2>2, <2>3
<1>8. CASE OpenAttempt(p)
  BY <1>1, <1>2, <1>8, FinishedType DEF TypeOK, Becomes, OpenAttempt, Process
<1> QED
  BY <1>3, <1>4, <1>5, <1>6, <1>7, <1>8 DEF RequestStep

LEMMA WorkerStepQuiet ==
    ASSUME TypeOK, OneWinner, NEW p \in Procs, WorkerStep(p)
    PROVE  Quiet(p)
<1>1. proc[p] \in Process /\ ~proc[p].won
  BY DEF TypeOK, OneWinner, WorkerStep, PopDirty, FlushReadMeta, FlushReadAnswers,
         FlushWrite, FindOverdue, At
<1>2. attempt'.status = attempt.status /\ enqueued' = enqueued
  BY DEF WorkerStep, PopDirty, FlushReadMeta, FlushReadAnswers, FlushWrite, FindOverdue,
         TypeOK
<1> USE DEF Quiet
<1>3. CASE PopDirty(p)
  BY <1>1, <1>2, <1>3 DEF TypeOK, Becomes, PopDirty, Process
<1>4. CASE FlushReadMeta(p)
  BY <1>1, <1>2, <1>4, FinishedType DEF TypeOK, Becomes, FlushReadMeta, Process
<1>5. CASE FlushReadAnswers(p)
  BY <1>1, <1>2, <1>5 DEF TypeOK, Becomes, FlushReadAnswers, Process
<1>6. CASE FlushWrite(p)
  BY <1>2, <1>6, FinishedType, BecomesAt DEF FlushWrite
<1>7. CASE FindOverdue(p)
  BY <1>1, <1>2, <1>7, FinishedType DEF TypeOK, Becomes, FindOverdue, Process
<1> QED
  BY <1>3, <1>4, <1>5, <1>6, <1>7 DEF WorkerStep

\* The steps that OneWinner is about.
LEMMA SubmitStepWinner ==
    ASSUME TypeOK, OneWinner, NEW p \in Procs, SubmitStep(p)
    PROVE  OneWinner'
<1>1. proc[p] \in Process
  BY DEF TypeOK
<1>2. CASE CollectAnswers(p)
  <2>1. ~proc[p].won
    BY <1>2 DEF OneWinner, CollectAnswers, At
  <2>2. Quiet(p)
    BY <1>1, <1>2, <2>1 DEF Quiet, CollectAnswers, Becomes, TypeOK, Process
  <2> QED
    BY <2>2, QuietStep
<1>3. CASE MarkSubmitted(p)
  <2>1. /\ proc'[p].won = SubmitFilter
        /\ proc'[p].pc = "del"
        /\ \A x \in Procs : x # p => proc'[x] = proc[x]
    BY <1>1, <1>3 DEF MarkSubmitted, Becomes, TypeOK, Process
  <2>2. /\ enqueued' = enqueued
        /\ SubmitFilter => attempt'.status = "submitted"
        /\ ~SubmitFilter => attempt'.status = attempt.status
    BY <1>3 DEF MarkSubmitted
  <2>3. CASE SubmitFilter
    BY <2>1, <2>2, <2>3 DEF OneWinner, Winners, SubmitFilter, At
  <2>4. CASE ~SubmitFilter
    BY <2>1, <2>2, <2>4, QuietStep DEF Quiet
  <2> QED
    BY <2>3, <2>4
<1>4. CASE DropHash(p)
  <2>1. CASE proc[p].won
    <3>1. /\ proc'[p].won
          /\ proc'[p].pc = "enqueue"
          /\ \A x \in Procs : x # p => proc'[x] = proc[x]
      BY <1>1, <1>4, <2>1 DEF DropHash, Becomes, TypeOK, Process
    <3>2. attempt' = attempt /\ enqueued' = enqueued
      BY <1>4 DEF DropHash
    <3> QED
      BY <2>1, <3>1, <3>2 DEF OneWinner, Winners, At
  <2>2. CASE ~proc[p].won
    BY <1>4, <2>2, FinishedType, BecomesAt, QuietStep DEF Quiet, DropHash
  <2> QED
    BY <2>1, <2>2
<1>5. CASE EnqueueScore(p)
  <2>1. /\ proc[p].won
        /\ enqueued = 0
        /\ attempt.status # "in_progress"
        /\ \A x \in Procs : x # p => ~proc[x].won /\ ~At(x, "enqueue")
    BY <1>5 DEF OneWinner, Winners, EnqueueScore, At
  <2>2. /\ ~proc'[p].won
        /\ proc'[p].pc # "enqueue"
        /\ \A x \in Procs : x # p => proc'[x] = proc[x]
    BY <1>5, FinishedType, BecomesAt DEF EnqueueScore
  <2>3. attempt' = attempt /\ enqueued' = 1
    BY <1>5, <2>1 DEF EnqueueScore
  <2> QED
    BY <2>1, <2>2, <2>3 DEF OneWinner, Winners, At
<1> QED
  BY <1>2, <1>3, <1>4, <1>5 DEF SubmitStep

LEMMA WinnerNext == TypeOK /\ OneWinner /\ [Next]_vars => OneWinner'
<1> SUFFICES ASSUME TypeOK, OneWinner, [Next]_vars PROVE OneWinner'
  OBVIOUS
<1>1. ASSUME NEW p \in Procs, Step(p)
      PROVE  OneWinner'
  BY <1>1, LoadStepQuiet, MergeStepQuiet, RequestStepQuiet, WorkerStepQuiet, QuietStep,
     SubmitStepWinner DEF Step
<1>2. ASSUME NEW p \in Procs, Begin(p)
      PROVE  OneWinner'
  <2>1. PICK kind, b :
          Becomes(p, [Fresh EXCEPT !.pc = "hget", !.kind = kind, !.batch = b, !.late = Closed])
    BY <1>2 DEF Begin
  <2>2. /\ ~proc'[p].won
        /\ proc'[p].pc # "enqueue"
        /\ \A x \in Procs : x # p => proc'[x] = proc[x]
    BY <1>2, <2>1, FreshType DEF Becomes, TypeOK, Process
  <2> QED
    BY <1>2, <2>2, QuietStep DEF Begin, Quiet
<1>3. ASSUME NEW p \in Procs, Fail(p)
      PROVE  OneWinner'
  BY <1>3, FinishedType, BecomesAt, QuietStep DEF Fail, Quiet
<1>4. CASE TimeIsUp \/ RedisLosesHash \/ UNCHANGED vars
  BY <1>4 DEF TimeIsUp, RedisLosesHash, vars, OneWinner, Winners, At
<1> QED
  BY <1>1, <1>2, <1>3, <1>4 DEF Next

\* However many submissions of an attempt overlap, at most one of them modifies the document,
\* and the score job is added at most once.
THEOREM OneWinnerInvariant == Spec => []OneWinner
<1>1. Init => OneWinner
  BY FreshType, FinishedType DEF Init, OneWinner, Winners, At, Fresh
<1>2. QED
  BY <1>1, TypeCorrect, WinnerNext, PTL DEF Spec

-----------------------------------------------------------------------------
(***************************************************************************)
(* AttemptStore implements AttemptLifecycle.  Only FlushWrite,             *)
(* MarkSubmitted and EnqueueScore change what the abstract state shows.    *)
(***************************************************************************)

LEMMA FlushWriteRecords ==
    ASSUME TypeOK, TypeOK', NEW p \in Procs, FlushWrite(p)
    PROVE  [Lifecycle!Next]_Lifecycle!lifecycleVars
<1>1. attempt'.answers \in Answers /\ attempt'.status = attempt.status /\ enqueued' = enqueued
  BY DEF FlushWrite, TypeOK
<1>2. CASE FlushFilter
  BY <1>1, <1>2 DEF FlushFilter, Lifecycle!Next, Lifecycle!Record, Lifecycle!Answers, Answers
<1>3. CASE ~FlushFilter
  BY <1>1, <1>3 DEF FlushWrite, Lifecycle!lifecycleVars
<1> QED
  BY <1>2, <1>3

LEMMA MarkSubmittedSubmits ==
    ASSUME TypeOK, TypeOK', NEW p \in Procs, MarkSubmitted(p)
    PROVE  [Lifecycle!Next]_Lifecycle!lifecycleVars
<1>1. attempt'.answers \in Answers /\ enqueued' = enqueued
  BY DEF MarkSubmitted, TypeOK
<1>2. CASE SubmitFilter
  <2>1. attempt.status = "in_progress" /\ attempt'.status = "submitted"
    BY <1>2 DEF MarkSubmitted, SubmitFilter
  <2> QED
    BY <1>1, <2>1 DEF Lifecycle!Next, Lifecycle!Submit, Lifecycle!Answers, Answers
<1>3. CASE ~SubmitFilter
  BY <1>1, <1>3 DEF MarkSubmitted, Lifecycle!lifecycleVars
<1> QED
  BY <1>2, <1>3

LEMMA EnqueueScoreQueues ==
    ASSUME TypeOK, OneWinner, NEW p \in Procs, EnqueueScore(p)
    PROVE  [Lifecycle!Next]_Lifecycle!lifecycleVars
<1>1. proc[p].won /\ enqueued = 0 /\ p \in Winners
  BY DEF EnqueueScore, OneWinner, Winners, At
<1>2. attempt.status = "submitted"
  BY <1>1 DEF OneWinner, TypeOK, Status
<1>3. attempt' = attempt /\ enqueued' = 1
  BY <1>1 DEF EnqueueScore
<1> QED
  BY <1>1, <1>2, <1>3 DEF Lifecycle!Next, Lifecycle!Queue

LEMMA OthersStutter ==
    ASSUME NEW p \in Procs,
           \/ Begin(p) \/ Fail(p) \/ LoadStep(p) \/ MergeStep(p) \/ RequestStep(p)
           \/ CollectAnswers(p) \/ DropHash(p)
           \/ PopDirty(p) \/ FlushReadMeta(p) \/ FlushReadAnswers(p) \/ FindOverdue(p)
    PROVE  UNCHANGED <<attempt, enqueued>>
BY DEF Begin, Fail, LoadStep, HgetMeta, FindAttempt, RefillAnswers, WriteBackMeta, MergeStep,
       ReadStored, StoreAnswers, RequestStep, StartAttempt, OwnMeta, SaveAnswers, NextSection,
       SubmitRequest, OpenAttempt, CollectAnswers, DropHash, PopDirty, FlushReadMeta,
       FlushReadAnswers, FindOverdue

LEMMA NextRefines ==
    TypeOK /\ TypeOK' /\ OneWinner /\ [Next]_vars => [Lifecycle!Next]_Lifecycle!lifecycleVars
<1> SUFFICES ASSUME TypeOK, TypeOK', OneWinner, [Next]_vars
             PROVE  [Lifecycle!Next]_Lifecycle!lifecycleVars
  OBVIOUS
<1>1. ASSUME UNCHANGED <<attempt, enqueued>>
      PROVE  UNCHANGED Lifecycle!lifecycleVars
  BY <1>1 DEF Lifecycle!lifecycleVars
<1>2. ASSUME NEW p \in Procs, Begin(p) \/ Step(p) \/ Fail(p)
      PROVE  [Lifecycle!Next]_Lifecycle!lifecycleVars
  BY <1>1, <1>2, FlushWriteRecords, MarkSubmittedSubmits, EnqueueScoreQueues, OthersStutter
     DEF Step, SubmitStep, WorkerStep
<1>3. CASE TimeIsUp \/ RedisLosesHash \/ UNCHANGED vars
  BY <1>1, <1>3 DEF TimeIsUp, RedisLosesHash, vars
<1> QED
  BY <1>2, <1>3 DEF Next

\* Whatever requests, flushes, refills and failures overlap, the MongoDB document behaves like
\* AttemptLifecycle: answers change only while it is in progress, it is submitted once, and
\* one score job at most follows.
THEOREM Implements == Spec => ImplementsLifecycle
<1>1. Init => Lifecycle!Init
  BY DEF Init, Lifecycle!Init, Nothing
<1>2. QED
  BY <1>1, NextRefines, TypeCorrect, OneWinnerInvariant, PTL
     DEF Spec, ImplementsLifecycle, Lifecycle!Spec

-----------------------------------------------------------------------------
(***************************************************************************)
(* One student with one tab.  The hash is there from startAttempt to the   *)
(* submission, so nothing is ever rebuilt from the document, and between   *)
(* the two commands of a request only workers run, which never write to    *)
(* the hash of an attempt in progress.  Requests may die anywhere; so may  *)
(* workers, of which there may be any number.                              *)
(***************************************************************************)

\* One request at a time, a Redis that keeps its data, and a start that reached Redis.
OneTab == Tabs = 1 /\ ~RedisLoses /\ Starter \notin Unreliable

Loading == {"hget", "find"}
Submitting == {"collect", "update", "del", "enqueue"}
Flush == {"flushMeta", "flushRead", "flushWrite"}

\* Where each process may be: none refills the hash from the document or rebuilds its meta.
Place(p, r) ==
    /\ p = Starter => r.pc \in {"startMeta", "gone"}
    /\ p \in Requests =>
        r.pc \in {"new", "gone", "own", "guard", "hmget", "hset"} \cup Loading \cup Submitting
    /\ p \in Workers =>
        /\ r.pc \in {"idle", "overdue"} \cup Flush \cup Loading \cup Submitting
        /\ r.pc \in {"idle", "overdue"} \cup Loading => r.batch = Nothing
        /\ r.pc \in Loading => r.sub

Busy(p) == proc[p].pc \notin {"new", "gone"}
InProgress == attempt.status = "in_progress"

\* What a process has read is still so when it acts on it.
Right(p, r) ==
    /\ r.pc \in {"find", "del"} => ~InProgress
    /\ r.pc = "find" /\ p \notin Workers => hash.meta = NoMeta
    /\ r.pc \in {"own", "guard"} => hash.meta \in {r.meta, NoMeta}
    /\ r.pc = "hset" => \A q \in Questions : r.batch[q] = 0 \/ r.batch[q] >= hash.ans[q]
    /\ r.pc = "update" /\ InProgress => \A q \in Questions : r.read[q] >= r.owed[q]
    /\ r.pc = "startMeta" => r.meta # NoMeta

Alone == \A c, d \in Clients : Busy(c) /\ Busy(d) => c = d

\* Until the start has written the meta, nobody else has anything to do.
Starting ==
    At(Starter, "startMeta") =>
        /\ hash = NoHash /\ ~dirty /\ ~over
        /\ InProgress /\ attempt.answers = Nothing /\ saved = Nothing
        /\ \A w \in Workers : proc[w].pc \in {"idle", "overdue"}

\* An attempt in progress has its meta and every saved answer in Redis.
Held ==
    InProgress =>
        /\ ~At(Starter, "startMeta") => hash.meta # NoMeta
        /\ \A q \in Questions : hash.ans[q] >= saved[q]

SoloInv ==
    /\ \A p \in Procs : Place(p, proc[p]) /\ Right(p, proc[p])
    /\ Alone /\ Starting /\ Held

LEMMA FinishedFields ==
    \A p : /\ Finished(p).pc = IF p \in Workers THEN "idle" ELSE "gone"
           /\ Finished(p).batch = Nothing
BY DEF Finished, Fresh

LEMMA LoadedFields ==
    ASSUME TypeOK, NEW p \in Procs, NEW m
    PROVE  /\ ~proc[p].sub => Loaded(p, m).pc = "own" /\ Loaded(p, m).meta = m
           /\ proc[p].sub => \/ Loaded(p, m) = Finished(p)
                             \/ Loaded(p, m).pc = "collect"
                             \/ Loaded(p, m).pc = "hmget" /\ proc[p].batch # Nothing
BY DEF TypeOK, Process, Loaded

LEMMA MergedFields ==
    ASSUME TypeOK, NEW p \in Procs
    PROVE  Merged(p) = Finished(p) \/ Merged(p).pc = "collect"
BY DEF TypeOK, Process, Merged

\* A step that changes nothing but its process.
LEMMA CalmStep ==
    ASSUME OneTab, SoloInv, NEW p \in Procs, UNCHANGED <<attempt, hash, dirty, over, saved>>,
           \A x \in Procs : x # p => proc'[x] = proc[x],
           Place(p, proc'[p]), Right(p, proc'[p]), p # Starter,
           p \in Requests => Busy(p) \/ \A c \in Clients : ~Busy(c),
           p \in Workers => proc'[p].pc \in {"idle", "overdue"} \/ ~At(Starter, "startMeta")
    PROVE  SoloInv'
<1> USE ProcessAssumption DEF Procs, Clients
<1>1. \A x \in Procs : Place(x, proc'[x]) /\ Right(x, proc'[x])
  BY DEF SoloInv
<1>2. \A x \in Procs : Place(x, proc[x])' /\ Right(x, proc[x])'
  BY <1>1 DEF Place, Right, InProgress
<1>3. Alone'
  BY DEF SoloInv, Alone, Busy
<1>4. At(Starter, "startMeta")' = At(Starter, "startMeta")
  BY DEF At
<1>5. Starting'
  BY <1>4 DEF SoloInv, Starting, InProgress
<1>6. Held'
  BY <1>4 DEF SoloInv, Held, InProgress
<1> QED
  BY <1>2, <1>3, <1>5, <1>6 DEF SoloInv

Waiting == {"new", "gone", "idle", "overdue", "startMeta"}

\* Who is past its first step is not the Starter, and the meta is in Redis.
LEMMA Acting ==
    ASSUME SoloInv, NEW p \in Procs, proc[p].pc \notin Waiting
    PROVE  p # Starter /\ Busy(p) /\ ~At(Starter, "startMeta")
<1>1. p # Starter /\ Busy(p)
  BY DEF SoloInv, Place, Waiting, Busy
<1>2. CASE p \in Workers
  BY <1>1, <1>2 DEF SoloInv, Starting, Waiting
<1>3. CASE p \in Requests
  BY <1>1, <1>3 DEF SoloInv, Alone, Busy, Clients, At
<1> QED
  BY <1>1, <1>2, <1>3 DEF Procs, Clients

LEMMA ActingStep ==
    ASSUME TypeOK, OneTab, SoloInv, NEW p \in Procs, UNCHANGED <<attempt, hash, dirty, over, saved>>,
           proc[p].pc \notin Waiting, NEW r, Becomes(p, r), Place(p, r), Right(p, r)
    PROVE  SoloInv'
<1>1. proc'[p] = r /\ \A x \in Procs : x # p => proc'[x] = proc[x]
  BY BecomesAt
<1>2. p # Starter /\ Busy(p) /\ ~At(Starter, "startMeta")
  BY Acting
<1> QED
  BY <1>1, <1>2, CalmStep

LEMMA FinishedPlace ==
    ASSUME NEW p \in Procs
    PROVE  Place(p, Finished(p)) /\ Right(p, Finished(p))
BY FinishedFields, ProcessAssumption DEF Place, Right, Procs, Clients, Loading

\* loadMeta returns.
LEMMA LoadedPlace ==
    ASSUME TypeOK, NEW p \in Procs, p # Starter, NEW m, hash.meta \in {m, NoMeta},
           p \in Workers => proc[p].sub /\ proc[p].batch = Nothing
    PROVE  Place(p, Loaded(p, m)) /\ Right(p, Loaded(p, m))
<1> USE ProcessAssumption DEF Procs, Clients
<1>1. CASE proc[p].sub
  <2>1. CASE Loaded(p, m) = Finished(p)
    BY <2>1, FinishedPlace
  <2>2. CASE Loaded(p, m).pc = "collect"
    BY <2>2 DEF Place, Right, Submitting, Loading, Flush
  <2>3. CASE Loaded(p, m).pc = "hmget" /\ proc[p].batch # Nothing
    BY <2>3 DEF Place, Right, Submitting, Loading, Flush
  <2> QED
    BY <1>1, <2>1, <2>2, <2>3, LoadedFields
<1>2. CASE ~proc[p].sub
  <2>1. Loaded(p, m).pc = "own" /\ Loaded(p, m).meta = m
    BY <1>2, LoadedFields
  <2> QED
    BY <1>2, <2>1 DEF Place, Right, Submitting, Loading, Flush
<1> QED
  BY <1>1, <1>2

LEMMA LoadSolo ==
    ASSUME TypeOK, OneTab, SoloInv, NEW p \in Procs, LoadStep(p)
    PROVE  SoloInv' /\ UNCHANGED <<hash, attempt>>
<1>1. Place(p, proc[p]) /\ Right(p, proc[p]) /\ proc[p] \in Process
  BY DEF SoloInv, TypeOK
<1>2. ~RefillAnswers(p) /\ ~WriteBackMeta(p)
  BY <1>1 DEF RefillAnswers, WriteBackMeta, At, Place, Procs, Clients, Loading, Submitting, Flush
<1>3. proc[p].pc \in Loading /\ UNCHANGED <<attempt, hash, dirty, over, saved>>
  BY <1>2 DEF LoadStep, HgetMeta, FindAttempt, At, Loading
<1>4. proc[p].pc \notin Waiting
  BY <1>3 DEF Loading, Waiting
<1>5. p # Starter /\ ~At(Starter, "startMeta")
  BY <1>4, Acting
<1>6. p \in Workers => proc[p].sub /\ proc[p].batch = Nothing
  BY <1>1, <1>3 DEF Place
<1>7. CASE HgetMeta(p)
  <2>1. CASE hash.meta # NoMeta
    BY <1>3, <1>4, <1>5, <1>6, <1>7, <2>1, LoadedPlace, ActingStep DEF HgetMeta
  <2>2. CASE hash.meta = NoMeta
    <3>1. PICK r : r = [proc[p] EXCEPT !.pc = "find"] /\ Becomes(p, r)
      BY <1>7, <2>2 DEF HgetMeta
    <3>2. r.pc = "find" /\ r.sub = proc[p].sub /\ r.batch = proc[p].batch
      BY <1>1, <3>1 DEF Process
    <3>3. ~InProgress
      BY <1>5, <2>2 DEF SoloInv, Held
    <3>4. Place(p, r) /\ Right(p, r)
      BY <1>5, <1>6, <2>2, <3>2, <3>3 DEF Place, Right, Loading, Flush, Submitting
    <3> QED
      BY <1>3, <1>4, <3>1, <3>4, ActingStep
  <2> QED
    BY <2>1, <2>2
<1>8. CASE FindAttempt(p)
  <2>1. PICK m : m = [status |-> attempt.status, section |-> attempt.section]
    OBVIOUS
  <2>2. ~InProgress /\ (p \notin Workers => hash.meta = NoMeta)
    BY <1>1, <1>8 DEF FindAttempt, At, Right
  <2>3. Becomes(p, Loaded(p, m))
    BY <1>8, <2>1, <2>2 DEF FindAttempt, InProgress
  <2>4. Place(p, Loaded(p, m)) /\ Right(p, Loaded(p, m))
    <3>1. CASE p \in Workers
      <4>1. Loaded(p, m) = Finished(p)
        BY <1>6, <2>1, <2>2, <3>1 DEF Loaded, InProgress, TypeOK, Process
      <4> QED
        BY <4>1, FinishedPlace
    <3>2. CASE p \notin Workers
      BY <1>5, <1>6, <2>2, <3>2, LoadedPlace
    <3> QED
      BY <3>1, <3>2
  <2> QED
    BY <1>3, <1>4, <2>3, <2>4, ActingStep
<1> QED
  BY <1>2, <1>3, <1>7, <1>8 DEF LoadStep

\* The steps of requests that write nothing.
Reading(p) ==
    \/ SaveAnswers(p) \/ SubmitRequest(p) \/ OpenAttempt(p)
    \/ ReadStored(p) \/ CollectAnswers(p) \/ EnqueueScore(p)

LEMMA ReadingSolo ==
    ASSUME TypeOK, OneTab, SoloInv, NEW p \in Procs, Reading(p)
    PROVE  SoloInv' /\ UNCHANGED <<hash, attempt>>
<1>1. Place(p, proc[p]) /\ Right(p, proc[p]) /\ proc[p] \in Process
  BY DEF SoloInv, TypeOK
<1>2. /\ proc[p].pc \in {"guard", "hmget", "collect", "enqueue"}
      /\ UNCHANGED <<attempt, hash, dirty, over, saved>>
  <2>1. CASE SaveAnswers(p)
    BY <2>1 DEF SaveAnswers, At
  <2>2. CASE SubmitRequest(p)
    BY <2>2 DEF SubmitRequest, At
  <2>3. CASE OpenAttempt(p) \/ ReadStored(p) \/ CollectAnswers(p) \/ EnqueueScore(p)
    BY <2>3 DEF OpenAttempt, ReadStored, CollectAnswers, EnqueueScore, At
  <2> QED
    BY <2>1, <2>2, <2>3 DEF Reading
<1>3. proc[p].pc \notin Waiting
  BY <1>2 DEF Waiting
<1>4. p # Starter
  BY <1>3, Acting
<1>5. p \in Workers => proc[p].pc \in {"collect", "enqueue"}
  BY <1>1, <1>2 DEF Place, Flush, Loading, Submitting
<1>6. ASSUME NEW r, Becomes(p, r), Place(p, r), Right(p, r)
      PROVE  SoloInv'
  BY <1>2, <1>3, <1>6, ActingStep
<1>7. ASSUME Becomes(p, Finished(p))
      PROVE  SoloInv'
  BY <1>6, <1>7, FinishedPlace
<1>8. CASE SaveAnswers(p)
  <2>1. PICK b : Becomes(p, Finished(p)) \/ Becomes(p, [proc[p] EXCEPT !.pc = "hmget", !.batch = b])
    BY <1>8 DEF SaveAnswers
  <2>2. PICK r : r = [proc[p] EXCEPT !.pc = "hmget", !.batch = b]
    OBVIOUS
  <2>3. r.pc = "hmget"
    BY <1>1, <2>2 DEF Process
  <2>4. p \notin Workers
    BY <1>5, <1>8 DEF SaveAnswers, At
  <2>5. Place(p, r) /\ Right(p, r)
    BY <1>4, <2>3, <2>4 DEF Place, Right
  <2> QED
    BY <1>2, <1>6, <1>7, <2>1, <2>2, <2>5
<1>9. CASE SubmitRequest(p) \/ OpenAttempt(p)
  <2>1. p \notin Workers
    <3>1. SubmitRequest(p) => p \notin Workers
      BY <1>5 DEF SubmitRequest, At
    <3>2. OpenAttempt(p) => p \notin Workers
      BY <1>5 DEF OpenAttempt, At
    <3> QED
      BY <1>9, <3>1, <3>2
  <2>2. PICK r : Becomes(p, r) /\ (r = Finished(p) \/ r.pc = "hget")
    <3>1. PICK b : \/ Becomes(p, Finished(p))
                   \/ Becomes(p, [proc[p] EXCEPT !.pc = "hget", !.sub = TRUE, !.meta = NoMeta, !.batch = b])
                   \/ Becomes(p, [proc[p] EXCEPT !.pc = "hget", !.sub = TRUE, !.meta = NoMeta])
      <4>1. CASE SubmitRequest(p)
        BY <4>1 DEF SubmitRequest
      <4>2. CASE OpenAttempt(p)
        BY <4>2 DEF OpenAttempt
      <4> QED
        BY <1>9, <4>1, <4>2
    <3>2. /\ [proc[p] EXCEPT !.pc = "hget", !.sub = TRUE, !.meta = NoMeta, !.batch = b].pc = "hget"
          /\ [proc[p] EXCEPT !.pc = "hget", !.sub = TRUE, !.meta = NoMeta].pc = "hget"
      BY <1>1 DEF Process
    <3> QED
      BY <3>1, <3>2
  <2>3. r.pc = "hget" => Place(p, r) /\ Right(p, r)
    BY <1>4, <2>1 DEF Place, Right, Loading
  <2> QED
    BY <1>2, <1>6, <1>7, <2>2, <2>3
<1>10. CASE ReadStored(p)
  <2>1. PICK b : b = Newer(proc[p].batch, hash.ans)
    OBVIOUS
  <2>2. Becomes(p, Merged(p)) \/ Becomes(p, [proc[p] EXCEPT !.pc = "hset", !.batch = b])
    BY <1>10, <2>1 DEF ReadStored
  <2>3. Merged(p).pc = "collect" => Place(p, Merged(p)) /\ Right(p, Merged(p))
    BY <1>4 DEF Place, Right, Loading, Submitting, Flush
  <2>4. PICK r : r = [proc[p] EXCEPT !.pc = "hset", !.batch = b]
    OBVIOUS
  <2>5. r.pc = "hset" /\ r.batch = b
    BY <1>1, <2>4 DEF Process
  <2>6. \A q \in Questions : b[q] = 0 \/ b[q] >= hash.ans[q]
    BY <2>1 DEF Newer
  <2>7. p \notin Workers
    BY <1>5, <1>10 DEF ReadStored, At
  <2>8. Place(p, r) /\ Right(p, r)
    BY <1>4, <2>5, <2>6, <2>7 DEF Place, Right
  <2> QED
    BY <1>2, <1>6, <1>7, <2>2, <2>3, <2>4, <2>8, MergedFields
<1>11. CASE CollectAnswers(p)
  <2>1. PICK r : r = [proc[p] EXCEPT !.pc = "update", !.read = hash.ans, !.owed = saved]
    OBVIOUS
  <2>2. r.pc = "update" /\ r.read = hash.ans /\ r.owed = saved
    BY <1>1, <2>1 DEF Process
  <2>3. Place(p, r) /\ Right(p, r)
    BY <1>4, <2>2 DEF Place, Right, SoloInv, Held, Submitting, Loading
  <2> QED
    BY <1>6, <1>11, <2>1, <2>3 DEF CollectAnswers
<1>12. CASE EnqueueScore(p)
  BY <1>7, <1>12 DEF EnqueueScore
<1> QED
  BY <1>2, <1>8, <1>9, <1>10, <1>11, <1>12 DEF Reading

LEMMA FlushingSolo ==
    ASSUME TypeOK, OneTab, SoloInv, NEW p \in Procs,
           FlushReadMeta(p) \/ FlushReadAnswers(p) \/ FindOverdue(p)
    PROVE  SoloInv' /\ UNCHANGED <<hash, attempt>>
<1>1. Place(p, proc[p]) /\ Right(p, proc[p]) /\ proc[p] \in Process
  BY DEF SoloInv, TypeOK
<1>2. UNCHANGED <<attempt, hash, dirty, over, saved>>
  BY DEF FlushReadMeta, FlushReadAnswers, FindOverdue
<1>3. p \in Workers /\ p # Starter /\ p \notin Requests
  BY <1>1, ProcessAssumption
     DEF FlushReadMeta, FlushReadAnswers, FindOverdue, At, Place, Procs, Clients, Loading, Submitting
<1>4. CASE FindOverdue(p)
  <2>1. PICK r : /\ Becomes(p, r)
                 /\ r = Finished(p) \/ (over /\ r.pc = "hget" /\ r.sub /\ r.batch = Nothing)
    <3>1. Becomes(p, Finished(p)) \/ (over /\ Becomes(p, [proc[p] EXCEPT !.pc = "hget", !.sub = TRUE]))
      BY <1>4 DEF FindOverdue, Overdue
    <3>2. /\ [proc[p] EXCEPT !.pc = "hget", !.sub = TRUE].pc = "hget"
          /\ [proc[p] EXCEPT !.pc = "hget", !.sub = TRUE].sub
          /\ [proc[p] EXCEPT !.pc = "hget", !.sub = TRUE].batch = proc[p].batch
      BY <1>1 DEF Process
    <3>3. proc[p].batch = Nothing
      BY <1>1, <1>3, <1>4 DEF Place, FindOverdue, At
    <3> QED
      BY <3>1, <3>2, <3>3
  <2>2. Place(p, r) /\ Right(p, r)
    <3>1. r.pc = "hget" /\ r.sub /\ r.batch = Nothing => Place(p, r) /\ Right(p, r)
      BY <1>3 DEF Place, Right, Loading
    <3> QED
      BY <2>1, <3>1, FinishedPlace
  <2>3. proc'[p] = r /\ \A x \in Procs : x # p => proc'[x] = proc[x]
    BY <2>1, BecomesAt
  <2>4. r.pc \in {"idle", "overdue"} \/ ~At(Starter, "startMeta")
    BY <1>3, <2>1, FinishedFields DEF SoloInv, Starting
  <2> QED
    BY <1>2, <1>3, <2>2, <2>3, <2>4, CalmStep
<1>5. CASE FlushReadMeta(p) \/ FlushReadAnswers(p)
  <2>1. proc[p].pc \notin Waiting
    BY <1>5 DEF FlushReadMeta, FlushReadAnswers, At, Waiting
  <2>2. PICK r : Becomes(p, r) /\ Place(p, r) /\ Right(p, r)
    <3>1. CASE FlushReadMeta(p) /\ hash.meta = NoMeta
      BY <3>1, FinishedPlace DEF FlushReadMeta
    <3>2. CASE FlushReadMeta(p) /\ hash.meta # NoMeta
      <4>1. PICK r : r = [proc[p] EXCEPT !.pc = "flushRead", !.meta = hash.meta]
        OBVIOUS
      <4>2. r.pc = "flushRead"
        BY <1>1, <4>1 DEF Process
      <4>3. Place(p, r) /\ Right(p, r)
        BY <1>3, <4>2 DEF Place, Right, Flush, Loading, Submitting
      <4> QED
        BY <3>2, <4>1, <4>3 DEF FlushReadMeta
    <3>3. CASE FlushReadAnswers(p)
      <4>1. PICK r : r = [proc[p] EXCEPT !.pc = "flushWrite", !.read = hash.ans]
        OBVIOUS
      <4>2. r.pc = "flushWrite"
        BY <1>1, <4>1 DEF Process
      <4>3. Place(p, r) /\ Right(p, r)
        BY <1>3, <4>2 DEF Place, Right, Flush, Loading, Submitting
      <4> QED
        BY <3>3, <4>1, <4>3 DEF FlushReadAnswers
    <3> QED
      BY <1>5, <3>1, <3>2, <3>3
  <2> QED
    BY <1>2, <2>1, <2>2, ActingStep
<1> QED
  BY <1>2, <1>4, <1>5

-----------------------------------------------------------------------------
(* The steps that write. *)
\* What NewestWins says of a step.
Newest == hash' = NoHash \/ \A q \in Questions : hash'.ans[q] >= hash.ans[q]

LEMMA UnchangedNewest ==
    ASSUME TypeOK, UNCHANGED hash
    PROVE  Newest
<1>1. hash.meta.section \in Nat /\ \A q \in Questions : hash.ans[q] \in Nat
  BY MaxAtAssumption, SectionAssumption DEF TypeOK, Answers, Meta, Sections
<1> QED
  BY <1>1 DEF Newest

\* While a request writes to the hash there is nobody else but workers, which do not.
LEMMA Writer ==
    ASSUME SoloInv, NEW p \in Procs, proc[p].pc \in {"own", "guard", "hset"}
    PROVE  /\ p \in Requests /\ p \notin Workers /\ p # Starter
           /\ Busy(p) /\ ~At(Starter, "startMeta")
           /\ \A x \in Procs : x # p =>
                proc[x].pc \in {"new", "gone", "idle", "overdue"} \cup Flush \cup Loading \cup Submitting
           /\ \A x \in Procs : x # p /\ proc[x].pc = "find" => x \in Workers
<1> USE ProcessAssumption DEF Procs, Clients
<1>1. p # Starter /\ Busy(p) /\ ~At(Starter, "startMeta")
  BY Acting DEF Waiting
<1>2. p \in Requests /\ p \notin Workers
  BY <1>1 DEF SoloInv, Place, Flush, Loading, Submitting
<1>3. \A x \in Clients : x # p => proc[x].pc \in {"new", "gone"}
  BY <1>1, <1>2 DEF SoloInv, Alone, Busy
<1>4. \A x \in Workers : proc[x].pc \in {"idle", "overdue"} \cup Flush \cup Loading \cup Submitting
  BY DEF SoloInv, Place
<1> QED
  BY <1>1, <1>2, <1>3, <1>4

\* A request writes the meta, or leaves it as it read it.
LEMMA MetaWritten ==
    ASSUME TypeOK, OneTab, SoloInv, NEW p \in Procs, proc[p].pc \in {"own", "guard"},
           NEW m \in Meta, m # NoMeta \/ hash.meta = NoMeta, hash' = [hash EXCEPT !.meta = m],
           NEW r, Becomes(p, r), UNCHANGED <<attempt, dirty, over, saved>>,
           r.pc = "gone" \/ (r.pc = "guard" /\ m \in {r.meta, NoMeta})
    PROVE  SoloInv'
<1>1. proc'[p] = r /\ \A x \in Procs : x # p => proc'[x] = proc[x]
  BY BecomesAt
<1>2. /\ p \in Requests /\ p \notin Workers /\ p # Starter /\ Busy(p) /\ ~At(Starter, "startMeta")
      /\ \A x \in Procs : x # p =>
           proc[x].pc \in {"new", "gone", "idle", "overdue"} \cup Flush \cup Loading \cup Submitting
      /\ \A x \in Procs : x # p /\ proc[x].pc = "find" => x \in Workers
  BY Writer
<1>3. hash'.meta = m /\ hash'.ans = hash.ans
  BY DEF TypeOK
<1>4. Place(p, r)
  BY <1>2 DEF Place
<1>5. Right(p, r)'
  BY <1>3 DEF Right
<1>6. ASSUME NEW x \in Procs, x # p
      PROVE  Right(x, proc[x])'
  BY <1>1, <1>2, <1>3, <1>6 DEF SoloInv, Right, InProgress, Flush, Loading, Submitting
<1>7. \A x \in Procs : Place(x, proc[x])' /\ Right(x, proc[x])'
  BY <1>1, <1>4, <1>5, <1>6 DEF SoloInv, Place, Right
<1>8. Alone'
  BY <1>1, <1>2 DEF SoloInv, Alone, Busy, Procs, Clients
<1>9. ~At(Starter, "startMeta")'
  BY <1>1, <1>2 DEF At, Procs, Clients
<1>10. Held'
  BY <1>2, <1>3, <1>9 DEF SoloInv, Held, InProgress
<1> QED
  BY <1>7, <1>8, <1>9, <1>10 DEF SoloInv, Starting

LEMMA OwnMetaSolo ==
    ASSUME TypeOK, OneTab, SoloInv, NEW p \in Procs, OwnMeta(p)
    PROVE  SoloInv' /\ Newest
<1>1. /\ proc[p] \in Process /\ proc[p].meta \in Meta /\ proc[p].pc = "own"
      /\ hash.meta \in {proc[p].meta, NoMeta}
  BY DEF TypeOK, Process, OwnMeta, At, SoloInv, Right
<1>2. PICK s \in proc[p].meta.section..LastSection :
        LET m == [proc[p].meta EXCEPT !.section = s] IN
        /\ m # proc[p].meta => m.status = "in_progress"
        /\ hash' = IF m # proc[p].meta THEN [hash EXCEPT !.meta = m] ELSE hash
        /\ Becomes(p, [proc[p] EXCEPT !.pc = "guard", !.meta = m])
  BY DEF OwnMeta
<1>3. PICK m : m = [proc[p].meta EXCEPT !.section = s]
  OBVIOUS
<1>4. m \in Meta /\ m.section = s /\ m.status = proc[p].meta.status /\ m.section >= proc[p].meta.section
  BY <1>1, <1>3, SectionAssumption DEF Meta, Sections
<1>5. PICK r : r = [proc[p] EXCEPT !.pc = "guard", !.meta = m]
  OBVIOUS
<1>6. r.pc = "guard" /\ r.meta = m /\ Becomes(p, r)
  BY <1>1, <1>2, <1>3, <1>5 DEF Process
<1>7. UNCHANGED <<attempt, dirty, over, saved>>
  BY DEF OwnMeta
<1>8. CASE m # proc[p].meta
  <2>1. hash' = [hash EXCEPT !.meta = m] /\ m # NoMeta
    BY <1>2, <1>3, <1>8 DEF NoMeta
  <2>2. SoloInv'
    BY <1>1, <1>4, <1>6, <1>7, <2>1, MetaWritten
  <2>3. hash'.meta = m /\ hash'.ans = hash.ans
    BY <2>1 DEF TypeOK
  <2>4. \A q \in Questions : hash.ans[q] \in Nat
    BY MaxAtAssumption DEF TypeOK, Answers
  <2> QED
    BY <1>1, <1>4, <2>2, <2>3, <2>4 DEF Newest
<1>9. CASE m = proc[p].meta
  <2>1. UNCHANGED hash
    BY <1>2, <1>3, <1>9
  <2>2. Right(p, r)
    BY <1>1, <1>6, <1>9 DEF Right
  <2>3. Place(p, r)
    BY <1>1, <1>6, Writer DEF Place
  <2> QED
    BY <1>1, <1>6, <1>7, <2>1, <2>2, <2>3, ActingStep, UnchangedNewest DEF Waiting
<1> QED
  BY <1>8, <1>9

LEMMA NextSectionSolo ==
    ASSUME TypeOK, OneTab, SoloInv, NEW p \in Procs, NextSection(p)
    PROVE  SoloInv' /\ Newest
<1>1. /\ proc[p] \in Process /\ proc[p].meta \in Meta /\ proc[p].pc = "guard"
      /\ hash.meta \in {proc[p].meta, NoMeta}
  BY DEF TypeOK, Process, NextSection, At, SoloInv, Right
<1>2. /\ Becomes(p, Finished(p)) /\ Finished(p).pc = "gone"
      /\ UNCHANGED <<attempt, dirty, over, saved>>
  BY <1>1, Writer, FinishedFields DEF NextSection
<1>3. PICK m : m = FinishSection(proc[p].meta)
  OBVIOUS
<1>4. m \in Meta /\ m.status = proc[p].meta.status /\ m.section >= proc[p].meta.section
  BY <1>1, <1>3, MetaTypes, SectionAssumption DEF FinishSection, Meta, Sections
<1>5. CASE proc[p].meta.status = "in_progress" /\ m # proc[p].meta
  <2>1. hash' = [hash EXCEPT !.meta = m] /\ m # NoMeta
    BY <1>3, <1>4, <1>5 DEF NextSection, NoMeta
  <2>2. SoloInv'
    BY <1>1, <1>2, <1>4, <2>1, MetaWritten
  <2>3. hash'.meta = m /\ hash'.ans = hash.ans
    BY <2>1 DEF TypeOK
  <2>4. \A q \in Questions : hash.ans[q] \in Nat
    BY MaxAtAssumption DEF TypeOK, Answers
  <2> QED
    BY <1>1, <1>4, <2>2, <2>3, <2>4 DEF Newest
<1>6. CASE ~(proc[p].meta.status = "in_progress" /\ m # proc[p].meta)
  <2>1. UNCHANGED hash
    BY <1>3, <1>6 DEF NextSection
  <2> QED
    BY <1>1, <1>2, <2>1, FinishedPlace, ActingStep, UnchangedNewest DEF Waiting
<1> QED
  BY <1>5, <1>6

LEMMA StartAttemptSolo ==
    ASSUME TypeOK, OneTab, SoloInv, NEW p \in Procs, StartAttempt(p)
    PROVE  SoloInv' /\ Newest
<1> USE ProcessAssumption DEF Procs, Clients
<1>1. proc[p] \in Process /\ proc[p].pc = "startMeta" /\ proc[p].meta # NoMeta /\ p = Starter
  BY DEF TypeOK, StartAttempt, At, SoloInv, Right, Place, Flush, Loading, Submitting
<1>2. /\ hash = NoHash /\ InProgress
      /\ \A w \in Workers : proc[w].pc \in {"idle", "overdue"}
  BY <1>1 DEF SoloInv, Starting, At
<1>3. /\ hash'.meta = proc[p].meta /\ hash'.ans = hash.ans
      /\ UNCHANGED <<attempt, dirty, over, saved>>
  BY DEF StartAttempt, TypeOK
<1>4. proc'[p] = Finished(p) /\ \A x \in Procs : x # p => proc'[x] = proc[x]
  BY BecomesAt DEF StartAttempt
<1>5. proc'[p].pc = "gone"
  BY <1>1, <1>4, FinishedFields
<1>6. \A x \in Requests : proc[x].pc \in {"new", "gone"}
  BY <1>1 DEF SoloInv, Alone, Busy
<1>7. \A x \in Procs : Place(x, proc[x])'
  BY <1>1, <1>4, <1>5 DEF SoloInv, Place
<1>8. \A x \in Procs : Right(x, proc[x])'
  BY <1>1, <1>2, <1>4, <1>5, <1>6 DEF Right
<1>9. Alone'
  BY <1>1, <1>4, <1>5 DEF SoloInv, Alone, Busy
<1>10. ~At(Starter, "startMeta")'
  BY <1>1, <1>5 DEF At
<1>11. Held'
  BY <1>1, <1>3 DEF SoloInv, Held, InProgress
<1>12. Newest
  BY <1>2, <1>3, MaxAtAssumption DEF Newest, NoHash, NoMeta, Nothing
<1> QED
  BY <1>7, <1>8, <1>9, <1>10, <1>11, <1>12 DEF SoloInv, Starting

LEMMA StoreAnswersSolo ==
    ASSUME TypeOK, OneTab, SoloInv, NEW p \in Procs, StoreAnswers(p)
    PROVE  SoloInv' /\ Newest
<1> USE ProcessAssumption DEF Procs, Clients
<1>1. proc[p] \in Process /\ proc[p].pc = "hset"
  BY DEF TypeOK, StoreAnswers, At
<1>2. \A q \in Questions : proc[p].batch[q] = 0 \/ proc[p].batch[q] >= hash.ans[q]
  BY <1>1 DEF SoloInv, Right
<1>3. /\ p \in Requests /\ p \notin Workers /\ p # Starter /\ Busy(p) /\ ~At(Starter, "startMeta")
      /\ \A x \in Procs : x # p =>
           proc[x].pc \in {"new", "gone", "idle", "overdue"} \cup Flush \cup Loading \cup Submitting
  BY <1>1, Writer
<1>4. /\ hash'.meta = hash.meta /\ hash'.ans = Overlay(proc[p].batch, hash.ans)
      /\ UNCHANGED attempt
      /\ saved' = [q \in Questions |-> IF proc[p].batch[q] > saved[q] THEN proc[p].batch[q] ELSE saved[q]]
  BY DEF StoreAnswers, TypeOK
<1>5. PICK r : r = Merged(p) /\ Becomes(p, r)
  BY DEF StoreAnswers
<1>6. r = Finished(p) \/ r.pc = "collect"
  BY <1>5, MergedFields
<1>7. proc'[p] = r /\ \A x \in Procs : x # p => proc'[x] = proc[x]
  BY <1>5, BecomesAt
<1>8. r.pc \in {"gone", "collect"}
  BY <1>3, <1>6, FinishedFields
<1>9. \A q \in Questions : proc[p].batch[q] \in Nat /\ hash.ans[q] \in Nat /\ saved[q] \in Nat
  BY <1>1, MaxAtAssumption DEF TypeOK, Process, Answers
<1>10. \A q \in Questions : hash'.ans[q] = IF proc[p].batch[q] # 0 THEN proc[p].batch[q] ELSE hash.ans[q]
  BY <1>4 DEF Overlay
<1>11. \A q \in Questions : hash'.ans[q] >= hash.ans[q]
  BY <1>2, <1>9, <1>10
<1>12. \A x \in Procs : Place(x, proc[x])'
  BY <1>3, <1>7, <1>8 DEF SoloInv, Place, Submitting
<1>13. \A x \in Procs : Right(x, proc[x])'
  BY <1>3, <1>4, <1>7, <1>8 DEF SoloInv, Right, InProgress, Flush, Loading, Submitting
<1>14. Alone'
  BY <1>3, <1>7 DEF SoloInv, Alone, Busy
<1>15. ~At(Starter, "startMeta")'
  BY <1>3, <1>7 DEF At
<1>16. Held'
  <2>1. InProgress => \A q \in Questions : hash.ans[q] >= saved[q]
    BY DEF SoloInv, Held
  <2>2. \A q \in Questions : saved'[q] = IF proc[p].batch[q] > saved[q] THEN proc[p].batch[q] ELSE saved[q]
    BY <1>4
  <2>3. InProgress => \A q \in Questions : hash'.ans[q] >= saved'[q]
    BY <1>2, <1>9, <1>10, <2>1, <2>2
  <2> QED
    BY <1>3, <1>4, <2>3 DEF SoloInv, Held, InProgress
<1>17. Newest
  <2>1. hash.meta.section \in Nat
    BY SectionAssumption DEF TypeOK, Meta, Sections
  <2> QED
    BY <1>4, <1>11, <2>1 DEF Newest
<1> QED
  BY <1>12, <1>13, <1>14, <1>15, <1>16, <1>17 DEF SoloInv, Starting

LEMMA MarkSubmittedSolo ==
    ASSUME TypeOK, OneTab, SoloInv, NEW p \in Procs, MarkSubmitted(p)
    PROVE  /\ SoloInv' /\ UNCHANGED hash
           /\ InProgress => \A q \in Questions : attempt'.answers[q] >= proc[p].owed[q]
<1> USE ProcessAssumption DEF Procs, Clients
<1>1. proc[p] \in Process /\ proc[p].pc = "update" /\ Place(p, proc[p]) /\ Right(p, proc[p])
  BY DEF TypeOK, MarkSubmitted, At, SoloInv
<1>2. p # Starter /\ Busy(p) /\ ~At(Starter, "startMeta")
  BY <1>1, Acting DEF Waiting
<1>3. ~InProgress' /\ UNCHANGED <<hash, dirty, over, saved>>
  BY DEF MarkSubmitted, SubmitFilter, InProgress
<1>4. PICK r : r = [proc[p] EXCEPT !.pc = "del", !.won = SubmitFilter] /\ Becomes(p, r)
  BY DEF MarkSubmitted
<1>5. r.pc = "del"
  BY <1>1, <1>4 DEF Process
<1>6. proc'[p] = r /\ \A x \in Procs : x # p => proc'[x] = proc[x]
  BY <1>4, BecomesAt
<1>7. \A x \in Procs : Place(x, proc[x])'
  BY <1>1, <1>2, <1>5, <1>6 DEF SoloInv, Place, Submitting, Flush, Loading
<1>8. \A x \in Procs : Right(x, proc[x])'
  BY <1>3, <1>5, <1>6 DEF SoloInv, Right
<1>9. Alone'
  BY <1>2, <1>6 DEF SoloInv, Alone, Busy
<1>10. ~At(Starter, "startMeta")'
  BY <1>2, <1>6 DEF At
<1>11. Held'
  BY <1>3 DEF Held, InProgress
<1>12. InProgress => \A q \in Questions : attempt'.answers[q] >= proc[p].owed[q]
  BY <1>1 DEF Right, MarkSubmitted, SubmitFilter, InProgress
<1> QED
  BY <1>3, <1>7, <1>8, <1>9, <1>10, <1>11, <1>12 DEF SoloInv, Starting

LEMMA DropHashSolo ==
    ASSUME TypeOK, OneTab, SoloInv, NEW p \in Procs, DropHash(p)
    PROVE  SoloInv' /\ Newest
<1> USE ProcessAssumption DEF Procs, Clients
<1>1. proc[p] \in Process /\ proc[p].pc = "del" /\ Place(p, proc[p]) /\ Right(p, proc[p])
  BY DEF TypeOK, DropHash, At, SoloInv
<1>2. p # Starter /\ Busy(p) /\ ~At(Starter, "startMeta")
  BY <1>1, Acting DEF Waiting
<1>3. ~InProgress' /\ hash' = NoHash /\ UNCHANGED <<attempt, over, saved>>
  BY <1>1 DEF DropHash, InProgress, Right
<1>4. PICK r : Becomes(p, r) /\ (r.pc = "enqueue" \/ r = Finished(p))
  <2>1. PICK e : e = [proc[p] EXCEPT !.pc = "enqueue"]
    OBVIOUS
  <2>2. e.pc = "enqueue"
    BY <1>1, <2>1 DEF Process
  <2> QED
    BY <2>1, <2>2 DEF DropHash
<1>5. proc'[p] = r /\ \A x \in Procs : x # p => proc'[x] = proc[x]
  BY <1>4, BecomesAt
<1>6. Place(p, r) /\ r.pc \in {"enqueue", "gone", "idle"}
  <2>1. r.pc = "enqueue" => Place(p, r)
    BY <1>1, <1>2 DEF Place, Submitting, Flush, Loading
  <2> QED
    BY <1>4, <2>1, FinishedPlace, FinishedType
<1>7. \A x \in Procs : Place(x, proc[x])'
  BY <1>5, <1>6 DEF SoloInv, Place
<1>8. \A x \in Procs : Right(x, proc[x])'
  <2>1. hash'.meta = NoMeta /\ \A q \in Questions : hash'.ans[q] = 0
    BY <1>3 DEF NoHash, Nothing
  <2>2. \A x \in Procs : proc[x].pc = "hset" => \A q \in Questions : proc[x].batch[q] = 0 \/ proc[x].batch[q] >= 0
    BY MaxAtAssumption DEF TypeOK, Process, Answers
  <2>3. ~At(Starter, "startMeta")'
    BY <1>2, <1>5 DEF At
  <2>4. ASSUME NEW x \in Procs, x # p
        PROVE  Right(x, proc[x])'
    BY <1>3, <1>5, <2>1, <2>2, <2>4 DEF SoloInv, Right
  <2>5. Right(p, proc[p])'
    BY <1>3, <1>5, <1>6 DEF Right
  <2> QED
    BY <2>4, <2>5
<1>9. Alone'
  BY <1>2, <1>5 DEF SoloInv, Alone, Busy
<1>10. ~At(Starter, "startMeta")'
  BY <1>2, <1>5 DEF At
<1>11. Held'
  BY <1>3 DEF Held, InProgress
<1>12. Newest
  BY <1>3 DEF Newest, NoHash
<1> QED
  BY <1>7, <1>8, <1>9, <1>10, <1>11, <1>12 DEF SoloInv, Starting

LEMMA PopDirtySolo ==
    ASSUME TypeOK, OneTab, SoloInv, NEW p \in Procs, PopDirty(p)
    PROVE  SoloInv' /\ UNCHANGED <<hash, attempt>>
<1> USE ProcessAssumption DEF Procs, Clients
<1>1. proc[p] \in Process /\ proc[p].pc = "idle" /\ Place(p, proc[p])
  BY DEF TypeOK, PopDirty, At, SoloInv
<1>2. p \in Workers /\ p # Starter /\ p \notin Requests
  BY <1>1 DEF Place, Flush, Loading, Submitting
<1>3. ~dirty' /\ UNCHANGED <<attempt, hash, over, saved>>
  BY DEF PopDirty
<1>4. PICK r : r = [proc[p] EXCEPT !.pc = IF dirty THEN "flushMeta" ELSE "overdue"] /\ Becomes(p, r)
  BY DEF PopDirty
<1>5. r.pc = (IF dirty THEN "flushMeta" ELSE "overdue") /\ r.batch = proc[p].batch
  BY <1>1, <1>4 DEF Process
<1>6. proc'[p] = r /\ \A x \in Procs : x # p => proc'[x] = proc[x]
  BY <1>4, BecomesAt
<1>7. \A x \in Procs : Place(x, proc[x])'
  BY <1>1, <1>2, <1>5, <1>6 DEF SoloInv, Place, Flush, Loading
<1>8. \A x \in Procs : Right(x, proc[x])'
  BY <1>2, <1>3, <1>5, <1>6 DEF SoloInv, Right, InProgress
<1>9. Alone'
  BY <1>2, <1>6 DEF SoloInv, Alone, Busy
<1>10. Starting'
  BY <1>2, <1>3, <1>5, <1>6 DEF SoloInv, Starting, At, InProgress
<1>11. Held'
  BY <1>2, <1>3, <1>6 DEF SoloInv, Held, InProgress, At
<1> QED
  BY <1>3, <1>7, <1>8, <1>9, <1>10, <1>11 DEF SoloInv

LEMMA FlushWriteSolo ==
    ASSUME TypeOK, OneTab, SoloInv, NEW p \in Procs, FlushWrite(p)
    PROVE  SoloInv' /\ UNCHANGED hash
<1> USE ProcessAssumption DEF Procs, Clients
<1>1. proc[p].pc = "flushWrite" /\ Place(p, proc[p])
  BY DEF FlushWrite, At, SoloInv
<1>2. p \in Workers /\ p # Starter /\ p \notin Requests
  BY <1>1 DEF Place, Loading, Submitting
<1>3. ~At(Starter, "startMeta")
  BY <1>1, Acting DEF Waiting
<1>4. attempt'.status = attempt.status /\ UNCHANGED <<hash, dirty, over, saved>>
  BY DEF FlushWrite, TypeOK
<1>5. proc'[p] = Finished(p) /\ \A x \in Procs : x # p => proc'[x] = proc[x]
  BY BecomesAt DEF FlushWrite
<1>6. \A x \in Procs : Place(x, proc[x])'
  BY <1>5, FinishedPlace DEF SoloInv, Place
<1>7. proc'[p].pc = "idle"
  BY <1>2, <1>5, FinishedFields
<1>8. \A x \in Procs : Right(x, proc[x])'
  BY <1>4, <1>5, <1>7 DEF SoloInv, Right, InProgress
<1>9. Alone'
  BY <1>2, <1>5 DEF SoloInv, Alone, Busy
<1>10. ~At(Starter, "startMeta")'
  BY <1>2, <1>3, <1>5 DEF At
<1>11. Held'
  BY <1>3, <1>4 DEF SoloInv, Held, InProgress
<1> QED
  BY <1>4, <1>6, <1>8, <1>9, <1>10, <1>11 DEF SoloInv, Starting

LEMMA BeginSolo ==
    ASSUME TypeOK, OneTab, SoloInv, NEW p \in Procs, Begin(p)
    PROVE  SoloInv' /\ UNCHANGED <<hash, attempt>>
<1>1. p \in Requests /\ p # Starter /\ p \notin Workers
  BY ProcessAssumption DEF Begin
<1>2. UNCHANGED <<attempt, hash, dirty, over, saved>>
  BY DEF Begin
<1>3. \A c \in Clients : ~Busy(c)
  <2> SUFFICES ASSUME NEW c \in Clients, Busy(c) PROVE FALSE
    OBVIOUS
  <2>1. InFlight = {c}
    BY DEF InFlight, Busy, SoloInv, Alone
  <2>2. Cardinality(InFlight) = 1
    BY <2>1, FS_Singleton
  <2> QED
    BY <2>2 DEF Begin, OneTab
<1>4. PICK kind, b : Becomes(p, [Fresh EXCEPT !.pc = "hget", !.kind = kind, !.batch = b, !.late = Closed])
  BY DEF Begin
<1>5. PICK r : r = [Fresh EXCEPT !.pc = "hget", !.kind = kind, !.batch = b, !.late = Closed]
  OBVIOUS
<1>6. r.pc = "hget"
  BY <1>5, FreshType DEF Process
<1>7. Place(p, r) /\ Right(p, r)
  BY <1>1, <1>6 DEF Place, Right, Loading
<1>8. proc'[p] = r /\ \A x \in Procs : x # p => proc'[x] = proc[x]
  BY <1>4, <1>5, BecomesAt
<1> QED
  BY <1>1, <1>2, <1>3, <1>7, <1>8, CalmStep

LEMMA FailSolo ==
    ASSUME TypeOK, OneTab, SoloInv, NEW p \in Procs, Fail(p)
    PROVE  SoloInv' /\ UNCHANGED <<hash, attempt>>
<1>1. p # Starter /\ proc[p].pc \notin {"new", "gone"}
  BY DEF Fail, OneTab
<1>2. UNCHANGED <<attempt, hash, dirty, over, saved>>
  BY DEF Fail
<1>3. proc'[p] = Finished(p) /\ \A x \in Procs : x # p => proc'[x] = proc[x]
  BY BecomesAt DEF Fail
<1>4. p \in Workers => proc'[p].pc = "idle"
  BY <1>3, FinishedFields
<1> QED
  BY <1>1, <1>2, <1>3, <1>4, FinishedPlace, CalmStep DEF Busy

LEMMA TimeIsUpSolo ==
    ASSUME TypeOK, SoloInv, TimeIsUp
    PROVE  SoloInv' /\ UNCHANGED <<hash, attempt>>
<1>1. UNCHANGED <<attempt, hash, dirty, proc, saved>> /\ ~At(Starter, "startMeta")
  BY DEF TimeIsUp
<1> QED
  BY <1>1 DEF SoloInv, Place, Right, Alone, Busy, Starting, Held, InProgress, At

-----------------------------------------------------------------------------

LEMMA SoloInit == Init => SoloInv
<1> SUFFICES ASSUME Init PROVE SoloInv
  OBVIOUS
<1> USE ProcessAssumption DEF Procs, Clients
<1>1. PICK s : s = [Fresh EXCEPT !.pc = "startMeta", !.meta = [status |-> "in_progress", section |-> 0]]
  OBVIOUS
<1>2. s.pc = "startMeta" /\ s.meta # NoMeta
  BY <1>1 DEF Fresh, NoMeta
<1>3. /\ proc[Starter] = s
      /\ \A w \in Workers : proc[w] = Finished(w)
      /\ \A x \in Requests : proc[x] = Fresh
  BY <1>1 DEF Init
<1>4. Fresh.pc = "new"
  BY DEF Fresh
<1>5. \A w \in Workers : proc[w].pc = "idle"
  BY <1>3, FinishedFields
<1>6. /\ hash = NoHash /\ ~dirty /\ ~over /\ InProgress
      /\ attempt.answers = Nothing /\ saved = Nothing
  BY DEF Init, InProgress
<1>7. \A p \in Procs : Place(p, proc[p]) /\ Right(p, proc[p])
  <2>1. Place(Starter, s) /\ Right(Starter, s)
    BY <1>2 DEF Place, Right
  <2>2. \A x \in Requests : Place(x, Fresh) /\ Right(x, Fresh)
    BY <1>4 DEF Place, Right
  <2>3. \A w \in Workers : Place(w, Finished(w)) /\ Right(w, Finished(w))
    BY FinishedPlace
  <2> QED
    BY <1>3, <2>1, <2>2, <2>3
<1>8. Alone
  BY <1>3, <1>4 DEF Alone, Busy
<1>9. Starting /\ At(Starter, "startMeta")
  BY <1>2, <1>3, <1>5, <1>6 DEF Starting, At
<1>10. Held
  BY <1>6, <1>9, MaxAtAssumption DEF Held, NoHash, Nothing
<1> QED
  BY <1>7, <1>8, <1>9, <1>10 DEF SoloInv

LEMMA StepSolo ==
    ASSUME TypeOK, OneTab, SoloInv, NEW p \in Procs, Step(p)
    PROVE  SoloInv' /\ Newest
<1>1. CASE LoadStep(p)
  BY <1>1, LoadSolo, UnchangedNewest
<1>2. CASE MergeStep(p)
  <2>1. CASE ReadStored(p)
    BY <2>1, ReadingSolo, UnchangedNewest DEF Reading
  <2>2. CASE StoreAnswers(p)
    BY <2>2, StoreAnswersSolo
  <2> QED
    BY <1>2, <2>1, <2>2 DEF MergeStep
<1>3. CASE SubmitStep(p)
  <2>1. CASE CollectAnswers(p) \/ EnqueueScore(p)
    BY <2>1, ReadingSolo, UnchangedNewest DEF Reading
  <2>2. CASE MarkSubmitted(p)
    BY <2>2, MarkSubmittedSolo, UnchangedNewest
  <2>3. CASE DropHash(p)
    BY <2>3, DropHashSolo
  <2> QED
    BY <1>3, <2>1, <2>2, <2>3 DEF SubmitStep
<1>4. CASE RequestStep(p)
  <2>1. CASE SaveAnswers(p) \/ SubmitRequest(p) \/ OpenAttempt(p)
    BY <2>1, ReadingSolo, UnchangedNewest DEF Reading
  <2>2. CASE StartAttempt(p)
    BY <2>2, StartAttemptSolo
  <2>3. CASE OwnMeta(p)
    BY <2>3, OwnMetaSolo
  <2>4. CASE NextSection(p)
    BY <2>4, NextSectionSolo
  <2> QED
    BY <1>4, <2>1, <2>2, <2>3, <2>4 DEF RequestStep
<1>5. CASE WorkerStep(p)
  <2>1. CASE FlushReadMeta(p) \/ FlushReadAnswers(p) \/ FindOverdue(p)
    BY <2>1, FlushingSolo, UnchangedNewest
  <2>2. CASE PopDirty(p)
    BY <2>2, PopDirtySolo, UnchangedNewest
  <2>3. CASE FlushWrite(p)
    BY <2>3, FlushWriteSolo, UnchangedNewest
  <2> QED
    BY <1>5, <2>1, <2>2, <2>3 DEF WorkerStep
<1> QED
  BY <1>1, <1>2, <1>3, <1>4, <1>5 DEF Step

LEMMA SoloNext == TypeOK /\ OneTab /\ SoloInv /\ [Next]_vars => SoloInv' /\ Newest
<1> SUFFICES ASSUME TypeOK, OneTab, SoloInv, [Next]_vars PROVE SoloInv' /\ Newest
  OBVIOUS
<1>1. ASSUME NEW p \in Procs, Begin(p) \/ Fail(p)
      PROVE  SoloInv' /\ Newest
  BY <1>1, BeginSolo, FailSolo, UnchangedNewest
<1>2. CASE TimeIsUp
  BY <1>2, TimeIsUpSolo, UnchangedNewest
<1>3. CASE RedisLosesHash
  BY <1>3 DEF RedisLosesHash, OneTab
<1>4. CASE UNCHANGED vars
  <2>1. SoloInv'
    BY <1>4 DEF vars, SoloInv, Place, Right, Alone, Busy, Starting, Held, InProgress, At
  <2> QED
    BY <1>4, <2>1, UnchangedNewest DEF vars
<1> QED
  BY <1>1, <1>2, <1>3, <1>4, StepSolo DEF Next

\* Only the update of submitAttempt that finds the attempt in progress makes a process the winner.
LEMMA SoloSubmits ==
    ASSUME TypeOK, OneTab, OneWinner, SoloInv, [Next]_vars, NEW x \in Procs, Wins(x)
    PROVE  \A q \in Questions : attempt'.answers[q] >= proc[x].owed[q]
<1>1. ASSUME NEW p \in Procs, Quiet(p)
      PROVE  FALSE
  BY <1>1 DEF Quiet, Wins
<1>2. ASSUME NEW p \in Procs, Begin(p)
      PROVE  FALSE
  <2>1. PICK kind, b :
          Becomes(p, [Fresh EXCEPT !.pc = "hget", !.kind = kind, !.batch = b, !.late = Closed])
    BY <1>2 DEF Begin
  <2>2. ~proc'[p].won /\ \A y \in Procs : y # p => proc'[y] = proc[y]
    BY <2>1, FreshType DEF Becomes, TypeOK, Process
  <2> QED
    BY <2>2 DEF Wins
<1>3. ASSUME NEW p \in Procs, Fail(p) \/ EnqueueScore(p)
      PROVE  FALSE
  BY <1>3, FinishedType, BecomesAt DEF Fail, EnqueueScore, Wins
<1>4. ASSUME NEW p \in Procs, CollectAnswers(p)
      PROVE  FALSE
  <2>1. proc'[p].won = proc[p].won /\ \A y \in Procs : y # p => proc'[y] = proc[y]
    BY <1>4 DEF CollectAnswers, Becomes, TypeOK, Process
  <2> QED
    BY <2>1 DEF Wins
<1>5. ASSUME NEW p \in Procs, DropHash(p)
      PROVE  FALSE
  <2>1. PICK r : Becomes(p, r) /\ (r.won => proc[p].won)
    <3>1. PICK e : e = [proc[p] EXCEPT !.pc = "enqueue"]
      OBVIOUS
    <3> QED
      BY <1>5, <3>1, FinishedType DEF DropHash, TypeOK, Process
  <2> QED
    BY <2>1, BecomesAt DEF Wins
<1>6. ASSUME NEW p \in Procs, MarkSubmitted(p)
      PROVE  \A q \in Questions : attempt'.answers[q] >= proc[x].owed[q]
  <2>1. PICK r : r = [proc[p] EXCEPT !.pc = "del", !.won = SubmitFilter] /\ Becomes(p, r)
    BY <1>6 DEF MarkSubmitted
  <2>2. r.won = SubmitFilter
    BY <2>1 DEF TypeOK, Process
  <2>3. x = p /\ InProgress
    BY <2>1, <2>2, BecomesAt DEF Wins, SubmitFilter, InProgress
  <2> QED
    BY <1>6, <2>3, MarkSubmittedSolo
<1>7. ASSUME NEW p \in Procs, Step(p)
      PROVE  \A q \in Questions : attempt'.answers[q] >= proc[x].owed[q]
  BY <1>1, <1>3, <1>4, <1>5, <1>6, <1>7, LoadStepQuiet, MergeStepQuiet, RequestStepQuiet,
     WorkerStepQuiet DEF Step, SubmitStep
<1>8. CASE TimeIsUp \/ RedisLosesHash \/ UNCHANGED vars
  BY <1>8 DEF TimeIsUp, RedisLosesHash, vars, Wins
<1> QED
  BY <1>2, <1>3, <1>7, <1>8 DEF Next

LEMMA SoloInvariant == OneTab => (Spec => []SoloInv)
<1>1. OneTab /\ TypeOK /\ SoloInv /\ [Next]_vars => SoloInv'
  BY SoloNext
<1> SUFFICES ASSUME OneTab PROVE Spec => []SoloInv
  OBVIOUS
<1>2. TypeOK /\ SoloInv /\ [Next]_vars => SoloInv'
  BY <1>1
<1> QED
  BY <1>2, SoloInit, TypeCorrect, PTL DEF Spec

-----------------------------------------------------------------------------
(***************************************************************************)
(* CleanMeansFlushed, for one worker that does not die: the id leaves the  *)
(* dirty set before the answers are read, so a worker that dies between    *)
(* leaves a clean attempt that was not flushed, and a second worker may    *)
(* write what it read before the first one's flush.                        *)
(***************************************************************************)

OneWorker == Workers \cap Unreliable = {} /\ \A w, v \in Workers : w = v

\* What a worker is about to write is what the hash holds, unless a save came between.
FlushedInv ==
    /\ CleanMeansFlushed
    /\ InProgress /\ ~dirty => \A w \in Workers : At(w, "flushWrite") => proc[w].read = hash.ans

\* A step that writes no answer keeps FlushedInv, unless its process stops flushing or is to
\* write what it read.
LEMMA FlushedCalm ==
    ASSUME FlushedInv, NEW p \in Procs, \A x \in Procs : x # p => proc'[x] = proc[x],
           attempt' = attempt, dirty' = dirty, hash'.ans = hash.ans,
           p \in Workers => /\ proc'[p].pc # "flushWrite"
                            /\ InProgress /\ proc[p].pc \in Flush => proc'[p].pc \in Flush
    PROVE  FlushedInv'
<1>1. InProgress /\ Flushing => Flushing'
  BY DEF Flushing, Flush, Procs
<1>2. CleanMeansFlushed'
  BY <1>1 DEF FlushedInv, CleanMeansFlushed, InProgress
<1>3. (InProgress /\ ~dirty => \A w \in Workers : At(w, "flushWrite") => proc[w].read = hash.ans)'
  BY DEF FlushedInv, InProgress, At, Procs
<1> QED
  BY <1>2, <1>3 DEF FlushedInv

LEMMA LoadFlushed ==
    ASSUME TypeOK, OneTab, SoloInv, FlushedInv, NEW p \in Procs, LoadStep(p)
    PROVE  FlushedInv'
<1>1. proc[p] \in Process
  BY DEF TypeOK
<1>2. UNCHANGED <<attempt, hash, dirty>>
  BY LoadSolo DEF LoadStep, HgetMeta, FindAttempt, RefillAnswers, WriteBackMeta
<1>3. proc[p].pc \notin Flush
  BY DEF LoadStep, HgetMeta, FindAttempt, RefillAnswers, WriteBackMeta, At, Flush
<1>4. \A m : Loaded(p, m).pc # "flushWrite"
  BY LoadedFields, FinishedType
<1>5. PICK r : Becomes(p, r) /\ r.pc # "flushWrite"
  <2>1. PICK m, a : \/ Becomes(p, Loaded(p, m))
                    \/ Becomes(p, [proc[p] EXCEPT !.pc = "find"])
                    \/ Becomes(p, [proc[p] EXCEPT !.pc = "writeBack"])
                    \/ Becomes(p, [proc[p] EXCEPT !.meta = m, !.read = a, !.pc = "writeBack"])
                    \/ Becomes(p, [proc[p] EXCEPT !.meta = m, !.read = a, !.pc = "refill"])
    BY DEF LoadStep, HgetMeta, FindAttempt, RefillAnswers, WriteBackMeta
  <2>2. /\ [proc[p] EXCEPT !.pc = "find"].pc = "find"
        /\ [proc[p] EXCEPT !.pc = "writeBack"].pc = "writeBack"
        /\ [proc[p] EXCEPT !.meta = m, !.read = a, !.pc = "writeBack"].pc = "writeBack"
        /\ [proc[p] EXCEPT !.meta = m, !.read = a, !.pc = "refill"].pc = "refill"
    BY <1>1 DEF Process
  <2> QED
    BY <1>4, <2>1, <2>2
<1> QED
  BY <1>2, <1>3, <1>5, BecomesAt, FlushedCalm

\* The steps of requests, and of submitAttempt in a worker, write no answers except
\* StoreAnswers, which marks the attempt dirty; the others that write submit or find it done.
LEMMA RequestFlushed ==
    ASSUME TypeOK, OneTab, SoloInv, FlushedInv, NEW p \in Procs,
           RequestStep(p) \/ MergeStep(p) \/ SubmitStep(p)
    PROVE  FlushedInv'
<1>1. proc[p] \in Process /\ Place(p, proc[p]) /\ Right(p, proc[p])
  BY DEF TypeOK, SoloInv
<1>2. CASE RequestStep(p)
  <2>1. p \notin Workers
    <3>1. proc[p].pc \in {"startMeta", "own", "guard"}
      BY <1>2 DEF RequestStep, StartAttempt, OwnMeta, SaveAnswers, NextSection, SubmitRequest,
                  OpenAttempt, At
    <3> QED
      BY <1>1, <3>1 DEF Place, Flush, Loading, Submitting
  <2>2. attempt' = attempt /\ dirty' = dirty /\ hash'.ans = hash.ans
    BY <1>2 DEF RequestStep, StartAttempt, OwnMeta, SaveAnswers, NextSection, SubmitRequest,
                OpenAttempt, TypeOK
  <2>3. PICK r : Becomes(p, r)
    BY <1>2 DEF RequestStep, StartAttempt, OwnMeta, SaveAnswers, NextSection, SubmitRequest,
                OpenAttempt
  <2> QED
    BY <2>1, <2>2, <2>3, BecomesAt, FlushedCalm
<1>3. CASE MergeStep(p)
  <2>1. CASE ReadStored(p)
    <3>1. p \notin Workers
      BY <1>1, <2>1 DEF ReadStored, At, Place, Flush, Loading, Submitting
    <3>2. PICK r : Becomes(p, r)
      BY <2>1 DEF ReadStored
    <3>3. UNCHANGED <<attempt, hash, dirty>>
      BY <2>1 DEF ReadStored
    <3> QED
      BY <3>1, <3>2, <3>3, BecomesAt, FlushedCalm
  <2>2. CASE StoreAnswers(p)
    BY <2>2 DEF StoreAnswers, DirtyAfterSave, FlushedInv, CleanMeansFlushed
  <2> QED
    BY <1>3, <2>1, <2>2 DEF MergeStep
<1>4. CASE SubmitStep(p)
  <2>1. CASE CollectAnswers(p) \/ EnqueueScore(p)
    <3>1. PICK r : Becomes(p, r) /\ r.pc # "flushWrite"
      <4>1. PICK r : r = [proc[p] EXCEPT !.pc = "update", !.read = hash.ans, !.owed = saved]
        OBVIOUS
      <4>2. r.pc = "update"
        BY <1>1, <4>1 DEF Process
      <4> QED
        BY <2>1, <4>1, <4>2, FinishedType DEF CollectAnswers, EnqueueScore
    <3>2. proc[p].pc \notin Flush /\ UNCHANGED <<attempt, hash, dirty>>
      BY <2>1 DEF CollectAnswers, EnqueueScore, At, Flush
    <3> QED
      BY <3>1, <3>2, BecomesAt, FlushedCalm
  <2>2. CASE MarkSubmitted(p)
    <3>1. ~InProgress'
      BY <2>2 DEF MarkSubmitted, SubmitFilter, InProgress
    <3> QED
      BY <3>1 DEF FlushedInv, CleanMeansFlushed, InProgress
  <2>3. CASE DropHash(p)
    <3>1. ~InProgress'
      BY <1>1, <2>3 DEF DropHash, At, Right, InProgress
    <3> QED
      BY <3>1 DEF FlushedInv, CleanMeansFlushed, InProgress
  <2> QED
    BY <1>4, <2>1, <2>2, <2>3 DEF SubmitStep
<1> QED
  BY <1>2, <1>3, <1>4

LEMMA WorkerFlushed ==
    ASSUME TypeOK, OneTab, OneWorker, SoloInv, FlushedInv, NEW p \in Procs, WorkerStep(p)
    PROVE  FlushedInv'
<1> USE DEF Procs
<1>1. proc[p] \in Process /\ Place(p, proc[p])
  BY DEF TypeOK, SoloInv
<1>2. p \in Workers
  BY <1>1, ProcessAssumption
     DEF WorkerStep, PopDirty, FlushReadMeta, FlushReadAnswers, FlushWrite, FindOverdue, At,
         Place, Clients, Loading, Submitting
<1>3. \A w \in Workers : w = p
  BY <1>2 DEF OneWorker
<1>4. CASE PopDirty(p)
  <2>1. PICK r : r = [proc[p] EXCEPT !.pc = IF dirty THEN "flushMeta" ELSE "overdue"] /\ Becomes(p, r)
    BY <1>4 DEF PopDirty
  <2>2. proc'[p].pc = IF dirty THEN "flushMeta" ELSE "overdue"
    BY <1>1, <2>1, BecomesAt DEF Process
  <2>3. ~Flushing
    BY <1>3, <1>4 DEF Flushing, PopDirty, At
  <2>4. attempt' = attempt /\ hash' = hash
    BY <1>4 DEF PopDirty
  <2>5. CleanMeansFlushed'
    BY <1>2, <2>2, <2>3, <2>4 DEF FlushedInv, CleanMeansFlushed, Flushing
  <2> QED
    BY <1>3, <2>2, <2>5 DEF FlushedInv, At
<1>5. CASE FlushReadMeta(p)
  <2>1. ~InProgress \/ hash.meta # NoMeta
    BY <1>5, Acting DEF FlushReadMeta, At, Waiting, SoloInv, Held
  <2>2. PICK r : Becomes(p, r) /\ r.pc # "flushWrite" /\ (InProgress => r.pc \in Flush)
    <3>1. PICK r : r = [proc[p] EXCEPT !.pc = "flushRead", !.meta = hash.meta]
      OBVIOUS
    <3>2. r.pc = "flushRead"
      BY <1>1, <3>1 DEF Process
    <3> QED
      BY <1>5, <2>1, <3>1, <3>2, FinishedType DEF FlushReadMeta, Flush
  <2>3. UNCHANGED <<attempt, hash, dirty>>
    BY <1>5 DEF FlushReadMeta
  <2> QED
    BY <2>2, <2>3, BecomesAt, FlushedCalm
<1>6. CASE FlushReadAnswers(p)
  <2>1. PICK r : r = [proc[p] EXCEPT !.pc = "flushWrite", !.read = hash.ans] /\ Becomes(p, r)
    BY <1>6 DEF FlushReadAnswers
  <2>2. proc'[p].pc = "flushWrite" /\ proc'[p].read = hash.ans
    <3>1. r.pc = "flushWrite" /\ r.read = hash.ans
      BY <1>1, <2>1 DEF Process
    <3> QED
      BY <2>1, <3>1, BecomesAt
  <2>3. hash' = hash
    BY <1>6 DEF FlushReadAnswers
  <2>4. CleanMeansFlushed'
    BY <1>2, <2>2 DEF CleanMeansFlushed, Flushing
  <2> QED
    BY <1>3, <2>2, <2>3, <2>4 DEF FlushedInv
<1>7. CASE FlushWrite(p)
  <2>1. proc'[p] = Finished(p)
    BY <1>7, BecomesAt DEF FlushWrite
  <2>2. hash' = hash /\ dirty' = dirty /\ attempt'.status = attempt.status
    BY <1>7 DEF FlushWrite, TypeOK
  <2>3. InProgress => attempt'.answers = proc[p].read
    BY <1>7 DEF FlushWrite, FlushFilter, InProgress, TypeOK
  <2>4. CleanMeansFlushed'
    BY <1>2, <1>7, <2>2, <2>3 DEF FlushedInv, CleanMeansFlushed, InProgress, FlushWrite, At
  <2> QED
    BY <1>3, <2>1, <2>4, FinishedType DEF FlushedInv, At
<1>8. CASE FindOverdue(p)
  <2>1. PICK r : Becomes(p, r) /\ r.pc # "flushWrite"
    <3>1. PICK r : r = [proc[p] EXCEPT !.pc = "hget", !.sub = TRUE]
      OBVIOUS
    <3>2. r.pc = "hget"
      BY <1>1, <3>1 DEF Process
    <3> QED
      BY <1>8, <3>1, <3>2, FinishedType DEF FindOverdue
  <2>2. proc[p].pc \notin Flush /\ UNCHANGED <<attempt, hash, dirty>>
    BY <1>8 DEF FindOverdue, At, Flush
  <2> QED
    BY <2>1, <2>2, BecomesAt, FlushedCalm
<1> QED
  BY <1>4, <1>5, <1>6, <1>7, <1>8 DEF WorkerStep

LEMMA FlushedNext ==
    TypeOK /\ OneTab /\ OneWorker /\ SoloInv /\ FlushedInv /\ [Next]_vars => FlushedInv'
<1> SUFFICES ASSUME TypeOK, OneTab, OneWorker, SoloInv, FlushedInv, [Next]_vars
             PROVE  FlushedInv'
  OBVIOUS
<1>1. ASSUME NEW p \in Procs, Begin(p) \/ Fail(p)
      PROVE  FlushedInv'
  <2>1. p \notin Workers
    BY <1>1, ProcessAssumption DEF Begin, Fail, OneWorker
  <2>2. PICK r : Becomes(p, r)
    BY <1>1 DEF Begin, Fail
  <2>3. UNCHANGED <<attempt, hash, dirty>>
    BY <1>1 DEF Begin, Fail
  <2> QED
    BY <2>1, <2>2, <2>3, BecomesAt, FlushedCalm
<1>2. CASE TimeIsUp \/ UNCHANGED vars
  BY <1>2 DEF TimeIsUp, vars, FlushedInv, CleanMeansFlushed, Flushing, InProgress, At
<1>3. CASE RedisLosesHash
  BY <1>3 DEF RedisLosesHash, OneTab
<1> QED
  BY <1>1, <1>2, <1>3, LoadFlushed, RequestFlushed, WorkerFlushed DEF Next, Step

-----------------------------------------------------------------------------
(***************************************************************************)
(* The theorems.                                                           *)
(***************************************************************************)

\* With one tab, no save (mergeAnswers compares, then writes) and no worker ever replaces a
\* stored answer by an older one.
THEOREM NewestWinsForOneTab == OneTab => (Spec => NewestWins)
<1> SUFFICES ASSUME OneTab PROVE Spec => NewestWins
  OBVIOUS
<1>1. TypeOK /\ SoloInv /\ [Next]_vars
        => [hash' = NoHash \/ \A q \in Questions : hash'.ans[q] >= hash.ans[q]]_hash
  BY SoloNext DEF Newest
<1> QED
  BY <1>1, TypeCorrect, SoloInvariant, PTL DEF Spec, NewestWins

\* With one tab, the submission that counts, whether of a request or of a worker after the
\* deadline, records every answer that was stored before submitAttempt read them.
THEOREM SubmitKeepsSavedForOneTab == OneTab => (Spec => SubmitKeepsSaved)
<1> SUFFICES ASSUME OneTab PROVE Spec => SubmitKeepsSaved
  OBVIOUS
<1>1. TypeOK /\ OneWinner /\ SoloInv /\ [Next]_vars
        => [\A p \in Procs : Wins(p) =>
              \A q \in Questions : attempt'.answers[q] >= proc[p].owed[q]]_vars
  BY SoloSubmits
<1> QED
  BY <1>1, TypeCorrect, OneWinnerInvariant, SoloInvariant, PTL DEF Spec, SubmitKeepsSaved

\* With one tab and one worker that does not die, an attempt that is not in attempts:dirty and
\* that is not being flushed has all its answers in MongoDB.
THEOREM CleanMeansFlushedForOneTab == OneTab /\ OneWorker => (Spec => []CleanMeansFlushed)
<1> SUFFICES ASSUME OneTab, OneWorker PROVE Spec => []CleanMeansFlushed
  OBVIOUS
<1>1. Init => FlushedInv
  <2>1. Init => \A w \in Workers : proc[w].pc # "flushWrite"
    BY FinishedType, ProcessAssumption DEF Init, Procs
  <2> QED
    BY <2>1 DEF Init, FlushedInv, CleanMeansFlushed, NoHash, At
<1>2. TypeOK /\ SoloInv /\ FlushedInv /\ [Next]_vars => FlushedInv'
  BY FlushedNext
<1>3. FlushedInv => CleanMeansFlushed
  BY DEF FlushedInv
<1>4. OneTab
  OBVIOUS
<1> QED
  BY <1>1, <1>2, <1>3, <1>4, TypeCorrect, SoloInvariant, PTL DEF Spec

-----------------------------------------------------------------------------
(***************************************************************************)
(* The clock of locked sections (ClockedAttempt), for every template.  A   *)
(* least counterexample gives induction over the naturals, and that what   *)
(* the recursive functions of SectionClock compute.                        *)
(***************************************************************************)
LEMMA Least ==
    ASSUME NEW T, T \subseteq Nat, T # {}
    PROVE  \E n \in T : \A m \in T : n <= m
<1>1. PICK R : R = {ss \in Nat \X Nat : ss[1] < ss[2]} /\ IsWellFoundedOn(R, Nat)
  BY NatLessThanWellFounded DEF OpToRel
<1>2. PICK n \in T : \A m \in T : ~(<<m, n>> \in R)
  BY <1>1, WFMin
<1>3. ASSUME NEW m \in T, m < n PROVE FALSE
  <2>1. <<m, n>> \in R
    BY <1>1, <1>3
  <2> QED
    BY <1>2, <2>1
<1> QED
  BY <1>3

\* Induction, for a set of numbers.
LEMMA Induction ==
    ASSUME NEW T, 0 \in T, \A n \in Nat : n \in T => n + 1 \in T
    PROVE  \A n \in Nat : n \in T
<1>1. SUFFICES ASSUME Nat \ T # {} PROVE FALSE
  OBVIOUS
<1>2. PICK n \in Nat \ T : \A m \in Nat \ T : n <= m
  BY <1>1, Least
<1>3. n # 0 /\ n - 1 \in Nat
  BY <1>2
<1>4. n - 1 \in T
  BY <1>2, <1>3
<1> QED
  BY <1>2, <1>3, <1>4

-----------------------------------------------------------------------------
(***************************************************************************)
(* advanceSection, as a recursion.                                         *)
(***************************************************************************)
Metas == [deadline : Nat, sectionIndex : Nat, sectionEnds : Seq(Nat), sectionTimes : Seq(Nat),
          sectionDeadline : Nat \cup {None}]
Inside(m) == m \in Metas /\ m.sectionIndex < Len(m.sectionTimes)
Due(m, now) == m.sectionDeadline # None /\ m.sectionDeadline <= now /\ ~Clock!IsLast(m)
Ended(m) == Clock!NextSection(m, m.sectionDeadline)
\* The runs of the loop: what is left after each round.
Rounds(f, m, now, left) == f = [n \in 0..left |-> IF n = 0 THEN m ELSE Clock!EndIfDue(f[n - 1], now)]

LEMMA RoundsExist ==
    ASSUME NEW m, NEW now, NEW left \in Nat
    PROVE  \E f : Rounds(f, m, now, left)
<1> DEFINE T == {k \in Nat : \E f : Rounds(f, m, now, k)}
<1>1. 0 \in T
  <2>1. Rounds([n \in 0..0 |-> m], m, now, 0)
    BY DEF Rounds
  <2> QED
    BY <2>1
<1>2. ASSUME NEW k \in Nat, k \in T
      PROVE  k + 1 \in T
  <2>1. PICK f : Rounds(f, m, now, k)
    BY <1>2
  <2>2. PICK g : g = [n \in 0..(k + 1) |-> IF n = k + 1 THEN Clock!EndIfDue(f[k], now) ELSE f[n]]
    OBVIOUS
  <2>3. ASSUME NEW n \in 0..(k + 1)
        PROVE  g[n] = IF n = 0 THEN m ELSE Clock!EndIfDue(g[n - 1], now)
    BY <2>1, <2>2 DEF Rounds
  <2>4. Rounds(g, m, now, k + 1)
    BY <2>2, <2>3 DEF Rounds
  <2> QED
    BY <2>4
<1> HIDE DEF T
<1>3. left \in T
  BY <1>1, <1>2, Induction
<1> QED
  BY <1>3 DEF T

LEMMA AdvanceRounds ==
    ASSUME NEW m, NEW now, Inside(m)
    PROVE  \E f : /\ Rounds(f, m, now, Len(m.sectionTimes) - m.sectionIndex)
                  /\ Clock!AdvanceSection(m, now) = f[Len(m.sectionTimes) - m.sectionIndex]
<1>1. PICK left \in Nat : left = Len(m.sectionTimes) - m.sectionIndex
  BY DEF Inside, Metas
<1>2. m.sectionTimes # <<>>
  BY DEF Inside, Metas
<1> DEFINE loop == CHOOSE f : f = [n \in 0..left |-> IF n = 0 THEN m ELSE Clock!EndIfDue(f[n - 1], now)]
<1>3. Rounds(loop, m, now, left)
  <2>1. \E f : f = [n \in 0..left |-> IF n = 0 THEN m ELSE Clock!EndIfDue(f[n - 1], now)]
    <3>1. PICK f : Rounds(f, m, now, left)
      BY RoundsExist
    <3> QED
      BY <3>1 DEF Rounds
  <2> QED
    BY <2>1 DEF Rounds
<1>4. Clock!AdvanceSection(m, now) = loop[left]
  BY <1>1, <1>2 DEF Clock!AdvanceSection
<1> QED
  BY <1>1, <1>3, <1>4

\* The next section, begun at `from`.
LEMMA NextFields ==
    ASSUME NEW m, m \in Metas, m.sectionIndex + 1 < Len(m.sectionTimes), NEW from \in Nat
    PROVE  LET next == Clock!NextSection(m, from)
           IN  /\ Inside(next)
               /\ next.sectionIndex = m.sectionIndex + 1
               /\ next.sectionTimes = m.sectionTimes /\ next.deadline = m.deadline
               /\ next.sectionEnds = Append(m.sectionEnds, from)
               /\ next.sectionDeadline = Clock!Smaller(m.deadline, from + m.sectionTimes[m.sectionIndex + 2])
<1>1. PICK ends \in Seq(Nat) : ends = Append(m.sectionEnds, from)
  BY AppendProperties DEF Metas
<1>2. PICK index \in Nat : index = m.sectionIndex + 1
  BY DEF Metas
<1>3. PICK own \in Nat : own = from + m.sectionTimes[m.sectionIndex + 2]
  BY SMTT(30) DEF Metas
<1>4. PICK deadline \in Nat : deadline = Clock!Smaller(m.deadline, own)
  BY DEF Metas, Clock!Smaller
<1>5. PICK next : next = Clock!NextSection(m, from)
  OBVIOUS
<1>6. next = [m EXCEPT !.sectionEnds = ends, !.sectionIndex = index, !.sectionDeadline = deadline]
  BY <1>1, <1>2, <1>3, <1>4, <1>5 DEF Clock!NextSection
<1>7. /\ next \in Metas /\ next.sectionIndex = index /\ next.sectionTimes = m.sectionTimes
      /\ next.deadline = m.deadline /\ next.sectionEnds = ends /\ next.sectionDeadline = deadline
  BY <1>6 DEF Metas
<1> QED
  BY <1>1, <1>2, <1>3, <1>4, <1>5, <1>7 DEF Inside

LEMMA StepDue ==
    ASSUME NEW m, NEW now, Inside(m), Due(m, now)
    PROVE  /\ Clock!EndIfDue(m, now) = Ended(m) /\ Inside(Ended(m))
           /\ m.sectionDeadline \in Nat
           /\ Ended(m).sectionIndex = m.sectionIndex + 1 /\ m.sectionIndex + 1 < Len(m.sectionTimes)
           /\ Ended(m).sectionTimes = m.sectionTimes
<1>1. m \in Metas /\ m.sectionIndex + 1 < Len(m.sectionTimes) /\ m.sectionDeadline \in Nat
  BY DEF Inside, Due, Clock!IsLast, Metas
<1>2. /\ Inside(Ended(m)) /\ Ended(m).sectionIndex = m.sectionIndex + 1
      /\ Ended(m).sectionTimes = m.sectionTimes
  BY <1>1, NextFields DEF Ended
<1> QED
  BY <1>1, <1>2 DEF Due, Ended, Clock!EndIfDue

\* A section whose time is not up stays.
LEMMA AdvanceStays ==
    ASSUME NEW m, NEW now, Inside(m), ~Due(m, now)
    PROVE  Clock!AdvanceSection(m, now) = m
<1>1. PICK left \in Nat : left = Len(m.sectionTimes) - m.sectionIndex
  BY DEF Inside, Metas
<1>2. PICK f : Rounds(f, m, now, left) /\ Clock!AdvanceSection(m, now) = f[left]
  BY <1>1, AdvanceRounds
<1> DEFINE T == {n \in Nat : n <= left => f[n] = m}
<1>3. 0 \in T
  BY <1>2 DEF Rounds
<1>4. ASSUME NEW n \in Nat, n \in T PROVE n + 1 \in T
  <2>1. SUFFICES ASSUME n + 1 <= left PROVE f[n + 1] = m
    OBVIOUS
  <2>2. f[n + 1] = Clock!EndIfDue(f[n], now)
    BY <1>2, <2>1 DEF Rounds
  <2>3. f[n] = m
    BY <1>4, <2>1
  <2> QED
    BY <2>2, <2>3 DEF Clock!EndIfDue, Due
<1> HIDE DEF T
<1>5. left \in T
  BY <1>3, <1>4, Induction
<1> QED
  BY <1>2, <1>5 DEF T

\* A section whose time is up is ended, and then the next one is looked at.
LEMMA AdvanceEnds ==
    ASSUME NEW m, NEW now, Inside(m), Due(m, now)
    PROVE  Clock!AdvanceSection(m, now) = Clock!AdvanceSection(Ended(m), now)
<1>1. PICK next : next = Ended(m)
  OBVIOUS
<1>2. /\ Inside(next) /\ next = Clock!EndIfDue(m, now)
      /\ next.sectionIndex = m.sectionIndex + 1 /\ next.sectionTimes = m.sectionTimes
  BY <1>1, StepDue
<1>3. PICK left \in Nat : left + 1 = Len(m.sectionTimes) - m.sectionIndex /\ left = Len(next.sectionTimes) - next.sectionIndex
  <2>1. m.sectionIndex \in Nat /\ Len(m.sectionTimes) \in Nat
    BY DEF Inside, Metas
  <2>2. m.sectionIndex + 1 < Len(m.sectionTimes)
    BY StepDue
  <2>3. PICK left \in Nat : left = Len(m.sectionTimes) - m.sectionIndex - 1
    BY <2>1, <2>2
  <2> QED
    BY <1>2, <2>1, <2>3
<1>4. PICK f : Rounds(f, m, now, left + 1) /\ Clock!AdvanceSection(m, now) = f[left + 1]
  BY <1>3, AdvanceRounds
<1>5. PICK g : Rounds(g, next, now, left) /\ Clock!AdvanceSection(next, now) = g[left]
  BY <1>2, <1>3, AdvanceRounds
<1> DEFINE T == {n \in Nat : n <= left => f[n + 1] = g[n]}
<1>6. 0 \in T
  <2>1. f[0] = m /\ f[1] = Clock!EndIfDue(f[0], now) /\ g[0] = next
    BY <1>4, <1>5 DEF Rounds
  <2> QED
    BY <1>2, <2>1
<1>7. ASSUME NEW n \in Nat, n \in T PROVE n + 1 \in T
  <2>1. SUFFICES ASSUME n + 1 <= left PROVE f[n + 2] = g[n + 1]
    OBVIOUS
  <2>2. f[n + 2] = Clock!EndIfDue(f[n + 1], now)
    BY <1>4, <2>1 DEF Rounds
  <2>3. g[n + 1] = Clock!EndIfDue(g[n], now)
    BY <1>5, <2>1 DEF Rounds
  <2> QED
    BY <1>7, <2>1, <2>2, <2>3
<1> HIDE DEF T
<1>8. left \in T
  BY <1>6, <1>7, Induction
<1> QED
  BY <1>1, <1>4, <1>5, <1>8 DEF T

\* Looking twice is looking once, at the later time.
LEMMA LookTwice ==
    ASSUME NEW m, NEW now \in Nat, NEW later \in Nat, now <= later, Inside(m)
    PROVE  /\ Inside(Clock!AdvanceSection(m, now)) /\ ~Due(Clock!AdvanceSection(m, now), now)
           /\ Clock!AdvanceSection(Clock!AdvanceSection(m, now), later) = Clock!AdvanceSection(m, later)
<1> DEFINE Fine(x) ==
      /\ Inside(Clock!AdvanceSection(x, now)) /\ ~Due(Clock!AdvanceSection(x, now), now)
      /\ Clock!AdvanceSection(Clock!AdvanceSection(x, now), later) = Clock!AdvanceSection(x, later)
    T == {n \in Nat : \A x : Inside(x) /\ Len(x.sectionTimes) - x.sectionIndex <= n => Fine(x)}
<1>1. ASSUME NEW x, Inside(x), ~Due(x, now) PROVE Fine(x)
  BY <1>1, AdvanceStays
<1>2. 0 \in T
  BY DEF Inside, Metas
<1>3. ASSUME NEW n \in Nat, n \in T PROVE n + 1 \in T
  <2>1. SUFFICES ASSUME NEW x, Inside(x), Len(x.sectionTimes) - x.sectionIndex <= n + 1 PROVE Fine(x)
    OBVIOUS
  <2>2. CASE ~Due(x, now)
    BY <1>1, <2>1, <2>2
  <2>3. CASE Due(x, now)
    <3>1. PICK next : next = Ended(x)
      OBVIOUS
    <3>2. Inside(next) /\ Len(next.sectionTimes) - next.sectionIndex <= n
      <4>1. x.sectionIndex \in Nat /\ Len(x.sectionTimes) \in Nat
        BY <2>1 DEF Inside, Metas
      <4> QED
        BY <2>1, <2>3, <3>1, <4>1, StepDue
    <3>3. Due(x, later)
      BY <2>1, <2>3, StepDue DEF Due
    <3>4. /\ Clock!AdvanceSection(x, now) = Clock!AdvanceSection(next, now)
          /\ Clock!AdvanceSection(x, later) = Clock!AdvanceSection(next, later)
      BY <2>1, <2>3, <3>1, <3>3, AdvanceEnds
    <3>5. Fine(next)
      BY <1>3, <3>2
    <3> QED
      BY <3>4, <3>5
  <2> QED
    BY <2>2, <2>3
<1> HIDE DEF T
<1>4. \A n \in Nat : n \in T
  BY <1>2, <1>3, Induction
<1>5. PICK n \in Nat : Len(m.sectionTimes) - m.sectionIndex <= n
  BY DEF Inside, Metas
<1> QED
  BY <1>4, <1>5 DEF T

-----------------------------------------------------------------------------
(***************************************************************************)
(* The times of a template.                                                *)
(***************************************************************************)
UpTo(t) == Clock!TimesUpTo(t.times)
Sums(f, times, last) ==
    f = [i \in 0..last |-> IF i = 0 THEN 0 ELSE f[i - 1] + Clock!Seconds(times[i])]

LEMMA SumsExist ==
    ASSUME NEW times, NEW last \in Nat
    PROVE  \E f : Sums(f, times, last)
<1> DEFINE T == {k \in Nat : \E f : Sums(f, times, k)}
<1>1. 0 \in T
  <2>1. Sums([i \in 0..0 |-> 0], times, 0)
    BY DEF Sums
  <2> QED
    BY <2>1
<1>2. ASSUME NEW k \in Nat, k \in T
      PROVE  k + 1 \in T
  <2>1. PICK f : Sums(f, times, k)
    BY <1>2
  <2>2. PICK own : own = Clock!Seconds(times[k + 1])
    OBVIOUS
  <2>3. PICK g : g = [i \in 0..(k + 1) |-> IF i = k + 1 THEN f[k] + own ELSE f[i]]
    OBVIOUS
  <2>4. ASSUME NEW i \in 0..(k + 1)
        PROVE  g[i] = IF i = 0 THEN 0 ELSE g[i - 1] + Clock!Seconds(times[i])
    BY <2>1, <2>2, <2>3 DEF Sums
  <2>5. Sums(g, times, k + 1)
    BY <2>3, <2>4 DEF Sums
  <2> QED
    BY <2>5
<1> HIDE DEF T
<1>3. last \in T
  BY <1>1, <1>2, Induction
<1> QED
  BY <1>3 DEF T

\* The sections of a locked template that passes its own check fit into its total time, each after
\* those before it.
Valid(t) == t.locked /\ Clock!CheckTemplate(t)
LEMMA TimesFit ==
    ASSUME NEW t \in Templates, Valid(t)
    PROVE  /\ \A i \in 1..Len(t.times) : t.times[i] \in Nat /\ UpTo(t)[i] = UpTo(t)[i - 1] + t.times[i]
           /\ \A i \in 0..Len(t.times) : UpTo(t)[i] \in Nat /\ UpTo(t)[i] <= t.total
<1>1. PICK last \in Nat : last = Len(t.times)
  BY TemplatesAssumption
<1>2. \A i \in 1..last : t.times[i] \in Nat /\ t.times[i] # None
  <2>1. t.times \in Seq(Nat \cup {None})
    BY TemplatesAssumption
  <2>2. DOMAIN t.times = 1..last /\ \A i \in 1..last : t.times[i] \in Nat \cup {None}
    BY <1>1, <2>1
  <2>3. \A i \in 1..last : t.times[i] # None
    BY <2>2 DEF Valid, Clock!CheckTemplate
  <2> QED
    BY <2>2, <2>3
<1>4. Sums(UpTo(t), t.times, last)
  <2> DEFINE sum == CHOOSE f : f = [i \in 0..last |-> IF i = 0 THEN 0 ELSE f[i - 1] + Clock!Seconds(t.times[i])]
  <2>1. \E f : f = [i \in 0..last |-> IF i = 0 THEN 0 ELSE f[i - 1] + Clock!Seconds(t.times[i])]
    <3>1. PICK f : Sums(f, t.times, last)
      BY SumsExist
    <3> QED
      BY <3>1 DEF Sums
  <2>2. Sums(sum, t.times, last)
    BY <2>1 DEF Sums
  <2>3. UpTo(t) = sum
    BY <1>1 DEF UpTo, Clock!TimesUpTo
  <2> QED
    BY <2>2, <2>3
<1>5. UpTo(t)[0] = 0 /\ \A i \in 1..last : UpTo(t)[i] = UpTo(t)[i - 1] + t.times[i]
  <2>1. \A i \in 1..last : Clock!Seconds(t.times[i]) = t.times[i]
    BY <1>2 DEF Clock!Seconds
  <2>2. PICK u : u = UpTo(t)
    OBVIOUS
  <2>3. u[0] = 0 /\ \A i \in 1..last : u[i] = u[i - 1] + Clock!Seconds(t.times[i])
    BY <1>4, <2>2 DEF Sums
  <2> QED
    BY <2>1, <2>2, <2>3
<1>6. UpTo(t)[last] = t.total
  <2>1. DOMAIN t.times = 1..last
    BY <1>1, TemplatesAssumption
  <2> QED
    BY <1>1, <1>2, <2>1 DEF Valid, UpTo, Clock!CheckTemplate, Clock!TimesAddUp
<1>7. \A i \in 0..last : UpTo(t)[i] \in Nat
  <2> DEFINE T == {i \in Nat : i <= last => UpTo(t)[i] \in Nat}
  <2>1. 0 \in T
    BY <1>5
  <2>2. ASSUME NEW i \in Nat, i \in T PROVE i + 1 \in T
    <3>1. CASE i + 1 <= last
      <4>1. UpTo(t)[i + 1] = UpTo(t)[i] + t.times[i + 1] /\ t.times[i + 1] \in Nat /\ UpTo(t)[i] \in Nat
        BY <1>2, <1>5, <2>2, <3>1
      <4> QED
        BY <4>1
    <3> QED
      BY <3>1
  <2> HIDE DEF T
  <2>3. \A i \in Nat : i \in T
    BY <2>1, <2>2, Induction
  <2> QED
    BY <2>3 DEF T
<1>8. \A i \in 0..last : UpTo(t)[i] <= t.total
  <2> DEFINE T == {n \in Nat : n <= last => UpTo(t)[last - n] <= t.total}
  <2>1. 0 \in T
    BY <1>6, <1>7
  <2>2. ASSUME NEW n \in Nat, n \in T PROVE n + 1 \in T
    <3>1. CASE n + 1 <= last
      <4>1. PICK i \in 1..last : i = last - n
        BY <3>1
      <4>2. UpTo(t)[i] = UpTo(t)[i - 1] + t.times[i] /\ t.times[i] \in Nat /\ UpTo(t)[i - 1] \in Nat
        BY <1>2, <1>5, <1>7
      <4>3. UpTo(t)[i] <= t.total /\ i - 1 = last - (n + 1) /\ t.total \in Nat
        BY <2>2, <3>1, <4>1, TemplatesAssumption
      <4>4. UpTo(t)[i - 1] <= t.total
        BY <4>2, <4>3
      <4> QED
        BY <4>3, <4>4
    <3> QED
      BY <3>1
  <2> HIDE DEF T
  <2>3. \A n \in Nat : n \in T
    BY <2>1, <2>2, Induction
  <2>4. ASSUME NEW i \in 0..last PROVE UpTo(t)[i] <= t.total
    <3>1. last - i \in T /\ last - i \in Nat /\ last - (last - i) = i
      BY <2>3
    <3> QED
      BY <3>1 DEF T
  <2> QED
    BY <2>4
<1> QED
  BY <1>1, <1>2, <1>5, <1>7, <1>8

-----------------------------------------------------------------------------
(***************************************************************************)
(* The meta of an attempt whose sections' clock runs, whoever holds it.    *)
(***************************************************************************)
EndOf(m, i) == Clock!Smaller(m.deadline, Began(m, i) + m.sectionTimes[i + 1])
\* Each section over had its own time, less only when it is among `ended`.
HadOwnTime(ended, m) ==
    \A i \in 1..m.sectionIndex :
        /\ Began(m, i - 1) <= m.sectionEnds[i]
        /\ m.sectionEnds[i] <= EndOf(m, i - 1)
        /\ i - 1 \notin ended => m.sectionEnds[i] = EndOf(m, i - 1)
\* No section began late, in the future, or after the attempt.
BeganInTime(t, at, m) ==
    \A i \in 0..m.sectionIndex :
        /\ Began(m, i) \in Nat /\ Began(m, i) <= t.total /\ Began(m, i) <= at
        /\ Valid(t) => Began(m, i) <= UpTo(t)[i]
SaneLocked(t, ended, at, m) ==
    /\ Inside(m)
    /\ m.deadline = t.total /\ m.sectionTimes = Clock!SectionTimes(t)
    /\ Len(m.sectionEnds) = m.sectionIndex
    /\ HadOwnTime(ended, m)
    /\ BeganInTime(t, at, m)
    /\ m.sectionDeadline = EndOf(m, m.sectionIndex)

\* The times of the sections are numbers, the template's own where it has them all.
LEMMA TimesAre ==
    ASSUME NEW t \in Templates, t.locked
    PROVE  /\ Clock!SectionTimes(t) \in Seq(Nat) /\ Len(Clock!SectionTimes(t)) = Len(t.times)
           /\ Len(t.times) \in Nat /\ t.total \in Nat
           /\ Valid(t) => \A i \in 1..Len(t.times) : Clock!SectionTimes(t)[i] = t.times[i]
<1>1. t.times \in Seq(Nat \cup {None}) /\ t.total \in Nat
  BY TemplatesAssumption
<1>2. PICK last \in Nat : last = Len(t.times) /\ DOMAIN t.times = 1..last
  BY <1>1
<1>3. \A i \in 1..last : t.times[i] \in Nat \cup {None}
  BY <1>1, <1>2
<1>4. PICK times : times = Clock!SectionTimes(t)
  OBVIOUS
<1>5. times = [i \in 1..last |-> Clock!Seconds(t.times[i])]
  BY <1>2, <1>4 DEF Clock!SectionTimes
<1>6. \A i \in 1..last : Clock!Seconds(t.times[i]) \in Nat
  BY <1>3 DEF Clock!Seconds
<1>7. times \in Seq(Nat) /\ Len(times) = last
  BY <1>5, <1>6
<1>8. ASSUME Valid(t), NEW i \in 1..last PROVE times[i] = t.times[i]
  BY <1>2, <1>5, <1>8 DEF Valid, Clock!CheckTemplate, Clock!Seconds
<1> QED
  BY <1>1, <1>2, <1>4, <1>7, <1>8

LEMMA SmallerOf ==
    ASSUME NEW a \in Nat, NEW b \in Nat
    PROVE  /\ Clock!Smaller(a, b) \in Nat /\ Clock!Smaller(a, b) <= a /\ Clock!Smaller(a, b) <= b
           /\ b <= a => Clock!Smaller(a, b) = b
           /\ \A c \in Nat : c <= a /\ c <= b => c <= Clock!Smaller(a, b)
BY DEF Clock!Smaller

\* A section that has the whole time of its template.
HasWhole(t, m, i) ==
    /\ EndOf(m, i) = Began(m, i) + m.sectionTimes[i + 1]
    /\ m.sectionTimes[i + 1] = t.times[i + 1]
    /\ UpTo(t)[i + 1] \in Nat /\ EndOf(m, i) <= UpTo(t)[i + 1]

\* A section of the meta: when it began, how long it is, when it ends.
LEMMA SectionSane ==
    ASSUME NEW t \in Templates, t.locked, NEW ended, NEW at \in Nat, NEW m, SaneLocked(t, ended, at, m),
           NEW i \in 0..m.sectionIndex
    PROVE  /\ m.sectionIndex \in Nat /\ Len(t.times) \in Nat /\ m.sectionIndex < Len(t.times)
           /\ Began(m, i) \in Nat /\ Began(m, i) <= at /\ t.total \in Nat
           /\ m.sectionTimes[i + 1] \in Nat
           /\ EndOf(m, i) \in Nat /\ EndOf(m, i) <= t.total /\ EndOf(m, i) <= Began(m, i) + m.sectionTimes[i + 1]
           /\ Began(m, i) <= EndOf(m, i)
           /\ Valid(t) => HasWhole(t, m, i)
<1>1. PICK k \in Nat, last \in Nat : k = m.sectionIndex /\ last = Len(t.times) /\ k < last /\ i \in 0..k
  BY TimesAre DEF SaneLocked, Inside, Metas
<1>2. PICK times \in Seq(Nat) : times = m.sectionTimes /\ Len(times) = last /\ times = Clock!SectionTimes(t)
  BY <1>1, TimesAre DEF SaneLocked
<1>3. i + 1 \in 1..last /\ i \in 0..last /\ i + 1 \in 0..last /\ (i + 1) - 1 = i
  BY <1>1
<1>4. PICK own \in Nat : own = times[i + 1]
  BY <1>2, <1>3
<1>5. PICK total \in Nat : total = t.total /\ m.deadline = total
  BY TimesAre DEF SaneLocked
<1>6. PICK began \in Nat : began = Began(m, i) /\ began <= total /\ began <= at
  BY <1>1, <1>5 DEF SaneLocked, BeganInTime
<1>7. EndOf(m, i) = Clock!Smaller(total, began + own)
  BY <1>2, <1>4, <1>5, <1>6 DEF EndOf
<1>8. /\ Clock!Smaller(total, began + own) \in Nat /\ Clock!Smaller(total, began + own) <= total
      /\ Clock!Smaller(total, began + own) <= began + own /\ began <= Clock!Smaller(total, began + own)
      /\ (began + own <= total => Clock!Smaller(total, began + own) = began + own)
  <2>1. PICK sum \in Nat : sum = began + own
    OBVIOUS
  <2>2. began <= sum
    BY <2>1
  <2>3. /\ Clock!Smaller(total, sum) \in Nat /\ Clock!Smaller(total, sum) <= total
        /\ Clock!Smaller(total, sum) <= sum /\ (sum <= total => Clock!Smaller(total, sum) = sum)
        /\ began <= Clock!Smaller(total, sum)
    BY <1>6, <2>2, SmallerOf
  <2> QED
    BY <2>1, <2>3
<1>9. ASSUME Valid(t)
      PROVE  /\ Clock!Smaller(total, began + own) = began + own
             /\ own = t.times[i + 1] /\ UpTo(t)[i + 1] \in Nat /\ began + own <= UpTo(t)[i + 1]
  <2>1. own = t.times[i + 1]
    BY <1>1, <1>2, <1>3, <1>4, <1>9, TimesAre
  <2>2. UpTo(t)[i + 1] = UpTo(t)[i] + t.times[i + 1]
    BY <1>1, <1>3, <1>9, TimesFit
  <2>3. UpTo(t)[i] \in Nat /\ UpTo(t)[i + 1] \in Nat /\ UpTo(t)[i + 1] <= t.total
    BY <1>1, <1>3, <1>9, TimesFit
  <2>4. began <= UpTo(t)[i]
    BY <1>1, <1>6, <1>9 DEF SaneLocked, BeganInTime
  <2>5. began + own <= UpTo(t)[i + 1] /\ began + own <= total
    BY <1>5, <2>1, <2>2, <2>3, <2>4
  <2> QED
    BY <1>8, <2>1, <2>3, <2>5
<1>10. Valid(t) => HasWhole(t, m, i)
  BY <1>2, <1>4, <1>6, <1>7, <1>9 DEF HasWhole
<1> QED
  BY <1>1, <1>2, <1>4, <1>5, <1>6, <1>7, <1>8, <1>10

\* Ending a section within its time, now, keeps the meta sane.
LEMMA EndSane ==
    ASSUME NEW t \in Templates, t.locked, NEW ended, NEW at \in Nat, NEW m, SaneLocked(t, ended, at, m),
           m.sectionIndex + 1 < Len(m.sectionTimes),
           NEW from \in Nat, Began(m, m.sectionIndex) <= from, from <= m.sectionDeadline, from <= at,
           NEW more, ended \subseteq more, m.sectionIndex \notin more => from = m.sectionDeadline
    PROVE  SaneLocked(t, more, at, Clock!NextSection(m, from))
<1>1. PICK k \in Nat : k = m.sectionIndex /\ k \in 0..k
  BY DEF SaneLocked, Inside, Metas
<1>2. PICK next : next = Clock!NextSection(m, from)
  OBVIOUS
<1>3. /\ Inside(next) /\ next.sectionIndex = k + 1
      /\ next.sectionTimes = m.sectionTimes /\ next.deadline = m.deadline
      /\ next.sectionEnds = Append(m.sectionEnds, from)
      /\ next.sectionDeadline = Clock!Smaller(m.deadline, from + m.sectionTimes[k + 2])
  BY <1>1, <1>2, NextFields DEF SaneLocked, Inside
<1>4. /\ Len(next.sectionEnds) = k + 1 /\ next.sectionEnds[k + 1] = from
      /\ \A i \in 1..k : next.sectionEnds[i] = m.sectionEnds[i]
  <2>1. m.sectionEnds \in Seq(Nat) /\ Len(m.sectionEnds) = k
    BY <1>1 DEF SaneLocked, Inside, Metas
  <2> QED
    BY <1>3, <2>1, AppendProperties
<1>5. Began(next, k + 1) = from /\ \A i \in 0..k : Began(next, i) = Began(m, i)
  BY <1>1, <1>4 DEF Began
<1>6. \A i \in 0..k : EndOf(next, i) = EndOf(m, i)
  BY <1>3, <1>5 DEF EndOf
<1>7. next.sectionDeadline = EndOf(next, k + 1)
  <2>1. k + 2 = (k + 1) + 1
    OBVIOUS
  <2> QED
    BY <1>3, <1>5, <2>1 DEF EndOf
<1>8. m.sectionDeadline = EndOf(m, k)
  BY <1>1 DEF SaneLocked
<1>9. /\ EndOf(m, k) \in Nat /\ EndOf(m, k) <= t.total /\ t.total \in Nat
      /\ Valid(t) => UpTo(t)[k + 1] \in Nat /\ EndOf(m, k) <= UpTo(t)[k + 1]
  BY <1>1, SectionSane DEF HasWhole
<1>10. HadOwnTime(more, next)
  <2>1. SUFFICES ASSUME NEW i \in 1..(k + 1)
                 PROVE  /\ Began(next, i - 1) <= next.sectionEnds[i]
                        /\ next.sectionEnds[i] <= EndOf(next, i - 1)
                        /\ i - 1 \notin more => next.sectionEnds[i] = EndOf(next, i - 1)
    BY <1>3 DEF HadOwnTime
  <2>2. CASE i = k + 1
    <3>1. i - 1 = k /\ k \in 0..k
      BY <2>2
    <3>2. Began(next, i - 1) = Began(m, k) /\ next.sectionEnds[i] = from /\ EndOf(next, i - 1) = EndOf(m, k)
      BY <1>4, <1>5, <1>6, <2>2, <3>1
    <3> QED
      BY <1>1, <1>8, <3>1, <3>2
  <2>3. CASE i <= k
    <3>1. i \in 1..k /\ i - 1 \in 0..k
      BY <2>3
    <3>2. HadOwnTime(ended, m)
      BY DEF SaneLocked
    <3> QED
      BY <1>1, <1>4, <1>5, <1>6, <3>1, <3>2 DEF HadOwnTime
  <2> QED
    BY <2>2, <2>3
<1>11. BeganInTime(t, at, next)
  <2>1. SUFFICES ASSUME NEW i \in 0..(k + 1)
                 PROVE  /\ Began(next, i) \in Nat /\ Began(next, i) <= t.total /\ Began(next, i) <= at
                        /\ Valid(t) => Began(next, i) <= UpTo(t)[i]
    BY <1>3 DEF BeganInTime
  <2>2. CASE i = k + 1
    <3>1. from <= EndOf(m, k)
      BY <1>8
    <3>2. from <= t.total /\ (Valid(t) => from <= UpTo(t)[k + 1])
      BY <1>9, <3>1
    <3> QED
      BY <1>5, <2>2, <3>2
  <2>3. CASE i <= k
    <3>1. i \in 0..k
      BY <2>3
    <3> QED
      BY <1>1, <1>5, <3>1 DEF SaneLocked, BeganInTime
  <2> QED
    BY <2>2, <2>3
<1>12. next.deadline = t.total /\ next.sectionTimes = Clock!SectionTimes(t)
  BY <1>3 DEF SaneLocked
<1> QED
  BY <1>2, <1>3, <1>4, <1>7, <1>10, <1>11, <1>12 DEF SaneLocked

\* Looking keeps it sane.
LEMMA LookSane ==
    ASSUME NEW t \in Templates, t.locked, NEW ended, NEW at \in Nat, NEW m, SaneLocked(t, ended, at, m)
    PROVE  SaneLocked(t, ended, at, Clock!AdvanceSection(m, at))
<1> DEFINE Fine(x) == SaneLocked(t, ended, at, Clock!AdvanceSection(x, at))
           T == {n \in Nat : \A x : SaneLocked(t, ended, at, x) /\ Len(x.sectionTimes) - x.sectionIndex <= n => Fine(x)}
<1>1. 0 \in T
  BY DEF SaneLocked, Inside, Metas
<1>2. ASSUME NEW n \in Nat, n \in T PROVE n + 1 \in T
  <2>1. SUFFICES ASSUME NEW x, SaneLocked(t, ended, at, x), Len(x.sectionTimes) - x.sectionIndex <= n + 1 PROVE Fine(x)
    OBVIOUS
  <2>2. Inside(x)
    BY <2>1 DEF SaneLocked
  <2>3. CASE ~Due(x, at)
    BY <2>1, <2>2, <2>3, AdvanceStays
  <2>4. CASE Due(x, at)
    <3>1. PICK next : next = Ended(x)
      OBVIOUS
    <3>2. Len(next.sectionTimes) - next.sectionIndex <= n
      <4>1. x.sectionIndex \in Nat /\ Len(x.sectionTimes) \in Nat
        BY <2>2 DEF Inside, Metas
      <4>2. next.sectionTimes = x.sectionTimes /\ next.sectionIndex = x.sectionIndex + 1
        BY <2>2, <2>4, <3>1, StepDue
      <4> QED
        BY <2>1, <4>1, <4>2
    <3>3. SaneLocked(t, ended, at, next)
      <4>1. x.sectionIndex + 1 < Len(x.sectionTimes) /\ x.sectionDeadline \in Nat /\ x.sectionDeadline <= at
        BY <2>2, <2>4, StepDue DEF Due
      <4>2. x.sectionIndex \in 0..x.sectionIndex
        BY <2>2 DEF Inside, Metas
      <4>3. Began(x, x.sectionIndex) <= EndOf(x, x.sectionIndex)
        BY <2>1, <4>2, SectionSane
      <4>4. Began(x, x.sectionIndex) <= x.sectionDeadline
        BY <2>1, <4>3 DEF SaneLocked
      <4> QED
        BY <2>1, <3>1, <4>1, <4>4, EndSane DEF Ended
    <3>4. Fine(next)
      BY <1>2, <3>2, <3>3
    <3> QED
      BY <2>2, <2>4, <3>1, <3>4, AdvanceEnds
  <2> QED
    BY <2>3, <2>4
<1> HIDE DEF T
<1>3. \A n \in Nat : n \in T
  BY <1>1, <1>2, Induction
<1>4. PICK n \in Nat : Len(m.sectionTimes) - m.sectionIndex <= n
  BY DEF SaneLocked, Inside, Metas
<1> QED
  BY <1>3, <1>4 DEF T

\* What is sane of a meta stays so later, and when more sections were ended early.
LEMMA SaneLater ==
    ASSUME NEW t, NEW ended, NEW more, ended \subseteq more, NEW at \in Nat, NEW later \in Nat, at <= later,
           NEW m, SaneLocked(t, ended, at, m)
    PROVE  SaneLocked(t, more, later, m)
<1>1. HadOwnTime(more, m)
  BY DEF SaneLocked, HadOwnTime
<1>2. BeganInTime(t, later, m)
  BY DEF SaneLocked, BeganInTime
<1> QED
  BY <1>1, <1>2 DEF SaneLocked

\* A section that is submitted ends now, like one whose time is up.
LEMMA SubmitSane ==
    ASSUME NEW t \in Templates, t.locked, NEW ended, NEW at \in Nat, NEW m, SaneLocked(t, ended, at, m), ~Due(m, at)
    PROVE  LET done == Clock!FinishSection(m, at)
               more == IF done = m THEN ended ELSE ended \cup {m.sectionIndex}
           IN  SaneLocked(t, more, at, done)
<1>1. PICK k \in Nat : k = m.sectionIndex
  BY DEF SaneLocked, Inside, Metas
<1>2. CASE Clock!FinishSection(m, at) = m
  BY <1>2
<1>3. CASE Clock!FinishSection(m, at) # m
  <2>1. /\ m.sectionDeadline # None /\ ~Clock!IsLast(m)
        /\ Clock!FinishSection(m, at) = Clock!NextSection(m, at)
    BY <1>3 DEF Clock!FinishSection
  <2>2. Len(m.sectionTimes) \in Nat /\ m.sectionDeadline \in Nat \cup {None}
    BY DEF SaneLocked, Inside, Metas
  <2>3. m.sectionIndex + 1 < Len(m.sectionTimes)
    BY <1>1, <2>1, <2>2 DEF Clock!IsLast
  <2>4. m.sectionDeadline \in Nat /\ at <= m.sectionDeadline
    BY <2>1, <2>2 DEF Due
  <2>5. Began(m, k) <= at
    BY <1>1 DEF SaneLocked, BeganInTime
  <2>6. SaneLocked(t, ended \cup {m.sectionIndex}, at, Clock!NextSection(m, at))
    BY <1>1, <2>3, <2>4, <2>5, EndSane
  <2> QED
    BY <1>3, <2>1, <2>6
<1> QED
  BY <1>2, <1>3

-----------------------------------------------------------------------------
(***************************************************************************)
(* The inductive invariant: every copy of the meta is sane, and looks now  *)
(* like the one that nobody looked at; where no clock runs, there is one.  *)
(***************************************************************************)
SameLook(m) == Clock!AdvanceSection(m, time) = Clock!AdvanceSection(unseen, time)
CopiesLocked ==
    /\ SaneLocked(template, early, time, unseen)
    /\ SaneLocked(template, early, time, timing) /\ SameLook(timing)
    /\ \A r \in Lookers : write[r] # None => SaneLocked(template, early, time, write[r]) /\ SameLook(write[r])
CopiesOpen ==
    /\ timing = [deadline |-> template.total, sectionIndex |-> 0, sectionEnds |-> <<>>,
                 sectionTimes |-> Clock!SectionTimes(template), sectionDeadline |-> None]
    /\ unseen = timing
    /\ \A r \in Lookers : write[r] = None
ClockInv ==
    /\ template \in Templates /\ time \in 0..MaxTime
    /\ write = [r \in Lookers |-> write[r]]
    /\ Clock!Runs(template) => CopiesLocked
    /\ ~Clock!Runs(template) => CopiesOpen

LEMMA OpenStays ==
    ASSUME ClockInv, ~Clock!Runs(template), NEW now
    PROVE  Clock!AdvanceSection(timing, now) = timing /\ Clock!FinishSection(timing, now) = timing
<1>1. CopiesOpen /\ template \in Templates
  BY DEF ClockInv
<1>2. Clock!FinishSection(timing, now) = timing
  BY <1>1 DEF CopiesOpen, Clock!FinishSection
<1>3. CASE timing.sectionTimes = <<>>
  BY <1>2, <1>3 DEF Clock!AdvanceSection
<1>4. CASE timing.sectionTimes # <<>>
  <2>1. PICK times : times = Clock!SectionTimes(template)
    OBVIOUS
  <2>2. times # <<>>
    BY <1>1, <1>4, <2>1 DEF CopiesOpen
  <2>3. template.locked
    BY <2>1, <2>2 DEF Clock!SectionTimes
  <2>4. times \in Seq(Nat) /\ template.total \in Nat
    BY <1>1, <2>1, <2>3, TimesAre
  <2>5. Inside(timing)
    BY <1>1, <2>1, <2>2, <2>4 DEF CopiesOpen, Inside, Metas
  <2>6. ~Due(timing, now)
    BY <1>1 DEF CopiesOpen, Due
  <2> QED
    BY <1>2, <2>5, <2>6, AdvanceStays
<1> QED
  BY <1>3, <1>4

LEMMA ClockInitInv == ClockInit => ClockInv
<1> SUFFICES ASSUME ClockInit PROVE ClockInv
  OBVIOUS
<1>1. /\ template \in Templates /\ time = 0 /\ timing = Clock!InitialTiming(template, 0)
      /\ unseen = timing /\ early = {} /\ write = [r \in Lookers |-> None]
  BY DEF ClockInit
<1>2. time \in 0..MaxTime
  BY <1>1, TimeAssumption
<1>3. CASE ~Clock!Runs(template)
  <2>1. template.total \in Nat /\ 0 + template.total = template.total
    BY <1>1, TemplatesAssumption
  <2> QED
    BY <1>1, <1>2, <1>3, <2>1 DEF ClockInv, CopiesOpen, Clock!InitialTiming
<1>4. CASE Clock!Runs(template)
  <2>1. PICK t \in Templates : t = template
    BY <1>1
  <2>2. t.locked /\ t.times # <<>> /\ t.times[1] \notin {None, 0}
    BY <1>4, <2>1 DEF Clock!Runs
  <2>3. PICK times \in Seq(Nat), total \in Nat, last \in Nat :
           times = Clock!SectionTimes(t) /\ total = t.total /\ last = Len(t.times) /\ last = Len(times) /\ 1 \in 1..last
    <3>1. t.times \in Seq(Nat \cup {None})
      BY TemplatesAssumption
    <3>2. Len(t.times) \in Nat /\ Len(t.times) # 0
      BY <2>2, <3>1
    <3> QED
      BY <2>2, <3>2, TimesAre
  <2>4. times[1] = t.times[1] /\ times[1] \in Nat
    <3>1. DOMAIN t.times = 1..last
      <4>1. PICK own : own = t.times /\ own \in Seq(Nat \cup {None})
        BY TemplatesAssumption
      <4>2. DOMAIN own = 1..Len(own)
        BY <4>1
      <4> QED
        BY <2>3, <4>1, <4>2
    <3>2. times[1] = Clock!Seconds(t.times[1])
      BY <2>2, <2>3, <3>1 DEF Clock!SectionTimes
    <3> QED
      BY <2>2, <2>3, <3>2 DEF Clock!Seconds
  <2>5. PICK own \in Nat : own = times[1]
    BY <2>4
  <2>6. PICK due \in Nat : due = Clock!Smaller(total, own)
    BY SmallerOf
  <2>7. timing = [deadline |-> total, sectionIndex |-> 0, sectionEnds |-> <<>>,
                  sectionTimes |-> times, sectionDeadline |-> due]
    <3>1. 0 + total = total /\ 0 + own = own
      OBVIOUS
    <3> QED
      BY <1>1, <1>4, <2>1, <2>3, <2>4, <2>5, <2>6, <3>1 DEF Clock!InitialTiming
  <2>8. SaneLocked(t, {}, 0, timing)
    <3>1. Inside(timing) /\ Len(timing.sectionEnds) = timing.sectionIndex
      BY <2>3, <2>7 DEF Inside, Metas
    <3>2. HadOwnTime({}, timing)
      BY <2>7 DEF HadOwnTime
    <3>3. BeganInTime(t, 0, timing)
      <4>1. Valid(t) => UpTo(t)[0] \in Nat
        <5>1. 0 \in 0..Len(t.times)
          BY <2>3
        <5> QED
          BY <5>1, TimesFit
      <4>2. Valid(t) => 0 <= UpTo(t)[0]
        BY <4>1
      <4> QED
        BY <2>3, <2>7, <4>2 DEF BeganInTime, Began
    <3>4. timing.sectionDeadline = EndOf(timing, timing.sectionIndex)
      <4>1. Began(timing, 0) + times[0 + 1] = own
        BY <2>5 DEF Began
      <4> QED
        BY <2>6, <2>7, <4>1 DEF EndOf
    <3> QED
      BY <2>3, <2>7, <3>1, <3>2, <3>3, <3>4 DEF SaneLocked
  <2> QED
    BY <1>1, <1>2, <1>4, <2>1, <2>8 DEF ClockInv, CopiesLocked, SameLook
<1> QED
  BY <1>3, <1>4

LEMMA TickInv == ClockInv /\ Tick => ClockInv'
<1> SUFFICES ASSUME ClockInv, Tick PROVE ClockInv'
  OBVIOUS
<1>1. /\ time' \in 0..MaxTime /\ time \in Nat /\ time' \in Nat /\ time <= time'
      /\ UNCHANGED <<template, timing, write, unseen, early>>
  BY TimeAssumption DEF ClockInv, Tick
<1>2. ASSUME Clock!Runs(template) PROVE CopiesLocked'
  <2>1. ASSUME NEW m, SaneLocked(template, early, time, m), SameLook(m)
        PROVE  SaneLocked(template, early, time', m) /\ Clock!AdvanceSection(m, time') = Clock!AdvanceSection(unseen, time')
    <3>1. SaneLocked(template, early, time', m)
      BY <1>1, <2>1, SaneLater
    <3>2. Inside(m) /\ Inside(unseen)
      BY <1>2, <2>1 DEF SaneLocked, ClockInv, CopiesLocked
    <3>3. /\ Clock!AdvanceSection(Clock!AdvanceSection(m, time), time') = Clock!AdvanceSection(m, time')
          /\ Clock!AdvanceSection(Clock!AdvanceSection(unseen, time), time') = Clock!AdvanceSection(unseen, time')
      BY <1>1, <3>2, LookTwice
    <3> QED
      BY <2>1, <3>1, <3>3 DEF SameLook
  <2>2. CopiesLocked
    BY <1>2 DEF ClockInv
  <2>3. SaneLocked(template, early, time', unseen)
    BY <1>1, <2>2, SaneLater DEF CopiesLocked
  <2> QED
    BY <1>1, <2>1, <2>2, <2>3 DEF CopiesLocked, SameLook
<1>3. ASSUME ~Clock!Runs(template) PROVE CopiesOpen'
  BY <1>1, <1>3 DEF ClockInv, CopiesOpen
<1> QED
  BY <1>1, <1>2, <1>3 DEF ClockInv

LEMMA LookInv == ASSUME NEW r \in Lookers PROVE ClockInv /\ Look(r) => ClockInv'
<1> SUFFICES ASSUME ClockInv, Look(r) PROVE ClockInv'
  OBVIOUS
<1>1. PICK seen : seen = Clock!AdvanceSection(timing, time)
  OBVIOUS
<1>2. /\ write' = [write EXCEPT ![r] = seen] /\ seen # timing
      /\ UNCHANGED <<template, time, timing, unseen, early>>
  BY <1>1 DEF Look
<1>3. /\ write' = [p \in Lookers |-> write'[p]]
      /\ \A p \in Lookers : write'[p] = IF p = r THEN seen ELSE write[p]
  BY <1>2 DEF ClockInv
<1>4. Clock!Runs(template) /\ template.locked
  <2>1. Clock!Runs(template)
    BY <1>1, <1>2, OpenStays
  <2> QED
    BY <2>1 DEF Clock!Runs
<1>5. CopiesLocked /\ template \in Templates /\ time \in Nat
  BY <1>4, TimeAssumption DEF ClockInv
<1>6. SaneLocked(template, early, time, seen)
  BY <1>1, <1>4, <1>5, LookSane DEF CopiesLocked
<1>7. Clock!AdvanceSection(seen, time) = Clock!AdvanceSection(timing, time)
  BY <1>1, <1>5, LookTwice DEF CopiesLocked, SaneLocked
<1>8. CopiesLocked'
  BY <1>2, <1>3, <1>5, <1>6, <1>7 DEF CopiesLocked, SameLook
<1> QED
  BY <1>2, <1>3, <1>4, <1>8 DEF ClockInv

LEMMA WriteInv == ASSUME NEW r \in Lookers PROVE ClockInv /\ Write(r) => ClockInv'
<1> SUFFICES ASSUME ClockInv, Write(r) PROVE ClockInv'
  OBVIOUS
<1>1. /\ write[r] # None /\ (timing' = timing \/ timing' = write[r])
      /\ write' = [write EXCEPT ![r] = None]
      /\ UNCHANGED <<template, time, unseen, early>>
  BY DEF Write
<1>2. /\ write' = [p \in Lookers |-> write'[p]]
      /\ \A p \in Lookers : write'[p] = IF p = r THEN None ELSE write[p]
  BY <1>1 DEF ClockInv
<1>3. Clock!Runs(template) /\ CopiesLocked
  BY <1>1 DEF ClockInv, CopiesOpen
<1>4. SaneLocked(template, early, time, timing') /\ SameLook(timing')
  BY <1>1, <1>3 DEF CopiesLocked
<1>5. CopiesLocked'
  BY <1>1, <1>2, <1>3, <1>4 DEF CopiesLocked, SameLook
<1> QED
  BY <1>1, <1>2, <1>3, <1>5 DEF ClockInv

LEMMA SubmitSectionInv == ClockInv /\ SubmitSection => ClockInv'
<1> SUFFICES ASSUME ClockInv, SubmitSection PROVE ClockInv'
  OBVIOUS
<1>1. PICK seen : seen = Clock!AdvanceSection(timing, time)
  OBVIOUS
<1>2. PICK done : done = Clock!FinishSection(seen, time)
  OBVIOUS
<1>3. /\ \A r \in Lookers : write[r] = None
      /\ timing' = done /\ unseen' = Clock!FinishSection(Clock!AdvanceSection(unseen, time), time)
      /\ early' = IF done = seen THEN early ELSE early \cup {seen.sectionIndex}
      /\ UNCHANGED <<template, time, write>>
  BY <1>1, <1>2 DEF SubmitSection
<1>4. CASE Clock!Runs(template)
  <2>1. CopiesLocked /\ template \in Templates /\ time \in Nat /\ template.locked
    BY <1>4, TimeAssumption DEF ClockInv, Clock!Runs
  <2>2. unseen' = done
    BY <1>1, <1>2, <1>3, <2>1 DEF CopiesLocked, SameLook
  <2>3. SaneLocked(template, early, time, seen)
    BY <1>1, <1>4, <2>1, LookSane DEF CopiesLocked
  <2>4. ~Due(seen, time)
    BY <1>1, <2>1, LookTwice DEF CopiesLocked, SaneLocked
  <2>5. SaneLocked(template, early', time, done)
    BY <1>2, <1>3, <1>4, <2>1, <2>3, <2>4, SubmitSane
  <2>6. CopiesLocked'
    BY <1>3, <2>2, <2>5 DEF CopiesLocked, SameLook
  <2> QED
    BY <1>3, <1>4, <2>6 DEF ClockInv
<1>5. CASE ~Clock!Runs(template)
  <2>1. CopiesOpen
    BY <1>5 DEF ClockInv
  <2>2. seen = timing /\ done = timing
    BY <1>1, <1>2, <1>5, OpenStays
  <2>3. unseen' = timing
    BY <1>3, <1>5, <2>1, OpenStays DEF CopiesOpen
  <2>4. CopiesOpen'
    BY <1>3, <2>1, <2>2, <2>3 DEF CopiesOpen
  <2> QED
    BY <1>3, <1>5, <2>4 DEF ClockInv
<1> QED
  BY <1>4, <1>5

\* Where no clock runs, the first section stays until the attempt's deadline.
LEMMA OpenExact == ClockInv /\ ~Clock!Runs(template) => ClockExact
<1> SUFFICES ASSUME ClockInv, ~Clock!Runs(template) PROVE ClockExact
  OBVIOUS
<1>1. Looked = timing /\ unseen = timing /\ timing.sectionIndex = 0 /\ timing.deadline = template.total
  BY OpenStays DEF ClockInv, CopiesOpen, Looked
<1>2. template \in Templates /\ template.total \in Nat /\ time \in Nat
  BY TemplatesAssumption, TimeAssumption DEF ClockInv
<1>3. LooksLeaveNoTrace
  BY <1>1 DEF LooksLeaveNoTrace, Looked
<1>4. OwnTime
  BY <1>1 DEF OwnTime
<1>5. WithinTime
  <2>1. SUFFICES ASSUME template.locked, NEW section \in 0..(Len(template.times) - 1), NEW at \in 0..time,
                        Clock!Saves(timing, section, at, time)
                 PROVE  section <= 0 /\ Began(timing, section) <= time /\ at <= LastMoment(section) + AnswerGrace
    BY <1>1 DEF WithinTime
  <2>2. time <= template.total + AnswerGrace /\ section <= 0
    <3>1. Len(template.times) \in Nat /\ Len(Clock!SectionTimes(template)) = Len(template.times)
      BY <1>2, <2>1, TimesAre
    <3>2. Clock!SectionTimes(template) # <<>>
      <4>1. Len(template.times) # 0
        BY <2>1, <3>1
      <4> QED
        BY <3>1, <4>1
    <3>3. timing.sectionTimes # <<>>
      BY <3>2 DEF ClockInv, CopiesOpen
    <3>4. section = 0 \/ section < 0
      BY <1>1, <2>1, <3>3 DEF Clock!Saves, Clock!InGrace
    <3> QED
      BY <1>1, <2>1, <3>1, <3>4 DEF Clock!Saves
  <2>3. LastMoment(section) = template.total
    BY <1>1 DEF LastMoment
  <2>4. section = 0
    BY <2>1, <2>2
  <2>5. Began(timing, section) <= time
    BY <1>2, <2>4 DEF Began
  <2> QED
    BY <1>2, <2>1, <2>2, <2>3, <2>5, TimeAssumption
<1>6. WholeTime
  <2>1. SUFFICES ASSUME Clock!CheckTemplate(template), template.locked,
                        NEW section \in 0..(Len(template.times) - 1)
                 PROVE  FALSE
    BY DEF WholeTime
  <2>2. template.times \in Seq(Nat \cup {None})
    BY <1>2, TemplatesAssumption
  <2>3. PICK last \in Nat : last = Len(template.times) /\ DOMAIN template.times = 1..last /\ 1 \in 1..last
    BY <2>1, <2>2
  <2>4. template.times # <<>>
    BY <2>2, <2>3
  <2>5. template.times[1] # None /\ template.times[1] # 0
    BY <2>1, <2>3 DEF Clock!CheckTemplate
  <2> QED
    BY <2>1, <2>4, <2>5 DEF Clock!Runs
<1> QED
  BY <1>3, <1>4, <1>5, <1>6 DEF ClockExact

\* What is saved of a section, by what SaneLocked says of when it ends.
LEMMA SavedInTime ==
    ASSUME NEW t \in Templates, Clock!Runs(t), NEW ended, NEW now \in Nat, NEW m, SaneLocked(t, ended, now, m),
           ~Due(m, now), NEW i \in 0..(Len(t.times) - 1), NEW at \in 0..now, Clock!Saves(m, i, at, now)
    PROVE  /\ i <= m.sectionIndex /\ Began(m, i) <= now
           /\ i + 1 < Len(t.times) => at <= EndOf(m, i) + AnswerGrace
           /\ at <= m.deadline + AnswerGrace
<1>1. PICK k \in Nat, last \in Nat : k = m.sectionIndex /\ last = Len(t.times) /\ k < last /\ Len(m.sectionTimes) = last
  BY TimesAre DEF SaneLocked, Inside, Metas, Clock!Runs
<1>2. t.locked /\ m.sectionTimes # <<>>
  <2>1. m.sectionTimes \in Seq(Nat) /\ Len(m.sectionTimes) # 0
    BY <1>1 DEF SaneLocked, Inside, Metas
  <2> QED
    BY <2>1 DEF Clock!Runs
<1>3. now <= m.deadline + AnswerGrace /\ m.deadline \in Nat
  <2>1. m.deadline \in Nat
    BY DEF SaneLocked, Inside, Metas
  <2> QED
    BY <2>1 DEF Clock!Saves
<1>4. at \in Nat /\ at <= m.deadline + AnswerGrace
  BY <1>3, TimeAssumption
<1>5. i = k \/ (i < k /\ at <= m.sectionEnds[i + 1] + AnswerGrace)
  BY <1>1, <1>2 DEF Clock!Saves, Clock!InGrace
<1>6. i \in 0..k
  BY <1>1, <1>5
<1>7. Began(m, i) \in Nat /\ Began(m, i) <= now /\ EndOf(m, i) \in Nat
  BY <1>1, <1>2, <1>6, SectionSane
<1>8. ASSUME i + 1 < last PROVE at <= EndOf(m, i) + AnswerGrace
  <2>1. CASE i = k
    <3>1. PICK due \in Nat : due = EndOf(m, i) /\ m.sectionDeadline = due
      BY <1>1, <1>7, <2>1 DEF SaneLocked
    <3>2. now < due
      BY <1>1, <1>8, <2>1, <3>1, NoneAssumption DEF Due, Clock!IsLast
    <3> QED
      BY <1>4, <3>1, <3>2, TimeAssumption
  <2>2. CASE i < k
    <3>1. i + 1 \in 1..k /\ (i + 1) - 1 = i /\ i + 1 \in 0..k
      BY <1>6, <2>2
    <3>2. m.sectionEnds[i + 1] <= EndOf(m, i)
      BY <1>1, <3>1 DEF SaneLocked, HadOwnTime
    <3>3. m.sectionEnds[i + 1] \in Nat
      <4>1. m.sectionEnds \in Seq(Nat) /\ Len(m.sectionEnds) = k
        BY <1>1 DEF SaneLocked, Inside, Metas
      <4> QED
        BY <3>1, <4>1
    <3> QED
      BY <1>4, <1>5, <1>7, <2>2, <3>2, <3>3, TimeAssumption
  <2> QED
    BY <1>5, <2>1, <2>2
<1> QED
  BY <1>1, <1>4, <1>6, <1>7, <1>8

LEMMA RunningExact == ClockInv /\ Clock!Runs(template) => ClockExact
<1> SUFFICES ASSUME ClockInv, Clock!Runs(template) PROVE ClockExact
  OBVIOUS
<1>1. PICK seen : seen = Looked
  OBVIOUS
<1>2. PICK t \in Templates : t = template /\ t.locked /\ Clock!Runs(t)
  BY DEF ClockInv, Clock!Runs
<1>3. CopiesLocked /\ time \in Nat
  BY TimeAssumption DEF ClockInv
<1>4. SaneLocked(t, early, time, seen)
  BY <1>1, <1>2, <1>3, LookSane DEF CopiesLocked, Looked
<1>5. ~Due(seen, time)
  BY <1>1, <1>3, LookTwice DEF CopiesLocked, SaneLocked, Looked
<1>6. PICK k \in Nat : k = seen.sectionIndex
  BY <1>4 DEF SaneLocked, Inside, Metas
<1>7. \A i \in Nat : EndOf(seen, i) = OwnEnd(i)
  BY <1>1 DEF EndOf, OwnEnd, TimeOf
<1>8. LooksLeaveNoTrace
  BY <1>3 DEF LooksLeaveNoTrace, Looked, CopiesLocked, SameLook
<1>9. OwnTime
  <2>1. SUFFICES ASSUME NEW section \in 0..(k - 1)
                 PROVE  LET ended == seen.sectionEnds[section + 1]
                        IN  IF section \in early THEN Began(seen, section) <= ended /\ ended <= OwnEnd(section)
                            ELSE ended = OwnEnd(section)
    BY <1>1, <1>6 DEF OwnTime
  <2>2. section + 1 \in 1..k /\ (section + 1) - 1 = section /\ section \in Nat
    OBVIOUS
  <2>3. EndOf(seen, section) = OwnEnd(section)
    BY <1>7, <2>2
  <2> QED
    BY <1>4, <1>6, <2>2, <2>3 DEF SaneLocked, HadOwnTime
<1>10. WithinTime
  <2>1. SUFFICES ASSUME NEW section \in 0..(Len(t.times) - 1), NEW at \in 0..time,
                        Clock!Saves(seen, section, at, time)
                 PROVE  section <= seen.sectionIndex /\ Began(seen, section) <= time /\ at <= LastMoment(section) + AnswerGrace
    BY <1>1, <1>2 DEF WithinTime
  <2>2. /\ section <= seen.sectionIndex /\ Began(seen, section) <= time
        /\ section + 1 < Len(t.times) => at <= EndOf(seen, section) + AnswerGrace
        /\ at <= seen.deadline + AnswerGrace
    BY <1>2, <1>3, <1>4, <1>5, <2>1, SavedInTime
  <2>3. EndOf(seen, section) = OwnEnd(section)
    BY <1>7
  <2>4. LastMoment(section) = IF section + 1 < Len(t.times) THEN EndOf(seen, section) ELSE seen.deadline
    BY <1>1, <1>2, <2>3 DEF LastMoment
  <2> QED
    BY <2>2, <2>4
<1>11. WholeTime
  <2>1. SUFFICES ASSUME Clock!CheckTemplate(t), NEW section \in 0..(Len(t.times) - 1), section <= k
                 PROVE  OwnEnd(section) = Began(seen, section) + t.times[section + 1]
    BY <1>1, <1>2, <1>6 DEF WholeTime
  <2>2. section \in 0..seen.sectionIndex /\ section \in Nat
    BY <1>6, <2>1
  <2>3. Valid(t)
    BY <1>2, <2>1 DEF Valid
  <2>4. HasWhole(t, seen, section)
    BY <1>2, <1>3, <1>4, <2>2, <2>3, SectionSane
  <2> QED
    BY <1>7, <2>2, <2>4 DEF HasWhole
<1> QED
  BY <1>8, <1>9, <1>10, <1>11 DEF ClockExact

\* For every stored template, whether or not it passes its own check, any number of requests and
\* any length of the test: the clock of locked sections is exact (advanceSection, canSaveAnswer,
\* ownMeta, next-section), however the late writes of the requests that only looked arrive.
THEOREM ClockExactInvariant == ClockSpec => []ClockExact
<1>1. ClockInv /\ [ClockNext]_clockVars => ClockInv'
  <2>1. ClockInv /\ UNCHANGED clockVars => ClockInv'
    BY DEF ClockInv, CopiesLocked, CopiesOpen, SameLook, clockVars
  <2> QED
    BY <2>1, TickInv, LookInv, WriteInv, SubmitSectionInv DEF ClockNext
<1>2. ClockInv => ClockExact
  BY OpenExact, RunningExact
<1> QED
  BY <1>1, <1>2, ClockInitInv, PTL DEF ClockSpec
=============================================================================
