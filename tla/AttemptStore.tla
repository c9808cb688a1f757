---------------------------- MODULE AttemptStore ----------------------------
(***************************************************************************)
(* The live answer store of one attempt (packages/core/src/attemptStore.ts,*)
(* apps/api/src/routes/attempts.ts, apps/worker/src/jobs/attempts.ts).     *)
(*                                                                         *)
(* While an attempt runs, its answers live in a Redis hash; the worker     *)
(* copies them to MongoDB, and submitting moves them there for good.  API  *)
(* requests and the worker's housekeeping job are processes.  One step is  *)
(* one command to Redis or MongoDB (a MULTI is one command), or a decision *)
(* of the code between two commands; everything else interleaves.          *)
(*                                                                         *)
(* Data abstractions: an answer is its client timestamp `at`; the meta is  *)
(* its status and section index.  Section timers are abstracted: a load    *)
(* may find any number of further sections timed out.                      *)
(***************************************************************************)
EXTENDS Naturals, FiniteSets

CONSTANTS
    Questions,    \* the questions of the paper
    MaxAt,        \* client timestamps are 1 .. MaxAt
    LastSection,  \* index of the last section; 0 when sections switch freely
    SectionOf,    \* the section of each question
    Requests,     \* API requests of the student, each used once
    Starter,      \* the POST /api/attempts that created the attempt
    Workers,      \* worker processes running the housekeeping job
    Tabs,         \* how many requests the student has in flight at once
    Unreliable,   \* processes that may die, or have a command fail, half way
    RedisLoses    \* TRUE when Redis may evict the hash or restart empty

ASSUME MaxAtAssumption == MaxAt \in Nat
ASSUME SectionAssumption ==
    /\ LastSection \in Nat
    /\ SectionOf \in [Questions -> 0..LastSection]
ASSUME ProcessAssumption ==
    /\ Requests \cap Workers = {}
    /\ Starter \notin Requests \cup Workers
    /\ RedisLoses \in BOOLEAN

VARIABLES
    attempt,   \* the MongoDB document: status, section index, answers
    hash,      \* the Redis hash attempt:{id}: "meta" and the "a:" fields
    dirty,     \* whether the id is in the Redis set attempts:dirty
    over,      \* TRUE once now > deadline + ANSWER_GRACE_MS
    enqueued,  \* how many times the score job was added
    proc,      \* the state of every process
    saved      \* history: the newest timestamp mergeAnswers ever stored, by question

vars == <<attempt, hash, dirty, over, enqueued, proc, saved>>

Clients == Requests \cup {Starter}
Procs == Clients \cup Workers

Sections == 0..LastSection
Answers == [Questions -> 0..MaxAt]        \* 0: no answer stored
Nothing == [q \in Questions |-> 0]

Status == {"in_progress", "submitted"}
Meta == [status: Status \cup {"absent"}, section: Sections]
NoMeta == [status |-> "absent", section |-> 0]
NoHash == [meta |-> NoMeta, ans |-> Nothing]

Kinds == {"none", "open", "save", "next", "submit"}
Steps == {"new", "gone", "idle", "startMeta", "hget", "find", "refill", "writeBack",
          "own", "guard", "hmget", "hset", "collect", "update", "del", "enqueue",
          "flushMeta", "flushRead", "flushWrite", "overdue"}

Process == [
    pc: Steps,
    kind: Kinds,        \* the endpoint a request calls
    sub: BOOLEAN,       \* inside submitAttempt
    meta: Meta,         \* the meta this process read
    batch: Answers,     \* the answers it is to store
    read: Answers,      \* the answers it read
    owed: Answers,      \* history: saved, when it read them
    won: BOOLEAN,       \* its updateOne modified the document
    late: BOOLEAN]      \* history: it arrived after the submission was complete

Fresh == [pc |-> "new", kind |-> "none", sub |-> FALSE, meta |-> NoMeta,
          batch |-> Nothing, read |-> Nothing, owed |-> Nothing, won |-> FALSE,
          late |-> FALSE]

\* A request is answered; a worker goes back to its loop.
Finished(p) == [Fresh EXCEPT !.pc = IF p \in Workers THEN "idle" ELSE "gone"]

InFlight == {p \in Clients : proc[p].pc \notin {"new", "gone"}}

Becomes(p, r) == proc' = [proc EXCEPT ![p] = r]

At(p, step) == proc[p].pc = step

\* The attempt is submitted and its hash was dropped.
Closed == attempt.status = "submitted" /\ \A p \in Procs : ~At(p, "del")

\* The document as startAttempt created it; its meta is not in Redis yet.
Init ==
    /\ attempt = [status |-> "in_progress", section |-> 0, answers |-> Nothing]
    /\ hash = NoHash
    /\ dirty = FALSE
    /\ over = FALSE
    /\ enqueued = 0
    /\ proc = [p \in Procs |->
                 CASE p = Starter -> [Fresh EXCEPT !.pc = "startMeta",
                                        !.meta = [status |-> "in_progress", section |-> 0]]
                   [] p \in Workers -> Finished(p)
                   [] OTHER -> Fresh]
    /\ saved = Nothing

-----------------------------------------------------------------------------
(***************************************************************************)
(* Helpers of attemptStore.ts.                                             *)
(***************************************************************************)

\* The filter { _id, status: "in_progress" } of flushAttempt's updateOne ...
NoFlushFilter == TRUE
FlushFilter == attempt.status = "in_progress"

\* ... and of submitAttempt's.
SubmitFilter == attempt.status = "in_progress"

\* overdueAttemptIds asks MongoDB, never Redis.
OverdueInRedis == hash.meta.status = "in_progress" /\ over
Overdue == attempt.status = "in_progress" /\ over

\* finishSection: the last section has no next one.
FinishSection(m) ==
    IF m.section < LastSection THEN [m EXCEPT !.section = m.section + 1] ELSE m

\* Answers b laid over answers a, field by field (HSET).
ReplaceAll(b, a) == b
Overlay(b, a) == [q \in Questions |-> IF b[q] # 0 THEN b[q] ELSE a[q]]

\* The HSET of new answers comes with an SADD to attempts:dirty.
DirtyOnlyBefore == dirty
DirtyAfterSave == TRUE

\* mergeAnswers keeps the entries at least as new as the stored ones.
KeepAll(b, stored) == b
Newer(b, stored) == [q \in Questions |-> IF b[q] >= stored[q] THEN b[q] ELSE 0]

\* canSaveAnswer: the current section's questions pass and a later section's do not; whether
\* an answer to a finished section is in time depends on when it was made: either may be so.
Accepted(m, b) ==
    {[q \in Questions |-> IF q \in ok THEN b[q] ELSE 0] :
        ok \in {s \in SUBSET Questions : \A q \in Questions :
                  /\ SectionOf[q] = m.section => q \in s
                  /\ SectionOf[q] > m.section => q \notin s}}

\* What a process does with the meta loadMeta returned: submitAttempt gives up on an attempt
\* that is not in progress, and otherwise merges its final answers, if any, before reading.
Loaded(p, m) ==
    LET r == [proc[p] EXCEPT !.meta = m, !.read = Nothing] IN
    IF ~r.sub THEN [r EXCEPT !.pc = "own"]
    ELSE IF m.status # "in_progress" THEN Finished(p)
    ELSE [r EXCEPT !.pc = IF r.batch = Nothing THEN "collect" ELSE "hmget"]

\* mergeAnswers returned: a save is answered, a submission goes on to read the answers.
Merged(p) ==
    IF proc[p].sub THEN [proc[p] EXCEPT !.pc = "collect", !.batch = Nothing]
    ELSE Finished(p)

-----------------------------------------------------------------------------
(***************************************************************************)
(* loadMeta: the meta from Redis, rebuilt from MongoDB when missing.       *)
(***************************************************************************)

HgetMeta(p) ==
    /\ At(p, "hget")
    /\ Becomes(p, IF hash.meta # NoMeta THEN Loaded(p, hash.meta)
                  ELSE [proc[p] EXCEPT !.pc = "find"])
    /\ UNCHANGED <<attempt, hash, dirty, over, enqueued, saved>>

FindAttempt(p) ==
    /\ At(p, "find")
    /\ LET m == [status |-> attempt.status, section |-> attempt.section] IN
       Becomes(p, IF m.status # "in_progress" THEN Loaded(p, m)
                  ELSE [proc[p] EXCEPT !.meta = m, !.read = attempt.answers,
                          !.pc = IF attempt.answers = Nothing THEN "writeBack" ELSE "refill"])
    /\ UNCHANGED <<attempt, hash, dirty, over, enqueued, saved>>

RefillAnswers(p) ==
    /\ At(p, "refill")
    /\ hash' = [hash EXCEPT !.ans = Overlay(proc[p].read, hash.ans)]
    /\ Becomes(p, [proc[p] EXCEPT !.pc = "writeBack"])
    /\ UNCHANGED <<attempt, dirty, over, enqueued, saved>>

WriteBackMeta(p) ==
    /\ At(p, "writeBack")
    /\ hash' = [hash EXCEPT !.meta = proc[p].meta]
    /\ Becomes(p, Loaded(p, proc[p].meta))
    /\ UNCHANGED <<attempt, dirty, over, enqueued, saved>>

-----------------------------------------------------------------------------
(***************************************************************************)
(* The API's requests (routes/attempts.ts).                                *)
(***************************************************************************)

\* startAttempt, after the document was created: write the meta, send the paper.
StartAttempt(p) ==
    /\ At(p, "startMeta")
    /\ hash' = [hash EXCEPT !.meta = proc[p].meta]
    /\ Becomes(p, Finished(p))
    /\ UNCHANGED <<attempt, dirty, over, enqueued, saved>>

\* A request arrives.  "open" is GET /:id, and POST / when it resumes.  The batch is what
\* remains after mergeAnswers kept the newest entry of each question in it.
Begin(p) ==
    /\ p \in Requests
    /\ At(p, "new")
    /\ Cardinality(InFlight) < Tabs
    /\ \E kind \in Kinds \ {"none"}, b \in Answers :
         /\ kind \in {"open", "next"} => b = Nothing
         /\ kind = "save" => b # Nothing
         /\ Becomes(p, [Fresh EXCEPT !.pc = "hget", !.kind = kind, !.batch = b,
                            !.late = Closed])
    /\ UNCHANGED <<attempt, hash, dirty, over, enqueued, saved>>

\* ownMeta: sections whose timers ran out are left behind, and the meta is written if so.
OwnMeta(p) ==
    /\ At(p, "own")
    /\ \E s \in proc[p].meta.section..LastSection :
         LET m == [proc[p].meta EXCEPT !.section = s] IN
         /\ m # proc[p].meta => m.status = "in_progress"
         /\ hash' = IF m # proc[p].meta THEN [hash EXCEPT !.meta = m] ELSE hash
         /\ Becomes(p, [proc[p] EXCEPT !.pc = "guard", !.meta = m])
    /\ UNCHANGED <<attempt, dirty, over, enqueued, saved>>

\* PATCH /:id/answers: refused once submitted or out of time; answers for locked sections
\* are dropped.
SaveAnswers(p) ==
    /\ At(p, "guard")
    /\ proc[p].kind = "save"
    /\ LET refused == proc[p].meta.status # "in_progress" \/ over IN
       \E b \in Accepted(proc[p].meta, proc[p].batch) :
         Becomes(p, IF refused \/ b = Nothing THEN Finished(p)
                    ELSE [proc[p] EXCEPT !.pc = "hmget", !.batch = b])
    /\ UNCHANGED <<attempt, hash, dirty, over, enqueued, saved>>

\* POST /:id/next-section: finishSection and writeMeta, or 409.
NextSection(p) ==
    /\ At(p, "guard")
    /\ proc[p].kind = "next"
    /\ LET m == proc[p].meta
           next == FinishSection(m)
       IN hash' = IF m.status = "in_progress" /\ next # m THEN [hash EXCEPT !.meta = next]
                  ELSE hash
    /\ Becomes(p, Finished(p))
    /\ UNCHANGED <<attempt, dirty, over, enqueued, saved>>

\* POST /:id/submit calls submitAttempt with the final answers, which count only in time.
SubmitRequest(p) ==
    /\ At(p, "guard")
    /\ proc[p].kind = "submit"
    /\ \E b \in Accepted(proc[p].meta, proc[p].batch) :
         Becomes(p, IF proc[p].meta.status # "in_progress" THEN Finished(p)
                    ELSE [proc[p] EXCEPT !.pc = "hget", !.sub = TRUE, !.meta = NoMeta,
                            !.batch = IF over THEN Nothing ELSE b])
    /\ UNCHANGED <<attempt, hash, dirty, over, enqueued, saved>>

\* expireIfOverdue: a visit after the grace submits on the student's behalf.
OpenAttempt(p) ==
    /\ At(p, "guard")
    /\ proc[p].kind = "open"
    /\ Becomes(p, IF proc[p].meta.status # "in_progress" \/ ~over THEN Finished(p)
                  ELSE [proc[p] EXCEPT !.pc = "hget", !.sub = TRUE, !.meta = NoMeta])
    /\ UNCHANGED <<attempt, hash, dirty, over, enqueued, saved>>

-----------------------------------------------------------------------------
(***************************************************************************)
(* mergeAnswers: HMGET, compare, then HSET and SADD in one MULTI.          *)
(***************************************************************************)

ReadStored(p) ==
    /\ At(p, "hmget")
    /\ LET fields == Newer(proc[p].batch, hash.ans) IN
       Becomes(p, IF fields = Nothing THEN Merged(p)
                  ELSE [proc[p] EXCEPT !.pc = "hset", !.batch = fields])
    /\ UNCHANGED <<attempt, hash, dirty, over, enqueued, saved>>

StoreAnswers(p) ==
    /\ At(p, "hset")
    /\ hash' = [hash EXCEPT !.ans = Overlay(proc[p].batch, hash.ans)]
    /\ dirty' = DirtyAfterSave
    /\ saved' = [q \in Questions |-> IF proc[p].batch[q] > saved[q]
                                     THEN proc[p].batch[q] ELSE saved[q]]
    /\ Becomes(p, Merged(p))
    /\ UNCHANGED <<attempt, over, enqueued>>

-----------------------------------------------------------------------------
(***************************************************************************)
(* submitAttempt from readAnswers on, and the caller's enqueueScore.       *)
(***************************************************************************)

CollectAnswers(p) ==
    /\ At(p, "collect")
    /\ Becomes(p, [proc[p] EXCEPT !.pc = "update", !.read = hash.ans, !.owed = saved])
    /\ UNCHANGED <<attempt, hash, dirty, over, enqueued, saved>>

MarkSubmitted(p) ==
    /\ At(p, "update")
    /\ attempt' = IF SubmitFilter
                  THEN [status |-> "submitted", section |-> proc[p].meta.section,
                        answers |-> proc[p].read]
                  ELSE attempt
    /\ Becomes(p, [proc[p] EXCEPT !.pc = "del", !.won = SubmitFilter])
    /\ UNCHANGED <<hash, dirty, over, enqueued, saved>>

\* DEL and SREM in one MULTI; only the submission that modified the document reports success.
DropHash(p) ==
    /\ At(p, "del")
    /\ hash' = NoHash
    /\ dirty' = FALSE
    /\ Becomes(p, IF proc[p].won THEN [proc[p] EXCEPT !.pc = "enqueue"] ELSE Finished(p))
    /\ UNCHANGED <<attempt, over, enqueued, saved>>

EnqueueScore(p) ==
    /\ At(p, "enqueue")
    /\ enqueued' = enqueued + 1
    /\ Becomes(p, Finished(p))
    /\ UNCHANGED <<attempt, hash, dirty, over, saved>>

-----------------------------------------------------------------------------
(***************************************************************************)
(* The worker's housekeeping job: flushDirtyAttempts, then the attempts    *)
(* whose time is up.                                                       *)
(***************************************************************************)

PopDirty(p) ==
    /\ At(p, "idle")
    /\ dirty' = FALSE
    /\ Becomes(p, [proc[p] EXCEPT !.pc = IF dirty THEN "flushMeta" ELSE "overdue"])
    /\ UNCHANGED <<attempt, hash, over, enqueued, saved>>

\* flushAttempt returns when there is no meta; the flush loop then pops again.
FlushReadMeta(p) ==
    /\ At(p, "flushMeta")
    /\ Becomes(p, IF hash.meta = NoMeta THEN Finished(p)
                  ELSE [proc[p] EXCEPT !.pc = "flushRead", !.meta = hash.meta])
    /\ UNCHANGED <<attempt, hash, dirty, over, enqueued, saved>>

FlushReadAnswers(p) ==
    /\ At(p, "flushRead")
    /\ Becomes(p, [proc[p] EXCEPT !.pc = "flushWrite", !.read = hash.ans])
    /\ UNCHANGED <<attempt, hash, dirty, over, enqueued, saved>>

FlushWrite(p) ==
    /\ At(p, "flushWrite")
    /\ attempt' = IF FlushFilter
                  THEN [attempt EXCEPT !.answers = proc[p].read,
                                       !.section = proc[p].meta.section]
                  ELSE attempt
    /\ Becomes(p, Finished(p))
    /\ UNCHANGED <<hash, dirty, over, enqueued, saved>>

\* overdueAttemptIds, and submitAttempt(id, "timeout") for what it finds.
FindOverdue(p) ==
    /\ At(p, "overdue")
    /\ Becomes(p, IF Overdue THEN [proc[p] EXCEPT !.pc = "hget", !.sub = TRUE]
                  ELSE Finished(p))
    /\ UNCHANGED <<attempt, hash, dirty, over, enqueued, saved>>

-----------------------------------------------------------------------------
(***************************************************************************)
(* The environment.                                                        *)
(***************************************************************************)

\* A test lasts minutes: its time is not up while the request that started it still runs.
TimeIsUp ==
    /\ ~over
    /\ ~At(Starter, "startMeta")
    /\ over' = TRUE
    /\ UNCHANGED <<attempt, hash, dirty, enqueued, proc, saved>>

\* Redis evicts the hash, or restarts and loses the dirty set too.
RedisLosesHash ==
    /\ RedisLoses
    /\ hash' = NoHash
    /\ \E d \in {dirty, FALSE} : dirty' = d
    /\ UNCHANGED <<attempt, over, enqueued, proc, saved>>

\* A process dies, or a command of it fails and the error ends the handler.
Fail(p) ==
    /\ p \in Unreliable
    /\ proc[p].pc \notin {"new", "gone", "idle"}
    /\ Becomes(p, Finished(p))
    /\ UNCHANGED <<attempt, hash, dirty, over, enqueued, saved>>

LoadStep(p) == HgetMeta(p) \/ FindAttempt(p) \/ RefillAnswers(p) \/ WriteBackMeta(p)
MergeStep(p) == ReadStored(p) \/ StoreAnswers(p)
SubmitStep(p) == CollectAnswers(p) \/ MarkSubmitted(p) \/ DropHash(p) \/ EnqueueScore(p)
RequestStep(p) ==
    \/ StartAttempt(p) \/ OwnMeta(p) \/ SaveAnswers(p) \/ NextSection(p)
    \/ SubmitRequest(p) \/ OpenAttempt(p)
WorkerStep(p) ==
    \/ PopDirty(p) \/ FlushReadMeta(p) \/ FlushReadAnswers(p) \/ FlushWrite(p)
    \/ FindOverdue(p)

Step(p) == LoadStep(p) \/ MergeStep(p) \/ SubmitStep(p) \/ RequestStep(p) \/ WorkerStep(p)

Next ==
    \/ \E p \in Procs : Begin(p) \/ Step(p) \/ Fail(p)
    \/ TimeIsUp
    \/ RedisLosesHash

Spec == Init /\ [][Next]_vars

(***************************************************************************)
(* The clock runs, an event loop that is waiting for a reply gets it and   *)
(* goes on, and BullMQ starts the housekeeping job again every 30 s.       *)
(***************************************************************************)
Fairness == WF_vars(TimeIsUp) /\ \A p \in Procs : WF_vars(Step(p))

FairSpec == Spec /\ Fairness

-----------------------------------------------------------------------------
(***************************************************************************)
(* Properties.                                                             *)
(***************************************************************************)

\* Every variable has its type.
TypeOK ==
    /\ attempt \in [status: Status, section: Sections, answers: Answers]
    /\ hash \in [meta: Meta, ans: Answers]
    /\ dirty \in BOOLEAN
    /\ over \in BOOLEAN
    /\ enqueued \in Nat
    /\ proc \in [Procs -> Process]
    /\ saved \in Answers

Lifecycle == INSTANCE AttemptLifecycle
    WITH status <- attempt.status, answers <- attempt.answers, queued <- enqueued

\* Whatever flushes, submits, refills and crashes overlap, the document behaves like
\* AttemptLifecycle: no write reaches it once submitted, and one score job is added at most.
ImplementsLifecycle == Lifecycle!Spec

\* The inductive core of that: only one process ever sees its updateOne modify the document,
\* and only after that can the job be added.
Winners == {p \in Procs : proc[p].won}
OneWinner ==
    /\ \A p \in Procs : proc[p].won => proc[p].pc \in {"del", "enqueue"} /\ enqueued = 0
    /\ \A p \in Procs : At(p, "enqueue") => proc[p].won
    /\ \A p, r \in Winners : p = r
    /\ enqueued \in {0, 1}
    /\ attempt.status = "in_progress" => enqueued = 0 /\ Winners = {}

\* "The latest change (client timestamp `at`) wins" (README.md:306): a stored answer is never
\* replaced by an older one; only dropping the whole hash removes it.
NewestWins == [][hash' = NoHash \/ \A q \in Questions : hash'.ans[q] >= hash.ans[q]]_hash

\* A student who was moved on to a later section is never put back into an earlier one: every
\* meta in Redis is of a section at least as late as those before it.  An eviction breaks it, as
\* writeMeta does not mark the attempt dirty.
SectionForward ==
    \A s \in Sections :
        [](hash.meta # NoMeta /\ hash.meta.section = s => [](hash.meta # NoMeta => hash.meta.section >= s))

\* The submission that counts records every answer that was stored before it read them.
Wins(p) == ~proc[p].won /\ proc'[p].won
SubmitKeepsSaved ==
    [][\A p \in Procs : Wins(p) =>
         \A q \in Questions : attempt'.answers[q] >= proc[p].owed[q]]_vars

\* An attempt that is not marked dirty, and that no worker is flushing, has all its answers
\* in MongoDB: no save slips between the worker's SPOP, its reads and its update.
Flushing == \E w \in Workers : proc[w].pc \in {"flushMeta", "flushRead", "flushWrite"}
CleanMeansFlushed ==
    attempt.status = "in_progress" /\ ~dirty /\ ~Flushing
        => attempt.answers = hash.ans

\* Students who closed the tab: once the time is over, the attempt gets submitted.
AutoSubmitted == over ~> attempt.status = "submitted"

\* A submitted attempt is handed to scoring.
SubmittedIsQueued == (attempt.status = "submitted") ~> (enqueued = 1)

\* Saving is refused (409) once the attempt is submitted: a save that arrives after the
\* submission dropped the hash never gets as far as mergeAnswers.
RefusedAfterSubmit ==
    \A p \in Requests : proc[p].kind = "save" /\ proc[p].late => ~At(p, "hmget")
=============================================================================
