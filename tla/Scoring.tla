------------------------------ MODULE Scoring ------------------------------
(***************************************************************************)
(* Scoring of one test's attempts: the "score" and "rescore" queues of the *)
(* worker (apps/worker/src/jobs/attempts.ts), scoring in                   *)
(* packages/core/src/attemptStore.ts, the rank set in Redis                *)
(* (packages/core/src/ranks.ts) and the admin's answer-key change          *)
(* (apps/api/src/routes/admin/tests.ts).                                   *)
(*                                                                         *)
(* Every command to MongoDB or Redis is a step of its own.  BullMQ is      *)
(* external: it gives a job to a worker, retries it when it throws, and    *)
(* gives it to another worker, once, when its lock was not renewed; the    *)
(* first worker may have died, or may be slow and still go on.  Each worker*)
(* process runs one rescore at a time; several processes run several.      *)
(*                                                                         *)
(* Data abstraction: a score is the version of the answer key it was       *)
(* computed with, 0 for none.  A change of several questions counts as a   *)
(* new version at its last save: what was scored with half of it is old.   *)
(* The 60-second caches of benchmarks are left out.                        *)
(***************************************************************************)
EXTENDS Naturals, FiniteSets

CONSTANTS
    Attempts,    \* the attempts of the test
    First,       \* the ranked ones: a student's first, not practice
    Earlier,     \* those scored before
    Workers,     \* slots of the "score" worker
    Rescorers,   \* worker processes, each with one slot of the "rescore" worker
    MaxKey,      \* bound: versions of the answer key
    MaxRescores, \* bound: "rescore" jobs waiting
    MaxErrors    \* bound: commands that fail and processes that die

ASSUME AttemptsAssumption == First \subseteq Attempts /\ Earlier \subseteq Attempts
ASSUME BoundsAssumption ==
    MaxKey \in Nat \ {0} /\ MaxRescores \in Nat /\ MaxErrors \in Nat

VARIABLES
    key,       \* the answer key's version in MongoDB
    status,    \* each attempt's status
    result,    \* its result
    scoredAt,  \* its claim: scoredAt while still "submitted"
    ranks,     \* the rank set: the score of each member, 0 when absent
    job,       \* external: the state of each attempt's "score" job
    proc,      \* the score processor's runs
    admin,     \* how far the admin's answer-key or rescore request got
    rescores,  \* external: the "rescore" jobs waiting
    rescore,   \* the rescore processor's runs
    page,      \* a result page that found its attempt missing from the ranks
    errors     \* how many errors there were

attempts == <<status, result, scoredAt>>
scoring == <<job, proc>>
rescoring == <<rescores, rescore>>
vars == <<key, attempts, ranks, scoring, admin, rescoring, page, errors>>

Versions == 0..MaxKey
Scores == [Attempts -> Versions]
Nobody == "nobody"    \* holds no job
NoJob == [state |-> "none", owner |-> Nobody, tries |-> 0, stalled |-> FALSE]
OldJob == [NoJob EXCEPT !.state = "completed"]
Job == [state: {"none", "waiting", "active", "completed", "failed"},
        owner: Workers \cup {Nobody}, tries: Nat, stalled: BOOLEAN]
Idle == [at |-> "idle"]
Run == [at: {"claim", "read"}, a: Attempts]
         \cup [at: {"write", "rank"}, a: Attempts, saw: Versions]

NoRescore == [at |-> "idle", tries |-> 0, stalled |-> FALSE]
Rescore ==
    [at: {"idle", "start"}, tries: 0..2, stalled: BOOLEAN]
      \cup [at: {"scan"}, tries: 0..2, stalled: BOOLEAN, todo: SUBSET Attempts, seen: SUBSET Attempts]
      \cup [at: {"write"}, tries: 0..2, stalled: BOOLEAN, todo: SUBSET Attempts,
            seen: SUBSET Attempts, a: Attempts, saw: Versions]
      \cup [at: {"ranks"}, tries: 0..2, stalled: BOOLEAN, found: Scores]

Page == {Idle} \cup [at: {"find"}, a: Attempts] \cup [at: {"ranks"}, found: Scores]

Init ==
    /\ key = 1
    /\ status = [a \in Attempts |-> IF a \in Earlier THEN "scored" ELSE "in_progress"]
    /\ result = [a \in Attempts |-> IF a \in Earlier THEN 1 ELSE 0]
    /\ scoredAt = [a \in Attempts |-> IF a \in Earlier THEN "fresh" ELSE "none"]
    /\ ranks = [a \in Attempts |-> IF a \in First \cap Earlier THEN 1 ELSE 0]
    /\ job = [a \in Attempts |-> IF a \in Earlier THEN OldJob ELSE NoJob]
    /\ proc = [w \in Workers |-> Idle]
    /\ admin = "idle"
    /\ rescores = 0
    /\ rescore = [r \in Rescorers |-> NoRescore]
    /\ page = Idle
    /\ errors = 0

Error == errors < MaxErrors /\ errors' = errors + 1

-----------------------------------------------------------------------------
(***************************************************************************)
(* Submission, and the "score" queue.                                      *)
(***************************************************************************)

\* submitAttempt, detailed in AttemptStore.
SubmitAttempt(a) ==
    /\ status[a] = "in_progress"
    /\ status' = [status EXCEPT ![a] = "submitted"]
    /\ UNCHANGED <<key, result, scoredAt, ranks, scoring, admin, rescoring, page, errors>>

\* The job id is the attempt's: a second job is not added.
EnqueueScore(a) ==
    /\ status[a] # "in_progress"
    /\ job[a] = NoJob
    /\ job' = [job EXCEPT ![a].state = "waiting"]
    /\ UNCHANGED <<key, attempts, ranks, proc, admin, rescoring, page, errors>>

TakeJob(w, a) ==
    /\ proc[w] = Idle
    /\ job[a].state = "waiting"
    /\ job' = [job EXCEPT ![a].state = "active", ![a].owner = w]
    /\ proc' = [proc EXCEPT ![w] = [at |-> "claim", a |-> a]]
    /\ UNCHANGED <<key, attempts, ranks, admin, rescoring, page, errors>>

\* The worker that lost the job's lock cannot end the job.
EndJob(w, a) ==
    /\ proc' = [proc EXCEPT ![w] = Idle]
    /\ job' = IF job[a].owner = w
              THEN [job EXCEPT ![a].state = "completed", ![a].owner = Nobody] ELSE job

\* BullMQ finds that the lock of an active job was not renewed, by a dead worker or a slow one.
Owned(a) == \E w \in Workers : job[a].owner = w /\ proc[w] # Idle /\ proc[w].a = a
StallJob(a) ==
    /\ job[a].state = "active"
    /\ IF Owned(a) THEN Error ELSE UNCHANGED errors
    /\ job' = [job EXCEPT ![a].state = IF job[a].stalled THEN "failed" ELSE "waiting",
                          ![a].owner = Nobody, ![a].stalled = TRUE]
    /\ UNCHANGED <<key, attempts, ranks, proc, admin, rescoring, page>>

\* A command fails and the processor throws: "attempts: 3".
ProcThrows(w) ==
    /\ proc[w] # Idle
    /\ Error
    /\ LET a == proc[w].a IN
       job' = IF job[a].owner # w THEN job
              ELSE [job EXCEPT ![a].state = IF job[a].tries < 2 THEN "waiting" ELSE "failed",
                               ![a].owner = Nobody, ![a].tries = job[a].tries + 1]
    /\ proc' = [proc EXCEPT ![w] = Idle]
    /\ UNCHANGED <<key, attempts, ranks, admin, rescoring, page>>

ProcDies(w) ==
    /\ proc[w] # Idle
    /\ Error
    /\ proc' = [proc EXCEPT ![w] = Idle]
    /\ UNCHANGED <<key, attempts, ranks, job, admin, rescoring, page>>

-----------------------------------------------------------------------------
(***************************************************************************)
(* scoreSubmittedAttempt.                                                  *)
(***************************************************************************)

\* The filter of the claim.
ClaimAny(a) == status[a] = "submitted"
Claimable(a) == status[a] = "submitted" /\ scoredAt[a] # "fresh"

ClaimAttempt(w) ==
    /\ proc[w].at = "claim"
    /\ LET a == proc[w].a IN
       IF Claimable(a)
       THEN /\ scoredAt' = [scoredAt EXCEPT ![a] = "fresh"]
            /\ proc' = [proc EXCEPT ![w].at = "read"]
            /\ UNCHANGED job
       ELSE UNCHANGED scoredAt /\ EndJob(w, a)
    /\ UNCHANGED <<key, status, result, ranks, admin, rescoring, page, errors>>

\* scoreOne reads the questions, scores the answers, and stores the result unconditionally.
ReadKey(w) ==
    /\ proc[w].at = "read"
    /\ proc' = [proc EXCEPT ![w] = [at |-> "write", a |-> proc[w].a, saw |-> key]]
    /\ UNCHANGED <<key, attempts, ranks, job, admin, rescoring, page, errors>>

StoreScore(a, score) ==
    /\ status' = [status EXCEPT ![a] = "scored"]
    /\ result' = [result EXCEPT ![a] = score]
    /\ scoredAt' = [scoredAt EXCEPT ![a] = "fresh"]

WriteScore(w) ==
    /\ proc[w].at = "write"
    /\ StoreScore(proc[w].a, proc[w].saw)
    /\ IF proc[w].a \in First
       THEN proc' = [proc EXCEPT ![w].at = "rank"] /\ UNCHANGED job
       ELSE EndJob(w, proc[w].a)
    /\ UNCHANGED <<key, ranks, admin, rescoring, page, errors>>

NewRank(a, score) == score

AddToRanks(w) ==
    /\ proc[w].at = "rank"
    /\ ranks' = [ranks EXCEPT ![proc[w].a] = NewRank(proc[w].a, proc[w].saw)]
    /\ EndJob(w, proc[w].a)
    /\ UNCHANGED <<key, attempts, admin, rescoring, page, errors>>

\* Five minutes pass; a run takes less.
IsScoring(w, a) == proc[w].at \in {"read", "write"} /\ proc[w].a = a
ClaimAges(a) ==
    /\ status[a] = "submitted" /\ scoredAt[a] = "fresh"
    /\ \A w \in Workers : ~IsScoring(w, a)
    /\ scoredAt' = [scoredAt EXCEPT ![a] = "old"]
    /\ UNCHANGED <<key, status, result, ranks, scoring, admin, rescoring, page, errors>>

-----------------------------------------------------------------------------
(***************************************************************************)
(* PUT /api/admin/tests/:id/answer-key and POST .../rescore.               *)
(***************************************************************************)

\* rescoreTest and the admin's count look at submitted and scored attempts.
Taken == {a \in Attempts : status[a] \in {"submitted", "scored"}}

ChangeKey ==
    /\ admin \in {"idle", "cut"}
    /\ key < MaxKey
    /\ key' = key + 1
    /\ admin' = "count"
    /\ UNCHANGED <<attempts, ranks, scoring, rescoring, page, errors>>

AskRescore ==
    /\ admin \in {"idle", "cut"}
    /\ admin' = "count"
    /\ UNCHANGED <<key, attempts, ranks, scoring, rescoring, page, errors>>

CountAttempts ==
    /\ admin = "count"
    /\ admin' = IF Taken = {} THEN "idle" ELSE "enqueue"
    /\ UNCHANGED <<key, attempts, ranks, scoring, rescoring, page, errors>>

\* "A fresh job each time: a second key change while one runs must re-score again."
WithOneJob == IF \E r \in Rescorers : rescore[r].at # "idle" THEN rescores ELSE 1
WithFreshJob == rescores + 1

EnqueueRescore ==
    /\ admin = "enqueue"
    /\ rescores < MaxRescores
    /\ rescores' = WithFreshJob
    /\ admin' = "idle"
    /\ UNCHANGED <<key, attempts, ranks, scoring, rescore, page, errors>>

\* The request dies, or a command of it fails.
AdminDies ==
    /\ admin \in {"count", "enqueue"}
    /\ Error
    /\ admin' = "cut"
    /\ UNCHANGED <<key, attempts, ranks, scoring, rescoring, page>>

-----------------------------------------------------------------------------
(***************************************************************************)
(* rescoreTest and rebuildRanks.                                           *)
(***************************************************************************)

TakeRescore(r) ==
    /\ rescore[r].at = "idle"
    /\ rescores > 0
    /\ rescores' = rescores - 1
    /\ rescore' = [rescore EXCEPT ![r] = [at |-> "start", tries |-> 0, stalled |-> FALSE]]
    /\ UNCHANGED <<key, attempts, ranks, scoring, admin, page, errors>>

OpenCursor(r) ==
    /\ rescore[r].at = "start"
    /\ rescore' = [rescore EXCEPT ![r] =
                      [at |-> "scan", tries |-> @.tries, stalled |-> @.stalled, todo |-> Taken, seen |-> {}]]
    /\ UNCHANGED <<key, attempts, ranks, scoring, admin, rescores, page, errors>>

\* The cursor gives every attempt it matched when it was opened, and perhaps later ones.
RescoreRead(r, a) ==
    /\ rescore[r].at = "scan"
    /\ a \in Taken \ rescore[r].seen
    /\ rescore' = [rescore EXCEPT ![r] =
                      [at |-> "write", tries |-> @.tries, stalled |-> @.stalled,
                       todo |-> @.todo, seen |-> @.seen, a |-> a, saw |-> key]]
    /\ UNCHANGED <<key, attempts, ranks, scoring, admin, rescores, page, errors>>

RescoreWrite(r) ==
    /\ rescore[r].at = "write"
    /\ StoreScore(rescore[r].a, rescore[r].saw)
    /\ rescore' = [rescore EXCEPT ![r] =
                      [at |-> "scan", tries |-> @.tries, stalled |-> @.stalled,
                       todo |-> @.todo, seen |-> @.seen \cup {@.a}]]
    /\ UNCHANGED <<key, ranks, scoring, admin, rescores, page, errors>>

\* rankedFilter, and the scores rebuildRanks finds with it.
AllScored == {a \in Attempts : status[a] = "scored"}
Ranked == {a \in First : status[a] = "scored"}
FoundScores == [a \in Attempts |-> IF a \in Ranked THEN result[a] ELSE 0]

RescoreFindRanked(r) ==
    /\ rescore[r].at = "scan"
    /\ rescore[r].todo \subseteq rescore[r].seen
    /\ rescore' = [rescore EXCEPT ![r] =
                      [at |-> "ranks", tries |-> @.tries, stalled |-> @.stalled, found |-> FoundScores]]
    /\ UNCHANGED <<key, attempts, ranks, scoring, admin, rescores, page, errors>>

RescoreRanks(r) ==
    /\ rescore[r].at = "ranks"
    /\ ranks' = rescore[r].found
    /\ rescore' = [rescore EXCEPT ![r] = NoRescore]
    /\ UNCHANGED <<key, attempts, scoring, admin, rescores, page, errors>>

\* The job throws and is retried from the start, or its worker dies and it is given out again.
RescoreThrows(r) ==
    /\ rescore[r].at # "idle"
    /\ Error
    /\ rescore' = [rescore EXCEPT ![r] =
                      IF @.tries < 2 THEN [at |-> "start", tries |-> @.tries + 1, stalled |-> @.stalled]
                      ELSE NoRescore]
    /\ UNCHANGED <<key, attempts, ranks, scoring, admin, rescores, page>>

RescoreDies(r) ==
    /\ rescore[r].at # "idle"
    /\ Error
    /\ rescore' = [rescore EXCEPT ![r] =
                      IF @.stalled THEN NoRescore
                      ELSE [at |-> "start", tries |-> @.tries, stalled |-> TRUE]]
    /\ UNCHANGED <<key, attempts, ranks, scoring, admin, rescores, page>>

-----------------------------------------------------------------------------
(***************************************************************************)
(* getRank, of the result page of a scored first attempt.                  *)
(***************************************************************************)

MissRank(a) ==
    /\ page = Idle
    /\ a \in Ranked
    /\ ranks[a] = 0
    /\ page' = [at |-> "find", a |-> a]
    /\ UNCHANGED <<key, attempts, ranks, scoring, admin, rescoring, errors>>

FindRanked ==
    /\ page.at = "find"
    /\ page' = [at |-> "ranks", found |-> FoundScores]
    /\ UNCHANGED <<key, attempts, ranks, scoring, admin, rescoring, errors>>

RebuildRanks ==
    /\ page.at = "ranks"
    /\ ranks' = page.found
    /\ page' = Idle
    /\ UNCHANGED <<key, attempts, scoring, admin, rescoring, errors>>

\* Redis evicts the set or is restarted without it.
LoseRanks ==
    /\ Error
    /\ ranks' = [a \in Attempts |-> 0]
    /\ UNCHANGED <<key, attempts, scoring, admin, rescoring, page>>

ProcStep(w) == ClaimAttempt(w) \/ ReadKey(w) \/ WriteScore(w) \/ AddToRanks(w)
RescoreStep(r) ==
    \/ OpenCursor(r) \/ RescoreWrite(r) \/ RescoreFindRanked(r) \/ RescoreRanks(r)
    \/ \E a \in Attempts : RescoreRead(r, a)

Next ==
    \/ \E a \in Attempts :
         SubmitAttempt(a) \/ EnqueueScore(a) \/ StallJob(a) \/ ClaimAges(a) \/ MissRank(a)
    \/ \E w \in Workers, a \in Attempts : TakeJob(w, a)
    \/ \E w \in Workers : ProcStep(w) \/ ProcThrows(w) \/ ProcDies(w)
    \/ ChangeKey \/ AskRescore \/ CountAttempts \/ EnqueueRescore \/ AdminDies
    \/ \E r \in Rescorers : TakeRescore(r) \/ RescoreStep(r) \/ RescoreThrows(r) \/ RescoreDies(r)
    \/ FindRanked \/ RebuildRanks \/ LoseRanks

Spec == Init /\ [][Next]_vars

(***************************************************************************)
(* BullMQ gives every waiting job to a worker and recovers a dead worker's *)
(* job; a run, and an admin's request, goes on.                            *)
(***************************************************************************)
Fairness ==
    /\ WF_vars(\E w \in Workers, a \in Attempts : TakeJob(w, a))
    /\ \A w \in Workers : WF_vars(ProcStep(w))
    /\ \A a \in Attempts : WF_vars(~Owned(a) /\ StallJob(a))
    /\ WF_vars(CountAttempts \/ EnqueueRescore)
    /\ WF_vars(\E r \in Rescorers : TakeRescore(r))
    /\ \A r \in Rescorers : WF_vars(RescoreStep(r))

FairSpec == Spec /\ Fairness

-----------------------------------------------------------------------------
(***************************************************************************)
(* Properties.                                                             *)
(***************************************************************************)

\* Every variable has its type.
TypeOK ==
    /\ key \in 1..MaxKey
    /\ status \in [Attempts -> {"in_progress", "submitted", "scored"}]
    /\ result \in Scores
    /\ scoredAt \in [Attempts -> {"none", "fresh", "old"}]
    /\ ranks \in Scores
    /\ job \in [Attempts -> Job]
    /\ proc \in [Workers -> {Idle} \cup Run]
    /\ admin \in {"idle", "count", "enqueue", "cut"}
    /\ rescores \in 0..MaxRescores
    /\ rescore \in [Rescorers -> Rescore]
    /\ page \in Page
    /\ errors \in 0..MaxErrors

\* "Two workers never score it twice": with a job delivered again while its first run goes on,
\* at most one run is between the claim and the result.
OneScorer ==
    \A a \in Attempts, w1, w2 \in Workers : IsScoring(w1, a) /\ IsScoring(w2, a) => w1 = w2

\* Only scored first attempts are ranked, whichever of the score job, the rescore job and a
\* result page wrote the set last.
OnlyFirstRanked ==
    \A a \in Attempts : ranks[a] # 0 => a \in First /\ status[a] = "scored"

\* "Re-score every attempt": a corrected key reaches every result that stood when the admin counted
\* them and stays there, whatever rescore ran at that moment; a request that died promised nothing.
\* Of two processes' rescores at once the one that read the old key may be the last to write.
Resting(a) == status[a] = "scored" /\ \A w \in Workers : ~IsScoring(w, a)
KeyReachesResults ==
    \A a \in Attempts, k \in 2..MaxKey :
        (admin = "count" /\ key = k /\ Resting(a)) ~> ([](result[a] >= k) \/ admin = "cut")

\* "The worker scores submitted attempts": a queued attempt is scored in the end.
EventuallyScored ==
    \A a \in Attempts : (job[a].state = "waiting") ~> (status[a] = "scored")

\* "Re-score every attempt": when every job is done, every result is of the current key.
Settled ==
    /\ admin = "idle" /\ rescores = 0 /\ \A r \in Rescorers : rescore[r].at = "idle"
    /\ \A w \in Workers : proc[w] = Idle
ResultsCurrent ==
    Settled => \A a \in Attempts : status[a] = "scored" => result[a] = key
=============================================================================
