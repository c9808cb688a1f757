--------------------------- MODULE ScoringProofs ---------------------------
(***************************************************************************)
(* Theorems about Scoring, for any attempts, workers, key changes,         *)
(* rescores and errors, and about the marks of one question (ScoringRules) *)
(* for any key, marking and answers.                                       *)
(***************************************************************************)
EXTENDS Scoring, ScoringRules, FiniteSetTheorems, SequenceTheorems, WellFoundedInduction, TLAPS

-----------------------------------------------------------------------------
(***************************************************************************)
(* Type correctness.                                                       *)
(***************************************************************************)

LEMMA ScoresTypes ==
    ASSUME TypeOK
    PROVE  FoundScores \in Scores /\ [a \in Attempts |-> 0] \in Scores
BY BoundsAssumption DEF TypeOK, Scores, Versions, FoundScores

LEMMA IdleNoRun == Idle.at = "idle" /\ Idle \notin Run
BY DEF Idle, Run

LEMMA JobTypes ==
    /\ NoJob \in Job /\ OldJob \in Job
    /\ \A r \in Job, o \in Workers \cup {Nobody},
          s \in {"none", "waiting", "active", "completed", "failed"} :
         /\ [r EXCEPT !.state = s] \in Job
         /\ [r EXCEPT !.state = s, !.owner = o] \in Job
         /\ [r EXCEPT !.state = s, !.owner = o, !.stalled = TRUE] \in Job
         /\ [r EXCEPT !.state = s, !.owner = o, !.tries = r.tries + 1] \in Job
<1>1. NoJob \in Job
  BY DEF NoJob, Job
<1>2. OldJob \in Job
  BY DEF NoJob, OldJob, Job
<1>3. ASSUME NEW r \in Job, NEW o \in Workers \cup {Nobody},
             NEW s \in {"none", "waiting", "active", "completed", "failed"}
      PROVE  [r EXCEPT !.state = s] \in Job
  BY DEF Job
<1>4. ASSUME NEW r \in Job, NEW o \in Workers \cup {Nobody},
             NEW s \in {"none", "waiting", "active", "completed", "failed"}
      PROVE  [r EXCEPT !.state = s, !.owner = o] \in Job
  BY DEF Job
<1>5. ASSUME NEW r \in Job, NEW o \in Workers \cup {Nobody},
             NEW s \in {"none", "waiting", "active", "completed", "failed"}
      PROVE  [r EXCEPT !.state = s, !.owner = o, !.stalled = TRUE] \in Job
  BY DEF Job
<1>6. ASSUME NEW r \in Job, NEW o \in Workers \cup {Nobody},
             NEW s \in {"none", "waiting", "active", "completed", "failed"}
      PROVE  [r EXCEPT !.state = s, !.owner = o, !.tries = r.tries + 1] \in Job
  <2>1. r.tries + 1 \in Nat
    BY DEF Job
  <2>2. ASSUME NEW n \in Nat
        PROVE  [r EXCEPT !.state = s, !.owner = o, !.tries = n] \in Job
    BY DEF Job
  <2> QED
    BY <2>1, <2>2
<1> QED
  BY <1>1, <1>2, <1>3, <1>4, <1>5, <1>6

LEMMA ErrorType == ASSUME TypeOK, Error PROVE errors' \in 0..MaxErrors
BY BoundsAssumption DEF TypeOK, Error

LEMMA InitType == Init => TypeOK
<1> SUFFICES ASSUME Init PROVE TypeOK
  OBVIOUS
<1>1. job \in [Attempts -> Job]
  BY JobTypes DEF Init
<1>2. NoRescore \in Rescore
  BY DEF NoRescore, Rescore
<1>3. result \in Scores /\ ranks \in Scores
  BY BoundsAssumption DEF Init, Scores, Versions
<1> QED
  BY <1>1, <1>2, <1>3, BoundsAssumption DEF Init, TypeOK, Page

\* A worker that ends its job leaves jobs and workers well typed.
LEMMA EndJobType ==
    ASSUME TypeOK, NEW w \in Workers, NEW a \in Attempts, EndJob(w, a)
    PROVE  job' \in [Attempts -> Job] /\ proc' \in [Workers -> {Idle} \cup Run]
<1>1. job \in [Attempts -> Job] /\ proc \in [Workers -> {Idle} \cup Run]
  BY DEF TypeOK
<1> QED
  BY <1>1, JobTypes DEF EndJob

LEMMA RunTypes ==
    ASSUME TypeOK, NEW w \in Workers, proc[w] # Idle
    PROVE  /\ proc[w] \in Run /\ proc[w].a \in Attempts
           /\ proc[w].at \in {"write", "rank"} => proc[w].saw \in Versions
BY DEF TypeOK, Run

LEMMA ProcStepType ==
    ASSUME TypeOK, NEW w \in Workers, ProcStep(w)
    PROVE  TypeOK'
<1> DEFINE a == proc[w].a
<1>1. proc[w] # Idle
  BY IdleNoRun DEF ProcStep, ClaimAttempt, ReadKey, WriteScore, AddToRanks
<1>2. a \in Attempts /\ proc[w] \in Run
  BY <1>1, RunTypes
<1>3. CASE ClaimAttempt(w)
  <2>1. CASE Claimable(a)
    <3>1. scoredAt' = [scoredAt EXCEPT ![a] = "fresh"] /\ UNCHANGED job
      BY <1>3, <2>1 DEF ClaimAttempt
    <3>2. proc' = [proc EXCEPT ![w].at = "read"]
      BY <1>3, <2>1 DEF ClaimAttempt
    <3>3. [proc[w] EXCEPT !.at = "read"] \in Run
      BY <1>2, <1>3 DEF Run, ClaimAttempt
    <3>4. proc' \in [Workers -> {Idle} \cup Run]
      BY <3>2, <3>3 DEF TypeOK
    <3> QED
      BY <1>2, <1>3, <3>1, <3>4 DEF TypeOK, ClaimAttempt, rescoring
  <2>2. CASE ~Claimable(a)
    <3>1. EndJob(w, a) /\ UNCHANGED scoredAt
      BY <1>3, <2>2 DEF ClaimAttempt
    <3> QED
      BY <1>2, <1>3, <3>1, EndJobType DEF TypeOK, ClaimAttempt, rescoring
  <2> QED
    BY <2>1, <2>2
<1>4. CASE ReadKey(w)
  <2>1. [at |-> "write", a |-> a, saw |-> key] \in Run
    BY <1>2 DEF Run, TypeOK, Versions
  <2>2. proc' \in [Workers -> {Idle} \cup Run]
    BY <1>4, <2>1 DEF TypeOK, ReadKey
  <2> QED
    BY <1>4, <2>2 DEF TypeOK, ReadKey, attempts, rescoring
<1>5. CASE WriteScore(w)
  <2>1. proc[w].saw \in Versions
    BY <1>1, <1>5, RunTypes DEF WriteScore
  <2>2. /\ status' \in [Attempts -> {"in_progress", "submitted", "scored"}]
        /\ result' \in Scores
        /\ scoredAt' \in [Attempts -> {"none", "fresh", "old"}]
    BY <1>2, <1>5, <2>1 DEF TypeOK, WriteScore, StoreScore, Scores
  <2>3. [proc[w] EXCEPT !.at = "rank"] \in Run
    BY <1>2, <1>5 DEF Run, WriteScore
  <2>4. job' \in [Attempts -> Job] /\ proc' \in [Workers -> {Idle} \cup Run]
    BY <1>2, <1>5, <2>3, EndJobType DEF TypeOK, WriteScore
  <2> QED
    BY <1>5, <2>2, <2>4 DEF TypeOK, WriteScore, rescoring
<1>6. CASE AddToRanks(w)
  <2>1. proc[w].saw \in Versions
    BY <1>1, <1>6, RunTypes DEF AddToRanks
  <2>2. ranks' \in Scores
    BY <1>2, <1>6, <2>1 DEF TypeOK, AddToRanks, NewRank, Scores
  <2> QED
    BY <1>2, <1>6, <2>2, EndJobType DEF TypeOK, AddToRanks, attempts, rescoring
<1> QED
  BY <1>3, <1>4, <1>5, <1>6 DEF ProcStep

\* BullMQ's steps.
LEMMA QueueStepType ==
    ASSUME TypeOK,
           \/ \E w \in Workers, a \in Attempts : TakeJob(w, a)
           \/ \E a \in Attempts : EnqueueScore(a) \/ StallJob(a)
           \/ \E w \in Workers : ProcThrows(w) \/ ProcDies(w)
    PROVE  TypeOK'
<1>1. ASSUME NEW w \in Workers, NEW a \in Attempts, TakeJob(w, a)
      PROVE  TypeOK'
  <2>1. job \in [Attempts -> Job] /\ proc \in [Workers -> {Idle} \cup Run]
    BY DEF TypeOK
  <2>2. [at |-> "claim", a |-> a] \in Run
    BY DEF Run
  <2>3. job' \in [Attempts -> Job] /\ proc' \in [Workers -> {Idle} \cup Run]
    BY <1>1, <2>1, <2>2, JobTypes DEF TakeJob
  <2> QED
    BY <1>1, <2>3 DEF TypeOK, TakeJob, attempts, rescoring
<1>2. ASSUME NEW a \in Attempts, EnqueueScore(a)
      PROVE  TypeOK'
  <2>1. job' \in [Attempts -> Job]
    BY <1>2, JobTypes DEF TypeOK, EnqueueScore
  <2> QED
    BY <1>2, <2>1 DEF TypeOK, EnqueueScore, attempts, rescoring
<1>3. ASSUME NEW a \in Attempts, StallJob(a)
      PROVE  TypeOK'
  <2>1. job \in [Attempts -> Job]
    BY DEF TypeOK
  <2>2. job' \in [Attempts -> Job]
    <3> DEFINE s == IF job[a].stalled THEN "failed" ELSE "waiting"
    <3>1. s \in {"failed", "waiting"}
      OBVIOUS
    <3>2. [job[a] EXCEPT !.state = s, !.owner = Nobody, !.stalled = TRUE] \in Job
      BY <2>1, <3>1, JobTypes
    <3> QED
      BY <1>3, <2>1, <3>2 DEF StallJob
  <2>3. errors' \in 0..MaxErrors
    <3>1. errors' = errors \/ Error
      BY <1>3 DEF StallJob
    <3> QED
      BY <3>1, ErrorType DEF TypeOK
  <2> QED
    BY <1>3, <2>2, <2>3 DEF TypeOK, StallJob, attempts, rescoring
<1>4. ASSUME NEW w \in Workers, ProcThrows(w)
      PROVE  TypeOK'
  <2> DEFINE a == proc[w].a
  <2>1. a \in Attempts
    BY <1>4, RunTypes DEF ProcThrows
  <2>2. job' \in [Attempts -> Job]
    <3> DEFINE s == IF job[a].tries < 2 THEN "waiting" ELSE "failed"
    <3>1. job \in [Attempts -> Job] /\ s \in {"failed", "waiting"}
      BY DEF TypeOK
    <3>2. [job[a] EXCEPT !.state = s, !.owner = Nobody, !.tries = job[a].tries + 1] \in Job
      BY <2>1, <3>1, JobTypes
    <3> QED
      BY <1>4, <3>1, <3>2 DEF ProcThrows
  <2>3. errors' \in 0..MaxErrors /\ proc' \in [Workers -> {Idle} \cup Run]
    BY <1>4, ErrorType DEF TypeOK, ProcThrows
  <2> QED
    BY <1>4, <2>2, <2>3 DEF TypeOK, ProcThrows, attempts, rescoring
<1>5. ASSUME NEW w \in Workers, ProcDies(w)
      PROVE  TypeOK'
  BY <1>5, ErrorType DEF TypeOK, ProcDies, attempts, rescoring
<1> QED
  BY <1>1, <1>2, <1>3, <1>4, <1>5

\* The admin's requests, and the rescore jobs.
LEMMA RescoreTypes ==
    ASSUME TypeOK, NEW r \in Rescorers, rescore[r].at # "idle"
    PROVE  /\ rescore[r].tries \in 0..2 /\ rescore[r].stalled \in BOOLEAN
           /\ rescore[r].at \in {"scan", "write"} =>
                rescore[r].todo \subseteq Attempts /\ rescore[r].seen \subseteq Attempts
           /\ rescore[r].at = "write" => rescore[r].a \in Attempts /\ rescore[r].saw \in Versions
           /\ rescore[r].at = "ranks" => rescore[r].found \in Scores
<1>1. PICK x \in Rescore : x = rescore[r]
  BY DEF TypeOK
<1>2. /\ x.tries \in 0..2 /\ x.stalled \in BOOLEAN
      /\ x.at \in {"scan", "write"} => x.todo \subseteq Attempts /\ x.seen \subseteq Attempts
      /\ x.at = "write" => x.a \in Attempts /\ x.saw \in Versions
      /\ x.at = "ranks" => x.found \in Scores
  BY <1>1 DEF Rescore
<1> QED
  BY <1>1, <1>2

LEMMA AdminStepType ==
    ASSUME TypeOK, ChangeKey \/ AskRescore \/ CountAttempts \/ EnqueueRescore \/ AdminDies
    PROVE  TypeOK'
<1>1. CASE ChangeKey
  BY <1>1, BoundsAssumption DEF TypeOK, ChangeKey, attempts, scoring, rescoring
<1>2. CASE AskRescore
  BY <1>2 DEF TypeOK, AskRescore, attempts, scoring, rescoring
<1>3. CASE CountAttempts
  BY <1>3 DEF TypeOK, CountAttempts, attempts, scoring, rescoring
<1>4. CASE EnqueueRescore
  BY <1>4, BoundsAssumption DEF TypeOK, EnqueueRescore, WithFreshJob, attempts, scoring
<1>5. CASE AdminDies
  BY <1>5, ErrorType DEF TypeOK, AdminDies, attempts, scoring, rescoring
<1> QED
  BY <1>1, <1>2, <1>3, <1>4, <1>5

Puts(r, x) == rescore' = [rescore EXCEPT ![r] = x]
RescoreActs(r) == TakeRescore(r) \/ RescoreStep(r) \/ RescoreThrows(r) \/ RescoreDies(r)
LEMMA PutType ==
    ASSUME TypeOK, NEW r \in Rescorers, NEW x \in Rescore, Puts(r, x)
    PROVE  rescore' \in [Rescorers -> Rescore]
BY DEF TypeOK, Puts

Started(tries, stalled) == [at |-> "start", tries |-> tries, stalled |-> stalled]
LEMMA StartType ==
    ASSUME NEW tries \in 0..2, NEW stalled \in BOOLEAN
    PROVE  Started(tries, stalled) \in Rescore /\ NoRescore \in Rescore
BY DEF Started, NoRescore, Rescore

LEMMA RescoreStepType ==
    ASSUME TypeOK, NEW r \in Rescorers, RescoreActs(r)
    PROVE  TypeOK'
<1>1. CASE TakeRescore(r)
  <2>1. PICK x \in Rescore : Puts(r, x)
    <3>1. Puts(r, Started(0, FALSE))
      BY <1>1 DEF TakeRescore, Puts, Started
    <3>2. 0 \in 0..2 /\ FALSE \in BOOLEAN
      OBVIOUS
    <3> QED
      BY <3>1, <3>2, StartType
  <2>2. rescores' \in 0..MaxRescores
    BY <1>1, BoundsAssumption DEF TakeRescore, TypeOK
  <2> QED
    BY <1>1, <2>1, <2>2, PutType DEF TypeOK, TakeRescore, attempts, scoring
<1>2. CASE OpenCursor(r)
  <2>1. PICK x \in Rescore : Puts(r, x)
    BY <1>2, RescoreTypes DEF OpenCursor, Rescore, Taken, Puts
  <2> QED
    BY <1>2, <2>1, PutType DEF TypeOK, OpenCursor, attempts, scoring
<1>3. ASSUME NEW a \in Attempts, RescoreRead(r, a)
      PROVE  TypeOK'
  <2>1. key \in Versions
    BY DEF TypeOK, Versions
  <2>2. PICK x \in Rescore : Puts(r, x)
    BY <1>3, <2>1, RescoreTypes DEF RescoreRead, Rescore, Puts
  <2> QED
    BY <1>3, <2>2, PutType DEF TypeOK, RescoreRead, attempts, scoring
<1>4. CASE RescoreWrite(r)
  <2>1. rescore[r].a \in Attempts /\ rescore[r].saw \in Versions
    BY <1>4, RescoreTypes DEF RescoreWrite
  <2>2. PICK x \in Rescore : Puts(r, x)
    BY <1>4, RescoreTypes DEF RescoreWrite, Rescore, Puts
  <2>3. /\ status' \in [Attempts -> {"in_progress", "submitted", "scored"}]
        /\ result' \in Scores
        /\ scoredAt' \in [Attempts -> {"none", "fresh", "old"}]
    BY <1>4, <2>1 DEF TypeOK, RescoreWrite, StoreScore, Scores
  <2> QED
    BY <1>4, <2>2, <2>3, PutType DEF TypeOK, RescoreWrite, scoring
<1>5. CASE RescoreFindRanked(r)
  <2>1. PICK x \in Rescore : Puts(r, x)
    BY <1>5, RescoreTypes, ScoresTypes DEF RescoreFindRanked, Rescore, Puts
  <2> QED
    BY <1>5, <2>1, PutType DEF TypeOK, RescoreFindRanked, attempts, scoring
<1>6. CASE RescoreRanks(r)
  <2>1. PICK x \in Rescore : Puts(r, x)
    <3>1. Puts(r, NoRescore)
      BY <1>6 DEF RescoreRanks, Puts
    <3>2. 0 \in 0..2 /\ FALSE \in BOOLEAN
      OBVIOUS
    <3> QED
      BY <3>1, <3>2, StartType
  <2>2. ranks' \in Scores
    BY <1>6, RescoreTypes DEF RescoreRanks
  <2> QED
    BY <1>6, <2>1, <2>2, PutType DEF TypeOK, RescoreRanks, attempts, scoring
<1>7. CASE RescoreThrows(r)
  <2>1. PICK x \in Rescore : Puts(r, x)
    <3>1. rescore[r].tries \in 0..2 /\ rescore[r].stalled \in BOOLEAN
      BY <1>7, RescoreTypes DEF RescoreThrows
    <3>2. CASE rescore[r].tries < 2
      <4>1. Puts(r, Started(rescore[r].tries + 1, rescore[r].stalled))
        BY <1>7, <3>2 DEF RescoreThrows, Puts, Started
      <4>2. rescore[r].tries + 1 \in 0..2
        BY <3>1, <3>2
      <4> QED
        BY <3>1, <4>1, <4>2, StartType
    <3>3. CASE ~(rescore[r].tries < 2)
      <4>1. Puts(r, NoRescore)
        BY <1>7, <3>3 DEF RescoreThrows, Puts
      <4> QED
        BY <3>1, <4>1, StartType
    <3> QED
      BY <3>2, <3>3
  <2> QED
    BY <1>7, <2>1, PutType, ErrorType DEF TypeOK, RescoreThrows, attempts, scoring
<1>8. CASE RescoreDies(r)
  <2>1. PICK x \in Rescore : Puts(r, x)
    <3>1. rescore[r].tries \in 0..2 /\ rescore[r].stalled \in BOOLEAN
      BY <1>8, RescoreTypes DEF RescoreDies
    <3>2. Puts(r, NoRescore) \/ Puts(r, Started(rescore[r].tries, TRUE))
      BY <1>8 DEF RescoreDies, Puts, Started
    <3> QED
      BY <3>1, <3>2, StartType
  <2> QED
    BY <1>8, <2>1, PutType, ErrorType DEF TypeOK, RescoreDies, attempts, scoring
<1> QED
  BY <1>1, <1>2, <1>3, <1>4, <1>5, <1>6, <1>7, <1>8 DEF RescoreActs, RescoreStep

LEMMA PageStepType ==
    ASSUME TypeOK,
           \/ \E a \in Attempts : SubmitAttempt(a) \/ ClaimAges(a) \/ MissRank(a)
           \/ FindRanked \/ RebuildRanks \/ LoseRanks
    PROVE  TypeOK'
<1>1. ASSUME NEW a \in Attempts, SubmitAttempt(a)
      PROVE  TypeOK'
  BY <1>1 DEF TypeOK, SubmitAttempt, scoring, rescoring
<1>2. ASSUME NEW a \in Attempts, ClaimAges(a)
      PROVE  TypeOK'
  BY <1>2 DEF TypeOK, ClaimAges, scoring, rescoring
<1>3. ASSUME NEW a \in Attempts, MissRank(a)
      PROVE  TypeOK'
  <2>1. page' \in Page
    BY <1>3 DEF MissRank, Page
  <2> QED
    BY <1>3, <2>1 DEF TypeOK, MissRank, attempts, scoring, rescoring
<1>4. CASE RebuildRanks
  <2>1. ranks' \in Scores /\ page' \in Page
    BY <1>4 DEF TypeOK, RebuildRanks, Page, Idle
  <2> QED
    BY <1>4, <2>1 DEF TypeOK, RebuildRanks, attempts, scoring, rescoring
<1>5. CASE LoseRanks
  BY <1>5, ErrorType, ScoresTypes DEF TypeOK, LoseRanks, attempts, scoring, rescoring
<1>6. CASE FindRanked
  <2>1. page' \in Page
    BY <1>6, ScoresTypes DEF FindRanked, Page
  <2> QED
    BY <1>6, <2>1 DEF TypeOK, FindRanked, attempts, scoring, rescoring
<1> QED
  BY <1>1, <1>2, <1>3, <1>4, <1>5, <1>6

LEMMA NextType == TypeOK /\ [Next]_vars => TypeOK'
<1> SUFFICES ASSUME TypeOK, [Next]_vars
             PROVE  TypeOK'
  OBVIOUS
<1>1. CASE UNCHANGED vars
  BY <1>1 DEF TypeOK, vars, attempts, scoring, rescoring
<1> QED
  BY <1>1, ProcStepType, QueueStepType, AdminStepType, RescoreStepType, PageStepType DEF Next, RescoreActs

\* Type correctness of the scoring model.
THEOREM TypeCorrect == Spec => []TypeOK
BY InitType, NextType, PTL DEF Spec

-----------------------------------------------------------------------------
(***************************************************************************)
(* A claim keeps every other worker out.                                   *)
(***************************************************************************)

\* While a run is between its claim and its result, the claim is fresh.
Claims == \A w \in Workers, a \in Attempts : IsScoring(w, a) => scoredAt[a] = "fresh"

LEMMA InitClaims == Init => Claims /\ OneScorer
BY DEF Init, Claims, OneScorer, IsScoring, Idle

\* What a step does to claims and to the runs that hold them: nothing is claimed anew, ...
Keeps ==
    /\ \A w \in Workers, a \in Attempts : IsScoring(w, a)' => IsScoring(w, a)
    /\ \A a \in Attempts : scoredAt[a] = "fresh" => scoredAt'[a] = "fresh"

\* ... or a worker claims, or a claim ages.
Claiming(w) == ClaimAttempt(w) /\ Claimable(proc[w].a)

LEMMA IdleKeeps ==
    ASSUME TypeOK, NEW w \in Workers, NEW r, ~(r.at \in {"read", "write"}),
           proc' = [proc EXCEPT ![w] = r], scoredAt' = scoredAt
    PROVE  Keeps
<1>1. proc'[w] = r /\ \A v \in Workers \ {w} : proc'[v] = proc[v]
  BY DEF TypeOK
<1> QED
  BY <1>1 DEF Keeps, IsScoring

LEMMA StoreKeeps ==
    ASSUME TypeOK, NEW a \in Attempts, NEW score, StoreScore(a, score)
    PROVE  \A b \in Attempts : scoredAt[b] = "fresh" => scoredAt'[b] = "fresh"
BY DEF TypeOK, StoreScore

LEMMA ProcStepKeeps ==
    ASSUME TypeOK, NEW w \in Workers, ProcStep(w), ~Claiming(w)
    PROVE  Keeps
<1> DEFINE a == proc[w].a
<1>1. a \in Attempts
  BY RunTypes, IdleNoRun DEF ProcStep, ClaimAttempt, ReadKey, WriteScore, AddToRanks
<1>2. CASE ClaimAttempt(w)
  <2>1. proc' = [proc EXCEPT ![w] = Idle] /\ scoredAt' = scoredAt
    BY <1>2 DEF ClaimAttempt, Claiming, EndJob
  <2> QED
    BY <2>1, IdleKeeps, IdleNoRun
<1>3. CASE ReadKey(w)
  <2> DEFINE r == [at |-> "write", a |-> a, saw |-> key]
  <2>1. proc' = [proc EXCEPT ![w] = r] /\ scoredAt' = scoredAt
    BY <1>3 DEF ReadKey, attempts
  <2>2. proc'[w] = r /\ \A v \in Workers \ {w} : proc'[v] = proc[v]
    BY <2>1 DEF TypeOK
  <2> QED
    BY <1>3, <2>1, <2>2 DEF Keeps, IsScoring, ReadKey
<1>4. CASE WriteScore(w)
  <2>1. \A b \in Attempts : scoredAt[b] = "fresh" => scoredAt'[b] = "fresh"
    BY <1>1, <1>4, StoreKeeps DEF WriteScore
  <2>2. proc' = [proc EXCEPT ![w].at = "rank"] \/ proc' = [proc EXCEPT ![w] = Idle]
    BY <1>4 DEF WriteScore, EndJob
  <2>3. /\ ~(proc'[w].at \in {"read", "write"})
        /\ \A v \in Workers \ {w} : proc'[v] = proc[v]
    <3>1. proc[w] \in Run
      BY <1>4, RunTypes, IdleNoRun DEF WriteScore
    <3>2. [proc[w] EXCEPT !.at = "rank"].at = "rank"
      BY <3>1 DEF Run
    <3> QED
      BY <2>2, <3>2, IdleNoRun DEF TypeOK
  <2> QED
    BY <2>1, <2>3 DEF Keeps, IsScoring
<1>5. CASE AddToRanks(w)
  <2>1. proc' = [proc EXCEPT ![w] = Idle] /\ scoredAt' = scoredAt
    BY <1>5 DEF AddToRanks, EndJob, attempts
  <2> QED
    BY <2>1, IdleKeeps, IdleNoRun
<1> QED
  BY <1>2, <1>3, <1>4, <1>5 DEF ProcStep

LEMMA QueueStepKeeps ==
    ASSUME TypeOK,
           \/ \E w \in Workers, a \in Attempts : TakeJob(w, a)
           \/ \E w \in Workers : ProcThrows(w) \/ ProcDies(w)
    PROVE  Keeps
<1>1. ASSUME NEW w \in Workers, NEW a \in Attempts, TakeJob(w, a)
      PROVE  Keeps
  <2> DEFINE r == [at |-> "claim", a |-> a]
  <2>1. proc' = [proc EXCEPT ![w] = r] /\ scoredAt' = scoredAt
    BY <1>1 DEF TakeJob, attempts
  <2>2. ~(r.at \in {"read", "write"})
    OBVIOUS
  <2> HIDE DEF r
  <2> QED
    BY <2>1, <2>2, IdleKeeps
<1>2. ASSUME NEW w \in Workers, ProcThrows(w) \/ ProcDies(w)
      PROVE  Keeps
  <2>1. proc' = [proc EXCEPT ![w] = Idle] /\ scoredAt' = scoredAt
    BY <1>2 DEF ProcThrows, ProcDies, attempts
  <2> QED
    BY <2>1, IdleKeeps, IdleNoRun
<1> QED
  BY <1>1, <1>2

LEMMA RescoreWriteKeeps == ASSUME TypeOK, NEW r \in Rescorers, RescoreWrite(r) PROVE Keeps
<1>1. rescore[r].a \in Attempts /\ proc' = proc
  BY RescoreTypes DEF RescoreWrite, scoring
<1>2. \A b \in Attempts : scoredAt[b] = "fresh" => scoredAt'[b] = "fresh"
  BY <1>1, StoreKeeps DEF RescoreWrite
<1> QED
  BY <1>1, <1>2 DEF Keeps, IsScoring

\* The steps that touch neither.
LEMMA OtherKeeps == ASSUME proc' = proc, scoredAt' = scoredAt PROVE Keeps
BY DEF Keeps, IsScoring

LEMMA StepKeeps ==
    ASSUME TypeOK, [Next]_vars
    PROVE  \/ Keeps
           \/ \E w \in Workers : Claiming(w)
           \/ \E a \in Attempts : ClaimAges(a)
<1>1. CASE UNCHANGED vars
  BY <1>1, OtherKeeps DEF vars, attempts, scoring
<1>2. CASE \E a \in Attempts : SubmitAttempt(a) \/ EnqueueScore(a) \/ StallJob(a) \/ MissRank(a)
  BY <1>2, OtherKeeps DEF SubmitAttempt, EnqueueScore, StallJob, MissRank, attempts, scoring
<1>3. CASE ChangeKey \/ AskRescore \/ CountAttempts \/ EnqueueRescore \/ AdminDies
  BY <1>3, OtherKeeps DEF ChangeKey, AskRescore, CountAttempts, EnqueueRescore, AdminDies,
                          attempts, scoring
<1>4. CASE FindRanked \/ RebuildRanks \/ LoseRanks
  BY <1>4, OtherKeeps DEF FindRanked, RebuildRanks, LoseRanks, attempts, scoring
<1>5. ASSUME NEW r \in Rescorers, RescoreActs(r)
      PROVE  Keeps
  <2>1. CASE RescoreWrite(r)
    BY <2>1, RescoreWriteKeeps
  <2>2. CASE OpenCursor(r) \/ RescoreFindRanked(r) \/ RescoreRanks(r)
    BY <2>2, OtherKeeps DEF OpenCursor, RescoreFindRanked, RescoreRanks, attempts, scoring
  <2>3. CASE \E a \in Attempts : RescoreRead(r, a)
    BY <2>3, OtherKeeps DEF RescoreRead, attempts, scoring
  <2>4. CASE TakeRescore(r) \/ RescoreThrows(r) \/ RescoreDies(r)
    BY <2>4, OtherKeeps DEF TakeRescore, RescoreThrows, RescoreDies, attempts, scoring
  <2> QED
    BY <1>5, <2>1, <2>2, <2>3, <2>4 DEF RescoreActs, RescoreStep
<1>6. CASE \/ \E w \in Workers, a \in Attempts : TakeJob(w, a)
           \/ \E w \in Workers : ProcThrows(w) \/ ProcDies(w)
  BY <1>6, QueueStepKeeps
<1>7. CASE \E w \in Workers : ProcStep(w)
  BY <1>7, ProcStepKeeps
<1> QED
  BY <1>1, <1>2, <1>3, <1>4, <1>5, <1>6, <1>7 DEF Next, RescoreActs

\* No step but a claim starts to score an attempt, and none but the clock ages a claim.
LEMMA NextClaims == TypeOK /\ Claims /\ OneScorer /\ [Next]_vars => (Claims /\ OneScorer)'
<1> SUFFICES ASSUME TypeOK, Claims, OneScorer, [Next]_vars
             PROVE  (Claims /\ OneScorer)'
  OBVIOUS
<1>1. CASE Keeps
  BY <1>1 DEF Keeps, Claims, OneScorer
<1>2. ASSUME NEW w \in Workers, Claiming(w)
      PROVE  (Claims /\ OneScorer)'
  <2> DEFINE a == proc[w].a
  <2>1. a \in Attempts
    BY <1>2, RunTypes, IdleNoRun DEF Claiming, ClaimAttempt
  <2>2. /\ scoredAt' = [scoredAt EXCEPT ![a] = "fresh"]
        /\ proc' = [proc EXCEPT ![w].at = "read"]
    BY <1>2 DEF Claiming, ClaimAttempt
  <2>3. \A v \in Workers : ~IsScoring(v, a)
    BY <1>2, <2>1 DEF Claims, Claiming, Claimable
  <2>4. /\ \A v \in Workers \ {w}, b \in Attempts : IsScoring(v, b)' => IsScoring(v, b)
        /\ \A b \in Attempts : IsScoring(w, b)' => b = a
    BY <2>2 DEF TypeOK, IsScoring, Run
  <2>5. \A b \in Attempts : b = a \/ scoredAt[b] = "fresh" => scoredAt'[b] = "fresh"
    BY <2>1, <2>2 DEF TypeOK
  <2> QED
    BY <2>3, <2>4, <2>5 DEF Claims, OneScorer
<1>3. ASSUME NEW a \in Attempts, ClaimAges(a)
      PROVE  (Claims /\ OneScorer)'
  <2>1. /\ scoredAt' = [scoredAt EXCEPT ![a] = "old"] /\ proc' = proc
        /\ \A w \in Workers : ~IsScoring(w, a)
    BY <1>3 DEF ClaimAges, scoring
  <2>2. \A b \in Attempts \ {a} : scoredAt'[b] = scoredAt[b]
    BY <2>1 DEF TypeOK
  <2>3. \A w \in Workers, b \in Attempts : IsScoring(w, b)' = IsScoring(w, b)
    BY <2>1 DEF IsScoring
  <2> QED
    BY <2>1, <2>2, <2>3 DEF Claims, OneScorer
<1> QED
  BY <1>1, <1>2, <1>3, StepKeeps

\* Two workers never score an attempt at once, however often BullMQ delivers its job.
THEOREM OneScorerInvariant == Spec => []OneScorer
<1>1. Init => TypeOK /\ Claims /\ OneScorer
  BY InitType, InitClaims
<1>2. TypeOK /\ Claims /\ OneScorer /\ [Next]_vars => (TypeOK /\ Claims /\ OneScorer)'
  BY NextType, NextClaims
<1> QED
  BY <1>1, <1>2, PTL DEF Spec

-----------------------------------------------------------------------------
(***************************************************************************)
(* The ranks, and whatever is about to be written to them, hold only       *)
(* scored first attempts.                                                  *)
(***************************************************************************)

Sound(f) == \A a \in Attempts : f[a] # 0 => a \in First /\ status[a] = "scored"
RankSound(w) ==
    proc[w].at = "rank" => proc[w].a \in First /\ status[proc[w].a] = "scored"

\* The writer of the ranks may be the score job, the rescore job or a result page.
Ranks ==
    /\ Sound(ranks)
    /\ \A r \in Rescorers : rescore[r].at = "ranks" => Sound(rescore[r].found)
    /\ page.at = "ranks" => Sound(page.found)
    /\ \A w \in Workers : RankSound(w)

LEMMA InitRanks == Init => Ranks
BY DEF Init, Ranks, Sound, RankSound, NoRescore, Idle

LEMMA FoundSound == ASSUME TypeOK PROVE Sound(FoundScores)
BY DEF Sound, FoundScores, Ranked

\* A scored attempt stays scored.
Stays == \A a \in Attempts : status[a] = "scored" => status'[a] = "scored"

\* What a step writes to the ranks ...
Wrote ==
    \/ ranks' = ranks
    \/ \E r \in Rescorers : rescore[r].at = "ranks" /\ ranks' = rescore[r].found
    \/ page.at = "ranks" /\ ranks' = page.found
    \/ ranks' = [a \in Attempts |-> 0]
    \/ \E w \in Workers :
         /\ proc[w].at = "rank"
         /\ ranks' = [ranks EXCEPT ![proc[w].a] = proc[w].saw]

\* ... and what it means to write there later.
Found ==
    /\ \A r \in Rescorers :
          rescore'[r] = rescore[r] \/ rescore'[r].at # "ranks" \/ rescore'[r].found = FoundScores
    /\ page' = page \/ page'.at # "ranks" \/ page'.found = FoundScores
Meant ==
    \A v \in Workers :
        \/ proc'[v] = proc[v] \/ proc'[v].at # "rank"
        \/ proc'[v].a \in First /\ status'[proc'[v].a] = "scored"

LEMMA EffectsKeepRanks ==
    ASSUME TypeOK, Ranks, Stays, Wrote, Found, Meant
    PROVE  Ranks'
<1>1. ASSUME NEW f, Sound(f)
      PROVE  \A a \in Attempts : f[a] # 0 => a \in First /\ status'[a] = "scored"
  BY <1>1 DEF Sound, Stays
<1>2. Sound(ranks)'
  <2>1. CASE ranks' \in {ranks, [a \in Attempts |-> 0]}
    BY <1>1, <2>1 DEF Sound, Ranks
  <2>2. CASE \/ \E r \in Rescorers : rescore[r].at = "ranks" /\ ranks' = rescore[r].found
             \/ page.at = "ranks" /\ ranks' = page.found
    BY <1>1, <2>2 DEF Sound, Ranks
  <2>3. ASSUME NEW w \in Workers, proc[w].at = "rank",
               ranks' = [ranks EXCEPT ![proc[w].a] = proc[w].saw]
        PROVE  Sound(ranks)'
    <3>1. \A a \in Attempts : a # proc[w].a => ranks'[a] = ranks[a]
      BY <2>3 DEF TypeOK, Scores
    <3>2. proc[w].a \in First /\ status'[proc[w].a] = "scored"
      BY <2>3, AttemptsAssumption DEF Ranks, RankSound, Stays
    <3> QED
      BY <1>1, <3>1, <3>2 DEF Sound, Ranks
  <2> QED
    BY <2>1, <2>2, <2>3 DEF Wrote
<1>3. \A r \in Rescorers : (rescore[r].at = "ranks" => Sound(rescore[r].found))'
  BY <1>1, FoundSound DEF Found, Sound, Ranks
<1>4. (page.at = "ranks" => Sound(page.found))'
  BY <1>1, FoundSound DEF Found, Sound, Ranks, Idle
<1>5. \A v \in Workers : RankSound(v)'
  BY AttemptsAssumption DEF Meant, Stays, Ranks, RankSound
<1> QED
  BY <1>2, <1>3, <1>4, <1>5 DEF Ranks

LEMMA StoreStays ==
    ASSUME TypeOK, NEW a \in Attempts, NEW score, StoreScore(a, score)
    PROVE  Stays /\ status'[a] = "scored"
BY DEF TypeOK, StoreScore, Stays

\* The score job: it ranks an attempt it has just scored, and only a first one.
LEMMA ProcStepEffects ==
    ASSUME TypeOK, NEW w \in Workers, ProcStep(w)
    PROVE  Stays /\ Wrote /\ Found /\ Meant
<1> DEFINE a == proc[w].a
<1>1. a \in Attempts /\ proc[w] \in Run
  BY RunTypes, IdleNoRun DEF ProcStep, ClaimAttempt, ReadKey, WriteScore, AddToRanks
<1>2. UNCHANGED rescoring /\ UNCHANGED page
  BY DEF ProcStep, ClaimAttempt, ReadKey, WriteScore, AddToRanks
<1>3. Found
  BY <1>2 DEF Found, rescoring
<1>4. Wrote
  BY DEF Wrote, ProcStep, ClaimAttempt, ReadKey, WriteScore, AddToRanks, NewRank
<1>5. CASE WriteScore(w)
  <2>1. Stays /\ status'[a] = "scored"
    BY <1>1, <1>5, StoreStays DEF WriteScore
  <2>2. CASE a \in First
    <3>1. proc' = [proc EXCEPT ![w].at = "rank"]
      BY <1>5, <2>2 DEF WriteScore
    <3>2. proc'[w].a = a /\ \A v \in Workers \ {w} : proc'[v] = proc[v]
      BY <1>1, <3>1 DEF TypeOK, Run
    <3> QED
      BY <1>3, <1>4, <2>1, <2>2, <3>2 DEF Meant
  <2>3. CASE a \notin First
    <3>1. proc' = [proc EXCEPT ![w] = Idle]
      BY <1>5, <2>3 DEF WriteScore, EndJob
    <3> QED
      BY <1>3, <1>4, <2>1, <3>1, IdleNoRun DEF TypeOK, Meant
  <2> QED
    BY <2>2, <2>3
<1>6. CASE ClaimAttempt(w) \/ ReadKey(w) \/ AddToRanks(w)
  <2>1. Stays
    BY <1>6 DEF Stays, ClaimAttempt, ReadKey, AddToRanks, attempts
  <2>2. PICK r : r.at # "rank" /\ proc' = [proc EXCEPT ![w] = r]
    <3>1. CASE ClaimAttempt(w) /\ Claimable(a)
      <4>1. [proc[w] EXCEPT !.at = "read"].at # "rank"
        BY <1>1 DEF Run
      <4> QED
        BY <3>1, <4>1 DEF ClaimAttempt
    <3>2. CASE (ClaimAttempt(w) /\ ~Claimable(a)) \/ AddToRanks(w)
      BY <3>2, IdleNoRun DEF ClaimAttempt, AddToRanks, EndJob
    <3>3. CASE ReadKey(w)
      BY <3>3 DEF ReadKey
    <3> QED
      BY <1>6, <3>1, <3>2, <3>3
  <2>3. Meant
    BY <2>2 DEF TypeOK, Meant
  <2> QED
    BY <1>3, <1>4, <2>1, <2>3
<1> QED
  BY <1>5, <1>6 DEF ProcStep

LEMMA QueueStepEffects ==
    ASSUME TypeOK,
           \/ \E w \in Workers, a \in Attempts : TakeJob(w, a)
           \/ \E w \in Workers : ProcThrows(w) \/ ProcDies(w)
    PROVE  Stays /\ Wrote /\ Found /\ Meant
<1>1. status' = status /\ ranks' = ranks /\ rescore' = rescore /\ page' = page
  BY DEF TakeJob, ProcThrows, ProcDies, attempts, rescoring
<1>2. PICK w \in Workers : \E r : r.at # "rank" /\ proc' = [proc EXCEPT ![w] = r]
  <2>1. CASE \E w \in Workers, a \in Attempts : TakeJob(w, a)
    BY <2>1 DEF TakeJob
  <2>2. CASE \E w \in Workers : ProcThrows(w) \/ ProcDies(w)
    BY <2>2, IdleNoRun DEF ProcThrows, ProcDies
  <2> QED
    BY <2>1, <2>2
<1>3. Meant
  BY <1>2 DEF TypeOK, Meant
<1> QED
  BY <1>1, <1>3 DEF Stays, Wrote, Found

LEMMA RescoreStepEffects ==
    ASSUME TypeOK, NEW r \in Rescorers, RescoreActs(r)
    PROVE  Stays /\ Wrote /\ Found /\ Meant
<1> USE DEF RescoreActs
<1>1. proc' = proc /\ page' = page
  BY DEF TakeRescore, RescoreStep, RescoreThrows, RescoreDies, OpenCursor, RescoreRead,
         RescoreWrite, RescoreFindRanked, RescoreRanks, scoring
<1>2. Stays
  <2>1. CASE RescoreWrite(r)
    <3>1. rescore[r].a \in Attempts
      BY <2>1, RescoreTypes DEF RescoreWrite
    <3> QED
      BY <2>1, <3>1, StoreStays DEF RescoreWrite
  <2>2. CASE ~RescoreWrite(r)
    <3>1. status' = status
      BY <2>2 DEF TakeRescore, RescoreStep, RescoreThrows, RescoreDies, OpenCursor, RescoreRead,
                  RescoreFindRanked, RescoreRanks, attempts
    <3> QED
      BY <3>1 DEF Stays
  <2> QED
    BY <2>1, <2>2
<1>3. Wrote
  <2>1. CASE RescoreRanks(r)
    BY <2>1 DEF Wrote, RescoreRanks
  <2>2. CASE ~RescoreRanks(r)
    <3>1. ranks' = ranks
      BY <2>2 DEF TakeRescore, RescoreStep, RescoreThrows, RescoreDies, OpenCursor, RescoreRead,
                  RescoreWrite, RescoreFindRanked
    <3> QED
      BY <3>1 DEF Wrote
  <2> QED
    BY <2>1, <2>2
<1>4. PICK x : Puts(r, x) /\ (x.at # "ranks" \/ x.found = FoundScores)
  <2>1. CASE RescoreStep(r)
    <3> DEFINE old == rescore[r]
               Seen(todo, seen) == [at |-> "scan", tries |-> old.tries, stalled |-> old.stalled, todo |-> todo, seen |-> seen]
    <3>1. CASE OpenCursor(r)
      <4>1. Puts(r, Seen(Taken, {}))
        BY <3>1 DEF OpenCursor, Puts
      <4> QED
        BY <4>1
    <3>2. ASSUME NEW a \in Attempts, RescoreRead(r, a)
          PROVE  \E x : Puts(r, x) /\ x.at # "ranks"
      <4>1. Puts(r, [at |-> "write", tries |-> old.tries, stalled |-> old.stalled,
                     todo |-> old.todo, seen |-> old.seen, a |-> a, saw |-> key])
        BY <3>2 DEF RescoreRead, Puts
      <4> QED
        BY <4>1
    <3>3. CASE RescoreWrite(r)
      <4>1. Puts(r, Seen(old.todo, old.seen \cup {old.a}))
        BY <3>3 DEF RescoreWrite, Puts
      <4> QED
        BY <4>1
    <3>4. CASE RescoreFindRanked(r)
      <4>1. Puts(r, [at |-> "ranks", tries |-> old.tries, stalled |-> old.stalled, found |-> FoundScores])
        BY <3>4 DEF RescoreFindRanked, Puts
      <4> QED
        BY <4>1
    <3>5. CASE RescoreRanks(r)
      <4>1. Puts(r, NoRescore) /\ NoRescore.at # "ranks"
        BY <3>5 DEF RescoreRanks, NoRescore, Puts
      <4> QED
        BY <4>1
    <3> QED
      BY <2>1, <3>1, <3>2, <3>3, <3>4, <3>5 DEF RescoreStep
  <2>2. CASE TakeRescore(r)
    <3>1. Puts(r, Started(0, FALSE)) /\ Started(0, FALSE).at # "ranks"
      BY <2>2 DEF TakeRescore, Puts, Started
    <3> QED
      BY <3>1
  <2>3. CASE RescoreThrows(r) \/ RescoreDies(r)
    <3>1. PICK tries, stalled : Puts(r, NoRescore) \/ Puts(r, Started(tries, stalled))
      BY <2>3 DEF RescoreThrows, RescoreDies, Puts, Started
    <3>2. NoRescore.at # "ranks" /\ Started(tries, stalled).at # "ranks"
      BY DEF NoRescore, Started
    <3> QED
      BY <3>1, <3>2
  <2> QED
    BY <2>1, <2>2, <2>3
<1>5. Found
  BY <1>1, <1>4 DEF TypeOK, Found, Puts
<1> QED
  BY <1>1, <1>2, <1>3, <1>5 DEF Meant

LEMMA OtherEffects ==
    ASSUME TypeOK,
           \/ \E a \in Attempts :
                \/ SubmitAttempt(a) \/ EnqueueScore(a) \/ StallJob(a)
                \/ ClaimAges(a) \/ MissRank(a)
           \/ ChangeKey \/ AskRescore \/ CountAttempts \/ EnqueueRescore \/ AdminDies
           \/ FindRanked \/ RebuildRanks \/ LoseRanks
    PROVE  Stays /\ Wrote /\ Found /\ Meant
<1>1. proc' = proc /\ rescore' = rescore
  BY DEF SubmitAttempt, EnqueueScore, StallJob, ClaimAges, MissRank, FindRanked, ChangeKey, AskRescore,
         CountAttempts, EnqueueRescore, AdminDies, RebuildRanks, LoseRanks, scoring, rescoring
<1>2. Stays
  <2>1. ASSUME NEW a \in Attempts, SubmitAttempt(a)
        PROVE  Stays
    BY <2>1 DEF SubmitAttempt, Stays, TypeOK
  <2>2. CASE status' = status
    BY <2>2 DEF Stays
  <2>3. (\E a \in Attempts : SubmitAttempt(a)) \/ status' = status
    BY DEF EnqueueScore, StallJob, ClaimAges, MissRank, FindRanked, ChangeKey, AskRescore,
           CountAttempts, EnqueueRescore, AdminDies, RebuildRanks, LoseRanks, attempts
  <2> QED
    BY <2>1, <2>2, <2>3
<1>3. Wrote
  <2>1. CASE RebuildRanks \/ LoseRanks
    BY <2>1 DEF Wrote, RebuildRanks, LoseRanks
  <2>2. RebuildRanks \/ LoseRanks \/ ranks' = ranks
    BY DEF SubmitAttempt, EnqueueScore, StallJob, ClaimAges, MissRank, FindRanked, ChangeKey, AskRescore,
           CountAttempts, EnqueueRescore, AdminDies
  <2> QED
    BY <2>1, <2>2 DEF Wrote
<1>4. page' = page \/ page'.at # "ranks" \/ page'.found = FoundScores
  <2>1. CASE FindRanked
    BY <2>1 DEF FindRanked
  <2>2. CASE RebuildRanks \/ \E a \in Attempts : MissRank(a)
    BY <2>2, IdleNoRun DEF RebuildRanks, MissRank
  <2>3. FindRanked \/ RebuildRanks \/ (\E a \in Attempts : MissRank(a)) \/ page' = page
    BY DEF SubmitAttempt, EnqueueScore, StallJob, ClaimAges, ChangeKey, AskRescore,
           CountAttempts, EnqueueRescore, AdminDies, LoseRanks
  <2> QED
    BY <2>1, <2>2, <2>3
<1> QED
  BY <1>1, <1>2, <1>3, <1>4 DEF Found, Meant

LEMMA NextRanks == TypeOK /\ Ranks /\ [Next]_vars => Ranks'
<1> SUFFICES ASSUME TypeOK, Ranks, [Next]_vars
             PROVE  Ranks'
  OBVIOUS
<1>1. CASE UNCHANGED vars
  BY <1>1 DEF vars, attempts, scoring, rescoring, Ranks, Sound, RankSound
<1> QED
  BY <1>1, ProcStepEffects, QueueStepEffects, RescoreStepEffects, OtherEffects, EffectsKeepRanks
     DEF Next, RescoreActs

\* Only scored first attempts are ever ranked.
THEOREM RanksInvariant == Spec => []OnlyFirstRanked
<1>1. Init => TypeOK /\ Ranks
  BY InitType, InitRanks
<1>2. TypeOK /\ Ranks /\ [Next]_vars => (TypeOK /\ Ranks)'
  BY NextType, NextRanks
<1>3. Ranks => OnlyFirstRanked
  BY DEF Ranks, Sound, OnlyFirstRanked
<1> QED
  BY <1>1, <1>2, <1>3, PTL DEF Spec

-----------------------------------------------------------------------------
(***************************************************************************)
(* The marks of one question with options (ScoringRules).                  *)
(***************************************************************************)

LEMMA Division ==
    ASSUME NEW n \in Int, NEW d \in Nat \ {0}
    PROVE  n \div d \in Int /\ (n \div d) * d <= n /\ n < (n \div d) * d + d
OBVIOUS

LEMMA Exactly ==
    ASSUME NEW n \in Int, NEW d \in Nat \ {0}, n % d = 0
    PROVE  n = (n \div d) * d
OBVIOUS

\* What is rounded is the nearest multiple of ten, or one of the two.
Nearest(num, den, q) == (10 * q - 5) * den <= num /\ num <= (10 * q + 5) * den
LEMMA RoundedIs ==
    ASSUME NEW num \in Int, NEW den \in Nat \ {0}
    PROVE  \E q \in Int : Hundredths(num, den) = 10 * q /\ Nearest(num, den, q)
<1>1. PICK d \in Nat \ {0} : d = 20 * den
  OBVIOUS
<1>2. PICK n \in Int : n = 2 * num + 10 * den
  OBVIOUS
<1>3. PICK u \in Int : u = n \div d /\ u * d <= n /\ n < u * d + d
  BY Division
<1>4. u * d = 2 * ((10 * u) * den)
  BY <1>1
<1>5. PICK w \in Int : w = (10 * u) * den
  OBVIOUS
<1>6. 2 * w <= 2 * num + 10 * den /\ 2 * num + 10 * den < 2 * w + 20 * den
  BY <1>1, <1>2, <1>3, <1>4, <1>5
<1>7. (10 * u - 5) * den = w - 5 * den /\ (10 * u + 5) * den = w + 5 * den
  BY <1>5
<1>8. CASE <<num, den>> \notin Low
  <2>1. Hundredths(num, den) = 10 * u
    BY <1>1, <1>2, <1>3, <1>8 DEF Hundredths
  <2>2. Nearest(num, den, u)
    BY <1>6, <1>7 DEF Nearest
  <2> QED
    BY <2>1, <2>2
<1>9. CASE <<num, den>> \in Low
  <2>1. n % d = 0
    <3>1. PICK half \in Low : half = <<num, den>>
      BY <1>9
    <3>2. (2 * half[1] + 10 * half[2]) % (20 * half[2]) = 0
      BY LowAssumption
    <3>3. half[1] = num /\ half[2] = den
      BY <3>1
    <3> QED
      BY <1>1, <1>2, <3>2, <3>3
  <2>2. n = u * d
    BY <1>3, <2>1, Exactly
  <2>3. 2 * w = 2 * num + 10 * den
    BY <1>2, <1>4, <1>5, <2>2
  <2>4. Hundredths(num, den) = 10 * (u - 1)
    BY <1>1, <1>2, <1>3, <1>9 DEF Hundredths
  <2>5. (10 * (u - 1) - 5) * den = w - 15 * den /\ (10 * (u - 1) + 5) * den = w - 5 * den
    BY <1>5
  <2>6. Nearest(num, den, u - 1)
    BY <2>3, <2>5 DEF Nearest
  <2> QED
    BY <2>4, <2>6
<1> QED
  BY <1>8, <1>9

\* The order of what is rounded: nearest ones are far apart only if what they are near to is.
LEMMA NearestGrows ==
    ASSUME NEW m \in Int, NEW n \in Int, m < n, NEW den \in Nat \ {0},
           NEW p \in Int, Nearest(m, den, p), NEW q \in Int, Nearest(n, den, q)
    PROVE  p <= q
<1> SUFFICES ASSUME q + 1 <= p PROVE FALSE
  OBVIOUS
<1>1. 10 * q + 5 <= 10 * p - 5
  OBVIOUS
<1>2. (10 * q + 5) * den <= (10 * p - 5) * den
  BY <1>1
<1>3. n <= (10 * q + 5) * den /\ (10 * p - 5) * den <= m
  BY DEF Nearest
<1>4. PICK x \in Int, y \in Int : x = (10 * q + 5) * den /\ y = (10 * p - 5) * den
  OBVIOUS
<1> QED
  BY <1>2, <1>3, <1>4

LEMMA RoundedGrows ==
    ASSUME NEW m \in Int, NEW n \in Int, m <= n, NEW den \in Nat \ {0}
    PROVE  Hundredths(m, den) \in Int /\ Hundredths(m, den) <= Hundredths(n, den)
<1>1. PICK p \in Int : Hundredths(m, den) = 10 * p /\ Nearest(m, den, p)
  BY RoundedIs
<1>2. PICK q \in Int : Hundredths(n, den) = 10 * q /\ Nearest(n, den, q)
  BY RoundedIs
<1>3. CASE m = n
  BY <1>1, <1>3
<1>4. CASE m < n
  <2>1. p <= q
    BY <1>1, <1>2, <1>4, NearestGrows
  <2> QED
    BY <1>1, <1>2, <2>1
<1> QED
  BY <1>3, <1>4

LEMMA RoundGrows ==
    ASSUME NEW m \in Int, NEW n \in Int, m <= n
    PROVE  Round2(m) \in Int /\ Round2(m) <= Round2(n)
BY RoundedGrows DEF Round2

LEMMA Round2Is ==
    ASSUME NEW m \in Int
    PROVE  \E q \in Int : Round2(m) = 10 * q /\ 10 * q - 5 <= m /\ m <= 10 * q + 5
<1>1. PICK q \in Int : Hundredths(m, 1) = 10 * q /\ Nearest(m, 1, q)
  BY RoundedIs
<1> QED
  BY <1>1 DEF Round2, Nearest

LEMMA Round2Tens ==
    ASSUME NEW k \in Int
    PROVE  Round2(10 * k) = 10 * k
<1>1. PICK q \in Int : Round2(10 * k) = 10 * q /\ 10 * q - 5 <= 10 * k /\ 10 * k <= 10 * q + 5
  BY Round2Is
<1> QED
  BY <1>1

\* Partial marks for `chosen` of `size` right options, and what they never leave.
PartialMarks(correct, chosen, size) == Hundredths(correct * chosen, size)
LEMMA PartialGrows ==
    ASSUME NEW correct \in Nat, NEW size \in Nat \ {0},
           NEW fewer \in Nat, NEW more \in Nat, fewer <= more
    PROVE  PartialMarks(correct, fewer, size) <= PartialMarks(correct, more, size)
<1>1. PICK m \in Int, n \in Int : m = correct * fewer /\ n = correct * more
  OBVIOUS
<1>2. m <= n
  BY <1>1
<1>3. Hundredths(m, size) <= Hundredths(n, size)
  BY <1>2, RoundedGrows
<1> QED
  BY <1>1, <1>3 DEF PartialMarks

LEMMA PartialBounds ==
    ASSUME NEW correct \in Nat, NEW size \in Nat \ {0}, NEW chosen \in Nat, chosen < size
    PROVE  /\ PartialMarks(correct, chosen, size) \in Nat
           /\ PartialMarks(correct, chosen, size) <= Round2(correct)
           /\ Round2(PartialMarks(correct, chosen, size)) = PartialMarks(correct, chosen, size)
<1>1. PICK m \in Int : m = correct * chosen /\ 0 <= m
  OBVIOUS
<1>2. PICK p \in Int : Hundredths(m, size) = 10 * p /\ Nearest(m, size, p)
  BY RoundedIs
<1>3. PICK r \in Int : Round2(correct) = 10 * r /\ 10 * r - 5 <= correct /\ correct <= 10 * r + 5
  BY Round2Is
<1>4. r >= 0
  BY <1>3
<1>5. p >= 0
  <2> SUFFICES ASSUME p <= -1 PROVE FALSE
    OBVIOUS
  <2>1. (10 * p + 5) * size < 0
    OBVIOUS
  <2> QED
    BY <1>1, <1>2, <2>1 DEF Nearest
<1>6. p <= r
  <2> SUFFICES ASSUME r + 1 <= p PROVE FALSE
    OBVIOUS
  <2>1. PICK h \in Nat \ {0} : h = 10 * r + 5
    BY <1>4
  <2>2. correct <= h /\ h <= 10 * p - 5
    BY <1>3, <2>1
  <2>3. h * size <= (10 * p - 5) * size
    BY <2>2
  <2>4. correct * chosen <= h * chosen
    BY <2>2
  <2>5. h * chosen < h * size
    OBVIOUS
  <2>6. PICK x \in Int, y \in Int, z \in Int : x = h * size /\ y = h * chosen /\ z = (10 * p - 5) * size
    OBVIOUS
  <2>7. z <= m
    BY <1>2, <2>6 DEF Nearest
  <2> QED
    BY <1>1, <2>3, <2>4, <2>5, <2>6, <2>7
<1>7. PartialMarks(correct, chosen, size) = 10 * p
  BY <1>1, <1>2 DEF PartialMarks
<1> QED
  BY <1>3, <1>5, <1>6, <1>7, Round2Tens

LEMMA ToSetFinite ==
    ASSUME NEW s \in Seq(Nat)
    PROVE  IsFiniteSet(ToSet(s)) /\ Cardinality(ToSet(s)) \in Nat
<1>1. IsFiniteSet(1..Len(s))
  BY FS_Interval
<1>2. s \in Surjection(1..Len(s), ToSet(s))
  BY DEF Surjection, ToSet
<1> QED
  BY <1>1, <1>2, FS_Surjection, FS_CardinalityType

Chose(q, answer) == ~Skipped(q, answer) /\ answer.response.value \in Seq(Nat)
Choice(q, template) ==
    /\ q.type \in {"mcq_single", "mcq_multi"} /\ q.correct \in Seq(Nat)
    /\ MarkingFor(template, q.type).correct \in Nat
    /\ MarkingFor(template, q.type).wrong \in Int /\ MarkingFor(template, q.type).wrong <= 0
PairFair(q, template, fewer, more) ==
    LET right == ToSet(more.response.value) \subseteq ToSet(q.correct)
    IN  /\ right => Round2(Marks(q, fewer, template)) <= Round2(Marks(q, more, template))
        /\ ~right => Marks(q, more, template) <= Marks(q, fewer, template)
        /\ right /\ q.type = "mcq_multi" /\ template.multiPartial /\ q.correct # <<>> => Marks(q, fewer, template) >= 0
        /\ Round2(Marks(q, more, template)) <= Round2(MarkingFor(template, q.type).correct)
LEMMA PairsFair ==
    ASSUME NEW q, NEW template, Choice(q, template), NEW fewer, Chose(q, fewer), NEW more, Chose(q, more),
           ToSet(fewer.response.value) \subseteq ToSet(more.response.value)
    PROVE  PairFair(q, template, fewer, more)
<1> SUFFICES ASSUME q.type \in {"mcq_single", "mcq_multi"}, q.correct \in Seq(Nat),
                    MarkingFor(template, q.type).correct \in Nat,
                    MarkingFor(template, q.type).wrong \in Int, MarkingFor(template, q.type).wrong <= 0,
                    ~Skipped(q, fewer), fewer.response.value \in Seq(Nat),
                    ~Skipped(q, more), more.response.value \in Seq(Nat)
             PROVE  PairFair(q, template, fewer, more)
  BY DEF Choice, Chose
<1>1. PICK full \in Nat : full = MarkingFor(template, q.type).correct
  OBVIOUS
<1>2. PICK wrong \in Int : wrong = MarkingFor(template, q.type).wrong /\ wrong <= 0
  OBVIOUS
<1>3. PICK K : K = ToSet(q.correct)
  OBVIOUS
<1>4. PICK A, B : A = ToSet(fewer.response.value) /\ B = ToSet(more.response.value)
  OBVIOUS
<1>5. PICK partial \in BOOLEAN : partial <=> q.type = "mcq_multi" /\ template.multiPartial
  OBVIOUS
<1> DEFINE Of(chosen) ==
      IF K # {} /\ chosen = K THEN full
      ELSE IF K # {} /\ partial /\ chosen \subseteq K
      THEN PartialMarks(full, Cardinality(chosen), Cardinality(K)) ELSE wrong
<1>6. Marks(q, fewer, template) = Of(A) /\ Marks(q, more, template) = Of(B)
  <2>1. ASSUME NEW answer, ~Skipped(q, answer), NEW C, C = ToSet(answer.response.value)
        PROVE  Marks(q, answer, template) = Of(C)
    <3>1. Marks(q, answer, template) =
            IF K # {} /\ C = K THEN full
            ELSE IF K # {} /\ q.type = "mcq_multi" /\ template.multiPartial /\ C \subseteq K
            THEN PartialMarks(full, Cardinality(C), Cardinality(K)) ELSE wrong
      <4>1. PICK m : m = MarkingFor(template, q.type)
        OBVIOUS
      <4>2. full = m.correct /\ wrong = m.wrong
        BY <1>1, <1>2, <4>1
      <4>3. Marks(q, answer, template) =
              IF K # {} /\ C = K THEN m.correct
              ELSE IF K # {} /\ q.type = "mcq_multi" /\ template.multiPartial /\ C \subseteq K
              THEN PartialMarks(m.correct, Cardinality(C), Cardinality(K)) ELSE m.wrong
        BY <1>3, <2>1, <4>1 DEF Marks, Outcome, IsNumericType, AllRight, PartialMarks
      <4> QED
        BY <4>2, <4>3
    <3>2. CASE partial
      BY <1>5, <3>1, <3>2
    <3>3. CASE ~partial
      BY <1>5, <3>1, <3>3
    <3> QED
      BY <3>2, <3>3
  <2> QED
    BY <1>4, <2>1, SMTT(30)
<1>7. /\ A \subseteq B /\ IsFiniteSet(B) /\ IsFiniteSet(K)
      /\ Cardinality(A) \in Nat /\ Cardinality(B) \in Nat /\ Cardinality(K) \in Nat
  BY <1>3, <1>4, ToSetFinite
<1>8. Cardinality(A) <= Cardinality(B) /\ (B \subseteq K => Cardinality(B) <= Cardinality(K))
  BY <1>7, FS_Subset
<1>9. K # {} => Cardinality(K) \in Nat \ {0}
  BY <1>7, FS_EmptySet
\* The marks of right options, between nothing and the full marks.
<1>10. ASSUME K # {}, NEW C, C \subseteq K, C # K, Cardinality(C) \in Nat
       PROVE  /\ PartialMarks(full, Cardinality(C), Cardinality(K)) \in Nat
              /\ PartialMarks(full, Cardinality(C), Cardinality(K)) <= Round2(full)
              /\ Round2(PartialMarks(full, Cardinality(C), Cardinality(K)))
                    = PartialMarks(full, Cardinality(C), Cardinality(K))
  <2>1. PICK c \in Nat, k \in Nat \ {0} : c = Cardinality(C) /\ k = Cardinality(K)
    BY <1>9, <1>10
  <2>2. c < k
    BY <1>7, <1>10, <2>1, FS_Subset
  <2> QED
    BY <2>1, <2>2, PartialBounds
<1>11. A \subseteq K /\ K # {} /\ partial => Of(A) >= 0 /\ Of(A) \in Int
  <2>1. SUFFICES ASSUME A \subseteq K, K # {}, partial PROVE Of(A) \in Nat
    OBVIOUS
  <2>2. CASE A = K
    BY <2>1, <2>2
  <2>3. CASE A # K
    BY <1>7, <1>10, <2>1, <2>3
  <2> QED
    BY <2>2, <2>3
<1>12. ~(B \subseteq K) => Of(B) = wrong
  OBVIOUS
<1>13. ~(B \subseteq K) => Of(B) <= Of(A)
  <2>1. CASE A = K /\ K # {}
    BY <1>2, <1>12, <2>1
  <2>2. CASE A # K /\ K # {} /\ partial /\ A \subseteq K
    BY <1>2, <1>11, <1>12, <2>2
  <2>3. CASE ~(A = K /\ K # {}) /\ ~(A # K /\ K # {} /\ partial /\ A \subseteq K)
    BY <1>2, <1>12, <2>3
  <2> QED
    BY <2>1, <2>2, <2>3
<1>14. B \subseteq K => Round2(Of(A)) <= Round2(Of(B))
  <2> SUFFICES ASSUME B \subseteq K PROVE Round2(Of(A)) <= Round2(Of(B))
    OBVIOUS
  <2>1. CASE A = K \/ A = B
    <3>1. A = B
      BY <1>7, <2>1
    <3>2. Of(A) \in Int
      <4>1. CASE K = {}
        BY <4>1
      <4>2. CASE K # {}
        <5>1. A \subseteq K
          BY <1>7
        <5>2. CASE A = K
          BY <4>2, <5>2
        <5>3. CASE A # K
          BY <1>7, <1>10, <4>2, <5>1, <5>3
        <5> QED
          BY <5>2, <5>3
      <4> QED
        BY <4>1, <4>2
    <3> QED
      <4>1. PICK x \in Int : x = Of(A)
        BY <3>2
      <4>2. x = Of(B)
        BY <3>1, <4>1
      <4>3. Round2(x) <= Round2(x)
        BY RoundGrows
      <4> HIDE DEF Of
      <4> QED
        BY <4>1, <4>2, <4>3
  <2>2. CASE A # K /\ ~partial
    <3>1. Of(A) = wrong /\ Of(B) \in {full, wrong}
      BY <2>2
    <3>2. wrong <= Of(B) /\ Of(B) \in Int
      BY <1>1, <1>2, <3>1
    <3> QED
      BY <3>1, <3>2, RoundGrows
  <2>3. CASE A # K /\ partial /\ A # B
    <3>1. A \subseteq K /\ K # {}
      BY <1>7, <2>3
    <3>2. Of(A) = PartialMarks(full, Cardinality(A), Cardinality(K))
      BY <2>3, <3>1
    <3>4. CASE B = K
      <4>1. Of(B) = full
        BY <3>1, <3>4
      <4> QED
        BY <1>7, <1>10, <2>3, <3>1, <3>2, <4>1
    <3>5. CASE B # K
      <4>1. Of(B) = PartialMarks(full, Cardinality(B), Cardinality(K))
        BY <2>3, <3>1, <3>5
      <4>2. /\ PartialMarks(full, Cardinality(A), Cardinality(K))
                  <= PartialMarks(full, Cardinality(B), Cardinality(K))
            /\ Round2(PartialMarks(full, Cardinality(A), Cardinality(K)))
                  = PartialMarks(full, Cardinality(A), Cardinality(K))
        BY <1>7, <1>8, <1>9, <1>10, <2>3, <3>1, PartialGrows
      <4>3. Round2(Of(B)) = Of(B)
        BY <1>7, <1>10, <3>1, <3>5, <4>1
      <4> QED
        BY <3>2, <4>1, <4>2, <4>3
    <3> QED
      BY <3>4, <3>5
  <2> QED
    BY <2>1, <2>2, <2>3
<1>15. Round2(Of(B)) <= Round2(full)
  <2>1. CASE K # {} /\ B = K
    BY <2>1, RoundGrows
  <2>2. CASE K # {} /\ B # K /\ partial /\ B \subseteq K
    <3>1. Of(B) = PartialMarks(full, Cardinality(B), Cardinality(K))
      BY <2>2
    <3> QED
      BY <1>7, <1>8, <1>10, <2>2, <3>1
  <2>3. CASE ~(K # {} /\ B = K) /\ ~(K # {} /\ B # K /\ partial /\ B \subseteq K)
    <3>1. Of(B) = wrong
      BY <2>3
    <3>2. Round2(wrong) <= Round2(full)
      BY <1>1, <1>2, RoundGrows
    <3> QED
      BY <3>1, <3>2
  <2> QED
    BY <2>1, <2>2, <2>3
<1>16. q.correct # <<>> => K # {}
  <2>1. SUFFICES ASSUME q.correct # <<>> PROVE q.correct[1] \in K
    OBVIOUS
  <2>2. Len(q.correct) >= 1
    BY <2>1, EmptySeq
  <2> QED
    BY <1>3, <2>2 DEF ToSet
<1> HIDE DEF Of
<1> QED
  BY <1>1, <1>3, <1>4, <1>5, <1>6, <1>7, <1>11, <1>13, <1>14, <1>15, <1>16 DEF PairFair

\* Marks are fair question by question (scoreQuestion), for every key, marking and pair of answers
\* of which one chooses more: one more right option never costs what is shown of the marks, a
\* wrong one never brings any, partial credit is never negative, and no answer is shown with more
\* than the full marks.
THEOREM PartialFair ==
    ASSUME NEW q, q.type \in {"mcq_single", "mcq_multi"}, q.correct \in Seq(Nat),
           NEW template,
           MarkingFor(template, q.type).correct \in Nat,
           MarkingFor(template, q.type).wrong \in Int, MarkingFor(template, q.type).wrong <= 0,
           NEW fewer, ~Skipped(q, fewer), fewer.response.value \in Seq(Nat),
           NEW more, ~Skipped(q, more), more.response.value \in Seq(Nat),
           ToSet(fewer.response.value) \subseteq ToSet(more.response.value)
    PROVE  LET right == ToSet(more.response.value) \subseteq ToSet(q.correct)
           IN  /\ right => Round2(Marks(q, fewer, template)) <= Round2(Marks(q, more, template))
               /\ ~right => Marks(q, more, template) <= Marks(q, fewer, template)
               /\ right /\ q.type = "mcq_multi" /\ template.multiPartial /\ q.correct # <<>> =>
                      Marks(q, fewer, template) >= 0
               /\ Round2(Marks(q, more, template)) <= Round2(MarkingFor(template, q.type).correct)
<1>1. Choice(q, template) /\ Chose(q, fewer) /\ Chose(q, more)
  BY DEF Choice, Chose
<1>2. PairFair(q, template, fewer, more)
  BY <1>1, PairsFair
<1> QED
  BY <1>2 DEF PairFair

-----------------------------------------------------------------------------
(***************************************************************************)
(* The sums of a test's marks, whatever the number of its questions.       *)
(***************************************************************************)
\* Induction, for a set of numbers: a least number outside of it is impossible.
LEMMA Induction ==
    ASSUME NEW T, 0 \in T, \A n \in Nat : n \in T => n + 1 \in T
    PROVE  \A n \in Nat : n \in T
<1>1. SUFFICES ASSUME Nat \ T # {} PROVE FALSE
  OBVIOUS
<1>2. PICK R : R = {ss \in Nat \X Nat : ss[1] < ss[2]} /\ IsWellFoundedOn(R, Nat)
  BY NatLessThanWellFounded DEF OpToRel
<1>3. PICK n \in Nat \ T : \A m \in Nat \ T : ~(<<m, n>> \in R)
  BY <1>1, <1>2, WFMin
<1>4. n # 0 /\ n - 1 \in Nat /\ n - 1 < n
  BY <1>3
<1>5. n - 1 \in T
  <2>1. <<n - 1, n>> \in R
    BY <1>2, <1>3, <1>4
  <2> QED
    BY <1>3, <1>4, <2>1
<1> QED
  BY <1>3, <1>4, <1>5

\* What FoldLeft does to a set of indices: the last one is added last.
Adding(iter, seq, n) ==
    iter = [s \in SUBSET (1..n) |-> IF s = {} THEN 0 ELSE LET last == Max(s) IN iter[s \ {last}] + seq[last]]
LEMMA MaxIs ==
    ASSUME NEW n \in Nat, NEW s \in SUBSET (1..n), n \in s
    PROVE  Max(s) = n
<1>1. n \in s /\ \A y \in s : n >= y
  OBVIOUS
<1>2. PICK x : x = Max(s)
  OBVIOUS
<1>3. x \in s /\ \A y \in s : x >= y
  BY <1>1, <1>2 DEF Max
<1> QED
  BY <1>1, <1>2, <1>3

LEMMA AddingExists ==
    ASSUME NEW seq, NEW n \in Nat
    PROVE  \E iter : Adding(iter, seq, n)
<1> DEFINE T == {k \in Nat : \E iter : Adding(iter, seq, k)}
<1>1. 0 \in T
  <2>1. Adding([s \in SUBSET (1..0) |-> 0], seq, 0)
    BY DEF Adding
  <2> QED
    BY <2>1
<1>2. ASSUME NEW k \in Nat, k \in T
      PROVE  k + 1 \in T
  <2>1. PICK f : Adding(f, seq, k)
    BY <1>2
  <2>2. PICK own : own = seq[k + 1]
    OBVIOUS
  <2>3. PICK g : g = [s \in SUBSET (1..(k + 1)) |-> IF k + 1 \in s THEN f[s \ {k + 1}] + own ELSE f[s]]
    OBVIOUS
  <2>4. ASSUME NEW s \in SUBSET (1..(k + 1))
        PROVE  g[s] = IF s = {} THEN 0 ELSE LET last == Max(s) IN g[s \ {last}] + seq[last]
    <3>1. CASE k + 1 \in s
      <4>1. Max(s) = k + 1
        BY <3>1, MaxIs
      <4>2. s \ {k + 1} \in SUBSET (1..(k + 1)) /\ k + 1 \notin s \ {k + 1} /\ s # {}
        BY <3>1
      <4>3. g[s] = f[s \ {k + 1}] + own /\ g[s \ {k + 1}] = f[s \ {k + 1}]
        BY <2>3, <3>1, <4>2
      <4> QED
        BY <2>2, <4>1, <4>2, <4>3
    <3>2. CASE k + 1 \notin s
      <4>1. s \in SUBSET (1..k) /\ g[s] = f[s]
        BY <2>3, <3>2
      <4>2. f[s] = IF s = {} THEN 0 ELSE LET last == Max(s) IN f[s \ {last}] + seq[last]
        BY <2>1, <4>1 DEF Adding
      <4>3. \A x : s \ {x} \in SUBSET (1..(k + 1)) /\ k + 1 \notin s \ {x}
        BY <3>2
      <4>4. \A x : g[s \ {x}] = f[s \ {x}]
        BY <2>3, <4>3
      <4> QED
        BY <4>1, <4>2, <4>4
    <3> QED
      BY <3>1, <3>2
  <2>5. Adding(g, seq, k + 1)
    BY <2>3, <2>4 DEF Adding
  <2> QED
    BY <2>5
<1> HIDE DEF T
<1>3. n \in T
  BY <1>1, <1>2, Induction
<1> QED
  BY <1>3 DEF T

\* The sum of a sequence of any length, by its partial sums.
Partial(p, seq, n) == p[0] = 0 /\ \A i \in 1..n : p[i] = p[i - 1] + seq[i]
LEMMA SumPartial ==
    ASSUME NEW n \in Nat, NEW seq, DOMAIN seq = 1..n
    PROVE  \E p : Partial(p, seq, n) /\ SumOf(seq) = p[n]
<1> DEFINE iter == CHOOSE f : f = [s \in SUBSET (1..n) |-> IF s = {} THEN 0 ELSE LET last == Max(s) IN f[s \ {last}] + seq[last]]
<1>1. Adding(iter, seq, n)
  <2>1. \E f : f = [s \in SUBSET (1..n) |-> IF s = {} THEN 0 ELSE LET last == Max(s) IN f[s \ {last}] + seq[last]]
    <3>1. PICK f : Adding(f, seq, n)
      BY AddingExists
    <3> QED
      BY <3>1 DEF Adding
  <2> QED
    BY <2>1 DEF Adding
<1>2. SumOf(seq) = iter[1..n]
  BY DEF SumOf, FoldLeft, MapThenFoldSet
<1> HIDE DEF iter
<1>3. PICK p : p = [i \in 0..n |-> iter[1..i]]
  OBVIOUS
<1>4. Partial(p, seq, n)
  <2>1. p[0] = 0
    <3>1. iter[{}] = 0 /\ 1..0 = {}
      BY <1>1 DEF Adding
    <3> QED
      BY <1>3, <3>1
  <2>2. ASSUME NEW i \in 1..n PROVE p[i] = p[i - 1] + seq[i]
    <3>1. 1..i \in SUBSET (1..n) /\ 1..i # {} /\ (1..i) \ {i} = 1..(i - 1)
      <4>1. 1..i \subseteq 1..n /\ i \in 1..i
        OBVIOUS
      <4>2. ASSUME NEW j PROVE j \in (1..i) \ {i} <=> j \in 1..(i - 1)
        OBVIOUS
      <4> QED
        BY <4>1, <4>2
    <3>2. Max(1..i) = i
      BY MaxIs
    <3>3. iter[1..i] = iter[1..(i - 1)] + seq[i]
      BY <1>1, <3>1, <3>2 DEF Adding
    <3> QED
      BY <1>3, <3>3
  <2> QED
    BY <2>1, <2>2 DEF Partial
<1>5. p[n] = SumOf(seq)
  BY <1>2, <1>3
<1> QED
  BY <1>4, <1>5

\* What holds of every number added holds of the sum: it is a number, a multiple of ten, or at
\* most another one's.
LEMMA SumInt ==
    ASSUME NEW n \in Nat, NEW seq, DOMAIN seq = 1..n, \A i \in 1..n : seq[i] \in Int
    PROVE  SumOf(seq) \in Int
<1>1. PICK p : Partial(p, seq, n) /\ SumOf(seq) = p[n]
  BY SumPartial
<1> DEFINE T == {i \in Nat : i <= n => p[i] \in Int}
<1>2. 0 \in T
  BY <1>1 DEF Partial
<1>3. ASSUME NEW i \in Nat, i \in T PROVE i + 1 \in T
  <2>1. CASE i + 1 <= n
    <3>1. p[i + 1] = p[i] + seq[i + 1] /\ p[i] \in Int /\ seq[i + 1] \in Int
      BY <1>1, <1>3, <2>1 DEF Partial
    <3> QED
      BY <3>1
  <2> QED
    BY <2>1
<1> HIDE DEF T
<1>4. n \in T
  BY <1>2, <1>3, Induction
<1> QED
  BY <1>1, <1>4 DEF T

LEMMA SumTens ==
    ASSUME NEW n \in Nat, NEW seq, DOMAIN seq = 1..n, \A i \in 1..n : \E k \in Int : seq[i] = 10 * k
    PROVE  \E k \in Int : SumOf(seq) = 10 * k
<1>1. PICK p : Partial(p, seq, n) /\ SumOf(seq) = p[n]
  BY SumPartial
<1> DEFINE T == {i \in Nat : i <= n => \E k \in Int : p[i] = 10 * k}
<1>2. 0 \in T
  <2>1. p[0] = 10 * 0 /\ 0 \in Int
    BY <1>1 DEF Partial
  <2> QED
    BY <2>1
<1>3. ASSUME NEW i \in Nat, i \in T PROVE i + 1 \in T
  <2>1. CASE i + 1 <= n
    <3>1. i + 1 \in 1..n /\ (i + 1) - 1 = i
      BY <2>1
    <3>2. PICK a \in Int : p[i] = 10 * a
      BY <1>3, <2>1
    <3>3. PICK b \in Int : seq[i + 1] = 10 * b
      BY <3>1
    <3>4. p[i + 1] = 10 * (a + b) /\ a + b \in Int
      BY <1>1, <3>1, <3>2, <3>3 DEF Partial
    <3>5. \E k \in Int : p[i + 1] = 10 * k
      BY <3>4
    <3> QED
      BY <3>5
  <2> QED
    BY <2>1
<1> HIDE DEF T
<1>4. n \in T
  BY <1>2, <1>3, Induction
<1> QED
  BY <1>1, <1>4 DEF T

LEMMA SumGrows ==
    ASSUME NEW n \in Nat, NEW a, DOMAIN a = 1..n, NEW b, DOMAIN b = 1..n,
           \A i \in 1..n : a[i] \in Int /\ b[i] \in Int /\ a[i] <= b[i]
    PROVE  SumOf(a) <= SumOf(b)
<1>1. PICK p : Partial(p, a, n) /\ SumOf(a) = p[n]
  BY SumPartial
<1>2. PICK q : Partial(q, b, n) /\ SumOf(b) = q[n]
  BY SumPartial
<1> DEFINE T == {i \in Nat : i <= n => p[i] \in Int /\ q[i] \in Int /\ p[i] <= q[i]}
<1>3. 0 \in T
  BY <1>1, <1>2 DEF Partial
<1>4. ASSUME NEW i \in Nat, i \in T PROVE i + 1 \in T
  <2>1. CASE i + 1 <= n
    <3>1. i + 1 \in 1..n /\ (i + 1) - 1 = i
      BY <2>1
    <3>2. p[i + 1] = p[i] + a[i + 1] /\ q[i + 1] = q[i] + b[i + 1]
      BY <1>1, <1>2, <3>1 DEF Partial
    <3>3. p[i] \in Int /\ q[i] \in Int /\ p[i] <= q[i]
      BY <1>4, <2>1
    <3> QED
      BY <3>1, <3>2, <3>3
  <2> QED
    BY <2>1
<1> HIDE DEF T
<1>5. n \in T
  BY <1>3, <1>4, Induction
<1> QED
  BY <1>1, <1>2, <1>5 DEF T

\* Four sums together are the sum of the four together.
Four(n, a, b, c, d, all) ==
    /\ DOMAIN a = 1..n /\ DOMAIN b = 1..n /\ DOMAIN c = 1..n /\ DOMAIN d = 1..n /\ DOMAIN all = 1..n
    /\ \A i \in 1..n : a[i] \in Int /\ b[i] \in Int /\ c[i] \in Int /\ d[i] \in Int /\ all[i] = a[i] + b[i] + c[i] + d[i]
LEMMA SumFour ==
    ASSUME NEW n \in Nat, NEW a, NEW b, NEW c, NEW d, NEW all, Four(n, a, b, c, d, all)
    PROVE  SumOf(a) + SumOf(b) + SumOf(c) + SumOf(d) = SumOf(all)
<1> USE DEF Four
<1>1. PICK p : Partial(p, a, n) /\ SumOf(a) = p[n]
  BY SumPartial
<1>2. PICK q : Partial(q, b, n) /\ SumOf(b) = q[n]
  BY SumPartial
<1>3. PICK r : Partial(r, c, n) /\ SumOf(c) = r[n]
  BY SumPartial
<1>4. PICK s : Partial(s, d, n) /\ SumOf(d) = s[n]
  BY SumPartial
<1>5. PICK t : Partial(t, all, n) /\ SumOf(all) = t[n]
  BY SumPartial
<1> DEFINE T == {i \in Nat : i <= n => /\ p[i] \in Int /\ q[i] \in Int /\ r[i] \in Int /\ s[i] \in Int
                                       /\ t[i] = p[i] + q[i] + r[i] + s[i]}
<1>6. 0 \in T
  BY <1>1, <1>2, <1>3, <1>4, <1>5 DEF Partial
<1>7. ASSUME NEW i \in Nat, i \in T PROVE i + 1 \in T
  <2>1. CASE i + 1 <= n
    <3>1. i + 1 \in 1..n /\ (i + 1) - 1 = i
      BY <2>1
    <3>2. /\ p[i + 1] = p[i] + a[i + 1] /\ q[i + 1] = q[i] + b[i + 1] /\ r[i + 1] = r[i] + c[i + 1]
          /\ s[i + 1] = s[i] + d[i + 1] /\ t[i + 1] = t[i] + all[i + 1]
      BY <1>1, <1>2, <1>3, <1>4, <1>5, <3>1 DEF Partial
    <3>3. p[i] \in Int /\ q[i] \in Int /\ r[i] \in Int /\ s[i] \in Int /\ t[i] = p[i] + q[i] + r[i] + s[i]
      BY <1>7, <2>1
    <3>4. /\ a[i + 1] \in Int /\ b[i + 1] \in Int /\ c[i + 1] \in Int /\ d[i + 1] \in Int
          /\ all[i + 1] = a[i + 1] + b[i + 1] + c[i + 1] + d[i + 1]
      BY <3>1
    <3>5. PICK w \in Int, x \in Int, y \in Int, z \in Int : w = a[i + 1] /\ x = b[i + 1] /\ y = c[i + 1] /\ z = d[i + 1]
      BY <3>4
    <3>6. PICK e \in Int, f \in Int, g \in Int, h \in Int : e = p[i] /\ f = q[i] /\ g = r[i] /\ h = s[i]
      BY <3>3
    <3>7. p[i + 1] = e + w /\ q[i + 1] = f + x /\ r[i + 1] = g + y /\ s[i + 1] = h + z
      BY <3>2, <3>5, <3>6
    <3>8. t[i + 1] = (e + f + g + h) + (w + x + y + z)
      BY <3>2, <3>3, <3>4, <3>5, <3>6
    <3>9. t[i + 1] = (e + w) + (f + x) + (g + y) + (h + z)
      BY <3>8
    <3>10. e + w \in Int /\ f + x \in Int /\ g + y \in Int /\ h + z \in Int
      OBVIOUS
    <3> HIDE DEF T
    <3>11. /\ p[i + 1] \in Int /\ q[i + 1] \in Int /\ r[i + 1] \in Int /\ s[i + 1] \in Int
           /\ t[i + 1] = p[i + 1] + q[i + 1] + r[i + 1] + s[i + 1]
      BY <3>7, <3>9, <3>10
    <3> QED
      BY <3>11 DEF T
  <2> QED
    BY <2>1
<1> HIDE DEF T
<1>8. n \in T
  BY <1>6, <1>7, Induction
<1> QED
  BY <1>1, <1>2, <1>3, <1>4, <1>5, <1>8 DEF T

-----------------------------------------------------------------------------
(***************************************************************************)
(* The marks of a whole test.                                              *)
(***************************************************************************)
Outcomes == {"correct", "wrong", "partial", "skipped"}

LEMMA OutcomeType ==
    ASSUME NEW q, NEW answer, NEW template
    PROVE  Outcome(q, answer, template) \in Outcomes
BY DEF Outcome, Outcomes

\* No question has more marks than its full ones, but for the rounding of partial credit.
Half(q, answer, template) ==
    IF Outcome(q, answer, template) = "partial" /\ MarkingFor(template, q.type).correct % 10 # 0 THEN 5 ELSE 0
LEMMA MarksAtMost ==
    ASSUME NEW q, NEW answer, NEW template, Scorable(q, template), Readable(q, answer)
    PROVE  /\ Marks(q, answer, template) \in Int
           /\ Marks(q, answer, template) <= MarkingFor(template, q.type).correct + Half(q, answer, template)
<1>1. PICK full \in Nat : full = MarkingFor(template, q.type).correct
  BY DEF Scorable
<1>2. PICK wrong \in Int : wrong = MarkingFor(template, q.type).wrong /\ wrong <= 0
  BY DEF Scorable
<1>3. PICK outcome \in Outcomes : outcome = Outcome(q, answer, template)
  BY OutcomeType
<1>3a. Half(q, answer, template) = IF outcome = "partial" /\ full % 10 # 0 THEN 5 ELSE 0
  BY <1>1, <1>3 DEF Half
<1>4. CASE outcome # "partial"
  <2>1. PICK m : m = MarkingFor(template, q.type)
    OBVIOUS
  <2>2. Marks(q, answer, template) = IF outcome = "correct" THEN m.correct ELSE IF outcome = "wrong" THEN m.wrong ELSE 0
    BY <1>3, <1>4, <2>1 DEF Marks, Outcomes
  <2> QED
    BY <1>1, <1>2, <1>3a, <1>4, <2>1, <2>2
<1>5. CASE outcome = "partial"
  <2>1. PICK K, C : K = ToSet(q.correct) /\ C = ToSet(answer.response.value)
    OBVIOUS
  <2>2. ~Skipped(q, answer) /\ ~IsNumericType(q.type) /\ C \subseteq K /\ C # K /\ K # {}
    BY <1>3, <1>5, <2>1 DEF Outcome, AllRight
  <2>3. IsFiniteSet(K) /\ Cardinality(K) \in Nat /\ Cardinality(C) \in Nat
    BY <2>1, <2>2, ToSetFinite DEF Scorable, Readable
  <2>4. PICK size \in Nat \ {0}, chosen \in Nat : size = Cardinality(K) /\ chosen = Cardinality(C) /\ chosen < size
    BY <2>2, <2>3, FS_EmptySet, FS_Subset
  <2>5. Marks(q, answer, template) = PartialMarks(full, chosen, size)
    <3>1. PICK m : m = MarkingFor(template, q.type)
      OBVIOUS
    <3>2. Marks(q, answer, template) = PartialMarks(m.correct, Cardinality(C), Cardinality(K))
      BY <1>3, <1>5, <2>1, <3>1 DEF Marks, PartialMarks
    <3> QED
      BY <1>1, <2>4, <3>1, <3>2
  <2>6. PartialMarks(full, chosen, size) \in Nat /\ PartialMarks(full, chosen, size) <= Round2(full)
    BY <2>4, PartialBounds
  <2>7. PICK r \in Int : Round2(full) = 10 * r /\ 10 * r - 5 <= full
    BY Round2Is
  <2>8. CASE full % 10 = 0
    <3>1. 10 * r <= full
      BY <2>7, <2>8
    <3> QED
      BY <1>1, <1>3a, <2>5, <2>6, <2>7, <2>8, <3>1
  <2>9. CASE full % 10 # 0
    BY <1>1, <1>3a, <1>5, <2>5, <2>6, <2>7, <2>9
  <2> QED
    BY <2>8, <2>9
<1> QED
  BY <1>4, <1>5

LEMMA DisjointCount ==
    ASSUME NEW S, IsFiniteSet(S), NEW T, IsFiniteSet(T), S \cap T = {}
    PROVE  /\ IsFiniteSet(S \cup T) /\ Cardinality(S \cup T) \in Nat
           /\ Cardinality(S) \in Nat /\ Cardinality(T) \in Nat
           /\ Cardinality(S \cup T) = Cardinality(S) + Cardinality(T)
<1>1. Cardinality(S \cap T) = 0
  BY FS_EmptySet
<1>2. IsFiniteSet(S \cup T) /\ Cardinality(S \cup T) = Cardinality(S) + Cardinality(T) - Cardinality(S \cap T)
  BY FS_Union
<1>3. Cardinality(S) \in Nat /\ Cardinality(T) \in Nat /\ Cardinality(S \cup T) \in Nat
  BY <1>2, FS_CardinalityType
<1> QED
  BY <1>1, <1>2, <1>3

\* Every question of a section has one of the four outcomes.
LEMMA CountedOnce ==
    ASSUME NEW section, NEW n \in Nat, DOMAIN section = 1..n, NEW template
    PROVE  /\ \A o \in Outcomes : Count(section, o, template) \in Nat
           /\ Count(section, "correct", template) + Count(section, "wrong", template)
                + Count(section, "partial", template) + Count(section, "skipped", template) = n
<1> DEFINE With(o) == {i \in 1..n : Outcome(section[i].q, section[i].answer, template) = o}
<1>1. \A o : Count(section, o, template) = Cardinality(With(o))
  BY DEF Count
<1>2. \A o : IsFiniteSet(With(o)) /\ Cardinality(With(o)) \in Nat
  <2>1. IsFiniteSet(1..n) /\ \A o : With(o) \subseteq 1..n
    BY FS_Interval
  <2> QED
    BY <2>1, FS_Subset, FS_CardinalityType
<1>3. PICK A, B, C, D : A = With("correct") /\ B = With("wrong") /\ C = With("partial") /\ D = With("skipped")
  OBVIOUS
<1>4. /\ A \cap B = {} /\ (A \cup B) \cap C = {} /\ ((A \cup B) \cup C) \cap D = {}
      /\ ((A \cup B) \cup C) \cup D = 1..n
  <2>1. \A i \in 1..n : Outcome(section[i].q, section[i].answer, template) \in Outcomes
    BY OutcomeType
  <2> QED
    BY <1>3, <2>1 DEF Outcomes
<1>5. IsFiniteSet(A) /\ IsFiniteSet(B) /\ IsFiniteSet(C) /\ IsFiniteSet(D)
  BY <1>2, <1>3
<1> HIDE DEF With
<1>6. PICK AB : AB = A \cup B /\ IsFiniteSet(AB) /\ Cardinality(AB) = Cardinality(A) + Cardinality(B)
  BY <1>4, <1>5, DisjointCount
<1>7. PICK ABC : ABC = AB \cup C /\ IsFiniteSet(ABC) /\ Cardinality(ABC) = Cardinality(AB) + Cardinality(C)
  BY <1>4, <1>5, <1>6, DisjointCount
<1>8. ABC \cup D = 1..n /\ Cardinality(ABC \cup D) = Cardinality(ABC) + Cardinality(D)
  BY <1>4, <1>5, <1>6, <1>7, DisjointCount
<1>9. Cardinality(1..n) = n
  BY FS_Interval
<1>10. Cardinality(A) + Cardinality(B) + Cardinality(C) + Cardinality(D) = n
  <2>1. PICK a \in Nat, b \in Nat, c \in Nat, d \in Nat :
            a = Cardinality(A) /\ b = Cardinality(B) /\ c = Cardinality(C) /\ d = Cardinality(D)
    BY <1>5, FS_CardinalityType
  <2> QED
    BY <1>6, <1>7, <1>8, <1>9, <2>1
<1> QED
  BY <1>1, <1>2, <1>3, <1>10

\* What may be above the maximum by the half hundredths of some partial answers.
LEMMA RoundAbove ==
    ASSUME NEW a \in Int, NEW b \in Int, NEW k \in Nat, a <= b + 5 * k
    PROVE  Round2(a) <= Round2(b) + 10 * k
<1>1. CASE k = 0
  BY <1>1, RoundGrows, Round2Is
<1>2. CASE k # 0
  <2>1. PICK p \in Int : Round2(a) = 10 * p /\ 10 * p - 5 <= a
    BY Round2Is
  <2>2. PICK q \in Int : Round2(b) = 10 * q /\ b <= 10 * q + 5
    BY Round2Is
  <2> QED
    BY <1>2, <2>1, <2>2
<1> QED
  BY <1>1, <1>2

LEMMA SumZero ==
    ASSUME NEW n \in Nat, NEW zero, zero = [i \in 1..n |-> 0]
    PROVE  SumOf(zero) = 0
<1>1. Four(n, zero, zero, zero, zero, zero)
  BY DEF Four
<1>2. PICK z \in Int : z = SumOf(zero)
  <2>1. DOMAIN zero = 1..n /\ \A i \in 1..n : zero[i] \in Int
    OBVIOUS
  <2> QED
    BY <2>1, SumInt
<1>3. z + z + z + z = z
  BY <1>1, <1>2, SumFour
<1>4. z = 0
  BY <1>3
<1> QED
  BY <1>2, <1>4

LEMMA SumAbove ==
    ASSUME NEW n \in Nat, NEW a, DOMAIN a = 1..n, NEW b, DOMAIN b = 1..n, NEW c, DOMAIN c = 1..n,
           \A i \in 1..n : a[i] \in Int /\ b[i] \in Int /\ c[i] \in Int /\ a[i] <= b[i] + c[i]
    PROVE  SumOf(a) \in Int /\ SumOf(b) \in Int /\ SumOf(c) \in Int /\ SumOf(a) <= SumOf(b) + SumOf(c)
<1>1. PICK zero : zero = [i \in 1..n |-> 0]
  OBVIOUS
<1>2. PICK both : both = [i \in 1..n |-> b[i] + c[i]]
  OBVIOUS
<1>3. Four(n, b, c, zero, zero, both)
  BY <1>1, <1>2 DEF Four
<1>4. PICK p \in Int, q \in Int, r \in Int : p = SumOf(a) /\ q = SumOf(b) /\ r = SumOf(c)
  BY SumInt
<1>5. SumOf(b) + SumOf(c) + SumOf(zero) + SumOf(zero) = SumOf(both)
  BY <1>3, SumFour
<1>6. SumOf(zero) = 0
  BY <1>1, SumZero
<1>7. SumOf(a) <= SumOf(both)
  <2>1. DOMAIN both = 1..n /\ \A i \in 1..n : a[i] \in Int /\ both[i] \in Int /\ a[i] <= both[i]
    BY <1>2
  <2> QED
    BY <2>1, SumGrows
<1>8. SumOf(both) = q + r
  BY <1>4, <1>5, <1>6
<1> QED
  BY <1>4, <1>7, <1>8

LEMMA SumZeroTens ==
    ASSUME NEW n \in Nat, NEW seq, DOMAIN seq = 1..n, \A i \in 1..n : seq[i] \in {0, 10}
    PROVE  \E k \in Int : SumOf(seq) = 10 * k
<1>1. \A i \in 1..n : \E k \in Int : seq[i] = 10 * k
  <2>1. SUFFICES ASSUME NEW i \in 1..n PROVE \E k \in Int : seq[i] = 10 * k
    OBVIOUS
  <2>2. CASE seq[i] = 0
    <3>1. seq[i] = 10 * 0
      BY <2>2
    <3> QED
      BY <3>1
  <2>3. CASE seq[i] = 10
    <3>1. seq[i] = 10 * 1
      BY <2>3
    <3> QED
      BY <3>1
  <2> QED
    BY <2>2, <2>3
<1> QED
  BY <1>1, SumTens

\* A sum of fives and nothings, and of what is twice as much.
Halved(n, a, b, half, extra) ==
    /\ DOMAIN a = 1..n /\ DOMAIN b = 1..n /\ DOMAIN half = 1..n /\ DOMAIN extra = 1..n
    /\ \A i \in 1..n : a[i] \in Int /\ b[i] \in Int /\ half[i] \in {0, 5} /\ extra[i] = 2 * half[i] /\ a[i] <= b[i] + half[i]
LEMMA SumHalves ==
    ASSUME NEW n \in Nat, NEW a, NEW b, NEW half, NEW extra, Halved(n, a, b, half, extra)
    PROVE  \E k \in Nat : SumOf(extra) = 10 * k /\ SumOf(a) <= SumOf(b) + 5 * k
<1> USE DEF Halved
<1>1. PICK zero : zero = [i \in 1..n |-> 0]
  OBVIOUS
<1>2. SumOf(zero) = 0
  BY <1>1, SumZero
<1>3. PICK h \in Int : h = SumOf(half) /\ SumOf(a) <= SumOf(b) + h /\ SumOf(a) \in Int /\ SumOf(b) \in Int
  <2>1. \A i \in 1..n : a[i] \in Int /\ b[i] \in Int /\ half[i] \in Int /\ a[i] <= b[i] + half[i]
    OBVIOUS
  <2>2. SumOf(a) \in Int /\ SumOf(b) \in Int /\ SumOf(half) \in Int /\ SumOf(a) <= SumOf(b) + SumOf(half)
    BY <2>1, SumAbove
  <2> QED
    BY <2>2
<1>4. h + h = SumOf(extra)
  <2>1. Four(n, half, half, zero, zero, extra)
    BY <1>1 DEF Four
  <2>2. SumOf(half) + SumOf(half) + SumOf(zero) + SumOf(zero) = SumOf(extra)
    BY <2>1, SumFour
  <2> QED
    BY <1>2, <1>3, <2>2
<1>5. 0 <= h
  <2>1. DOMAIN zero = 1..n /\ \A i \in 1..n : zero[i] \in Int /\ half[i] \in Int /\ zero[i] <= half[i]
    BY <1>1
  <2> QED
    BY <1>2, <1>3, <2>1, SumGrows
<1>6. PICK t \in Int : SumOf(extra) = 10 * t
  <2>1. \A i \in 1..n : extra[i] \in {0, 10}
    OBVIOUS
  <2> QED
    BY <2>1, SumZeroTens
<1>7. t \in Nat /\ h = 5 * t
  BY <1>4, <1>5, <1>6
<1> QED
  BY <1>3, <1>6, <1>7

\* One section: its shown score is of two decimals and at most the maximum shown, with what
\* rounding may add.
Fair(r, extra, n) ==
    /\ r.score \in Int /\ r.maxScore \in Int /\ extra \in Int /\ r.score <= r.maxScore + extra
    /\ \E k \in Int : r.score = 10 * k
    /\ \E k \in Int : r.maxScore = 10 * k
    /\ r.correct \in Nat /\ r.wrong \in Nat /\ r.partial \in Nat /\ r.skipped \in Nat
    /\ r.correct + r.wrong + r.partial + r.skipped = n
LEMMA SectionSound ==
    ASSUME NEW section, NEW n \in Nat, DOMAIN section = 1..n, NEW template,
           \A i \in 1..n : Scorable(section[i].q, template) /\ Readable(section[i].q, section[i].answer)
    PROVE  Fair(SectionResult(section, template), Extra(section, template), n)
<1>1. PICK marks : marks = [i \in DOMAIN section |-> Marks(section[i].q, section[i].answer, template)]
  OBVIOUS
<1>2. PICK full : full = [i \in DOMAIN section |-> MarkingFor(template, section[i].q.type).correct]
  OBVIOUS
<1>3. DOMAIN marks = 1..n /\ DOMAIN full = 1..n
  BY <1>1, <1>2
<1>3a. PICK half : half = [i \in 1..n |-> Half(section[i].q, section[i].answer, template)]
  OBVIOUS
<1>3b. PICK extra : extra = [i \in DOMAIN section |->
              IF /\ Outcome(section[i].q, section[i].answer, template) = "partial"
                 /\ MarkingFor(template, section[i].q.type).correct % 10 # 0
              THEN 10 ELSE 0]
  OBVIOUS
<1>4. \A i \in 1..n : marks[i] \in Int /\ full[i] \in Int /\ half[i] \in {0, 5} /\ extra[i] = 2 * half[i] /\ marks[i] <= full[i] + half[i]
  <2>1. SUFFICES ASSUME NEW i \in 1..n
                 PROVE  marks[i] \in Int /\ full[i] \in Int /\ half[i] \in {0, 5} /\ extra[i] = 2 * half[i] /\ marks[i] <= full[i] + half[i]
    OBVIOUS
  <2>2. marks[i] = Marks(section[i].q, section[i].answer, template) /\ full[i] = MarkingFor(template, section[i].q.type).correct
    BY <1>1, <1>2
  <2>3. full[i] \in Nat
    BY <2>2 DEF Scorable
  <2>4. half[i] = Half(section[i].q, section[i].answer, template) /\ half[i] \in {0, 5} /\ extra[i] = 2 * half[i]
    BY <1>3a, <1>3b DEF Half
  <2> QED
    BY <2>2, <2>3, <2>4, MarksAtMost
<1>5. PICK a \in Int, b \in Int, k \in Nat : a = SumOf(marks) /\ b = SumOf(full) /\ SumOf(extra) = 10 * k /\ a <= b + 5 * k
  <2>1. DOMAIN half = 1..n /\ DOMAIN extra = 1..n
    BY <1>3a, <1>3b
  <2>2. SumOf(marks) \in Int /\ SumOf(full) \in Int
    BY <1>3, <1>4, SumInt
  <2>3. Halved(n, marks, full, half, extra)
    BY <1>3, <1>4, <2>1 DEF Halved
  <2>4. \E k \in Nat : SumOf(extra) = 10 * k /\ SumOf(marks) <= SumOf(full) + 5 * k
    BY <2>3, SumHalves
  <2> QED
    BY <2>2, <2>4
<1>5a. Extra(section, template) = 10 * k
  BY <1>3b, <1>5 DEF Extra
<1>6. PICK r : r = SectionResult(section, template)
  OBVIOUS
<1>7. /\ r.score = Round2(a) /\ r.maxScore = Round2(b)
      /\ r.correct = Count(section, "correct", template) /\ r.wrong = Count(section, "wrong", template)
      /\ r.partial = Count(section, "partial", template) /\ r.skipped = Count(section, "skipped", template)
  BY <1>1, <1>2, <1>5, <1>6 DEF SectionResult
<1>8. Round2(a) <= Round2(b) + 10 * k
  BY <1>5, RoundAbove
<1>9. /\ \E j \in Int : Round2(a) = 10 * j
      /\ \E j \in Int : Round2(b) = 10 * j
  BY Round2Is
<1>10. /\ r.correct \in Nat /\ r.wrong \in Nat /\ r.partial \in Nat /\ r.skipped \in Nat
       /\ r.correct + r.wrong + r.partial + r.skipped = n
  BY <1>7, CountedOnce DEF Outcomes
<1>11. PICK x \in Int, y \in Int : x = Round2(a) /\ y = Round2(b) /\ x <= y + 10 * k
  BY <1>8, <1>9
<1>12. Fair(r, 10 * k, n)
  <2>1. r.score = x /\ r.maxScore = y
    BY <1>7, <1>11
  <2>2. r.score \in Int /\ r.maxScore \in Int /\ 10 * k \in Int /\ r.score <= r.maxScore + 10 * k
    BY <1>11, <2>1
  <2>3. (\E j \in Int : r.score = 10 * j) /\ (\E j \in Int : r.maxScore = 10 * j)
    BY <1>9, <1>11, <2>1
  <2> QED
    BY <1>10, <2>2, <2>3 DEF Fair
<1> QED
  BY <1>5a, <1>6, <1>12

\* One question, two answers to it, in the words of ScoringRules.
LEMMA OptionsAreFair ==
    ASSUME NEW q, NEW template, Scorable(q, template), q.type = "mcq_multi",
           NEW fewer \in Picks, NEW more \in Picks, ToSet(fewer) \subseteq ToSet(more)
    PROVE  OptionsFair(q, template, fewer, more)
<1>0. fewer \in Seq(Nat) /\ fewer # <<>> /\ more \in Seq(Nat) /\ more # <<>>
  BY PicksAssumption
<1>1. PICK less : less = Gives(fewer)
  OBVIOUS
<1>2. PICK all : all = Gives(more)
  OBVIOUS
<1>3. less.response.value = fewer /\ all.response.value = more
  BY <1>1, <1>2 DEF Gives
<1>4. ~Skipped(q, less) /\ ~Skipped(q, all)
  <2>1. ASSUME NEW chosen \in Picks, NEW answer, answer = Gives(chosen)
        PROVE  ~Skipped(q, answer)
    <3>1. /\ answer # None /\ answer.response # None /\ answer.state = "answered"
          /\ answer.response.kind = "chosen" /\ answer.response.value = chosen /\ chosen # <<>>
      BY <2>1, GivenAssumption, PicksAssumption DEF Gives
    <3> QED
      BY <2>1, <3>1 DEF Skipped, Evaluated, IsNumericType
  <2> QED
    BY <1>1, <1>2, <2>1
<1>5. MarksOf(q, fewer, template) = Marks(q, less, template) /\ MarksOf(q, more, template) = Marks(q, all, template)
  BY <1>1, <1>2 DEF MarksOf
<1>6. /\ q.correct \in Seq(Nat) /\ MarkingFor(template, q.type).correct \in Nat
      /\ MarkingFor(template, q.type).wrong \in Int /\ MarkingFor(template, q.type).wrong <= 0
  BY DEF Scorable
<1>7. LET right == ToSet(more) \subseteq ToSet(q.correct)
      IN  /\ right => Round2(Marks(q, less, template)) <= Round2(Marks(q, all, template))
          /\ ~right => Marks(q, all, template) <= Marks(q, less, template)
  <2>1. Choice(q, template) /\ Chose(q, less) /\ Chose(q, all)
    BY <1>0, <1>3, <1>4, <1>6 DEF Choice, Chose
  <2>2. PairFair(q, template, less, all)
    BY <1>3, <2>1, PairsFair
  <2> QED
    BY <1>3, <2>2 DEF PairFair
<1> QED
  BY <1>5, <1>7 DEF OptionsFair

LEMMA TestFair ==
    ASSUME NEW template \in Schemes, NEW sections \in Tests
    PROVE  TotalsFair(sections, template) /\ ChoicesFair(sections, template)
<1>0. sections \in Seq(Seq(Asked)) /\ \A qa \in Asked : Scorable(qa.q, template) /\ Readable(qa.q, qa.answer)
  BY TestsAssumption, AskedAssumption
<1>1. PICK n \in Nat : n = Len(sections) /\ DOMAIN sections = 1..n
  BY <1>0
<1>2. \A s \in 1..n : sections[s] \in Seq(Asked) /\ Len(sections[s]) \in Nat /\ DOMAIN sections[s] = 1..Len(sections[s])
  BY <1>0, <1>1
<1>3. ASSUME NEW s \in 1..n PROVE Fair(SectionResult(sections[s], template), Extra(sections[s], template), Len(sections[s]))
  <2>1. PICK section \in Seq(Asked), m \in Nat : section = sections[s] /\ m = Len(section) /\ DOMAIN section = 1..m
    BY <1>2
  <2>2. \A i \in 1..m : Scorable(section[i].q, template) /\ Readable(section[i].q, section[i].answer)
    <3>1. \A i \in 1..m : section[i] \in Asked
      BY <2>1
    <3> QED
      BY <1>0, <3>1
  <2>3. Fair(SectionResult(section, template), Extra(section, template), m)
    BY <2>1, <2>2, SectionSound
  <2> QED
    BY <2>1, <2>3
<1> DEFINE Result(s) == SectionResult(sections[s], template)
           Of(f) == [s \in DOMAIN sections |-> [t \in DOMAIN sections |-> Result(t)][s][f]]
<1>4. PICK score, maxScore : score = [s \in DOMAIN sections |-> Result(s).score] /\ maxScore = [s \in DOMAIN sections |-> Result(s).maxScore]
  OBVIOUS
<1>5. PICK correct, wrong : correct = [s \in DOMAIN sections |-> Result(s).correct] /\ wrong = [s \in DOMAIN sections |-> Result(s).wrong]
  OBVIOUS
<1>6. PICK partial, skipped : partial = [s \in DOMAIN sections |-> Result(s).partial] /\ skipped = [s \in DOMAIN sections |-> Result(s).skipped]
  OBVIOUS
<1>7. PICK lengths : lengths = [s \in DOMAIN sections |-> Len(sections[s])]
  OBVIOUS
<1>7a. PICK extra : extra = [s \in DOMAIN sections |-> Extra(sections[s], template)]
  OBVIOUS
<1>8. /\ Of("score") = score /\ Of("maxScore") = maxScore /\ Of("correct") = correct
      /\ Of("wrong") = wrong /\ Of("partial") = partial /\ Of("skipped") = skipped
  BY <1>4, <1>5, <1>6
<1>9. PICK scored : scored = ScoreAttempt(sections, template)
  OBVIOUS
<1>10. /\ scored.score = Round2(SumOf(score)) /\ scored.maxScore = Round2(SumOf(maxScore))
       /\ scored.correct = SumOf(correct) /\ scored.wrong = SumOf(wrong)
       /\ scored.partial = SumOf(partial) /\ scored.skipped = SumOf(skipped)
  BY <1>8, <1>9 DEF ScoreAttempt
<1>11. /\ DOMAIN score = 1..n /\ DOMAIN maxScore = 1..n /\ DOMAIN correct = 1..n /\ DOMAIN wrong = 1..n
       /\ DOMAIN partial = 1..n /\ DOMAIN skipped = 1..n /\ DOMAIN lengths = 1..n
  BY <1>1, <1>4, <1>5, <1>6, <1>7
<1>12. \A s \in 1..n :
          /\ score[s] \in Int /\ maxScore[s] \in Int /\ extra[s] \in Int /\ score[s] <= maxScore[s] + extra[s]
          /\ \E k \in Int : score[s] = 10 * k
          /\ \E k \in Int : maxScore[s] = 10 * k
  BY <1>1, <1>3, <1>4, <1>7a DEF Fair
<1>13. \A s \in 1..n :
          /\ correct[s] \in Int /\ wrong[s] \in Int /\ partial[s] \in Int /\ skipped[s] \in Int
          /\ lengths[s] = correct[s] + wrong[s] + partial[s] + skipped[s]
  BY <1>1, <1>3, <1>5, <1>6, <1>7 DEF Fair
<1> HIDE DEF Of, Result
<1>14. PICK a \in Int : SumOf(score) = 10 * a
  BY <1>11, <1>12, SumTens
<1>15. PICK b \in Int : SumOf(maxScore) = 10 * b
  BY <1>11, <1>12, SumTens
<1>16. SumOf(score) <= SumOf(maxScore) + SumOf(extra) /\ SumOf(extra) \in Int
  <2>1. DOMAIN extra = 1..n
    BY <1>1, <1>7a
  <2> QED
    BY <1>11, <1>12, <2>1, SumAbove
<1>17. scored.score = SumOf(score) /\ scored.score <= scored.maxScore + SumOf(extra)
  <2>1. scored.score = 10 * a /\ scored.maxScore = 10 * b
    BY <1>10, <1>14, <1>15, Round2Tens
  <2> QED
    BY <1>14, <1>15, <1>16, <2>1
<1>18. scored.correct + scored.wrong + scored.partial + scored.skipped = SumOf(lengths)
  <2>1. SumOf(correct) + SumOf(wrong) + SumOf(partial) + SumOf(skipped) = SumOf(lengths)
    <3>1. Four(n, correct, wrong, partial, skipped, lengths)
      BY <1>11, <1>13 DEF Four
    <3> QED
      BY <3>1, SumFour
  <2> QED
    BY <1>10, <2>1
<1>19. ASSUME NEW s \in DOMAIN sections, NEW i \in DOMAIN sections[s], sections[s][i].q.type = "mcq_multi",
              NEW fewer \in Picks, NEW more \in Picks, ToSet(fewer) \subseteq ToSet(more)
       PROVE  OptionsFair(sections[s][i].q, template, fewer, more)
  <2>1. PICK qa \in Asked : qa = sections[s][i]
    BY <1>1, <1>2
  <2> QED
    BY <1>0, <1>19, <2>1, OptionsAreFair
<1> QED
  BY <1>4, <1>7, <1>7a, <1>9, <1>17, <1>18, <1>19 DEF TotalsFair, ChoicesFair, Result

\* Marks are fair (scoreAttempt, scoreQuestion) in every test of any number of sections and
\* questions, for any marking and any halves that round down.
THEOREM MarksFairAlways == ScoringSpec => []MarksFair
<1> DEFINE Picked == case.area = "scoring" => case.template \in Schemes /\ case.sections \in Tests
<1>1. case = NoCase("scoring") => Picked
  BY DEF NoCase
<1>2. Picked /\ [PickScoring \/ Again]_case => Picked'
  <2>1. PickScoring => Picked'
    <3>1. ASSUME NEW template \in Schemes, NEW sections \in Tests,
                 case' = [area |-> "scoring", template |-> template, sections |-> sections]
          PROVE  case'.template \in Schemes /\ case'.sections \in Tests
      BY <3>1
    <3> QED
      BY <3>1 DEF PickScoring
  <2>2. Again => Picked'
    BY DEF Again, NoCase
  <2> QED
    BY <2>1, <2>2
<1>3. Picked => MarksFair
  BY TestFair DEF MarksFair
<1> QED
  BY <1>1, <1>2, <1>3, PTL DEF ScoringSpec
=============================================================================
