------------------------------ MODULE Starting ------------------------------
(***************************************************************************)
(* Starting a test: POST / and GET /:id of apps/api/src/routes/attempts.ts *)
(* (startAttempt, sendAttempt, paperJson) for one student and one          *)
(* published test, against the questions of the test being pulled for      *)
(* review and put back (services/reports.ts).                               *)
(*                                                                         *)
(* Every command to MongoDB or Redis is a step of its own.  What happens   *)
(* inside an attempt is module AttemptStore: here it is only in progress   *)
(* or over.  External: the student, time, who reports and who resolves     *)
(* (module Publishing), who pays (module Payments).                        *)
(***************************************************************************)
EXTENDS Naturals, Sequences, FiniteSets

CONSTANTS
    Requests,      \* requests in progress at once
    Questions,     \* of the test
    MaxAttempts,   \* bound: attempts of the student
    MaxUpdates,    \* bound: times the test's updatedAt is set
    MaxDeaths      \* bound: processes that die between two commands of a review

ASSUME StartingAssumption == MaxUpdates \in Nat \ {0}

VARIABLES
    attempt,    \* the student's attempts of the test, in the order they were created
    reported,   \* the questions that carry the flag "reported"
    updatedAt,  \* of the test: a number that grows
    cache,      \* paper:<testId>:<updatedAt>: the questions of the paper, or NoPaper
    review,     \* for each question, what pullIfOverReported or restoreReported has still to do
    request,    \* what each request in progress knows; history: gone when it began, and
                \* whether a review step was made meanwhile
    deaths,     \* how many processes died
    overlapped, \* history: were two requests in progress at once?
    gone        \* history: the questions whose pull was finished, up to the last restore of each

history == <<overlapped, gone>>
bank == <<reported, updatedAt, review>>
vars == <<attempt, bank, cache, request, deaths, history>>

NoPaper == [some |-> FALSE, shows |-> {}]
Paper(shows) == [some |-> TRUE, shows |-> shows]
Idle == [at |-> "idle"]
Begun == [at |-> "begun", id |-> 0, created |-> FALSE, earlier |-> "unread", excluded |-> {},
          read |-> FALSE, version |-> 0, paper |-> {},
          gone |-> {}, restless |-> FALSE]
InProgress == {i \in DOMAIN attempt : attempt[i].status = "in_progress"}

Init ==
    /\ attempt = <<>>
    /\ reported = {} /\ updatedAt = 1 /\ review = [q \in Questions |-> "none"]
    /\ cache = [v \in 1..MaxUpdates |-> NoPaper]
    /\ request = [r \in Requests |-> Idle]
    /\ deaths = 0 /\ overlapped = FALSE /\ gone = {}

Go(r, next) == request' = [request EXCEPT ![r] = next]
Step(r, at) == Go(r, [request[r] EXCEPT !.at = at])
\* A request that goes on to send the attempt.
Sends(r, i, created) ==
    Go(r, [Begun EXCEPT !.at = "test", !.id = i, !.created = created,
                     !.gone = request[r].gone, !.restless = request[r].restless])

(***************************************************************************)
(* The request.                                                            *)
(***************************************************************************)
Arrive(r, next) ==
    /\ request[r] = Idle
    /\ Go(r, [next EXCEPT !.gone = gone, !.restless = \E q \in Questions : review[q] # "none"])
    /\ overlapped' = (overlapped \/ \E o \in Requests \ {r} : request[o] # Idle)
    /\ UNCHANGED <<attempt, bank, cache, deaths, gone>>
Start(r) == Arrive(r, Begun)
\* GET /:id of an attempt: its own meta; one that is over is sent as well.
Open(r, i) == i \in DOMAIN attempt /\ Arrive(r, [Begun EXCEPT !.at = "test", !.id = i])

\* canAttempt, of a free or paid test: an entitlement may be there or not; 403 without one.
CheckAccess(r) ==
    /\ request[r].at = "begun"
    /\ Step(r, "find") \/ Go(r, Idle)
    /\ UNCHANGED <<attempt, bank, cache, deaths, history>>

\* The attempt in progress is resumed; if its time is up (which may be so at any moment, after
\* which it is over) it is submitted, and a new one started.
FindCurrent(r) ==
    /\ request[r].at = "find"
    /\ \/ InProgress = {} /\ Step(r, "look") /\ UNCHANGED attempt
       \/ \E i \in InProgress : Sends(r, i, FALSE) /\ UNCHANGED attempt
       \/ \E i \in InProgress : attempt' = [attempt EXCEPT ![i].status = "submitted"] /\ Step(r, "look")
    /\ UNCHANGED <<bank, cache, deaths, history>>

\* Two reads at once (Promise.all), in either order.
ReadEarlier(r) ==
    /\ request[r].at = "look" /\ request[r].earlier = "unread"
    /\ Go(r, [request[r] EXCEPT !.earlier = IF attempt = <<>> THEN "no" ELSE "yes"])
    /\ UNCHANGED <<attempt, bank, cache, deaths, history>>
\* Mutant: the new attempt leaves nothing out.
ExcludesNothing == {}
Excludes == reported
ReadReported(r) ==
    /\ request[r].at = "look" /\ ~request[r].read
    /\ Go(r, [request[r] EXCEPT !.read = TRUE, !.excluded = Excludes])
    /\ UNCHANGED <<attempt, bank, cache, deaths, history>>

\* Mutant: every attempt of a real test is ranked.
AnyAttempt(earlier) == TRUE
\* Only a student's first attempt of a real test is ranked.
IsFirst(earlier) == earlier = "no"
\* The unique index lets one attempt be in progress; the request that lost sends that one.
Create(r) ==
    /\ request[r].at = "look" /\ request[r].earlier # "unread" /\ request[r].read
    /\ IF InProgress # {}
       THEN (\E i \in InProgress : Sends(r, i, FALSE)) /\ UNCHANGED attempt
       ELSE /\ Len(attempt) < MaxAttempts
            /\ attempt' = Append(attempt, [status |-> "in_progress", firstAttempt |-> IsFirst(request[r].earlier), excluded |-> request[r].excluded])
            /\ Sends(r, Len(attempt) + 1, TRUE)
    /\ UNCHANGED <<bank, cache, deaths, history>>

(***************************************************************************)
(* paperJson: the test's version, the cache under it, else the questions.  *)
(***************************************************************************)
ReadTest(r) ==
    /\ request[r].at = "test"
    /\ Go(r, [request[r] EXCEPT !.at = "cache", !.version = updatedAt])
    /\ UNCHANGED <<attempt, bank, cache, deaths, history>>
ReadCache(r) ==
    /\ request[r].at = "cache"
    /\ LET cached == cache[request[r].version]
       IN  IF cached.some THEN Go(r, [request[r] EXCEPT !.at = "answer", !.version = 0, !.paper = cached.shows]) ELSE Step(r, "questions")
    /\ UNCHANGED <<attempt, bank, cache, deaths, history>>
\* Questions pulled for review are left out.
ReadQuestions(r) ==
    /\ request[r].at = "questions"
    /\ Go(r, [request[r] EXCEPT !.at = "store", !.paper = Questions \ reported])
    /\ UNCHANGED <<attempt, bank, cache, deaths, history>>
StorePaper(r) ==
    /\ request[r].at = "store"
    /\ cache' = [cache EXCEPT ![request[r].version] = Paper(request[r].paper)]
    /\ Go(r, [request[r] EXCEPT !.at = "answer", !.version = 0])
    /\ UNCHANGED <<attempt, bank, deaths, history>>
Send(r) ==
    /\ request[r].at = "answer"
    /\ Go(r, Idle)
    /\ UNCHANGED <<attempt, bank, cache, deaths, history>>

(***************************************************************************)
(* Reviews: flag, then touch the test so that its papers are built again.  *)
(***************************************************************************)
Disturbed(removed) ==
    request' = [r \in Requests |-> IF request[r] = Idle THEN Idle
                                   ELSE [request[r] EXCEPT !.restless = TRUE, !.gone = @ \ removed]]
\* The third open report: the question is flagged unless it is already.
Pull(q) ==
    /\ review[q] = "none" /\ q \notin reported
    /\ reported' = reported \cup {q} /\ review' = [review EXCEPT ![q] = "pulling"]
    /\ Disturbed({})
    /\ UNCHANGED <<attempt, updatedAt, cache, deaths, history>>
\* An admin resolved the reports: the flag is taken away, and the papers may show it again.
Restore(q) ==
    /\ review[q] = "none" /\ q \in reported
    /\ reported' = reported \ {q} /\ review' = [review EXCEPT ![q] = "restoring"]
    /\ gone' = gone \ {q}
    /\ Disturbed({q})
    /\ UNCHANGED <<attempt, updatedAt, cache, deaths, overlapped>>
\* Mutant: the papers in the cache stay.
NotTouched == updatedAt
Touched == updatedAt + 1
RefreshPapers(q) ==
    /\ review[q] # "none" /\ updatedAt < MaxUpdates
    /\ updatedAt' = Touched
    /\ review' = [review EXCEPT ![q] = "none"]
    /\ gone' = IF review[q] = "pulling" THEN gone \cup {q} ELSE gone
    \* A paper under a key that no request holds is never looked up again: as good as gone.
    /\ cache' = [v \in 1..MaxUpdates |-> IF \E r \in Requests : request[r] # Idle /\ request[r].version = v THEN cache[v] ELSE NoPaper]
    /\ Disturbed({})
    /\ UNCHANGED <<attempt, reported, deaths, overlapped>>
\* The process dies in between: the flag stays as it is, the papers are not built again.
DieInReview(q) ==
    /\ review[q] # "none" /\ deaths < MaxDeaths
    /\ review' = [review EXCEPT ![q] = "none"] /\ deaths' = deaths + 1
    /\ UNCHANGED <<attempt, reported, updatedAt, cache, request, history>>

(***************************************************************************)
(* The rest of the world.                                                  *)
(***************************************************************************)
\* The student submits, or the worker does when the time is up.
Submit(i) ==
    /\ i \in InProgress
    /\ attempt' = [attempt EXCEPT ![i].status = "submitted"]
    /\ UNCHANGED <<bank, cache, request, deaths, history>>
\* Redis drops a paper (PAPER_TTL_SEC, eviction).
Evict(v) ==
    /\ cache[v].some
    /\ cache' = [cache EXCEPT ![v] = NoPaper]
    /\ UNCHANGED <<attempt, bank, request, deaths, history>>

Serve(r) ==
    \/ CheckAccess(r) \/ FindCurrent(r) \/ ReadEarlier(r) \/ ReadReported(r) \/ Create(r)
    \/ ReadTest(r) \/ ReadCache(r) \/ ReadQuestions(r) \/ StorePaper(r) \/ Send(r)
Next ==
    \/ \E r \in Requests : Start(r) \/ Serve(r) \/ \E i \in 1..MaxAttempts : Open(r, i)
    \/ \E q \in Questions : Pull(q) \/ Restore(q) \/ RefreshPapers(q) \/ DieInReview(q)
    \/ \E i \in 1..MaxAttempts : Submit(i)
    \/ \E v \in 1..MaxUpdates : Evict(v)

Spec == Init /\ [][Next]_vars

-----------------------------------------------------------------------------
First == {i \in DOMAIN attempt : attempt[i].firstAttempt}

\* A student who sends one request at a time has one ranked attempt of a test at most, whatever is
\* submitted, timed out or crashed in between (startAttempt).
FirstOnce == ~overlapped => Cardinality(First) <= 1

\* ... and one in all, two requests at once included: what models/attempt.ts says of firstAttempt.
OneFirst == Cardinality(First) <= 1

\* A question whose pull is finished (pullIfOverReported, refreshPapers) is in no paper that is
\* asked for afterwards, from the cache or built anew, unless it is put back meanwhile.
FreshPaper == \A r \in Requests : request[r].at = "answer" => request[r].paper \cap request[r].gone = {}

\* The paper of a newly created attempt shows exactly the questions that will be scored, unless a
\* review was under way during the request, or a process died.
ShownIsScored ==
    \A r \in Requests :
        request[r].at = "answer" /\ request[r].created /\ ~request[r].restless /\ deaths = 0 =>
            request[r].paper = Questions \ attempt[request[r].id].excluded
=============================================================================
