---------------------------- MODULE StudentViews ----------------------------
(***************************************************************************)
(* What a student is shown of tests and attempts: which tests are listed   *)
(* and may be started, the paper, and of a scored attempt the result with  *)
(* its rank, the sections to analyse, the solutions, the bookmarks and the *)
(* practice test of the mistakes (apps/api/src/routes/attempts.ts,         *)
(* catalogue.ts, studentContent.ts; packages/core/src/ranks.ts).           *)
(*                                                                         *)
(* A test is [id, status, exam, free, owner, publishAt, totalTime,         *)
(* sections: <<[name, ids]>>], an attempt [id, test, user, status, first,  *)
(* practice, excluded, outcomes: {[q, outcome, marks]}, result].           *)
(***************************************************************************)
EXTENDS Integers, Sequences, FiniteSets, SequencesExt

CONSTANTS None, MinPracticeTime   \* the least time of a practice test

Keep(ids, wanted) == SelectSeq(ids, LAMBDA id : id \in wanted)
AllIds(test) == FlattenSeq([s \in DOMAIN test.sections |-> test.sections[s].ids])

(* Access.  An entitlement is [user, all, exams, expires, revoked]. *)
ActiveEntitlements(entitlements, user, now) ==
    {e \in entitlements : e.user = user /\ ~e.revoked /\ e.expires > now}
AccessFor(entitlements, user, now) ==
    LET list == ActiveEntitlements(entitlements, user, now)
    IN  [all |-> \E e \in list : e.all, exams |-> UNION {e.exams : e \in list}]
CanAttempt(entitlements, user, test, now) ==
    \/ test.free \/ test.status = "practice"
    \/ \E e \in entitlements : e.user = user /\ ~e.revoked /\ e.expires > now /\ (e.all \/ test.exam \in e.exams)

\* A published test is listed from its publishAt on.
Public(test, now) == test.status = "published" /\ (test.publishAt = None \/ test.publishAt <= now)
ExamTests(tests, exam, now) == {t \in tests : t.exam = exam /\ Public(t, now)}
Visible(test, user, now) == Public(test, now) \/ (test.status = "practice" /\ test.owner = user)
Start(entitlements, test, user, now) ==
    CASE ~Visible(test, user, now) -> 404
      [] Visible(test, user, now) /\ ~CanAttempt(entitlements, user, test, now) -> 403
      [] OTHER -> 200

(* The paper: the questions in their places, without those that are gone. *)
ToStudentPaper(test, bank) ==
    [s \in DOMAIN test.sections |-> [name |-> test.sections[s].name, ids |-> Keep(test.sections[s].ids, bank)]]

(* Rank: the rank set of the test, or the scored first attempts in MongoDB when it lacks this one. *)
GetRank(set, attempts, test, id) ==
    LET ranked == {a \in attempts : a.test = test /\ a.status = "scored" /\ a.first /\ ~a.practice}
        rebuilt == [i \in {a.id : a \in ranked} |-> (CHOOSE a \in ranked : a.id = i).result.score]
        scores == IF id \in DOMAIN set THEN set ELSE rebuilt
        total == Cardinality(DOMAIN scores)
        lower == Cardinality({i \in DOMAIN scores : scores[i] < scores[id]})
    IN  IF id \notin DOMAIN scores THEN None
        ELSE [rank |-> 1 + Cardinality({i \in DOMAIN scores : scores[i] > scores[id]}),
              total |-> total, percentile |-> (20000 * lower + total) \div (2 * total)]
ShowsRank(attempt) == attempt.first /\ ~attempt.practice
Result(set, attempts, attempt) ==
    IF attempt.status # "scored" THEN [result |-> None, rank |-> None]
    ELSE [result |-> attempt.result,
          rank |-> IF ShowsRank(attempt) THEN GetRank(set, attempts, attempt.test, attempt.id) ELSE None]

(* Solutions and analysis, of scored attempts only. *)
Readable(attempt, user) == attempt.user = user /\ attempt.status = "scored"
AnalysedSections(test, attempt) ==
    [s \in DOMAIN test.sections |->
        [name |-> test.sections[s].name, ids |-> SelectSeq(test.sections[s].ids, LAMBDA id : id \notin attempt.excluded)]]
Solutions(test, attempt, bank, bookmarks) ==
    LET Item(s, i) ==
            LET id == test.sections[s].ids[i]
                mine == {o \in attempt.outcomes : o.q = id}
            IN  [q |-> id, number |-> i, section |-> test.sections[s].name,
                 outcome |-> IF mine = {} THEN "skipped" ELSE (CHOOSE o \in mine : TRUE).outcome,
                 marks |-> IF mine = {} THEN 0 ELSE (CHOOSE o \in mine : TRUE).marks,
                 bookmarked |-> id \in bookmarks]
        Items(s) == [i \in DOMAIN test.sections[s].ids |-> Item(s, i)]
    IN  SelectSeq(FlattenSeq([s \in DOMAIN test.sections |-> Items(s)]),
                  LAMBDA item : item.q \in bank \ attempt.excluded)

(* Bookmarks: of the questions in tests that the student has finished. *)
Finished(attempts, user) == {a.test : a \in {x \in attempts : x.user = user /\ x.status \in {"submitted", "scored"}}}
MayBookmark(tests, attempts, user, q) ==
    \E t \in tests : t.id \in Finished(attempts, user) /\ q \in ToSet(AllIds(t))
AddBookmark(tests, attempts, user, q, bookmarks) ==
    IF MayBookmark(tests, attempts, user, q) THEN bookmarks \cup {q} ELSE bookmarks
BookmarkList(bookmarks, bank) == bookmarks \cap bank

(* Practice: the mistakes of an attempt, in proportion of time, under the same marking. *)
Wanted(attempt, include) ==
    {o.q : o \in {x \in attempt.outcomes : x.outcome \in {"wrong", "partial"} \/ (include = "wrong_skipped" /\ x.outcome = "skipped")}}
Practice(test, attempt, include) ==
    LET wanted == Wanted(attempt, include)
        all == [s \in DOMAIN test.sections |-> [name |-> test.sections[s].name, ids |-> Keep(test.sections[s].ids, wanted)]]
        total == IF AllIds(test) = <<>> THEN 1 ELSE Len(AllIds(test))
        share == (2 * test.totalTime * Cardinality(wanted) + total) \div (2 * total)
    IN  IF wanted = {} THEN None
        ELSE [test |-> [id |-> None, status |-> "practice", exam |-> test.exam, free |-> TRUE, owner |-> attempt.user,
                        publishAt |-> None, totalTime |-> IF share < MinPracticeTime THEN MinPracticeTime ELSE share,
                        sections |-> SelectSeq(all, LAMBDA s : s.ids # <<>>)],
              count |-> Cardinality(wanted)]
=============================================================================
