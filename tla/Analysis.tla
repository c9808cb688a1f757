------------------------------ MODULE Analysis ------------------------------
(***************************************************************************)
(* What is said about scored attempts: the analysis of one                 *)
(* (packages/core/src/analysis.ts), the benchmarks of a test, and the      *)
(* nightly statistics of every question (packages/core/src/                *)
(* questionStats.ts).  Marks are whole numbers, percentages are in         *)
(* hundredths.  An outcome is [q, outcome, marks]; an attempt              *)
(*   [id, test, ranked, score, time, sections, outcomes, responses]        *)
(* where sections maps a section's name to its score and responses gives   *)
(* the set of options that was chosen for a question, or None.             *)
(***************************************************************************)
EXTENDS Integers, Sequences, FiniteSets, SequencesExt, FiniteSetsExt

CONSTANTS
    MinTopicQuestions,   \* MIN_TOPIC_QUESTIONS
    StatsMinAttempts,    \* STATS_MIN_ATTEMPTS
    SuspectAccuracy,     \* SUSPECT_ACCURACY, in per cent
    None

\* round2((a / b) * 100), halves up.
Percent(a, b) == (20000 * a + b) \div (2 * b)
Sum(S, f(_)) == MapThenSumSet(f, S)

(* The analysis of one attempt. *)
\* The questions of the test that have an outcome; one that was left out keeps its number free.
Questions(sections, outcomes) ==
    LET Of(s) == SelectSeq([i \in DOMAIN sections[s].ids |-> [q |-> sections[s].ids[i], number |-> i, section |-> sections[s].name]],
                           LAMBDA e : \E o \in outcomes : o.q = e.q)
        listed == FlattenSeq([s \in DOMAIN sections |-> Of(s)])
        OutcomeOf(q) == CHOOSE o \in outcomes : o.q = q
    IN  [i \in DOMAIN listed |-> listed[i] @@ [outcome |-> OutcomeOf(listed[i].q).outcome, marks |-> OutcomeOf(listed[i].q).marks]]
\* A question's topic, else its subject, else its section.
TopicOf(meta, e) ==
    CASE meta[e.q].topic # None -> meta[e.q].topic
      [] meta[e.q].topic = None /\ meta[e.q].subject # None -> meta[e.q].subject
      [] OTHER -> e.section
\* Mutant: the same topic of two sections is one.
ByName(meta, e) == [topic |-> TopicOf(meta, e), section |-> None]
TopicKey(meta, e) == [topic |-> TopicOf(meta, e), section |-> e.section]
\* In the order in which the topics first appear.
Topics(meta, questions) ==
    LET keys == [i \in DOMAIN questions |-> TopicKey(meta, questions[i])]
        firsts == SelectSeq([i \in DOMAIN keys |-> i], LAMBDA i : \A j \in 1..(i - 1) : keys[j] # keys[i])
        Many(k, outcomes) == Cardinality({i \in DOMAIN keys : keys[i] = k /\ questions[i].outcome \in outcomes})
        Topic(k) == [topic |-> k.topic, section |-> k.section,
                     total |-> Many(k, {"correct", "wrong", "partial", "skipped"}),
                     correct |-> Many(k, {"correct"}), skipped |-> Many(k, {"skipped"}),
                     wrong |-> Many(k, {"wrong", "partial"}),
                     accuracy |-> Percent(Many(k, {"correct"}), Many(k, {"correct", "wrong", "partial", "skipped"}))]
    IN  [n \in DOMAIN firsts |-> Topic(keys[firsts[n]])]
\* Stable, worst (or best) first, five at most.
Weak(topics) ==
    LET low == SelectSeq(topics, LAMBDA t : t.total >= MinTopicQuestions /\ t.accuracy < 5000)
        order == SortSeq([i \in DOMAIN low |-> <<low[i], i>>],
                         LAMBDA a, b : a[1].accuracy < b[1].accuracy \/ (a[1].accuracy = b[1].accuracy /\ a[2] < b[2]))
    IN  [i \in 1..Min({5, Len(order)}) |-> order[i][1].topic]
Strong(topics) ==
    LET high == SelectSeq(topics, LAMBDA t : t.total >= MinTopicQuestions /\ t.accuracy >= 7500)
        order == SortSeq([i \in DOMAIN high |-> <<high[i], i>>],
                         LAMBDA a, b : a[1].accuracy > b[1].accuracy \/ (a[1].accuracy = b[1].accuracy /\ a[2] < b[2]))
    IN  [i \in 1..Min({5, Len(order)}) |-> order[i][1].topic]

Cleared(cutoffs, score, sections) ==
    IF cutoffs.overall = None /\ \A s \in DOMAIN sections : sections[s].cutoff = None THEN None
    ELSE /\ cutoffs.overall = None \/ score >= cutoffs.overall
         /\ \A s \in DOMAIN sections : sections[s].cutoff = None \/ sections[s].score >= sections[s].cutoff
\* adviceFor: what the sentence is about.
AdviceFor(a) ==
    LET skipped == Cardinality({i \in DOMAIN a.questions : a.questions[i].outcome = "skipped"})
        correct == Cardinality({i \in DOMAIN a.questions : a.questions[i].outcome = "correct"})
        attempted == Len(a.questions) - skipped
        losses == {a.sections[s].negativeMarks : s \in DOMAIN a.sections}
        named == {i \in DOMAIN a.topics : a.weak # <<>> /\ a.topics[i].topic = a.weak[1]}
    IN  CASE a.overall # None /\ a.cleared = FALSE -> [about |-> "cutoff", gap |-> a.overall - a.score]
          [] ~(a.overall # None /\ a.cleared = FALSE) /\ losses # {} /\ Max(losses \cup {0}) >= 2 ->
                [about |-> "negative", marks |-> Max(losses)]
          [] OTHER ->
                IF named # {}
                THEN [about |-> "topic", correct |-> a.topics[Min(named)].correct, total |-> a.topics[Min(named)].total]
                ELSE IF Len(a.questions) > 0 /\ 10 * skipped > 4 * Len(a.questions) THEN [about |-> "speed", skipped |-> skipped]
                ELSE [about |-> "good", accuracy |-> IF attempted = 0 THEN 0 ELSE (200 * correct + attempted) \div (2 * attempted)]

\* result: [score, sections: <<[name, score, correct, wrong, partial]>>]; cutoffs: [overall, sections].
BuildAnalysis(sections, result, outcomes, meta, cutoffs) ==
    LET questions == Questions(sections, outcomes)
        topics == Topics(meta, questions)
        Section(r) ==
            LET inSection == {i \in DOMAIN questions : questions[i].section = r.name}
                attempted == r.correct + r.wrong + r.partial
            IN  r @@ [accuracy |-> IF attempted = 0 THEN 0 ELSE Percent(r.correct, attempted),
                      negativeMarks |-> -Sum({i \in inSection : questions[i].marks < 0}, LAMBDA i : questions[i].marks),
                      cutoff |-> IF r.name \in DOMAIN cutoffs.sections THEN cutoffs.sections[r.name] ELSE None]
        rows == [s \in DOMAIN result.sections |-> Section(result.sections[s])]
        base == [score |-> result.score, sections |-> rows, topics |-> topics, questions |-> questions,
                 weak |-> Weak(topics), strong |-> Strong(topics),
                 overall |-> cutoffs.overall, cleared |-> Cleared(cutoffs, result.score, rows)]
    IN  base @@ [advice |-> AdviceFor(base)]

(* Benchmarks of a test's ranked attempts. *)
Ranked(attempts, test) == {a \in attempts : a.ranked /\ a.test = test}
\* The best score, the fastest of equal ones; Mongo may return any of the rest.
Toppers(attempts, test) ==
    LET all == Ranked(attempts, test)
    IN  {a \in all : \A b \in all : b.score < a.score \/ (b.score = a.score /\ b.time >= a.time)}
\* round2 of the average, in hundredths; halves go up.
Average(value) ==
    LET S == DOMAIN value
    IN  (200 * Sum(S, LAMBDA a : value[a]) + Cardinality(S)) \div (2 * Cardinality(S))
Benchmarks(attempts, test, top) ==
    LET all == Ranked(attempts, test)
        With(n) == {a \in all : n \in DOMAIN a.sections}
    IN  [count |-> Cardinality(all), score |-> Average([a \in all |-> a.score]),
         sections |-> [n \in DOMAIN top.sections |-> Average([a \in With(n) |-> a.sections[n]])]]
\* correctPercentByQuestion, for a question with an outcome.
CorrectPercent(attempts, test, q) ==
    LET rows == {a \in Ranked(attempts, test) : \E o \in a.outcomes : o.q = q}
        right == {a \in rows : \E o \in a.outcomes : o.q = q /\ o.outcome = "correct"}
    IN  Percent(Cardinality(right), Cardinality(rows))

(* The nightly statistics. *)
Outcome(a, q) == (CHOOSE o \in a.outcomes : o.q = q).outcome
Has(a, q) == \E o \in a.outcomes : o.q = q
\* Mutant: the attempts that skipped the question count as tries.
AllTries(attempts, q) == {a \in attempts : a.ranked /\ Has(a, q)}
Tries(attempts, q) == {a \in attempts : a.ranked /\ Has(a, q) /\ Outcome(a, q) # "skipped"}
Right(attempts, q) == {a \in attempts : a.ranked /\ Has(a, q) /\ Outcome(a, q) = "correct"}
\* optionSplit: how many chose each option.
Split(attempts, q, options) ==
    [i \in 0..(options - 1) |->
        Cardinality({a \in Tries(attempts, q) : a.responses[q] # None /\ i \in a.responses[q]})]
\* The top and the bottom 27 % of each test, in the order Mongo sorted them: best first.
Bands(order) ==
    LET group == (27 * Len(order)) \div 100
    IN  [upper |-> {order[i] : i \in 1..group}, lower |-> {order[i] : i \in (Len(order) - group + 1)..Len(order)}]
\* a.upper and a.lower, summed over the tests' orders; in hundredths, None with fewer than five.
Discrimination(orders, q) ==
    LET In(band) == UNION {{a \in Bands(order)[band] : Has(a, q)} : order \in orders}
        RightIn(band) == {a \in In(band) : Outcome(a, q) = "correct"}
        upper == Cardinality(In("upper"))
        lower == Cardinality(In("lower"))
        cross == Cardinality(RightIn("upper")) * lower - Cardinality(RightIn("lower")) * upper
    IN  IF upper < 5 \/ lower < 5 THEN None ELSE (200 * cross + upper * lower) \div (2 * upper * lower)
\* A question: [id, single, correct (a set), options (how many), suspect (its flag)].
Suspect(attempts, q) ==
    LET split == Split(attempts, q.id, q.options)
        tries == Cardinality(Tries(attempts, q.id))
        accuracy == IF tries = 0 THEN 0 ELSE Percent(Cardinality(Right(attempts, q.id)), tries)
        keyChosen == Max({0} \cup {split[i] : i \in q.correct \cap DOMAIN split})
        beaten == q.single /\ \E i \in (DOMAIN split) \ q.correct : split[i] > keyChosen
    IN  tries >= StatsMinAttempts /\ (accuracy < 100 * SuspectAccuracy \/ beaten)
\* Only questions with an outcome are visited: the flag of the others stays.
ComputeQuestionStats(attempts, bank) ==
    {IF \E a \in attempts : a.ranked /\ Has(a, q.id) THEN [q EXCEPT !.suspect = Suspect(attempts, q)] ELSE q : q \in bank}
=============================================================================
