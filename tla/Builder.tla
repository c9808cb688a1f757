------------------------------- MODULE Builder -------------------------------
(***************************************************************************)
(* The test builder (apps/api/src/services/testBuilder.ts): the checks     *)
(* that publishing requires, and the filling of one section from the bank  *)
(* by a rule.  The bank is a set of question documents                     *)
(*   [id, root, hash, section, family, difficulty, topic, nodes, approved, *)
(*    latest, answered, numeric, options]                                  *)
(* (options is how many); a section of a test is a sequence of ids.        *)
(***************************************************************************)
EXTENDS Integers, Sequences, FiniteSets, FiniteSetsExt, SequencesExt

CONSTANTS
    Oversample,    \* $sample takes twice the size and this many more (5)
    None

Difficulties == <<"easy", "medium", "hard">>
AllQuestionIds(sections) == FlattenSeq(sections)
Doc(bank, id) == CHOOSE q \in bank : q.id = id
Known(bank, id) == \E q \in bank : q.id = id
\* loadQuestions
LoadQuestions(bank, ids) == {q \in bank : q.id \in ids}

(* Checks. *)
\* mergeGroups: overlapping groups become one.
MergeGroups(groups) ==
    LET Grow(ids) == ids \cup UNION {g \in groups : g \cap ids # {}}
        Whole(g) == LET reach[n \in 0..Cardinality(groups)] == IF n = 0 THEN g ELSE Grow(reach[n - 1])
                    IN  reach[Cardinality(groups)]
    IN  {Whole(g) : g \in groups}
\* The same content, or versions of one question.
SameKey(bank, a, b) ==
    Doc(bank, a).hash = Doc(bank, b).hash \/ Doc(bank, a).root = Doc(bank, b).root
Duplicates(bank, ids) ==
    MergeGroups({{ids[i], ids[j]} : <<i, j>> \in
        {p \in (DOMAIN ids) \X (DOMAIN ids) :
            p[1] < p[2] /\ Known(bank, ids[p[1]]) /\ Known(bank, ids[p[2]]) /\ SameKey(bank, ids[p[1]], ids[p[2]])}})
\* expected: the template's count of each section.
ComputeChecks(bank, sections, expected, optionCount) ==
    LET ids == AllQuestionIds(sections)
        present == {i \in ToSet(ids) : Known(bank, i)}
        With(P(_)) == {i \in present : P(Doc(bank, i))}
        missing == ToSet(ids) \ present
        missingAnswers == With(LAMBDA q : ~q.answered)
        drafts == With(LAMBDA q : ~q.approved)
        mismatch == With(LAMBDA q : ~q.numeric /\ q.options # optionCount)
        duplicates == Duplicates(bank, ids)
    IN  [missing |-> missing, missingAnswers |-> missingAnswers, drafts |-> drafts,
         duplicates |-> duplicates, optionCountMismatch |-> mismatch,
         ok |-> /\ \A s \in DOMAIN sections : Len(sections[s]) = (IF s \in DOMAIN expected THEN expected[s] ELSE 0)
                /\ missing \cup missingAnswers \cup drafts \cup mismatch = {} /\ duplicates = {}]

(* Filling. *)
SumMix(f) == FoldFunction(+, 0, f)
\* splitByMix: floors, then one each to the largest remainders; equal ones in the order of Difficulties.
SplitByMix(count, mix) ==
    LET total == SumMix(mix)
        floors == [d \in DOMAIN mix |-> (count * mix[d]) \div total]
        Rest(d) == (count * mix[d]) % total
        Index(d) == CHOOSE i \in DOMAIN Difficulties : Difficulties[i] = d
        Before(d) == {e \in DOMAIN mix : Rest(e) > Rest(d) \/ (Rest(e) = Rest(d) /\ Index(e) < Index(d))}
    IN  [d \in DOMAIN mix |->
            floors[d] + (IF Cardinality(Before(d)) < count - SumMix(floors) THEN 1 ELSE 0)]

\* recentlyUsedRoots: published is the tests that were, each with its day and its ids.
RecentlyUsedRoots(bank, published, days, today) ==
    IF days <= 0 THEN {}
    ELSE {q.root : q \in {d \in bank : \E t \in published : t.day >= today - days /\ d.id \in t.ids}}

\* What may be sampled: the base filter of the section.
Base(bank, test, s, rule, excludedRoots, excludedHashes) ==
    {q \in bank :
        /\ q.latest /\ q.approved
        /\ q.family = test.family /\ q.section \in test.names[s]
        /\ q.root \notin excludedRoots /\ q.hash \notin excludedHashes
        /\ rule.topics # {} => q.topic \in rule.topics
        /\ rule.nodes # {} => q.nodes \cap rule.nodes # {}}

\* sample: any so many of them, in any order.
Sample(matching, size) ==
    IF size <= 0 THEN {<<>>}
    ELSE UNION {SetToSeqs(some) : some \in kSubset(Min({Cardinality(matching), 2 * size + Oversample}), matching)}

\* Mutant: a copy of a picked question is not looked for.
TakeAll(state, candidates, limit) ==
    [state EXCEPT !.picked = @ \o SubSeq(candidates, 1, Min({limit, Len(candidates)}))]
\* take: up to the limit, none with the content or the root of one taken before.
Take(state, candidates, limit) ==
    LET Step1(acc, q) ==
            IF acc.added >= limit \/ q.hash \in acc.hashes \/ q.root \in acc.roots THEN acc
            ELSE [picked |-> Append(acc.picked, q), hashes |-> acc.hashes \cup {q.hash},
                  roots |-> acc.roots \cup {q.root}, added |-> acc.added + 1]
    IN  FoldLeft(Step1, [state EXCEPT !.added = 0], candidates)

\* The mix's buckets one after the other, then a top-up from any difficulty.
Buckets(base, targets, start) ==
    LET After(states, d) ==
            UNION {{Take(st, c, targets[d]) : c \in Sample({q \in base : q.difficulty = d}, targets[d])} : st \in states}
    IN  FoldLeft(After, {start}, Difficulties)
TopUp(base, state, count) ==
    LET remaining == count - Len(state.picked)
    IN  IF remaining <= 0 THEN {state}
        ELSE {Take(state, c, remaining) : c \in Sample(base \ ToSet(state.picked), remaining)}

\* fillSection: every test it may leave, with its report.
FillSection(bank, test, s, rule, published, today) ==
    LET cleared == IF rule.replace THEN [test.sections EXCEPT ![s] = <<>>] ELSE test.sections
        inTest == LoadQuestions(bank, ToSet(AllQuestionIds(cleared)))
        roots == {q.root : q \in inTest} \cup RecentlyUsedRoots(bank, published, rule.days, today)
        hashes == {q.hash : q \in inTest}
        base == Base(bank, test, s, rule, roots, hashes)
        start == [picked |-> <<>>, hashes |-> hashes, roots |-> roots, added |-> 0]
        mixed == IF rule.mix = None THEN {start} ELSE Buckets(base, SplitByMix(rule.count, rule.mix), start)
    IN  {[sections |-> [cleared EXCEPT ![s] = @ \o [i \in DOMAIN st.picked |-> st.picked[i].id]],
          picked |-> st.picked, shortfall |-> rule.count - Len(st.picked)] :
            st \in UNION {TopUp(base, m, rule.count) : m \in mixed}}
=============================================================================
