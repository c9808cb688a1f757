---------------------------- MODULE ScoringRules ----------------------------
(***************************************************************************)
(* How an attempt is scored (packages/core/src/scoring.ts).  Marks are in  *)
(* thousandths, so that the rounding to hundredths shows, and exact but    *)
(* for the halves whose double lies below them; the times and the names of *)
(* the questions are left out.  A typed answer is a number in *)
(* thousandths, or NaN for what the keypad's text is not a number.         *)
(***************************************************************************)
EXTENDS Cases, Integers, Sequences, FiniteSets, FiniteSetsExt, SequencesExt

CONSTANTS
    NaN,
    Low,      \* halves of a hundredth, <<num, den>> thousandths, whose double is less
    Schemes,  \* the templates of the tests
    Asked,    \* questions, each with a student's answer to it
    Tests,    \* the sections of tests of these
    Picks     \* options that may be chosen

Evaluated == {"answered", "answered_marked"}
IsNumericType(type) == type \in {"integer", "numeric"}

QuestionTypes == {"mcq_single", "mcq_multi", "integer", "numeric"}
\* round2 of num / den: to the nearest hundredth, a half up if its double is not below it.
Hundredths(num, den) ==
    LET up == ((2 * num + 10 * den) \div (20 * den)) * 10
    IN  IF <<num, den>> \in Low THEN up - 10 ELSE up
Round2(mills) == Hundredths(mills, 1)

\* What the keypad may show, by its parts: sign, digits, point, digits behind the point.
Shapes == [minus: BOOLEAN, digits: BOOLEAN, point: BOOLEAN, decimals: BOOLEAN]
ParseNumeric(shape, mills) ==
    IF (shape.digits /\ (shape.decimals => shape.point)) \/ (shape.point /\ shape.decimals)
    THEN (IF shape.minus THEN -mills ELSE mills)
    ELSE NaN

MarkingFor(template, type) ==
    IF type \in DOMAIN template.markingByType THEN template.markingByType[type] ELSE template.marking

\* An answer is skipped when it is none, is not final, is empty or does not fit the question.
Skipped(q, answer) ==
    \/ answer = None
    \/ answer.state \notin Evaluated
    \/ answer.response = None
    \/ IsNumericType(q.type) /\ (answer.response.kind # "typed" \/ answer.response.value = NaN)
    \/ ~IsNumericType(q.type) /\ (answer.response.kind # "chosen" \/ answer.response.value = <<>>)

\* Mutant: a wrong option among the right ones is forgiven.
AnyOverlap(chosen, key) == chosen \cap key # {}
\* Partial credit is only for right options.
AllRight(chosen, key) == chosen \subseteq key

Outcome(q, answer, template) ==
    IF Skipped(q, answer) THEN "skipped"
    ELSE IF IsNumericType(q.type)
    THEN IF q.numAnswer # None /\ answer.response.value \in q.numAnswer.min..q.numAnswer.max
         THEN "correct" ELSE "wrong"
    ELSE LET chosen == ToSet(answer.response.value)
             key == ToSet(q.correct)
         IN  CASE key = {} -> "wrong"
               [] key # {} /\ chosen = key -> "correct"
               [] OTHER -> IF q.type = "mcq_multi" /\ template.multiPartial /\ AllRight(chosen, key)
                           THEN "partial" ELSE "wrong"

Marks(q, answer, template) ==
    LET m == MarkingFor(template, q.type)
        outcome == Outcome(q, answer, template)
    IN  CASE outcome = "correct" -> m.correct
          [] outcome = "wrong" -> m.wrong
          [] outcome = "skipped" -> 0
          [] outcome = "partial" ->
                Hundredths(m.correct * Cardinality(ToSet(answer.response.value)), Cardinality(ToSet(q.correct)))

\* What questionSchema, markingSchema and the answers' schema let in.
Scorable(q, template) ==
    /\ q.type \in QuestionTypes /\ q.correct \in Seq(Nat)
    /\ MarkingFor(template, q.type).correct \in Nat
    /\ MarkingFor(template, q.type).wrong \in Int /\ MarkingFor(template, q.type).wrong <= 0
Readable(q, answer) == ~Skipped(q, answer) /\ ~IsNumericType(q.type) => answer.response.value \in Seq(Nat)
\* A final answer with these options.
Gives(chosen) == [state |-> "answered", response |-> [kind |-> "chosen", value |-> chosen]]

ASSUME LowAssumption ==
    \A half \in Low : half \in Int \X (Nat \ {0}) /\ (2 * half[1] + 10 * half[2]) % (20 * half[2]) = 0
ASSUME AskedAssumption == \A template \in Schemes, asked \in Asked : Scorable(asked.q, template) /\ Readable(asked.q, asked.answer)
ASSUME TestsAssumption == Tests \subseteq Seq(Seq(Asked))
ASSUME PicksAssumption == Picks \subseteq Seq(Nat) \ {<<>>}
\* No answer is the lack of one.
ASSUME GivenAssumption == \A chosen \in Picks : Gives(chosen) # None /\ Gives(chosen).response # None

SumOf(seq) == FoldLeft(+, 0, seq)
\* A section: its questions with their answers.
Count(section, outcome, template) ==
    Cardinality({i \in DOMAIN section : Outcome(section[i].q, section[i].answer, template) = outcome})
SectionResult(section, template) ==
    [score |-> Round2(SumOf([i \in DOMAIN section |-> Marks(section[i].q, section[i].answer, template)])),
     maxScore |-> Round2(SumOf([i \in DOMAIN section |-> MarkingFor(template, section[i].q.type).correct])),
     correct |-> Count(section, "correct", template),
     wrong |-> Count(section, "wrong", template),
     partial |-> Count(section, "partial", template),
     skipped |-> Count(section, "skipped", template)]

ScoreAttempt(sections, template) ==
    LET results == [s \in DOMAIN sections |-> SectionResult(sections[s], template)]
        Total(f) == SumOf([s \in DOMAIN sections |-> results[s][f]])
        score == Round2(Total("score"))
        maxScore == Round2(Total("maxScore"))
        attempted == Total("correct") + Total("wrong") + Total("partial")
    IN  [score |-> score, maxScore |-> maxScore,
         correct |-> Total("correct"), wrong |-> Total("wrong"),
         partial |-> Total("partial"), skipped |-> Total("skipped"),
         \* In hundredths of a per cent.
         accuracy |-> IF attempted = 0 THEN 0
                      ELSE (2 * 10000 * Total("correct") + attempted) \div (2 * attempted),
         passed |-> IF template.qualifyingPercent = None THEN None
                    ELSE maxScore > 0 /\ 100 * score >= template.qualifyingPercent * maxScore]

(***************************************************************************)
(* What the scores of a test promise.                                      *)
(***************************************************************************)
MarksOf(q, chosen, template) == Marks(q, Gives(chosen), template)
\* Of two answers to a question, of which one has all the options of the other.
OptionsFair(q, template, fewer, more) ==
    IF ToSet(more) \subseteq ToSet(q.correct)
    THEN Round2(MarksOf(q, fewer, template)) <= Round2(MarksOf(q, more, template))
    ELSE MarksOf(q, more, template) <= MarksOf(q, fewer, template)
\* What the rounding may add: a hundredth per partial answer where the full marks are no hundredths.
Extra(section, template) ==
    SumOf([i \in DOMAIN section |->
              IF /\ Outcome(section[i].q, section[i].answer, template) = "partial"
                 /\ MarkingFor(template, section[i].q.type).correct % 10 # 0
              THEN 10 ELSE 0])
TotalsFair(sections, template) ==
    LET result == ScoreAttempt(sections, template)
        Shown == [s \in DOMAIN sections |-> SectionResult(sections[s], template).score]
    IN  /\ result.score = SumOf(Shown)
        /\ result.score <= result.maxScore + SumOf([s \in DOMAIN sections |-> Extra(sections[s], template)])
        /\ result.correct + result.wrong + result.partial + result.skipped = SumOf([s \in DOMAIN sections |-> Len(sections[s])])
ChoicesFair(sections, template) ==
    \A s \in DOMAIN sections : \A i \in DOMAIN sections[s] :
        sections[s][i].q.type = "mcq_multi" =>
            \A fewer, more \in Picks : ToSet(fewer) \subseteq ToSet(more) => OptionsFair(sections[s][i].q, template, fewer, more)

PickScoring ==
    /\ case = NoCase("scoring")
    /\ \E template \in Schemes, sections \in Tests :
           /\ case' = [area |-> "scoring", template |-> template, sections |-> sections]
ScoringSpec == case = NoCase("scoring") /\ [][PickScoring \/ Again]_case

\* Marks are fair (scoreAttempt, scoreQuestion): the sections' shown scores add up to the shown
\* total, every question is counted once, nobody beats the maximum but by the rounding of partial
\* credit for full marks that are no hundredths, and on a question with several right options one
\* more right option never costs marks and one more wrong one never brings any.
MarksFair == case.area = "scoring" => TotalsFair(case.sections, case.template) /\ ChoicesFair(case.sections, case.template)
=============================================================================
