------------------------------- MODULE MCRules -------------------------------
(***************************************************************************)
(* The pure rules of the program, each checked against what it is for over *)
(* small inputs: a state is one input of one rule, picked by one action    *)
(* per rule, and an invariant per rule says what its result must be.  And  *)
(* the clock of one attempt, which runs while no input is picked.          *)
(***************************************************************************)
EXTENDS ScoringRules, Prices, Import, ClockedAttempt

CONSTANTS MaxOptions, Window, MaxAttempts, Oversample,
          MinTopicQuestions, StatsMinAttempts, SuspectAccuracy, MinPracticeTime

P == INSTANCE PaperText
K == INSTANCE KeyRules
A == INSTANCE AiExtract
B == INSTANCE Builder
Y == INSTANCE Analysis
V == INSTANCE StudentViews

Areas == {"scoring", "price", "paper", "key", "chunks", "calls", "fill", "import", "analysis", "stats", "views", "access", "clock"}
Seqs(set, low, high) == UNION {[1..n -> set] : n \in low..high}
Total(seq) == FoldLeft(+, 0, seq)

(***************************************************************************)
(* Scoring: two sections of one question each, or one of a question thrice.*)
(***************************************************************************)
Chosen(options) == [kind |-> "chosen", value |-> options]
Typed(value) == [kind |-> "typed", value |-> value]
Answer(state, response) == [state |-> state, response |-> response]
ChoiceCases ==
    [q: [type: {"mcq_multi", "mcq_single"}, correct: {<<0>>, <<1, 2>>, <<0, 1, 2>>}, numAnswer: {None}],
     answer: {None, Answer("marked", Chosen(<<1>>)), Answer("answered", Typed(1))}
             \cup {Answer("answered", Chosen(o)) : o \in {<<>>, <<1>>, <<2, 1>>, <<0, 1>>}}]
NumberCases ==
    [q: [type: {"numeric"}, correct: {<<>>}, numAnswer: {None, [min |-> -1000, max |-> 1500]}],
     answer: {Answer("answered_marked", Typed(v)) : v \in {NaN, -1001, -1000, 0, 1500, 1501}}]
Markings == {[correct |-> 4000, wrong |-> -1000], [correct |-> 1000, wrong |-> -333],
             [correct |-> 2010, wrong |-> 0], [correct |-> 8, wrong |-> 0]}
\* The halves among their sums and shares that Math.round(n * 100) rounds down.
MCLow == {<<1005, 1>>, <<2010, 2>>, <<3015, 1>>}
MCSchemes ==
    [marking: Markings, markingByType: {<<>>, [mcq_single |-> [correct |-> 1005, wrong |-> 0]]},
     multiPartial: BOOLEAN, qualifyingPercent: {40}]
MCAsked == ChoiceCases \cup NumberCases
MCTests ==
    {<< <<one>>, <<two>> >> : one \in ChoiceCases, two \in {c \in ChoiceCases : c.q.type = "mcq_single"} \cup NumberCases}
    \cup {<< <<one, one, one>> >> : one \in ChoiceCases}
\* Every answer to a question of three options.
MCPicks == {SetToSeq(options) : options \in SUBSET (0..2) \ {{}}}

(***************************************************************************)
(* Checkout.                                                               *)
(***************************************************************************)
MCPlanPrices == {MinPricePaise, MinPricePaise + 1, 149, 199, 1999, 49900}

(***************************************************************************)
(* The clock: tests of up to three sections, locked or not.                *)
(***************************************************************************)
Added(times) == Clock!TimesUpTo(times)[Len(times)]
MCTemplates ==
    {[times |-> times, total |-> Added(times), locked |-> TRUE] : times \in UNION {[1..n -> {1, 3}] : n \in 1..3}}
    \cup {[times |-> <<2, None>>, total |-> 4, locked |-> FALSE]}
    \* Stored without the template's check: missing and zero times, times beyond the total.
    \cup {[times |-> times, total |-> 5, locked |-> TRUE] :
              times \in {<<>>, <<0, 2>>, <<None, 2>>, <<2, 0, 2>>, <<1, None, 3>>, <<3, 3, 2>>, <<6, 1>>}}

(***************************************************************************)
(* Papers: a paper is laid out in lines and pages, and read back.          *)
(***************************************************************************)
Line(kind, name) == [kind |-> kind, name |-> name, hindi |-> FALSE]
Text(name) == Line("text", name)
Letter(index) == [kind |-> "letter", value |-> index]
Number(value) == [kind |-> "number", value |-> value]
Options(first, last, name) == Line("options", name) @@ [first |-> first, last |-> last]
\* The lines that several pages share, and the statements inside a question.
Same == <<0, "options">>
Running == <<0, "SBI PO 2024">>
SectionB == <<0, "SECTION B">>
Statement == <<"1.", "2.">>
InHindi(line) == [line EXCEPT !.hindi = TRUE]

\* The printed number of the i-th question; numbers restart under the heading in front of `restart`.
Printed(paper, i) == IF paper.restart = 0 \/ i < paper.restart THEN i ELSE i - paper.restart + 1
\* Statements "1." and "2." inside a question, where neither is the next number.
HasStatements(paper, i) == paper.layouts[i] = "split" /\ Printed(paper, i) >= 2
OptionLines(paper, i) ==
    CASE paper.layouts[i] = "plain" -> <<Options(0, 3, Same)>>
      [] paper.layouts[i] = "split" -> <<Options(0, 1, <<i, "ab">>), Text(<<i, "b2">>), Options(2, 3, Same)>>
      [] paper.layouts[i] = "hindi" -> <<Options(0, 1, Same), InHindi(Options(0, 1, <<i, "hi">>))>>
      [] OTHER -> <<>>
QuestionLines(paper, i) ==
    <<Line("question", <<i, "stem">>) @@ [number |-> Printed(paper, i), lead |-> <<>>]>>
    \o (IF paper.layouts[i] = "hindi" THEN <<InHindi(Text(<<i, "stemHi">>))>> ELSE <<>>)
    \o (IF HasStatements(paper, i)
        THEN [k \in 1..2 |-> Line("question", <<i, Statement[k]>>) @@ [number |-> k, lead |-> <<>>]] ELSE <<>>)
    \o OptionLines(paper, i)
    \o <<Line("answer", <<i, "ans">>) @@ [tokens |-> IF paper.layouts[i] = "number" THEN <<Number(7)>> ELSE <<Letter(0)>>]>>
    \o (IF paper.layouts[i] = "split" THEN <<Line("solution", <<i, "sol">>), Text(<<i, "sol2">>)>> ELSE <<>>)
\* In front of a question: the heading of its section, the directions of a passage.
Before(paper, i) ==
    (IF paper.restart = i THEN <<Line("heading", SectionB)>> ELSE <<>>)
    \o (IF paper.directions = i
        THEN <<Line("directions", <<i, "dir">>) @@ [from |-> Printed(paper, i), to |-> Printed(paper, i) + 1], Text(<<i, "passage">>)>>
        ELSE <<>>)
\* A page for each so many questions, under a running header that looks like a heading.
Pages(paper) ==
    LET count == Len(paper.layouts)
        Of(p) == FlattenSeq([k \in 1..Min({paper.perPage, count - (p - 1) * paper.perPage}) |->
                                LET i == (p - 1) * paper.perPage + k IN Before(paper, i) \o QuestionLines(paper, i)])
        pages == (count + paper.perPage - 1) \div paper.perPage
    IN  [p \in 1..pages |-> (IF pages > 1 THEN <<Line("heading", Running)>> ELSE <<>>) \o Of(p)]

\* What a reader sees in the paper.
InPassage(paper, i) ==
    paper.directions # 0 /\ i \in paper.directions..(paper.directions + 1)
    /\ (paper.restart > paper.directions => i < paper.restart)
TextsOf(name, first, last) == [k \in 1..(last - first + 1) |-> <<name, first + k - 1>>]
Expected(paper, i) ==
    LET layout == paper.layouts[i]
        split == TextsOf(<<i, "ab">>, 0, 1) \o TextsOf(Same, 2, 3)
    IN  [number |-> Printed(paper, i), section |-> IF paper.restart # 0 /\ i >= paper.restart THEN SectionB ELSE None,
         page |-> (i - 1) \div paper.perPage + 1,
         passage |-> IF InPassage(paper, i) THEN <<<<paper.directions, "dir">>, <<paper.directions, "passage">>>> ELSE <<>>,
         passageHi |-> <<>>,
         stem |-> <<<<i, "stem">>>> \o (IF HasStatements(paper, i) THEN <<<<i, Statement[1]>>, <<i, Statement[2]>>>> ELSE <<>>),
         stemHi |-> IF layout = "hindi" THEN <<<<i, "stemHi">>>> ELSE <<>>,
         options |-> CASE layout = "plain" -> TextsOf(Same, 0, 3)
                       [] layout = "split" -> [split EXCEPT ![2] = Append(@, <<i, "b2">>)]
                       [] layout = "hindi" -> TextsOf(Same, 0, 1)
                       [] OTHER -> <<>>,
         optionsHi |-> IF layout = "hindi" THEN TextsOf(<<i, "hi">>, 0, 1) ELSE <<>>,
         correct |-> IF layout = "number" THEN {} ELSE {0},
         numAnswer |-> IF layout = "number" THEN [min |-> 7, max |-> 7] ELSE None,
         solution |-> IF layout = "split" THEN <<<<i, "sol">>, <<i, "sol2">>>> ELSE <<>>, solutionHi |-> <<>>,
         type |-> IF layout = "number" THEN "integer" ELSE "mcq_single", answerSource |-> "document"]

PickPaper ==
    /\ case = NoCase("paper")
    /\ \E layouts \in Seqs({"plain", "split", "hindi", "number"}, 1, 3) :
           \E restart \in {0} \cup 2..Len(layouts), directions \in 0..Len(layouts), perPage \in 1..2 :
               /\ case' = [area |-> "paper",
                           paper |-> [layouts |-> layouts, restart |-> restart, directions |-> directions, perPage |-> perPage]]

\* A paper is read back as it was printed (parseQuestionPaper): every question once, in order,
\* with its own number, section, page, passage, text, options, answer and solution, whatever
\* numbered statements, running headers, Hindi lines and restarting numbers stand between them.
PaperReadBack ==
    case.area = "paper" =>
        P!ParseQuestionPaper(Pages(case.paper)) = [i \in DOMAIN case.paper.layouts |-> Expected(case.paper, i)]

(***************************************************************************)
(* Keys: the solutions of a paper are read and applied to its questions.   *)
(***************************************************************************)
\* The i-th solution: the answer in front of the text or on a line of its own.
SolutionLines(numbers, answers, lead, i) ==
    <<Line("question", <<i, "why">>) @@ [number |-> numbers[i], lead |-> IF lead THEN <<Letter(answers[i])>> ELSE <<>>]>>
    \o (IF lead THEN <<>> ELSE <<Line("answer", <<i, "ans">>) @@ [tokens |-> <<Letter(answers[i])>>]>>)
    \o <<Text(<<i, "because">>)>>
\* The numbers of a paper of two sections; the key numbers them alike, or on through both.
Numbers(first, second, restart) == [i \in 1..(first + second) |-> IF restart /\ i > first THEN i - first ELSE i]
PickKey ==
    /\ case = NoCase("key")
    /\ \E first \in 1..3, second \in 0..2, restart \in BOOLEAN, keyRestart \in BOOLEAN, lead \in BOOLEAN :
           \E answers \in [1..(first + second) -> {0, 2}], lost \in 0..(first + second) :
               \* The key skips a question only when both are numbered through.
               /\ lost # 0 => second = 0 \/ (~restart /\ ~keyRestart)
               /\ second = 0 => restart = keyRestart
               /\ restart = keyRestart \/ lost = 0
               /\ case' = [area |-> "key", paper |-> Numbers(first, second, restart),
                           key |-> Numbers(first, second, keyRestart), answers |-> answers, lead |-> lead, lost |-> lost]
KeyLines ==
    FlattenSeq([i \in DOMAIN case.key |-> IF i = case.lost THEN <<>> ELSE SolutionLines(case.key, case.answers, case.lead, i)])
Unanswered(number) ==
    P!FinishQuestion([P!EmptyQuestion EXCEPT !.number = number, !.options = TextsOf(Same, 0, 3)])

\* Every question gets its own answer and explanation (parseSolutions, applyKey), however the key
\* and the paper number their sections; a question that the key leaves out stays without; and a
\* question that is lost from the paper, but not at the start of a section, is named missing.
KeyLands ==
    case.area = "key" =>
        LET entries == K!ParseSolutions(KeyLines)
            answered == K!ApplyKey([i \in DOMAIN case.paper |-> Unanswered(case.paper[i])], entries)
        IN  /\ \A i \in DOMAIN case.paper :
                  IF i = case.lost THEN answered[i] = Unanswered(case.paper[i])
                  ELSE /\ answered[i].correct = {case.answers[i]} /\ answered[i].answerSource = "key"
                       /\ answered[i].solution = <<<<i, "why">>, <<i, "because">>>>
            /\ \A i \in DOMAIN case.paper :
                  (i < Len(case.paper) /\ case.paper[i] < case.paper[i + 1] /\ (i = 1 \/ case.paper[i] > 1)) =>
                    K!MissingNumbers(SelectSeq([j \in DOMAIN case.paper |-> IF j = i THEN None ELSE case.paper[j]], LAMBDA n : n # None))
                        = {case.paper[i]}

(***************************************************************************)
(* Chunks: the model sees a paper chunk by chunk, and cuts at their ends.  *)
(***************************************************************************)
\* A paper: how many questions start on each page, the first question of section B (0: none),
\* whether the last one of a page runs on to the next, and whether the model counts the pages
\* within the chunk.
PickChunks ==
    /\ case = NoCase("chunks")
    /\ \E perPage \in Seqs(0..Window, 1, 4), size \in 1..3, relative \in BOOLEAN, sectionB \in 0..4,
          unsure \in BOOLEAN, spills \in BOOLEAN :
           \* A tail stands in front of the questions that are looked back at.
           /\ spills => \A p \in DOMAIN perPage : perPage[p] < Window
           /\ case' = [area |-> "chunks", perPage |-> perPage, size |-> size, relative |-> relative,
                       sectionB |-> sectionB, unsure |-> unsure, spills |-> spills]
PageOfQuestion(i) == Min({p \in DOMAIN case.perPage : Total(SubSeq(case.perPage, 1, p)) >= i})
InB(i) == case.sectionB # 0 /\ i >= case.sectionB
\* What the model says of a question: the last one of a chunk is cut, unless the paper ends there.
Said(i, chunk, cut) ==
    [number |-> IF InB(i) THEN i - case.sectionB + 1 ELSE i,
     section |-> IF cut /\ case.unsure THEN None ELSE IF InB(i) THEN "B" ELSE "A",
     page |-> IF case.relative THEN PageOfQuestion(i) - chunk.first + 1 ELSE PageOfQuestion(i),
     type |-> "mcq_single", stem |-> i, options |-> IF cut THEN <<1>> ELSE <<1, 1>>, optionsHi |-> <<>>,
     answer |-> IF cut THEN {} ELSE {1}, numAnswer |-> None, answerSource |-> "ai", confidence |-> IF cut THEN 2 ELSE 9]
\* A question that starts before the chunk and ends in it is told, too, as it is cut at the first page.
CutTail(chunk) ==
    LET before == {i \in 1..Total(case.perPage) : case.spills /\ PageOfQuestion(i) = chunk.first - 1}
    IN  IF before = {} THEN <<>>
        ELSE <<[Said(Max(before), chunk, TRUE) EXCEPT !.page = IF case.relative THEN 1 ELSE chunk.first]>>
Reply(chunk) ==
    LET on == SelectSeq([i \in 1..Total(case.perPage) |-> i], LAMBDA i : PageOfQuestion(i) \in chunk.first..chunk.last)
    IN  CutTail(chunk) \o [k \in DOMAIN on |-> Said(on[k], chunk, k = Len(on) /\ chunk.last # Len(case.perPage)
                                                           /\ PageOfQuestion(on[k]) = chunk.last)]

\* Calls: what one chunk's attempts come to.
Outcomes == [ok : {TRUE}] \cup [ok : {FALSE}, status : {None, 400, 429, 500}, network : BOOLEAN, hint : {None, 7}]
PickCalls ==
    /\ case = NoCase("calls")
    /\ \E outcomes \in [1..MaxAttempts -> Outcomes] :
           /\ case' = [area |-> "calls", outcomes |-> outcomes]

\* No question is lost or doubled by the chunks (splitPdf, mergeChunks): with two pages a chunk at
\* least, and no more questions on a page than are looked back at, the merged result has every
\* question of the paper once, in order, in its complete copy. And no chunk is given up while a
\* retry could still be made, nor called for ever (withRetry).
ChunksMerge ==
    /\ case.area = "chunks" /\ case.size > 1 =>
        LET chunks == A!SplitPdf(Len(case.perPage), case.size)
            merged == A!Extract(Len(case.perPage), case.size, [c \in DOMAIN chunks |-> Reply(chunks[c])])
        IN  /\ [k \in DOMAIN merged |-> merged[k].stem] = [k \in 1..Total(case.perPage) |-> k]
            /\ \A k \in DOMAIN merged : merged[k].correct = {1} /\ merged[k].section # None
            /\ ~case.relative => \A k \in DOMAIN merged : merged[k].page = PageOfQuestion(k)
    /\ case.area = "calls" =>
        LET outcomes == case.outcomes
            calls == A!Calls(outcomes)
            Passing(k) == ~outcomes[k].ok /\ (outcomes[k].status \in {429, 500} \/ (outcomes[k].status = None /\ outcomes[k].network))
        IN  /\ calls <= MaxAttempts /\ Len(A!Waits(outcomes)) = calls - 1
            /\ \A k \in 1..(calls - 1) : Passing(k) /\ A!Waits(outcomes)[k] \in 1..60
            /\ outcomes[calls].ok \/ calls = MaxAttempts \/ ~Passing(calls)

(***************************************************************************)
(* The builder: a section is filled from a bank with copies and versions.  *)
(***************************************************************************)
Question(id, root, hash, difficulty, approved, latest) ==
    [id |-> id, root |-> root, hash |-> hash, section |-> "quant", family |-> "bank", difficulty |-> difficulty,
     topic |-> "any", nodes |-> {}, approved |-> approved, latest |-> latest, answered |-> TRUE, numeric |-> FALSE, options |-> 4]
Pool == {Question("q1", 1, "x", "easy", TRUE, TRUE), Question("q2", 2, "x", "easy", TRUE, TRUE),
         Question("q3", 3, "y", "hard", TRUE, TRUE), Question("q3old", 3, "z", "hard", TRUE, FALSE),
         Question("q4", 4, "w", "easy", TRUE, TRUE), Question("q5", 5, "v", "hard", FALSE, TRUE)}
Mixes == {None} \cup {[easy |-> e, medium |-> 0, hard |-> 100 - e] : e \in {0, 50, 67}}
PickFill ==
    /\ case = NoCase("fill")
    /\ \E bank \in SUBSET Pool, other \in {<<>>, <<"q1">>, <<"q3old">>, <<"q4">>}, own \in {<<>>, <<"q2">>},
          count \in 1..3, mix \in Mixes, replace \in BOOLEAN, recent \in {{}, {"q3old"}} :
           /\ ToSet(other) \cup ToSet(own) \cup recent \subseteq {q.id : q \in bank}
           /\ case' = [area |-> "fill", bank |-> bank,
                       test |-> [sections |-> <<own, other>>, family |-> "bank", names |-> <<{"quant"}, {"quant"}>>],
                       rule |-> [count |-> count, mix |-> mix, replace |-> replace, topics |-> {}, nodes |-> {}, days |-> 7],
                       published |-> {[day |-> 1, ids |-> recent]}]
\* The bank's questions that are fit for the section, by content and root: what could have been picked.
Fit(sections) ==
    LET taken == {q \in case.bank : q.id \in ToSet(FlattenSeq(sections))}
        recent == {q.root : q \in {d \in case.bank : \E t \in case.published : d.id \in t.ids}}
    IN  {q \in case.bank : /\ q.latest /\ q.approved /\ q.root \notin recent
                           /\ \A t \in taken : q.root # t.root /\ q.hash # t.hash}

\* Filling is sound (fillSection): a test without duplicates has none after it; no draft, old
\* version or recently used question comes in; no more than asked for; and it falls short only
\* when nothing fit is left, unless the bank held more candidates than a sample takes. The shares
\* of a mix add up to the count, each within one of its exact share (splitByMix).
FillSound ==
    case.area = "fill" =>
        /\ case.rule.mix # None =>
              LET shares == B!SplitByMix(case.rule.count, case.rule.mix)
              IN  /\ shares.easy + shares.medium + shares.hard = case.rule.count
                  /\ \A d \in DOMAIN shares : 100 * shares[d] - case.rule.count * case.rule.mix[d] \in -99..99
        /\ \A result \in B!FillSection(case.bank, case.test, 1, case.rule, case.published, 8) :
              LET before == IF case.rule.replace THEN [case.test.sections EXCEPT ![1] = <<>>] ELSE case.test.sections
                  dup(sections) == B!Duplicates(case.bank, FlattenSeq(sections))
                  checks == B!ComputeChecks(case.bank, <<[i \in DOMAIN result.picked |-> result.picked[i].id]>>, <<Len(result.picked)>>, 4)
              IN  /\ dup(before) = {} => dup(result.sections) = {}
                  /\ checks.ok
                  /\ ToSet(result.picked) \subseteq Fit(before) /\ result.shortfall >= 0
                  /\ result.shortfall > 0 /\ Cardinality(Fit(before)) <= 2 + Oversample => Fit(result.sections) = {}

(***************************************************************************)
(* Imports: files of a few rows, right and wrong ones.                     *)
(***************************************************************************)
Row(stem, options, correct) ==
    [examKey |-> "sbi-po", section |-> "quant", number |-> Blank, type |-> Blank, stem |-> stem, stemHi |-> Blank,
     options |-> options, optionsHi |-> <<Blank, Blank>>, correct |-> correct, figureUrl |-> Blank,
     sourcePage |-> Blank, difficulty |-> Blank]
Letters(letters) == [kind |-> "letters", letters |-> letters]
Between(min, max, whole) == [kind |-> "number", min |-> min, max |-> max, whole |-> whole]
Good == Row("s1", <<"a", "b", Blank>>, Letters(<<1>>))
InHindiOnly == [Row(Blank, <<Blank, Blank>>, Letters(<<0>>)) EXCEPT !.stemHi = "s1", !.optionsHi = <<"a", "b">>]
AsNumber(answer) == [Row("s2", <<Blank>>, answer) EXCEPT !.type = "integer"]
MCRows ==
    {None, Good, [Good EXCEPT !.options = <<"b", "a">>, !.correct = Letters(<<0>>), !.section = "verbal"],
     [Good EXCEPT !.options = <<"a", "b", "a">>], [Good EXCEPT !.options = <<"a", "b", "b">>],
     InHindiOnly, [InHindiOnly EXCEPT !.options = <<"a", "b">>],
     [Good EXCEPT !.correct = Letters(<<1, 1>>)], [Good EXCEPT !.correct = Letters(<<2>>)], [Good EXCEPT !.correct = Blank],
     [Good EXCEPT !.correct = Letters(<<0, 1>>), !.type = "mcq_multi"], [Good EXCEPT !.options = <<"a", Blank, "b">>],
     [Good EXCEPT !.examKey = "other"], [Good EXCEPT !.number = 0], [Good EXCEPT !.figureUrl = Bad],
     AsNumber(Between(1, 2, TRUE)), AsNumber(Between(2, 1, TRUE)), AsNumber(Between(1, 2, FALSE)), AsNumber(Letters(<<0>>)),
     [AsNumber(Between(1, 2, FALSE)) EXCEPT !.type = "numeric"]}
MCCells == {"a", "b", Blank}
MCFiles == Seqs(MCRows, 0, 3)
MCBanks == {{}, {QuestionHash(RowData(Good))}}

(***************************************************************************)
(* Analysis: one attempt of two sections; the statistics of one question.  *)
(***************************************************************************)
MarksFor(outcome) == CASE outcome = "correct" -> 4 [] outcome = "wrong" -> -1 [] outcome = "partial" -> 2 [] OTHER -> 0
PickAnalysis ==
    /\ case = NoCase("analysis")
    /\ \E got \in [1..4 -> {"correct", "wrong", "partial", "skipped", "left out"}],
          topics \in [{1, 3} -> {"t", None}], cutoff \in {None, 6}, sectionCutoff \in {None, 5} :
           /\ case' = [area |-> "analysis", got |-> got, topics |-> topics, cutoff |-> cutoff, sectionCutoff |-> sectionCutoff]
InSection == <<[name |-> "A", ids |-> <<1, 2>>], [name |-> "B", ids |-> <<3, 4>>]>>
Got(s, outcomes) == Cardinality({i \in ToSet(InSection[s].ids) : case.got[i] \in outcomes})
Scored(s) == MapThenSumSet(LAMBDA i : MarksFor(case.got[i]), ToSet(InSection[s].ids))
Analysed ==
    LET Result(s) == [name |-> InSection[s].name, score |-> Scored(s), correct |-> Got(s, {"correct"}),
                      wrong |-> Got(s, {"wrong"}), partial |-> Got(s, {"partial"})]
        outcomes == {[q |-> i, outcome |-> case.got[i], marks |-> MarksFor(case.got[i])] : i \in {j \in 1..4 : case.got[j] # "left out"}}
        meta == [i \in 1..4 |-> [topic |-> IF i \in DOMAIN case.topics THEN case.topics[i] ELSE "t", subject |-> None]]
    IN  Y!BuildAnalysis(InSection, [score |-> Scored(1) + Scored(2), sections |-> <<Result(1), Result(2)>>], outcomes, meta,
                        [overall |-> case.cutoff, sections |-> IF case.sectionCutoff = None THEN <<>> ELSE [B |-> case.sectionCutoff]])

PickStats ==
    /\ case = NoCase("stats")
    /\ \E group \in [1..3 -> [ranked : BOOLEAN, outcome : {"correct", "wrong", "skipped", "none"}, score : {0, 3}]], suspect \in BOOLEAN :
           /\ case' = [area |-> "stats", suspect |-> suspect,
                       attempts |-> {[id |-> i, test |-> "t", ranked |-> group[i].ranked, score |-> group[i].score, time |-> i,
                                      sections |-> [A |-> group[i].score],
                                      outcomes |-> IF group[i].outcome = "none" THEN {} ELSE {[q |-> "q", outcome |-> group[i].outcome]},
                                      responses |-> [q |-> CASE group[i].outcome = "correct" -> {0}
                                                             [] group[i].outcome = "wrong" -> {1} [] OTHER -> None]] : i \in 1..3}]
TheQuestion == [id |-> "q", single |-> TRUE, correct |-> {0}, options |-> 2, suspect |-> case.suspect]
Flag(attempts) == (CHOOSE q \in Y!ComputeQuestionStats(attempts, {TheQuestion}) : TRUE).suspect

\* What the attempt's advice is about, and the numbers in it.
AdviceAgrees(a) ==
    LET shared == {i \in DOMAIN a.topics : \E j \in DOMAIN a.topics : i # j /\ a.topics[i].topic = a.topics[j].topic}
        cutoffMissed == case.cutoff # None /\ a.score < 6
        sectionMissed == case.sectionCutoff # None /\ a.sections[2].score < 5
    IN  /\ a.advice.about = "cutoff" <=> case.cutoff # None /\ (cutoffMissed \/ sectionMissed)
        /\ a.advice.about = "cutoff" /\ cutoffMissed => a.advice.gap > 0 /\ a.score + a.advice.gap = 6
        /\ a.advice.about = "negative" =>
              /\ \E s \in 1..2 : a.sections[s].negativeMarks = a.advice.marks
              /\ a.advice.marks >= 2 /\ \A s \in 1..2 : a.sections[s].negativeMarks <= a.advice.marks
        /\ a.advice.about = "topic" /\ shared = {} => 2 * a.advice.correct < a.advice.total
        /\ a.advice.about = "speed" => 5 * a.advice.skipped > 2 * Len(a.questions)
\* The counts and advice of the attempt's analysis.
AddsUp(a) ==
    LET Of(name) == {i \in DOMAIN a.topics : a.topics[i].section = name}
    IN  /\ Len(a.questions) = MapThenSumSet(LAMBDA i : a.topics[i].total, DOMAIN a.topics)
        /\ \A s \in 1..2 :
              /\ a.sections[s].correct = MapThenSumSet(LAMBDA i : a.topics[i].correct, Of(a.sections[s].name))
              /\ a.sections[s].wrong + a.sections[s].partial = MapThenSumSet(LAMBDA i : a.topics[i].wrong, Of(a.sections[s].name))
              /\ a.sections[s].score + a.sections[s].negativeMarks = 4 * a.sections[s].correct + 2 * a.sections[s].partial
        /\ a.cleared = (IF case.cutoff = None /\ case.sectionCutoff = None THEN None
                        ELSE (case.cutoff # None => a.score >= 6) /\ (case.sectionCutoff # None => a.sections[2].score >= 5))
        /\ AdviceAgrees(a)
\* The flag after a run over these attempts, and their benchmarks.
FlagFollowsTries(attempts) ==
    LET tries == {x \in attempts : x.ranked /\ \E o \in x.outcomes : o.outcome \in {"correct", "wrong"}}
        right == {x \in tries : \E o \in x.outcomes : o.outcome = "correct"}
        ranked == {x \in attempts : x.ranked}
        seen == \E x \in ranked : x.outcomes # {}
    IN  /\ tries # {} => Flag(attempts) = Flag(tries)
        /\ Flag(attempts) => (seen => 2 * Cardinality(right) < Cardinality(tries)) /\ (~seen => case.suspect)
        /\ \A top \in Y!Toppers(attempts, "t") :
              LET average == Y!Benchmarks(attempts, "t", top)
              IN  average.count = Cardinality(ranked) /\ average.score <= 100 * top.score /\ average.sections.A = average.score
\* What students are told agrees with their result (buildAnalysis, adviceFor): every question with
\* an outcome is in one topic of its own section, the topics' counts are the sections' counts,
\* marks are gains less the shown negative marks, the cut-offs decide "cleared"; the advice is about
\* the cut-offs exactly when there is an overall one and it or a section's is missed, gives the
\* marks that are short of a missed overall one, the most marks a section lost, and a topic that is
\* weak when no two sections share its name. And the nightly flag of a
\* question (computeQuestionStats) is decided by the ranked tries alone: skips, practice and
\* attempts without the question never change it, and it is set only on a question that most
\* tries got wrong; a test's topper (testBenchmarks) is no worse than its average.
AnalysisAgrees ==
    /\ case.area = "analysis" => AddsUp(Analysed)
    /\ case.area = "stats" => FlagFollowsTries(case.attempts)

\* The "cut-off gap" of the advice is how far the student is from it (adviceFor). It is not where
\* the overall cut-off is met and only a section's is missed.
GapIsShort == case.area = "analysis" => (Analysed.advice.about = "cutoff" => Analysed.advice.gap > 0)

(***************************************************************************)
(* Views: one attempt of a test of three questions, among those of others. *)
(***************************************************************************)
ThisTest(seconds) ==
    [id |-> "t", status |-> "published", exam |-> "sbi-po", free |-> FALSE, owner |-> None, publishAt |-> None, totalTime |-> seconds,
     sections |-> <<[name |-> "A", ids |-> <<1, 2>>], [name |-> "B", ids |-> <<3>>]>>]
AttemptOf(user, got, status, first, practice) ==
    [id |-> user, test |-> "t", user |-> user, status |-> status, first |-> first, practice |-> practice,
     excluded |-> {q \in 1..3 : got[q] = "left out"},
     outcomes |-> {[q |-> q, outcome |-> got[q], marks |-> MarksFor(got[q])] : q \in {i \in 1..3 : got[i] # "left out"}},
     result |-> [score |-> MarksFor(got[1]) + MarksFor(got[2]) + MarksFor(got[3])]]
Everyone(outcome) == [q \in 1..3 |-> outcome]
PickViews ==
    /\ case = NoCase("views")
    /\ \E got \in [1..3 -> {"correct", "wrong", "partial", "skipped", "left out"}], seconds \in {90, 3600}, status \in {"submitted", "scored"},
          first \in BOOLEAN, bank \in {1..3, 1..2}, other \in {"correct", "skipped"}, cached \in BOOLEAN :
           LET mine == AttemptOf("me", got, status, first, ~first)
               others == {AttemptOf("you", Everyone(other), "scored", TRUE, FALSE), AttemptOf("they", Everyone("wrong"), "scored", TRUE, FALSE)}
           IN  /\ case' = [area |-> "views", test |-> ThisTest(seconds), mine |-> mine, attempts |-> others \cup {mine}, bank |-> bank, cached |-> cached]
Grants == [user : {"me", "you"}, all : BOOLEAN, exams : {{}, {"sbi-po"}}, expires : {5}, revoked : BOOLEAN]
PickAccess ==
    /\ case = NoCase("access")
    /\ \E one \in Grants, two \in Grants, free \in BOOLEAN, exam \in {"sbi-po", "other"}, from \in {None, 3}, now \in {2, 4, 5},
          status \in {"draft", "published"} :
           /\ case' = [area |-> "access", entitlements |-> {one, two}, now |-> now,
                       test |-> [ThisTest(90) EXCEPT !.free = free, !.exam = exam, !.publishAt = from, !.status = status]]

\* What a student is shown fits together (routes/attempts.ts, getRank, accessFor). The solutions are
\* the questions of the student's own paper, in order, with marks that make the score, and any of
\* them may be bookmarked; the analysis is about the same questions, numbered alike unless one was
\* left out. Practice holds exactly the mistakes, in their sections, in time for the number of
\* them, may be started by its owner without a plan, and once all are right there is no more of
\* it. Ranks are of first attempts alone, whether Redis has the set or lost it, and better for a
\* better score. A test that is listed and covered by the shown access can be started.
ViewsAgree ==
    /\ case.area = "views" =>
        LET me == case.mine
            Solved(bank) == V!Solutions(case.test, me, bank, {})
            Ids(items) == [i \in DOMAIN items |-> items[i].q]
            analysed == Y!Questions(V!AnalysedSections(case.test, me), me.outcomes)
            paper == V!ToStudentPaper(case.test, case.bank \ me.excluded)
            set == IF case.cached THEN [i \in {a.id : a \in {x \in case.attempts : x.status = "scored" /\ x.first}} |->
                                           (CHOOSE a \in case.attempts : a.id = i).result.score] ELSE <<>>
            Rank(a) == V!Result(set, case.attempts, a).rank
        IN  /\ Ids(Solved(case.bank)) = FlattenSeq([s \in DOMAIN paper |-> paper[s].ids])
            /\ Total([i \in DOMAIN Solved(1..3) |-> Solved(1..3)[i].marks]) = me.result.score
            /\ \A i \in DOMAIN Solved(case.bank) : V!MayBookmark({case.test}, case.attempts, "me", Solved(case.bank)[i].q)
            /\ Ids(analysed) = Ids(Solved(1..3))
            /\ me.excluded = {} => \A i \in 1..3 : analysed[i].number = Solved(1..3)[i].number
            /\ \A include \in {"wrong", "wrong_skipped"} :
                  LET again == V!Practice(case.test, me, include)
                      mistakes == SelectSeq(Solved(1..3), LAMBDA item : item.outcome # "correct" /\ (item.outcome = "skipped" => include = "wrong_skipped"))
                      right == AttemptOf("me", Everyone("correct"), "scored", FALSE, TRUE)
                  IN  IF mistakes = <<>> THEN again = None
                      ELSE /\ V!AllIds(again.test) = Ids(mistakes) /\ again.count = Len(mistakes)
                           /\ 3 * again.test.totalTime >= case.test.totalTime * again.count
                           /\ again.test.totalTime <= case.test.totalTime
                           /\ V!Start({}, again.test, "me", 0) = 200 /\ V!Start({}, again.test, "you", 0) = 404
                           /\ V!Practice(again.test, right, include) = None
            /\ Rank(me) = None <=> me.status # "scored" \/ ~me.first
            /\ \A a, b \in case.attempts : Rank(a) # None /\ Rank(b) # None =>
                  (a.result.score > b.result.score <=> Rank(a).rank < Rank(b).rank)
    /\ case.area = "access" =>
        LET shown == V!AccessFor(case.entitlements, "me", case.now)
            listed == V!ExamTests({case.test}, case.test.exam, case.now) # {}
        IN  V!Start(case.entitlements, case.test, "me", case.now)
                = IF ~listed THEN 404 ELSE IF case.test.free \/ shown.all \/ case.test.exam \in shown.exams THEN 200 ELSE 403

\* What is shown of tests and attempts agrees with them, and each view with the others: the
\* analysis and the statistics, and everything a student sees of them.
ShownAgrees == AnalysisAgrees /\ ViewsAgree

(***************************************************************************)
Pick ==
    \/ PickScoring \/ PickPrice \/ PickPaper \/ PickKey \/ PickChunks \/ PickCalls
    \/ PickFill \/ PickImport \/ PickAnalysis \/ PickStats \/ PickViews \/ PickAccess

\* The clock runs only when no input is picked.
Init ==
    /\ ClockInit
    /\ \E area \in Areas : case = NoCase(area) /\ (area # "clock" => template = CHOOSE t \in Templates : TRUE)
Next ==
    \/ (Pick \/ Again) /\ UNCHANGED clockVars
    \/ case = NoCase("clock") /\ ClockNext /\ UNCHANGED case
Spec == Init /\ [][Next]_<<case, clockVars>>
=============================================================================
