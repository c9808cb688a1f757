------------------------------ MODULE KeyRules ------------------------------
(***************************************************************************)
(* What the ingest pipeline does with extracted questions before it saves  *)
(* them: answer keys and solutions (apps/worker/src/ingest/keyParser.ts,   *)
(* readKeyFile of pipeline.ts), the settled type (pipeline.ts), sections   *)
(* and missing numbers (sections.ts), flags (packages/core/src/flags.ts).  *)
(***************************************************************************)
EXTENDS PaperText, FiniteSetsExt

CONSTANT MaxOptions   \* MAX_OPTIONS of a question

(* Keys.  A line of a solutions file is a line of module PaperText; an entry's token is None or
   one token, or a sequence of tokens that its text splits into. *)
Entry(number, tokens, solution) == [number |-> number, tokens |-> tokens, solution |-> solution]

\* parseAnswerKey: every number with its answer, in the printed order.
ParseAnswerKey(lines) ==
    FlattenSeq([l \in DOMAIN lines |->
        [k \in DOMAIN lines[l].pairs |-> Entry(lines[l].pairs[k].number, <<lines[l].pairs[k].token>>, <<>>)]])

\* A question line with an answer in front of its text, an answer line, or explanation.
ReadSolutionLine(entries, line) ==
    LET last == Len(entries)
    IN  CASE line.kind = "question" ->
                Append(entries, Entry(line.number, line.lead, <<line.name>>))
          [] line.kind # "question" /\ last = 0 -> entries
          [] line.kind = "answer" /\ last > 0 /\ entries[last].tokens = <<>> ->
                [entries EXCEPT ![last].tokens = SubSeq(line.tokens, 1, 1)]
          [] OTHER -> [entries EXCEPT ![last].solution = Append(@, line.name)]
ParseSolutions(lines) == FoldLeft(ReadSolutionLine, <<>>, lines)

HasDuplicates(numbers) == Cardinality(ToSet(numbers)) < Len(numbers)
\* Mutant: only the paper's numbers are looked at.
PaperRestarts(questions, entries) == HasDuplicates([i \in DOMAIN questions |-> questions[i].number])
\* Entries go by order when numbers restart in the paper or in the key, else by number.
ByOrder(questions, entries) ==
    \/ HasDuplicates([i \in DOMAIN questions |-> questions[i].number])
    \/ HasDuplicates([i \in DOMAIN entries |-> entries[i].number])
EntryFor(questions, entries, i) ==
    IF ByOrder(questions, entries)
    THEN IF i \in DOMAIN entries THEN entries[i] ELSE None
    ELSE LET found == {k \in DOMAIN entries : entries[k].number = questions[i].number}
         IN  IF questions[i].number = None \/ found = {} THEN None ELSE entries[Max(found)]
\* The key's answer replaces the paper's; its explanation only fills in.
ApplyEntry(q, entry) ==
    IF entry = None THEN q
    ELSE LET answered == IF Applies(q, entry.tokens)
                         THEN [ApplyAnswerTokens(q, entry.tokens) EXCEPT !.answerSource = "key"] ELSE q
         IN  IF q.solution = <<>> THEN [answered EXCEPT !.solution = entry.solution] ELSE answered
ApplyKey(questions, entries) ==
    [i \in DOMAIN questions |-> ApplyEntry(questions[i], EntryFor(questions, entries, i))]

\* looksScanned: fewer than forty letters a page. letters: those of each page.
LooksScanned(letters) == letters = <<>> \/ FoldLeft(+, 0, letters) < 40 * Len(letters)
\* readKeyFile: the text layer is enough when it answers half the paper, or when there is no AI.
KeyReader(isPdf, letters, textEntries, expected, hasAi) ==
    IF isPdf /\ ~LooksScanned(letters) /\ (2 * textEntries >= expected \/ ~hasAi) THEN "text"
    ELSE IF hasAi THEN "ai" ELSE "none"

(* Types. whole: is the lower bound of the numeric answer an integer, and the upper one? *)
\* What the bank accepts: options or a numeric answer, never both, and no answer out of range.
SettleType(q) ==
    IF q.options = <<>>
    THEN [q EXCEPT !.correct = {}, !.optionsHi = <<>>,
                   !.type = IF q.numAnswer # None /\ ~(q.numAnswer.wholeMin /\ q.numAnswer.wholeMax) THEN "numeric"
                            ELSE IF q.type = "numeric" THEN "numeric" ELSE "integer"]
    ELSE LET options == SubSeq(q.options, 1, MaxOptions)
         IN  [q EXCEPT !.numAnswer = None, !.options = options,
                       !.optionsHi = IF Len(@) = Len(options) THEN @ ELSE <<>>,
                       !.type = IF Cardinality(q.correct) > 1 THEN "mcq_multi"
                                ELSE IF @ = "mcq_multi" /\ q.correct = {} THEN "mcq_multi" ELSE "mcq_single",
                       !.correct = {i \in @ : i < Len(options)}]

(* Sections.  A heading or a name is the sequence of its letters, as norm leaves it.  Template
   sections have a name, other names, and a count of questions. *)
Includes(text, part) == \E i \in 0..(Len(text) - Len(part)) : SubSeq(text, i + 1, i + Len(part)) = part
Score(heading, name) ==
    CASE heading = name -> 3
      [] heading # name /\ Includes(heading, name) -> 2
      [] ~Includes(heading, name) /\ Includes(name, heading) /\ Len(heading) >= 4 -> 1
      [] OTHER -> 0
\* The best match of all names: exact, then contained, then containing; the longest of equals.
MatchSection(heading, sections) ==
    LET Candidates == {<<s, name>> : s \in DOMAIN sections, name \in UNION {t.names : t \in ToSet(sections)}}
        Fits == {c \in Candidates : c[2] \in sections[c[1]].names \ {<<>>} /\ Score(heading, c[2]) > 0}
        Better(c, d) == \/ Score(heading, c[2]) > Score(heading, d[2])
                        \/ Score(heading, c[2]) = Score(heading, d[2]) /\ Len(c[2]) > Len(d[2])
        Best == {c \in Fits : ~\E d \in Fits : Better(d, c)}
    IN  IF heading \in {None, <<>>} \/ Fits = {} THEN 0 ELSE Min({c[1] : c \in Best})

\* By the headings when every question has one that matches; else in order, by the counts.
InOrder(sections) == FlattenSeq([s \in DOMAIN sections |-> [k \in 1..sections[s].count |-> s]])
AssignSections(headings, sections) ==
    LET matched == [i \in DOMAIN headings |-> IF headings[i] = None THEN 0 ELSE MatchSection(headings[i], sections)]
        order == InOrder(sections)
    IN  IF headings # <<>> /\ \A i \in DOMAIN headings : matched[i] # 0 THEN matched
        ELSE [i \in DOMAIN headings |-> IF i <= Len(order) THEN order[i] ELSE Len(sections)]

\* The numbers skipped between two printed ones; before the first one only when it is small.
Gap(prev, n) == IF prev = None THEN (IF n <= 10 THEN 1..(n - 1) ELSE {}) ELSE (prev + 1)..(n - 1)
\* numbers: None where the extractor could not tell. As a bag it could name one twice.
MissingNumbers(numbers) ==
    LET printed == SelectSeq(numbers, LAMBDA n : n # None)
    IN  UNION {Gap(IF i = 1 THEN None ELSE printed[i - 1], printed[i]) : i \in DOMAIN printed}

(* Flags of a question's own content; it is approved at once when it has none. *)
HasAnswer(q) == IF q.type \in {"integer", "numeric"} THEN q.numAnswer # None ELSE q.correct # {}
ContentFlags(q, optionCount) ==
    (IF q.stem = <<>> /\ q.stemHi = <<>> THEN {"empty_stem"} ELSE {})
    \cup (IF q.type \notin {"integer", "numeric"} /\ Len(q.options) # optionCount THEN {"option_count"} ELSE {})
    \cup (IF ~HasAnswer(q) THEN {"no_answer"} ELSE IF q.answerSource = "ai" THEN {"ai_answer"} ELSE {})
    \cup (IF q.hasFigure THEN {"needs_figure"} ELSE {})
    \cup (IF q.confidence < 70 THEN {"low_confidence"} ELSE {})
    \cup (IF q.dollars % 2 = 1 THEN {"latex"} ELSE {})
=============================================================================
