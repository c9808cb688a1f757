------------------------------ MODULE PaperText ------------------------------
(***************************************************************************)
(* The text parser: the lines of a question paper become questions, without *)
(* AI (apps/worker/src/ingest/textParser.ts).  A line is what the regular   *)
(* expressions see in it: a record with its kind, whether it is Hindi, and  *)
(* a name for its text; the fields of a question hold the names of the      *)
(* lines that went into them.                                               *)
(*   directions  "Directions (3-5)": from, to                               *)
(*   question    "3. ...": number                                           *)
(*   options     "(b) ... (c) ...": first and last marker, in order         *)
(*   answer      "Ans: (b)" or "Ans: 12": tokens, each letter, digit, value *)
(*   solution, heading (a section's name, or capitals), text                *)
(***************************************************************************)
EXTENDS Integers, Sequences, FiniteSets, SequencesExt

CONSTANT None

(* Running headers and footers. *)
LooksLikeContent(line) == line.kind \in {"question", "answer", "directions", "options"}
AtEdge(page, i) == i <= 3 \/ i > Len(page) - 3
EdgeNames(page) == {page[i].name : i \in {j \in DOMAIN page : AtEdge(page, j)}}
\* Mutant: repeated options are deleted, too.
DropRepeated(page, i, repeated) == AtEdge(page, i) /\ repeated
\* At the edge, on three pages of five at least, and no content.
IsRunning(page, i, repeated) == AtEdge(page, i) /\ ~LooksLikeContent(page[i]) /\ repeated
StripHeadersFooters(pages) ==
    LET Repeated(name) ==
            5 * Cardinality({p \in DOMAIN pages : name \in EdgeNames(pages[p])}) >= 3 * Len(pages)
        Kept(page) ==
            LET keep == SelectSeq([i \in DOMAIN page |-> i], LAMBDA i : ~IsRunning(page, i, Repeated(page[i].name)))
            IN  [k \in DOMAIN keep |-> page[keep[k]]]
    IN  IF Len(pages) < 2 THEN pages ELSE [p \in DOMAIN pages |-> Kept(pages[p])]

(* Answers. *)
\* optionIndex: letters a to f and digits 1 to 6, from 0; -1 for the rest.
OptionIndex(token) ==
    CASE token.kind = "letter" -> token.value
      [] token.kind = "number" -> IF token.value \in 1..6 THEN token.value - 1 ELSE -1
      [] OTHER -> -1
\* May these tokens answer the question, and the question with them?
Applies(q, tokens) ==
    /\ tokens # <<>>
    /\ IF q.options # <<>>
       THEN \A i \in DOMAIN tokens : OptionIndex(tokens[i]) \in 0..(Len(q.options) - 1)
       ELSE tokens[1].kind \in {"number", "range"}
ApplyAnswerTokens(q, tokens) ==
    IF ~Applies(q, tokens) THEN q
    ELSE IF q.options # <<>>
    THEN [q EXCEPT !.correct = {OptionIndex(tokens[i]) : i \in DOMAIN tokens}, !.numAnswer = None]
    ELSE [q EXCEPT !.correct = {},
                   !.numAnswer = LET t == tokens[1]
                                 IN  IF t.kind = "number" THEN [min |-> t.value, max |-> t.value]
                                     ELSE [min |-> IF t.lo <= t.hi THEN t.lo ELSE t.hi,
                                           max |-> IF t.lo <= t.hi THEN t.hi ELSE t.lo]]

(* Questions. *)
EmptyQuestion ==
    [number |-> None, section |-> None, page |-> None, passage |-> <<>>, passageHi |-> <<>>,
     stem |-> <<>>, stemHi |-> <<>>, options |-> <<>>, optionsHi |-> <<>>, correct |-> {},
     numAnswer |-> None, solution |-> <<>>, solutionHi |-> <<>>]
\* A typed value counts as whole here: "integer" and "numeric" are told apart by module KeyRules.
FinishQuestion(q) ==
    q @@ [type |-> IF q.options = <<>> THEN "integer"
                   ELSE IF Cardinality(q.correct) > 1 THEN "mcq_multi" ELSE "mcq_single",
          answerSource |-> IF q.correct # {} \/ q.numAnswer # None THEN "document" ELSE "none"]

\* The state of the parser: what it has, the question it reads, and what a plain line continues.
Start == [questions |-> <<>>, current |-> None, mode |-> "none", section |-> None, passage |-> None, last |-> None]
Complete(q) == q = None \/ q.options # <<>> \/ q.correct # {} \/ q.numAnswer # None
Close(s) ==
    IF s.current = None THEN s
    ELSE [s EXCEPT !.questions = Append(@, FinishQuestion(s.current)), !.current = None]

\* Mutant: any number that goes up starts a question.
AnyHigher(s, number) == s.last = None \/ number > s.last
\* The next number always starts one; after a complete question numbers may skip two or restart.
StartsQuestion(s, number) ==
    \/ s.last = None
    \/ number = s.last + 1
    \/ Complete(s.current) /\ (number = 1 \/ number \in (s.last + 1)..(s.last + 3))

ReadDirections(s, line) ==
    [Close(s) EXCEPT !.passage = [text |-> <<line.name>>, textHi |-> <<>>, from |-> line.from, to |-> line.to],
                     !.mode = "passage"]
ReadQuestion(s, line, page) ==
    LET p == s.passage
        inPassage == p # None /\ p.from <= line.number /\ line.number <= p.to
        closed == Close(s)
    IN  [closed EXCEPT
          !.current = [EmptyQuestion EXCEPT
              !.number = line.number, !.section = s.section, !.page = page,
              !.stem = IF line.hindi THEN <<>> ELSE <<line.name>>,
              !.stemHi = IF line.hindi THEN <<line.name>> ELSE <<>>,
              !.passage = IF inPassage THEN p.text ELSE <<>>,
              !.passageHi = IF inPassage THEN p.textHi ELSE <<>>],
          !.passage = IF p # None /\ line.number >= p.to THEN None ELSE p,
          !.last = line.number,
          !.mode = "stem"]

\* English options go on from where they are; a Hindi run restarts at (a).
Texts(line) == [i \in 1..(line.last - line.first + 1) |-> <<line.name, line.first + i - 1>>]
EnglishOptions(s, line) ==
    /\ s.mode # "hindiOptions" /\ line.first = Len(s.current.options)
    /\ ~(line.hindi /\ s.current.options # <<>>)
HindiOptions(s, line) ==
    /\ line.hindi
    /\ IF s.mode = "hindiOptions" THEN line.first = Len(s.current.optionsHi)
       ELSE s.current.options # <<>> /\ line.first = 0 /\ line.first # Len(s.current.options)
\* options[index] = text, from the line's first marker on.
Overwritten(old, line) ==
    Texts(line) \o SubSeq(old, line.last + 2, Len(old))
ReadEnglish(s, line) == [s EXCEPT !.current.options = @ \o Texts(line), !.mode = "options"]
ReadHindi(s, line) ==
    [s EXCEPT !.current.optionsHi = SubSeq(@, 1, line.first) \o Overwritten(@, line), !.mode = "hindiOptions"]
ReadAnswer(s, line) == [s EXCEPT !.current = ApplyAnswerTokens(@, line.tokens), !.mode = "none"]
Grown(text, line) == Append(text, line.name)
ReadSolution(s, line) ==
    IF line.hindi THEN [s EXCEPT !.current.solutionHi = Grown(@, line), !.mode = "solution"]
    ELSE [s EXCEPT !.current.solution = Grown(@, line), !.mode = "solution"]
ReadHeading(s, line) == [Close(s) EXCEPT !.section = line.name, !.passage = None, !.mode = "none"]

\* Every other line goes on with what the parser is in.
Continue(s, line) ==
    CASE s.mode = "passage" /\ s.passage # None ->
            IF line.hindi THEN [s EXCEPT !.passage.textHi = Grown(@, line)] ELSE [s EXCEPT !.passage.text = Grown(@, line)]
      [] s.current # None /\ s.mode = "stem" ->
            IF line.hindi THEN [s EXCEPT !.current.stemHi = Grown(@, line)] ELSE [s EXCEPT !.current.stem = Grown(@, line)]
      [] s.current # None /\ s.mode = "options" /\ s.current.options # <<>> ->
            [s EXCEPT !.current.options[Len(s.current.options)] = Grown(@, line)]
      [] s.current # None /\ s.mode = "hindiOptions" /\ s.current.optionsHi # <<>> ->
            [s EXCEPT !.current.optionsHi[Len(s.current.optionsHi)] = Grown(@, line)]
      [] s.current # None /\ s.mode = "solution" ->
            IF line.hindi THEN [s EXCEPT !.current.solutionHi = Grown(@, line)] ELSE [s EXCEPT !.current.solution = Grown(@, line)]
      [] OTHER -> s

ReadLine(s, line, page) ==
    CASE line.kind = "directions" -> ReadDirections(s, line)
      [] line.kind = "question" /\ StartsQuestion(s, line.number) -> ReadQuestion(s, line, page)
      [] line.kind = "options" /\ s.current # None /\ EnglishOptions(s, line) -> ReadEnglish(s, line)
      [] line.kind = "options" /\ s.current # None /\ ~EnglishOptions(s, line) /\ HindiOptions(s, line) -> ReadHindi(s, line)
      [] line.kind = "answer" /\ s.current # None /\ Applies(s.current, line.tokens) -> ReadAnswer(s, line)
      [] line.kind = "solution" /\ s.current # None -> ReadSolution(s, line)
      [] line.kind = "heading" /\ Complete(s.current) -> ReadHeading(s, line)
      [] OTHER -> Continue(s, line)

ParseQuestionPaper(pages) ==
    LET kept == StripHeadersFooters(pages)
        lines == FlattenSeq([p \in DOMAIN kept |-> [i \in DOMAIN kept[p] |-> <<kept[p][i], p>>]])
    IN  Close(FoldLeft(LAMBDA s, l : ReadLine(s, l[1], l[2]), Start, lines)).questions
=============================================================================
