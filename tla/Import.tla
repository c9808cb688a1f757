------------------------------- MODULE Import -------------------------------
(***************************************************************************)
(* Question import from a spreadsheet (apps/api/src/services/              *)
(* questionImport.ts) and what a question must be to be approved           *)
(* (packages/types/src/question.ts).  A row's cells are what the code      *)
(* reads in them: a text is a name or Blank; an answer cell is Blank, its  *)
(* letters as a sequence of indices, a number or range, or Bad.            *)
(***************************************************************************)
EXTENDS Cases, Integers, Sequences, FiniteSets, SequencesExt, FiniteSetsExt

CONSTANTS
    Exams,     \* the slugs of the exams
    MaxRows,   \* MAX_IMPORT_ROWS
    Blank, Bad,
    Rows,      \* the rows that a file may have
    Cells,     \* what may stand in an option's cell
    Files,     \* files of these rows
    Banks      \* the hashes that the bank may have

Types == {"mcq_single", "mcq_multi", "integer", "numeric"}
Numeric(type) == type \in {"integer", "numeric"}
Answered(q) == IF Numeric(q.type) THEN q.numAnswer # None ELSE q.correct # <<>>

(* checkQuestion: the problems of a question's fields, by name. *)
Shape(q) ==
    IF Numeric(q.type)
    THEN (IF q.options # <<>> THEN {"options"} ELSE {})
         \cup (IF q.correct # <<>> THEN {"correct"} ELSE {})
         \cup (IF q.numAnswer # None /\ (q.numAnswer.min > q.numAnswer.max \/ (q.type = "integer" /\ ~q.numAnswer.whole))
               THEN {"numAnswer"} ELSE {})
    ELSE (IF q.numAnswer # None THEN {"numAnswer"} ELSE {})
         \cup (IF \/ \E i, j \in DOMAIN q.correct : i # j /\ q.correct[i] = q.correct[j]
                  \/ \E i \in DOMAIN q.correct : q.correct[i] >= Len(q.options)
                  \/ q.type = "mcq_single" /\ Len(q.correct) > 1
               THEN {"correct"} ELSE {})
Hindi(q) == IF q.optionsHi # <<>> /\ Len(q.optionsHi) # Len(q.options) THEN {"optionsHi"} ELSE {}
\* Approved questions must be complete enough to put in a test.
Completeness(q) ==
    (IF q.stem = Blank /\ q.stemHi = Blank THEN {"stem"} ELSE {})
    \cup (IF ~Numeric(q.type) /\ (Len(q.options) < 2 \/ Blank \in ToSet(q.options)) THEN {"options"} ELSE {})
    \cup (IF ~Answered(q) THEN {"answer"} ELSE {})
    \cup (IF q.hasFigure /\ q.figureUrl = None THEN {"figureUrl"} ELSE {})
CheckQuestion(q) == Shape(q) \cup Hindi(q) \cup (IF q.status = "approved" THEN Completeness(q) ELSE {})

(* Cells. *)
\* collectOptions: up to the last one that is filled; a gap is an error.
CollectOptions(cells) ==
    LET filled == {i \in DOMAIN cells : cells[i] # Blank}
    IN  IF filled = {} THEN <<>> ELSE SubSeq(cells, 1, Max(filled))
Gaps(cells) == Blank \in ToSet(CollectOptions(cells))
\* parseLetters and parseNumericAnswer accept only their own kind; a blank is no answer.
ParseLetters(cell) == CASE cell = Blank -> <<>> [] cell # Blank /\ cell = Bad -> Bad [] OTHER -> IF cell.kind = "letters" THEN cell.letters ELSE Bad
ParseNumericAnswer(cell) ==
    IF cell = Bad \/ cell.kind # "number" THEN Bad ELSE [min |-> cell.min, max |-> cell.max, whole |-> cell.whole]
\* toInt: blank, a positive whole number, or an error.
ToInt(cell) == CASE cell = Blank -> None [] cell = Bad -> Bad [] OTHER -> IF cell > 0 THEN cell ELSE Bad

TypeOf(row) == IF row.type = Blank THEN "mcq_single" ELSE row.type
Answers(row) ==
    IF TypeOf(row) \in Types /\ Numeric(TypeOf(row))
    THEN [correct |-> <<>>, numAnswer |-> IF row.correct = Blank THEN None ELSE ParseNumericAnswer(row.correct)]
    ELSE [correct |-> ParseLetters(row.correct), numAnswer |-> None]
\* What mapRow finds wrong before the schema is asked.
RowErrors(row) ==
    {e \in {"type", "examKey", "options", "correct", "number"} :
        \/ e = "type" /\ TypeOf(row) \notin Types
        \/ e = "examKey" /\ row.examKey # Blank /\ row.examKey \notin Exams
        \/ e = "options" /\ (Gaps(row.options) \/ Gaps(row.optionsHi))
        \/ e = "correct" /\ (Answers(row).correct = Bad \/ Answers(row).numAnswer = Bad)
        \/ e = "number" /\ Bad \in {ToInt(row.number), ToInt(row.sourcePage)}}
RowData(row) ==
    [examKey |-> row.examKey, section |-> row.section, number |-> ToInt(row.number), type |-> TypeOf(row),
     stem |-> row.stem, stemHi |-> row.stemHi,
     options |-> CollectOptions(row.options), optionsHi |-> CollectOptions(row.optionsHi),
     correct |-> Answers(row).correct, numAnswer |-> Answers(row).numAnswer,
     hasFigure |-> row.figureUrl # Blank, figureUrl |-> IF row.figureUrl = Blank THEN None ELSE row.figureUrl,
     sourcePage |-> ToInt(row.sourcePage), difficulty |-> IF row.difficulty = Blank THEN "medium" ELSE row.difficulty,
     status |-> "approved"]
SchemaErrors(data) ==
    CheckQuestion(data)
    \cup (IF data.examKey = Blank THEN {"examKey"} ELSE {}) \cup (IF data.section = Blank THEN {"section"} ELSE {})
    \cup (IF data.difficulty \notin {"easy", "medium", "hard"} THEN {"difficulty"} ELSE {})
    \cup (IF data.figureUrl = Bad THEN {"figureUrl"} ELSE {})
MapRow(row) == IF RowErrors(row) # {} THEN RowErrors(row) ELSE SchemaErrors(RowData(row))

\* questionHash: stem and options, the Hindi ones when there are no English ones, in any order.
HashedStem(q) == IF q.stem = Blank THEN q.stemHi ELSE q.stem
HashedOptions(q) == IF q.options = <<>> THEN q.optionsHi ELSE q.options
QuestionHash(q) == [stem |-> HashedStem(q), options |-> ToBag(HashedOptions(q))]

(* The file. *)
\* A row is None when all its cells are blank; readRows drops those at the end.
ReadRows(rows) ==
    LET filled == {i \in DOMAIN rows : rows[i] # None}
    IN  IF filled = {} THEN <<>> ELSE SubSeq(rows, 1, Max(filled))
\* Mutant: only the bank is looked at.
InBank(hash, existing, earlier) == hash \in existing
\* Is it in the bank, or earlier in the file?
Seen(hash, existing, earlier) == hash \in existing \/ hash \in earlier
(* importQuestions: kept are the rows that readRows keeps. *)
\* The numbers of a set, in order: the k-th is the one with k of them up to it.
InOrder(numbers) ==
    [k \in 1..Cardinality(numbers) |-> CHOOSE i \in numbers : Cardinality({j \in numbers : j <= i}) = k]
Filled(kept) == {i \in DOMAIN kept : kept[i] # None}
Valid(kept) == InOrder({i \in Filled(kept) : MapRow(kept[i]) = {}})
Rejected(kept) == InOrder({i \in Filled(kept) : MapRow(kept[i]) # {}})
HashOf(kept, i) == QuestionHash(RowData(kept[i]))
Docs(kept, existing) ==
    LET valid == Valid(kept)
    IN  [k \in DOMAIN valid |->
            [data |-> RowData(kept[valid[k]]), hash |-> HashOf(kept, valid[k]),
             flags |-> IF Seen(HashOf(kept, valid[k]), existing, {HashOf(kept, valid[j]) : j \in 1..(k - 1)})
                       THEN {"duplicate"} ELSE {}]]
\* Rows are numbered as the spreadsheet does, the header being row 1.
Rejections(kept) ==
    LET wrong == Rejected(kept)
    IN  [k \in DOMAIN wrong |-> [row |-> wrong[k] + 1, errors |-> MapRow(kept[wrong[k]])]]
\* existing is the set of hashes of the bank's latest versions.
ImportQuestions(rows, existing, dryRun) ==
    LET kept == ReadRows(rows)
        docs == Docs(kept, existing)
        rejected == Rejections(kept)
    IN  IF Len(kept) > MaxRows THEN [ok |-> FALSE, inserted |-> <<>>]
        ELSE [ok |-> TRUE,
              inserted |-> IF dryRun THEN <<>> ELSE docs,
              total |-> Len(docs) + Len(rejected), imported |-> IF dryRun THEN 0 ELSE Len(docs),
              duplicates |-> Cardinality({k \in DOMAIN docs : docs[k].flags # {}}),
              rejected |-> rejected]

\* An answer cell is blank, letters, a number or a range, or neither.
AnswerCells ==
    {Blank, Bad} \cup [kind : {"letters"}, letters : Seq(Nat)]
    \cup [kind : {"number"}, min : Int, max : Int, whole : BOOLEAN]
ASSUME RowsAssumption ==
    \A row \in Rows \ {None} : row.options \in Seq(Cells) /\ row.optionsHi \in Seq(Cells) /\ row.correct \in AnswerCells
ASSUME FilesAssumption == Files \subseteq Seq(Rows)

(* What an import is for. *)
Hashes(report) == {report.inserted[k].hash : k \in DOMAIN report.inserted}
\* Every row that is not blank is imported or rejected, under its own number.
RowsCounted(rows, report) ==
    /\ report.total = Cardinality({i \in DOMAIN rows : rows[i] # None})
    /\ report.imported + Len(report.rejected) = report.total
    /\ \A k \in DOMAIN report.rejected :
          LET i == report.rejected[k].row - 1
          IN  i \in DOMAIN rows /\ rows[i] # None /\ report.rejected[k].errors = MapRow(rows[i])
\* No row is imported or rejected twice, and the imported are in the file's order.
InFileOrder(rows, report) ==
    /\ \A j, k \in DOMAIN report.rejected : j < k => report.rejected[j].row < report.rejected[k].row
    /\ \E at \in [DOMAIN report.inserted -> DOMAIN rows] :
          /\ \A j, k \in DOMAIN report.inserted : j < k => at[j] < at[k]
          /\ \A k \in DOMAIN report.inserted : rows[at[k]] # None /\ report.inserted[k].data = RowData(rows[at[k]])
\* What comes in can be put in a test.
Usable(docs) ==
    \A k \in DOMAIN docs :
        Answered(docs[k].data) /\ ToSet(docs[k].data.correct) \subseteq 0..(Len(docs[k].data.options) - 1)
\* Copies have one stem and the same options, which may be shuffled.
Shuffled(a, b) == \E p \in Bijection(DOMAIN a, DOMAIN b) : \A i \in DOMAIN a : a[i] = b[p[i]]
Copies(q, other) == HashedStem(q) = HashedStem(other) /\ Shuffled(HashedOptions(q), HashedOptions(other))
\* Of the copies of a question one is unmarked at most, and none that the bank has.
Marked(docs, existing) ==
    \A k \in DOMAIN docs :
        docs[k].flags = {} =>
            docs[k].hash \notin existing /\ \A j \in DOMAIN docs : Copies(docs[j].data, docs[k].data) /\ docs[j].flags = {} => j = k
Imported(rows, existing) == ImportQuestions(rows, existing, FALSE)
\* Every row that is not blank is imported or rejected under its own row number, in the file's
\* order; what comes in can be put in a test; and a dry run reports what the import would.
RowsLand(rows, existing) ==
    LET report == Imported(rows, existing)
        dry == ImportQuestions(rows, existing, TRUE)
    IN  report.ok =>
            /\ RowsCounted(rows, report)
            /\ InFileOrder(rows, report)
            /\ Usable(report.inserted)
            /\ dry.rejected = report.rejected /\ dry.duplicates = report.duplicates /\ dry.inserted = <<>>
\* Of the rows that are copies at most one is without the "duplicate" flag, and none when the bank
\* has it; the same file imported again is flagged throughout.
CopiesMarked(rows, existing) ==
    LET report == Imported(rows, existing)
        again == Imported(rows, existing \cup Hashes(report))
    IN  report.ok =>
            /\ Marked(report.inserted, existing)
            /\ \A k \in DOMAIN again.inserted : again.inserted[k].flags = {"duplicate"}

PickImport ==
    /\ case = NoCase("import")
    /\ \E rows \in Files, existing \in Banks :
           /\ case' = [area |-> "import", rows |-> rows, existing |-> existing]
ImportSpec == case = NoCase("import") /\ [][PickImport \/ Again]_case

\* An import is sound (importQuestions): every row lands once, and copies are marked.
ImportOnce == case.area = "import" => RowsLand(case.rows, case.existing) /\ CopiesMarked(case.rows, case.existing)
=============================================================================
