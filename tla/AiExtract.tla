------------------------------ MODULE AiExtract ------------------------------
(***************************************************************************)
(* The AI extractor (apps/worker/src/ingest/aiExtractor.ts, pdf.ts): a     *)
(* paper goes to the model in chunks of pages that overlap by one page,    *)
(* each call is retried, each reply is cleaned, and the copies that the    *)
(* overlap brings twice are merged.  The model itself is external: its     *)
(* reply is data.  A text is its length; a section is a name or None.      *)
(***************************************************************************)
EXTENDS Integers, Sequences, FiniteSets, SequencesExt, FiniteSetsExt

CONSTANTS
    Window,        \* how many merged questions are looked back at (15)
    MaxAttempts,   \* calls made for one chunk (6)
    None

(* Retries.  An outcome of a call: ok, or an error with a status (or None), a network failure
   or not, and the wait it asks for in seconds (or None). *)
Worth(error) ==
    \/ error.status # None /\ (error.status = 429 \/ error.status >= 500)
    \/ error.status = None /\ error.network
RetryDelaySec(error, attempt) ==
    CASE ~Worth(error) -> None
      [] Worth(error) /\ error.hint # None -> error.hint
      [] OTHER -> Min({60, 2 * 2 ^ attempt})

Retried(outcomes, attempt) == RetryDelaySec(outcomes[attempt + 1], attempt) # None /\ attempt + 1 < MaxAttempts
\* withRetry: the calls made until one is answered, or not worth repeating, or the last.
Calls(outcomes) ==
    LET ends == {k \in DOMAIN outcomes : outcomes[k].ok \/ ~Retried(outcomes, k - 1)}
    IN  Min(ends)
Waits(outcomes) == [k \in 1..(Calls(outcomes) - 1) |-> RetryDelaySec(outcomes[k], k - 1)]

(* Chunks: the first and the last page of each. *)
Step(size) == Max({1, size - 1})
SplitPdf(total, size) ==
    IF total <= size THEN <<[first |-> 1, last |-> total]>>
    ELSE LET Chunk(i) == [first |-> i * Step(size) + 1, last |-> Min({total, i * Step(size) + size})]
             count == CHOOSE n \in 1..total : Chunk(n - 1).last = total /\ \A k \in 0..(n - 2) : Chunk(k).last # total
         IN  [i \in 1..count |-> Chunk(i - 1)]

(* Replies. *)
IsChoice(type) == type \in {"mcq_single", "mcq_multi"}
\* Some models count pages within the chunk: the page is moved into the chunk.
PageOf(page, chunk) ==
    CASE page \in chunk.first..chunk.last -> page
      [] page \notin chunk.first..chunk.last /\ page \in 1..(chunk.last - chunk.first + 1) -> chunk.first + page - 1
      [] OTHER -> chunk.first
\* numAnswer: None, or a value and whether it is whole. options, optionsHi: the texts' lengths.
ParseAiQuestion(a, chunk) ==
    LET mcq == IsChoice(a.type)
        options == IF mcq THEN a.options ELSE <<>>
        correct == IF mcq THEN a.answer \cap (0..(Len(options) - 1)) ELSE {}
        numAnswer == IF mcq THEN None ELSE a.numAnswer
        answered == correct # {} \/ numAnswer # None
    IN  [number |-> a.number, section |-> a.section, page |-> PageOf(a.page, chunk),
         type |-> CASE mcq -> IF Cardinality(correct) > 1 THEN "mcq_multi" ELSE "mcq_single"
                    [] ~mcq /\ numAnswer = None -> a.type
                    [] OTHER -> IF numAnswer.whole THEN "integer" ELSE "numeric",
         stem |-> a.stem, options |-> options,
         optionsHi |-> IF mcq /\ Len(a.optionsHi) = Len(options) THEN a.optionsHi ELSE <<>>,
         correct |-> correct, numAnswer |-> numAnswer,
         answerSource |-> IF ~answered THEN "none" ELSE IF a.answerSource = "none" THEN "ai" ELSE a.answerSource,
         confidence |-> a.confidence]
\* Items that cannot be read are dropped.
ParseAiQuestions(items, chunk) ==
    LET readable == SelectSeq(items, LAMBDA a : a # None)
    IN  [i \in DOMAIN readable |-> ParseAiQuestion(readable[i], chunk)]

(* Merging.  completeness, in ten-thousandths; confidence is in tenths. *)
Completeness(q) ==
    (IF q.stem > 0 THEN 30000 ELSE 0)
    + 10000 * Cardinality({i \in DOMAIN q.options : q.options[i] > 0})
    + (IF q.correct # {} \/ q.numAnswer # None THEN 20000 ELSE 0)
    + 1000 * q.confidence + q.stem
Copies(merged, q) ==
    {i \in DOMAIN merged :
        /\ i > Len(merged) - Window
        /\ q.number # None /\ merged[i].number = q.number
        /\ merged[i].section = None \/ q.section = None \/ merged[i].section = q.section
        /\ merged[i].page - q.page \in -1..1}
\* Mutant: the copy read last wins.
LastCopy(merged, q) ==
    IF Copies(merged, q) = {} THEN Append(merged, q) ELSE [merged EXCEPT ![Min(Copies(merged, q))] = q]
MergeOne(merged, q) ==
    IF Copies(merged, q) = {} THEN Append(merged, q)
    ELSE LET i == Min(Copies(merged, q))
         IN  IF Completeness(q) > Completeness(merged[i]) THEN [merged EXCEPT ![i] = q] ELSE merged
MergeChunks(chunks) == FoldLeft(MergeOne, <<>>, FlattenSeq(chunks))

\* aiExtract, when every call is answered in the end: reply[c] is what the model says of chunk c.
Extract(total, size, reply) ==
    LET chunks == SplitPdf(total, size)
    IN  MergeChunks([c \in DOMAIN chunks |-> ParseAiQuestions(reply[c], chunks[c])])

\* aiReadKey: entries in the printed order; a blank answer is none.
ReadKeyReply(answers) ==
    [i \in DOMAIN answers |-> [number |-> answers[i].number, tokens |-> answers[i].answer, solution |-> answers[i].solution]]
=============================================================================
