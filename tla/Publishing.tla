---------------------------- MODULE Publishing ----------------------------
(***************************************************************************)
(* The question bank and the tests made of it: versions of questions       *)
(* (apps/api/src/services/questions.ts), the admin's handlers for tests    *)
(* and questions (routes/admin/tests.ts, questions.ts), and the students'  *)
(* reports that pull a question (services/reports.ts, routes/admin/        *)
(* reports.ts, routes/studentContent.ts).                                  *)
(*                                                                         *)
(* A request reads in one step and writes each document in a step of its   *)
(* own; it may die between two of them.  A save writes only the fields     *)
(* that its request changed, over the document as it is by then.  Left     *)
(* out: mongoose's version check, which refuses some saves of lists that   *)
(* raced, metadata, and the audit log.  A question's flags are one list,  *)
(* written whole by a save that changes it; of the flags that a save       *)
(* recomputes or takes away one is modelled, "no_answer".                  *)
(***************************************************************************)
EXTENDS Naturals, FiniteSets

CONSTANTS
    Ids,          \* ids of questions
    Uploaded,     \* those whose question, with all its versions, came with an upload
    Tests,        \* tests
    Editors,      \* requests of admins in progress at once
    Students,     \* students who report
    Enough,       \* REPORTS_TO_UNPUBLISH
    Expected,     \* questions that the template expects
    MaxContent,   \* bound: edits of a question's content
    MayDie        \* bound: may a request die half way?

ASSUME NumbersAssumption ==
    /\ Enough \in Nat \ {0} /\ Expected \in Nat /\ MaxContent \in Nat \ {0} /\ MayDie \in BOOLEAN

VARIABLES
    question,   \* the questions of the bank, every version a document
    test,       \* the tests
    reports,    \* the open reports of each question, by student
    request,    \* what each request of an admin knows
    reporter,   \* what each student's report has done
    died,       \* history: did a request die half way?
    overlapped  \* history: did a request of an admin begin while another was in progress?

history == <<died, overlapped>>
vars == <<question, test, reports, request, reporter, history>>

NoId == "none"
Flags == {"reported", "no_answer"}
\* version 0: no document.
NoQuestion == [root |-> NoId, version |-> 0, latest |-> FALSE, approved |-> FALSE,
               answered |-> FALSE, content |-> 0, flags |-> {}]
Question == [root: Ids \cup {NoId}, version: Nat, latest: BOOLEAN, approved: BOOLEAN,
             answered: BOOLEAN, content: 0..MaxContent, flags: SUBSET Flags]
\* seen: was published, so students may have attempted it.
NoTest == [status |-> "none", questions |-> {}, seen |-> FALSE]
Test == [status: {"none", "draft", "published"}, questions: SUBSET Ids, seen: BOOLEAN]
Idle == [at |-> "idle"]
RequestState ==
    {Idle} \cup [at: {"save", "version", "unflag"}, id: Ids, read: Question, wanted: Question]
    \cup [at: {"demote", "move"}, id: Ids, next: Ids]
    \cup [at: {"delete"}, ids: SUBSET Ids]
    \cup [at: {"saveTest"}, test: Tests, questions: SUBSET Ids]
    \cup [at: {"status"}, test: Tests, status: {"draft", "published"}]
    \cup [at: {"approveAll"}, left: SUBSET Ids, read: [Ids -> Question]]
    \cup [at: {"restore", "approve"}, id: Ids]

Exists(q) == question[q].version > 0
Pulled(doc) == "reported" \in doc.flags
\* Ids are never used again: none that anything still names.
Free == {q \in Ids :
    /\ ~Exists(q) /\ reports[q] = {} /\ \A p \in Ids : question[p].root # q
    /\ \A t \in Tests : q \notin test[t].questions
    /\ \A s \in Students : reporter[s] = Idle \/ reporter[s].id # q}
InTests(Q, statuses) == \E t \in Tests : test[t].status \in statuses /\ test[t].questions \cap Q # {}
Go(e, next) == request' = [request EXCEPT ![e] = next]
Done(e) == Go(e, Idle)
Begin(e) ==
    /\ request[e] = Idle
    /\ overlapped' = (overlapped \/ \E f \in Editors : request[f] # Idle)
    /\ UNCHANGED died
\* Mutant: the whole document as the request read and changed it.
SavedWhole(doc, read, wanted) == wanted
\* mongoose's save: the changed fields, over the present document.
Saved(doc, read, wanted) ==
    [f \in DOMAIN doc |-> IF wanted[f] # read[f] THEN wanted[f] ELSE doc[f]]
Write(q, read, wanted) ==
    question' = IF Exists(q) THEN [question EXCEPT ![q] = Saved(@, read, wanted)] ELSE question
Complete(q) == question[q].answered
Approved(doc) == [doc EXCEPT !.approved = TRUE, !.flags = {}]
\* What an editor may send: an approved question is complete (checkQuestion).
Edits == {d \in [approved: BOOLEAN, answered: BOOLEAN, content: 1..MaxContent] :
             d.approved => d.answered}
\* flagsAfterEdit, from the flags as they were read: for a question of an upload anew.
FlagsAfterEdit(root, flags, d) ==
    IF root \notin Uploaded THEN flags
    ELSE IF d.approved THEN {}
    ELSE (flags \ {"no_answer"}) \cup (IF d.answered THEN {} ELSE {"no_answer"})

Init ==
    /\ question = [q \in Ids |-> NoQuestion]
    /\ test = [t \in Tests |-> NoTest]
    /\ reports = [q \in Ids |-> {}]
    /\ request = [e \in Editors |-> Idle]
    /\ reporter = [s \in Students |-> Idle]
    /\ died = FALSE /\ overlapped = FALSE

-----------------------------------------------------------------------------
(* Questions. *)

\* createQuestion, each row of an import, and each question of an upload.
CreateQuestion(e, q, d) ==
    /\ Begin(e) /\ q \in Free /\ d.content = 1
    /\ question' = [question EXCEPT ![q] =
          [NoQuestion EXCEPT !.root = q, !.version = 1, !.latest = TRUE,
                             !.approved = d.approved, !.answered = d.answered, !.content = 1,
                             !.flags = FlagsAfterEdit(q, {}, d)]]
    /\ UNCHANGED <<test, reports, request, reporter>>

\* saveQuestion: content that students see in a published test is never changed in place.
NeedsVersion(q, d) ==
    /\ InTests({q}, {"published"})
    /\ d.content # question[q].content \/ d.answered # question[q].answered

\* saveQuestion reads: the latest version only.
Edit(e, q, d) ==
    /\ Begin(e) /\ Exists(q) /\ question[q].latest
    /\ LET doc == question[q]
           wanted == [doc EXCEPT !.approved = d.approved, !.answered = d.answered,
                                 !.content = d.content, !.flags = FlagsAfterEdit(doc.root, @, d)]
       IN  Go(e, [at |-> IF NeedsVersion(q, d) THEN "version" ELSE "save",
                  id |-> q, read |-> doc, wanted |-> wanted])
    /\ UNCHANGED <<question, test, reports, reporter>>

\* approveQuestion, from the approve handler: reviewed, and every flag cleared.
Approve(e, q) ==
    /\ Begin(e) /\ Exists(q) /\ question[q].latest /\ Complete(q)
    /\ Go(e, [at |-> "save", id |-> q, read |-> question[q], wanted |-> Approved(question[q])])
    /\ UNCHANGED <<question, test, reports, reporter>>

SaveQuestion(e) ==
    /\ request[e].at = "save"
    /\ Write(request[e].id, request[e].read, request[e].wanted)
    /\ Done(e)
    /\ UNCHANGED <<test, reports, reporter, history>>

\* saveQuestion: the next version, then the old one is no longer the latest, then the drafts move.
CreateVersion(e) ==
    /\ request[e].at = "version"
    /\ \E n \in Free :
          /\ question' = [question EXCEPT ![n] =
                [request[e].wanted EXCEPT !.version = @ + 1, !.latest = TRUE]]
          /\ Go(e, [at |-> "demote", id |-> request[e].id, next |-> n])
    /\ UNCHANGED <<test, reports, reporter, history>>

\* Mutant: the old version stays the latest.
StillLatest(doc) == doc
Demoted(doc) == [doc EXCEPT !.latest = FALSE]
Demote(e) ==
    /\ request[e].at = "demote"
    /\ LET q == request[e].id
       IN  question' = IF Exists(q) THEN [question EXCEPT ![q] = Demoted(@)] ELSE question
    /\ request' = [request EXCEPT ![e].at = "move"]
    /\ UNCHANGED <<test, reports, reporter, history>>

\* Mutant: published tests move too.
MovesAll(status) == status # "none"
Moves(status) == status = "draft"
MoveDrafts(e) ==
    /\ request[e].at = "move"
    /\ LET old == request[e].id
       IN  test' = [t \in Tests |->
              IF Moves(test[t].status) /\ old \in test[t].questions
              THEN [test[t] EXCEPT !.questions = (@ \ {old}) \cup {request[e].next}] ELSE test[t]]
    /\ Done(e)
    /\ UNCHANGED <<question, reports, reporter, history>>

\* Delete, alone (any version) or in bulk (latest ones): questions in tests are kept, whatever
\* the tests' status.
Delete(e, Q) ==
    /\ Begin(e) /\ Q # {} /\ \A q \in Q : Exists(q) /\ (question[q].latest \/ Q = {q})
    /\ LET deletable == {q \in Q : ~InTests({q}, {"draft", "published"})}
       IN  deletable # {} /\ Go(e, [at |-> "delete", ids |-> deletable])
    /\ UNCHANGED <<question, test, reports, reporter>>
Deleted(doc) == NoQuestion
DeleteMany(e) ==
    /\ request[e].at = "delete"
    /\ question' = [q \in Ids |-> IF q \in request[e].ids THEN Deleted(question[q]) ELSE question[q]]
    /\ Done(e)
    /\ UNCHANGED <<test, reports, reporter, history>>

-----------------------------------------------------------------------------
(* Tests. *)

CreateTest(e, t) ==
    /\ Begin(e) /\ test[t].status = "none"
    /\ test' = [test EXCEPT ![t].status = "draft"]
    /\ UNCHANGED <<question, reports, request, reporter>>

\* PUT: a draft gets existing questions, the added ones in their latest version.
Put(e, t, Q) ==
    /\ Begin(e) /\ test[t].status = "draft" /\ Q # test[t].questions
    /\ \A q \in Q : Exists(q) /\ (q \in test[t].questions \/ question[q].latest)
    /\ Go(e, [at |-> "saveTest", test |-> t, questions |-> Q])
    /\ UNCHANGED <<question, test, reports, reporter>>

\* fillSection: approved, latest questions, never a version of one that is in the test already.
Fill(e, t, Q) ==
    /\ Begin(e) /\ test[t].status = "draft" /\ Q # {}
    /\ \A q \in Q :
          /\ question[q].latest /\ question[q].approved
          /\ \A p \in (Q \ {q}) \cup test[t].questions : question[p].root # question[q].root
    /\ Go(e, [at |-> "saveTest", test |-> t, questions |-> test[t].questions \cup Q])
    /\ UNCHANGED <<question, test, reports, reporter>>

SaveTest(e) ==
    /\ request[e].at = "saveTest"
    /\ LET t == request[e].test
       IN  test' = IF test[t].status = "none" THEN test
                   ELSE [test EXCEPT ![t].questions = request[e].questions]
    /\ Done(e)
    /\ UNCHANGED <<question, reports, reporter, history>>

\* Mutant: a question without an answer does not block.
BlockedIfMissing(Q) == Q = {} \/ \E q \in Q : ~Exists(q)
\* publish: no questions, a missing one or one without an answer always block.
Blocking(Q) == Q = {} \/ \E q \in Q : ~Exists(q) \/ ~Complete(q)
\* computeChecks: ok, which force overrides.
ChecksOk(Q) ==
    /\ Cardinality(Q) = Expected
    /\ \A q \in Q : question[q].approved
    /\ \A q, p \in Q : q # p => question[q].root # question[p].root
Publish(e, t) ==
    /\ Begin(e) /\ test[t].status = "draft"
    /\ ~Blocking(test[t].questions)
    /\ \E force \in BOOLEAN : force \/ ChecksOk(test[t].questions)
    /\ Go(e, [at |-> "status", test |-> t, status |-> "published"])
    /\ UNCHANGED <<question, test, reports, reporter>>

Unpublish(e, t) ==
    /\ Begin(e) /\ test[t].status = "published"
    /\ Go(e, [at |-> "status", test |-> t, status |-> "draft"])
    /\ UNCHANGED <<question, test, reports, reporter>>

SaveStatus(e) ==
    /\ request[e].at = "status"
    /\ LET t == request[e].test
       IN  test' = IF test[t].status = "none" THEN test
                   ELSE [test EXCEPT ![t].status = request[e].status, ![t].seen = TRUE]
    /\ Done(e)
    /\ UNCHANGED <<question, reports, reporter, history>>

DeleteTest(e, t) ==
    /\ Begin(e) /\ test[t].status = "draft"
    /\ test' = [test EXCEPT ![t] = NoTest]
    /\ UNCHANGED <<question, reports, request, reporter>>

\* answer-key: a question of the test gets a valid answer, in place; the flag goes.
AnswerKey(e, t, q) ==
    /\ Begin(e) /\ test[t].status # "none" /\ q \in test[t].questions /\ Exists(q)
    /\ Go(e, [at |-> "save", id |-> q, read |-> question[q],
              wanted |-> [question[q] EXCEPT !.answered = TRUE, !.flags = @ \ {"no_answer"}]])
    /\ UNCHANGED <<question, test, reports, reporter>>

\* approve-answered: the drafts of the test are found, then approved one by one as they were.
ApproveAnswered(e, t) ==
    /\ Begin(e) /\ test[t].status # "none"
    /\ LET drafts == {q \in test[t].questions : Exists(q) /\ ~question[q].approved /\ Complete(q)}
       IN  drafts # {} /\ Go(e, [at |-> "approveAll", left |-> drafts, read |-> question])
    /\ UNCHANGED <<question, test, reports, reporter>>
ApproveNext(e) ==
    /\ request[e].at = "approveAll"
    /\ \E q \in request[e].left :
          /\ Write(q, request[e].read[q], Approved(request[e].read[q]))
          /\ IF request[e].left = {q} THEN Done(e)
             ELSE request' = [request EXCEPT ![e].left = @ \ {q}]
    /\ UNCHANGED <<test, reports, reporter, history>>

-----------------------------------------------------------------------------
(* Reports. *)

\* A student reports a question; the unique index keeps one open report of each.
Report(s, q) ==
    /\ reporter[s] = Idle /\ Exists(q) /\ s \notin reports[q]
    /\ \E t \in Tests : test[t].seen /\ q \in test[t].questions
    /\ reports' = [reports EXCEPT ![q] = @ \cup {s}]
    /\ reporter' = [reporter EXCEPT ![s] = [at |-> "count", id |-> q]]
    /\ UNCHANGED <<question, test, request, history>>

\* pullIfOverReported: the open reports are counted ...
CountReports(s) ==
    /\ reporter[s].at = "count"
    /\ reporter' = [reporter EXCEPT ![s] =
          IF Cardinality(reports[reporter[s].id]) < Enough THEN Idle ELSE [@ EXCEPT !.at = "pull"]]
    /\ UNCHANGED <<question, test, reports, request, history>>

\* ... and one update flags the question, unless it is flagged.
Pull(s) ==
    /\ reporter[s].at = "pull"
    /\ LET q == reporter[s].id
       IN  question' = IF Exists(q) /\ ~Pulled(question[q])
                       THEN [question EXCEPT ![q].flags = @ \cup {"reported"}, ![q].approved = FALSE]
                       ELSE question
    /\ reporter' = [reporter EXCEPT ![s] = Idle]
    /\ UNCHANGED <<test, reports, request, history>>

\* resolve: the open reports are closed, then restoreReported reads the question ...
Resolve(e, q) ==
    /\ Begin(e) /\ reports[q] # {}
    /\ reports' = [reports EXCEPT ![q] = {}]
    /\ Go(e, [at |-> "restore", id |-> q])
    /\ UNCHANGED <<question, test, reporter>>
Restore(e) ==
    /\ request[e].at = "restore"
    /\ LET doc == question[request[e].id]
       IN  IF Pulled(doc)
           THEN Go(e, [at |-> "unflag", id |-> request[e].id, read |-> doc,
                       wanted |-> [doc EXCEPT !.flags = @ \ {"reported"}]])
           ELSE Done(e)
    /\ UNCHANGED <<question, test, reports, reporter, history>>
\* ... takes the flag away, and reads the question again to approve it if it is complete.
Unflag(e) ==
    /\ request[e].at = "unflag"
    /\ Write(request[e].id, request[e].read, request[e].wanted)
    /\ Go(e, [at |-> "approve", id |-> request[e].id])
    /\ UNCHANGED <<test, reports, reporter, history>>
ApproveRestored(e) ==
    /\ request[e].at = "approve"
    /\ LET doc == question[request[e].id]
       IN  IF Exists(request[e].id) /\ doc.answered
           THEN Go(e, [at |-> "save", id |-> request[e].id, read |-> doc, wanted |-> Approved(doc)])
           ELSE Done(e)
    /\ UNCHANGED <<question, test, reports, reporter, history>>

\* The process dies, or a command fails, and the request is never finished.
Die(e) ==
    /\ MayDie /\ request[e] # Idle
    /\ Done(e) /\ died' = TRUE
    /\ UNCHANGED <<question, test, reports, reporter, overlapped>>

-----------------------------------------------------------------------------
BankAction(e) ==
    \/ \E q \in Ids, d \in Edits : CreateQuestion(e, q, d) \/ Edit(e, q, d)
    \/ \E q \in Ids : Approve(e, q) \/ Resolve(e, q)
    \/ \E Q \in SUBSET Ids : Delete(e, Q)
TestAction(e, t) ==
    \/ CreateTest(e, t) \/ Publish(e, t) \/ Unpublish(e, t) \/ DeleteTest(e, t) \/ ApproveAnswered(e, t)
    \/ \E Q \in SUBSET Ids : Put(e, t, Q) \/ Fill(e, t, Q)
    \/ \E q \in Ids : AnswerKey(e, t, q)
Continue(e) ==
    \/ SaveQuestion(e) \/ CreateVersion(e) \/ Demote(e) \/ MoveDrafts(e) \/ DeleteMany(e)
    \/ SaveTest(e) \/ SaveStatus(e) \/ ApproveNext(e)
    \/ Restore(e) \/ Unflag(e) \/ ApproveRestored(e) \/ Die(e)

Next ==
    \/ \E e \in Editors : BankAction(e) \/ Continue(e) \/ \E t \in Tests : TestAction(e, t)
    \/ \E s \in Students : CountReports(s) \/ Pull(s) \/ \E q \in Ids : Report(s, q)

Spec == Init /\ [][Next]_vars

-----------------------------------------------------------------------------
\* Types; nothing is left of a document that does not exist.
TypeOK ==
    /\ \A q \in Ids : ~Exists(q) => question[q] = NoQuestion
    /\ question \in [Ids -> Question] /\ test \in [Tests -> Test]
    /\ reports \in [Ids -> SUBSET Students] /\ died \in BOOLEAN /\ overlapped \in BOOLEAN
    /\ request \in [Editors -> RequestState]
    /\ reporter \in [Students -> {Idle} \cup [at: {"count", "pull"}, id: Ids]]

\* "Missing questions or answers always block" (tests.ts): a published test has questions, and
\* each of them exists and has an answer, whatever was edited, deleted or half done since,
\* unless two requests of admins overlapped: publish and the others read first and write later.
PublishedComplete ==
    ~overlapped => \A t \in Tests : test[t].status = "published" =>
        test[t].questions # {} /\ \A q \in test[t].questions : Exists(q) /\ question[q].answered

\* "published tests keep the old version" (questions.ts): while a test is published neither its
\* list nor what its students see of a question changes, unless requests of admins overlapped.
PublishedFrozen ==
    [][~overlapped => \A t \in Tests :
          test[t].status = "published" /\ test'[t].status = "published" =>
             /\ test'[t].questions = test[t].questions
             /\ \A q \in test[t].questions : question'[q].content = question[q].content]_vars

\* Unless a request died half way or is still at it, or two overlapped, a question has at most
\* one latest version, the highest of them.
OneLatest ==
    ~died /\ ~overlapped /\ (\A e \in Editors : request[e].at # "demote") =>
        \A q, p \in Ids :
            Exists(q) /\ Exists(p) /\ question[q].root = question[p].root /\ question[q].latest =>
                question[p].version < question[q].version \/ p = q

\* Request r is about to save q: what the document was when it was read, and what it is to become.
Saving(r, q) == (r.at \in {"save", "unflag"} /\ r.id = q) \/ (r.at = "approveAll" /\ q \in r.left)
ReadBy(r, q) == IF r.at = "approveAll" THEN r.read[q] ELSE r.read
WantedBy(r, q) == IF r.at = "approveAll" THEN Approved(r.read[q]) ELSE r.wanted
\* The save may give a pulled question back: it read the flag, and approves the question or
\* restores it (restoreReported); or it read the question before the pull, and its request sets
\* the whole list of flags, or the status, anew.
GivesBack(r, q) ==
    IF Pulled(ReadBy(r, q)) THEN r.at = "unflag" \/ WantedBy(r, q).approved
    ELSE \/ WantedBy(r, q).flags # ReadBy(r, q).flags
         \/ WantedBy(r, q).approved # ReadBy(r, q).approved
\* No save but these gives back a question that students pulled (pullIfOverReported): any other
\* save, of the text, of an answer, whenever it read the question, keeps the flag and the draft.
PullSurvives ==
    [][\A q \in Ids :
          Exists(q) /\ Exists(q)' /\ Pulled(question[q]) =>
             \/ Pulled(question'[q]) /\ (question'[q].approved => question[q].approved)
             \/ \E e \in Editors : Saving(request[e], q) /\ GivesBack(request[e], q) /\ request'[e] # request[e]]_vars

\* reports.ts:14 says that the question is pulled "until an admin fixes or dismisses the
\* reports": a save that read the question before the pull does not give it back.
PullKept ==
    [][\A q \in Ids, e \in Editors :
          /\ request[e].at = "save" /\ request[e].id = q /\ request'[e] = Idle /\ Exists(q)
          /\ Pulled(question[q]) /\ ~Pulled(request[e].read)
          => Pulled(question'[q])]_vars

\* reports.ts:14 says that the question is pulled "until an admin fixes or dismisses the
\* reports": a flagged question that nobody is at work on has open reports.
PulledHasReports ==
    (\A e \in Editors : request[e] = Idle) /\ (\A s \in Students : reporter[s] = Idle) =>
        \A q \in Ids : Exists(q) /\ Pulled(question[q]) => reports[q] # {}

\* questions.ts says "Drafts always use the latest version."
DraftsUseLatest ==
    (\A e \in Editors : request[e] = Idle) =>
        \A t \in Tests : test[t].status = "draft" => \A q \in test[t].questions : question[q].latest
=============================================================================
