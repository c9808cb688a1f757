------------------------- MODULE PublishingProofs -------------------------
(***************************************************************************)
(* Types, and which saves give a pulled question back: for any number of   *)
(* requests and reports at once.  Published tests that stay complete and as they were,  *)
(* and the one latest version: as long as no two requests overlap.         *)
(*                                                                         *)
(* A save writes what its request changed, so it has to be known that no   *)
(* request changes a question's place among the versions or flags it       *)
(* (Sane).  A request that writes later than it read is safe if what it    *)
(* found still holds (Ready), which is what being alone (One) gives it:    *)
(* students' reports come between, and change nothing it looked at.  While *)
(* a version waits to be demoted it and its successor are both the latest  *)
(* (Highest).  And what an import promises, for every file.                *)
(***************************************************************************)
EXTENDS Publishing, Import, FiniteSetTheorems, SequenceTheorems, WellFoundedInduction, TLAPS

Saves == [at: {"save", "version", "unflag"}, id: Ids, read: Question, wanted: Question]
Swaps == [at: {"demote", "move"}, id: Ids, next: Ids]
Deletes == [at: {"delete"}, ids: SUBSET Ids]
SavesTest == [at: {"saveTest"}, test: Tests, questions: SUBSET Ids]
SetsStatus == [at: {"status"}, test: Tests, status: {"draft", "published"}]
ApprovesAll == [at: {"approveAll"}, left: SUBSET Ids, read: [Ids -> Question]]
Restores == [at: {"restore", "approve"}, id: Ids]

\* A request that saves a document knows its version, and takes the students' flag from a document
\* that has it only to approve or to restore the question.
Sane(r) ==
    r.at \in {"save", "unflag"} =>
        /\ r.wanted.root = r.read.root /\ r.wanted.version = r.read.version /\ r.wanted.latest = r.read.latest
        /\ Pulled(r.read) /\ ~Pulled(r.wanted) => r.at = "unflag" \/ r.wanted.approved
        /\ r.at = "unflag" => r.wanted.content = r.read.content /\ r.wanted.answered = r.read.answered
Sound == \A e \in Editors : Sane(request[e])

Shown(q) == \E t \in Tests : test[t].status = "published" /\ q \in test[t].questions
\* What the request found still holds when it writes.
Ready(r) ==
    /\ r.at = "save" /\ Shown(r.id) =>
          r.wanted.content = r.read.content /\ (r.wanted.answered = r.read.answered \/ r.wanted.answered)
    /\ r.at = "delete" => \A q \in r.ids : ~Shown(q)
    /\ r.at = "saveTest" => test[r.test].status # "published"
    /\ r.at = "status" /\ r.status = "published" =>
          test[r.test].status = "draft" /\ ~Blocking(test[r.test].questions)
    /\ r.at = "version" =>
          Exists(r.id) /\ question[r.id].latest /\ question[r.id].root = r.wanted.root /\ question[r.id].version = r.wanted.version
    /\ r.at = "demote" =>
          /\ Exists(r.id) /\ Exists(r.next) /\ question[r.next].root = question[r.id].root
          /\ question[r.next].version = question[r.id].version + 1
One == \A e, f \in Editors : request[e] # Idle /\ request[f] # Idle => e = f
Complete1 ==
    \A t \in Tests : test[t].status = "published" =>
        test[t].questions # {} /\ \A q \in test[t].questions : Exists(q) /\ question[q].answered
\* The version that a request is about to demote is the latest of its question but for the new one.
Highest ==
    \A q, p \in Ids :
        /\ Exists(q) /\ Exists(p) /\ question[q].root = question[p].root /\ question[q].latest
        /\ \A e \in Editors : request[e].at = "demote" => request[e].id # q
        => question[p].version < question[q].version \/ p = q
Solo == One /\ (\A e \in Editors : Ready(request[e])) /\ Complete1 /\ (~died => Highest)
SoloInv == ~overlapped => Solo

Inv == TypeOK /\ Sound /\ SoloInv
-----------------------------------------------------------------------------
LEMMA Forms ==
    ASSUME TypeOK, NEW e \in Editors
    PROVE  /\ request[e].at \in {"save", "version", "unflag"} => request[e] \in Saves
           /\ request[e].at \in {"demote", "move"} => request[e] \in Swaps
           /\ request[e].at = "delete" => request[e] \in Deletes
           /\ request[e].at = "saveTest" => request[e] \in SavesTest
           /\ request[e].at = "status" => request[e] \in SetsStatus
           /\ request[e].at = "approveAll" => request[e] \in ApprovesAll
           /\ request[e].at \in {"restore", "approve"} => request[e] \in Restores
           /\ request[e].at = "idle" <=> request[e] = Idle
  <1>1. request[e] \in {Idle} \cup Saves \cup Swaps \cup Deletes \cup SavesTest \cup SetsStatus \cup ApprovesAll \cup Restores
    BY DEF TypeOK, RequestState, Saves, Swaps, Deletes, SavesTest, SetsStatus, ApprovesAll, Restores
  <1> QED
    BY <1>1 DEF Idle, Saves, Swaps, Deletes, SavesTest, SetsStatus, ApprovesAll, Restores

LEMMA GoEffect ==
    ASSUME TypeOK, NEW e \in Editors, NEW next \in RequestState, Go(e, next)
    PROVE  /\ request' \in [Editors -> RequestState]
           /\ request'[e] = next
           /\ \A f \in Editors : f # e => request'[f] = request[f]
  BY DEF TypeOK, Go

Fields == {"root", "version", "latest", "approved", "answered", "content", "flags"}

LEMMA SavedTyped ==
    ASSUME NEW doc \in Question, NEW read \in Question, NEW wanted \in Question
    PROVE  /\ Saved(doc, read, wanted) \in Question
           /\ \A f \in Fields : Saved(doc, read, wanted)[f] = IF wanted[f] # read[f] THEN wanted[f] ELSE doc[f]
  <1>1. DOMAIN doc = Fields
    BY DEF Question, Fields
  <1>2. \A f \in Fields : Saved(doc, read, wanted)[f] = IF wanted[f] # read[f] THEN wanted[f] ELSE doc[f]
    BY <1>1 DEF Saved
  <1>3. Saved(doc, read, wanted) \in Question
    BY <1>1 DEF Saved, Question, Fields
  <1> QED
    BY <1>2, <1>3

LEMMA NoQuestionTyped == NoQuestion \in Question /\ ~(NoQuestion.version > 0) /\ NoQuestion.latest = FALSE /\ NoQuestion.root = NoId
  BY NumbersAssumption DEF NoQuestion, Question

LEMMA ApprovedTyped ==
    ASSUME NEW doc \in Question
    PROVE  LET new == Approved(doc)
           IN  /\ new \in Question /\ new.root = doc.root /\ new.version = doc.version /\ new.latest = doc.latest
               /\ new.content = doc.content /\ new.answered = doc.answered /\ new.approved
  BY DEF Approved, Question

\* What a save does to the bank: a question that is there stays the same version of the same.
Keeps(q) ==
    /\ question'[q].root = question[q].root /\ question'[q].version = question[q].version
    /\ question'[q].latest = question[q].latest

NothingLeft == \A q \in Ids : ~Exists(q) => question[q] = NoQuestion

LEMMA WriteEffect ==
    ASSUME TypeOK, NEW q \in Ids, NEW read \in Question, NEW wanted \in Question, Write(q, read, wanted),
           wanted.root = read.root, wanted.version = read.version, wanted.latest = read.latest
    PROVE  /\ question' \in [Ids -> Question] /\ NothingLeft'
           /\ \A p \in Ids : Keeps(p) /\ (p # q => question'[p] = question[p])
           /\ Exists(q) =>
                /\ question'[q].content = IF wanted.content # read.content THEN wanted.content ELSE question[q].content
                /\ question'[q].answered = IF wanted.answered # read.answered THEN wanted.answered ELSE question[q].answered
                /\ question'[q].flags = IF wanted.flags # read.flags THEN wanted.flags ELSE question[q].flags
                /\ question'[q].approved = IF wanted.approved # read.approved THEN wanted.approved ELSE question[q].approved
  <1>1. CASE ~Exists(q)
    BY <1>1 DEF Write, TypeOK, Keeps, NothingLeft, Exists
  <1>2. CASE Exists(q)
    <2>1. question' = [question EXCEPT ![q] = Saved(question[q], read, wanted)] /\ question[q] \in Question
      BY <1>2 DEF Write, TypeOK
    <2>2. PICK new \in Question : /\ question' = [question EXCEPT ![q] = new]
                                  /\ \A f \in Fields : new[f] = IF wanted[f] # read[f] THEN wanted[f] ELSE question[q][f]
      <3> DEFINE new == Saved(question[q], read, wanted)
      <3>1. new \in Question /\ \A f \in Fields : new[f] = IF wanted[f] # read[f] THEN wanted[f] ELSE question[q][f]
        BY <2>1, SavedTyped
      <3>2. question' = [question EXCEPT ![q] = new]
        BY <2>1
      <3> HIDE DEF new
      <3> QED
        BY <3>1, <3>2
    <2>3. question'[q] = new /\ \A p \in Ids : p # q => question'[p] = question[p]
      BY <2>2 DEF TypeOK
    <2>4. /\ new.root = question[q].root /\ new.version = question[q].version /\ new.latest = question[q].latest
          /\ new.content = IF wanted.content # read.content THEN wanted.content ELSE question[q].content
          /\ new.answered = IF wanted.answered # read.answered THEN wanted.answered ELSE question[q].answered
          /\ new.flags = IF wanted.flags # read.flags THEN wanted.flags ELSE question[q].flags
          /\ new.approved = IF wanted.approved # read.approved THEN wanted.approved ELSE question[q].approved
      BY <2>2 DEF Fields
    <2>5. question' \in [Ids -> Question]
      BY <2>2 DEF TypeOK
    <2>6. \A p \in Ids : Keeps(p)
      BY <2>3, <2>4 DEF Keeps
    <2>7. NothingLeft'
      BY <1>2, <2>3, <2>4 DEF NothingLeft, TypeOK, Exists
    <2> QED
      BY <2>3, <2>4, <2>5, <2>6, <2>7
  <1> QED
    BY <1>1, <1>2

\* A question is put under a free id.
LEMMA AddEffect ==
    ASSUME TypeOK, NEW n \in Free, NEW doc \in Question, doc.version > 0, question' = [question EXCEPT ![n] = doc]
    PROVE  /\ question' \in [Ids -> Question] /\ NothingLeft' /\ n \in Ids /\ question'[n] = doc
           /\ \A p \in Ids : p # n => question'[p] = question[p]
  <1>1. n \in Ids
    BY DEF Free
  <1> QED
    BY <1>1 DEF TypeOK, NothingLeft, Exists
-----------------------------------------------------------------------------
(* The requests that begin. *)
LEMMA SaveTyped ==
    ASSUME NEW at \in {"save", "version", "unflag"}, NEW q \in Ids, NEW read \in Question, NEW wanted \in Question,
           wanted.root = read.root, wanted.version = read.version, wanted.latest = read.latest,
           Pulled(read) /\ ~Pulled(wanted) => at = "unflag" \/ wanted.approved,
           at = "unflag" => wanted.content = read.content /\ wanted.answered = read.answered
    PROVE  LET next == [at |-> at, id |-> q, read |-> read, wanted |-> wanted]
           IN  next \in RequestState /\ Sane(next)
  BY DEF RequestState, Sane

LEMMA AnsweredTyped ==
    ASSUME NEW doc \in Question
    PROVE  LET new == [doc EXCEPT !.answered = TRUE, !.flags = @ \ {"no_answer"}]
           IN  /\ new \in Question /\ new.root = doc.root /\ new.version = doc.version /\ new.latest = doc.latest
               /\ new.content = doc.content /\ new.answered = TRUE /\ (Pulled(doc) => Pulled(new))
  BY DEF Question, Pulled

-----------------------------------------------------------------------------
(* Types. *)
LEMMA TypeInit == Init => TypeOK /\ Sound
  <1> SUFFICES ASSUME Init PROVE TypeOK /\ Sound
    OBVIOUS
  <1>1. question \in [Ids -> Question] /\ \A q \in Ids : ~Exists(q) => question[q] = NoQuestion
    BY NoQuestionTyped DEF Init
  <1>2. test \in [Tests -> Test]
    BY DEF Init, NoTest, Test
  <1>3. request \in [Editors -> RequestState] /\ Sound
    BY DEF Init, RequestState, Sound, Sane, Idle
  <1> QED
    BY <1>1, <1>2, <1>3 DEF Init, TypeOK

Progress(next) == next \in RequestState /\ Sane(next)

LEMMA IdleProgress == Progress(Idle)
  BY DEF Progress, RequestState, Sane, Idle

\* Any step of e's request, by what it does to the bank and to the tests.
LEMMA TypeGoes ==
    ASSUME TypeOK, Sound, NEW e \in Editors, NEW next, Progress(next), Go(e, next)
    PROVE  request' \in [Editors -> RequestState] /\ Sound'
  <1>1. request' \in [Editors -> RequestState] /\ request'[e] = next /\ \A f \in Editors : f # e => request'[f] = request[f]
    BY GoEffect DEF Progress
  <1> QED
    BY <1>1 DEF Sound, Progress

LEMMA ShownInTests == ASSUME NEW q, Shown(q) PROVE InTests({q}, {"published"})
  BY DEF Shown, InTests

\* What the requests that only read go on with.
LEMMA ReadersGo ==
    ASSUME TypeOK, NEW e \in Editors,
           \/ \E q \in Ids : \/ Approve(e, q) \/ Resolve(e, q)
                             \/ \E d \in Edits : Edit(e, q, d)
                             \/ \E t \in Tests : AnswerKey(e, t, q)
           \/ \E Q \in SUBSET Ids : Delete(e, Q) \/ \E t \in Tests : Put(e, t, Q) \/ Fill(e, t, Q)
           \/ \E t \in Tests : Publish(e, t) \/ Unpublish(e, t) \/ ApproveAnswered(e, t)
    PROVE  /\ \E next : Progress(next) /\ Ready(next) /\ Go(e, next)
           /\ Begin(e) /\ UNCHANGED <<question, test, reporter>> /\ reports' \in [Ids -> SUBSET Students]
  <1>1. ASSUME NEW q \in Ids, NEW d \in Edits, Edit(e, q, d) PROVE \E next : Progress(next) /\ Ready(next) /\ Go(e, next)
    <2>1. PICK doc \in Question : doc = question[q]
      BY DEF TypeOK
    <2>2. PICK at \in {"save", "version", "unflag"} : at = IF NeedsVersion(q, d) THEN "version" ELSE "save"
      OBVIOUS
    <2> DEFINE wanted == [doc EXCEPT !.approved = d.approved, !.answered = d.answered,
                                     !.content = d.content, !.flags = FlagsAfterEdit(doc.root, @, d)]
    <2>3. /\ wanted \in Question /\ wanted.root = doc.root /\ wanted.version = doc.version /\ wanted.latest = doc.latest
          /\ Pulled(doc) /\ ~Pulled(wanted) => wanted.approved
          /\ wanted.content = d.content /\ wanted.answered = d.answered
      <3>1. d.approved \in BOOLEAN /\ d.answered \in BOOLEAN /\ d.content \in 0..MaxContent
        BY NumbersAssumption DEF Edits
      <3>2. PICK flags : flags = FlagsAfterEdit(doc.root, doc.flags, d)
        OBVIOUS
      <3>3. doc.flags \in SUBSET Flags
        BY DEF Question
      <3>4. /\ flags \in SUBSET Flags
            /\ "reported" \in doc.flags /\ "reported" \notin flags => d.approved
        <4>1. CASE flags = doc.flags
          BY <3>3, <4>1
        <4>2. CASE d.approved /\ flags = {}
          BY <4>2
        <4>3. CASE flags = (doc.flags \ {"no_answer"}) \cup (IF d.answered THEN {} ELSE {"no_answer"})
          BY <3>3, <4>3 DEF Flags
        <4> QED
          BY <3>2, <4>1, <4>2, <4>3 DEF FlagsAfterEdit
      <3>5. wanted = [doc EXCEPT !.approved = d.approved, !.answered = d.answered, !.content = d.content, !.flags = flags]
        BY <3>2
      <3>6. /\ wanted \in Question /\ wanted.root = doc.root /\ wanted.version = doc.version /\ wanted.latest = doc.latest
            /\ wanted.content = d.content /\ wanted.answered = d.answered
        <4> HIDE DEF wanted
        <4> QED
          BY <3>1, <3>4, <3>5 DEF Question
      <3>7. wanted.flags = flags /\ wanted.approved = d.approved
        <4> HIDE DEF wanted
        <4> QED
          BY <3>5 DEF Question
      <3> HIDE DEF wanted
      <3> QED
        BY <3>4, <3>6, <3>7 DEF Pulled
    <2>4. Go(e, [at |-> at, id |-> q, read |-> doc, wanted |-> wanted])
      BY <1>1, <2>1, <2>2 DEF Edit
    <2> HIDE DEF wanted
    <2>5. PICK next : next = [at |-> at, id |-> q, read |-> doc, wanted |-> wanted]
      OBVIOUS
    <2>6. Progress(next)
      BY <2>2, <2>3, <2>5, SaveTyped DEF Progress
    <2>7. Ready(next)
      <3>1. Exists(q) /\ question[q].latest
        BY <1>1 DEF Edit
      <3>2. at = "save" /\ Shown(q) => d.content = doc.content /\ d.answered = doc.answered
        BY <2>1, <2>2, ShownInTests DEF NeedsVersion
      <3> QED
        BY <2>1, <2>2, <2>3, <2>5, <3>1, <3>2 DEF Ready
    <2> QED
      BY <2>4, <2>5, <2>6, <2>7
  <1>2. ASSUME NEW q \in Ids, Approve(e, q) PROVE \E next : Progress(next) /\ Ready(next) /\ Go(e, next)
    <2>1. PICK doc \in Question : doc = question[q]
      BY DEF TypeOK
    <2>2. Go(e, [at |-> "save", id |-> q, read |-> doc, wanted |-> Approved(doc)])
      BY <1>2, <2>1 DEF Approve
    <2>3. PICK wanted \in Question :
            /\ wanted = Approved(doc) /\ wanted.approved
            /\ wanted.root = doc.root /\ wanted.version = doc.version /\ wanted.latest = doc.latest
            /\ wanted.content = doc.content /\ wanted.answered = doc.answered
      BY ApprovedTyped
    <2>4. PICK next : next = [at |-> "save", id |-> q, read |-> doc, wanted |-> wanted]
      OBVIOUS
    <2>5. Progress(next) /\ Ready(next)
      BY <2>3, <2>4, SaveTyped DEF Progress, Ready
    <2> QED
      BY <2>2, <2>3, <2>4, <2>5
  <1>3. ASSUME NEW q \in Ids, NEW t \in Tests, AnswerKey(e, t, q) PROVE \E next : Progress(next) /\ Ready(next) /\ Go(e, next)
    <2>1. PICK doc \in Question : doc = question[q]
      BY DEF TypeOK
    <2> DEFINE wanted == [doc EXCEPT !.answered = TRUE, !.flags = @ \ {"no_answer"}]
    <2>2. Go(e, [at |-> "save", id |-> q, read |-> doc, wanted |-> wanted])
      BY <1>3, <2>1 DEF AnswerKey
    <2>3. /\ wanted \in Question /\ (Pulled(doc) => Pulled(wanted))
          /\ wanted.root = doc.root /\ wanted.version = doc.version /\ wanted.latest = doc.latest
          /\ wanted.content = doc.content /\ wanted.answered = TRUE
      BY AnsweredTyped
    <2> HIDE DEF wanted
    <2>4. PICK next : next = [at |-> "save", id |-> q, read |-> doc, wanted |-> wanted]
      OBVIOUS
    <2>5. Progress(next) /\ Ready(next)
      BY <2>3, <2>4, SaveTyped DEF Progress, Ready
    <2> QED
      BY <2>2, <2>3, <2>4, <2>5
  <1>4. ASSUME NEW q \in Ids, Resolve(e, q) PROVE \E next : Progress(next) /\ Ready(next) /\ Go(e, next)
    <2>1. Progress([at |-> "restore", id |-> q]) /\ Ready([at |-> "restore", id |-> q])
      BY DEF Progress, RequestState, Sane, Ready
    <2> QED
      BY <1>4, <2>1 DEF Resolve
  <1>5. ASSUME NEW Q \in SUBSET Ids, Delete(e, Q) PROVE \E next : Progress(next) /\ Ready(next) /\ Go(e, next)
    <2>1. PICK D \in SUBSET Ids : Go(e, [at |-> "delete", ids |-> D]) /\ \A q \in D : ~InTests({q}, {"draft", "published"})
      BY <1>5 DEF Delete
    <2>2. \A q \in D : ~Shown(q)
      BY <2>1 DEF InTests, Shown
    <2>3. Progress([at |-> "delete", ids |-> D]) /\ Ready([at |-> "delete", ids |-> D])
      BY <2>2 DEF Progress, RequestState, Sane, Ready
    <2> QED
      BY <2>1, <2>3
  <1>6. ASSUME NEW Q \in SUBSET Ids, NEW t \in Tests, Put(e, t, Q) \/ Fill(e, t, Q) PROVE \E next : Progress(next) /\ Ready(next) /\ Go(e, next)
    <2>1. test[t].questions \in SUBSET Ids
      BY DEF TypeOK, Test
    <2>2. PICK R \in SUBSET Ids : Go(e, [at |-> "saveTest", test |-> t, questions |-> R])
      BY <1>6, <2>1 DEF Put, Fill
    <2>3. test[t].status = "draft"
      BY <1>6 DEF Put, Fill
    <2>4. Progress([at |-> "saveTest", test |-> t, questions |-> R]) /\ Ready([at |-> "saveTest", test |-> t, questions |-> R])
      BY <2>3 DEF Progress, RequestState, Sane, Ready
    <2> QED
      BY <2>2, <2>4
  <1>7. ASSUME NEW t \in Tests, Publish(e, t) \/ Unpublish(e, t) PROVE \E next : Progress(next) /\ Ready(next) /\ Go(e, next)
    <2>1. PICK status \in {"draft", "published"} :
            /\ Go(e, [at |-> "status", test |-> t, status |-> status])
            /\ status = "published" => test[t].status = "draft" /\ ~Blocking(test[t].questions)
      BY <1>7 DEF Publish, Unpublish
    <2>2. Progress([at |-> "status", test |-> t, status |-> status]) /\ Ready([at |-> "status", test |-> t, status |-> status])
      BY <2>1 DEF Progress, RequestState, Sane, Ready
    <2> QED
      BY <2>1, <2>2
  <1>8. ASSUME NEW t \in Tests, ApproveAnswered(e, t) PROVE \E next : Progress(next) /\ Ready(next) /\ Go(e, next)
    <2>1. PICK D \in SUBSET Ids : Go(e, [at |-> "approveAll", left |-> D, read |-> question])
      <3>1. test[t].questions \in SUBSET Ids
        BY DEF TypeOK, Test
      <3> QED
        BY <1>8, <3>1 DEF ApproveAnswered
    <2>2. PICK read \in [Ids -> Question] : read = question
      BY DEF TypeOK
    <2>3. Progress([at |-> "approveAll", left |-> D, read |-> read]) /\ Ready([at |-> "approveAll", left |-> D, read |-> read])
      BY DEF Progress, RequestState, Sane, Ready
    <2> QED
      BY <2>1, <2>2, <2>3
  <1>9. Begin(e) /\ UNCHANGED <<question, test, reporter>>
    BY DEF Approve, Resolve, Edit, AnswerKey, Delete, Put, Fill, Publish, Unpublish, ApproveAnswered
  <1>10. reports' \in [Ids -> SUBSET Students]
    BY DEF Approve, Resolve, Edit, AnswerKey, Delete, Put, Fill, Publish, Unpublish, ApproveAnswered, TypeOK
  <1> QED
    BY <1>1, <1>2, <1>3, <1>4, <1>5, <1>6, <1>7, <1>8, <1>9, <1>10

\* A step of a student's report.
Reporting(s) == CountReports(s) \/ Pull(s) \/ \E q \in Ids : Report(s, q)

LEMMA ReportEffect ==
    ASSUME TypeOK, NEW s \in Students, Reporting(s)
    PROVE  /\ TypeOK' /\ UNCHANGED <<test, request, history>>
           /\ \A q \in Ids : /\ Keeps(q) /\ question'[q].content = question[q].content
                             /\ question'[q].answered = question[q].answered
  <1> USE DEF history
  <1>1. UNCHANGED <<test, request, history>>
    BY DEF Reporting, CountReports, Pull, Report
  <1>2. reports' \in [Ids -> SUBSET Students]
    BY DEF Reporting, CountReports, Pull, Report, TypeOK
  <1>3. reporter' \in [Students -> {Idle} \cup [at: {"count", "pull"}, id: Ids]]
    <2>1. CASE CountReports(s)
      <3>1. reporter[s] \in [at: {"count", "pull"}, id: Ids]
        BY <2>1 DEF CountReports, TypeOK, Idle
      <3>2. [reporter[s] EXCEPT !.at = "pull"] \in [at: {"count", "pull"}, id: Ids]
        BY <3>1
      <3> QED
        BY <2>1, <3>2 DEF CountReports, TypeOK
    <2>2. CASE Pull(s)
      BY <2>2 DEF Pull, TypeOK
    <2>3. CASE \E q \in Ids : Report(s, q)
      BY <2>3 DEF Report, TypeOK
    <2> QED
      BY <2>1, <2>2, <2>3 DEF Reporting
  <1>4. CASE Pull(s)
    <2>1. reporter[s].id \in Ids
      BY <1>4 DEF Pull, TypeOK, Idle
    <2>2. PICK q \in Ids : q = reporter[s].id
      BY <2>1
    <2>3. CASE Exists(q) /\ ~Pulled(question[q])
      <3>1. PICK doc \in Question : doc = question[q]
        BY DEF TypeOK
      <3> DEFINE new == [doc EXCEPT !.flags = @ \cup {"reported"}, !.approved = FALSE]
      <3>2. /\ new \in Question /\ new.root = doc.root /\ new.version = doc.version /\ new.latest = doc.latest
            /\ new.content = doc.content /\ new.answered = doc.answered
        BY DEF Question, Flags
      <3>3. question' = [question EXCEPT ![q] = new]
        BY <1>4, <2>2, <2>3, <3>1 DEF Pull, TypeOK
      <3> HIDE DEF new
      <3>4. question'[q] = new /\ \A p \in Ids : p # q => question'[p] = question[p]
        BY <3>3 DEF TypeOK
      <3>5. question' \in [Ids -> Question]
        BY <3>2, <3>3 DEF TypeOK
      <3>6. \A p \in Ids : ~Exists(p)' => question'[p] = NoQuestion
        BY <2>3, <3>1, <3>2, <3>4 DEF Exists, TypeOK
      <3> QED
        BY <1>1, <1>2, <1>3, <3>1, <3>2, <3>4, <3>5, <3>6 DEF TypeOK, Keeps
    <2>4. CASE ~(Exists(q) /\ ~Pulled(question[q]))
      BY <1>1, <1>2, <1>3, <1>4, <2>2, <2>4 DEF Pull, TypeOK, Keeps, Exists
    <2> QED
      BY <2>3, <2>4
  <1>5. CASE ~Pull(s)
    <2>1. UNCHANGED question
      BY <1>5 DEF Reporting, CountReports, Report
    <2> QED
      BY <1>1, <1>2, <1>3, <2>1 DEF TypeOK, Keeps, Exists
  <1> QED
    BY <1>4, <1>5
-----------------------------------------------------------------------------
(* What the steps that write do. *)
\* What students and publish look at stays.
Same(q) == Keeps(q) /\ question'[q].content = question[q].content /\ question'[q].answered = question[q].answered
\* e goes on with a request of one of these kinds; the others stay where they are.
Goes(e, kinds) == request'[e].at \in kinds /\ \A f \in Editors : f # e => request'[f] = request[f]

LEMMA DoneEffect ==
    ASSUME TypeOK, Sound, NEW e \in Editors, Done(e)
    PROVE  request' \in [Editors -> RequestState] /\ Sound' /\ Goes(e, {"idle"}) /\ request'[e] = Idle
  <1>1. request' \in [Editors -> RequestState] /\ Sound'
    BY IdleProgress, TypeGoes DEF Done
  <1>2. request'[e] = Idle /\ \A f \in Editors : f # e => request'[f] = request[f]
    BY IdleProgress, GoEffect DEF Done, Progress
  <1> QED
    BY <1>1, <1>2 DEF Goes, Idle

LEMMA CreateEffect ==
    ASSUME TypeOK, Sound, NEW e \in Editors, NEW q \in Ids, NEW d \in Edits, CreateQuestion(e, q, d)
    PROVE  /\ TypeOK' /\ Sound' /\ Begin(e) /\ UNCHANGED <<request, test>> /\ q \in Free
           /\ question'[q].root = q /\ question'[q].version = 1
           /\ \A p \in Ids : p # q => question'[p] = question[p]
  <1>1. PICK doc \in Question : question' = [question EXCEPT ![q] = doc] /\ doc.root = q /\ doc.version = 1 /\ doc.version > 0
    <2>1. d.approved \in BOOLEAN /\ d.answered \in BOOLEAN /\ 1 \in 0..MaxContent /\ 1 \in Nat
      BY NumbersAssumption DEF Edits
    <2>a. PICK none \in Question : none = NoQuestion
      BY NoQuestionTyped
    <2>c. PICK flags \in SUBSET Flags : flags = FlagsAfterEdit(q, {}, d)
      BY DEF Flags, FlagsAfterEdit
    <2> DEFINE doc == [none EXCEPT !.root = q, !.version = 1, !.latest = TRUE, !.approved = d.approved,
                                   !.answered = d.answered, !.content = 1, !.flags = flags]
    <2>2. doc \in Question /\ doc.root = q /\ doc.version = 1
      BY <2>1 DEF Question
    <2>b. 1 > 0
      OBVIOUS
    <2>3. question' = [question EXCEPT ![q] = doc]
      BY <2>a, <2>c DEF CreateQuestion
    <2> HIDE DEF doc
    <2> QED
      BY <2>2, <2>3, <2>b
  <1>2. q \in Free /\ Begin(e) /\ UNCHANGED <<request, test, reports, reporter>>
    BY DEF CreateQuestion
  <1>3. /\ question' \in [Ids -> Question] /\ NothingLeft' /\ question'[q] = doc
        /\ \A p \in Ids : p # q => question'[p] = question[p]
    BY <1>1, <1>2, AddEffect
  <1>4. TypeOK' /\ Sound'
    BY <1>2, <1>3 DEF TypeOK, NothingLeft, Begin, Sound, Exists
  <1> QED
    BY <1>1, <1>2, <1>3, <1>4

LEMMA SaveEffect ==
    ASSUME TypeOK, Sound, NEW e \in Editors, SaveQuestion(e), NEW q, q = request[e].id
    PROVE  /\ TypeOK' /\ Sound' /\ Goes(e, {"idle"}) /\ UNCHANGED <<test, history>> /\ q \in Ids
           /\ \A p \in Ids : Keeps(p) /\ (p # q => question'[p] = question[p])
           /\ Exists(q) =>
                /\ question'[q].content = IF request[e].wanted.content # request[e].read.content
                                          THEN request[e].wanted.content ELSE question[q].content
                /\ question'[q].answered = IF request[e].wanted.answered # request[e].read.answered
                                           THEN request[e].wanted.answered ELSE question[q].answered
                /\ question'[q].flags = IF request[e].wanted.flags # request[e].read.flags
                                        THEN request[e].wanted.flags ELSE question[q].flags
                /\ question'[q].approved = IF request[e].wanted.approved # request[e].read.approved
                                           THEN request[e].wanted.approved ELSE question[q].approved
  <1>1. request[e] \in Saves /\ Sane(request[e]) /\ request[e].at = "save"
    BY Forms DEF SaveQuestion, Sound
  <1>2. PICK read \in Question, wanted \in Question : read = request[e].read /\ wanted = request[e].wanted
    BY <1>1 DEF Saves
  <1>3. q \in Ids /\ Write(q, read, wanted) /\ wanted.root = read.root /\ wanted.version = read.version /\ wanted.latest = read.latest
    BY <1>1, <1>2 DEF Saves, Sane, SaveQuestion
  <1>4. /\ question' \in [Ids -> Question] /\ NothingLeft'
        /\ \A p \in Ids : Keeps(p) /\ (p # q => question'[p] = question[p])
        /\ Exists(q) =>
             /\ question'[q].content = IF wanted.content # read.content THEN wanted.content ELSE question[q].content
             /\ question'[q].answered = IF wanted.answered # read.answered THEN wanted.answered ELSE question[q].answered
             /\ question'[q].flags = IF wanted.flags # read.flags THEN wanted.flags ELSE question[q].flags
             /\ question'[q].approved = IF wanted.approved # read.approved THEN wanted.approved ELSE question[q].approved
    BY <1>3, WriteEffect
  <1>5. UNCHANGED <<test, reports, reporter, history>> /\ Done(e)
    BY DEF SaveQuestion
  <1>6. request' \in [Editors -> RequestState] /\ Sound' /\ Goes(e, {"idle"})
    BY <1>5, DoneEffect
  <1>7. TypeOK'
    BY <1>4, <1>5, <1>6 DEF TypeOK, NothingLeft, Exists, history
  <1> QED
    BY <1>2, <1>3, <1>4, <1>5, <1>6, <1>7

LEMMA VersionEffect ==
    ASSUME TypeOK, Sound, NEW e \in Editors, CreateVersion(e)
    PROVE  /\ TypeOK' /\ Sound' /\ Goes(e, {"demote"}) /\ UNCHANGED <<test, history>>
           /\ request[e] \in Saves /\ request'[e].id = request[e].id
           /\ \E n \in Free : /\ n \in Ids /\ request'[e].next = n
                              /\ question'[n].root = request[e].wanted.root
                              /\ question'[n].version = request[e].wanted.version + 1
                              /\ \A p \in Ids : p # n => question'[p] = question[p]
  <1>1. request[e] \in Saves /\ request[e].wanted \in Question /\ request[e].id \in Ids
    BY Forms DEF CreateVersion, Saves
  <1>2. PICK n \in Free :
          /\ question' = [question EXCEPT ![n] = [request[e].wanted EXCEPT !.version = @ + 1, !.latest = TRUE]]
          /\ Go(e, [at |-> "demote", id |-> request[e].id, next |-> n])
    BY DEF CreateVersion
  <1>3. PICK doc \in Question :
          /\ question' = [question EXCEPT ![n] = doc]
          /\ doc.root = request[e].wanted.root /\ doc.version = request[e].wanted.version + 1 /\ doc.version > 0
    <2>1. PICK wanted \in Question : wanted = request[e].wanted
      BY <1>1
    <2> DEFINE doc == [wanted EXCEPT !.version = @ + 1, !.latest = TRUE]
    <2>2. wanted.version + 1 \in Nat /\ wanted.version + 1 > 0
      BY DEF Question
    <2>3. doc \in Question /\ doc.root = wanted.root /\ doc.version = wanted.version + 1 /\ doc.version > 0
      BY <2>2 DEF Question
    <2>4. question' = [question EXCEPT ![n] = doc]
      BY <1>2, <2>1
    <2> HIDE DEF doc
    <2> QED
      BY <2>1, <2>3, <2>4
  <1>4. /\ question' \in [Ids -> Question] /\ NothingLeft' /\ n \in Ids /\ question'[n] = doc
        /\ \A p \in Ids : p # n => question'[p] = question[p]
    BY <1>3, AddEffect
  <1>5. PICK next : Go(e, next) /\ Progress(next) /\ next.at = "demote" /\ next.id = request[e].id /\ next.next = n
    <2>1. Progress([at |-> "demote", id |-> request[e].id, next |-> n])
      BY <1>1, <1>4 DEF Progress, RequestState, Sane
    <2> QED
      BY <1>2, <2>1
  <1>6. request' \in [Editors -> RequestState] /\ Sound'
    BY <1>5, TypeGoes
  <1>7. request'[e] = next /\ \A f \in Editors : f # e => request'[f] = request[f]
    BY <1>5, GoEffect DEF Progress
  <1>8. UNCHANGED <<test, reports, reporter, history>>
    BY DEF CreateVersion
  <1>9. TypeOK'
    BY <1>4, <1>6, <1>8 DEF TypeOK, NothingLeft, Exists, history
  <1> QED
    BY <1>1, <1>3, <1>4, <1>5, <1>6, <1>7, <1>8, <1>9 DEF Goes

LEMMA DemoteEffect ==
    ASSUME TypeOK, Sound, NEW e \in Editors, Demote(e), NEW q, q = request[e].id
    PROVE  /\ TypeOK' /\ Sound' /\ Goes(e, {"move"}) /\ UNCHANGED <<test, history>> /\ q \in Ids
           /\ request[e] \in Swaps /\ request'[e].next = request[e].next
           /\ ~question'[q].latest
           /\ \A p \in Ids :
                /\ question'[p].root = question[p].root /\ question'[p].version = question[p].version
                /\ question'[p].content = question[p].content /\ question'[p].answered = question[p].answered
                /\ p # q => question'[p] = question[p]
  <1>1. request[e] \in Swaps /\ q \in Ids
    BY Forms DEF Demote, Swaps
  <1>2. /\ [request[e] EXCEPT !.at = "move"] \in Swaps /\ [request[e] EXCEPT !.at = "move"].at = "move"
        /\ [request[e] EXCEPT !.at = "move"].next = request[e].next
    BY <1>1 DEF Swaps
  <1>3. PICK next : Go(e, next) /\ Progress(next) /\ next.at = "move" /\ next.next = request[e].next
    <2>1. Progress([request[e] EXCEPT !.at = "move"])
      BY <1>2 DEF Progress, RequestState, Swaps, Sane
    <2>2. Go(e, [request[e] EXCEPT !.at = "move"])
      BY DEF Demote, Go
    <2> QED
      BY <1>2, <2>1, <2>2
  <1>4. request' \in [Editors -> RequestState] /\ Sound'
    BY <1>3, TypeGoes
  <1>5. request'[e] = next /\ \A f \in Editors : f # e => request'[f] = request[f]
    BY <1>3, GoEffect DEF Progress
  <1>6. UNCHANGED <<test, reports, reporter, history>>
    BY DEF Demote
  <1>7. CASE ~Exists(q)
    <2>1. question' = question
      BY <1>7 DEF Demote
    <2>2. ~question[q].latest
      BY <1>1, <1>7, NoQuestionTyped DEF TypeOK
    <2>3. TypeOK'
      BY <1>4, <1>6, <2>1 DEF TypeOK, Exists, history
    <2> QED
      BY <1>1, <1>3, <1>4, <1>5, <1>6, <2>1, <2>2, <2>3 DEF Goes
  <1>8. CASE Exists(q)
    <2>1. PICK doc \in Question : doc = question[q]
      BY <1>1 DEF TypeOK
    <2> DEFINE new == [doc EXCEPT !.latest = FALSE]
    <2>2. /\ new \in Question /\ new.root = doc.root /\ new.version = doc.version /\ new.latest = FALSE
          /\ new.content = doc.content /\ new.answered = doc.answered
      BY DEF Question
    <2>3. question' = [question EXCEPT ![q] = new]
      BY <1>8, <2>1 DEF Demote, Demoted
    <2> HIDE DEF new
    <2>4. question'[q] = new /\ \A p \in Ids : p # q => question'[p] = question[p]
      BY <1>1, <2>3 DEF TypeOK
    <2>5. question' \in [Ids -> Question]
      BY <2>2, <2>3 DEF TypeOK
    <2>6. \A p \in Ids : ~Exists(p)' => question'[p] = NoQuestion
      BY <1>8, <2>1, <2>2, <2>4 DEF Exists, TypeOK
    <2>7. TypeOK'
      BY <1>4, <1>6, <2>5, <2>6 DEF TypeOK, history
    <2> QED
      BY <1>1, <1>3, <1>4, <1>5, <1>6, <2>1, <2>2, <2>4, <2>7 DEF Goes
  <1> QED
    BY <1>7, <1>8

LEMMA DeleteEffect ==
    ASSUME TypeOK, Sound, NEW e \in Editors, DeleteMany(e)
    PROVE  /\ TypeOK' /\ Sound' /\ Goes(e, {"idle"}) /\ UNCHANGED <<test, history>>
           /\ \A p \in Ids : IF p \in request[e].ids THEN question'[p] = NoQuestion ELSE question'[p] = question[p]
  <1>1. UNCHANGED <<test, reports, reporter, history>> /\ Done(e)
    BY DEF DeleteMany
  <1>2. request' \in [Editors -> RequestState] /\ Sound' /\ Goes(e, {"idle"})
    BY <1>1, DoneEffect
  <1>3. \A p \in Ids : IF p \in request[e].ids THEN question'[p] = NoQuestion ELSE question'[p] = question[p]
    BY DEF DeleteMany, Deleted
  <1>4. question' \in [Ids -> Question]
    BY NoQuestionTyped DEF DeleteMany, Deleted, TypeOK
  <1>5. NothingLeft'
    BY <1>3 DEF NothingLeft, TypeOK, Exists
  <1>6. TypeOK'
    BY <1>1, <1>2, <1>4, <1>5 DEF TypeOK, NothingLeft, history, Exists
  <1> QED
    BY <1>1, <1>2, <1>3, <1>6

\* What the steps have in common that approve or unflag.
LEMMA RewriteEffect ==
    ASSUME TypeOK, NEW q \in Ids, NEW read \in Question, NEW wanted \in Question, Write(q, read, wanted),
           wanted.root = read.root, wanted.version = read.version, wanted.latest = read.latest,
           wanted.content = read.content, wanted.answered = read.answered
    PROVE  question' \in [Ids -> Question] /\ NothingLeft' /\ \A p \in Ids : Same(p)
  <1>1. /\ question' \in [Ids -> Question] /\ NothingLeft'
        /\ \A p \in Ids : Keeps(p) /\ (p # q => question'[p] = question[p])
        /\ Exists(q) => question'[q].content = question[q].content /\ question'[q].answered = question[q].answered
    BY WriteEffect
  <1>2. ~Exists(q) => question'[q] = question[q]
    BY DEF Write
  <1> QED
    BY <1>1, <1>2 DEF Same

LEMMA ApproveNextEffect ==
    ASSUME TypeOK, Sound, NEW e \in Editors, ApproveNext(e)
    PROVE  TypeOK' /\ Sound' /\ Goes(e, {"idle", "approveAll"}) /\ UNCHANGED <<test, history>> /\ \A p \in Ids : Same(p)
  <1>1. request[e] \in ApprovesAll
    BY Forms DEF ApproveNext
  <1>2. PICK q \in Ids :
          /\ Write(q, request[e].read[q], Approved(request[e].read[q]))
          /\ IF request[e].left = {q} THEN Done(e) ELSE request' = [request EXCEPT ![e].left = @ \ {q}]
    BY <1>1 DEF ApproveNext, ApprovesAll
  <1>3. PICK read \in Question : read = request[e].read[q]
    BY <1>1 DEF ApprovesAll
  <1>4. question' \in [Ids -> Question] /\ NothingLeft' /\ \A p \in Ids : Same(p)
    <2> DEFINE wanted == Approved(read)
    <2>1. /\ wanted \in Question /\ wanted.root = read.root /\ wanted.version = read.version /\ wanted.latest = read.latest
          /\ wanted.content = read.content /\ wanted.answered = read.answered
      BY ApprovedTyped
    <2>2. Write(q, read, wanted)
      BY <1>2, <1>3
    <2> HIDE DEF wanted
    <2> QED
      BY <2>1, <2>2, RewriteEffect
  <1>5. request' \in [Editors -> RequestState] /\ Sound' /\ Goes(e, {"idle", "approveAll"})
    <2>1. CASE Done(e)
      BY <2>1, DoneEffect DEF Goes
    <2>2. CASE request' = [request EXCEPT ![e].left = @ \ {q}]
      <3>1. [request[e] EXCEPT !.left = @ \ {q}] \in ApprovesAll
        BY <1>1 DEF ApprovesAll
      <3>2. PICK next \in ApprovesAll : Go(e, next)
        BY <2>2, <3>1 DEF Go
      <3>3. Progress(next) /\ next.at = "approveAll"
        BY DEF Progress, RequestState, Sane, ApprovesAll
      <3> QED
        BY <3>2, <3>3, TypeGoes, GoEffect DEF Goes, Progress
    <2> QED
      BY <1>2, <2>1, <2>2
  <1>6. UNCHANGED <<test, reports, reporter, history>>
    BY DEF ApproveNext
  <1>7. TypeOK'
    BY <1>4, <1>5, <1>6 DEF TypeOK, NothingLeft, history, Exists
  <1> QED
    BY <1>4, <1>5, <1>6, <1>7

LEMMA UnflagEffect ==
    ASSUME TypeOK, Sound, NEW e \in Editors, Unflag(e)
    PROVE  TypeOK' /\ Sound' /\ Goes(e, {"approve"}) /\ UNCHANGED <<test, history>> /\ \A p \in Ids : Same(p)
  <1>1. request[e] \in Saves /\ Sane(request[e]) /\ request[e].at = "unflag"
    BY Forms DEF Unflag, Sound
  <1>2. PICK q \in Ids, read \in Question, wanted \in Question : q = request[e].id /\ read = request[e].read /\ wanted = request[e].wanted
    BY <1>1 DEF Saves
  <1>3. /\ Write(q, read, wanted) /\ wanted.root = read.root /\ wanted.version = read.version /\ wanted.latest = read.latest
        /\ wanted.content = read.content /\ wanted.answered = read.answered
    BY <1>1, <1>2 DEF Sane, Unflag
  <1>4. question' \in [Ids -> Question] /\ NothingLeft' /\ \A p \in Ids : Same(p)
    BY <1>3, RewriteEffect
  <1>5. PICK next : Go(e, next) /\ Progress(next) /\ next.at = "approve"
    <2>1. Progress([at |-> "approve", id |-> q])
      BY DEF Progress, RequestState, Sane
    <2> QED
      BY <1>2, <2>1 DEF Unflag
  <1>6. request' \in [Editors -> RequestState] /\ Sound' /\ Goes(e, {"approve"})
    BY <1>5, TypeGoes, GoEffect DEF Goes, Progress
  <1>7. UNCHANGED <<test, reports, reporter, history>>
    BY DEF Unflag
  <1>8. TypeOK'
    BY <1>4, <1>6, <1>7 DEF TypeOK, NothingLeft, history, Exists
  <1> QED
    BY <1>4, <1>6, <1>7, <1>8

LEMMA RestoredEffect ==
    ASSUME TypeOK, Sound, NEW e \in Editors, ApproveRestored(e)
    PROVE  /\ TypeOK' /\ Sound' /\ UNCHANGED <<question, test, history>>
           /\ \E next : Ready(next) /\ request'[e] = next
           /\ \A f \in Editors : f # e => request'[f] = request[f]
  <1>1. request[e] \in Restores
    BY Forms DEF ApproveRestored
  <1>2. PICK q \in Ids, doc \in Question : q = request[e].id /\ doc = question[q]
    BY <1>1 DEF Restores, TypeOK
  <1>3. PICK next : Go(e, next) /\ Progress(next) /\ Ready(next)
    <2>1. CASE Done(e)
      BY <2>1, IdleProgress DEF Done, Idle, Ready
    <2>2. CASE Go(e, [at |-> "save", id |-> q, read |-> doc, wanted |-> Approved(doc)])
      <3>1. PICK wanted \in Question :
              /\ wanted = Approved(doc) /\ wanted.approved
              /\ wanted.root = doc.root /\ wanted.version = doc.version /\ wanted.latest = doc.latest
              /\ wanted.content = doc.content /\ wanted.answered = doc.answered
        BY ApprovedTyped
      <3>2. PICK next : next = [at |-> "save", id |-> q, read |-> doc, wanted |-> wanted]
        OBVIOUS
      <3>3. Progress(next) /\ Ready(next)
        BY <3>1, <3>2, SaveTyped DEF Progress, Ready
      <3> QED
        BY <2>2, <3>1, <3>2, <3>3
    <2> QED
      BY <1>2, <2>1, <2>2 DEF ApproveRestored
  <1>4. request' \in [Editors -> RequestState] /\ Sound'
    BY <1>3, TypeGoes
  <1>5. request'[e] = next /\ \A f \in Editors : f # e => request'[f] = request[f]
    BY <1>3, GoEffect DEF Progress
  <1>6. UNCHANGED <<question, test, reports, reporter, history>>
    BY DEF ApproveRestored
  <1>7. TypeOK'
    BY <1>4, <1>6 DEF TypeOK, history, Exists
  <1> QED
    BY <1>3, <1>4, <1>5, <1>6, <1>7

LEMMA RestoreEffect ==
    ASSUME TypeOK, Sound, NEW e \in Editors, Restore(e)
    PROVE  TypeOK' /\ Sound' /\ Goes(e, {"idle", "unflag"}) /\ UNCHANGED <<question, test, history>>
  <1>1. request[e] \in Restores
    BY Forms DEF Restore
  <1>2. PICK q \in Ids, doc \in Question : q = request[e].id /\ doc = question[q]
    BY <1>1 DEF Restores, TypeOK
  <1>3. PICK next : Go(e, next) /\ Progress(next) /\ next.at \in {"idle", "unflag"}
    <2>1. CASE Done(e)
      BY <2>1, IdleProgress DEF Done, Idle
    <2>2. CASE Go(e, [at |-> "unflag", id |-> q, read |-> doc, wanted |-> [doc EXCEPT !.flags = @ \ {"reported"}]])
      <3> DEFINE wanted == [doc EXCEPT !.flags = @ \ {"reported"}]
      <3>1. /\ wanted \in Question /\ wanted.root = doc.root /\ wanted.version = doc.version /\ wanted.latest = doc.latest
            /\ wanted.content = doc.content /\ wanted.answered = doc.answered
        BY DEF Question
      <3>2. Go(e, [at |-> "unflag", id |-> q, read |-> doc, wanted |-> wanted])
        BY <2>2
      <3> HIDE DEF wanted
      <3>3. Progress([at |-> "unflag", id |-> q, read |-> doc, wanted |-> wanted])
        BY <3>1, SaveTyped DEF Progress
      <3> QED
        BY <3>2, <3>3
    <2> QED
      BY <1>2, <2>1, <2>2 DEF Restore
  <1>4. request' \in [Editors -> RequestState] /\ Sound' /\ Goes(e, {"idle", "unflag"})
    BY <1>3, TypeGoes, GoEffect DEF Goes, Progress
  <1>5. UNCHANGED <<question, test, reports, reporter, history>>
    BY DEF Restore
  <1>6. TypeOK'
    BY <1>4, <1>5 DEF TypeOK, history, Exists
  <1> QED
    BY <1>4, <1>5, <1>6
-----------------------------------------------------------------------------
(* Steps that write a test, and the others that are left. *)
Begins(e) ==
    \/ \E q \in Ids : \/ Approve(e, q) \/ Resolve(e, q)
                      \/ \E d \in Edits : Edit(e, q, d)
                      \/ \E t \in Tests : AnswerKey(e, t, q)
    \/ \E Q \in SUBSET Ids : Delete(e, Q) \/ \E t \in Tests : Put(e, t, Q) \/ Fill(e, t, Q)
    \/ \E t \in Tests : Publish(e, t) \/ Unpublish(e, t) \/ ApproveAnswered(e, t)

LEMMA BeginsEffect ==
    ASSUME TypeOK, Sound, NEW e \in Editors, Begins(e)
    PROVE  /\ TypeOK' /\ Sound' /\ Begin(e) /\ UNCHANGED <<question, test>>
           /\ \E next : Progress(next) /\ Ready(next) /\ request'[e] = next
           /\ \A f \in Editors : f # e => request'[f] = request[f]
  <1>1. /\ \E next : Progress(next) /\ Ready(next) /\ Go(e, next)
        /\ Begin(e) /\ UNCHANGED <<question, test, reporter>> /\ reports' \in [Ids -> SUBSET Students]
    BY ReadersGo DEF Begins
  <1>2. PICK next : Progress(next) /\ Ready(next) /\ Go(e, next)
    BY <1>1
  <1>3. request' \in [Editors -> RequestState] /\ Sound'
    BY <1>2, TypeGoes
  <1>4. request'[e] = next /\ \A f \in Editors : f # e => request'[f] = request[f]
    BY <1>2, GoEffect DEF Progress
  <1>5. TypeOK'
    BY <1>1, <1>3 DEF TypeOK, Begin, Exists
  <1> QED
    BY <1>1, <1>2, <1>3, <1>4, <1>5

\* The tests that are published before and after a step that writes no question.
SameShown ==
    /\ \A t \in Tests : test'[t].status = "published" /\ test[t].status = "published" => test'[t].questions = test[t].questions
    /\ UNCHANGED question

LEMMA TestBegins ==
    ASSUME TypeOK, Sound, NEW e \in Editors, NEW t \in Tests, CreateTest(e, t) \/ DeleteTest(e, t)
    PROVE  /\ TypeOK' /\ Sound' /\ Begin(e) /\ UNCHANGED request /\ SameShown
           /\ \A u \in Tests : test'[u].status = "published" => test[u].status = "published"
  <1>1. Begin(e) /\ UNCHANGED <<question, reports, request, reporter>>
    BY DEF CreateTest, DeleteTest
  <1>2. NoTest \in Test /\ NoTest.status = "none" /\ [test[t] EXCEPT !.status = "draft"] \in Test
        /\ [test[t] EXCEPT !.status = "draft"].status = "draft"
    BY DEF NoTest, Test, TypeOK
  <1>3. PICK new \in Test : test' = [test EXCEPT ![t] = new] /\ new.status # "published"
    <2>1. CASE CreateTest(e, t)
      <3>1. test' = [test EXCEPT ![t] = [test[t] EXCEPT !.status = "draft"]]
        BY <2>1 DEF CreateTest
      <3> QED
        BY <1>2, <3>1
    <2>2. CASE DeleteTest(e, t)
      BY <1>2, <2>2 DEF DeleteTest
    <2> QED
      BY <2>1, <2>2
  <1>4. test' \in [Tests -> Test] /\ test'[t] = new /\ \A u \in Tests : u # t => test'[u] = test[u]
    BY <1>3 DEF TypeOK
  <1>5. TypeOK' /\ Sound'
    BY <1>1, <1>4 DEF TypeOK, Sound, Begin, Exists
  <1> QED
    BY <1>1, <1>3, <1>4, <1>5 DEF SameShown

LEMMA MoveEffect ==
    ASSUME TypeOK, Sound, NEW e \in Editors, MoveDrafts(e)
    PROVE  /\ TypeOK' /\ Sound' /\ Goes(e, {"idle"}) /\ UNCHANGED <<question, history>> /\ SameShown
           /\ \A u \in Tests : test'[u].status = "published" => test[u].status = "published"
  <1>1. UNCHANGED <<question, reports, reporter, history>> /\ Done(e)
    BY DEF MoveDrafts
  <1>2. request' \in [Editors -> RequestState] /\ Sound' /\ Goes(e, {"idle"})
    BY <1>1, DoneEffect
  <1>3. PICK old \in Ids, new \in Ids : old = request[e].id /\ new = request[e].next
    BY Forms DEF MoveDrafts, Swaps
  <1>4. ASSUME NEW u \in Tests
        PROVE  test'[u] \in Test /\ test'[u].status = test[u].status /\ (test[u].status = "published" => test'[u] = test[u])
    <2>1. test[u] \in Test /\ [test[u] EXCEPT !.questions = (@ \ {old}) \cup {new}] \in Test
          /\ [test[u] EXCEPT !.questions = (@ \ {old}) \cup {new}].status = test[u].status
      BY DEF TypeOK, Test
    <2>2. test'[u] = IF test[u].status = "draft" /\ old \in test[u].questions
                     THEN [test[u] EXCEPT !.questions = (@ \ {old}) \cup {new}] ELSE test[u]
      BY <1>3 DEF MoveDrafts, Moves
    <2> QED
      BY <2>1, <2>2
  <1>5. test' \in [Tests -> Test]
    <2>1. test' = [u \in Tests |-> test'[u]]
      BY DEF MoveDrafts
    <2> QED
      BY <1>4, <2>1
  <1>6. TypeOK'
    BY <1>1, <1>2, <1>5 DEF TypeOK, history, Exists
  <1> QED
    BY <1>1, <1>2, <1>4, <1>6 DEF SameShown

LEMMA SaveTestEffect ==
    ASSUME TypeOK, Sound, NEW e \in Editors, SaveTest(e)
    PROVE  /\ TypeOK' /\ Sound' /\ Goes(e, {"idle"}) /\ UNCHANGED <<question, history>>
           /\ request[e] \in SavesTest
           /\ \A u \in Tests : test'[u].status = test[u].status /\ (u # request[e].test => test'[u] = test[u])
  <1>1. UNCHANGED <<question, reports, reporter, history>> /\ Done(e)
    BY DEF SaveTest
  <1>2. request' \in [Editors -> RequestState] /\ Sound' /\ Goes(e, {"idle"})
    BY <1>1, DoneEffect
  <1>3. request[e] \in SavesTest
    BY Forms DEF SaveTest
  <1>4. PICK t \in Tests, Q \in SUBSET Ids : t = request[e].test /\ Q = request[e].questions
    BY <1>3 DEF SavesTest
  <1>5. [test[t] EXCEPT !.questions = Q] \in Test /\ [test[t] EXCEPT !.questions = Q].status = test[t].status
    BY DEF TypeOK, Test
  <1>6. PICK new \in Test : test' = [test EXCEPT ![t] = new] /\ new.status = test[t].status
    <2>1. CASE UNCHANGED test
      BY <2>1 DEF TypeOK
    <2>2. CASE test' = [test EXCEPT ![t] = [test[t] EXCEPT !.questions = Q]]
      BY <1>5, <2>2
    <2>3. test' = [test EXCEPT ![t].questions = Q] => test' = [test EXCEPT ![t] = [test[t] EXCEPT !.questions = Q]]
      OBVIOUS
    <2> QED
      BY <1>4, <2>1, <2>2, <2>3 DEF SaveTest
  <1>7. test' \in [Tests -> Test] /\ test'[t] = new /\ \A u \in Tests : u # t => test'[u] = test[u]
    BY <1>6 DEF TypeOK
  <1>8. TypeOK'
    BY <1>1, <1>2, <1>7 DEF TypeOK, history, Exists
  <1> QED
    BY <1>1, <1>2, <1>3, <1>4, <1>6, <1>7, <1>8

LEMMA StatusEffect ==
    ASSUME TypeOK, Sound, NEW e \in Editors, SaveStatus(e)
    PROVE  /\ TypeOK' /\ Sound' /\ Goes(e, {"idle"}) /\ UNCHANGED <<question, history>> /\ SameShown
           /\ \A u \in Tests :
                /\ test'[u].questions = test[u].questions
                /\ u # request[e].test => test'[u] = test[u]
                /\ test'[u].status \in {test[u].status, request[e].status}
  <1>1. UNCHANGED <<question, reports, reporter, history>> /\ Done(e)
    BY DEF SaveStatus
  <1>2. request' \in [Editors -> RequestState] /\ Sound' /\ Goes(e, {"idle"})
    BY <1>1, DoneEffect
  <1>3. PICK t \in Tests, status \in {"draft", "published"} : t = request[e].test /\ status = request[e].status
    BY Forms DEF SaveStatus, SetsStatus
  <1>4. /\ [test[t] EXCEPT !.status = status, !.seen = TRUE] \in Test
        /\ [test[t] EXCEPT !.status = status, !.seen = TRUE].status = status
        /\ [test[t] EXCEPT !.status = status, !.seen = TRUE].questions = test[t].questions
    BY DEF TypeOK, Test
  <1>5. PICK new \in Test : test' = [test EXCEPT ![t] = new] /\ new.status \in {test[t].status, status} /\ new.questions = test[t].questions
    <2>1. CASE UNCHANGED test
      BY <2>1 DEF TypeOK
    <2>2. CASE test' = [test EXCEPT ![t].status = status, ![t].seen = TRUE]
      <3>1. test' = [test EXCEPT ![t] = [test[t] EXCEPT !.status = status, !.seen = TRUE]]
        BY <2>2 DEF TypeOK
      <3> QED
        BY <1>4, <3>1
    <2> QED
      BY <1>3, <2>1, <2>2 DEF SaveStatus
  <1>6. test' \in [Tests -> Test] /\ test'[t] = new /\ \A u \in Tests : u # t => test'[u] = test[u]
    BY <1>5 DEF TypeOK
  <1>7. TypeOK'
    BY <1>1, <1>2, <1>6 DEF TypeOK, history, Exists
  <1> QED
    BY <1>1, <1>2, <1>3, <1>5, <1>6, <1>7 DEF SameShown

LEMMA DieEffect ==
    ASSUME TypeOK, Sound, NEW e \in Editors, Die(e)
    PROVE  TypeOK' /\ Sound' /\ Goes(e, {"idle"}) /\ UNCHANGED <<question, test, overlapped>> /\ died' /\ request[e] # Idle
  <1>1. UNCHANGED <<question, test, reports, reporter, overlapped>> /\ Done(e) /\ died' /\ died' \in BOOLEAN /\ request[e] # Idle
    BY DEF Die
  <1>2. request' \in [Editors -> RequestState] /\ Sound' /\ Goes(e, {"idle"})
    BY <1>1, DoneEffect
  <1>3. TypeOK'
    BY <1>1, <1>2 DEF TypeOK, Exists
  <1> QED
    BY <1>1, <1>2, <1>3

\* Every step is one of these.
LEMMA Steps ==
    ASSUME [Next]_vars
    PROVE  \/ \E e \in Editors :
                \/ Begins(e) \/ \E q \in Ids, d \in Edits : CreateQuestion(e, q, d)
                \/ \E t \in Tests : CreateTest(e, t) \/ DeleteTest(e, t)
                \/ Continue(e)
           \/ \E s \in Students : Reporting(s)
           \/ UNCHANGED vars
  BY DEF Next, BankAction, TestAction, Begins, Reporting

LEMMA TypeStep == TypeOK /\ Sound /\ [Next]_vars => TypeOK' /\ Sound'
  <1> SUFFICES ASSUME TypeOK, Sound, [Next]_vars PROVE TypeOK' /\ Sound'
    OBVIOUS
  <1>1. ASSUME NEW e \in Editors, Begins(e) PROVE TypeOK' /\ Sound'
    BY <1>1, BeginsEffect
  <1>2. ASSUME NEW e \in Editors, NEW q \in Ids, NEW d \in Edits, CreateQuestion(e, q, d) PROVE TypeOK' /\ Sound'
    BY <1>2, CreateEffect
  <1>3. ASSUME NEW e \in Editors, NEW t \in Tests, CreateTest(e, t) \/ DeleteTest(e, t) PROVE TypeOK' /\ Sound'
    BY <1>3, TestBegins
  <1>4. ASSUME NEW e \in Editors, Continue(e) PROVE TypeOK' /\ Sound'
    <2>1. SaveQuestion(e) \/ CreateVersion(e) \/ Demote(e) => TypeOK' /\ Sound'
      BY SaveEffect, VersionEffect, DemoteEffect
    <2>2. MoveDrafts(e) \/ DeleteMany(e) \/ SaveTest(e) \/ SaveStatus(e) => TypeOK' /\ Sound'
      BY MoveEffect, DeleteEffect, SaveTestEffect, StatusEffect
    <2>3. ApproveNext(e) \/ Restore(e) \/ Unflag(e) \/ ApproveRestored(e) \/ Die(e) => TypeOK' /\ Sound'
      BY ApproveNextEffect, RestoreEffect, UnflagEffect, RestoredEffect, DieEffect
    <2> QED
      BY <1>4, <2>1, <2>2, <2>3 DEF Continue
  <1>5. ASSUME NEW s \in Students, Reporting(s) PROVE TypeOK' /\ Sound'
    BY <1>5, ReportEffect DEF Sound
  <1>6. CASE UNCHANGED vars
    BY <1>6 DEF vars, history, TypeOK, Sound, Exists
  <1> QED
    BY <1>1, <1>2, <1>3, <1>4, <1>5, <1>6, Steps
-----------------------------------------------------------------------------
(* While no two requests overlap. *)
\* What PublishedFrozen says of a step.
Frozen ==
    \A t \in Tests :
       test[t].status = "published" /\ test'[t].status = "published" =>
          /\ test'[t].questions = test[t].questions
          /\ \A q \in test[t].questions : question'[q].content = question[q].content

\* The requests that depend on nothing they have read.
Light == {"idle", "approve", "approveAll", "move", "unflag", "restore"}

\* A request that is alone goes on alone.
LEMMA AloneGoes ==
    ASSUME TypeOK, One, NEW e \in Editors, request[e] # Idle, NEW kinds, Goes(e, kinds)
    PROVE  One' /\ \A f \in Editors : f # e => request'[f] = Idle
  BY DEF One, Goes

LEMMA LightGoes ==
    ASSUME TypeOK, One, NEW e \in Editors, request[e] # Idle, NEW kinds, kinds \subseteq Light, Goes(e, kinds)
    PROVE  One' /\ \A f \in Editors : Ready(request[f])'
  <1>1. One' /\ \A f \in Editors : f # e => request'[f] = Idle
    BY AloneGoes
  <1>2. request'[e].at \in Light
    BY DEF Goes
  <1>3. \A f \in Editors : f # e => request'[f].at = "idle"
    BY <1>1 DEF Idle
  <1>4. \A f \in Editors : request'[f].at \in {"idle", "approve", "approveAll", "move", "unflag", "restore"}
    BY <1>2, <1>3 DEF Light
  <1> QED
    BY <1>1, <1>4 DEF Ready

LEMMA BusyAt ==
    ASSUME TypeOK, NEW e \in Editors, Continue(e)
    PROVE  request[e] # Idle
  BY DEF Continue, SaveQuestion, CreateVersion, Demote, MoveDrafts, DeleteMany, SaveTest, SaveStatus,
         ApproveNext, Restore, Unflag, ApproveRestored, Die, Idle

LEMMA SameKept ==
    ASSUME TypeOK, Complete1, \A p \in Ids : Same(p), UNCHANGED test
    PROVE  Complete1' /\ Frozen
  BY DEF TypeOK, Test, Complete1, Frozen, Same, Keeps, Exists

\* No question comes, changes its place among the versions, or becomes the latest; and no
\* version that is being demoted is left as it was.
LEMMA HighestKept ==
    ASSUME TypeOK, Highest,
           \A p \in Ids : Exists(p)' =>
               /\ Exists(p) /\ question'[p].root = question[p].root
               /\ question'[p].version = question[p].version
               /\ question'[p].latest => question[p].latest,
           \A f \in Editors : request[f].at = "demote" =>
               request'[f] = request[f] \/ ~question'[request[f].id].latest
    PROVE  Highest'
  <1> SUFFICES ASSUME NEW q \in Ids, NEW p \in Ids, Exists(q)', Exists(p)', question'[q].root = question'[p].root,
                      question'[q].latest, \A e \in Editors : request'[e].at = "demote" => request'[e].id # q
               PROVE  question'[p].version < question'[q].version \/ p = q
    BY DEF Highest
  <1>1. \A e \in Editors : request[e].at = "demote" => request[e].id # q
    OBVIOUS
  <1>2. Exists(q) /\ Exists(p) /\ question[q].root = question[p].root /\ question[q].latest
    OBVIOUS
  <1>3. question[p].version < question[q].version \/ p = q
    BY <1>1, <1>2 DEF Highest
  <1> QED
    BY <1>3

LEMMA SameHighest ==
    ASSUME TypeOK, Highest, \A p \in Ids : Keeps(p), NEW e \in Editors, request[e].at # "demote",
           \A f \in Editors : f # e => request'[f] = request[f]
    PROVE  Highest'
  <1>1. \A p \in Ids : Exists(p)' =>
               /\ Exists(p) /\ question'[p].root = question[p].root
               /\ question'[p].version = question[p].version
               /\ question'[p].latest => question[p].latest
    BY DEF Keeps, Exists
  <1> QED
    BY <1>1, HighestKept

LEMMA ReadySame ==
    ASSUME TypeOK, \A p \in Ids : Same(p), UNCHANGED <<test, request>>, NEW e \in Editors, Ready(request[e])
    PROVE  Ready(request[e])'
  <1> DEFINE r == request[e]
  <1>1. request'[e] = r
    OBVIOUS
  <1>2. \A q : Shown(q)' <=> Shown(q)
    BY DEF Shown
  <1>3. \A q \in Ids : Exists(q)' <=> Exists(q)
    BY DEF Same, Keeps, Exists
  <1>4. r.at = "status" => Blocking(test[r.test].questions)' = Blocking(test[r.test].questions)
    BY <1>3, Forms DEF SetsStatus, TypeOK, Test, Blocking, Complete, Same
  <1>5. r.at \in {"version", "save", "unflag"} => r.id \in Ids
    BY Forms DEF Saves
  <1>6. r.at = "demote" => r.id \in Ids /\ r.next \in Ids
    BY Forms DEF Swaps
  <1> QED
    BY <1>1, <1>2, <1>3, <1>4, <1>5, <1>6 DEF Ready, Same, Keeps

LEMMA SoloInit == Init => SoloInv
  <1> SUFFICES ASSUME Init PROVE Solo
    BY DEF SoloInv
  <1>1. \A e \in Editors : request[e] = Idle /\ request[e].at = "idle"
    BY DEF Init, Idle
  <1>2. One /\ \A e \in Editors : Ready(request[e])
    BY <1>1 DEF One, Ready
  <1>3. Complete1
    BY DEF Init, NoTest, Complete1
  <1>4. Highest
    BY NoQuestionTyped DEF Init, Highest, Exists
  <1> QED
    BY <1>2, <1>3, <1>4 DEF Solo

\* A request begins while none is in progress.
LEMMA BeginsSolo ==
    ASSUME TypeOK, Sound, Solo, NEW e \in Editors, Begins(e)
    PROVE  Frozen /\ ((\A f \in Editors : request[f] = Idle) => Solo')
  <1>1. /\ UNCHANGED <<question, test>> /\ Begin(e)
        /\ \E next : Progress(next) /\ Ready(next) /\ request'[e] = next
        /\ \A f \in Editors : f # e => request'[f] = request[f]
    BY BeginsEffect
  <1>2. PICK next : Ready(next) /\ request'[e] = next
    BY <1>1
  <1>3. \A p \in Ids : Same(p)
    BY <1>1 DEF Same, Keeps
  <1>4. Complete1' /\ Frozen
    BY <1>1, <1>3, SameKept DEF Solo
  <1>5. ASSUME \A f \in Editors : request[f] = Idle PROVE Solo'
    <2>1. One'
      BY <1>1, <1>5 DEF One
    <2>2. \A f \in Editors : f # e => request'[f].at = "idle"
      BY <1>1, <1>5 DEF Idle
    <2>3. Ready(request[e])'
      BY <1>1, <1>2 DEF Ready, Exists, Shown, Blocking, Complete
    <2>4. \A f \in Editors : f # e => Ready(request[f])'
      BY <2>2 DEF Ready
    <2>5. ~died' => Highest'
      <3>1. UNCHANGED died /\ \A p \in Ids : Keeps(p)
        BY <1>1, <1>3 DEF Begin, Same
      <3>2. request[e].at # "demote"
        BY <1>5 DEF Idle
      <3> QED
        BY <1>1, <3>1, <3>2, SameHighest DEF Solo
    <2> QED
      BY <1>4, <2>1, <2>3, <2>4, <2>5 DEF Solo
  <1> QED
    BY <1>4, <1>5

LEMMA CreateSolo ==
    ASSUME TypeOK, Sound, Solo, NEW e \in Editors, NEW q \in Ids, NEW d \in Edits, CreateQuestion(e, q, d)
    PROVE  Frozen /\ ((\A f \in Editors : request[f] = Idle) => Solo')
  <1>1. /\ Begin(e) /\ UNCHANGED <<request, test>> /\ q \in Free
        /\ question'[q].root = q /\ question'[q].version = 1
        /\ \A p \in Ids : p # q => question'[p] = question[p]
    BY CreateEffect
  <1>2. /\ \A t \in Tests : q \notin test[t].questions
        /\ \A p \in Ids : question[p].root # q
    BY <1>1 DEF Free
  <1>3. \A t \in Tests : test[t].questions \subseteq Ids
    BY DEF TypeOK, Test
  <1>4. Complete1' /\ Frozen
    BY <1>1, <1>2, <1>3 DEF Solo, Complete1, Frozen, Exists
  <1>5. ASSUME \A f \in Editors : request[f] = Idle PROVE Solo'
    <2>1. One' /\ \A f \in Editors : Ready(request[f])'
      BY <1>1, <1>5 DEF One, Ready, Idle
    <2>2. ~died' => Highest'
      <3>1. UNCHANGED died
        BY <1>1 DEF Begin
      <3>2. ASSUME Highest PROVE Highest'
        <4> SUFFICES ASSUME NEW r \in Ids, NEW p \in Ids, Exists(r)', Exists(p)', question'[r].root = question'[p].root,
                            question'[r].latest, \A f \in Editors : request'[f].at = "demote" => request'[f].id # r
                     PROVE  question'[p].version < question'[r].version \/ p = r
          BY DEF Highest
        <4>1. CASE r = q \/ p = q
          BY <1>1, <1>2, <4>1
        <4>2. CASE r # q /\ p # q
          BY <1>1, <3>2, <4>2 DEF Highest, Exists
        <4> QED
          BY <4>1, <4>2
      <3> QED
        BY <3>1, <3>2 DEF Solo
    <2> QED
      BY <1>4, <2>1, <2>2 DEF Solo
  <1> QED
    BY <1>4, <1>5

LEMMA TestBeginsSolo ==
    ASSUME TypeOK, Sound, Solo, NEW e \in Editors, NEW t \in Tests, CreateTest(e, t) \/ DeleteTest(e, t)
    PROVE  Frozen /\ ((\A f \in Editors : request[f] = Idle) => Solo')
  <1>1. /\ Begin(e) /\ UNCHANGED request /\ SameShown
        /\ \A u \in Tests : test'[u].status = "published" => test[u].status = "published"
    BY TestBegins
  <1>2. Complete1' /\ Frozen
    BY <1>1 DEF Solo, Complete1, Frozen, SameShown, Exists
  <1>3. ASSUME \A f \in Editors : request[f] = Idle PROVE Solo'
    <2>1. One' /\ \A f \in Editors : Ready(request[f])'
      BY <1>1, <1>3 DEF One, Ready, Idle
    <2>2. UNCHANGED <<question, request, died>>
      BY <1>1 DEF SameShown, Begin
    <2>3. ~died' => Highest'
      BY <2>2 DEF Solo, Highest, Exists
    <2> QED
      BY <1>2, <2>1, <2>3 DEF Solo
  <1> QED
    BY <1>2, <1>3

\* Steps that leave the tests and what students see of the questions alone.
LEMMA LightSolo ==
    ASSUME TypeOK, Sound, Solo, NEW e \in Editors, request[e] # Idle,
           Restore(e) \/ Unflag(e) \/ ApproveNext(e) \/ Die(e)
    PROVE  Solo' /\ Frozen
  <1>1. PICK kinds : kinds \subseteq Light /\ Goes(e, kinds)
    <2>1. Goes(e, {"idle"}) \/ Goes(e, {"idle", "unflag"}) \/ Goes(e, {"approve"}) \/ Goes(e, {"idle", "approveAll"})
      BY RestoreEffect, UnflagEffect, ApproveNextEffect, DieEffect
    <2> QED
      BY <2>1 DEF Light
  <1>2. (\A p \in Ids : Same(p)) /\ UNCHANGED test
    <2>1. CASE Restore(e) \/ Die(e)
      BY <2>1, RestoreEffect, DieEffect DEF Same, Keeps
    <2>2. CASE Unflag(e) \/ ApproveNext(e)
      BY <2>2, UnflagEffect, ApproveNextEffect
    <2> QED
      BY <2>1, <2>2
  <1>3. One' /\ \A f \in Editors : Ready(request[f])'
    BY <1>1, LightGoes DEF Solo
  <1>4. Complete1' /\ Frozen
    BY <1>2, SameKept DEF Solo
  <1>5. ~died' => Highest'
    <2>1. CASE Die(e)
      BY <2>1 DEF Die
    <2>2. CASE Restore(e) \/ Unflag(e) \/ ApproveNext(e)
      <3>1. UNCHANGED died /\ request[e].at # "demote"
        BY <2>2 DEF Restore, Unflag, ApproveNext, history
      <3>2. \A p \in Ids : Keeps(p)
        BY <1>2 DEF Same
      <3>3. \A f \in Editors : f # e => request'[f] = request[f]
        BY <1>1 DEF Goes
      <3> QED
        BY <3>1, <3>2, <3>3, SameHighest DEF Solo
    <2> QED
      BY <2>1, <2>2
  <1> QED
    BY <1>3, <1>4, <1>5 DEF Solo

\* A restored question is read again, to be approved as it is found.
LEMMA RestoredSolo ==
    ASSUME TypeOK, Sound, Solo, NEW e \in Editors, request[e] # Idle, ApproveRestored(e)
    PROVE  Solo' /\ Frozen
  <1>1. /\ UNCHANGED <<question, test, history>> /\ \E next : Ready(next) /\ request'[e] = next
        /\ \A f \in Editors : f # e => request'[f] = request[f]
    BY RestoredEffect
  <1>2. PICK next : Ready(next) /\ request'[e] = next
    BY <1>1
  <1>3. One' /\ \A f \in Editors : f # e => request'[f] = Idle
    BY <1>1 DEF Solo, One
  <1>4. Ready(request[e])'
    BY <1>1, <1>2 DEF Ready, Exists, Shown, Blocking, Complete
  <1>5. \A f \in Editors : f # e => Ready(request[f])'
    BY <1>3 DEF Ready, Idle
  <1>6. \A p \in Ids : Same(p)
    BY <1>1 DEF Same, Keeps
  <1>7. Complete1' /\ Frozen
    BY <1>1, <1>6, SameKept DEF Solo
  <1>8. ~died' => Highest'
    <2>1. request[e].at # "demote" /\ UNCHANGED died
      BY <1>1 DEF ApproveRestored, history
    <2>2. \A p \in Ids : Keeps(p)
      BY <1>6 DEF Same
    <2> QED
      BY <1>1, <2>1, <2>2, SameHighest DEF Solo
  <1> QED
    BY <1>3, <1>4, <1>5, <1>7, <1>8 DEF Solo

LEMMA SaveSolo ==
    ASSUME TypeOK, Sound, Solo, NEW e \in Editors, request[e] # Idle, SaveQuestion(e)
    PROVE  Solo' /\ Frozen
  <1>1. PICK q : q = request[e].id
    OBVIOUS
  <1>2. /\ Goes(e, {"idle"}) /\ UNCHANGED <<test, history>> /\ q \in Ids
        /\ \A p \in Ids : Keeps(p) /\ (p # q => question'[p] = question[p])
        /\ Exists(q) =>
             /\ question'[q].content = IF request[e].wanted.content # request[e].read.content
                                       THEN request[e].wanted.content ELSE question[q].content
             /\ question'[q].answered = IF request[e].wanted.answered # request[e].read.answered
                                        THEN request[e].wanted.answered ELSE question[q].answered
    BY <1>1, SaveEffect
  <1>3. request[e].at = "save" /\ Ready(request[e])
    BY DEF SaveQuestion, Solo
  <1>4. Shown(q) => /\ request[e].wanted.content = request[e].read.content
                    /\ request[e].wanted.answered = request[e].read.answered \/ request[e].wanted.answered
    BY <1>1, <1>3 DEF Ready
  <1>5. Shown(q) /\ Exists(q) => question'[q].content = question[q].content /\ (question[q].answered => question'[q].answered)
    BY <1>2, <1>4
  <1>6. One' /\ \A f \in Editors : Ready(request[f])'
    BY <1>2, LightGoes DEF Light, Solo
  <1>7. \A t \in Tests : test[t].questions \subseteq Ids
    BY DEF TypeOK, Test
  <1>8. ASSUME NEW t \in Tests, test[t].status = "published", NEW p \in test[t].questions
        PROVE  Exists(p)' /\ question'[p].answered /\ question'[p].content = question[p].content
    <2>1. Exists(p) /\ question[p].answered /\ p \in Ids /\ Shown(p)
      BY <1>7, <1>8 DEF Solo, Complete1, Shown
    <2> QED
      BY <1>2, <1>5, <2>1 DEF Keeps, Exists
  <1>9. Complete1' /\ Frozen
    BY <1>2, <1>8 DEF Solo, Complete1, Frozen
  <1>10. ~died' => Highest'
    <2>1. UNCHANGED died
      BY <1>2 DEF history
    <2> QED
      BY <1>2, <1>3, <2>1, SameHighest DEF Solo, Goes
  <1> QED
    BY <1>6, <1>9, <1>10 DEF Solo

\* The new version gets an id that no test has, and a number above the latest one's.
LEMMA VersionSolo ==
    ASSUME TypeOK, Sound, Solo, NEW e \in Editors, request[e] # Idle, CreateVersion(e)
    PROVE  Solo' /\ Frozen
  <1>1. PICK q : q = request[e].id
    OBVIOUS
  <1>2. Goes(e, {"demote"}) /\ UNCHANGED <<test, history>> /\ request[e] \in Saves /\ request'[e].id = q
    BY <1>1, VersionEffect
  <1>3. PICK n \in Ids : /\ n \in Free /\ request'[e].next = n
                         /\ question'[n].root = request[e].wanted.root
                         /\ question'[n].version = request[e].wanted.version + 1
                         /\ \A p \in Ids : p # n => question'[p] = question[p]
    BY VersionEffect
  <1>4. request[e].at = "version" /\ Ready(request[e])
    BY DEF CreateVersion, Solo
  <1>5. /\ q \in Ids /\ Exists(q) /\ question[q].latest
        /\ question[q].root = request[e].wanted.root /\ question[q].version = request[e].wanted.version
    BY <1>1, <1>2, <1>4 DEF Ready, Saves
  <1>6. q # n /\ ~Exists(n) /\ \A t \in Tests : n \notin test[t].questions
    BY <1>3, <1>5 DEF Free
  <1>7. One' /\ \A f \in Editors : f # e => request'[f] = Idle
    BY <1>2, AloneGoes DEF Solo
  <1>8. \A p \in Ids : question[p].version \in Nat
    BY DEF TypeOK, Question
  <1>9. /\ question'[q] = question[q]
        /\ question'[n].root = question[q].root /\ question'[n].version = question[q].version + 1
        /\ Exists(n)' /\ Exists(q)'
    BY <1>3, <1>5, <1>6, <1>8 DEF Exists
  <1>10. \A f \in Editors : Ready(request[f])'
    <2>1. Ready(request[e])'
      BY <1>2, <1>3, <1>9 DEF Goes, Ready
    <2>2. \A f \in Editors : f # e => Ready(request[f])'
      BY <1>7 DEF Ready, Idle
    <2> QED
      BY <2>1, <2>2
  <1>11. \A t \in Tests : test[t].questions \subseteq Ids
    BY DEF TypeOK, Test
  <1>12. Complete1' /\ Frozen
    BY <1>2, <1>3, <1>6, <1>11 DEF Solo, Complete1, Frozen, Exists
  <1>13. ASSUME Highest PROVE Highest'
    <2> SUFFICES ASSUME NEW r \in Ids, NEW p \in Ids, Exists(r)', Exists(p)', question'[r].root = question'[p].root,
                        question'[r].latest, \A f \in Editors : request'[f].at = "demote" => request'[f].id # r
                 PROVE  question'[p].version < question'[r].version \/ p = r
      BY DEF Highest
    <2>1. r # q
      BY <1>2 DEF Goes
    <2>2. \A f \in Editors : request[f].at # "demote"
      BY <1>4 DEF Solo, One, Idle
    <2>3. \A x, y \in Ids : Exists(x) /\ Exists(y) /\ question[x].root = question[y].root /\ question[x].latest =>
              question[y].version < question[x].version \/ y = x
      BY <1>13, <2>2 DEF Highest
    <2>4. CASE r = n /\ p # n
      <3>1. question'[p] = question[p] /\ Exists(p) /\ question[p].root = question[q].root
        BY <1>3, <1>9, <2>4 DEF Exists
      <3>2. question[p].version < question[q].version \/ p = q
        BY <1>5, <2>3, <3>1
      <3> QED
        BY <1>5, <1>8, <1>9, <2>4, <3>1, <3>2
    <2>5. CASE r # n /\ p = n
      <3>1. question'[r] = question[r] /\ Exists(r) /\ question[r].root = question[q].root /\ question[r].latest
        BY <1>3, <1>9, <2>5 DEF Exists
      <3>2. question[r].version < question[q].version /\ question[q].version < question[r].version
        BY <1>5, <2>1, <2>3, <3>1
      <3> QED
        BY <1>5, <1>8, <3>2
    <2>6. CASE r # n /\ p # n
      BY <1>3, <2>3, <2>6 DEF Exists
    <2> QED
      BY <2>4, <2>5, <2>6
  <1>14. UNCHANGED died
    BY <1>2 DEF history
  <1> QED
    BY <1>7, <1>10, <1>12, <1>13, <1>14 DEF Solo

LEMMA DemoteSolo ==
    ASSUME TypeOK, Sound, Solo, NEW e \in Editors, request[e] # Idle, Demote(e)
    PROVE  Solo' /\ Frozen
  <1>1. PICK q : q = request[e].id
    OBVIOUS
  <1>2. /\ Goes(e, {"move"}) /\ UNCHANGED <<test, history>> /\ q \in Ids /\ ~question'[q].latest
        /\ \A p \in Ids :
             /\ question'[p].root = question[p].root /\ question'[p].version = question[p].version
             /\ question'[p].content = question[p].content /\ question'[p].answered = question[p].answered
             /\ p # q => question'[p] = question[p]
    BY <1>1, DemoteEffect
  <1>3. One' /\ \A f \in Editors : Ready(request[f])'
    BY <1>2, LightGoes DEF Light, Solo
  <1>4. \A t \in Tests : test[t].questions \subseteq Ids
    BY DEF TypeOK, Test
  <1>5. Complete1' /\ Frozen
    BY <1>2, <1>4 DEF Solo, Complete1, Frozen, Exists
  <1>6. ASSUME Highest PROVE Highest'
    <2>1. \A p \in Ids : Exists(p)' =>
               /\ Exists(p) /\ question'[p].root = question[p].root
               /\ question'[p].version = question[p].version
               /\ question'[p].latest => question[p].latest
      BY <1>2 DEF Exists
    <2>2. \A f \in Editors : request[f].at = "demote" =>
               request'[f] = request[f] \/ ~question'[request[f].id].latest
      BY <1>1, <1>2 DEF Goes
    <2> QED
      BY <1>6, <2>1, <2>2, HighestKept
  <1>7. UNCHANGED died
    BY <1>2 DEF history
  <1> QED
    BY <1>3, <1>5, <1>6, <1>7 DEF Solo

LEMMA DeleteSolo ==
    ASSUME TypeOK, Sound, Solo, NEW e \in Editors, request[e] # Idle, DeleteMany(e)
    PROVE  Solo' /\ Frozen
  <1>1. /\ Goes(e, {"idle"}) /\ UNCHANGED <<test, history>>
        /\ \A p \in Ids : IF p \in request[e].ids THEN question'[p] = NoQuestion ELSE question'[p] = question[p]
    BY DeleteEffect
  <1>2. request[e].at = "delete" /\ Ready(request[e])
    BY DEF DeleteMany, Solo
  <1>3. \A p \in request[e].ids : ~Shown(p)
    BY <1>2 DEF Ready
  <1>4. One' /\ \A f \in Editors : Ready(request[f])'
    BY <1>1, LightGoes DEF Light, Solo
  <1>5. \A t \in Tests : test[t].questions \subseteq Ids
    BY DEF TypeOK, Test
  <1>6. \A t \in Tests : test[t].status = "published" => \A p \in test[t].questions : question'[p] = question[p]
    BY <1>1, <1>3, <1>5 DEF Shown
  <1>7. Complete1' /\ Frozen
    BY <1>1, <1>6 DEF Solo, Complete1, Frozen, Exists
  <1>8. ASSUME Highest PROVE Highest'
    <2>1. \A p \in Ids : Exists(p)' => question'[p] = question[p]
      BY <1>1, NoQuestionTyped DEF Exists
    <2>2. \A p \in Ids : Exists(p)' =>
               /\ Exists(p) /\ question'[p].root = question[p].root
               /\ question'[p].version = question[p].version
               /\ question'[p].latest => question[p].latest
      BY <2>1 DEF Exists
    <2>3. \A f \in Editors : request[f].at = "demote" => request'[f] = request[f]
      BY <1>1, <1>2 DEF Goes
    <2> QED
      BY <1>8, <2>2, <2>3, HighestKept
  <1>9. UNCHANGED died
    BY <1>1 DEF history
  <1> QED
    BY <1>4, <1>7, <1>8, <1>9 DEF Solo

\* The steps that write a test leave the questions alone.
LEMMA TestsSolo ==
    ASSUME TypeOK, Sound, Solo, NEW e \in Editors, request[e] # Idle, MoveDrafts(e) \/ SaveTest(e) \/ SaveStatus(e)
    PROVE  Solo' /\ Frozen
  <1>1. Goes(e, {"idle"}) /\ UNCHANGED <<question, history>>
    BY MoveEffect, SaveTestEffect, StatusEffect
  <1>2. One' /\ \A f \in Editors : Ready(request[f])'
    BY <1>1, LightGoes DEF Light, Solo
  <1>3. ~died' => Highest'
    <2>1. UNCHANGED died /\ request[e].at # "demote" /\ \A p \in Ids : Keeps(p)
      BY <1>1 DEF history, Keeps, MoveDrafts, SaveTest, SaveStatus
    <2> QED
      BY <1>1, <2>1, SameHighest DEF Solo, Goes
  <1>4. Ready(request[e])
    BY DEF Solo
  <1>5. ASSUME NEW t \in Tests, test'[t].status = "published"
        PROVE  /\ test[t].status = "published" => test'[t].questions = test[t].questions
               /\ test[t].status # "published" => test'[t].questions = test[t].questions /\ ~Blocking(test[t].questions)
    <2>1. CASE MoveDrafts(e)
      BY <1>5, <2>1, MoveEffect DEF SameShown
    <2>2. CASE SaveTest(e)
      <3>1. test'[t].status = test[t].status /\ (t # request[e].test => test'[t] = test[t])
        BY <2>2, SaveTestEffect
      <3>2. test[request[e].test].status # "published"
        BY <1>4, <2>2 DEF SaveTest, Ready
      <3> QED
        BY <1>5, <3>1, <3>2
    <2>3. CASE SaveStatus(e)
      <3>1. /\ test'[t].questions = test[t].questions
            /\ t # request[e].test => test'[t] = test[t]
            /\ test'[t].status \in {test[t].status, request[e].status}
        BY <2>3, StatusEffect
      <3>2. request[e].status = "published" => ~Blocking(test[request[e].test].questions)
        BY <1>4, <2>3 DEF SaveStatus, Ready
      <3> QED
        BY <1>5, <3>1, <3>2
    <2> QED
      BY <2>1, <2>2, <2>3
  <1>6. Complete1' /\ Frozen
    BY <1>1, <1>5 DEF Solo, Complete1, Frozen, Blocking, Complete, Exists
  <1> QED
    BY <1>2, <1>3, <1>6 DEF Solo

LEMMA ContinueGoes ==
    ASSUME TypeOK, Sound, NEW e \in Editors, Continue(e)
    PROVE  overlapped' = overlapped /\ \A f \in Editors : f # e => request'[f] = request[f]
  <1>1. CASE SaveQuestion(e) \/ CreateVersion(e) \/ Demote(e)
    BY <1>1, SaveEffect, VersionEffect, DemoteEffect DEF history, Goes
  <1>2. CASE MoveDrafts(e) \/ DeleteMany(e) \/ SaveTest(e) \/ SaveStatus(e)
    BY <1>2, MoveEffect, DeleteEffect, SaveTestEffect, StatusEffect DEF history, Goes
  <1>3. CASE ApproveNext(e) \/ Restore(e) \/ Unflag(e) \/ ApproveRestored(e) \/ Die(e)
    BY <1>3, ApproveNextEffect, RestoreEffect, UnflagEffect, RestoredEffect, DieEffect DEF history, Goes
  <1> QED
    BY <1>1, <1>2, <1>3 DEF Continue

LEMMA SoloStep == TypeOK /\ Sound /\ SoloInv /\ [Next]_vars => SoloInv' /\ (~overlapped => Frozen)
  <1> SUFFICES ASSUME TypeOK, Sound, SoloInv, [Next]_vars PROVE SoloInv' /\ (~overlapped => Frozen)
    OBVIOUS
  <1>1. ASSUME NEW e \in Editors, Begin(e), (~overlapped => Frozen), ~overlapped /\ (\A f \in Editors : request[f] = Idle) => Solo'
        PROVE  SoloInv' /\ (~overlapped => Frozen)
    BY <1>1 DEF Begin, SoloInv
  <1>2. ASSUME NEW e \in Editors, Begins(e) PROVE SoloInv' /\ (~overlapped => Frozen)
    BY <1>1, <1>2, BeginsEffect, BeginsSolo DEF SoloInv
  <1>3. ASSUME NEW e \in Editors, NEW q \in Ids, NEW d \in Edits, CreateQuestion(e, q, d) PROVE SoloInv' /\ (~overlapped => Frozen)
    <2>1. Begin(e)
      BY <1>3, CreateEffect
    <2>2. Solo => Frozen /\ ((\A f \in Editors : request[f] = Idle) => Solo')
      BY <1>3, CreateSolo
    <2> QED
      BY <1>1, <2>1, <2>2 DEF SoloInv
  <1>4. ASSUME NEW e \in Editors, NEW t \in Tests, CreateTest(e, t) \/ DeleteTest(e, t) PROVE SoloInv' /\ (~overlapped => Frozen)
    <2>1. Begin(e)
      BY <1>4, TestBegins
    <2>2. Solo => Frozen /\ ((\A f \in Editors : request[f] = Idle) => Solo')
      BY <1>4, TestBeginsSolo
    <2> QED
      BY <1>1, <2>1, <2>2 DEF SoloInv
  <1>5. ASSUME NEW e \in Editors, Continue(e) PROVE SoloInv' /\ (~overlapped => Frozen)
    <2>1. request[e] # Idle /\ overlapped' = overlapped
      BY <1>5, BusyAt, ContinueGoes
    <2>2. Solo => Solo' /\ Frozen
      <3>1. CASE SaveQuestion(e) \/ CreateVersion(e) \/ Demote(e) \/ DeleteMany(e)
        BY <2>1, <3>1, SaveSolo, VersionSolo, DemoteSolo, DeleteSolo
      <3>2. CASE MoveDrafts(e) \/ SaveTest(e) \/ SaveStatus(e)
        BY <2>1, <3>2, TestsSolo
      <3>3. CASE ApproveNext(e) \/ Restore(e) \/ Unflag(e) \/ ApproveRestored(e) \/ Die(e)
        BY <2>1, <3>3, LightSolo, RestoredSolo
      <3> QED
        BY <1>5, <3>1, <3>2, <3>3 DEF Continue
    <2> QED
      BY <2>1, <2>2 DEF SoloInv
  <1>6. ASSUME \A q \in Ids : Same(q), UNCHANGED <<test, request, history>> PROVE SoloInv' /\ (~overlapped => Frozen)
    <2>1. ASSUME Solo PROVE Solo' /\ Frozen
      <3>1. One' /\ \A e \in Editors : Ready(request[e])'
        BY <1>6, <2>1, ReadySame DEF Solo, One
      <3>2. Complete1' /\ Frozen
        BY <1>6, <2>1, SameKept DEF Solo
      <3>3. Highest => Highest'
        <4>1. \A p \in Ids : Exists(p)' =>
                 /\ Exists(p) /\ question'[p].root = question[p].root
                 /\ question'[p].version = question[p].version
                 /\ question'[p].latest => question[p].latest
          BY <1>6 DEF Same, Keeps, Exists
        <4>2. \A f \in Editors : request[f].at = "demote" => request'[f] = request[f]
          BY <1>6
        <4> QED
          BY <4>1, <4>2, HighestKept
      <3> QED
        BY <1>6, <2>1, <3>1, <3>2, <3>3 DEF Solo, history
    <2> QED
      BY <1>6, <2>1 DEF SoloInv, history
  <1>7. ASSUME NEW s \in Students, Reporting(s) PROVE SoloInv' /\ (~overlapped => Frozen)
    BY <1>6, <1>7, ReportEffect DEF Same
  <1>8. CASE UNCHANGED vars
    BY <1>6, <1>8 DEF vars, Same, Keeps
  <1> QED
    BY <1>2, <1>3, <1>4, <1>5, <1>7, <1>8, Steps

\* What PullSurvives says of a step.
StaysPulled(q) == Pulled(question'[q]) /\ (question'[q].approved => question[q].approved)
PullStays ==
    \A q \in Ids :
       Exists(q) /\ Exists(q)' /\ Pulled(question[q]) =>
          \/ StaysPulled(q)
          \/ \E e \in Editors : Saving(request[e], q) /\ GivesBack(request[e], q) /\ request'[e] # request[e]

\* A save, by what the request read and wants.
LEMMA SavePulled ==
    ASSUME NEW q \in Ids, NEW read \in Question, NEW wanted \in Question, Pulled(question[q]), ~StaysPulled(q),
           question'[q].flags = IF wanted.flags # read.flags THEN wanted.flags ELSE question[q].flags,
           question'[q].approved = IF wanted.approved # read.approved THEN wanted.approved ELSE question[q].approved,
           question[q].approved \in BOOLEAN
    PROVE  /\ wanted.flags # read.flags \/ wanted.approved # read.approved
           /\ wanted.approved \/ (wanted.flags # read.flags /\ ~Pulled(wanted))
  <1>1. ~Pulled(question'[q]) => wanted.flags # read.flags /\ ~Pulled(wanted)
    BY DEF Pulled
  <1>2. question'[q].approved /\ ~question[q].approved => wanted.approved # read.approved /\ wanted.approved
    OBVIOUS
  <1> QED
    BY <1>1, <1>2 DEF StaysPulled

LEMMA WritePulled ==
    ASSUME TypeOK, Sound, NEW e \in Editors, SaveQuestion(e) \/ Unflag(e) \/ ApproveNext(e),
           NEW q \in Ids, Exists(q), Pulled(question[q]), ~StaysPulled(q)
    PROVE  Saving(request[e], q) /\ GivesBack(request[e], q) /\ request'[e] # request[e]
  <1>1. PICK r : r = request[e]
    OBVIOUS
  <1>2. question[q].approved \in BOOLEAN
    BY DEF TypeOK, Question
  <1>3. CASE SaveQuestion(e) \/ Unflag(e)
    <2>1. r \in Saves /\ Sane(r) /\ r.at \in {"save", "unflag"}
      BY <1>1, <1>3, Forms DEF SaveQuestion, Unflag, Sound
    <2>2. PICK read \in Question, wanted \in Question, p \in Ids : read = r.read /\ wanted = r.wanted /\ p = r.id
      BY <2>1 DEF Saves
    <2>3. Write(p, read, wanted) /\ wanted.root = read.root /\ wanted.version = read.version /\ wanted.latest = read.latest
      BY <1>1, <1>3, <2>1, <2>2 DEF Sane, SaveQuestion, Unflag
    <2>4. p = q
      <3>1. p # q => question'[q] = question[q]
        BY <2>3, WriteEffect
      <3> QED
        BY <3>1 DEF StaysPulled
    <2>5. /\ question'[q].flags = IF wanted.flags # read.flags THEN wanted.flags ELSE question[q].flags
          /\ question'[q].approved = IF wanted.approved # read.approved THEN wanted.approved ELSE question[q].approved
      BY <2>3, <2>4, WriteEffect
    <2>6. /\ wanted.flags # read.flags \/ wanted.approved # read.approved
          /\ wanted.approved \/ (wanted.flags # read.flags /\ ~Pulled(wanted))
      BY <1>2, <2>5, SavePulled
    <2>7. Pulled(read) => r.at = "unflag" \/ wanted.approved
      BY <2>1, <2>2, <2>6 DEF Sane
    <2>8. request'[e].at \in {"idle", "approve"}
      BY <1>3, SaveEffect, UnflagEffect DEF Goes
    <2> QED
      BY <1>1, <2>1, <2>2, <2>4, <2>6, <2>7, <2>8 DEF Saving, GivesBack, ReadBy, WantedBy
  <1>4. CASE ApproveNext(e)
    <2>1. r \in ApprovesAll /\ r.at = "approveAll"
      BY <1>1, <1>4, Forms DEF ApproveNext
    <2>2. PICK p \in r.left :
            /\ Write(p, r.read[p], Approved(r.read[p]))
            /\ IF r.left = {p} THEN Done(e) ELSE request' = [request EXCEPT ![e].left = @ \ {p}]
      BY <1>1, <1>4 DEF ApproveNext
    <2>3. PICK read \in Question : read = r.read[p] /\ p \in Ids
      BY <2>1 DEF ApprovesAll
    <2>4. PICK wanted \in Question :
            /\ wanted = Approved(read) /\ wanted.approved
            /\ wanted.root = read.root /\ wanted.version = read.version /\ wanted.latest = read.latest
      BY ApprovedTyped
    <2>5. Write(p, read, wanted)
      BY <2>2, <2>3, <2>4
    <2>6. p = q
      <3>1. p # q => question'[q] = question[q]
        BY <2>3, <2>4, <2>5, WriteEffect
      <3> QED
        BY <3>1 DEF StaysPulled
    <2>7. /\ question'[q].flags = IF wanted.flags # read.flags THEN wanted.flags ELSE question[q].flags
          /\ question'[q].approved = IF wanted.approved # read.approved THEN wanted.approved ELSE question[q].approved
      <3>1. Write(q, read, wanted) /\ wanted.root = read.root /\ wanted.version = read.version /\ wanted.latest = read.latest
        BY <2>4, <2>5, <2>6
      <3> QED
        BY <3>1, WriteEffect
    <2>8. wanted.flags # read.flags \/ wanted.approved # read.approved
      BY <1>2, <2>7, SavePulled
    <2>9. request'[e] # r
      <3>1. CASE Done(e)
        BY <2>1, <3>1, DoneEffect DEF Idle
      <3>2. CASE request' = [request EXCEPT ![e].left = @ \ {p}]
        <4>1. request'[e].left = r.left \ {p}
          BY <1>1, <2>1, <3>2 DEF TypeOK, ApprovesAll
        <4> QED
          BY <2>2, <4>1
      <3> QED
        BY <2>2, <3>1, <3>2
    <2> QED
      BY <1>1, <2>1, <2>2, <2>3, <2>4, <2>6, <2>8, <2>9 DEF Saving, GivesBack, ReadBy, WantedBy
  <1> QED
    BY <1>3, <1>4

\* Every other step leaves a pulled question as it is, or deletes it.
LEMMA OtherPulled ==
    ASSUME TypeOK, Sound, NEW q \in Ids, Exists(q), Exists(q)', Pulled(question[q]), [Next]_vars,
           \A e \in Editors : ~(SaveQuestion(e) \/ Unflag(e) \/ ApproveNext(e))
    PROVE  StaysPulled(q)
  <1>1. ASSUME question'[q] = question[q] PROVE StaysPulled(q)
    BY <1>1 DEF StaysPulled
  <1>2. ASSUME NEW e \in Editors, Begins(e) PROVE StaysPulled(q)
    BY <1>1, <1>2, BeginsEffect
  <1>3. ASSUME NEW e \in Editors, NEW p \in Ids, NEW d \in Edits, CreateQuestion(e, p, d) PROVE StaysPulled(q)
    <2>1. p \in Free /\ (q # p => question'[q] = question[q])
      BY <1>3, CreateEffect
    <2> QED
      BY <1>1, <2>1 DEF Free
  <1>4. ASSUME NEW e \in Editors, NEW t \in Tests, CreateTest(e, t) \/ DeleteTest(e, t) PROVE StaysPulled(q)
    BY <1>1, <1>4 DEF CreateTest, DeleteTest
  <1>5. ASSUME NEW e \in Editors, Continue(e) PROVE StaysPulled(q)
    <2>1. CASE CreateVersion(e)
      <3>1. PICK n \in Free : \A p \in Ids : p # n => question'[p] = question[p]
        BY <2>1, VersionEffect
      <3> QED
        BY <1>1, <3>1 DEF Free
    <2>2. CASE Demote(e)
      <3>1. question'[q].flags = question[q].flags /\ question'[q].approved = question[q].approved
        BY <2>2 DEF Demote, Demoted, TypeOK, Question
      <3> QED
        BY <3>1 DEF StaysPulled, Pulled
    <2>3. CASE DeleteMany(e)
      <3>1. question'[q] \in {question[q], NoQuestion}
        BY <2>3 DEF DeleteMany, Deleted
      <3> QED
        BY <1>1, <3>1, NoQuestionTyped DEF Exists
    <2>4. CASE MoveDrafts(e) \/ SaveTest(e) \/ SaveStatus(e) \/ Restore(e) \/ ApproveRestored(e) \/ Die(e)
      BY <1>1, <2>4 DEF MoveDrafts, SaveTest, SaveStatus, Restore, ApproveRestored, Die
    <2> QED
      BY <1>5, <2>1, <2>2, <2>3, <2>4 DEF Continue
  <1>6. ASSUME NEW s \in Students, Reporting(s) PROVE StaysPulled(q)
    <2>1. CASE Pull(s)
      <3>1. PICK p : question' = question \/ question' = [question EXCEPT ![p].flags = @ \cup {"reported"}, ![p].approved = FALSE]
        BY <2>1 DEF Pull
      <3>2. CASE question' = question
        BY <1>1, <3>2
      <3>3. CASE question' = [question EXCEPT ![p].flags = @ \cup {"reported"}, ![p].approved = FALSE]
        <4>1. p # q => question'[q] = question[q]
          BY <3>3 DEF TypeOK
        <4>2. p = q => "reported" \in question'[q].flags /\ ~question'[q].approved
          BY <3>3 DEF TypeOK, Question
        <4> QED
          BY <1>1, <4>1, <4>2 DEF StaysPulled, Pulled
      <3> QED
        BY <3>1, <3>2, <3>3
    <2>2. CASE ~Pull(s)
      BY <1>1, <1>6, <2>2 DEF Reporting, CountReports, Report
    <2> QED
      BY <2>1, <2>2
  <1>7. CASE UNCHANGED vars
    BY <1>1, <1>7 DEF vars
  <1> QED
    BY <1>2, <1>3, <1>4, <1>5, <1>6, <1>7, Steps

LEMMA PullStep == TypeOK /\ Sound /\ [Next]_vars => PullStays
  <1> SUFFICES ASSUME TypeOK, Sound, [Next]_vars, NEW q \in Ids, Exists(q), Exists(q)', Pulled(question[q]), ~StaysPulled(q)
               PROVE  \E e \in Editors : Saving(request[e], q) /\ GivesBack(request[e], q) /\ request'[e] # request[e]
    BY DEF PullStays
  <1>1. PICK e \in Editors : SaveQuestion(e) \/ Unflag(e) \/ ApproveNext(e)
    BY OtherPulled
  <1> QED
    BY <1>1, WritePulled
-----------------------------------------------------------------------------
LEMMA Invariant == Spec => []Inv
  <1>1. Init => Inv
    BY TypeInit, SoloInit DEF Inv
  <1>2. Inv /\ [Next]_vars => Inv'
    BY TypeStep, SoloStep DEF Inv
  <1> QED
    BY <1>1, <1>2, PTL DEF Spec

\* Whatever the admins and the students send at once and wherever a request dies, the bank and
\* the tests keep their types, and nothing is left of a deleted question.
THEOREM TypeCorrect == Spec => []TypeOK
  BY Invariant, PTL DEF Inv

\* Requests that do not overlap never publish a test that lacks a question or an answer, nor
\* take one from a published test: not by an edit, a deletion, a version or a half done request.
THEOREM PublishedCompleteInvariant == Spec => []PublishedComplete
  <1>1. Inv => PublishedComplete
    BY DEF Inv, SoloInv, Solo, Complete1, PublishedComplete
  <1> QED
    BY <1>1, Invariant, PTL

\* As long as no requests overlap, a step changes neither the list of a published test nor the
\* content of its questions: an edit of one makes a new version, which only drafts move to.
THEOREM PublishedFrozenAlways == Spec => PublishedFrozen
  <1>1. Inv /\ [Next]_vars =>
          [~overlapped => \A t \in Tests :
              test[t].status = "published" /\ test'[t].status = "published" =>
                 /\ test'[t].questions = test[t].questions
                 /\ \A q \in test[t].questions : question'[q].content = question[q].content]_vars
    BY SoloStep DEF Inv, Frozen
  <1> QED
    BY <1>1, Invariant, PTL DEF Spec, PublishedFrozen

\* Versions are numbered upwards and only the highest is the latest, unless a request died
\* between making a version and demoting the old one, or two requests overlapped.
THEOREM OneLatestInvariant == Spec => []OneLatest
  <1>1. Inv => OneLatest
    BY DEF Inv, SoloInv, Solo, Highest, OneLatest
  <1> QED
    BY <1>1, Invariant, PTL

\* However the requests and the reports overlap, a pulled question is given back only by a save
\* that read the flag and approves or restores the question, or that read the question before the
\* pull and sets the flags or the status.
THEOREM PullSurvivesAlways == Spec => PullSurvives
  <1>1. Inv /\ [Next]_vars =>
          [\A q \in Ids :
              Exists(q) /\ Exists(q)' /\ Pulled(question[q]) =>
                 \/ Pulled(question'[q]) /\ (question'[q].approved => question[q].approved)
                 \/ \E e \in Editors : Saving(request[e], q) /\ GivesBack(request[e], q) /\ request'[e] # request[e]]_vars
    BY PullStep DEF Inv, PullStays, StaysPulled
  <1> QED
    BY <1>1, Invariant, PTL DEF Spec, PullSurvives

-----------------------------------------------------------------------------
(***************************************************************************)
(* Import, for every file.  The rows are gone through in order: the k-th   *)
(* of a set of rows exists for every k up to its size, since the rows up   *)
(* to a number grow by one at most from a number to the next.              *)
(***************************************************************************)
LEMMA Least ==
    ASSUME NEW T, T \subseteq Nat, T # {}
    PROVE  \E n \in T : \A m \in T : n <= m
<1>1. PICK R : R = {ss \in Nat \X Nat : ss[1] < ss[2]} /\ IsWellFoundedOn(R, Nat)
  BY NatLessThanWellFounded DEF OpToRel
<1>2. PICK n \in T : \A m \in T : ~(<<m, n>> \in R)
  BY <1>1, WFMin
<1>3. ASSUME NEW m \in T, m < n PROVE FALSE
  <2>1. <<m, n>> \in R
    BY <1>1, <1>3
  <2> QED
    BY <1>2, <2>1
<1> QED
  BY <1>3

\* Induction, for a set of numbers.
LEMMA Induction ==
    ASSUME NEW T, 0 \in T, \A n \in Nat : n \in T => n + 1 \in T
    PROVE  \A n \in Nat : n \in T
<1>1. SUFFICES ASSUME Nat \ T # {} PROVE FALSE
  OBVIOUS
<1>2. PICK n \in Nat \ T : \A m \in Nat \ T : n <= m
  BY <1>1, Least
<1>3. n # 0 /\ n - 1 \in Nat
  BY <1>2
<1>4. n - 1 \in T
  BY <1>2, <1>3
<1> QED
  BY <1>2, <1>3, <1>4

\* Numbers of rows, up to a bound.
Numbered(S, top) == \A x \in S : x \in Nat /\ 1 <= x /\ x <= top

\* The largest of some numbers up to a bound.
LEMMA Largest ==
    ASSUME NEW top \in Nat, NEW S, Numbered(S, top), S # {}
    PROVE  Max(S) \in S /\ \A x \in S : x <= Max(S)
<1> DEFINE B == {u \in Nat : \A x \in S : x <= u}
<1>1. top \in B /\ B \subseteq Nat
  BY DEF Numbered
<1>2. PICK u \in B : \A v \in B : u <= v
  BY <1>1, Least
<1>3. u \in S
  <2>1. SUFFICES ASSUME u \notin S PROVE FALSE
    OBVIOUS
  <2>2. \A x \in S : x \in Nat /\ 1 <= x /\ x <= u /\ x # u
    BY <2>1 DEF Numbered
  <2>3. u - 1 \in Nat
    BY <2>2
  <2>4. u - 1 \in B
    BY <2>2, <2>3
  <2> QED
    BY <1>2, <2>3, <2>4
<1>4. \E x \in S : \A y \in S : x >= y
  BY <1>3 DEF Numbered
<1>5. Max(S) \in S /\ \A y \in S : Max(S) >= y
  BY <1>4 DEF Max
<1> QED
  BY <1>5 DEF Numbered

\* The members of a set up to a number.
UpTo(S, n) == {j \in S : j <= n}
LEMMA UpToIsFinite ==
    ASSUME NEW top \in Nat, NEW S, Numbered(S, top), NEW n \in Nat
    PROVE  IsFiniteSet(UpTo(S, n)) /\ Cardinality(UpTo(S, n)) \in Nat
<1>1. UpTo(S, n) \in SUBSET Nat /\ \A x \in UpTo(S, n) : x <= top
  BY DEF UpTo, Numbered
<1>2. IsFiniteSet(UpTo(S, n))
  BY <1>1, FS_BoundedSetOfNaturals
<1> QED
  BY <1>2, FS_CardinalityType

LEMMA UpToNext ==
    ASSUME NEW top \in Nat, NEW S, Numbered(S, top), NEW n \in Nat
    PROVE  Cardinality(UpTo(S, n + 1)) =
             IF n + 1 \in S THEN Cardinality(UpTo(S, n)) + 1 ELSE Cardinality(UpTo(S, n))
<1>1. CASE n + 1 \in S
  <2>1. UpTo(S, n + 1) = UpTo(S, n) \cup {n + 1} /\ n + 1 \notin UpTo(S, n)
    BY <1>1 DEF UpTo, Numbered
  <2> QED
    BY <1>1, <2>1, UpToIsFinite, FS_AddElement
<1>2. CASE n + 1 \notin S
  <2>1. UpTo(S, n + 1) = UpTo(S, n)
    BY <1>2 DEF UpTo, Numbered
  <2> QED
    BY <1>2, <2>1
<1> QED
  BY <1>1, <1>2

LEMMA KthExists ==
    ASSUME NEW top \in Nat, NEW S, Numbered(S, top), NEW k \in 1..Cardinality(S)
    PROVE  \E i \in S : Cardinality(UpTo(S, i)) = k
<1> DEFINE C(n) == Cardinality(UpTo(S, n))
           T == {n \in Nat : \A x \in 1..C(n) : \E i \in S : C(i) = x}
<1>1. 0 \in T
  <2>1. UpTo(S, 0) = {}
    BY DEF UpTo, Numbered
  <2> QED
    BY <2>1, FS_EmptySet
<1>2. ASSUME NEW n \in Nat, n \in T PROVE n + 1 \in T
  <2>1. C(n) \in Nat /\ C(n + 1) = IF n + 1 \in S THEN C(n) + 1 ELSE C(n)
    BY UpToIsFinite, UpToNext
  <2> HIDE DEF C
  <2>2. ASSUME NEW x \in 1..C(n + 1) PROVE \E i \in S : C(i) = x
    <3>1. CASE x \in 1..C(n)
      BY <3>1, <1>2
    <3>2. CASE x \notin 1..C(n)
      BY <3>2, <2>1
    <3> QED
      BY <3>1, <3>2
  <2> QED
    BY <2>2
<1>3. UpTo(S, top) = S
  BY DEF UpTo, Numbered
<1> HIDE DEF T
<1>4. top \in T
  BY <1>1, <1>2, Induction
<1> QED
  BY <1>3, <1>4 DEF T

\* A larger member has more members up to it.
LEMMA UpToGrows ==
    ASSUME NEW top \in Nat, NEW S, Numbered(S, top), NEW i \in S, NEW j \in S, i < j
    PROVE  Cardinality(UpTo(S, i)) < Cardinality(UpTo(S, j))
<1>1. UpTo(S, i) \cup {j} \subseteq UpTo(S, j) /\ j \notin UpTo(S, i)
  BY DEF UpTo, Numbered
<1>2. i \in Nat /\ j \in Nat
  BY DEF Numbered
<1>3. IsFiniteSet(UpTo(S, i)) /\ IsFiniteSet(UpTo(S, j)) /\ Cardinality(UpTo(S, i)) \in Nat /\ Cardinality(UpTo(S, j)) \in Nat
  BY <1>2, UpToIsFinite
<1>4. Cardinality(UpTo(S, i) \cup {j}) = Cardinality(UpTo(S, i)) + 1
  BY <1>1, <1>3, FS_AddElement
<1>5. Cardinality(UpTo(S, i) \cup {j}) <= Cardinality(UpTo(S, j))
  BY <1>1, <1>3, FS_Subset
<1> QED
  BY <1>3, <1>4, <1>5

\* What InOrder returns: the members of the set, each after the smaller ones.
Ordered(s, S) ==
    /\ s \in [1..Cardinality(S) -> S] /\ Cardinality(S) \in Nat
    /\ \A j, k \in 1..Cardinality(S) : j < k => s[j] < s[k]
LEMMA InOrderSorts ==
    ASSUME NEW top \in Nat, NEW S, Numbered(S, top)
    PROVE  Ordered(InOrder(S), S)
<1> DEFINE n == Cardinality(S)
<1>1. n \in Nat
  <2>1. IsFiniteSet(S)
    <3>1. S \in SUBSET Nat /\ \A x \in S : x <= top
      BY DEF Numbered
    <3> QED
      BY <3>1, FS_BoundedSetOfNaturals
  <2> QED
    BY <2>1, FS_CardinalityType
<1>2. InOrder(S) = [k \in 1..n |-> CHOOSE i \in S : Cardinality(UpTo(S, i)) = k]
  BY DEF InOrder, UpTo
<1>3. ASSUME NEW k \in 1..n PROVE InOrder(S)[k] \in S /\ Cardinality(UpTo(S, InOrder(S)[k])) = k
  <2>1. \E i \in S : Cardinality(UpTo(S, i)) = k
    BY KthExists
  <2> QED
    BY <2>1, <1>2
<1>4. InOrder(S) \in [1..n -> S]
  BY <1>2, <1>3
<1>5. ASSUME NEW j \in 1..n, NEW k \in 1..n, j < k, ~(InOrder(S)[j] < InOrder(S)[k]) PROVE FALSE
  <2>1. PICK a \in S : a = InOrder(S)[j] /\ Cardinality(UpTo(S, a)) = j
    BY <1>3
  <2>2. PICK b \in S : b = InOrder(S)[k] /\ Cardinality(UpTo(S, b)) = k
    BY <1>3
  <2>3. b < a \/ a = b
    BY <1>5, <2>1, <2>2 DEF Numbered
  <2>4. CASE b < a
    <3>1. Cardinality(UpTo(S, b)) < Cardinality(UpTo(S, a))
      BY <2>4, UpToGrows
    <3> QED
      BY <3>1, <2>1, <2>2, <1>5
  <2> QED
    BY <2>1, <2>2, <2>3, <2>4, <1>5
<1> QED
  BY <1>1, <1>4, <1>5 DEF Ordered

\* The rows that are kept: all but the blank ones at the end.
KeepsRows(kept, rows) ==
    /\ DOMAIN kept = 1..Len(kept) /\ Len(kept) \in Nat
    /\ \A i \in DOMAIN kept : i \in DOMAIN rows /\ kept[i] = rows[i]
    /\ \A i \in DOMAIN rows : rows[i] # None => i \in DOMAIN kept
LEMMA ReadRowsKeeps ==
    ASSUME NEW R, NEW rows \in Seq(R)
    PROVE  KeepsRows(ReadRows(rows), rows)
<1> DEFINE filled == {i \in DOMAIN rows : rows[i] # None}
<1>1. Len(rows) \in Nat /\ DOMAIN rows = 1..Len(rows) /\ \A i \in 1..Len(rows) : rows[i] \in R
  OBVIOUS
<1>2. CASE filled = {}
  <2>1. ReadRows(rows) = <<>>
    BY <1>2 DEF ReadRows
  <2>2. DOMAIN <<>> = 1..Len(<<>>) /\ Len(<<>>) = 0
    OBVIOUS
  <2>3. DOMAIN <<>> = {}
    BY <2>2
  <2> QED
    BY <1>2, <2>1, <2>2, <2>3 DEF KeepsRows
<1>3. CASE filled # {}
  <2>1. Max(filled) \in filled /\ \A x \in filled : x <= Max(filled)
    <3>1. Numbered(filled, Len(rows))
      BY <1>1 DEF Numbered
    <3> HIDE DEF filled
    <3> QED
      BY <3>1, <1>1, <1>3, Largest
  <2>2. PICK m, n : m = Max(filled) /\ n = Len(rows) /\ m \in 1..n /\ n \in Nat /\ \A x \in filled : x <= m
    BY <2>1, <1>1
  <2>3. ReadRows(rows) = SubSeq(rows, 1, m)
    BY <1>3, <2>2 DEF ReadRows
  <2>4. m \in Int /\ \A i \in 1..m : i \in 1..Len(rows)
    <3>2. m \in 1..n /\ n \in Nat
      BY <2>2
    <3>1. m \in Nat /\ 1 <= m /\ m <= n /\ \A i \in 1..m : i \in 1..n
      BY <3>2
    <3> QED
      BY <3>1, <2>2
  <2>5. SubSeq(rows, 1, m) \in Seq(R) /\ Len(SubSeq(rows, 1, m)) = m /\ \A i \in 1..m : SubSeq(rows, 1, m)[i] = rows[i]
    <3>1. \A i \in 1..m : rows[i] \in R
      BY <1>1, <2>4
    <3>2. /\ SubSeq(rows, 1, m) \in Seq(R)
          /\ Len(SubSeq(rows, 1, m)) = IF 1 <= m THEN m - 1 + 1 ELSE 0
          /\ \A i \in 1..(m - 1 + 1) : SubSeq(rows, 1, m)[i] = rows[1 + i - 1]
      BY <3>1, <2>4, SubSeqProperties
    <3>3. m - 1 + 1 = m /\ 1 <= m /\ \A i \in 1..m : 1 + i - 1 = i
      BY <2>2, <1>1
    <3> QED
      BY <3>2, <3>3
  <2>6. DOMAIN SubSeq(rows, 1, m) = 1..m
    BY <2>5
  <2>7. \A i \in DOMAIN rows : rows[i] # None => i \in 1..m
    BY <2>2, <1>1
  <2> QED
    BY <1>1, <2>3, <2>4, <2>5, <2>6, <2>7 DEF KeepsRows
<1> QED
  BY <1>2, <1>3

\* A row of a file, as RowsAssumption has it.
IsRow(row) == row.options \in Seq(Cells) /\ row.optionsHi \in Seq(Cells) /\ row.correct \in AnswerCells

\* The options that are collected are some of the cells.
LEMMA OptionsCounted ==
    ASSUME NEW S, NEW cells \in Seq(S)
    PROVE  CollectOptions(cells) \in Seq(S) /\ Len(CollectOptions(cells)) \in Nat
<1> DEFINE filled == {i \in DOMAIN cells : cells[i] # Blank}
<1>1. Len(cells) \in Nat /\ DOMAIN cells = 1..Len(cells) /\ \A i \in 1..Len(cells) : cells[i] \in S
  OBVIOUS
<1>2. CASE filled = {}
  <2>1. CollectOptions(cells) = <<>>
    BY <1>2 DEF CollectOptions
  <2> QED
    BY <2>1
<1>3. CASE filled # {}
  <2>1. Numbered(filled, Len(cells))
    BY <1>1 DEF Numbered
  <2>2. Max(filled) \in filled
    <3> HIDE DEF filled
    <3> QED
      BY <2>1, <1>1, <1>3, Largest
  <2>3. PICK m, n : m = Max(filled) /\ n = Len(cells) /\ m \in 1..n /\ n \in Nat
    BY <2>2, <1>1
  <2>4. CollectOptions(cells) = SubSeq(cells, 1, m)
    BY <1>3, <2>3 DEF CollectOptions
  <2>5. m \in Int /\ \A i \in 1..m : cells[i] \in S
    <3>2. m \in 1..n /\ n \in Nat
      BY <2>3
    <3>1. m \in Int /\ \A i \in 1..m : i \in 1..n
      BY <3>2
    <3> QED
      BY <3>1, <1>1, <2>3
  <2>6. SubSeq(cells, 1, m) \in Seq(S)
    BY <2>5, SubSeqProperties
  <2> QED
    BY <2>4, <2>6
<1> QED
  BY <1>2, <1>3

\* A row without errors is a question that can be put in a test.
TestReady(q) == Answered(q) /\ ToSet(q.correct) \subseteq 0..(Len(q.options) - 1)
LEMMA GoodRowReady ==
    ASSUME NEW row, IsRow(row), MapRow(row) = {}
    PROVE  TestReady(RowData(row))
<1> DEFINE q == RowData(row)
<1>1. RowErrors(row) = {} /\ SchemaErrors(q) = {}
  BY DEF MapRow
<1>2. TypeOf(row) \in Types /\ Answers(row).correct # Bad
  <2>1. "type" \notin RowErrors(row) /\ "correct" \notin RowErrors(row)
    BY <1>1
  <2> QED
    BY <2>1 DEF RowErrors
<1>3. q.type = TypeOf(row) /\ q.correct = Answers(row).correct /\ q.options = CollectOptions(row.options) /\ q.status = "approved"
  BY DEF RowData
<1>4. Len(q.options) \in Nat
  BY <1>3, OptionsCounted DEF IsRow
<1> HIDE DEF q
<1>5. Shape(q) = {} /\ Completeness(q) = {}
  BY <1>1, <1>3 DEF SchemaErrors, CheckQuestion
<1>6. Answered(q)
  <2>1. "answer" \notin Completeness(q)
    BY <1>5
  <2> QED
    BY <2>1 DEF Completeness
<1>7. q.correct \in Seq(Nat)
  <2>1. CASE Numeric(TypeOf(row))
    <3>1. Answers(row).correct = <<>>
      BY <1>2, <2>1 DEF Answers
    <3> QED
      BY <3>1, <1>3
  <2>2. CASE ~Numeric(TypeOf(row))
    <3>1. Answers(row).correct = ParseLetters(row.correct)
      BY <1>2, <2>2 DEF Answers
    <3>2. ParseLetters(row.correct) = Bad \/ ParseLetters(row.correct) \in Seq(Nat)
      <4>1. CASE row.correct = Blank
        BY <4>1 DEF ParseLetters
      <4>2. CASE row.correct # Blank /\ row.correct = Bad
        BY <4>2 DEF ParseLetters
      <4>3. CASE row.correct # Blank /\ row.correct # Bad
        <5>1. PICK cell : cell = row.correct
          OBVIOUS
        <5>2. cell \in AnswerCells /\ cell # Blank /\ cell # Bad
          BY <5>1, <4>3 DEF IsRow
        <5>3. ParseLetters(cell) = IF cell.kind = "letters" THEN cell.letters ELSE Bad
          BY <5>2 DEF ParseLetters
        <5>4. cell.kind = "letters" => cell.letters \in Seq(Nat)
          BY <5>2 DEF AnswerCells
        <5> QED
          BY <5>1, <5>3, <5>4
      <4> QED
        BY <4>1, <4>2, <4>3
    <3> QED
      BY <3>1, <3>2, <1>2, <1>3
  <2> QED
    BY <2>1, <2>2
<1>8. ToSet(q.correct) \subseteq 0..(Len(q.options) - 1)
  <2>1. CASE Numeric(q.type)
    <3>1. "correct" \notin Shape(q)
      BY <1>5
    <3>2. q.correct = <<>>
      BY <3>1, <2>1 DEF Shape
    <3>3. ToSet(<<>>) = {}
      BY DEF ToSet
    <3> QED
      BY <3>2, <3>3
  <2>2. CASE ~Numeric(q.type)
    <3>1. "correct" \notin Shape(q)
      BY <1>5
    <3>2. \A i \in DOMAIN q.correct : ~(q.correct[i] >= Len(q.options))
      BY <3>1, <2>2 DEF Shape
    <3>3. \A i \in DOMAIN q.correct : q.correct[i] \in Nat
      BY <1>7
    <3>4. \A i \in DOMAIN q.correct : q.correct[i] \in 0..(Len(q.options) - 1)
      BY <3>2, <3>3, <1>4
    <3> QED
      BY <3>4 DEF ToSet
  <2> QED
    BY <2>1, <2>2
<1> QED
  BY <1>6, <1>8 DEF TestReady, q

\* The length of a sequence given as a function.
LEMMA LengthIs ==
    ASSUME NEW S, NEW n \in Nat, NEW f \in [1..n -> S]
    PROVE  f \in Seq(S) /\ Len(f) = n /\ DOMAIN f = 1..n
<1>1. f \in Seq(S)
  OBVIOUS
<1>2. DOMAIN f = 1..n /\ DOMAIN f = 1..Len(f) /\ Len(f) \in Nat
  BY <1>1, LenProperties
<1> QED
  BY <1>1, <1>2

GoodRows(kept) == {i \in Filled(kept) : MapRow(kept[i]) = {}}
WrongRows(kept) == {i \in Filled(kept) : MapRow(kept[i]) # {}}
LEMMA InOrderOfRows ==
    ASSUME NEW kept, NEW rows, KeepsRows(kept, rows)
    PROVE  Ordered(Valid(kept), GoodRows(kept)) /\ Ordered(Rejected(kept), WrongRows(kept))
<1>1. PICK n \in Nat : DOMAIN kept = 1..n
  <2>1. DOMAIN kept = 1..Len(kept) /\ Len(kept) \in Nat
    BY DEF KeepsRows
  <2> QED
    BY <2>1
<1>2. Numbered(GoodRows(kept), n) /\ Numbered(WrongRows(kept), n)
  BY <1>1 DEF Numbered, GoodRows, WrongRows, Filled
<1> QED
  BY <1>2, InOrderSorts DEF Valid, Rejected, GoodRows, WrongRows

\* Every row that is not blank is one or the other.
LEMMA RowsAddUp ==
    ASSUME NEW kept, NEW rows, KeepsRows(kept, rows)
    PROVE  Cardinality({i \in DOMAIN rows : rows[i] # None}) = Cardinality(GoodRows(kept)) + Cardinality(WrongRows(kept))
<1>1. PICK n \in Nat : DOMAIN kept = 1..n
  <2>1. DOMAIN kept = 1..Len(kept) /\ Len(kept) \in Nat
    BY DEF KeepsRows
  <2> QED
    BY <2>1
<1>2. {i \in DOMAIN rows : rows[i] # None} = Filled(kept)
  BY DEF KeepsRows, Filled
<1>3. Filled(kept) = GoodRows(kept) \cup WrongRows(kept) /\ GoodRows(kept) \cap WrongRows(kept) = {}
  BY DEF GoodRows, WrongRows
<1>4. IsFiniteSet(GoodRows(kept)) /\ IsFiniteSet(WrongRows(kept))
  <2>1. GoodRows(kept) \in SUBSET (1..n) /\ WrongRows(kept) \in SUBSET (1..n)
    BY <1>1 DEF GoodRows, WrongRows, Filled
  <2>2. IsFiniteSet(1..n)
    BY FS_Interval
  <2> QED
    BY <2>1, <2>2, FS_Subset
<1>5. Cardinality(GoodRows(kept)) \in Nat /\ Cardinality(WrongRows(kept)) \in Nat
  BY <1>4, FS_CardinalityType
<1>6. Cardinality(GoodRows(kept) \cap WrongRows(kept)) = 0
  BY <1>3, FS_EmptySet
<1>7. Cardinality(GoodRows(kept) \cup WrongRows(kept)) =
        Cardinality(GoodRows(kept)) + Cardinality(WrongRows(kept)) - Cardinality(GoodRows(kept) \cap WrongRows(kept))
  BY <1>4, FS_Union
<1>8. Cardinality(GoodRows(kept) \cup WrongRows(kept)) = Cardinality(GoodRows(kept)) + Cardinality(WrongRows(kept))
  BY <1>5, <1>6, <1>7
<1>9. {i \in DOMAIN rows : rows[i] # None} = GoodRows(kept) \cup WrongRows(kept)
  BY <1>2, <1>3
<1> QED
  BY <1>8, <1>9

\* What is inserted: the good rows in order, marked when the bank has them or an earlier row has.
Known(kept, existing, k) ==
    \/ HashOf(kept, Valid(kept)[k]) \in existing
    \/ \E j \in 1..(k - 1) : HashOf(kept, Valid(kept)[j]) = HashOf(kept, Valid(kept)[k])
DocsFit(docs, kept, existing) ==
    /\ DOMAIN docs = 1..Cardinality(GoodRows(kept)) /\ Len(docs) = Cardinality(GoodRows(kept))
    /\ Cardinality(GoodRows(kept)) \in Nat
    /\ \A k \in 1..Cardinality(GoodRows(kept)) :
          /\ Valid(kept)[k] \in GoodRows(kept)
          /\ docs[k].data = RowData(kept[Valid(kept)[k]])
          /\ docs[k].hash = HashOf(kept, Valid(kept)[k])
          /\ Known(kept, existing, k) => docs[k].flags = {"duplicate"}
          /\ ~Known(kept, existing, k) => docs[k].flags = {}
LEMMA DocsFitAlways ==
    ASSUME NEW kept, NEW rows, NEW existing, KeepsRows(kept, rows)
    PROVE  DocsFit(Docs(kept, existing), kept, existing)
<1> DEFINE docs == Docs(kept, existing)
<1>1. PICK n, valid : n \in Nat /\ valid \in [1..n -> GoodRows(kept)] /\ n = Cardinality(GoodRows(kept)) /\ valid = Valid(kept)
  BY InOrderOfRows DEF Ordered
<1> DEFINE Doc(k) == [data |-> RowData(kept[valid[k]]), hash |-> HashOf(kept, valid[k]),
                      flags |-> IF Seen(HashOf(kept, valid[k]), existing, {HashOf(kept, valid[j]) : j \in 1..(k - 1)})
                                THEN {"duplicate"} ELSE {}]
<1>2. docs = [k \in 1..n |-> Doc(k)]
  BY <1>1 DEF Docs
<1>3. PICK S : docs \in [1..n -> S]
  <2>1. docs \in [1..n -> {Doc(k) : k \in 1..n}]
    BY <1>2
  <2> QED
    BY <2>1
<1>4. Len(docs) = n /\ DOMAIN docs = 1..n
  <2> HIDE DEF docs
  <2> QED
    BY <1>1, <1>3, LengthIs
<1>5. ASSUME NEW k \in 1..n
      PROVE  /\ docs[k].data = RowData(kept[valid[k]]) /\ docs[k].hash = HashOf(kept, valid[k])
             /\ docs[k].flags = IF Known(kept, existing, k) THEN {"duplicate"} ELSE {}
  <2>1. docs[k] = Doc(k)
    BY <1>2
  <2>2. Seen(HashOf(kept, valid[k]), existing, {HashOf(kept, valid[j]) : j \in 1..(k - 1)}) <=> Known(kept, existing, k)
    BY <1>1 DEF Seen, Known
  <2> QED
    BY <2>1, <2>2
<1> HIDE DEF docs, Doc
<1>6. DocsFit(docs, kept, existing)
  BY <1>1, <1>4, <1>5 DEF DocsFit
<1> QED
  BY <1>6 DEF docs

\* What is rejected: the wrong rows in order, under their numbers.
RejectionsFit(rejected, kept) ==
    /\ DOMAIN rejected = 1..Cardinality(WrongRows(kept)) /\ Len(rejected) = Cardinality(WrongRows(kept))
    /\ Cardinality(WrongRows(kept)) \in Nat
    /\ \A k \in 1..Cardinality(WrongRows(kept)) :
          /\ Rejected(kept)[k] \in WrongRows(kept) /\ Rejected(kept)[k] \in Nat
          /\ rejected[k].row = Rejected(kept)[k] + 1
          /\ rejected[k].errors = MapRow(kept[Rejected(kept)[k]])
LEMMA RejectionsFitAlways ==
    ASSUME NEW kept, NEW rows, KeepsRows(kept, rows)
    PROVE  RejectionsFit(Rejections(kept), kept)
<1> DEFINE rejected == Rejections(kept)
<1>1. PICK n, wrong : n \in Nat /\ wrong \in [1..n -> WrongRows(kept)] /\ n = Cardinality(WrongRows(kept)) /\ wrong = Rejected(kept)
  BY InOrderOfRows DEF Ordered
<1> DEFINE Wrong(k) == [row |-> wrong[k] + 1, errors |-> MapRow(kept[wrong[k]])]
<1>2. rejected = [k \in 1..n |-> Wrong(k)]
  BY <1>1 DEF Rejections
<1>3. PICK S : rejected \in [1..n -> S]
  <2>1. rejected \in [1..n -> {Wrong(k) : k \in 1..n}]
    BY <1>2
  <2> QED
    BY <2>1
<1>4. Len(rejected) = n /\ DOMAIN rejected = 1..n
  <2> HIDE DEF rejected
  <2> QED
    BY <1>1, <1>3, LengthIs
<1>5. ASSUME NEW k \in 1..n
      PROVE  rejected[k].row = wrong[k] + 1 /\ rejected[k].errors = MapRow(kept[wrong[k]])
  BY <1>2
<1>6. WrongRows(kept) \subseteq Nat
  BY DEF WrongRows, Filled, KeepsRows
<1> HIDE DEF rejected, Wrong
<1>7. RejectionsFit(rejected, kept)
  BY <1>1, <1>4, <1>5, <1>6 DEF RejectionsFit
<1> QED
  BY <1>7 DEF rejected

\* The report, field by field.
ReportFits(report, kept, existing, dryRun) ==
    /\ report.inserted = IF dryRun THEN <<>> ELSE Docs(kept, existing)
    /\ report.total = Len(Docs(kept, existing)) + Len(Rejections(kept))
    /\ report.imported = IF dryRun THEN 0 ELSE Len(Docs(kept, existing))
    /\ report.duplicates = Cardinality({k \in DOMAIN Docs(kept, existing) : Docs(kept, existing)[k].flags # {}})
    /\ report.rejected = Rejections(kept)
LEMMA ReportFields ==
    ASSUME NEW rows, NEW existing, NEW dryRun, ~(Len(ReadRows(rows)) > MaxRows)
    PROVE  ReportFits(ImportQuestions(rows, existing, dryRun), ReadRows(rows), existing, dryRun)
BY DEF ImportQuestions, ReportFits

LEMMA CountedAlways ==
    ASSUME NEW R, NEW rows \in Seq(R), NEW existing, NEW kept, kept = ReadRows(rows), NEW report,
           report.total = Len(Docs(kept, existing)) + Len(Rejections(kept)), report.imported = Len(Docs(kept, existing)),
           report.rejected = Rejections(kept)
    PROVE  RowsCounted(rows, report)
<1>1. KeepsRows(kept, rows)
  BY ReadRowsKeeps
<1>2. PICK rejected : rejected = Rejections(kept) /\ RejectionsFit(rejected, kept)
  BY <1>1, RejectionsFitAlways
<1>3. PICK docs : docs = Docs(kept, existing) /\ DocsFit(docs, kept, existing)
  BY <1>1, DocsFitAlways
<1>4. report.total = Cardinality({i \in DOMAIN rows : rows[i] # None})
  <2>1. report.total = Cardinality(GoodRows(kept)) + Cardinality(WrongRows(kept))
    BY <1>2, <1>3 DEF DocsFit, RejectionsFit
  <2> QED
    BY <2>1, <1>1, RowsAddUp
<1>5. report.imported + Len(report.rejected) = report.total
  OBVIOUS
<1>6. ASSUME NEW k \in DOMAIN report.rejected
      PROVE  /\ report.rejected[k].row - 1 \in DOMAIN rows /\ rows[report.rejected[k].row - 1] # None
             /\ report.rejected[k].errors = MapRow(rows[report.rejected[k].row - 1])
  <2>1. PICK i \in Nat : i \in WrongRows(kept) /\ rejected[k].row = i + 1 /\ rejected[k].errors = MapRow(kept[i])
    BY <1>2 DEF RejectionsFit
  <2>2. i \in DOMAIN rows /\ kept[i] = rows[i] /\ kept[i] # None
    BY <1>1, <2>1 DEF WrongRows, Filled, KeepsRows
  <2>3. rejected[k].row - 1 = i
    BY <2>1
  <2> QED
    BY <1>2, <2>1, <2>2, <2>3
<1> QED
  BY <1>4, <1>5, <1>6 DEF RowsCounted

LEMMA FileOrderAlways ==
    ASSUME NEW R, NEW rows \in Seq(R), NEW existing, NEW kept, kept = ReadRows(rows), NEW report,
           report.inserted = Docs(kept, existing), report.rejected = Rejections(kept)
    PROVE  InFileOrder(rows, report)
<1>1. KeepsRows(kept, rows)
  BY ReadRowsKeeps
<1>2. PICK rejected : rejected = Rejections(kept) /\ RejectionsFit(rejected, kept)
  BY <1>1, RejectionsFitAlways
<1>3. PICK docs : docs = Docs(kept, existing) /\ DocsFit(docs, kept, existing)
  BY <1>1, DocsFitAlways
<1>4. Ordered(Valid(kept), GoodRows(kept)) /\ Ordered(Rejected(kept), WrongRows(kept))
  BY <1>1, InOrderOfRows
<1>5. ASSUME NEW j \in DOMAIN rejected, NEW k \in DOMAIN rejected, j < k
      PROVE  rejected[j].row < rejected[k].row
  <2>1. j \in 1..Cardinality(WrongRows(kept)) /\ k \in 1..Cardinality(WrongRows(kept))
    BY <1>2 DEF RejectionsFit
  <2>2. Rejected(kept)[j] < Rejected(kept)[k]
    BY <1>4, <1>5, <2>1 DEF Ordered
  <2>3. PICK a \in Nat : a = Rejected(kept)[j] /\ rejected[j].row = a + 1
    BY <1>2, <2>1 DEF RejectionsFit
  <2>4. PICK b \in Nat : b = Rejected(kept)[k] /\ rejected[k].row = b + 1
    BY <1>2, <2>1 DEF RejectionsFit
  <2> QED
    BY <2>2, <2>3, <2>4
<1>6. PICK at : at = Valid(kept)
  OBVIOUS
<1>7. at \in [DOMAIN docs -> DOMAIN rows]
  <2>1. at \in [DOMAIN docs -> GoodRows(kept)]
    BY <1>3, <1>4, <1>6 DEF Ordered, DocsFit
  <2>2. GoodRows(kept) \subseteq DOMAIN rows
    BY <1>1 DEF GoodRows, Filled, KeepsRows
  <2> QED
    BY <2>1, <2>2
<1>8. \A j, k \in DOMAIN docs : j < k => at[j] < at[k]
  BY <1>3, <1>4, <1>6 DEF Ordered, DocsFit
<1>9. \A k \in DOMAIN docs : rows[at[k]] # None /\ docs[k].data = RowData(rows[at[k]])
  <2> SUFFICES ASSUME NEW k \in DOMAIN docs PROVE rows[at[k]] # None /\ docs[k].data = RowData(rows[at[k]])
    OBVIOUS
  <2>1. at[k] \in GoodRows(kept) /\ docs[k].data = RowData(kept[at[k]])
    BY <1>3, <1>6 DEF DocsFit
  <2>2. kept[at[k]] = rows[at[k]] /\ kept[at[k]] # None
    BY <1>1, <2>1 DEF GoodRows, Filled, KeepsRows
  <2> QED
    BY <2>1, <2>2
<1>10. \E a \in [DOMAIN docs -> DOMAIN rows] :
         /\ \A j, k \in DOMAIN docs : j < k => a[j] < a[k]
         /\ \A k \in DOMAIN docs : rows[a[k]] # None /\ docs[k].data = RowData(rows[a[k]])
  BY <1>7, <1>8, <1>9
<1> QED
  BY <1>2, <1>3, <1>5, <1>10 DEF InFileOrder

LEMMA UsableAlways ==
    ASSUME NEW rows \in Seq(Rows), NEW existing, NEW kept, kept = ReadRows(rows)
    PROVE  Usable(Docs(kept, existing))
<1>1. KeepsRows(kept, rows)
  BY ReadRowsKeeps
<1>2. PICK docs : docs = Docs(kept, existing) /\ DocsFit(docs, kept, existing)
  BY <1>1, DocsFitAlways
<1>3. ASSUME NEW k \in DOMAIN docs PROVE TestReady(docs[k].data)
  <2>1. PICK i : i \in GoodRows(kept) /\ docs[k].data = RowData(kept[i])
    BY <1>2 DEF DocsFit
  <2>2. i \in DOMAIN rows /\ kept[i] = rows[i] /\ kept[i] # None /\ MapRow(kept[i]) = {}
    BY <1>1, <2>1 DEF GoodRows, Filled, KeepsRows
  <2>3. rows[i] \in Rows
    BY <2>2
  <2>4. IsRow(kept[i])
    BY <2>2, <2>3, RowsAssumption DEF IsRow
  <2> QED
    BY <2>1, <2>2, <2>4, GoodRowReady
<1> QED
  BY <1>2, <1>3 DEF Usable, TestReady

\* Shuffled sequences hold every element as often as each other: their bags are one.
LEMMA ShuffledBag ==
    ASSUME NEW T, NEW a \in Seq(T), NEW b \in Seq(T), Shuffled(a, b)
    PROVE  ToBag(a) = ToBag(b)
<1>1. PICK p \in Bijection(DOMAIN a, DOMAIN b) : \A i \in DOMAIN a : a[i] = b[p[i]]
  BY DEF Shuffled
<1>2. /\ p \in [DOMAIN a -> DOMAIN b]
      /\ \A i, j \in DOMAIN a : p[i] = p[j] => i = j
      /\ \A j \in DOMAIN b : \E i \in DOMAIN a : p[i] = j
  BY <1>1 DEF Bijection, Injection, Surjection, IsInjective
<1>3. Range(a) = Range(b)
  BY <1>1, <1>2 DEF Range
<1>4. ASSUME NEW x PROVE Cardinality({i \in DOMAIN a : a[i] = x}) = Cardinality({i \in DOMAIN b : b[i] = x})
  <2> DEFINE A == {i \in DOMAIN a : a[i] = x}
             B == {i \in DOMAIN b : b[i] = x}
             f == [i \in A |-> p[i]]
  <2>1. f \in [A -> B]
    BY <1>1, <1>2
  <2>2. \A i, j \in A : f[i] = f[j] => i = j
    BY <1>2
  <2>3. \A j \in B : \E i \in A : f[i] = j
    BY <1>1, <1>2
  <2>4. f \in Bijection(A, B)
    BY <2>1, <2>2, <2>3 DEF Bijection, Injection, Surjection, IsInjective
  <2>5. IsFiniteSet(A)
    <3>1. A \subseteq 1..Len(a)
      OBVIOUS
    <3>2. IsFiniteSet(1..Len(a))
      BY FS_Interval
    <3> QED
      BY <3>1, <3>2, FS_Subset
  <2> HIDE DEF A, B, f
  <2>6. ExistsBijection(A, B)
    BY <2>4 DEF ExistsBijection
  <2>7. Cardinality(A) = Cardinality(B)
    BY <2>5, <2>6, FS_Bijection
  <2> QED
    BY <2>7 DEF A, B
<1> QED
  BY <1>3, <1>4 DEF ToBag

\* So copies have one hash.
LEMMA CopiesHash ==
    ASSUME NEW row, NEW other, IsRow(row), IsRow(other), Copies(RowData(row), RowData(other))
    PROVE  QuestionHash(RowData(row)) = QuestionHash(RowData(other))
<1>1. ASSUME NEW r, IsRow(r) PROVE HashedOptions(RowData(r)) \in Seq(Cells)
  <2>1. RowData(r).options = CollectOptions(r.options) /\ RowData(r).optionsHi = CollectOptions(r.optionsHi)
    BY DEF RowData
  <2>2. CollectOptions(r.options) \in Seq(Cells) /\ CollectOptions(r.optionsHi) \in Seq(Cells)
    BY <1>1, OptionsCounted DEF IsRow
  <2> QED
    BY <2>1, <2>2 DEF HashedOptions
<1>2. HashedOptions(RowData(row)) \in Seq(Cells) /\ HashedOptions(RowData(other)) \in Seq(Cells)
  BY <1>1
<1>3. ToBag(HashedOptions(RowData(row))) = ToBag(HashedOptions(RowData(other)))
  BY <1>2, ShuffledBag DEF Copies
<1> QED
  BY <1>3 DEF QuestionHash, Copies

LEMMA MarkedAlways ==
    ASSUME NEW rows \in Seq(Rows), NEW existing, NEW kept, kept = ReadRows(rows)
    PROVE  Marked(Docs(kept, existing), existing)
<1>1. KeepsRows(kept, rows)
  BY ReadRowsKeeps
<1>2. PICK docs : docs = Docs(kept, existing) /\ DocsFit(docs, kept, existing)
  BY <1>1, DocsFitAlways
<1>3. PICK n \in Nat : n = Cardinality(GoodRows(kept)) /\ DOMAIN docs = 1..n
  BY <1>2 DEF DocsFit
<1>4. ASSUME NEW k \in 1..n, docs[k].flags = {}
      PROVE  docs[k].hash \notin existing /\ \A j \in 1..(k - 1) : docs[j].hash # docs[k].hash
  <2>1. ~Known(kept, existing, k)
    BY <1>2, <1>3, <1>4 DEF DocsFit
  <2>2. docs[k].hash = HashOf(kept, Valid(kept)[k])
    BY <1>2, <1>3 DEF DocsFit
  <2>3. \A j \in 1..(k - 1) : docs[j].hash = HashOf(kept, Valid(kept)[j])
    BY <1>2, <1>3 DEF DocsFit
  <2> QED
    BY <2>1, <2>2, <2>3 DEF Known
<1>5. ASSUME NEW k \in 1..n, NEW j \in 1..n, docs[k].flags = {}, docs[j].flags = {}, docs[j].hash = docs[k].hash
      PROVE  j = k
  <2>1. CASE j < k
    <3>1. j \in 1..(k - 1)
      BY <2>1
    <3> QED
      BY <3>1, <1>4, <1>5
  <2>2. CASE k < j
    <3>1. k \in 1..(j - 1)
      BY <2>2
    <3> QED
      BY <3>1, <1>4, <1>5
  <2> QED
    BY <2>1, <2>2
<1>6. ASSUME NEW k \in 1..n, NEW j \in 1..n, Copies(docs[j].data, docs[k].data) PROVE docs[j].hash = docs[k].hash
  <2>1. ASSUME NEW i \in 1..n PROVE \E row : IsRow(row) /\ docs[i].data = RowData(row) /\ docs[i].hash = QuestionHash(RowData(row))
    <3>1. PICK g : g \in GoodRows(kept) /\ docs[i].data = RowData(kept[g]) /\ docs[i].hash = HashOf(kept, g)
      BY <1>2, <1>3 DEF DocsFit
    <3>2. g \in DOMAIN rows /\ kept[g] = rows[g] /\ kept[g] # None
      BY <1>1, <3>1 DEF GoodRows, Filled, KeepsRows
    <3>3. rows[g] \in Rows
      BY <3>2
    <3>4. IsRow(kept[g])
      BY <3>2, <3>3, RowsAssumption DEF IsRow
    <3> QED
      BY <3>1, <3>4 DEF HashOf
  <2>2. PICK row : IsRow(row) /\ docs[j].data = RowData(row) /\ docs[j].hash = QuestionHash(RowData(row))
    BY <2>1
  <2>3. PICK other : IsRow(other) /\ docs[k].data = RowData(other) /\ docs[k].hash = QuestionHash(RowData(other))
    BY <2>1
  <2>4. Copies(RowData(row), RowData(other))
    BY <1>6, <2>2, <2>3
  <2> QED
    BY <2>2, <2>3, <2>4, CopiesHash
<1> QED
  BY <1>2, <1>3, <1>4, <1>5, <1>6 DEF Marked

LEMMA FileSound ==
    ASSUME NEW rows \in Seq(Rows), NEW existing
    PROVE  RowsLand(rows, existing) /\ CopiesMarked(rows, existing)
<1> DEFINE report == Imported(rows, existing)
           dry == ImportQuestions(rows, existing, TRUE)
           bank == existing \cup Hashes(report)
           again == Imported(rows, bank)
<1>1. PICK kept : kept = ReadRows(rows)
  OBVIOUS
<1>2. CASE Len(kept) > MaxRows
  <2>1. report.ok = FALSE
    BY <1>1, <1>2 DEF Imported, ImportQuestions
  <2> QED
    BY <2>1 DEF RowsLand, CopiesMarked
<1>3. CASE ~(Len(kept) > MaxRows)
  <2>0. /\ ReportFits(report, kept, existing, FALSE) /\ ReportFits(dry, kept, existing, TRUE)
        /\ ReportFits(again, kept, bank, FALSE)
    BY <1>1, <1>3, ReportFields DEF Imported
  <2> HIDE DEF report, dry, again
  <2>1. /\ report.inserted = Docs(kept, existing) /\ report.rejected = Rejections(kept)
        /\ report.total = Len(Docs(kept, existing)) + Len(Rejections(kept))
        /\ report.imported = Len(Docs(kept, existing))
    BY <2>0 DEF ReportFits
  <2>2. dry.rejected = report.rejected /\ dry.duplicates = report.duplicates /\ dry.inserted = <<>>
    BY <2>0 DEF ReportFits
  <2>3. again.inserted = Docs(kept, bank)
    BY <2>0 DEF ReportFits
  <2>4. RowsCounted(rows, report)
    BY <2>1, <1>1, CountedAlways
  <2>5. InFileOrder(rows, report)
    BY <2>1, <1>1, FileOrderAlways
  <2>6. Usable(report.inserted) /\ Marked(report.inserted, existing)
    BY <2>1, <1>1, UsableAlways, MarkedAlways
  <2>7. ASSUME NEW k \in DOMAIN again.inserted PROVE again.inserted[k].flags = {"duplicate"}
    <3>1. KeepsRows(kept, rows)
      BY <1>1, ReadRowsKeeps
    <3>2. PICK docs : docs = report.inserted /\ DocsFit(docs, kept, existing)
      BY <2>1, <3>1, DocsFitAlways
    <3> HIDE DEF bank
    <3>3. PICK docs2 : docs2 = again.inserted /\ DocsFit(docs2, kept, bank)
      BY <2>3, <3>1, DocsFitAlways
    <3>4. docs[k].hash = HashOf(kept, Valid(kept)[k]) /\ k \in DOMAIN docs
      BY <3>2, <3>3 DEF DocsFit
    <3>5. HashOf(kept, Valid(kept)[k]) \in bank
      BY <3>2, <3>4 DEF bank, Hashes
    <3> QED
      BY <3>3, <3>5 DEF DocsFit, Known
  <2> QED
    BY <2>2, <2>4, <2>5, <2>6, <2>7 DEF RowsLand, CopiesMarked, report, dry, again
<1> QED
  BY <1>2, <1>3

\* ImportOnce (importQuestions), for every file of any length, and any bank: every row that is
\* not blank is imported or rejected under its own number, in the file's order; what comes in can
\* be put in a test; of the rows that are copies, their options in any order, at most one is unmarked,
\* and none that the bank has; a second import of the file is marked throughout; a dry run reports the same.
THEOREM ImportOnceAlways == ImportSpec => []ImportOnce
<1> DEFINE Picked == case.area = "import" => case.rows \in Files
<1>1. case = NoCase("import") => Picked
  BY DEF NoCase
<1>2. Picked /\ [PickImport \/ Again]_case => Picked'
  <2>1. PickImport => Picked'
    <3>1. ASSUME NEW rows \in Files, NEW existing \in Banks,
                 case' = [area |-> "import", rows |-> rows, existing |-> existing]
          PROVE  case'.rows \in Files
      BY <3>1
    <3> QED
      BY <3>1 DEF PickImport
  <2>2. Again => Picked'
    BY DEF Again, NoCase
  <2> QED
    BY <2>1, <2>2
<1>3. Picked => ImportOnce
  BY FileSound, FilesAssumption DEF ImportOnce
<1> QED
  BY <1>1, <1>2, <1>3, PTL DEF ImportSpec
=============================================================================
