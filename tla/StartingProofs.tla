---------------------------- MODULE StartingProofs ----------------------------
(***************************************************************************)
(* One ranked attempt for a student who sends one request at a time        *)
(* (FirstOnce), no pulled question in a later paper (FreshPaper), and the  *)
(* paper shown is the paper scored (ShownIsScored), for any number of      *)
(* requests, questions, attempts, updates and deaths.                      *)
(*                                                                         *)
(* The second needs to know what may stand under the keys of the cache:    *)
(* a question that is gone is flagged (Flagged), the paper under the       *)
(* current key shows none (CurrentClean), and the papers under a key that  *)
(* a request holds show none of those that were gone when it began         *)
(* (HeldClean), whichever request stores them.                             *)
(*                                                                         *)
(* The third needs that the paper under the current key is the current one *)
(* once no review is under way (CacheCurrent), and that what a request     *)
(* that no review disturbed has read is still so (KnowsStill).             *)
(***************************************************************************)
EXTENDS Starting, FiniteSetTheorems, TLAPS

States == {"begun", "find", "look", "test", "cache", "questions", "store", "answer"}
Asked ==
    [at: States, id: Nat, created: BOOLEAN, earlier: {"unread", "yes", "no"}, excluded: SUBSET Questions,
     read: BOOLEAN, version: Nat, paper: SUBSET Questions, gone: SUBSET Questions, restless: BOOLEAN]
Attempt == [status: {"in_progress", "submitted"}, firstAttempt: BOOLEAN, excluded: SUBSET Questions]
Attempts == Seq(Attempt)
Versions == 1..MaxUpdates
Papers == [some: BOOLEAN, shows: SUBSET Questions]
TypeOK ==
    /\ attempt \in Attempts
    /\ reported \in SUBSET Questions
    /\ updatedAt \in Versions
    /\ cache \in [Versions -> Papers]
    /\ review \in [Questions -> {"none", "pulling", "restoring"}]
    /\ request \in [Requests -> Asked \cup {Idle}]
    /\ gone \in SUBSET Questions
    /\ overlapped \in BOOLEAN

Active(r) == request[r] # Idle
\* The requests that looked up the test and still need its paper.
Holding(r) == request[r].at \in {"cache", "questions", "store"}

(* FirstOnce. *)
OneAtATime == ~overlapped => \A r, s \in Requests : Active(r) /\ Active(s) => r = s
EarlierTrue == ~overlapped => \A r \in Requests : Active(r) /\ request[r].earlier = "no" => attempt = <<>>
OnlyFirst == ~overlapped => \A i \in DOMAIN attempt : attempt[i].firstAttempt => i = 1
FirstInv == OneAtATime /\ EarlierTrue /\ OnlyFirst

(* FreshPaper. *)
Flagged ==
    /\ gone \subseteq reported /\ \A q \in Questions : review[q] = "pulling" => q \in reported
    /\ \A r \in Requests : Active(r) => request[r].gone \subseteq gone
VersionsSeen ==
    /\ \A r \in Requests : Active(r) /\ Holding(r) => request[r].version \in 1..updatedAt
    /\ \A v \in Versions : v > updatedAt => cache[v] = NoPaper
CurrentClean ==
    /\ cache[updatedAt].shows \cap gone = {}
    /\ \A s \in Requests : Active(s) /\ request[s].at = "store" /\ request[s].version = updatedAt => request[s].paper \cap gone = {}
HeldClean ==
    \A r \in Requests : Active(r) /\ Holding(r) =>
        /\ cache[request[r].version].shows \cap request[r].gone = {}
        /\ \A s \in Requests : Active(s) /\ request[s].at = "store" /\ request[s].version = request[r].version =>
               request[s].paper \cap request[r].gone = {}
AnswerClean == \A r \in Requests : Active(r) /\ request[r].at = "answer" => request[r].paper \cap request[r].gone = {}
PaperInv == Flagged /\ VersionsSeen /\ CurrentClean /\ HeldClean /\ AnswerClean
-----------------------------------------------------------------------------
(* Types. *)
LEMMA AskedWhenActive ==
    ASSUME TypeOK, NEW r \in Requests, request[r].at \in States
    PROVE  request[r] \in Asked /\ Active(r)
  BY DEF TypeOK, Active, Idle, States

LEMMA ActiveMeansAt ==
    ASSUME TypeOK, NEW r \in Requests, Active(r)
    PROVE  request[r] \in Asked /\ request[r].at \in States
  BY DEF TypeOK, Active, Asked

LEMMA GoEffect ==
    ASSUME TypeOK, NEW r \in Requests, NEW next \in Asked \cup {Idle}, Go(r, next)
    PROVE  /\ request' \in [Requests -> Asked \cup {Idle}]
           /\ request'[r] = next
           /\ \A s \in Requests : s # r => request'[s] = request[s]
  BY DEF TypeOK, Go

LEMMA StepTyped ==
    ASSUME NEW x \in Asked, NEW at \in States
    PROVE  [x EXCEPT !.at = at] \in Asked
  BY DEF Asked

LEMMA BegunTyped == Begun \in Asked
  BY StartingAssumption DEF Begun, Asked, States

LEMMA SendsTyped ==
    ASSUME NEW x \in Asked, NEW i \in Nat, NEW created \in BOOLEAN
    PROVE  [Begun EXCEPT !.at = "test", !.id = i, !.created = created, !.gone = x.gone, !.restless = x.restless] \in Asked
  <1>1. x.gone \in SUBSET Questions /\ x.restless \in BOOLEAN /\ "test" \in States
    BY DEF Asked, States
  <1>2. ASSUME NEW y \in Asked, NEW at \in States, NEW g \in SUBSET Questions, NEW restless \in BOOLEAN
        PROVE  [y EXCEPT !.at = at, !.id = i, !.created = created, !.gone = g, !.restless = restless] \in Asked
    BY DEF Asked
  <1> QED
    BY <1>1, <1>2, BegunTyped

LEMMA SubmitTyped ==
    ASSUME attempt \in Attempts, NEW i \in DOMAIN attempt
    PROVE  [attempt EXCEPT ![i].status = "submitted"] \in Attempts
  <1>1. attempt[i] \in Attempt
    BY DEF Attempts
  <1>2. [attempt[i] EXCEPT !.status = "submitted"] \in Attempt
    BY <1>1 DEF Attempt
  <1> QED
    BY <1>2 DEF Attempts

LEMMA VersionHeld ==
    ASSUME TypeOK, VersionsSeen, NEW r \in Requests, Holding(r)
    PROVE  /\ request[r] \in Asked /\ Active(r)
           /\ request[r].version \in 1..updatedAt
           /\ request[r].version \in Versions
  <1>1. request[r] \in Asked /\ Active(r)
    BY AskedWhenActive DEF Holding, States
  <1>2. request[r].version \in 1..updatedAt /\ updatedAt \in 1..MaxUpdates
    BY <1>1 DEF VersionsSeen, TypeOK, Versions
  <1> QED
    BY <1>1, <1>2, StartingAssumption DEF Versions

LEMMA DisturbedEffect ==
    ASSUME TypeOK, NEW removed, Disturbed(removed)
    PROVE  /\ request' \in [Requests -> Asked \cup {Idle}]
           /\ \A r \in Requests : ~Active(r) => request'[r] = Idle
           /\ \A r \in Requests : Active(r) => request'[r] = [request[r] EXCEPT !.restless = TRUE, !.gone = @ \ removed]
  <1>1. \A r \in Requests : request'[r] = IF request[r] = Idle THEN Idle ELSE [request[r] EXCEPT !.restless = TRUE, !.gone = @ \ removed]
    BY DEF Disturbed
  <1>2. ASSUME NEW r \in Requests, Active(r) PROVE [request[r] EXCEPT !.restless = TRUE, !.gone = @ \ removed] \in Asked
    BY <1>2, ActiveMeansAt DEF Asked
  <1>3. request' \in [Requests -> Asked \cup {Idle}]
    BY <1>1, <1>2 DEF Disturbed, Active
  <1> QED
    BY <1>1, <1>3 DEF Active

\* What stays as it is, and the typed requests, make the type again.
LEMMA Untouched ==
    ASSUME TypeOK, UNCHANGED <<attempt, bank, cache, gone>>, overlapped' \in BOOLEAN, request' \in [Requests -> Asked \cup {Idle}]
    PROVE  TypeOK'
  BY DEF TypeOK, bank

LEMMA TypeInit == Init => TypeOK
  <1> SUFFICES ASSUME Init PROVE TypeOK
    OBVIOUS
  <1>1. attempt \in Attempts
    BY DEF Init, Attempts
  <1>2. updatedAt \in Versions /\ cache \in [Versions -> Papers]
    BY StartingAssumption DEF Init, Versions, Papers, NoPaper
  <1>3. request \in [Requests -> Asked \cup {Idle}]
    BY DEF Init
  <1> QED
    BY <1>1, <1>2, <1>3 DEF Init, TypeOK

LEMMA TypeStep == TypeOK /\ VersionsSeen /\ [Next]_vars => TypeOK'
  <1> SUFFICES ASSUME TypeOK, VersionsSeen, [Next]_vars PROVE TypeOK'
    OBVIOUS
  <1>1. ASSUME NEW r \in Requests, NEW next \in Asked, Arrive(r, next) PROVE TypeOK'
    <2>1. [next EXCEPT !.gone = gone, !.restless = \E q \in Questions : review[q] # "none"] \in Asked
      BY DEF TypeOK, Asked
    <2> QED
      BY <1>1, <2>1, GoEffect, Untouched DEF Arrive, bank, TypeOK
  <1>2. ASSUME NEW r \in Requests, Start(r) PROVE TypeOK'
    BY <1>1, <1>2, BegunTyped DEF Start
  <1>3. ASSUME NEW r \in Requests, NEW i \in 1..MaxAttempts, Open(r, i) PROVE TypeOK'
    <2>1. ASSUME NEW y \in Asked, NEW at \in States, NEW n \in Nat PROVE [y EXCEPT !.at = at, !.id = n] \in Asked
      BY DEF Asked
    <2>2. "test" \in States /\ i \in Nat
      BY DEF States
    <2>3. [Begun EXCEPT !.at = "test", !.id = i] \in Asked
      BY <2>1, <2>2, BegunTyped
    <2> QED
      BY <1>1, <1>3, <2>3 DEF Open
  <1>4. ASSUME NEW r \in Requests, CheckAccess(r) PROVE TypeOK'
    <2>1. request[r] \in Asked
      BY <1>4, AskedWhenActive DEF CheckAccess, States
    <2>2. [request[r] EXCEPT !.at = "find"] \in Asked
      BY <2>1, StepTyped DEF States
    <2> QED
      BY <1>4, <2>2, GoEffect, Untouched DEF CheckAccess, Step, history, TypeOK
  <1>5. ASSUME NEW r \in Requests, FindCurrent(r) PROVE TypeOK'
    <2>1. request[r] \in Asked
      BY <1>5, AskedWhenActive DEF FindCurrent, States
    <2>2. [request[r] EXCEPT !.at = "look"] \in Asked
      BY <2>1, StepTyped DEF States
    <2>3. CASE InProgress = {} /\ Step(r, "look") /\ UNCHANGED attempt
      BY <1>5, <2>2, <2>3, GoEffect, Untouched DEF FindCurrent, Step, history, TypeOK
    <2>4. CASE \E i \in InProgress : Sends(r, i, FALSE) /\ UNCHANGED attempt
      <3>1. PICK i \in InProgress : Sends(r, i, FALSE)
        BY <2>4
      <3>2. i \in Nat
        BY DEF InProgress, TypeOK, Attempts
      <3> QED
        <4>1. request' \in [Requests -> Asked \cup {Idle}]
          BY <2>1, <3>1, <3>2, SendsTyped, GoEffect DEF Sends
        <4> QED
          BY <1>5, <2>4, <4>1, Untouched DEF FindCurrent, history, TypeOK
    <2>5. CASE \E i \in InProgress : attempt' = [attempt EXCEPT ![i].status = "submitted"] /\ Step(r, "look")
      <3>1. attempt' \in Attempts
        BY <2>5, SubmitTyped DEF InProgress, TypeOK
      <3> QED
        BY <1>5, <2>2, <2>5, <3>1, GoEffect DEF FindCurrent, Step, history, bank, TypeOK
    <2> QED
      BY <1>5, <2>3, <2>4, <2>5 DEF FindCurrent
  <1>6. ASSUME NEW r \in Requests, ReadEarlier(r) PROVE TypeOK'
    <2>1. request[r] \in Asked
      BY <1>6, AskedWhenActive DEF ReadEarlier, States
    <2>2. [request[r] EXCEPT !.earlier = IF attempt = <<>> THEN "no" ELSE "yes"] \in Asked
      BY <2>1 DEF Asked
    <2> QED
      BY <1>6, <2>2, GoEffect, Untouched DEF ReadEarlier, history, TypeOK
  <1>7. ASSUME NEW r \in Requests, ReadReported(r) PROVE TypeOK'
    <2>1. request[r] \in Asked
      BY <1>7, AskedWhenActive DEF ReadReported, States
    <2>2. [request[r] EXCEPT !.read = TRUE, !.excluded = Excludes] \in Asked
      BY <2>1 DEF Asked, TypeOK, Excludes
    <2> QED
      BY <1>7, <2>2, GoEffect, Untouched DEF ReadReported, history, TypeOK
  <1>8. ASSUME NEW r \in Requests, Create(r) PROVE TypeOK'
    <2>1. request[r] \in Asked
      BY <1>8, AskedWhenActive DEF Create, States
    <2>2. CASE InProgress # {}
      <3>1. PICK i \in InProgress : Sends(r, i, FALSE) /\ UNCHANGED attempt
        BY <1>8, <2>2 DEF Create
      <3>2. i \in Nat
        BY DEF InProgress, TypeOK, Attempts
      <3> QED
        <4>1. request' \in [Requests -> Asked \cup {Idle}]
          BY <2>1, <3>1, <3>2, SendsTyped, GoEffect DEF Sends
        <4> QED
          BY <1>8, <3>1, <4>1, Untouched DEF Create, history, TypeOK
    <2>3. CASE InProgress = {}
      <3>1. attempt' \in Attempts
        <4>1. [status |-> "in_progress", firstAttempt |-> IsFirst(request[r].earlier), excluded |-> request[r].excluded] \in Attempt
          BY <2>1 DEF Attempt, Asked, IsFirst
        <4> QED
          BY <1>8, <2>3, <4>1 DEF Create, TypeOK, Attempts
      <3>2. Len(attempt) + 1 \in Nat
        BY DEF TypeOK, Attempts
      <3>3. request' \in [Requests -> Asked \cup {Idle}]
        BY <1>8, <2>1, <2>3, <3>2, SendsTyped, GoEffect DEF Create, Sends
      <3> QED
        BY <1>8, <3>1, <3>3 DEF Create, history, bank, TypeOK
    <2> QED
      BY <2>2, <2>3
  <1>9. ASSUME NEW r \in Requests, ReadTest(r) PROVE TypeOK'
    <2>1. request[r] \in Asked
      BY <1>9, AskedWhenActive DEF ReadTest, States
    <2>2. ASSUME NEW y \in Asked, NEW at \in States, NEW v \in Nat PROVE [y EXCEPT !.at = at, !.version = v] \in Asked
      BY DEF Asked
    <2>3. "cache" \in States /\ updatedAt \in Nat
      BY DEF States, TypeOK, Versions
    <2>4. [request[r] EXCEPT !.at = "cache", !.version = updatedAt] \in Asked
      BY <2>1, <2>2, <2>3
    <2> QED
      BY <1>9, <2>4, GoEffect, Untouched DEF ReadTest, history, TypeOK
  <1>10. ASSUME NEW r \in Requests, ReadCache(r) PROVE TypeOK'
    <2>1. request[r] \in Asked /\ request[r].version \in Versions
      BY <1>10, VersionHeld DEF ReadCache, Holding
    <2>3. cache[request[r].version].shows \in SUBSET Questions
      BY <2>1 DEF TypeOK, Papers
    <2>4. [request[r] EXCEPT !.at = "answer", !.version = 0, !.paper = cache[request[r].version].shows] \in Asked
      BY <2>1, <2>3 DEF Asked, States
    <2>5. [request[r] EXCEPT !.at = "questions"] \in Asked
      BY <2>1, StepTyped DEF States
    <2>6. CASE cache[request[r].version].some
      <3>1. Go(r, [request[r] EXCEPT !.at = "answer", !.version = 0, !.paper = cache[request[r].version].shows])
        BY <1>10, <2>6 DEF ReadCache
      <3> QED
        BY <1>10, <2>4, <3>1, GoEffect, Untouched DEF ReadCache, history, TypeOK
    <2>7. CASE ~cache[request[r].version].some
      <3>1. Go(r, [request[r] EXCEPT !.at = "questions"])
        BY <1>10, <2>7 DEF ReadCache, Step
      <3> QED
        BY <1>10, <2>5, <3>1, GoEffect, Untouched DEF ReadCache, history, TypeOK
    <2> QED
      BY <2>6, <2>7
  <1>11. ASSUME NEW r \in Requests, ReadQuestions(r) PROVE TypeOK'
    <2>1. request[r] \in Asked
      BY <1>11, AskedWhenActive DEF ReadQuestions, States
    <2>2. [request[r] EXCEPT !.at = "store", !.paper = Questions \ reported] \in Asked
      BY <2>1 DEF Asked, States
    <2> QED
      BY <1>11, <2>2, GoEffect, Untouched DEF ReadQuestions, history, TypeOK
  <1>12. ASSUME NEW r \in Requests, StorePaper(r) PROVE TypeOK'
    <2>1. request[r] \in Asked /\ request[r].version \in Versions
      BY <1>12, VersionHeld DEF StorePaper, Holding
    <2>3. cache' \in [Versions -> Papers]
      BY <1>12, <2>1 DEF StorePaper, TypeOK, Papers, Paper, Asked
    <2>4. [request[r] EXCEPT !.at = "answer", !.version = 0] \in Asked
      BY <2>1, StartingAssumption DEF Asked, States
    <2>5. request' \in [Requests -> Asked \cup {Idle}]
      BY <1>12, <2>4, GoEffect DEF StorePaper
    <2> QED
      BY <1>12, <2>3, <2>5 DEF StorePaper, history, bank, TypeOK
  <1>13. ASSUME NEW r \in Requests, Send(r) PROVE TypeOK'
    BY <1>13, GoEffect, Untouched DEF Send, history, TypeOK
  <1>14. ASSUME NEW q \in Questions, Pull(q) PROVE TypeOK'
    <2>1. request' \in [Requests -> Asked \cup {Idle}]
      BY <1>14, DisturbedEffect DEF Pull
    <2> QED
      BY <1>14, <2>1 DEF Pull, history, TypeOK
  <1>15. ASSUME NEW q \in Questions, Restore(q) PROVE TypeOK'
    <2>1. request' \in [Requests -> Asked \cup {Idle}]
      BY <1>15, DisturbedEffect DEF Restore
    <2> QED
      BY <1>15, <2>1 DEF Restore, TypeOK
  <1>16. ASSUME NEW q \in Questions, RefreshPapers(q) PROVE TypeOK'
    <2>1. request' \in [Requests -> Asked \cup {Idle}]
      BY <1>16, DisturbedEffect DEF RefreshPapers
    <2>2. updatedAt' \in Versions
      BY <1>16, StartingAssumption DEF RefreshPapers, TypeOK, Versions, Touched
    <2>3. cache' \in [Versions -> Papers]
      BY <1>16 DEF RefreshPapers, TypeOK, Versions, Papers, NoPaper
    <2> QED
      BY <1>16, <2>1, <2>2, <2>3 DEF RefreshPapers, TypeOK
  <1>17. ASSUME NEW q \in Questions, DieInReview(q) PROVE TypeOK'
    BY <1>17 DEF DieInReview, history, TypeOK
  <1>18. ASSUME NEW i \in 1..MaxAttempts, Submit(i) PROVE TypeOK'
    <2>1. attempt' \in Attempts
      BY <1>18, SubmitTyped DEF Submit, InProgress, TypeOK
    <2> QED
      BY <1>18, <2>1 DEF Submit, history, bank, TypeOK
  <1>19. ASSUME NEW v \in 1..MaxUpdates, Evict(v) PROVE TypeOK'
    <2>1. cache' \in [Versions -> Papers]
      BY <1>19 DEF Evict, TypeOK, Versions, Papers, NoPaper
    <2> QED
      BY <1>19, <2>1 DEF Evict, history, bank, TypeOK
  <1>20. CASE UNCHANGED vars
    BY <1>20 DEF vars, bank, history, TypeOK
  <1> QED
    BY <1>2, <1>3, <1>4, <1>5, <1>6, <1>7, <1>8, <1>9, <1>10, <1>11, <1>12, <1>13, <1>14, <1>15, <1>16,
       <1>17, <1>18, <1>19, <1>20 DEF Next, Serve
-----------------------------------------------------------------------------
(* One request at a time. *)
\* No attempt is added, and none becomes ranked.
Kept ==
    /\ attempt = <<>> => attempt' = <<>>
    /\ \A i \in DOMAIN attempt' : i \in DOMAIN attempt /\ (attempt'[i].firstAttempt => attempt[i].firstAttempt)

LEMMA SubmittedKept ==
    ASSUME TypeOK, NEW i \in InProgress, attempt' = [attempt EXCEPT ![i].status = "submitted"]
    PROVE  Kept
  <1>1. i \in DOMAIN attempt /\ DOMAIN attempt' = DOMAIN attempt /\ attempt # <<>>
    BY DEF InProgress
  <1>2. ASSUME NEW j \in DOMAIN attempt PROVE attempt'[j].firstAttempt = attempt[j].firstAttempt
    <2>1. attempt[j] \in Attempt
      BY DEF TypeOK, Attempts
    <2>2. attempt'[j] = IF j = i THEN [attempt[j] EXCEPT !.status = "submitted"] ELSE attempt[j]
      BY <1>1
    <2> QED
      BY <2>1, <2>2 DEF Attempt
  <1> QED
    BY <1>1, <1>2 DEF Kept

LEMMA FirstMove ==
    ASSUME TypeOK, FirstInv, NEW r \in Requests, NEW next \in Asked \cup {Idle}, Go(r, next), Active(r), Kept,
           UNCHANGED overlapped,
           next # Idle /\ next.earlier = "no" => attempt = <<>> \/ request[r].earlier = "no"
    PROVE  FirstInv'
  <1>1. request'[r] = next /\ \A s \in Requests : s # r => request'[s] = request[s]
    BY GoEffect
  <1> SUFFICES ASSUME ~overlapped PROVE FirstInv'
    BY DEF FirstInv, OneAtATime, EarlierTrue, OnlyFirst
  <1>2. OneAtATime'
    BY <1>1 DEF FirstInv, OneAtATime, Active
  <1>3. EarlierTrue'
    BY <1>1 DEF FirstInv, EarlierTrue, Active, Kept
  <1>4. OnlyFirst'
    BY DEF FirstInv, OnlyFirst, Kept
  <1> QED
    BY <1>2, <1>3, <1>4 DEF FirstInv

LEMMA FirstDisturbed ==
    ASSUME TypeOK, FirstInv, NEW removed, Disturbed(removed), UNCHANGED <<attempt, overlapped>>
    PROVE  FirstInv'
  <1>1. ASSUME NEW r \in Requests
        PROVE  /\ Active(r)' => Active(r)
               /\ Active(r) => request'[r].earlier = request[r].earlier
    <2>1. CASE Active(r)
      BY <2>1, DisturbedEffect, ActiveMeansAt, ZenonT(60) DEF Asked
    <2>2. CASE ~Active(r)
      BY <2>2, DisturbedEffect DEF Active
    <2> QED
      BY <2>1, <2>2
  <1> QED
    BY <1>1 DEF FirstInv, OneAtATime, EarlierTrue, OnlyFirst

LEMMA FirstStep == TypeOK /\ VersionsSeen /\ FirstInv /\ [Next]_vars => FirstInv'
  <1> SUFFICES ASSUME TypeOK, VersionsSeen, FirstInv, [Next]_vars PROVE FirstInv'
    OBVIOUS
  <1>0. Kept \/ attempt' # attempt
    BY DEF Kept
  <1>1. ASSUME NEW r \in Requests, NEW next \in Asked, next.earlier = "unread", Arrive(r, next) PROVE FirstInv'
    <2> DEFINE new == [next EXCEPT !.gone = gone, !.restless = \E q \in Questions : review[q] # "none"]
    <2>1. new \in Asked /\ new.earlier = "unread"
      BY <1>1 DEF TypeOK, Asked
    <2>2. request'[r] = new /\ \A s \in Requests : s # r => request'[s] = request[s]
      BY <1>1, <2>1, GoEffect DEF Arrive
    <2>3. ~overlapped' => ~overlapped /\ \A s \in Requests : s # r => ~Active(s)
      BY <1>1 DEF Arrive, Active, TypeOK
    <2> HIDE DEF new
    <2> QED
      BY <1>1, <2>1, <2>2, <2>3 DEF FirstInv, OneAtATime, EarlierTrue, OnlyFirst, Active, Arrive
  <1>2. ASSUME NEW r \in Requests, Start(r) PROVE FirstInv'
    <2>1. Begun.earlier = "unread"
      BY DEF Begun
    <2> QED
      BY <1>1, <1>2, <2>1, BegunTyped DEF Start
  <1>3. ASSUME NEW r \in Requests, NEW i \in 1..MaxAttempts, Open(r, i) PROVE FirstInv'
    <2>1. ASSUME NEW y \in Asked, NEW at \in States, NEW n \in Nat
          PROVE [y EXCEPT !.at = at, !.id = n] \in Asked /\ [y EXCEPT !.at = at, !.id = n].earlier = y.earlier
      BY DEF Asked
    <2>2. "test" \in States /\ i \in Nat /\ Begun.earlier = "unread"
      BY DEF States, Begun
    <2>3. [Begun EXCEPT !.at = "test", !.id = i] \in Asked /\ [Begun EXCEPT !.at = "test", !.id = i].earlier = "unread"
      BY <2>1, <2>2, BegunTyped
    <2> QED
      BY <1>1, <1>3, <2>3 DEF Open
  \* A request that sends an attempt has looked at nothing earlier.
  <1>4. ASSUME NEW r \in Requests, NEW i \in Nat, NEW created \in BOOLEAN, request[r] \in Asked, Active(r), Sends(r, i, created)
        PROVE  \E next \in Asked : Go(r, next) /\ next.earlier = "unread"
    <2>1. ASSUME NEW y \in Asked, NEW g, NEW restless
          PROVE  [y EXCEPT !.at = "test", !.id = i, !.created = created, !.gone = g, !.restless = restless].earlier = y.earlier
      BY DEF Asked
    <2>2. Begun.earlier = "unread"
      BY DEF Begun
    <2> DEFINE next == [Begun EXCEPT !.at = "test", !.id = i, !.created = created, !.gone = request[r].gone, !.restless = request[r].restless]
    <2>3. next \in Asked /\ next.earlier = "unread" /\ Go(r, next)
      BY <1>4, <2>1, <2>2, SendsTyped, BegunTyped DEF Sends
    <2> QED
      BY <2>3
  <1>5. ASSUME NEW r \in Requests, CheckAccess(r) PROVE FirstInv'
    <2>1. request[r] \in Asked /\ Active(r) /\ Kept /\ UNCHANGED overlapped
      BY <1>5, AskedWhenActive DEF CheckAccess, States, Kept, history
    <2>2. [request[r] EXCEPT !.at = "find"] \in Asked /\ [request[r] EXCEPT !.at = "find"].earlier = request[r].earlier
      BY <2>1 DEF Asked, States
    <2>3. CASE Step(r, "find")
      BY <2>1, <2>2, <2>3, FirstMove DEF Step
    <2>4. CASE Go(r, Idle)
      BY <2>1, <2>4, FirstMove
    <2> QED
      BY <1>5, <2>3, <2>4 DEF CheckAccess
  <1>6. ASSUME NEW r \in Requests, FindCurrent(r) PROVE FirstInv'
    <2>1. request[r] \in Asked /\ Active(r) /\ UNCHANGED overlapped
      BY <1>6, AskedWhenActive DEF FindCurrent, States, history
    <2>2. [request[r] EXCEPT !.at = "look"] \in Asked /\ [request[r] EXCEPT !.at = "look"].earlier = request[r].earlier
      BY <2>1 DEF Asked, States
    <2>3. CASE Step(r, "look") /\ UNCHANGED attempt
      BY <1>0, <2>1, <2>2, <2>3, FirstMove DEF Step
    <2>4. CASE \E i \in InProgress : Sends(r, i, FALSE) /\ UNCHANGED attempt
      <3>1. PICK i \in InProgress : Sends(r, i, FALSE)
        BY <2>4
      <3>2. i \in Nat
        BY DEF InProgress, TypeOK, Attempts
      <3>3. PICK next \in Asked : Go(r, next) /\ next.earlier = "unread"
        BY <1>4, <2>1, <3>1, <3>2
      <3> QED
        BY <1>0, <2>1, <2>4, <3>3, FirstMove
    <2>5. CASE \E i \in InProgress : attempt' = [attempt EXCEPT ![i].status = "submitted"] /\ Step(r, "look")
      <3>1. Kept
        BY <2>5, SubmittedKept
      <3> QED
        BY <2>1, <2>2, <2>5, <3>1, FirstMove DEF Step
    <2> QED
      BY <1>6, <2>3, <2>4, <2>5 DEF FindCurrent
  <1>7. ASSUME NEW r \in Requests, ReadEarlier(r) PROVE FirstInv'
    <2>1. request[r] \in Asked /\ Active(r) /\ Kept /\ UNCHANGED overlapped
      BY <1>7, AskedWhenActive DEF ReadEarlier, States, Kept, history
    <2> DEFINE next == [request[r] EXCEPT !.earlier = IF attempt = <<>> THEN "no" ELSE "yes"]
    <2>2. next \in Asked /\ next.earlier = IF attempt = <<>> THEN "no" ELSE "yes"
      BY <2>1 DEF Asked
    <2>3. Go(r, next)
      BY <1>7 DEF ReadEarlier
    <2> HIDE DEF next
    <2> QED
      BY <2>1, <2>2, <2>3, FirstMove
  <1>8. ASSUME NEW r \in Requests, ReadReported(r) PROVE FirstInv'
    <2>1. request[r] \in Asked /\ Active(r) /\ Kept /\ UNCHANGED overlapped
      BY <1>8, AskedWhenActive DEF ReadReported, States, Kept, history
    <2> DEFINE next == [request[r] EXCEPT !.read = TRUE, !.excluded = Excludes]
    <2>2. next \in Asked /\ next.earlier = request[r].earlier
      BY <2>1 DEF Asked, Excludes, TypeOK
    <2>3. Go(r, next)
      BY <1>8 DEF ReadReported
    <2> HIDE DEF next
    <2> QED
      BY <2>1, <2>2, <2>3, FirstMove
  <1>9. ASSUME NEW r \in Requests, Create(r) PROVE FirstInv'
    <2>1. request[r] \in Asked /\ Active(r) /\ UNCHANGED overlapped
      BY <1>9, AskedWhenActive DEF Create, States, history
    <2>2. CASE InProgress # {}
      <3>1. PICK i \in InProgress : Sends(r, i, FALSE) /\ UNCHANGED attempt
        BY <1>9, <2>2 DEF Create
      <3>2. i \in Nat
        BY DEF InProgress, TypeOK, Attempts
      <3>3. PICK next \in Asked : Go(r, next) /\ next.earlier = "unread"
        BY <1>4, <2>1, <3>1, <3>2
      <3> QED
        BY <1>0, <2>1, <3>1, <3>3, FirstMove
    <2>3. CASE InProgress = {}
      <3>1. /\ attempt' = Append(attempt, [status |-> "in_progress", firstAttempt |-> IsFirst(request[r].earlier), excluded |-> request[r].excluded])
            /\ Sends(r, Len(attempt) + 1, TRUE)
        BY <1>9, <2>3 DEF Create
      <3>2. attempt \in Seq(Attempt) /\ Len(attempt) + 1 \in Nat
        BY DEF TypeOK, Attempts
      <3>3. PICK next \in Asked : Go(r, next) /\ next.earlier = "unread"
        BY <1>4, <2>1, <3>1, <3>2
      <3>4. request'[r] = next /\ \A s \in Requests : s # r => request'[s] = request[s]
        BY <3>3, GoEffect
      <3> SUFFICES ASSUME ~overlapped PROVE FirstInv'
        BY <2>1 DEF FirstInv, OneAtATime, EarlierTrue, OnlyFirst
      <3>5. OneAtATime'
        BY <2>1, <3>4 DEF FirstInv, OneAtATime, Active
      <3>6. EarlierTrue'
        BY <2>1, <3>3, <3>4 DEF FirstInv, OneAtATime, EarlierTrue, Active
      <3>7. OnlyFirst'
        <4>1. IsFirst(request[r].earlier) => attempt = <<>>
          BY <2>1 DEF FirstInv, EarlierTrue, IsFirst
        <4>2. SUFFICES ASSUME NEW i \in DOMAIN attempt', attempt'[i].firstAttempt PROVE i = 1
          BY DEF OnlyFirst
        <4>3. CASE i \in DOMAIN attempt
          BY <3>1, <3>2, <4>2, <4>3 DEF FirstInv, OnlyFirst
        <4>4. CASE i \notin DOMAIN attempt
          <5>1. i = Len(attempt) + 1
            BY <3>1, <3>2, <4>4
          <5>2. attempt'[i].firstAttempt = IsFirst(request[r].earlier)
            BY <3>1, <3>2, <5>1
          <5> QED
            BY <3>2, <4>1, <4>2, <5>1, <5>2
        <4> QED
          BY <4>3, <4>4
      <3> QED
        BY <3>5, <3>6, <3>7 DEF FirstInv
    <2> QED
      BY <2>2, <2>3
  \* What follows looks at no attempt.
  <1>10. ASSUME NEW r \in Requests, ReadTest(r) \/ ReadCache(r) \/ ReadQuestions(r) \/ StorePaper(r) \/ Send(r) PROVE FirstInv'
    <2>1. request[r] \in Asked /\ Active(r) /\ Kept /\ UNCHANGED overlapped
      BY <1>10, AskedWhenActive DEF ReadTest, ReadCache, ReadQuestions, StorePaper, Send, States, Kept, history
    <2>2. \E next : Go(r, next) /\ (next = Idle \/ next.earlier = request[r].earlier)
      <3>2. CASE ReadTest(r)
        <4> DEFINE next == [request[r] EXCEPT !.at = "cache", !.version = updatedAt]
        <4>1. Go(r, next)
          BY <3>2 DEF ReadTest
        <4>2. next.earlier = request[r].earlier
          BY <2>1 DEF Asked
        <4> HIDE DEF next
        <4> QED
          BY <4>1, <4>2
      <3>3. CASE ReadCache(r) /\ cache[request[r].version].some
        <4> DEFINE next == [request[r] EXCEPT !.at = "answer", !.version = 0, !.paper = cache[request[r].version].shows]
        <4>1. Go(r, next)
          BY <3>3 DEF ReadCache
        <4>2. next.earlier = request[r].earlier
          BY <2>1 DEF Asked
        <4> HIDE DEF next
        <4> QED
          BY <4>1, <4>2
      <3>4. CASE ReadCache(r) /\ ~cache[request[r].version].some
        <4> DEFINE next == [request[r] EXCEPT !.at = "questions"]
        <4>1. Go(r, next)
          BY <3>4 DEF ReadCache, Step
        <4>2. next.earlier = request[r].earlier
          BY <2>1 DEF Asked
        <4> HIDE DEF next
        <4> QED
          BY <4>1, <4>2
      <3>5. CASE ReadQuestions(r)
        <4> DEFINE next == [request[r] EXCEPT !.at = "store", !.paper = Questions \ reported]
        <4>1. Go(r, next)
          BY <3>5 DEF ReadQuestions
        <4>2. next.earlier = request[r].earlier
          BY <2>1 DEF Asked
        <4> HIDE DEF next
        <4> QED
          BY <4>1, <4>2
      <3>6. CASE StorePaper(r)
        <4> DEFINE next == [request[r] EXCEPT !.at = "answer", !.version = 0]
        <4>1. Go(r, next)
          BY <3>6 DEF StorePaper
        <4>2. next.earlier = request[r].earlier
          BY <2>1 DEF Asked
        <4> HIDE DEF next
        <4> QED
          BY <4>1, <4>2
      <3>7. CASE Send(r)
        BY <3>7 DEF Send
      <3> QED
        BY <1>10, <3>2, <3>3, <3>4, <3>5, <3>6, <3>7
    <2>3. request' \in [Requests -> Asked \cup {Idle}]
      BY <1>10, TypeStep DEF Next, Serve, TypeOK
    <2>4. PICK next : Go(r, next) /\ (next = Idle \/ next.earlier = request[r].earlier)
      BY <2>2
    <2>5. next \in Asked \cup {Idle}
      BY <2>3, <2>4 DEF Go, TypeOK
    <2> QED
      BY <2>1, <2>4, <2>5, FirstMove
  <1>11. ASSUME NEW q \in Questions, Pull(q) \/ Restore(q) \/ RefreshPapers(q) PROVE FirstInv'
    BY <1>11, FirstDisturbed DEF Pull, Restore, RefreshPapers, history
  <1>12. ASSUME NEW i \in 1..MaxAttempts, Submit(i) PROVE FirstInv'
    <2>1. Kept
      BY <1>12, SubmittedKept DEF Submit
    <2> QED
      BY <1>12, <2>1 DEF Submit, history, Kept, FirstInv, OneAtATime, EarlierTrue, OnlyFirst, Active
  <1>13. CASE UNCHANGED <<attempt, request, overlapped>>
    BY <1>13 DEF FirstInv, OneAtATime, EarlierTrue, OnlyFirst, Active
  <1>14. ASSUME NEW q \in Questions, DieInReview(q) PROVE FirstInv'
    BY <1>13, <1>14 DEF DieInReview, history
  <1>15. ASSUME NEW v \in 1..MaxUpdates, Evict(v) PROVE FirstInv'
    BY <1>13, <1>15 DEF Evict, history
  <1>16. CASE UNCHANGED vars
    BY <1>13, <1>16 DEF vars, history
  <1> QED
    BY <1>2, <1>3, <1>5, <1>6, <1>7, <1>8, <1>9, <1>10, <1>11, <1>12, <1>14, <1>15, <1>16 DEF Next, Serve

LEMMA FirstInit == Init => FirstInv
  BY DEF Init, FirstInv, OneAtATime, EarlierTrue, OnlyFirst, Active
-----------------------------------------------------------------------------
(* The papers. *)
LEMMA PaperInit == Init => PaperInv
  <1> SUFFICES ASSUME Init PROVE PaperInv
    OBVIOUS
  <1>1. updatedAt \in Versions /\ \A v \in Versions : cache[v] = NoPaper
    BY StartingAssumption DEF Init, Versions
  <1>2. \A r \in Requests : ~Active(r)
    BY DEF Init, Active
  <1> QED
    BY <1>1, <1>2 DEF Init, PaperInv, Flagged, VersionsSeen, CurrentClean, HeldClean, AnswerClean, NoPaper

\* What a request may become without a change of the test, of the cache or of what is gone.
Clean(r, next) ==
    /\ next.gone \subseteq gone
    /\ next.at \in {"cache", "questions", "store"} =>
           /\ next.version \in 1..updatedAt
           /\ cache[next.version].shows \cap next.gone = {}
           /\ \A s \in Requests \ {r} : Active(s) /\ request[s].at = "store" /\ request[s].version = next.version =>
                  request[s].paper \cap next.gone = {}
    /\ next.at = "store" => next.paper \cap gone = {}
    /\ next.at = "answer" => next.paper \cap next.gone = {}

LEMMA PaperMove ==
    ASSUME TypeOK, PaperInv, NEW r \in Requests, NEW next \in Asked \cup {Idle}, Go(r, next),
           UNCHANGED <<bank, cache, gone>>, next # Idle => Clean(r, next)
    PROVE  PaperInv'
  <1>1. request'[r] = next /\ \A s \in Requests : s # r => request'[s] = request[s]
    BY GoEffect
  <1>2. Flagged'
    BY <1>1 DEF PaperInv, Flagged, Active, Clean, bank
  <1>3. VersionsSeen'
    BY <1>1 DEF PaperInv, VersionsSeen, Active, Holding, Clean, bank
  <1>4. CurrentClean'
    BY <1>1 DEF PaperInv, CurrentClean, Active, Clean, bank
  <1>5. HeldClean'
    <2> SUFFICES ASSUME NEW t \in Requests, Active(t)', Holding(t)'
                 PROVE  /\ cache[request'[t].version].shows \cap request'[t].gone = {}
                        /\ \A s \in Requests : request'[s] # Idle /\ request'[s].at = "store" /\ request'[s].version = request'[t].version =>
                               request'[s].paper \cap request'[t].gone = {}
      BY DEF HeldClean, Active
    <2>1. request'[t].gone \subseteq gone
      BY <1>2 DEF Flagged, Active
    <2>2. CASE t = r
      BY <1>1, <2>1, <2>2 DEF Active, Holding, Clean
    <2>3. CASE t # r
      BY <1>1, <2>1, <2>3 DEF Active, Holding, Clean, PaperInv, HeldClean
    <2> QED
      BY <2>2, <2>3
  <1>6. AnswerClean'
    BY <1>1 DEF PaperInv, AnswerClean, Active, Clean
  <1> QED
    BY <1>2, <1>3, <1>4, <1>5, <1>6 DEF PaperInv

\* A step that neither holds a version nor has a paper afterwards.
LEMMA QuietMove ==
    ASSUME TypeOK, PaperInv, NEW r \in Requests, NEW next \in Asked, Go(r, next), UNCHANGED <<bank, cache, gone>>,
           next.at \in {"begun", "find", "look", "test"}, next.gone \subseteq gone
    PROVE  PaperInv'
  BY PaperMove DEF Clean

LEMMA SendsQuiet ==
    ASSUME TypeOK, PaperInv, NEW r \in Requests, NEW i \in Nat, NEW created \in BOOLEAN, Active(r), Sends(r, i, created),
           UNCHANGED <<bank, cache, gone>>
    PROVE  PaperInv'
  <1> DEFINE next == [Begun EXCEPT !.at = "test", !.id = i, !.created = created, !.gone = request[r].gone, !.restless = request[r].restless]
  <1>1. request[r] \in Asked /\ request[r].gone \subseteq gone
    BY ActiveMeansAt DEF PaperInv, Flagged
  <1>2. next \in Asked /\ Go(r, next)
    BY <1>1, SendsTyped DEF Sends
  <1>3. ASSUME NEW y \in Asked, NEW g, NEW restless
        PROVE  LET z == [y EXCEPT !.at = "test", !.id = i, !.created = created, !.gone = g, !.restless = restless]
               IN  z.at = "test" /\ z.gone = g
    BY DEF Asked
  <1>4. next.at = "test" /\ next.gone = request[r].gone
    BY <1>3, BegunTyped
  <1> HIDE DEF next
  <1> QED
    BY <1>1, <1>2, <1>4, QuietMove

LEMMA ArriveQuiet ==
    ASSUME TypeOK, PaperInv, NEW r \in Requests, NEW next \in Asked, next.at \in {"begun", "test"}, Arrive(r, next)
    PROVE  PaperInv'
  <1> DEFINE new == [next EXCEPT !.gone = gone, !.restless = \E q \in Questions : review[q] # "none"]
  <1>1. new \in Asked /\ new.at = next.at /\ new.gone = gone
    BY DEF TypeOK, Asked
  <1>2. Go(r, new) /\ UNCHANGED <<bank, cache, gone>>
    BY DEF Arrive
  <1> HIDE DEF new
  <1> QED
    BY <1>1, <1>2, QuietMove

LEMMA StoredClean ==
    ASSUME TypeOK, PaperInv, NEW r \in Requests, StorePaper(r)
    PROVE  PaperInv'
  <1> DEFINE v == request[r].version
             next == [request[r] EXCEPT !.at = "answer", !.version = 0]
  <1>1. request[r] \in Asked /\ Active(r) /\ Holding(r) /\ v \in Versions
    BY VersionHeld DEF StorePaper, Holding, PaperInv
  <1>2. next \in Asked /\ next.at = "answer" /\ next.paper = request[r].paper /\ next.gone = request[r].gone
    BY <1>1, StartingAssumption DEF Asked, States
  <1>3. Go(r, next)
    BY DEF StorePaper
  <1> HIDE DEF next
  <1>4. request'[r] = next /\ \A s \in Requests : s # r => request'[s] = request[s]
    BY <1>2, <1>3, GoEffect
  <1>5. cache'[v].shows = request[r].paper /\ \A w \in Versions : w # v => cache'[w] = cache[w]
    BY <1>1 DEF StorePaper, TypeOK, Paper
  <1>6. Flagged'
    BY <1>1, <1>2, <1>4 DEF PaperInv, Flagged, Active, StorePaper, bank, history
  <1>7. VersionsSeen'
    <2>1. v \in 1..updatedAt /\ updatedAt \in Nat
      BY <1>1 DEF PaperInv, VersionsSeen, TypeOK, Versions
    <2>2. \A w \in Versions : w > updatedAt => cache'[w] = NoPaper
      BY <1>5, <2>1 DEF PaperInv, VersionsSeen
    <2>3. \A t \in Requests : Active(t)' /\ Holding(t)' => request'[t].version \in 1..updatedAt
      BY <1>2, <1>4 DEF PaperInv, VersionsSeen, Active, Holding
    <2> QED
      BY <2>2, <2>3 DEF VersionsSeen, StorePaper, bank
  <1>8. CurrentClean'
    <2>1. cache'[updatedAt].shows \cap gone = {}
      <3>1. CASE v = updatedAt
        BY <1>1, <1>5, <3>1 DEF PaperInv, CurrentClean, StorePaper
      <3>2. CASE v # updatedAt
        BY <1>5, <3>2 DEF PaperInv, CurrentClean, TypeOK
      <3> QED
        BY <3>1, <3>2
    <2>2. \A s \in Requests : Active(s)' /\ request'[s].at = "store" /\ request'[s].version = updatedAt => request'[s].paper \cap gone = {}
      BY <1>2, <1>4 DEF PaperInv, CurrentClean, Active
    <2> QED
      BY <2>1, <2>2 DEF CurrentClean, StorePaper, bank, history, Active
  <1>9. HeldClean'
    <2> SUFFICES ASSUME NEW t \in Requests, Active(t)', Holding(t)'
                 PROVE  /\ cache'[request'[t].version].shows \cap request'[t].gone = {}
                        /\ \A s \in Requests : request'[s] # Idle /\ request'[s].at = "store" /\ request'[s].version = request'[t].version =>
                               request'[s].paper \cap request'[t].gone = {}
      BY DEF HeldClean, Active
    <2>1. t # r /\ request'[t] = request[t] /\ Active(t) /\ Holding(t)
      BY <1>2, <1>4 DEF Active, Holding
    <2>2. request[t].version \in Versions
      BY <2>1, VersionHeld DEF PaperInv
    <2>3. cache'[request[t].version].shows \cap request[t].gone = {}
      <3>1. CASE request[t].version = v
        BY <1>1, <1>5, <2>1, <3>1 DEF PaperInv, HeldClean, StorePaper
      <3>2. CASE request[t].version # v
        BY <1>5, <2>1, <2>2, <3>2 DEF PaperInv, HeldClean
      <3> QED
        BY <3>1, <3>2
    <2>4. ASSUME NEW s \in Requests, request'[s] # Idle, request'[s].at = "store", request'[s].version = request[t].version
          PROVE  request'[s].paper \cap request[t].gone = {}
      BY <1>2, <1>4, <2>1, <2>4 DEF PaperInv, HeldClean, Active
    <2> QED
      BY <2>1, <2>3, <2>4
  <1>10. AnswerClean'
    <2>1. request[r].paper \cap request[r].gone = {}
      BY <1>1 DEF PaperInv, HeldClean, StorePaper
    <2> QED
      BY <1>2, <1>4, <2>1 DEF PaperInv, AnswerClean, Active
  <1> QED
    BY <1>6, <1>7, <1>8, <1>9, <1>10 DEF PaperInv

\* A review leaves what a request holds as it is, but for what it takes as gone.
LEMMA DisturbedFields ==
    ASSUME TypeOK, NEW removed, Disturbed(removed), NEW r \in Requests
    PROVE  /\ Active(r)' <=> Active(r)
           /\ Active(r) => /\ request'[r].at = request[r].at
                           /\ request'[r].version = request[r].version
                           /\ request'[r].paper = request[r].paper
                           /\ request'[r].gone = request[r].gone \ removed
                           /\ Holding(r)' <=> Holding(r)
  <1>1. CASE Active(r)
    <2>1. request[r] \in Asked
      BY <1>1, ActiveMeansAt
    <2>2. request'[r] = [request[r] EXCEPT !.restless = TRUE, !.gone = @ \ removed] /\ request'[r] \in Asked \cup {Idle}
      BY <1>1, DisturbedEffect
    <2>3. request'[r].at = request[r].at /\ request'[r].version = request[r].version /\ request'[r].paper = request[r].paper
          /\ request'[r].gone = request[r].gone \ removed
      BY <2>1, <2>2 DEF Asked
    <2>4. Active(r)'
      BY <2>1, <2>3 DEF Active, Asked, Idle, States
    <2> QED
      BY <1>1, <2>3, <2>4 DEF Holding
  <1>2. CASE ~Active(r)
    BY <1>2, DisturbedEffect DEF Active
  <1> QED
    BY <1>1, <1>2

LEMMA PullClean ==
    ASSUME TypeOK, PaperInv, NEW q \in Questions, Pull(q)
    PROVE  PaperInv'
  <1>1. Disturbed({}) /\ UNCHANGED <<updatedAt, cache, gone>> /\ reported' = reported \cup {q}
    BY DEF Pull, history
  <1>2. \A p \in Questions : review'[p] = "pulling" => p \in reported'
    BY DEF Pull, PaperInv, Flagged, TypeOK
  <1>3. Flagged'
    BY <1>1, <1>2, DisturbedFields DEF PaperInv, Flagged
  <1> QED
    BY <1>1, <1>3, DisturbedFields DEF PaperInv, VersionsSeen, CurrentClean, HeldClean, AnswerClean

LEMMA RestoreClean ==
    ASSUME TypeOK, PaperInv, NEW q \in Questions, Restore(q)
    PROVE  PaperInv'
  <1>1. Disturbed({q}) /\ UNCHANGED <<updatedAt, cache>> /\ reported' = reported \ {q} /\ gone' = gone \ {q}
    BY DEF Restore
  <1>2. \A p \in Questions : review'[p] = "pulling" => p \in reported'
    BY DEF Restore, PaperInv, Flagged, TypeOK
  <1>3. Flagged'
    BY <1>1, <1>2, DisturbedFields DEF PaperInv, Flagged
  <1>4. VersionsSeen'
    BY <1>1, DisturbedFields DEF PaperInv, VersionsSeen
  <1>5. CurrentClean'
    BY <1>1, DisturbedFields DEF PaperInv, CurrentClean
  <1>6. HeldClean'
    BY <1>1, DisturbedFields DEF PaperInv, HeldClean
  <1>7. AnswerClean'
    BY <1>1, DisturbedFields DEF PaperInv, AnswerClean
  <1> QED
    BY <1>3, <1>4, <1>5, <1>6, <1>7 DEF PaperInv

LEMMA RefreshClean ==
    ASSUME TypeOK, PaperInv, NEW q \in Questions, RefreshPapers(q)
    PROVE  PaperInv'
  <1>1. Disturbed({}) /\ UNCHANGED reported
    BY DEF RefreshPapers
  <1>2. updatedAt \in 1..MaxUpdates /\ updatedAt' = updatedAt + 1 /\ updatedAt' \in Versions /\ MaxUpdates \in Nat
    BY StartingAssumption DEF RefreshPapers, TypeOK, Versions, Touched
  <1>3. gone \subseteq gone' /\ gone' \subseteq reported
    BY DEF RefreshPapers, PaperInv, Flagged
  <1>4. ASSUME NEW v \in Versions PROVE cache'[v] = NoPaper \/ cache'[v] = cache[v]
    BY <1>4 DEF RefreshPapers, Versions
  <1>5. ASSUME NEW r \in Requests, Active(r), Holding(r) PROVE cache'[request[r].version] = cache[request[r].version]
    <2>1. request[r].version \in Versions
      BY <1>5, VersionHeld DEF PaperInv
    <2> QED
      BY <1>5, <2>1 DEF RefreshPapers, Versions, Active
  <1>6. Flagged'
    <2>1. \A p \in Questions : review'[p] = "pulling" => p \in reported
      BY DEF RefreshPapers, PaperInv, Flagged, TypeOK
    <2> QED
      BY <1>1, <1>3, <2>1, DisturbedFields DEF PaperInv, Flagged
  <1>7. VersionsSeen'
    <2>1. ASSUME NEW v \in Versions, v > updatedAt PROVE cache'[v] = NoPaper
      BY <1>4, <2>1 DEF PaperInv, VersionsSeen
    <2>2. \A v \in Versions : v > updatedAt + 1 => v > updatedAt
      BY <1>2 DEF Versions
    <2>3. ASSUME NEW r \in Requests, Active(r)', Holding(r)' PROVE request'[r].version \in 1..updatedAt
      BY <1>1, <2>3, DisturbedFields DEF PaperInv, VersionsSeen
    <2>4. 1..updatedAt \subseteq 1..(updatedAt + 1)
      BY <1>2
    <2> QED
      BY <1>2, <2>1, <2>2, <2>3, <2>4 DEF VersionsSeen
  <1>8. CurrentClean'
    <2>1. cache'[updatedAt'] = NoPaper
      <3>1. cache[updatedAt'] = NoPaper
        BY <1>2 DEF PaperInv, VersionsSeen
      <3> QED
        BY <1>2, <1>4, <3>1
    <2>2. \A s \in Requests : Active(s)' /\ request'[s].at = "store" => request'[s].version # updatedAt'
      <3> SUFFICES ASSUME NEW s \in Requests, Active(s)', request'[s].at = "store" PROVE request'[s].version # updatedAt'
        OBVIOUS
      <3>1. Active(s) /\ Holding(s) /\ request'[s].version = request[s].version
        BY <1>1, DisturbedFields DEF Holding
      <3>2. request[s].version \in 1..updatedAt
        BY <3>1 DEF PaperInv, VersionsSeen
      <3> QED
        BY <1>2, <3>1, <3>2
    <2> QED
      BY <2>1, <2>2 DEF CurrentClean, NoPaper
  <1>9. HeldClean'
    BY <1>1, <1>5, DisturbedFields DEF PaperInv, HeldClean
  <1>10. AnswerClean'
    BY <1>1, DisturbedFields DEF PaperInv, AnswerClean
  <1> QED
    BY <1>6, <1>7, <1>8, <1>9, <1>10 DEF PaperInv

LEMMA PaperStep == TypeOK /\ PaperInv /\ [Next]_vars => PaperInv'
  <1> SUFFICES ASSUME TypeOK, PaperInv, [Next]_vars PROVE PaperInv'
    OBVIOUS
  <1>1. ASSUME NEW r \in Requests, Start(r) PROVE PaperInv'
    <2>1. Begun.at = "begun"
      BY DEF Begun
    <2> QED
      BY <1>1, <2>1, BegunTyped, ArriveQuiet DEF Start
  <1>2. ASSUME NEW r \in Requests, NEW i \in 1..MaxAttempts, Open(r, i) PROVE PaperInv'
    <2>1. ASSUME NEW y \in Asked, NEW n \in Nat PROVE LET z == [y EXCEPT !.at = "test", !.id = n] IN z \in Asked /\ z.at = "test"
      BY DEF Asked, States
    <2> DEFINE next == [Begun EXCEPT !.at = "test", !.id = i]
    <2>2. i \in Nat => next \in Asked /\ next.at = "test"
      BY <2>1, BegunTyped
    <2>3. Arrive(r, next)
      BY <1>2 DEF Open
    <2>4. i \in Nat
      OBVIOUS
    <2> HIDE DEF next
    <2> QED
      BY <2>2, <2>3, <2>4, ArriveQuiet
  <1>3. ASSUME NEW r \in Requests, CheckAccess(r) PROVE PaperInv'
    <2>1. /\ request[r] \in Asked /\ Active(r) /\ request[r].gone \subseteq gone
          /\ UNCHANGED <<bank, cache, gone>>
      BY <1>3, AskedWhenActive DEF CheckAccess, States, PaperInv, Flagged, history
    <2> DEFINE next == [request[r] EXCEPT !.at = "find"]
    <2>2. next \in Asked /\ next.at = "find" /\ next.gone = request[r].gone
      BY <2>1 DEF Asked, States
    <2>3. Go(r, next) \/ Go(r, Idle)
      BY <1>3 DEF CheckAccess, Step
    <2> HIDE DEF next
    <2>4. CASE Go(r, next)
      BY <2>1, <2>2, <2>4, QuietMove
    <2>5. CASE Go(r, Idle)
      BY <2>1, <2>5, PaperMove
    <2> QED
      BY <2>3, <2>4, <2>5
  <1>4. ASSUME NEW r \in Requests, FindCurrent(r) PROVE PaperInv'
    <2>1. /\ request[r] \in Asked /\ Active(r) /\ request[r].gone \subseteq gone
          /\ UNCHANGED <<bank, cache, gone>>
      BY <1>4, AskedWhenActive DEF FindCurrent, States, PaperInv, Flagged, history
    <2> DEFINE next == [request[r] EXCEPT !.at = "look"]
    <2>2. next \in Asked /\ next.at = "look" /\ next.gone = request[r].gone
      BY <2>1 DEF Asked, States
    <2>3. Go(r, next) \/ \E i \in InProgress : Sends(r, i, FALSE)
      BY <1>4 DEF FindCurrent, Step
    <2> HIDE DEF next
    <2>4. CASE Go(r, next)
      BY <2>1, <2>2, <2>4, QuietMove
    <2>5. CASE \E i \in InProgress : Sends(r, i, FALSE)
      <3>1. \A i \in InProgress : i \in Nat
        BY DEF InProgress, TypeOK, Attempts
      <3> QED
        BY <2>1, <2>5, <3>1, SendsQuiet
    <2> QED
      BY <2>3, <2>4, <2>5
  <1>5. ASSUME NEW r \in Requests, ReadEarlier(r) PROVE PaperInv'
    <2>1. /\ request[r] \in Asked /\ Active(r) /\ request[r].gone \subseteq gone /\ request[r].at = "look"
          /\ UNCHANGED <<bank, cache, gone>>
      BY <1>5, AskedWhenActive DEF ReadEarlier, States, PaperInv, Flagged, history
    <2> DEFINE next == [request[r] EXCEPT !.earlier = IF attempt = <<>> THEN "no" ELSE "yes"]
    <2>2. Go(r, next)
      BY <1>5 DEF ReadEarlier
    <2>3. next \in Asked /\ next.at = "look" /\ next.gone = request[r].gone
      BY <2>1 DEF Asked, States
    <2> HIDE DEF next
    <2> QED
      BY <2>1, <2>2, <2>3, QuietMove
  <1>6. ASSUME NEW r \in Requests, ReadReported(r) PROVE PaperInv'
    <2>1. /\ request[r] \in Asked /\ Active(r) /\ request[r].gone \subseteq gone /\ request[r].at = "look"
          /\ UNCHANGED <<bank, cache, gone>>
      BY <1>6, AskedWhenActive DEF ReadReported, States, PaperInv, Flagged, history
    <2> DEFINE next == [request[r] EXCEPT !.read = TRUE, !.excluded = Excludes]
    <2>2. Go(r, next)
      BY <1>6 DEF ReadReported
    <2>3. next \in Asked /\ next.at = "look" /\ next.gone = request[r].gone
      BY <2>1 DEF Asked, States, TypeOK, Excludes
    <2> HIDE DEF next
    <2> QED
      BY <2>1, <2>2, <2>3, QuietMove
  <1>7. ASSUME NEW r \in Requests, Create(r) PROVE PaperInv'
    <2>1. /\ request[r] \in Asked /\ Active(r)
          /\ UNCHANGED <<bank, cache, gone>>
      BY <1>7, AskedWhenActive DEF Create, States, history
    <2>2. \A i \in InProgress : i \in Nat
      BY DEF InProgress, TypeOK, Attempts
    <2>3. Len(attempt) + 1 \in Nat
      BY DEF TypeOK, Attempts
    <2>4. (\E i \in InProgress : Sends(r, i, FALSE)) \/ Sends(r, Len(attempt) + 1, TRUE)
      BY <1>7 DEF Create
    <2> QED
      BY <2>1, <2>2, <2>3, <2>4, SendsQuiet
  <1>8. ASSUME NEW r \in Requests, ReadTest(r) PROVE PaperInv'
    <2>1. /\ request[r] \in Asked /\ Active(r) /\ request[r].gone \subseteq gone
          /\ UNCHANGED <<bank, cache, gone>>
      BY <1>8, AskedWhenActive DEF ReadTest, States, PaperInv, Flagged, history
    <2>2. updatedAt \in Nat /\ updatedAt \in 1..updatedAt
      BY StartingAssumption DEF TypeOK, Versions
    <2> DEFINE next == [request[r] EXCEPT !.at = "cache", !.version = updatedAt]
    <2>3. Go(r, next)
      BY <1>8 DEF ReadTest
    <2>4. ASSUME NEW y \in Asked, NEW v \in Nat
          PROVE LET z == [y EXCEPT !.at = "cache", !.version = v] IN z \in Asked /\ z.at = "cache" /\ z.version = v /\ z.gone = y.gone
      BY DEF Asked, States
    <2>5. next \in Asked /\ next.at = "cache" /\ next.version = updatedAt /\ next.gone = request[r].gone
      BY <2>1, <2>2, <2>4
    <2> HIDE DEF next
    <2>6. Clean(r, next)
      BY <2>1, <2>2, <2>5 DEF Clean, PaperInv, CurrentClean
    <2> QED
      BY <2>1, <2>3, <2>5, <2>6, PaperMove
  <1>9. ASSUME NEW r \in Requests, ReadCache(r) PROVE PaperInv'
    <2>1. /\ request[r] \in Asked /\ Active(r) /\ Holding(r) /\ request[r].gone \subseteq gone
          /\ request[r].version \in Versions /\ UNCHANGED <<bank, cache, gone>>
      BY <1>9, VersionHeld DEF ReadCache, Holding, PaperInv, Flagged, history
    <2>2. CASE cache[request[r].version].some
      <3> DEFINE shows == cache[request[r].version].shows
                 next == [request[r] EXCEPT !.at = "answer", !.version = 0, !.paper = shows]
      <3>1. Go(r, next)
        BY <1>9, <2>2 DEF ReadCache
      <3>2. shows \in SUBSET Questions
        BY <2>1 DEF TypeOK, Papers
      <3>3. shows \cap request[r].gone = {}
        BY <2>1 DEF PaperInv, HeldClean
      <3> HIDE DEF shows
      <3>4. next \in Asked /\ next.at = "answer" /\ next.paper = shows /\ next.gone = request[r].gone
        BY <2>1, <3>2 DEF Asked, States
      <3> HIDE DEF next
      <3> QED
        BY <2>1, <3>1, <3>3, <3>4, PaperMove DEF Clean
    <2>3. CASE ~cache[request[r].version].some
      <3> DEFINE next == [request[r] EXCEPT !.at = "questions"]
      <3>1. Go(r, next)
        BY <1>9, <2>3 DEF ReadCache, Step
      <3>2. next \in Asked /\ next.at = "questions" /\ next.version = request[r].version /\ next.gone = request[r].gone
        BY <2>1 DEF Asked, States
      <3> HIDE DEF next
      <3>3. Clean(r, next)
        BY <2>1, <3>2 DEF Clean, PaperInv, HeldClean, VersionsSeen
      <3> QED
        BY <2>1, <3>1, <3>2, <3>3, PaperMove
    <2> QED
      BY <2>2, <2>3
  <1>10. ASSUME NEW r \in Requests, ReadQuestions(r) PROVE PaperInv'
    <2>1. /\ request[r] \in Asked /\ Active(r) /\ Holding(r) /\ request[r].gone \subseteq gone
          /\ UNCHANGED <<bank, cache, gone>>
      BY <1>10, VersionHeld DEF ReadQuestions, Holding, PaperInv, Flagged, history
    <2> DEFINE next == [request[r] EXCEPT !.at = "store", !.paper = Questions \ reported]
    <2>2. Go(r, next)
      BY <1>10 DEF ReadQuestions
    <2>3. /\ next \in Asked /\ next.at = "store" /\ next.version = request[r].version
          /\ next.gone = request[r].gone /\ next.paper = Questions \ reported
      BY <2>1 DEF Asked, States
    <2> HIDE DEF next
    <2>4. next.paper \cap gone = {}
      BY <2>3 DEF PaperInv, Flagged
    <2>5. Clean(r, next)
      BY <2>1, <2>3, <2>4 DEF Clean, PaperInv, HeldClean, VersionsSeen
    <2> QED
      BY <2>1, <2>2, <2>3, <2>5, PaperMove
  <1>11. ASSUME NEW r \in Requests, Send(r) PROVE PaperInv'
    BY <1>11, PaperMove DEF Send, history
  <1>12. CASE UNCHANGED <<reported, updatedAt, gone, request>> /\ cache' \in [Versions -> Papers]
              /\ (\A v \in Versions : cache'[v] \in {cache[v], NoPaper})
              /\ (\A q \in Questions : review'[q] \in {review[q], "none"})
    <2>1. Flagged'
      BY <1>12 DEF PaperInv, Flagged, Active
    <2>2. VersionsSeen'
      BY <1>12 DEF PaperInv, VersionsSeen, Active, Holding
    <2>3. CurrentClean'
      BY <1>12 DEF PaperInv, CurrentClean, Active, NoPaper, TypeOK
    <2>4. HeldClean'
      <3>1. \A r \in Requests : Active(r) /\ Holding(r) => request[r].version \in Versions
        BY VersionHeld DEF PaperInv
      <3> QED
        BY <1>12, <3>1 DEF PaperInv, HeldClean, Active, Holding, NoPaper
    <2>5. AnswerClean'
      BY <1>12 DEF PaperInv, AnswerClean, Active
    <2> QED
      BY <2>1, <2>2, <2>3, <2>4, <2>5 DEF PaperInv
  <1>13. ASSUME NEW q \in Questions, DieInReview(q) PROVE PaperInv'
    BY <1>12, <1>13 DEF DieInReview, history, TypeOK
  <1>14. ASSUME NEW v \in 1..MaxUpdates, Evict(v) PROVE PaperInv'
    BY <1>12, <1>14 DEF Evict, history, bank, TypeOK, Versions, Papers, NoPaper
  <1>15. ASSUME NEW i \in 1..MaxAttempts, Submit(i) PROVE PaperInv'
    BY <1>12, <1>15 DEF Submit, history, bank, TypeOK
  <1>16. CASE UNCHANGED vars
    BY <1>12, <1>16 DEF vars, history, bank, TypeOK
  <1> QED
    BY <1>1, <1>2, <1>3, <1>4, <1>5, <1>6, <1>7, <1>8, <1>9, <1>10, <1>11, StoredClean, PullClean, RestoreClean, RefreshClean,
       <1>13, <1>14, <1>15, <1>16 DEF Next, Serve
-----------------------------------------------------------------------------
(* The paper shown and the questions scored. *)

Settled == \A q \in Questions : review[q] = "none"
Current == Questions \ reported

\* What a request that no review disturbed knows, x, is still so.
Knows(x) ==
    /\ x.at \in {"cache", "questions", "store"} => x.version = updatedAt
    /\ x.read => x.excluded = reported
    /\ x.at = "answer" /\ deaths = 0 => x.paper = Current
\* The attempt that it created (among the attempts a) leaves out what is still left out.
Made(x, a) == x.created => x.id \in DOMAIN a /\ a[x.id].excluded = reported
\* The paper it is about to store under the current key is the current one.
Builds(x) == x.at = "store" /\ x.version = updatedAt => x.paper = Current

\* The paper under the current key is the current one once no review is under way.
CacheCurrent ==
    deaths = 0 /\ Settled =>
        /\ cache[updatedAt].some => cache[updatedAt].shows = Current
        /\ \A r \in Requests : Active(r) => Builds(request[r])
KnowsStill ==
    \A r \in Requests : Active(r) /\ ~request[r].restless =>
        Settled /\ Knows(request[r]) /\ Made(request[r], attempt)
ShownInv == deaths \in Nat /\ CacheCurrent /\ KnowsStill

LEMMA ShownInit == Init => ShownInv
  <1> SUFFICES ASSUME Init PROVE ShownInv
    OBVIOUS
  <1>1. cache[updatedAt] = NoPaper
    BY StartingAssumption DEF Init
  <1> QED
    BY <1>1 DEF Init, ShownInv, CacheCurrent, KnowsStill, Active, NoPaper

\* No attempt is lost, and none changes what it leaves out.
Lasts == \A i \in DOMAIN attempt : i \in DOMAIN attempt' /\ attempt'[i].excluded = attempt[i].excluded

LEMMA SubmitLasts ==
    ASSUME TypeOK, NEW i \in InProgress, attempt' = [attempt EXCEPT ![i].status = "submitted"]
    PROVE  Lasts
  <1>1. DOMAIN attempt' = DOMAIN attempt
    OBVIOUS
  <1>2. ASSUME NEW j \in DOMAIN attempt PROVE attempt'[j].excluded = attempt[j].excluded
    <2>1. attempt[j] \in Attempt
      BY DEF TypeOK, Attempts
    <2>2. attempt'[j] = IF j = i THEN [attempt[j] EXCEPT !.status = "submitted"] ELSE attempt[j]
      BY DEF InProgress
    <2> QED
      BY <2>1, <2>2 DEF Attempt
  <1> QED
    BY <1>1, <1>2 DEF Lasts

\* What a request may become without a review.
Fits(next) ==
    /\ ~next.restless => Settled /\ Knows(next) /\ Made(next, attempt')
    /\ deaths = 0 /\ Settled => Builds(next)

LEMMA ShownMove ==
    ASSUME TypeOK, ShownInv, NEW r \in Requests, NEW next \in Asked \cup {Idle}, Go(r, next),
           UNCHANGED <<bank, deaths>>, Lasts,
           deaths = 0 /\ Settled /\ cache'[updatedAt].some => cache'[updatedAt].shows = Current,
           next # Idle => Fits(next)
    PROVE  ShownInv'
  <1>1. request'[r] = next /\ \A s \in Requests : s # r => request'[s] = request[s]
    BY GoEffect
  <1>2. Settled' = Settled /\ Current' = Current
    BY DEF Settled, Current, bank
  <1>3. ASSUME NEW s \in Requests, Active(s)', deaths = 0, Settled PROVE Builds(request[s])'
    <2>1. CASE s = r
      BY <1>1, <1>2, <1>3, <2>1 DEF Active, Builds, Fits, bank
    <2>2. CASE s # r
      BY <1>1, <1>2, <1>3, <2>2 DEF Active, Builds, ShownInv, CacheCurrent, bank
    <2> QED
      BY <2>1, <2>2
  <1>4. CacheCurrent'
    BY <1>2, <1>3 DEF CacheCurrent, bank
  <1>5. ASSUME NEW s \in Requests, Active(s)', ~request'[s].restless
        PROVE  Settled' /\ Knows(request[s])' /\ Made(request[s], attempt)'
    <2>1. CASE s = r
      BY <1>1, <1>2, <1>5, <2>1 DEF Active, Fits, Knows, Made, bank
    <2>2. CASE s # r
      <3>1. Active(s) /\ request'[s] = request[s] /\ Settled /\ Knows(request[s]) /\ Made(request[s], attempt)
        BY <1>1, <1>5, <2>2 DEF Active, ShownInv, KnowsStill
      <3> QED
        BY <1>2, <3>1 DEF Knows, Made, Lasts, bank
    <2> QED
      BY <2>1, <2>2
  <1> QED
    BY <1>4, <1>5 DEF ShownInv, KnowsStill

\* A step that leaves the cache alone, after which the request neither holds a version nor has a paper.
LEMMA ShownQuiet ==
    ASSUME TypeOK, ShownInv, NEW r \in Requests, NEW next \in Asked \cup {Idle}, Go(r, next),
           UNCHANGED <<bank, cache, deaths>>, Lasts,
           next # Idle =>
               /\ next.at \in {"begun", "find", "look", "test"}
               /\ ~next.restless => /\ Settled /\ (next.read => next.excluded = reported)
                                    /\ Made(next, attempt')
    PROVE  ShownInv'
  <1>1. next # Idle => Fits(next)
    BY DEF Fits, Knows, Builds
  <1>2. deaths = 0 /\ Settled /\ cache'[updatedAt].some => cache'[updatedAt].shows = Current
    BY DEF ShownInv, CacheCurrent
  <1> QED
    BY <1>1, <1>2, ShownMove

\* Fields of what an arriving request and one that sends an attempt become.
LEMMA ArriveShown ==
    ASSUME TypeOK, ShownInv, NEW r \in Requests, NEW next \in Asked, Arrive(r, next),
           next.at \in {"begun", "test"}, ~next.read, ~next.created
    PROVE  ShownInv'
  <1> DEFINE new == [next EXCEPT !.gone = gone, !.restless = \E q \in Questions : review[q] # "none"]
  <1>1. /\ new \in Asked /\ new.at = next.at /\ ~new.read /\ ~new.created
        /\ new.restless = \E q \in Questions : review[q] # "none"
    BY DEF TypeOK, Asked
  <1>2. Go(r, new) /\ UNCHANGED <<bank, cache, deaths>> /\ Lasts
    BY DEF Arrive, Lasts
  <1>3. ~new.restless => Settled
    BY <1>1 DEF Settled
  <1> HIDE DEF new
  <1> QED
    BY <1>1, <1>2, <1>3, ShownQuiet DEF Made

LEMMA SendsShown ==
    ASSUME TypeOK, ShownInv, NEW r \in Requests, request[r] \in Asked, Active(r),
           NEW i \in Nat, NEW created \in BOOLEAN, Sends(r, i, created),
           UNCHANGED <<bank, cache, deaths>>, Lasts,
           created /\ ~request[r].restless => i \in DOMAIN attempt' /\ attempt'[i].excluded = reported
    PROVE  ShownInv'
  <1>1. PICK begun \in Asked : begun = Begun
    BY BegunTyped
  <1>2. PICK next : next = [begun EXCEPT !.at = "test", !.id = i, !.created = created,
                                     !.gone = request[r].gone, !.restless = request[r].restless]
    OBVIOUS
  <1>3. /\ next.at = "test" /\ next.read = begun.read /\ next.id = i
        /\ next.created = created /\ next.restless = request[r].restless
    BY <1>2 DEF Asked
  <1>4. next \in Asked /\ Go(r, next)
    BY <1>1, <1>2, SendsTyped DEF Sends
  <1>5. ~next.read
    BY <1>1, <1>3 DEF Begun
  <1>6. ~next.restless => Settled
    BY <1>3 DEF ShownInv, KnowsStill
  <1> QED
    BY <1>3, <1>4, <1>5, <1>6, ShownQuiet DEF Made

\* A request that no review disturbed, in terms of its record.
LEMMA Undisturbed ==
    ASSUME ShownInv, NEW r \in Requests, Active(r), ~request[r].restless
    PROVE  Settled /\ Knows(request[r]) /\ Made(request[r], attempt)
  BY DEF ShownInv, KnowsStill

LEMMA StartShown ==
    ASSUME TypeOK, ShownInv, NEW r \in Requests,
           Start(r) \/ (\E i \in 1..MaxAttempts : Open(r, i)) \/ CheckAccess(r) \/ FindCurrent(r)
    PROVE  ShownInv'
  <1>1. CASE Start(r)
    BY <1>1, BegunTyped, ArriveShown DEF Start, Begun
  <1>2. CASE \E i \in 1..MaxAttempts : Open(r, i)
    <2>1. PICK i \in 1..MaxAttempts : Open(r, i)
      BY <1>2
    <2>2. i \in Nat
      OBVIOUS
    <2>3. PICK begun \in Asked : begun = Begun
      BY BegunTyped
    <2>4. PICK next : next = [begun EXCEPT !.at = "test", !.id = i]
      OBVIOUS
    <2>5. next \in Asked /\ next.at = "test" /\ next.read = begun.read /\ next.created = begun.created
      BY <2>2, <2>4 DEF Asked, States
    <2>6. ~begun.read /\ ~begun.created
      BY <2>3 DEF Begun
    <2>7. Arrive(r, next)
      BY <2>1, <2>3, <2>4 DEF Open
    <2> QED
      BY <2>5, <2>6, <2>7, ArriveShown
  <1>3. CASE CheckAccess(r)
    <2>1. /\ request[r] \in Asked /\ Active(r) /\ request[r].at = "begun"
          /\ UNCHANGED <<bank, cache, deaths>> /\ Lasts
      BY <1>3, AskedWhenActive DEF CheckAccess, States, Lasts
    <2>2. PICK next : next = [request[r] EXCEPT !.at = "find"]
      OBVIOUS
    <2>3. /\ next \in Asked /\ next.at = "find" /\ next.read = request[r].read /\ next.excluded = request[r].excluded
          /\ next.created = request[r].created /\ next.id = request[r].id /\ next.restless = request[r].restless
      BY <2>1, <2>2 DEF Asked, States
    <2>4. Go(r, next) \/ Go(r, Idle)
      BY <1>3, <2>2 DEF CheckAccess, Step
    <2>5. CASE Go(r, Idle)
      BY <2>1, <2>5, ShownQuiet
    <2>6. CASE Go(r, next)
      <3>1. ~next.restless => /\ Settled /\ (next.read => next.excluded = reported)
                              /\ Made(next, attempt')
        BY <1>3, <2>1, <2>3, Undisturbed DEF Knows, Made, CheckAccess
      <3> QED
        BY <2>1, <2>3, <2>6, <3>1, ShownQuiet
    <2> QED
      BY <2>4, <2>5, <2>6
  <1>4. CASE FindCurrent(r)
    <2>1. /\ request[r] \in Asked /\ Active(r)
          /\ UNCHANGED <<bank, cache, deaths>>
      BY <1>4, AskedWhenActive DEF FindCurrent, States
    <2>2. /\ \/ UNCHANGED attempt
             \/ \E i \in InProgress : attempt' = [attempt EXCEPT ![i].status = "submitted"]
          /\ Step(r, "look") \/ \E i \in InProgress : Sends(r, i, FALSE)
      BY <1>4 DEF FindCurrent
    <2>3. Lasts
      BY <2>2, SubmitLasts DEF Lasts
    <2>4. CASE Step(r, "look")
      <3>1. PICK next : next = [request[r] EXCEPT !.at = "look"]
        OBVIOUS
      <3>2. /\ next \in Asked /\ next.at = "look" /\ next.read = request[r].read /\ next.excluded = request[r].excluded
            /\ next.created = request[r].created /\ next.id = request[r].id /\ next.restless = request[r].restless
        BY <2>1, <3>1 DEF Asked, States
      <3>3. Go(r, next)
        BY <2>4, <3>1 DEF Step
      <3>4. ~next.restless => /\ Settled /\ (next.read => next.excluded = reported)
                              /\ Made(next, attempt')
        BY <2>1, <2>3, <3>2, Undisturbed DEF Knows, Made, Lasts
      <3> QED
        BY <2>1, <2>3, <3>2, <3>3, <3>4, ShownQuiet
    <2>5. CASE \E i \in InProgress : Sends(r, i, FALSE)
      <3>1. \A i \in InProgress : i \in Nat
        BY DEF InProgress, TypeOK, Attempts
      <3> QED
        BY <2>1, <2>3, <2>5, <3>1, SendsShown
    <2> QED
      BY <2>2, <2>4, <2>5
  <1> QED
    BY <1>1, <1>2, <1>3, <1>4

LEMMA LookShown ==
    ASSUME TypeOK, ShownInv, NEW r \in Requests, ReadEarlier(r) \/ ReadReported(r) \/ Create(r)
    PROVE  ShownInv'
  <1>1. /\ request[r] \in Asked /\ Active(r) /\ request[r].at = "look"
        /\ UNCHANGED <<bank, cache, deaths>>
    BY AskedWhenActive DEF ReadEarlier, ReadReported, Create, States
  <1>2. CASE ReadEarlier(r)
    <2>1. PICK next : next = [request[r] EXCEPT !.earlier = IF attempt = <<>> THEN "no" ELSE "yes"]
      OBVIOUS
    <2>2. /\ next \in Asked /\ next.at = "look" /\ next.read = request[r].read /\ next.excluded = request[r].excluded
          /\ next.created = request[r].created /\ next.id = request[r].id /\ next.restless = request[r].restless
      BY <1>1, <2>1 DEF Asked
    <2>3. Go(r, next) /\ Lasts /\ UNCHANGED attempt
      BY <1>2, <2>1 DEF ReadEarlier, Lasts
    <2>4. ~next.restless => /\ Settled /\ (next.read => next.excluded = reported)
                            /\ Made(next, attempt')
      BY <1>1, <2>2, <2>3, Undisturbed DEF Knows, Made
    <2> QED
      BY <1>1, <2>2, <2>3, <2>4, ShownQuiet
  <1>3. CASE ReadReported(r)
    <2>1. PICK next : next = [request[r] EXCEPT !.read = TRUE, !.excluded = reported]
      OBVIOUS
    <2>2. /\ next \in Asked /\ next.at = "look" /\ next.excluded = reported
          /\ next.created = request[r].created /\ next.id = request[r].id /\ next.restless = request[r].restless
      BY <1>1, <2>1 DEF Asked, TypeOK
    <2>3. Go(r, next) /\ Lasts /\ UNCHANGED attempt
      BY <1>3, <2>1 DEF ReadReported, Excludes, Lasts
    <2>4. ~next.restless => Settled /\ Made(next, attempt')
      BY <1>1, <2>2, <2>3, Undisturbed DEF Made
    <2> QED
      BY <1>1, <2>2, <2>3, <2>4, ShownQuiet
  <1>4. CASE Create(r)
    <2>1. CASE InProgress # {}
      <3>1. PICK i \in InProgress : Sends(r, i, FALSE) /\ UNCHANGED attempt
        BY <1>4, <2>1 DEF Create
      <3>2. i \in Nat /\ Lasts
        BY <3>1 DEF InProgress, TypeOK, Attempts, Lasts
      <3> QED
        BY <1>1, <3>1, <3>2, SendsShown
    <2>2. CASE InProgress = {}
      <3>1. PICK new : new = [status |-> "in_progress", firstAttempt |-> IsFirst(request[r].earlier),
                              excluded |-> request[r].excluded]
        OBVIOUS
      <3>2. attempt' = Append(attempt, new) /\ Sends(r, Len(attempt) + 1, TRUE) /\ request[r].read
        BY <1>4, <2>2, <3>1 DEF Create
      <3>3. attempt \in Seq(Attempt) /\ Len(attempt) + 1 \in Nat
        BY DEF TypeOK, Attempts
      <3>4. /\ DOMAIN attempt' = 1..(Len(attempt) + 1) /\ attempt'[Len(attempt) + 1] = new
            /\ \A i \in DOMAIN attempt : i \in DOMAIN attempt' /\ attempt'[i] = attempt[i]
        BY <3>2, <3>3
      <3>5. Lasts
        BY <3>4 DEF Lasts
      <3>6. Len(attempt) + 1 \in DOMAIN attempt'
        BY <3>3, <3>4
      <3>7. ~request[r].restless => new.excluded = reported
        BY <1>1, <3>1, <3>2, Undisturbed DEF Knows
      <3> QED
        BY <1>1, <3>2, <3>3, <3>4, <3>5, <3>6, <3>7, SendsShown
    <2> QED
      BY <2>1, <2>2
  <1> QED
    BY <1>2, <1>3, <1>4

LEMMA ReadShown ==
    ASSUME TypeOK, VersionsSeen, ShownInv, NEW r \in Requests,
           ReadTest(r) \/ ReadCache(r) \/ ReadQuestions(r) \/ StorePaper(r) \/ Send(r)
    PROVE  ShownInv'
  <1>1. /\ request[r] \in Asked /\ Active(r)
        /\ UNCHANGED <<bank, attempt, deaths>> /\ Lasts
    BY AskedWhenActive DEF ReadTest, ReadCache, ReadQuestions, StorePaper, Send, States, Lasts
  <1>2. deaths = 0 /\ Settled /\ UNCHANGED cache /\ cache'[updatedAt].some => cache'[updatedAt].shows = Current
    BY DEF ShownInv, CacheCurrent
  \* What the request knew it still knows, if the step only changes at, version and paper.
  <1>3. ASSUME NEW next \in Asked, ~next.restless,
               next.read = request[r].read, next.excluded = request[r].excluded,
               next.created = request[r].created, next.id = request[r].id, next.restless = request[r].restless
        PROVE  /\ Settled /\ Made(next, attempt') /\ (next.read => next.excluded = reported)
               /\ Holding(r) => request[r].version = updatedAt
    BY <1>1, <1>3, Undisturbed DEF Knows, Made, Holding
  <1>4. CASE ReadTest(r)
    <2>1. PICK next : next = [request[r] EXCEPT !.at = "cache", !.version = updatedAt]
      OBVIOUS
    <2>2. updatedAt \in Nat
      BY StartingAssumption DEF TypeOK, Versions
    <2>3. /\ next \in Asked /\ next.at = "cache" /\ next.version = updatedAt
          /\ next.read = request[r].read /\ next.excluded = request[r].excluded
          /\ next.created = request[r].created /\ next.id = request[r].id /\ next.restless = request[r].restless
      BY <1>1, <2>1, <2>2 DEF Asked, States
    <2>4. Go(r, next) /\ UNCHANGED cache
      BY <1>4, <2>1 DEF ReadTest
    <2>5. Fits(next)
      BY <1>3, <2>3 DEF Fits, Knows, Builds
    <2> QED
      BY <1>1, <1>2, <2>3, <2>4, <2>5, ShownMove
  <1>5. CASE ReadCache(r) /\ cache[request[r].version].some
    <2>1. Holding(r) /\ request[r].version \in Versions
      BY <1>5, VersionHeld DEF ReadCache, Holding
    <2>2. PICK shows \in SUBSET Questions : shows = cache[request[r].version].shows
      BY <2>1 DEF TypeOK, Papers
    <2>3. PICK next : next = [request[r] EXCEPT !.at = "answer", !.version = 0, !.paper = shows]
      OBVIOUS
    <2>4. /\ next \in Asked /\ next.at = "answer" /\ next.paper = shows
          /\ next.read = request[r].read /\ next.excluded = request[r].excluded
          /\ next.created = request[r].created /\ next.id = request[r].id /\ next.restless = request[r].restless
      BY <1>1, <2>3 DEF Asked, States
    <2>5. Go(r, next) /\ UNCHANGED cache
      BY <1>5, <2>2, <2>3 DEF ReadCache
    <2>6. deaths = 0 /\ Settled /\ request[r].version = updatedAt => shows = Current
      BY <1>5, <2>2 DEF ShownInv, CacheCurrent
    <2>7. Fits(next)
      BY <1>3, <2>1, <2>4, <2>6 DEF Fits, Knows, Builds
    <2> QED
      BY <1>1, <1>2, <2>4, <2>5, <2>7, ShownMove
  <1>6. CASE ReadCache(r) /\ ~cache[request[r].version].some
    <2>1. PICK next : next = [request[r] EXCEPT !.at = "questions"]
      OBVIOUS
    <2>2. /\ next \in Asked /\ next.at = "questions" /\ next.version = request[r].version
          /\ next.read = request[r].read /\ next.excluded = request[r].excluded
          /\ next.created = request[r].created /\ next.id = request[r].id /\ next.restless = request[r].restless
      BY <1>1, <2>1 DEF Asked, States
    <2>3. Go(r, next) /\ UNCHANGED cache /\ Holding(r)
      BY <1>6, <2>1 DEF ReadCache, Step, Holding
    <2>4. Fits(next)
      BY <1>3, <2>2, <2>3 DEF Fits, Knows, Builds
    <2> QED
      BY <1>1, <1>2, <2>2, <2>3, <2>4, ShownMove
  <1>7. CASE ReadQuestions(r)
    <2>1. PICK next : next = [request[r] EXCEPT !.at = "store", !.paper = Current]
      OBVIOUS
    <2>2. /\ next \in Asked /\ next.at = "store" /\ next.version = request[r].version /\ next.paper = Current
          /\ next.read = request[r].read /\ next.excluded = request[r].excluded
          /\ next.created = request[r].created /\ next.id = request[r].id /\ next.restless = request[r].restless
      BY <1>1, <2>1 DEF Asked, States, Current
    <2>3. Go(r, next) /\ UNCHANGED cache /\ Holding(r)
      BY <1>7, <2>1 DEF ReadQuestions, Holding, Current
    <2>4. Fits(next)
      BY <1>3, <2>2, <2>3 DEF Fits, Knows, Builds
    <2> QED
      BY <1>1, <1>2, <2>2, <2>3, <2>4, ShownMove
  <1>8. CASE StorePaper(r)
    <2>1. PICK next : next = [request[r] EXCEPT !.at = "answer", !.version = 0]
      OBVIOUS
    <2>2. /\ next \in Asked /\ next.at = "answer" /\ next.paper = request[r].paper
          /\ next.read = request[r].read /\ next.excluded = request[r].excluded
          /\ next.created = request[r].created /\ next.id = request[r].id /\ next.restless = request[r].restless
      BY <1>1, <2>1 DEF Asked, States
    <2>3. /\ Go(r, next) /\ Holding(r) /\ request[r].at = "store"
          /\ cache' = [cache EXCEPT ![request[r].version] = Paper(request[r].paper)]
      BY <1>8, <2>1 DEF StorePaper, Holding
    <2>4. deaths = 0 /\ Settled /\ request[r].version = updatedAt => request[r].paper = Current
      BY <1>1, <2>3 DEF ShownInv, CacheCurrent, Builds
    <2>5. Fits(next)
      BY <1>3, <2>2, <2>3, <2>4 DEF Fits, Knows, Builds
    <2>6. deaths = 0 /\ Settled /\ cache'[updatedAt].some => cache'[updatedAt].shows = Current
      BY <2>3, <2>4 DEF ShownInv, CacheCurrent, TypeOK, Paper
    <2> QED
      BY <1>1, <2>2, <2>3, <2>5, <2>6, ShownMove
  <1>9. CASE Send(r)
    BY <1>1, <1>2, <1>9, ShownMove DEF Send
  <1> QED
    BY <1>4, <1>5, <1>6, <1>7, <1>8, <1>9, Zenon DEF ReadCache

LEMMA ReviewShown ==
    ASSUME TypeOK, VersionsSeen, ShownInv, NEW q \in Questions,
           Pull(q) \/ Restore(q) \/ RefreshPapers(q) \/ DieInReview(q)
    PROVE  ShownInv'
  \* A step of a review disturbs every request in progress.
  <1>1. ASSUME NEW removed, Disturbed(removed) PROVE KnowsStill'
    <2> SUFFICES ASSUME NEW r \in Requests, Active(r)' PROVE request'[r].restless
      BY DEF KnowsStill
    <2>1. Active(r) /\ request[r] \in Asked
      BY <1>1, DisturbedEffect, ActiveMeansAt DEF Active
    <2>2. request'[r] = [request[r] EXCEPT !.restless = TRUE, !.gone = @ \ removed]
      BY <1>1, <2>1, DisturbedEffect
    <2> QED
      BY <2>1, <2>2 DEF Asked
  <1>2. CASE Pull(q) \/ Restore(q)
    <2>1. review'[q] # "none" /\ UNCHANGED deaths
      BY <1>2 DEF Pull, Restore, TypeOK
    <2>2. KnowsStill'
      BY <1>1, <1>2 DEF Pull, Restore
    <2> QED
      BY <2>1, <2>2 DEF ShownInv, CacheCurrent, Settled
  <1>3. CASE RefreshPapers(q)
    <2>1. Disturbed({}) /\ UNCHANGED deaths
      BY <1>3 DEF RefreshPapers
    <2>2. updatedAt \in Nat /\ updatedAt' = updatedAt + 1 /\ updatedAt' \in Versions
      BY <1>3, StartingAssumption DEF RefreshPapers, TypeOK, Versions, Touched
    <2>3. cache'[updatedAt'] = NoPaper
      <3>1. cache[updatedAt'] = NoPaper
        BY <2>2 DEF VersionsSeen
      <3> QED
        BY <1>3, <2>2, <3>1 DEF RefreshPapers, Versions
    <2>4. ASSUME NEW s \in Requests, Active(s)' PROVE Builds(request[s])'
      <3>1. SUFFICES ASSUME request'[s].at = "store" PROVE request'[s].version # updatedAt'
        BY DEF Builds
      <3>2. Active(s) /\ Holding(s) /\ request'[s].version = request[s].version
        BY <2>1, <2>4, <3>1, DisturbedFields DEF Holding
      <3>3. request[s].version \in 1..updatedAt
        BY <3>2 DEF VersionsSeen
      <3> QED
        BY <2>2, <3>2, <3>3
    <2>5. KnowsStill'
      BY <1>1, <2>1
    <2> QED
      BY <2>1, <2>3, <2>4, <2>5 DEF ShownInv, CacheCurrent, NoPaper
  <1>4. CASE DieInReview(q)
    <2>1. /\ deaths' = deaths + 1 /\ UNCHANGED <<attempt, reported, updatedAt, request>>
          /\ review' = [review EXCEPT ![q] = "none"]
      BY <1>4 DEF DieInReview, history
    <2>2. deaths' \in Nat /\ deaths' # 0
      BY <2>1 DEF ShownInv
    <2>3. Settled => Settled'
      BY <2>1 DEF Settled, TypeOK
    <2>4. KnowsStill'
      BY <2>1, <2>2, <2>3 DEF ShownInv, KnowsStill, Knows, Made, Active
    <2> QED
      BY <2>2, <2>4 DEF ShownInv, CacheCurrent
  <1> QED
    BY <1>2, <1>3, <1>4

LEMMA ShownStep == TypeOK /\ VersionsSeen /\ ShownInv /\ [Next]_vars => ShownInv'
  <1> SUFFICES ASSUME TypeOK, VersionsSeen, ShownInv, [Next]_vars PROVE ShownInv'
    OBVIOUS
  <1>1. ASSUME UNCHANGED <<bank, request, deaths>>, Lasts,
               cache'[updatedAt] \in {cache[updatedAt], NoPaper}
        PROVE  ShownInv'
    <2>1. CacheCurrent'
      BY <1>1 DEF ShownInv, CacheCurrent, Settled, Current, Builds, Active, NoPaper, bank
    <2>2. ASSUME NEW r \in Requests, Active(r), ~request[r].restless
          PROVE  Settled' /\ Knows(request[r])' /\ Made(request[r], attempt)'
      <3>1. Settled /\ Knows(request[r]) /\ Made(request[r], attempt)
        BY <2>2, Undisturbed
      <3> QED
        BY <1>1, <3>1 DEF Settled, Knows, Made, Lasts, Current, bank
    <2> QED
      BY <1>1, <2>1, <2>2 DEF ShownInv, KnowsStill, Active
  <1>2. ASSUME NEW i \in 1..MaxAttempts, Submit(i) PROVE ShownInv'
    <2>1. Lasts
      BY <1>2, SubmitLasts DEF Submit
    <2> QED
      BY <1>1, <1>2, <2>1 DEF Submit
  <1>3. ASSUME NEW v \in 1..MaxUpdates, Evict(v) PROVE ShownInv'
    BY <1>1, <1>3 DEF Evict, Lasts, TypeOK, Versions
  <1>4. CASE UNCHANGED vars
    BY <1>1, <1>4 DEF vars, Lasts
  <1> QED
    BY <1>2, <1>3, <1>4, StartShown, LookShown, ReadShown, ReviewShown DEF Next, Serve
-----------------------------------------------------------------------------
\* What both invariants rest on, together: the type needs to know which versions were seen.
Inv == TypeOK /\ FirstInv /\ PaperInv

LEMMA Invariant == Spec => []Inv
  <1>1. Init => Inv
    BY TypeInit, FirstInit, PaperInit DEF Inv
  <1>2. Inv /\ [Next]_vars => Inv'
    BY TypeStep, FirstStep, PaperStep DEF Inv, PaperInv
  <1> QED
    BY <1>1, <1>2, PTL DEF Spec

\* Whatever requests, reviews, deaths and evictions happen, the attempts, the papers in the cache
\* and what the requests of startAttempt and paperJson know keep their form.
THEOREM TypeCorrect == Spec => []TypeOK
  <1>1. Inv => TypeOK
    BY DEF Inv
  <1> QED
    BY <1>1, Invariant, PTL

\* A student who sends one request at a time never has two ranked attempts of a test
\* (startAttempt), however many attempts are begun and submitted.
THEOREM FirstOnceInvariant == Spec => []FirstOnce
  <1>1. Inv => FirstOnce
    <2> SUFFICES ASSUME Inv, ~overlapped PROVE Cardinality(First) <= 1
      BY DEF FirstOnce
    <2>1. First \subseteq {1}
      BY DEF Inv, FirstInv, OnlyFirst, First
    <2>2. IsFiniteSet({1}) /\ Cardinality({1}) = 1
      BY FS_Singleton
    <2> QED
      BY <2>1, <2>2, FS_Subset
  <1> QED
    BY <1>1, Invariant, PTL

\* No paper that is asked for after a question's pull was finished shows the question
\* (pullIfOverReported, refreshPapers against paperJson), for any number of requests that build
\* and store papers at once, and with reviews that die half way.
THEOREM FreshPaperInvariant == Spec => []FreshPaper
  <1>1. Inv => FreshPaper
    <2> SUFFICES ASSUME Inv, NEW r \in Requests, request[r].at = "answer" PROVE request[r].paper \cap request[r].gone = {}
      BY DEF FreshPaper
    <2>1. Active(r)
      BY AskedWhenActive DEF Inv, States
    <2> QED
      BY <2>1 DEF Inv, PaperInv, AnswerClean
  <1> QED
    BY <1>1, Invariant, PTL
\* The paper of a newly created attempt shows exactly the questions that will be scored (startAttempt
\* reads the flags, paperJson the cache or the flags again), for any number of requests, unless a
\* review was under way meanwhile or a process died in one.
THEOREM ShownIsScoredInvariant == Spec => []ShownIsScored
  <1>1. Init => ShownInv
    BY ShownInit
  <1>2. Inv /\ ShownInv /\ [Next]_vars => ShownInv'
    BY ShownStep DEF Inv, PaperInv
  <1>3. Inv /\ ShownInv => ShownIsScored
    <2> SUFFICES ASSUME Inv, ShownInv, NEW r \in Requests, request[r].at = "answer",
                        request[r].created, ~request[r].restless, deaths = 0
                 PROVE  request[r].paper = Questions \ attempt[request[r].id].excluded
      BY DEF ShownIsScored
    <2>1. Active(r)
      BY AskedWhenActive DEF Inv, States
    <2> QED
      BY <2>1, Undisturbed DEF Knows, Made, Current
  <1> QED
    BY <1>1, <1>2, <1>3, Invariant, PTL DEF Spec
=============================================================================
