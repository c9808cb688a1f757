# mockprep server: a TLA+ model

This project specifies the mockprep server (API, background worker, shared core): taking a test,
scoring it, paying for it, signing in, and making the tests. TLC checks the specifications on
small instances; TLAPS proves the safety properties that matter most for every value of the
constants.

Paths below are relative to the repository root, without the leading `src/` that PROJECT.json
uses. To run: `tlc -config StoreSolo.cfg MCAttemptStore`, `tlapm ScoringProofs.tla`.

## 1. The system

Clients talk to an Express API (`apps/api`). Long work goes through BullMQ queues in Redis to
workers (`apps/worker`), which may run in the API's process or beside it, several at once. State
is in MongoDB (documents; transactions only for payments) and in Redis (live answers, rank sets,
codes, caches, queues). Node interleaves requests at every `await`, and processes run in
parallel: between two commands to MongoDB or Redis anything can happen.

| Component | State | Operations | Interacts with |
| --- | --- | --- | --- |
| Live answer store (`packages/core/src/attemptStore.ts`, `apps/api/src/routes/attempts.ts`) | Redis hash `attempt:{id}` (`meta`, `a:{question}`), set `attempts:dirty`; the attempt document; the cache `paper:` | start, open, save answers, next section, submit; flush and auto-submit by the worker every 30 s | score queue, reports |
| Scoring (`attemptStore.ts`, `ranks.ts`, `apps/worker/src/jobs/attempts.ts`) | attempt's status, result, `scoredAt`; Redis set `rank:{test}`; the questions' keys | score job, rescore job, key change, result page rebuilding ranks | store, admin tests |
| Scoring rules (`scoring.ts`) | none | `scoreAttempt` and its helpers | scoring |
| Payments (`packages/core/src/payments.ts`, `apps/api/src/services/payments.ts`, routes) | orders, entitlements, invoices, counters, coupons, users' referrals, processed events | quote, order, verify, webhook, refund, referral | provider, invoice queue |
| Invoice e-mail (`apps/worker/src/jobs/invoice.ts`) | `emailedAt` | send, then mark | payments |
| Sessions (`apps/api/src/services/sessions.ts`) | session documents with two token hashes | create (device limit), rotate (grace window, reuse detection), revoke | auth routes |
| One-time codes, rate limits (`services/otp.ts`, `rateLimit.ts`) | Redis keys with expiry | issue, check | auth routes |
| Uploads and ingest (`routes/admin/uploads.ts`, `ingest/pipeline.ts`) | upload's status and run; the test and questions of an upload | create, retry, run, requeue at start | tests |
| Text parser, answer keys, AI extraction (`ingest/textParser.ts`, `keyParser.ts`, `sections.ts`, `aiExtractor.ts`) | none | pure functions between the stages of a run | ingest |
| Tests and question versions (`routes/admin/tests.ts`, `questions.ts`, `services/questions.ts`) | test's status; question's version, `isLatest` | publish, unpublish, edit, approve, delete | attempts, ingest, reports |
| Builder and import (`services/testBuilder.ts`, `questionImport.ts`) | none | pick questions for a section; read the rows of a file | tests |
| Error reports (`services/reports.ts`) | open reports, flag `reported` | report, pull, restore | questions, papers |
| Analysis and statistics (`packages/core/src/analysis.ts`, `questionStats.ts`) | the flags of questions | analysis of an attempt, benchmarks, nightly statistics | scoring |
| Catalogue CRUD, storage, e-mail, audit, health, types | one document or none at a time | CRUD and I/O | |

### What is hard, and what makes each component correct

* **Live answers.** A save reads timestamps and writes answers in two commands; a flush, a
  submission and a rebuilt hash all copy answers between two databases; requests die half way;
  Redis may lose the hash. Correct when: newer answers win, saved answers reach the submitted
  document, the document is frozen by the one submission that wins, and a student who left is
  submitted.
* **Starting.** The cache of papers, the flag of a question and the new attempt are read and
  written apart. Correct when: a student has one ranked attempt, a pulled question is in no later
  paper, and the paper shown is the paper scored.
* **Scoring.** BullMQ delivers a job again when its worker stalled, and the first worker may
  still be at it. Correct when: one run scores an attempt at a time, a corrected key reaches
  every result, and only scored first attempts are ranked.
* **Payments.** Webhooks come late, twice, in any order, and race the browser's verify and the
  admin's refund. Correct when: every transition and its effects happen exactly once, each stands on
  money that the provider moved or signed for, numbers have no gap.
* **Sessions and codes.** Read-modify-write on one document or key. Correct when: an honest
  browser stays signed in, a revoked session stays revoked, a code takes few guesses.
* **Ingest.** Delete, insert and create are separate steps. Correct when: an upload ends ready or
  failed, with one test, and a published test is never replaced.
* **Publishing.** A test's questions are checked, then it is saved; a save writes over what came
  meanwhile. Correct when: a published test stays complete and frozen, and a pull survives every save
  that does not write the fields it wrote.
* **Rules.** Boundaries: halves, the last second of a section, the end of a chunk, a copied row.

PROJECT.json lists every such hazard with its line.

## 2. The modules

| Module | What it is |
| --- | --- |
| `AttemptLifecycle` | what one attempt promises: answers may change while in progress, one submission freezes them, one score job at most |
| `AttemptStore` | the store of one attempt, its requests and workers; implements `AttemptLifecycle` |
| `Starting` | the creation of attempts and the papers they are sent with, against pulls and restores |
| `OrderLifecycle` | what one order promises: paid once with access and invoice, refunded once with their loss and a credit note |
| `Payments` | checkout, verify, webhooks, refunds, referral; implements `OrderLifecycle` |
| `Scoring` | score and rescore jobs, key changes, ranks |
| `Sessions` | sign-in, rotation, reuse, logout, the browser's cookie |
| `SignIn` | one-time codes, their limits, the account they lead to |
| `Publishing` | questions and their versions, tests, reports |
| `Ingest` | uploads, their queue, the stages of a run, the replacement of an earlier run |
| `ClockedAttempt` | the clock of one attempt with locked sections, to the second, under requests that look and write late |
| `Pricing` (`Prices`: what prices promise), `ScoringRules`, `SectionClock`, `PaperText`, `KeyRules`, `AiExtract`, `Builder`, `Import`, `Analysis`, `StudentViews` | the pure rules |
| `Cases`, `Absent` | what the rules' modules share: a case is one input of one rule; `None` |
| `MCRules` | one machine whose states are the inputs of the rules, or an attempt's clock; an invariant per rule |
| `MCAttemptStore`, `MCStarting`, `MCSessions`, `MCPublishing` | instances for TLC: symmetry, sections of the questions |
| `AttemptStoreProofs`, `PaymentsProofs`, `ScoringProofs`, `StartingProofs`, `SessionsProofs`, `SignInProofs`, `PublishingProofs`, `IngestProofs` | theorems (those about prices are in `PaymentsProofs`, about `ScoringRules` in `ScoringProofs`, about `ClockedAttempt` in `AttemptStoreProofs`, about `Import` in `PublishingProofs`) |

**Grain.** One step is one command to MongoDB or Redis, or a decision between two of them; a
`MULTI` and a MongoDB transaction are one step. A command that fails and a process that dies are
steps too. Values are abstracted to what the properties tell apart: an answer is its client
timestamp `at`, a score is the version of the key it was computed with, a token the number of its
secret, a question's content a number, a line of a paper what the parser's expressions see in it.

**AttemptStore.** `proc` is the program counter and the local variables of every request and
worker. `HgetMeta`..`WriteBackMeta` are `loadMeta`; `OwnMeta` is `ownMeta`; `SaveAnswers`,
`NextSection`, `SubmitRequest` and `OpenAttempt` are the handlers up to their first command, and
a save goes on with `mergeAnswers` (`ReadStored`, `StoreAnswers`); `CollectAnswers`..`DropHash`
are `submitAttempt`, `EnqueueScore` its caller; `PopDirty`..`FindOverdue` are the housekeeping
job. `saved`, `owed` and `late` are history variables. Section timers are abstracted: a load may
find any number of further sections timed out, and an answer to a finished section may be in time
or not (their seconds are in `ClockedAttempt`). `over` stands for "past the deadline and its grace".

**ClockedAttempt.** `timing` is the attempt's meta in Redis. `Look` is `ownMeta`, which advances the
meta, and `Write` its late `writeMeta`, or the death before it; `SubmitSection` is the next-section
handler, and `Tick` any number of seconds. `unseen` is history: the meta as it would be if nobody had
looked. A test's times are what is stored: zero and missing ones and times beyond the total, too.
`Saves` is what the answers' handler accepts, with the grace of ten seconds. A submission of a section
comes while no look is under way; what a late write does to it is in `AttemptStore`.

**Starting.** `Start`..`Create` are `startAttempt`: access, the attempt in progress, the two reads
of `Promise.all` in either order, and the insertion that the unique index may refuse. `ReadTest`..
`Send` are `paperJson`: the test's `updatedAt`, the cache under it, the questions, the cache again.
`Pull`, `Restore` and `RefreshPapers` are `services/reports.ts` as a paper sees them. `gone` is
history: the questions whose pull was finished. Papers under a key that no request holds are
dropped from the state: `updatedAt` never returns to them.

**Payments.** The transactions `FulfilOrder`, `FailOrder` and `CompleteRefund` are operators used
by the steps that commit them. `checkout` and `desk` hold how far each order's checkout and
refund request got. The provider is external (`gateway`, `events`): it answers or times out,
authorizes, captures right and wrong amounts, refunds whole or in part, and repeats webhooks in any
order. `Verify` looks at the signature alone (`Signed`), as the route does: the payment behind it may be
authorized only, or of another amount. A coupon may take off the whole price (`CouponIsFree`).
An order has at most one captured payment, and is placed once.

**Scoring.** `job` and the worker slots `proc` are BullMQ as the worker's configuration uses it
(three attempts, stalled once, a second job with the same id not added). `ClaimAttempt`,
`ReadKey`, `WriteScore`, `AddToRanks` are `scoreSubmittedAttempt`; `OpenCursor`..`RescoreRanks`
are `rescoreTest`, in as many processes as `Rescorers` has (each takes one rescore at a time; a rescore whose
lock expires while it goes on is not modelled); `MissRank`, `FindRanked`, `RebuildRanks` a result page's `getRank`;
`ChangeKey`..`EnqueueRescore` the admin's request. A change of several questions is a new version
at its last save. A claim ages only when no run holds it: a run takes less than five minutes.

**Sessions.** `SignIn`, `Evict`, `Save` are `create` (find the excess sessions, revoke them, save);
`Read`, then `RevokeReused` or `Rotate`, are `rotate`: mongoose's `save` writes only the fields that
were changed, over the document as it is by then. `CheckUser`, `Revoke` are the rest of
`refreshSession` and `endSession`. The browser takes its cookie from the answer, which may be lost.

**SignIn.** `Send`, `Limit`, `Store`, `Delivered`/`NotDelivered` are `issue`; `Check`, `Count`,
`TooMany`, `Accept` are `check`; `Find` and `Create` the verify handler. Keys expire at any time.

**Publishing.** A request reads in its first step and writes each document in a later one.
A question's `flags` are one list, as in the code: students' `reported` beside its own. `SaveQuestion`
writes the fields that its request changed, each whole (`Saved`), the flags as the request recomputed
them from what it had read (`FlagsAfterEdit`, `Approved`, `AnswerKey`); `CreateVersion`, `Demote`, `MoveDrafts`
are `saveNewVersion`'s three writes; `Put`, `Fill`, `Publish`, `Unpublish`, `AnswerKey` are the tests'
handlers; `CountReports`, `Pull` the third report; `Resolve`, `Restore`, `Unflag`, `ApproveRestored` the
admin's answer. A request may die before each of its writes. `overlapped` is history: whether a
request of an admin began while another was in progress.

**Ingest.** `Advance`..`SetFailed` are the stages of `runIngest` and `save`: the earlier run's test is
looked up, its questions and the test deleted, the new ones inserted, the test created, the upload
set ready. `Throw` is an error inside the run's `try`, `Abort` one before it or in its `catch`: the job is
then kept as failed, and its id is known to the queue (`lost`). `Stall` is BullMQ's lock that expires (its worker died, or is slow and goes on), `Restart`
the requeueing in `startWorkers`, `Retry`, `SaveRetry`, `Enqueue` the admin's retry.

**The rules** are operators, translated function by function; the modules' comments name the
files. Their inputs keep what the code tells apart: marks in thousandths so that the rounding to
hundredths shows, times in seconds, prices in paise, lines as records with a kind and a name, headings
as sequences of letters. Marks are doubles in the code: which exact halves of a hundredth `round2`
takes down is a constant (`Low`; the run has the real ones, such as 1.005), and the proofs hold for any.

**How they meet.** `AttemptStore` ends with `EnqueueScore`, which `Scoring` takes up as one step;
`Starting` creates the attempt that `AttemptStore` goes on with, and takes `Publishing`'s pulls as steps
of its own grain; `Ingest` makes the draft that `Publishing` publishes, from questions that
`PaperText`, `KeyRules` and `AiExtract` make; `SignIn` ends where `Sessions.SignIn` starts. `StudentViews`
puts `ScoringRules`, `Analysis`, `Pricing` and `SectionClock` together as the student sees them.

## 3. The runs

Passing:

* **StoreSolo**: one tab, two questions in two sections, two timestamps, three requests that may
  die, one worker. Saved answers are never replaced by older ones (`NewestWins`), an attempt that is not
  dirty is in MongoDB (`CleanMeansFlushed`), the winning submission has every saved answer
  (`SubmitKeepsSaved`). Two timestamps and two requests
  show every order of old and new; the third lets a submission come between; one question per
  section is what sections tell apart. (Proved for any number of questions, requests and workers.)
* **StoreTabs**: two requests at once, all may die, Redis may lose everything at any moment. The
  document follows `AttemptLifecycle` (`ImplementsLifecycle`), and an attempt whose time is over gets
  submitted (`AutoSubmitted`).
* **Starting**: two requests of a student at once, one question, two attempts, two touches of
  the test, one process that dies in a review. `FirstOnce`, `FreshPaper`, `ShownIsScored`. Two
  requests are what it takes for one to store a paper that the other finds; a pull and a restore
  touch the test twice. (All three are proved for any number.)
* **Payments**: two orders of a referred user, at most one of them made free by the coupon, dying
  requests, two years. `EffectsMatch` (status against access, invoice and credit note), `GapFree`,
  `MoneyBacked` (a webhook makes an order paid only for the whole captured amount, verify only on the
  provider's signature, and it is refunded only once the provider paid back), `OneReward`,
  `ImplementsLifecycle`, and that a captured payment ends in a paid order by the webhook alone
  (`CapturedUnlocks`). Two orders are what gap-free numbers and rewards need; both may be paid. To one of
  them alone odd things happen (`Odd`: a failed attempt, less paid or refunded) and refunds of
  the desk (`Claimable`); both orders' requests may die (`Dies`).
* **Scoring**: one attempt to score, one scored before, two worker slots, one key change, one
  waiting rescore, one error of any kind anywhere. `OneScorer`, `OnlyFirstRanked`, and that a
  corrected key reaches the results that stood when the admin counted them, and stays there
  (`KeyReachesResults`). One process runs rescores, as in the deployment that `README.md:82,128` describes;
  the first two are proved for any number.
* **Sessions**: two browsers of a student with one device allowed, two requests at once, one lost
  answer, a clock of three ticks of which a session lives two. `DeviceLimit` unless a sign-in
  overlapped another request, `HonestStays` (one request at a time and no lost answer: never taken
  for a thief), `CookieMatchesSession` (no session counts that no browser can use), `RevokedStays`
  (a rotation that read before the revocation does not undo it).
* **SignIn**: one phone, two requests at once, two guesses a code, two codes an hour. `FewGuesses`:
  each other request in progress adds one guess at most to what the code allows. `FewCodes`: no
  more codes in an hour than allowed, whoever asks at once.
* **Publishing**: two question documents, one test, one request of an admin at a time, which may
  die before each write, a student whose report pulls the question meanwhile. `PublishedComplete`,
  `PublishedFrozen`, `OneLatest`, `PullSurvives`. Two documents are a question and its next version.
  The first three speak of requests that do not overlap, which is what one editor shows; section
  5 says what happens otherwise. `PullSurvives` says which saves give a pulled question back: one that
  read the flag and approves or restores it, and one that read before the pull and sets the flags or
  the status. (Proved for any number of editors; `PullSurvives` with any overlap.)
* **Ingest**: two workers, two runs, three outputs, and one fault at any step (an expired lock, a dead
  request, an error before, in or behind the run's `try`). `PublishedWhole`, `OneTest` (and that a ready
  upload links to it), and that every upload gets ready or failed unless its job is given up with the
  upload unfinished (`Settles`; `lost`). Three outputs are one more than two runs need, for
  the run that is given out twice. The first two speak of runs that do not overlap (`overlapped`);
  they are proved for any number of workers, runs and faults.
* **Rules**: every input of every rule over small sets, one state each. `MarksFair`,
  `PricesAddUp`, `PaperReadBack`, `KeyLands`, `ChunksMerge`, `FillSound`, `ImportOnce`, `ShownAgrees`, `ClockExact`. The
  comment of each says against what the rule is checked: an independent statement of what its
  result is for (a paper read back as it was printed, a total of shown parts, a test without
  copies), not a second implementation. The inputs are chosen at the boundaries: halves of a paisa
  and of a hundredth, a question cut by the end of
  a chunk, 27 % of few attempts, a count below and at each limit. `MarksFair`, `PricesAddUp` and `ImportOnce`
  are stated where their rules are, with a specification of their own (`ScoringSpec`, `PriceSpec`,
  `ImportSpec`: one input after the other), and are proved for all inputs.
  The run's clock, which goes while no input is picked, has two looks at once, tests of one to three
  sections of one or three seconds, locked or not, and any times up to ten seconds. `ClockExact`: what
  the next request sees does not depend on who looked when and whose write came last
  (`LooksLeaveNoTrace`); every section has its own time unless the student ends it or the attempt is over
  (`OwnTime`); answers are taken within it and the grace (`WithinTime`); and under a checked template no
  section is cut short by the attempt (`WholeTime`). The stored times include zero, missing and too
  long ones. Three sections and ten seconds let several run out between two
  looks. (Proved for any template, looks and times.)

Violations (each shows that the code does not do what a comment or document says):

* **PaymentsOrder**: a refund's webhook handled before its payment's is ignored for good, and the
  order keeps its access.
* **ScoreStuck**: after a crash behind the claim, the retry is refused the claim, completes the
  job, and nobody scores the attempt.

Section 5 has further configurations of this kind.

**Bounds.** `MaxAt`, `Tabs`, `Requests`, `Years`, `MaxKey`, `MaxRescores`, `MaxErrors`, `MaxAttempts`,
`MaxUpdates`, `MaxDeaths`, `MaxSecrets`, `MaxTime`, `MaxBroken`, `MaxCodes`, `MaxContent`, `MaxOutputs`,
`MaxRuns`, `MaxFaults`, and `Lookers`, `Templates`, `Rescorers`, `Odd`, `Claimable`, `Dies`; the cfgs name their values, the modules what they bound. Where everything
bounded is used up no step may be left, so most runs do not check for deadlock; the store's worker
never stops, and its runs do.

**Fairness.** The store: the clock runs, and a process that waits for a reply goes on; the
housekeeping job comes back every 30 s (`runtime.ts`). StoreTabs asks for `AutoSubmitted` only with
a worker that does not die for ever. Payments: a webhook that was not answered is sent again
(`Delivery`). Scoring: BullMQ gives waiting jobs out and recovers those of dead workers; runs and
requests go on. Ingest: workers take jobs and go on, requests go on, and workers are restarted now
and then (a deploy, or the process manager), which is strong fairness because an upload is
unfinished only at times; without a restart nothing looks for the upload of a request that died.
Nothing is assumed of students and admins, and nothing elsewhere.

## 4. The proofs

All are theorems of `Spec` for any constants that satisfy the modules' assumptions (finite or not:
any questions, requests, workers, orders, attempts, any bounds).

* **AttemptStoreProofs.** `TypeCorrect`. `OneWinnerInvariant`: `OneWinner` is inductive over the
  types; most steps are "quiet" (they touch neither the document's status, nor `won`, nor the queue), and
  `SubmitStepWinner` treats the rest. `Implements`: under `OneWinner`, `FlushWrite` is `Record`,
  `MarkSubmitted` is `Submit`, `EnqueueScore` is `Queue`, and every other step stutters. That a
  second `Queue` cannot come is exactly what `OneWinner` adds to the types. About what becomes of
  saved answers: `NewestWinsForOneTab`, `SubmitKeepsSavedForOneTab` assume
  `OneTab` (one tab, a Redis that keeps the hash, a start that does not die; any number of
  workers, and requests and workers may die), `CleanMeansFlushedForOneTab` also `OneWorker` (one
  worker, which does not die). `SoloInv` says where each process may be beside the others
  (`Place`, `Alone`, `Starting`), that what it has read is still so when it acts on it (`Right`), and that
  meta and saved answers stay in Redis while the attempt is in progress (`Held`). `FlushedInv`
  adds that what a worker is about to write is what Redis holds. No hypothesis is for convenience: TLC
  refutes the first two with two tabs, all three with a Redis that loses data, and
  `CleanMeansFlushed` with a worker that dies after it took the
  attempt from the dirty set, or with two workers, one of which writes what it read earlier.
* **StartingProofs.** `TypeCorrect`, `FirstOnceInvariant`, `FreshPaperInvariant`,
  `ShownIsScoredInvariant`. The first rests on
  `FirstInv`: with one request at a time, who read that there was no earlier attempt still finds
  none (`EarlierTrue`). The second needs to know what may stand under each key of the cache
  (`PaperInv`): what is gone is flagged, so a paper read from the bank shows none of it; the paper
  under the current key shows none (`CurrentClean`, a touched test has a key nobody has used:
  `VersionsSeen`); and under a key that a request holds, neither the stored paper nor one that
  another request is about to store shows what was gone when it began (`HeldClean`). `FreshPaper`
  alone says nothing of the cache and is not inductive. The third needs two facts: once no review
  is under way, the paper under the current key, and the one that anybody is about to store there,
  is the current one (`CacheCurrent`); and what a request that no review disturbed has read or
  created still agrees with the flags (`KnowsStill`).
* **PaymentsProofs.** The strengthening is `Journey` (where each order's checkout and refund
  request may be, given its status) and `Witnessed` (what an event or a refund request says of the
  provider). From them: `EffectsInvariant`, `Implements` (every step moves one order along
  `OrderLifecycle` or stutters), `GapFreeInvariant`, `MoneyInvariant`, `RewardInvariant`. Each step is
  first classified by its effect on the ledger (`StepEffect`), so that every invariant looks
  at four effects and not at two dozen actions.
* **ScoringProofs.** `OneScorerInvariant` needs `Claims`: while a run is between claim and result,
  the claim is fresh, so nobody else can claim; no step but a claim starts a run (`StepKeeps`).
  `RanksInvariant` needs `Ranks`: what a rescore or a result page has read and is about to write,
  and the attempt a run is about to add, are scored first attempts too, and scored is for good.
  `MarksFairAlways` is about whole papers: any sections, questions, keys and answers. The totals are folds
  over the sections; each is shown to be its partial sums (`SumPartial`), and a fact about sums goes from
  one partial sum to the next (`SumInt`, `SumTens`, `SumGrows`, `SumFour`). It assumes of its questions and
  templates what the schemas let in (`AskedAssumption`: `Scorable`, `Readable`), marks in thousandths, and
  that each sum or share that is an exact half rounds one way (`LowAssumption`). Where full marks are no
  hundredths a partial answer may show a hundredth more than its share; the bound of the total says
  exactly that (`Extra`; section 5 has an example). `PartialFair` is about the marks of one question with options, for every key, every marking the
  template's schema allows (in thousandths) and every two answers of which one chooses more. Shown
  marks are compared, as the rounding may take half a hundredth from the full ones.
* **SessionsProofs.** `TypeCorrect`, `RevokedStaysAlways`, `HonestStaysInvariant`,
  `CookieMatchesInvariant`, `DeviceLimitInvariant`. `RevokedStays` needs that a save writes only the
  fields it changed. The browser's side needs `Owned` (a token names a session of the browser that
  holds it) and `InStep` (what browser and server agree on at each point of the browser's one
  request). `DeviceLimit` counts what a rotation may bring back, too (`Live`): a session that
  expired after it was read. That `Live` is finite is part of the invariant, not an assumption.
* **SignInProofs.** `TypeCorrect`, `FewGuessesInvariant`, `FewCodesInvariant`. A guess or a code is
  paid for by a counter in Redis or by a request that read it before; the invariants count both
  sides, so `Requests` has to be finite (`RequestsAssumption`), and the network's key must not be
  a destination's (`KeysAssumption`: `otp.ts:47,54` prefix them).
* **PublishingProofs.** `TypeCorrect`, `PullSurvivesAlways`, `PublishedCompleteInvariant`,
  `PublishedFrozenAlways`, `OneLatestInvariant`. `Sane`: no request changes a question's place among
  its versions or flags it. `Ready`: what a request found still holds when it writes (a question
  to delete is in no published test, a test to publish is complete, ...), which being alone (`One`)
  gives it; reports that come between change nothing it looked at. `PullSurvivesAlways` needs of an open
  request only how what it wants differs from what it read (`Sane`). `Highest` is `OneLatest` with
  the version that waits to be demoted left out. `PublishedComplete` alone is not inductive: it
  says nothing of what an open request is about to write.
* **IngestProofs.** `TypeCorrect`, `PublishedWholeInvariant`, `OneTestInvariant`.
  `Calm` is what holds while runs do not overlap: there is one run (`OneRun`) and one test
  (`Single`), and what the run found still holds when it deletes, inserts and creates (`Relies`: the
  test to delete is the one it looked up and still a draft; before it creates its own there is
  none; past its first stage the upload is not ready). A run may stop after any step: `Single`
  and `Whole` are kept by each step and not by the run as a whole, so the next run starts from a
  sane upload. Two runs that overlap set `overlapped`, and so does who publishes the test that a run is
  replacing: the statements are about everything else, and section 5 has what happens then.
* **Prices** (in `PaymentsProofs`). `PricesAddUpAlways`, `PriceSound`, `GstSound`, `YearForward`: the rules
  of prices and invoices for every price, rate and date, from `Division` (what a quotient rounds to)
  and bounds of each part.
* **The clock** (in `AttemptStoreProofs`). `ClockExactInvariant`: the inductive invariant says of every
  copy of the meta, in Redis or about to be written, that it is sane (`SaneLocked`, for whatever times are
  stored: each section that is
  over ended when its time was up, or earlier if it was submitted; the open one is due its own time
  after that, but not after the attempt) and that, advanced to now, it is the one nobody looked at
  (`SameLook`). That the order of looks does not matter comes down to: advancing to one time and then
  to a later one is advancing to the later one.
* **Import** (in `PublishingProofs`). `ImportOnceAlways`, for every file of any length and any bank. The
  order of rows is a count (`InOrder`: the k-th is the one with k up to it), so that there is a k-th
  for every k is an induction over the rows (`KthExists`). Copies are rows with one stem and the same
  options shuffled; that they have one hash is a bijection between the places of each option
  (`ShuffledBag`). It assumes only what a cell may hold (`RowsAssumption`). With it, as with marks and prices, the inductive invariant is only that what is
  picked is one of the inputs: all the work is in the rule.

Induction over the naturals is a lemma of these modules (`Induction`): a set of numbers that holds 0
and with each number the next has no least number outside it (`Least`, from the library's
well-foundedness of <). It takes a set, not an operator, so the provers can use it, and with it what
recursive functions and folds compute.

TLC checked the types and the invariants on the instances above first.

Only model-checked: liveness (`AutoSubmitted`, `CapturedUnlocks`, `KeyReachesResults`, `Settles`; TLAPS
proves nothing under fairness or about ENABLED), and five of the rules: `PaperReadBack` and `KeyLands` (a
parser over lines, several folds deep), `ChunksMerge` (folds over what a model replies), `FillSound` and
`ShownAgrees` (sequences filtered, flattened and folded; a run of all of them over small
inputs says more per line than their proofs would). Every other safety property of the passing runs
is proved.

## 5. Observations

### Further configurations

Each `.cfg` checks one statement of a document or comment and TLC finds it violated. They are not
among PROJECT.json's runs.

| Configuration | Property | What happens, and what says otherwise |
| --- | --- | --- |
| `StoreLatestWins` | `NewestWins` | two saves at once: the older answer is stored over the newer (`attemptStore.ts:162`, `README.md:306-307`) |
| `StoreLateSave` | `RefusedAfterSubmit` | a meta loaded before a submission and written after it makes later saves succeed (`routes/attempts.ts:95`, `:251`) |
| `StoreQueued` | `SubmittedIsQueued` | a crash between submission and queueing; nothing looks for the attempt again (`jobs/attempts.ts:37`, `README.md:309-310`) |
| `PaymentsSigned` | `PaidIsCaptured` | verify fulfils on the signature alone: a payment that is authorized and never captured, or is of less, keeps its access (`routes/payments.ts:198-211`; of the webhook `services/payments.ts:128` says "Never grant access for a different amount than the server priced") |
| `PaymentsRefund` | `RefundSettles` | a crash between the refund's claim and the provider: `refund_pending` for good (`admin/payments.ts:290`, `:330`) |
| `PaymentsCoupon` | `CouponWithinLimit` | two orders open at once share a coupon that may be used once (`routes/payments.ts:44`, `types/src/payments.ts:61`) |
| `ScoreStale` | `ResultsCurrent` | a score job that read the old key overwrites the rescore's result (`attemptStore.ts:281`, `README.md:328`) |
| `SessionsRace` | `RacingTabStays` | of three rotations within the grace time, the first token is neither current nor previous any more: the session is revoked (`sessions.ts:8`) |

The modules state more that does not hold, each with a comment that quotes the code. In place of
the properties of a run, or with the change named, TLC refutes:

| Run | Property | What happens, and what says otherwise |
| --- | --- | --- |
| Starting | `OneFirst` | two starts that race past an attempt's end are both ranked (`models/attempt.ts:13`) |
| StoreSolo, `RedisLoses = TRUE`, no symmetry, no deadlock check | `SectionForward` | a section submitted early is open again after an eviction: `writeMeta` marks nothing dirty (`attemptStore.ts:104`) |
| Rules | `NeverStuck` | a first section with a time of zero or none stops the clock of all (`attemptStore.ts:63,68`); only the template's check keeps such times out (`exam-template.ts:25-29`) |
| Rules | `GapIsShort` | the overall cut-off is met and a section's is missed: "You are -2 marks short" (`analysis.ts:38,42-44`) |
| Scoring, two `Rescorers`, `MaxErrors = 0` | `KeyReachesResults` | of two processes' rescores the one that read the old key writes last (`jobs/attempts.ts:47`: "re-scores a whole test after an answer-key change") |
| Ingest | `AlwaysSettles` | a command fails before the `try` or in the `catch` of `runIngest`, or the lock expires twice: the failed job's id is kept, a requeue under it does nothing, and the upload stays unfinished (`runtime.ts:167`, `pipeline.ts:136`) |
| Ingest | `BorrowedKept` | a question that another test takes between the look and the delete is deleted (`pipeline.ts:296`) |
| Publishing | `PullKept` | a save that read its question before a pull sets the flags or the status: the pull is gone with its reports open (`reports.ts:14`: "until an admin fixes or dismisses the reports"; `services/questions.ts:49-71,83,151`) |
| Publishing | `PulledHasReports` | a report resolved between the count and the pull leaves a flag without reports |
| Publishing | `DraftsUseLatest` | a published test that is unpublished after a new version of its question was made is a draft with the old one |

Properties that speak of requests or runs which do not overlap, or do not die, need that: without
`~crowded` TLC refutes `DeviceLimit` (two sign-ins both count before either saves), without `~overlapped`
`PublishedWhole` (a test is published between `FindPrevious` and `DeleteQuestions`) and `OneTest` (a slow run and its
successor both create one), without `~died` `OneLatest` (a new version is made, the old one is
not demoted).

### Met while translating

* Marks may have any number of decimals (`exam-template.ts:13-18`), and partial marks are rounded to
  two (`scoring.ts`): with full marks of 0.008 two right options of three are worth 0.01, more than
  the whole. With two decimals it cannot happen; `MarksFair` says how much it can be otherwise. Finer
  marks than thousandths, and what doubles do in sums beyond exact halves, are not modelled.
* `Math.round(n * 100) / 100` takes some halves down: 1.005 shows as 1 (`scoring.ts:40`).
* `contentFlags` does not look for empty option texts: `pipeline.ts:331` approves what
  `models/question.ts:113` would refuse an admin to approve.
* `adviceFor` speaks of the overall cut-off whichever was missed (`GapIsShort`), and finds the weak topic by its name alone (`analysis.ts:50`): with the topic in two
  sections, the first one's numbers are quoted.
* The analysis numbers a student's questions after the excluded ones are taken out
  (`routes/attempts.ts:355-360`, `analysis.ts:75`), the solutions by their place in the paper
  (`attempts.ts:428`): the numbers differ after an exclusion.
* Bookmarks show a solution once an attempt is submitted, the solutions page once it is scored
  (`studentContent.ts:81-87`).
* `missingNumbers`: a section that restarts at 2 reports nothing missing. `applyKey` by order
  shifts by one after a missing entry (`keyParser.ts:78`); `KeyLands` asks for keys with numbers.
* `stripHeadersFooters` compares lines without their digits (`textParser.ts:34`): a line that stands at the edges
  of three pages of five, such as "Statement 1" and "Statement 2", is dropped as a running header. The inputs
  of `PaperReadBack` have no such lines.
* `mergeChunks` looks 15 questions back: more on an overlapped page come twice
  (`aiExtractor.ts:299`); a chunk of one page has no overlap.
* `computeQuestionStats` visits only questions with outcomes (`questionStats.ts:92`): a flag set once
  stays when the attempts are gone. `fillSection`'s sample may consist of copies (`testBuilder.ts:137`).
* A process that dies between a pull's flag and `refreshPapers` leaves the cached paper up to 24
  hours; a paper resumed after a pull leaves a question out that still counts. `FreshPaper` speaks of
  finished pulls and `ShownIsScored` of requests without a review meanwhile.
* Two admins at once: with two editors and three questions TLC refutes the three properties of
  `Publishing` once `~overlapped` is taken from them. An edit that takes an answer away reads its
  question before a test with it is published and saves after (`PublishedComplete`,
  `PublishedFrozen`: `services/questions.ts:133` says that published tests keep the old version;
  a `PUT` of a draft that races its publication does the same); two edits of one question make
  two second versions, both the latest (`OneLatest`: no index forbids it, `models/question.ts:90`).
* The CRUD of exams and templates checks for uses and then deletes: a use that comes between is a
  reference to nothing, which readers skip (`catalogue.ts:44-47`).

## 6. Not modelled, and why

* The invoice e-mail: it is sent, then marked, so BullMQ's retry may send it twice; and a crash
  between the commit and the queueing loses it. Both follow from two lines; the PDF is layout.
* Manual entitlements, plan and coupon CRUD, revenue reports, and the CRUD of exams, templates,
  nodes and series: one document at a time.
* The regular expressions that classify a line, PDF decoding, OCR and what a model reads: external.
  The parser's decisions over classified lines are in `PaperText`.
* The TOTP algorithm (a library's), storage, audit log, e-mail, Google sign-in, health,
  configuration: I/O. Zod schemas and types, but for the rules that a component relies on.
* The caches `bench:` and `correct:` (minutes of staleness by design).

## 7. Plan

Done: the store and its clock, payments, scoring, starting, sessions, codes, publishing and ingest
with their proofs; the pure rules, with proofs about prices, marks, the clock and imports. Left:

1. The filling of a section and the merging of chunks for every bank and paper (`Builder`, `AiExtract`).
2. What two components promise together, where one takes the other's steps as its own.
