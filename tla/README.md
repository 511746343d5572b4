# Sravlekh in TLA+

TLA+ models of the AIOS / Sravlekh assessment platform (`src/aios`), checked
with TLC and, for the statements that matter most, proved with TLAPS. The
models are about one thing above all: *a mark that a student sees was given by
a human, is the one given last, and was complete when it was locked*, although
an AI, several teachers, a reviewer, an administrator and a job queue all work
on the same rows. Around it stand the parts that feed marks in (booklets, OCR),
follow from them (mastery, interventions, reports), and decide who may act
(enrolment, sessions).

All definitions are read from the code. Paths below are relative to
`src/aios/apps/api/src` unless they start with `api-python` (for
`src/aios/apps/api-python/src`), `web` (for `src/aios/apps/web/src`) or `docs`
(for `src/aios/docs`).

## Inventory

The API is a NestJS process over PostgreSQL (Prisma) and Redis (BullMQ, cache);
`worker.ts` runs the queue processors in a process of its own; a Python service
renders PDFs, calls the models, and computes mastery. All three may run more
than once. Nothing but the database and Redis is shared. Almost no handler is a
transaction as a whole: what runs between two `await`s of a handler is
everything the other processes do.

| Part | State | Operations | Interacts with | Hard part |
|---|---|---|---|---|
| Evaluation (`evaluations/`) | `Evaluation`, `EvaluationVersion`, criterion scores | decide, override, checked-copy submit | score queue, reports, mastery | three writers of one pointer, only one of them conditional |
| AI evaluator (`api-python/evaluation/ai_evaluator.py`) | the same rows, `AIRecommendation` | evaluate_response, batch of a delivery | called by a queue job, up to 40 s per answer | a late answer against human marks; rows left behind |
| Assessment lifecycle (`assessments/`, `shared/evaluation-lock-gate.ts`, `shared/version-guard.ts`) | `AssessmentDelivery.status`, `.version` | update status, unlock | lock gate reads marks; starts AI queue | gate is a count outside the transaction |
| Exams of the first generation (`exams/`) | `Exam`, `AnswerSheet`, `ScoreRecord` | move, unlock, delete, link a paper, open and grade sheets | the same status table and guard; audit log | a version guard on some writes, none on others |
| Score aggregation (`evaluations/score-aggregation.*`) | `ScoreRecord` | recalculate | queue, checked copy (inline) | last writer wins, and may be the stalest |
| Queue (`infrastructure/queue/`) | jobs in Redis | enqueueDeduped, retries, delays, dead letters | every asynchronous part | deduplication against running and failed jobs; lost locks |
| Answer sheets (`documents/`, `shared/sync-page-region-responses.ts`) | `Document`, `PageRegion`, `Response` | draw/move/delete regions | identity, OCR, evaluation | checks before deletes |
| PDF splitting (`documents/`, `api-python/documents/`) | `Document.status`, `Page`, `ProcessingJob` | upload, split, reprocess | queue, render service | retried and overlapping splits |
| Identity resolution, attempts | `IdentityResolution`, `AssessmentAttempt` | confirm, create | answer sheets | two confirmations at once |
| OCR (`ocr/`, `api-python/routers/ocr.py`) | `OCRBlock`, `OCRResult` | enqueue, extract | answer sheets, AI evaluator | a box that moves under a running extraction |
| Mastery, interventions (`analytics/`, `api-python/analytics`) | `MasteryScore`, four intervention records | recalculate, claim | queue, marks | overlapping recalculations; claim before creation |
| Reports (`reports/`) | `Report`, its file | request, reissue, generate | queue, override() | status of the row against that of the job |
| Sessions (`auth/`, `web/lib/api-client.ts`) | refresh-token families, cookie, access token | login, refresh, logout, sweeps | database, tabs of a browser | concurrent refreshes, answers out of order |
| Enrolment, entitlements (`students/`, `entitlements/`, `users/`, `institutes/`, `auth/`) | `User`, `StudentProfile`, allow-list, plan, transfer history | create, transfer, archive, allow, sign in | | limits counted beside concurrent inserts; sign-in against administration |
| Notices, papers, rubrics, questions, cache, throttler | rows and counters | CRUD | | see *Not modelled* |
| Institute administration, classroom, audit, storage, web screens, infrastructure | rows | CRUD | | none that several processes share |

`PROJECT.json` lists every component with its status, and the hazards with the
line where each one bites and the property that would catch it.

What makes each component correct:

* **Marks**: an AI suggestion never replaces a human's mark; the version chain
  is a history; `Evaluation.status` and the current version agree; a submission
  is all or nothing for the sheet as it was looked at.
* **Lock**: a graded delivery is only LOCKED over answers a human has marked,
  and stays so; an exam moves along its table and its locks are in the audit log.
* **Score record**: only human marks count; the record of a finalized attempt
  rests on approved answers; a mark once given is eventually counted.
* **Queue**: a job that was accepted is run or dead-lettered.
* **Capture**: a booklet has its pages once, its split ends, and a retry of the
  split is queued; it is linked to the student it was resolved to; each of its
  mapped regions has an answer; an answer is graded on the text of its own box.
* **Consequences**: a weak topic gets one intervention per episode and no claim
  without one; a report that was handed out is not replaced.
* **Access**: a session has one live token, honest tabs are not taken for a
  copy; who was barred stays out; a plan is exceeded by the requests under way
  at most.

## Modules

| Module | Models | Proofs |
|---|---|---|
| `MarkLedger` | abstract: what marking promises | |
| `Evaluation` | decide, override, submit, the AI evaluator, the lock | `EvaluationProofs` |
| `ScoreAggregation` | recalculate, enqueueDeduped, BullMQ, over the marks of `MarkLedger` | `AssessmentProofs` |
| `Capture` | regions of a booklet, the sync that makes answers of them, whose booklet it is | `CaptureProofs` |
| `JobQueue` | operators: the job of one deduplicated key, as the services and workers of four queues see it | `JobQueueProofs` |
| `PdfSplit` | upload, split, reprocess of one booklet, over `JobQueue` | `CaptureProofs` |
| `Ocr` | reading one answer whose box moves, and grading on the reading, over `JobQueue` | `OcrProofs` |
| `Mastery` | one topic of one student: recalculations and interventions, over `JobQueue` | `EvaluationProofs` |
| `Reports` | the reports of one student, over `JobQueue` | `ReportsProofs` |
| `StatusFlow` | abstract: what the status of an exam promises to its readers | |
| `Exams` | one exam under concurrent requests, implements `StatusFlow` | `AssessmentProofs` |
| `Sessions` | refresh tokens, the tabs of a browser, forced logouts | `SessionsProofs` |
| `Enrolment` | students under a plan, the allow-list, signing in | `EnrolmentProofs` |
| `MC...` | one per checked module: model values, symmetry, constraints for TLC | |

`Evaluation` implements `MarkLedger` (property `ImplementsLedger`, theorem
`Refinement`), `Exams` implements `StatusFlow` (property `FlowsInStages`, theorem
`ImplementsStatusFlow`). `ScoreAggregation` is built on `MarkLedger`'s actions
`Arrive`, `Suggest`, `Approve` and `Discard`, so it sees exactly the changes of
marks that `Evaluation` may make and need not repeat how they come about.
`PdfSplit`, `Ocr`, `Mastery` and `Reports` share the operators of `JobQueue`, so
that a job behaves the same in all of them.
Three proof modules extend two components each, so `Exams`, `PdfSplit` and
`Mastery` have `ExamSpec`, `SplitSpec`, `MasterySpec` and so on where the other
modules have `Spec`. `ScoreAggregation` has the steps of
its queue in actions of its own, because its subject is the enqueue itself.

### MarkLedger

Every answer is `absent`, `unmarked`, `suggested`, `approved` or `discarded`,
and the delivery is sealed or not. An answer arrives; the AI suggests unless a
human has approved; humans approve a set of answers; an answer is discarded for
good, with its marks; a graded delivery is sealed only when every answer
collected before marking, and still there, is approved.

### Evaluation

State: `present` and `row` are the `Response` and `Evaluation` rows of one
attempt, `discarded` those deleted since (what hung on them is kept, out of
reach); `versions[r]` the `EvaluationVersion` rows of an answer in order of
insertion, with their source, the version they continue, whether all criterion
scores exist and whether the row was deleted; `current[r]` is
`currentEvaluationVersionId`; `delivery` has the status and the optimistic
version. `ai`, `desk`, `sheet` and `admin` hold what one running request
remembers from its reads. `published` is a history variable (the version has
been the current one).

| Action | Code |
|---|---|
| `AiRead` ... `AiScore`, `AiLoseClaim`, `AiDiscard` | `evaluate_response()`: read, the row, the version, the `UPDATE ... WHERE currentEvaluationVersionId IS NOT DISTINCT FROM`, its clean-up, the criterion scores |
| `AiFail`, `DeskFail`, `SheetFail`, `LockFail` | validation errors, lost unique keys, database errors, model timeouts and dying processes: what has been written stays, except in the transaction of the sheet |
| `DeskRead`, `DeskOpenRow`, `DeskInsert`, `DeskPoint` | `decide()` (ACCEPT_AI, or SCORE for ADJUST and REJECT_RESCORE) and `override()` |
| `SheetLoad`, `SheetCommit` | `CheckedCopyService.submit()`: load and validation, then one transaction with a compare-and-swap per answer |
| `LockGate`, `LockCommit`, `StartEvaluating`, `Unlock` | `updateDeliveryStatus()` and `unlockDelivery()` |
| `SyncResponse`, `DiscardResponse` | `syncPageRegionResponses()` creating an answer, `deleteRegion()` deleting one with its evaluation |

Abstractions: scores, feedback, confidence and rubrics are left out. Answers
are those that need a human's mark (`requiresHumanReview`); objective ones
never reach these paths. A transaction under row locks is one step where the
compare-and-swap inside it makes its reads still true when it commits. An
answer that was deleted does not come back: what is synced for the question
later is another row. Here any answer may be deleted at any time, which is what
a teacher may ask for (`discardMarks`); whether one is deleted *without* asking
is a question about `deleteRegion()` and `updateRegion()`, which check first and
delete later, and belongs to `Capture`. Permission checks are guards on who the
caller is and are left out.

Bounds: `MaxVersions` (versions ever inserted for one answer) and `MaxDelivery`
(value of `AssessmentDelivery.version`).

### ScoreAggregation

State: `standing` of `MarkLedger`; `revision[a]` counts the human marks of an
answer, so "the mark that counts" is a number and the totals of the record are
represented by the revisions they were summed from; `record` is the
`ScoreRecord`; `job` is the job of this attempt's key in Redis; `stray` an add
that the request has given up on but ioredis still holds; `calc` the running
recalculations (one by the queue's worker, since an id has one job, and one per
submission); `desk` the requests inside `enqueueDeduped()`.

| Action | Code |
|---|---|
| `DeskMark` | `decide()` or `override()` moving the pointer, up to the enqueue |
| `DeskCheck`, `DeskClear`, `DeskAdd` | `getJob()`/`isFailed()`, `remove()`, `add()` of `enqueueDeduped()` |
| `DeskGiveUp`, `StrayAdd` | `QueueUnavailableError` after `ENQUEUE_TIMEOUT_MS`, a dying process, the buffered add landing later |
| `Arrive`, `Suggest`, `Discard` | what changes the answers and queues nothing |
| `SheetSubmit`, `SheetFail` | a submission's commit, then its inline recalculation, which is not retried |
| `ListResponses`, `ReadVersions`, `UpsertRecord` | `recalculate()`; Prisma reads the answers and what they include in separate queries |
| `RunJob`, `CompleteJob`, `FailRun`, `PromoteJob`, `ForgetFailed` | the processor, the retries and the retention of `QUEUE_POLICY.scoreAggregation` |

BullMQ, Redis and ioredis are external; they are modelled by what the code
relies on: an add under an id that exists in any state is ignored, `remove()`
fails on a running job, a failed job is retried `attempts` times and then kept.

`Faults` says what may go wrong in an instance: `"redis"` for the requests,
`"database"` for the recalculations (a dying worker included), `"retention"`
lets failed jobs be evicted.

### Capture

State: `active` are the students with an active `Attempt` of the delivery;
`link` is `Document.attemptId`, by the attempt's student; `resolution` the
`IdentityResolution` of each document; `region` the `PageRegion` rows of type
QUESTION_ANSWER; `answer` the `Response` rows under their unique key, with the
region they are evidence from and whether a human has marked them; `proc` what
each running request holds between its awaits. `gap` is a history variable: what
may have left a document without an answer, a deletion on behalf of another
region or a request that failed.

| Action | Code |
|---|---|
| `CreateRegion`, `RedrawRegion` | `createRegion()`; `updateRegion()` with a box only |
| `DetectRead`, `DetectAdd`, `DetectEnd` | `detectRegions()`: the page is looked at, a model is asked, regions are inserted one by one, one sync at the end |
| `RemapRead`, `RemapCheck`, `RemapDiscard`, `RemapMove` | `updateRegion()` with a question: read, `assertRegionMarksMayBeDiscarded()`, delete the answers, write the region |
| `DeleteCheck`, `DeleteCommit` | `deleteRegion()`: the check, then its transaction |
| `ConfirmRead`, `ConfirmFindAttempt`, `ConfirmCompare`, `ConfirmConflict`, `ConfirmCommit` | `IdentityResolutionService.confirm()` |
| `SyncReadDocument`, `SyncList`, `SyncUpsert` | `syncPageRegionResponses()`, at the end of all of these but `deleteRegion()` |
| `CreateAttempt`, `Approve` | `AttemptsService.create()`; a human's mark (`Evaluation` has how) |
| `Fail` | unique and foreign keys, rows that are gone, database errors, dying processes |

Abstractions: one page per document; only regions of type QUESTION_ANSWER and
answers that are evidence from a region (those an attempt brings along itself
have none); one active attempt per student, which is what `confirm()` looks for.
The transaction of `deleteRegion()` is one step: an answer that another
request's sync points at the region between its two statements would be left
without a region, which is not modelled. `Region` bounds the regions ever drawn;
a region that was deleted is not drawn again.

### JobQueue

No variables: operators on the record of one job (`state`, attempts `made`,
whether it `stalled` before, the run that is its `holder`). BullMQ is external;
what is modelled is what the code relies on. `Added`: an id that exists in any
state is ignored. `EnqueueMoves`, `EnqueueSends`: the three calls of
`enqueueDeduped()`, one at a time. `Completed`: `removeOnComplete` of
`QUEUE_POLICY`. `Refused`: another attempt after a delay, or the dead letter at
the last one (`shared/logging/dead-letter.ts`). `Deferred`:
`deferIfRateLimited()`, which costs no attempt. `Stalled`: a worker that did not
renew its lock loses the job, once; the run that lost it goes on, and what it
reports in the end is refused (`IfHolder`).

### PdfSplit

State: `file` (none, images, a PDF that can be read or not), `Document.status`,
`pages` (the set of `Page` rows, there once or not at all), the VALIDATE stage,
the job, the runs of `splitPdfDocument()`, the requests.

| Action | Code |
|---|---|
| `UploadImages`, `UploadPdf` | `uploadDocument()`, `uploadPdfDocument()`; the enqueue follows the transaction |
| `ResetStages`, `ResetStatus`, `CountPages` | `reprocess()` at its writes, from whichever stage: VALIDATE is reset or only later ones, the status always |
| `EnqueuePdfSplit`, `GiveUp` | `enqueueDeduped()`; a request that fails on its caller |
| `ReadDocument`, `Render`, `OpenTransaction`, `CommitPages`, `LosePages` | `splitPdfDocument()`: skip if there are pages, render, look again in the transaction, insert under the unique key |
| `FailStatus`, `FailValidate` | `failDocument()` after a 422, which the renderer answers to a file it cannot read and (`"storage"`) to one it could not download |
| `CompleteRun`, `FailRun`, `StallRun`, `PromoteJob` | the end of a run, its failure, a lost lock, the backoff |

One document; images are uploaded whole.

### Ocr

State: the `region`'s box, `blocks` and `results` (`OCRBlock`, `OCRResult`; a
result remembers the box it was read `from`), the job, the requests, the runs of
the extract route, one execution of the AI evaluator as reader, `errors` a
history of the attempts that ended in one.

| Action | Code |
|---|---|
| `MoveBox` | `updateRegion()` with a box; the readings stay |
| `FindUnread`, `EnqueueExtraction`, `GiveUp` | `enqueueForDocument()` |
| `FindRegion`, `FindBlock`, `CreateBlock`, `ExtractText`, `CreateResult` | the extract route of `api-python/routers/ocr.py` at its queries and its model call |
| `RateLimited`, `TimeOut`, `FailRun`, `CompleteRun`, `StallRun`, `PromoteJob` | a provider's 429 through `deferIfRateLimited()`; the API gives up after 60 s while the extraction runs on; errors; the worker's lock; delays |
| `LocateAnswer`, `FindEvidence`, `GradeEvidence`, `EndGrading` | `_current_ocr_result()` |

Boxes that differ by less than `BOX_TOLERANCE` are one box. Pixels, text and
confidence are data. The choice among several results of one block is left open.

### Mastery

State: `evidence` (marks so far, and whether they make the topic weak), one job
per set of topics that are marked together (`Key`), the runs of
`recalculate_mastery()`, the `MasteryScore` row (what it was computed from, and
`claimed`), the number of `rows` of each of the four intervention records.
`cleared` and `lost` are history: recoveries that cleared a claim, and what an
error that was passed over did away with.

| Action | Code |
|---|---|
| `CommitMarks`, `EnqueueMasteryRecalc`, `GiveUp` | marks are committed, then `enqueueMasteryRecalc()` |
| `ReadResponses`, `WriteMastery` | `_recalculate_one_topic()`: the query, the upsert that clears the claim on recovery |
| `Choose`, `Claim`, `Create` | `evaluate_interventions()`: the topic and the teacher, the conditional `update_many()`, the assignment, intervention, notice and delivery |
| `Return`, `PassOver`, `FailRun`, `TimeOut` | the call's end; an error inside one topic, which is logged and passed over; any other error; the API's 15 s |

### Reports

State: `report` (status and the report it supersedes), the job of each, `stray`
adds that were given up on and may land later, the runs of the processor, the
requests. `troubled` is history: reports that were queued late, whose status
could not be written, or of which a run broke off.

| Action | Code |
|---|---|
| `RequestReport`, `Enqueue`, `GiveUp`, `MarkUnqueued`, `LateAdd` | `requestReport()`: the row, the enqueue, FAILED if it was given up |
| `Override`, `ReissueOne`, `EndReissue` | `reissueForStudent()`: which reports are COMPLETE and not superseded, then one new row and one enqueue for each; the unique key on `supersedesReportId` refuses the second reissue of one report |
| `Begin`, `Finish`, `MarkFailed`, `Rethrow`, `CompleteRun` | the processor, whose writes have no condition on the status |
| `Fail`, `BreakOff`, `StallRun`, `PromoteJob` | the store or the database, the process, the lock, the backoff |

What a report says is not modelled, only that its file has a key derived from
its id, so that whoever generates a row again replaces its file.

### StatusFlow and Exams

`StatusFlow`: a status moves one stage at a time, only an unlock goes back, every
move is a version, and a lock or unlock comes with its audit entry.

State of `Exams`: the `exam` row (status, version), the LOCK and UNLOCK entries of
the `audit` log, whether a paper is `linked`, the `sheet` of each student, and
what each `request` has read.

| Action | Code |
|---|---|
| `ReadForMove`, `ReadForUnlock`, `PassGate`, `WriteStatus` | `updateStatus()`, `unlock()`: the read, the transition table, `assertAllAnswerSheetsVerified()`, the write under `withVersionGuard()` with its audit entry |
| `ReadForDelete`, `CountSheets`, `DeleteExam` | `deleteExam()`: its checks, then a deletion by id that takes sheets and records along |
| `LinkPaper`, `CreateAnswerSheet`, `ReadForGrade`, `CommitGrades` | the methods of these names |
| `GiveUp` | a stale version, a refusal, an error, a crash |

### Sessions

State: `row` (the `refresh_tokens`: family, rotated or revoked, age of the
rotation), `user` (`tokenVersion`, active), the browser's `cookie` and `access`
token, what each `tab` shows and the `call` it has under way, `admin` (a forced
logout). Time is in ticks; `Transit` bounds a request and its answer.

| Action | Code |
|---|---|
| `SendRefresh`, `ReceiveSession`, `ReceiveRetried`, `ReceiveRefusal`, `ReceiveRetry`, `ReceiveOver`, `Reload`, `SendLogout`, `LapseAccess` | `web/lib/api-client.ts`, `web/contexts/auth.context.tsx`, and the cookies `auth.controller.ts` sets |
| `LookUp`, `Claim`, `CommitRotation`, `FailRotation`, `ReadUser`, `FailCall` | `rotate()`: the look-up and its verdict (`Verdict`), the compare-and-swap and the successor in one transaction, contention; `refreshSession()` reading the user again |
| `SweepFamily`, `RevokeFamily`, `RevokePresented` | `revokeFamily()`, `revoke()`: an `updateMany` finds its rows, waits for locks, writes |
| `BumpVersion`, `SweepUser`, `RevokeUser`, `UpdateStatus` | `forceLogout()`, `logoutAllMyDevices()`, `updateStatus()`, either way |

`ReceiveSession` sends the refused request again; `ReceiveRefusal` is the second
401 of that request, which ends at the login page. Logging out is a public route,
works with a lapsed access token, and keeps the cookie if the database fails it
(`FailCall`). A tab has one call under way: the requests that share its refresh
are one.

### Enrolment

State: `user` (users and student profiles by email address), `listed` (the
allow-list), the `limit` of the plan, what the transfer history `told` last,
admin `request`s, one `login`. `granted` (the largest limit there was) and
`barred` (archived or suspended and not made active again) are history.

| Action | Code |
|---|---|
| `CheckEmail`, `ReadLimit`, `CountStudents`, `CreateStudent` | `StudentsService.create()` with `assertCanCreate()` in its transaction (READ COMMITTED) |
| `ReadProfile`, `CommitTransfer`, `Archive` | `transferBatch()`, `archive()` |
| `UpdateStatus`, `AddAllowListEntry`, `RemoveAllowListEntry`, `UpdatePlan` | the methods of these names in `users/`, `institutes/`, `founder/` |
| `FindAllowListEntry`, `UpsertUser`, `SyncRole` | `loginWithGoogle()` |

A plan without a limit is one whose limit is larger than the number of people;
the theorems hold for any set of limits. `BarredStayOut` is about the status in
the `users` row, against which every request and every refresh is checked
(`Sessions`). The status guard that ends `loginWithGoogle()` and the token it
issues write none of this module's state and are left to `Sessions`: that an
archive overtakes the guard, and a token is issued which the next request finds
to be of no use, is not a behaviour of `Enrolment`.

## Runs

| Run | Instance | Shows |
|---|---|---|
| `evaluation` | one answer, two AI executions, a desk request, a submission, an admin; three versions, three delivery steps | types, `LockedIsMarked`, `ChainIsSound`, `StatusTellsSource`, `AiNeverReplacesHuman` |
| `evaluation_sheets` | two answers, one arriving late, either deleted at any time, two submissions, an AI execution, an admin, no desk request | `SubmitMarksWholeSheet`, `ImplementsLedger`, and `HistoryNeverForks` when nobody uses decide() or override() |
| `aggregation` | one answer, two requests, two submissions, three human marks, the code's three attempts, database and retention faults | types, `WaitingJobCounts` |
| `aggregation_outage` | two answers, one arriving late, a request, a submission, Redis and database faults, two attempts | `RecordIsHumanWork`, `WaitingJobCounts` |
| `capture` | two booklets, two students, one question, two regions, two requests | types, `LinkIsResolved`, `MappedIsAnswered` |
| `pdf_split` | one booklet, two requests, two runs, two attempts; Redis, storage, service and lock faults | types (pages once), `WaitingSplitSettles`, `RetryIsQueued` |
| `ocr` | one answer, two boxes, one request, two runs, two attempts, one grading; all faults | types, `GradedOnItsBox`, `OnlyErrorsDeadLetter`, `WaitingAnswerIsRead` |
| `mastery` | one topic, two topic sets, two marks, two runs, two attempts; all faults | types, `OneInterventionPerEpisode`, `ClaimsAreAnswered`, `QueuedMarksCount` |
| `reports` | a report and its reissue, two requests, two runs, two attempts; all faults | types, `EveryReportSettles`, `OriginalIsKept` |
| `exams` | one exam, two students, three requests, eight moves | types, `LogTellsLock`, `FlowsInStages` |
| `sessions` | two tabs, three tokens, a grace window of two ticks, requests of one, two token versions, a user suspended and reactivated; contention and errors | types, `OneLiveTokenPerSession`, `HonestNeverFlagged`, `CookieIsCurrent` |
| `enrolment` | two people, two batches, two requests, plans of none and one | types, `OverbookingIsBounded`, `HistoryTellsBatch`, `BarredStayOut` |

Why the bounds are enough: a wrong mark needs a version that was read, one that
overtook it and the one written over both, hence three versions of an answer;
a wrong lock needs a gate and something that overtakes its commit (a mark, an
answer, a deletion), hence three delivery steps (start, lock, unlock); that a
second admin is refused by the version guard is part of the proof, for any
number of them; a lost recalculation needs two marks of one answer and a job
that fails for the last time, hence `MaxRevision >= 2` and `Attempts >= 2`; a
region without an answer needs a sync and one other request that draws, moves,
deletes or links under it, and an answer that is shared needs two regions of one
question, in one booklet or two. The `capture` run stops where a request has
failed (`Whole`): nothing repeats its sync, so `MappedIsAnswered` says nothing of
that document afterwards.

In the runs over `JobQueue` two runs are a run that lost its lock and its
successor; a third would repeat what the first does. Two attempts are a retry
and a dead letter. A second request is somebody who asks again in the middle.
A box is moved away and back with two boxes; an intervention needs a weak mark
and a recovery, or two weak ones. A stale version needs two requests in `exams`,
and the third is one that overtakes a deletion. In `sessions` three tokens are a
login, its successor and the successor's or a second login; the grace window is
twice `Transit`, as 30 s are to a request, and what depends on it is
`HonestNeverFlagged`. In `enrolment` one place and two requests are the boundary.

Processes of one kind hold no identity, so they are symmetric; the runs with a
liveness property use no symmetry.

Deadlock is checked in the runs of `Evaluation`, whose bound on the delivery is
odd: it ends in EVALUATING, where an administrator can try the gate again, in
that of `Capture`, where a page can always be looked at or a region redrawn, and
in that of `Enrolment`, where somebody can always be allowed or not. It is not
checked in the others, which may really stop: every mark of the bound is given,
every token issued, the exam deleted, and every job done.

### What the documentation says and the code does not do

These statements quote a line of the repository and are stated in the modules,
under the heading "Stated by the repository, and refuted by TLC". Naming one as
a property of the run of its module, with the constants given where they differ,
makes TLC show the behaviour.

| Module | Statement | What happens |
|---|---|---|
| `Evaluation` | `LockedCoversEveryAnswer` (docs/32-AI-GOVERNANCE-POLICY.md:48) | an answer is synced between the gate and the lock, or later |
| `Evaluation` | `HumanMarksHaveCriteria` (docs/25-EVALUATION-ENGINE.md:68) | ACCEPT_AI lands before the AI's criterion scores and copies none |
| `ScoreAggregation` | `RecordIsCurrentAtRest` (docs/25-EVALUATION-ENGINE.md:95) | a second mark is deduplicated against a run that has read already |
| `ScoreAggregation` | `EnqueueSchedules` (`enqueue.ts:75`) | the job fails between isFailed() and add(), which is ignored |
| `Capture` | `ApprovedMarksNeedConsent` (`documents.service.ts:762`) | the mark is approved between the check and the deletion of the answer |
| `Capture` | `EveryRegionIsAnswered` (`sync-page-region-responses.ts:4`) | two regions of one question share an answer; deleting the one it was synced from last takes it from the other |
| `Capture` | `OneBookletPerStudent` (docs/30-IDENTITY-PAGE-MAPPING.md:41) | two confirmations compare before either links, the attempt being there already |
| `PdfSplit` | `RetryHasWork` (`documents.service.ts:525`) | the enqueue of a reprocess fails after PAGE_PROCESSING is set; and without any fault, its add is ignored because a run that has just failed the document still holds the job |
| `PdfSplit` | `FailedIsUnreadable` (`documents.service.ts:365`) | the renderer answers 422 to a file it could not download, too |
| `PdfSplit` | `FailedHasNoPages` (the same) | of two overlapping runs one commits the pages and the other, refused for the same reason, then sets FAILED |
| `Ocr` | `MovedBoxIsRead` (`documents.service.ts:588`) | the job of the old box is still running when the new one is queued under the same id |
| `Mastery` | `NothingIsPassedOver` (`analytics.service.ts:25`) | an error in one topic is logged, and the call succeeds |
| `Mastery` | `RecoveredIsUnclaimed` (`mastery_engine.py:135`) | a calculation that read the weak marks claims after the recovery was written |
| `Exams` | `PublishedIsKept` (`exams.service.ts:287`) | the exam is published between the check of the stage and the deletion |
| `Sessions` | `ForcedLogoutIsFinal` (`users.service.ts:216`) | the successor of a rotation under way is not among the rows that are swept |
| `Sessions` | `TabsStaySignedIn` (docs/38-SESSION-AND-REFRESH-TOKENS.md) | the losing tab is told to retry and goes to the login page |
| `Enrolment` | `PlanLimitHolds` (`students.service.ts:56`) | two transactions count before either inserts |

More of the kind is visible in the actions:

* `decide()` and `override()` move the pointer unconditionally (`DeskPointAs`),
  so with them the history of an answer forks, which docs/25-EVALUATION-ENGINE.md:94
  excludes; `HistoryNeverForks` is checked without them.
* `decide()` does not look at the lock (`DeskRead`), and a sheet loaded before
  the lock is saved after it (`SheetCommit` has no guard on the delivery, as
  `checked-copy.service.ts:138` has none), where
  docs/DIGITAL-ANSWER-SHEET-EVALUATION-FLOW.md:131 says that a LOCKED assessment
  refuses edits.
* `decide()` after `override()` sets TEACHER_REVIEWED (`DeskPoint`), where
  docs/05-API-SPECIFICATION.md:472 promises a 409.
* A queued recalculation that read earlier may upsert after the inline one
  (`UpsertRecord` is unconditional), and the marks go back until the next run;
  `queue-policy.ts:114` says that the last writer converges.
* An answer synced after the record was finalized leaves it finalized
  (`Arrive`), where `students.service.ts:271` takes isFinalized for complete.
* A document confirmed twice at once moves to the second student, and the
  answers of the first one stay (`ConfirmCommit` takes none away).
* A grade is committed whatever the status of the exam has become
  (`CommitGrades` has no guard on it), a lock included.
* A student an admin has enrolled cannot sign in with Google: the upsert goes by
  the Google subject, of which the enrolment made one up (`UpsertUser`, the case
  `"local"`).
* A report that is QUEUED or PROCESSING when a mark is corrected is not reissued
  (`Override` looks for COMPLETE ones), and may have read the old mark.
* A reissue whose enqueue fails stays QUEUED (`GiveUp`: only `requestReport()`
  takes a row back), and of two overrides the second one fails on the unique key
  (`ReissueOne`) with the rest of its reissues undone.

### Fairness

Safety runs assume none. The `FairSpec`s assume that the queue and its workers,
as a whole, do not stop: while a job waits, a delay has expired or a run can go
on, one of these steps is taken. A worker polls for as long as it lives, BullMQ
promotes what is due, and Node and uvicorn run every pending callback. It is one
weak fairness for all of them, which lets any one run be overtaken for as long
as another has work; that no job is left behind is shown, not assumed. No one has
to mark anything, to ask again, or to finish an inline recalculation, and a fault
never has to happen or to stop: a dead letter is therefore an end the properties
allow, beside pages, a verdict, or a reading.

Some models assume more. In `ScoreAggregation` and `PdfSplit` a request inside
`enqueueDeduped()` goes on or gives up, as `withTimeout()` bounds its wait for
Redis: one that stopped between its remove and its add would leave no job. In
`PdfSplit` one that is about to count the pages does, or fails; nothing is
assumed of the steps before. In
`Ocr` the provider does not answer 429 for ever (`SF` on `ExtractText`; the code
has no limit on delays of its own).

In `PdfSplit` a request that failed on its caller is an end too, of
`WaitingSplitSettles` and of `RetryIsQueued`: it may have removed the job of
another one, or the one that made another's add a no-op, and not have come to its
own add. `RetryIsQueued` starts where no run is under way: a run that is about to
end makes the add of the retry a no-op as well (`RetryHasWork`). The runs of
`Ocr` and `Mastery` have one request at a time, which may fail and be repeated;
there the properties hold without that end. With two requests
`WaitingAnswerIsRead` fails as `WaitingJobCounts` does (below).

`WaitingJobCounts` is stated from a job that is *waiting*, not from a mark that
was given: the stronger statement is false (`RecordIsCurrentAtRest`,
`EnqueueSchedules`). With two requests **and** Redis outages even the weaker one
fails: a request that saw a failed job removes the live job another one has
queued since (`enqueue.ts:105` goes by the id), and then gives up. The same
happens with one request if Redis outages and evictions meet. The two liveness
runs of `ScoreAggregation` split the faults accordingly.

## Proofs

`EvaluationProofs` proves about `Evaluation`, for any number of answers,
processes and steps:

* `TypeCorrect`, `LockIsSound`, `HumanMarksAreKept`, `StatusIsFaithful`,
  `SubmissionIsWhole`: most safety properties of `evaluation` and
  `evaluation_sheets`. They rest on the inductive invariant `IInv`. None of the
  properties is inductive by itself, because the pending steps act on what was
  read some steps ago; the invariant says what a pending step may still rely on:
  the version a request is about to point to exists and has the source its kind
  writes; a version that was human once stays human (rows are only appended or
  marked), so an answer that was approved when a sheet was loaded or the gate
  counted is approved when it commits; a gate that has passed either still
  describes the marks or its delivery version is stale.
* `Refinement`: `Spec => Ledger!Spec`, from the same invariant; and from it
  `ApprovalsStand`: what the ledger promises of an approved mark
  (`MarkLedger!ApprovalStands`) holds of every interleaving of the handlers.
* `HistoryIsSound`, `HistoryIsLinear`, `SuggestionsAreLinear`: the chain of
  versions. They need a second invariant beside the first, `ChainInv`: what a
  process has inserted is its own until it counts, so that no two processes hold
  the same row and nobody continues it; every version continues an earlier one,
  which counted unless the row is gone; and of two versions that a
  compare-and-swap made current, no two continue the same one, because the
  first one to succeed moved the pointer from it. Without a desk
  (`Desk = {}`, the assumption of `HistoryIsLinear` and the instance of
  `evaluation_sheets`) every version is swapped in; with desks, whose pointer
  moves unconditionally, it remains true of the suggestions
  (`SuggestionsNeverFork`).

and about `Mastery`, for any number of topic sets, calculations and attempts:
`MasteryTypeCorrect`, `WeaknessIsAnsweredOnce` and `ClaimsAreKept`. The
invariant counts: the rows of each record and the calculations that are about to
write one are together no more than the rows of the record before it, and those
of the first no more than the claims, cleared or standing. The claim is the one
place where a calculation enters the records, and enters one of them only if it
set the claim. That only finitely many calculations are under way is part of the
invariant, not an assumption.

`JobQueueProofs` has the lemmas about a job that the proofs over `JobQueue`
share: what each operation of the queue makes of a *sound* job, one that has no
history when it is not there, an attempt left while it may run, and a holder
only while it runs.

`AssessmentProofs` proves `TypeCorrect`, `RecordsAreHumanWork` and
`MarksFollowLedger` (the queue and the records leave the marks to the ledger) about
`ScoreAggregation`. The invariant says that the result of any running
recalculation already is human work with revisions no larger than the answers
have now, which no mark, retry or overtaking run can undo. About `Exams` it
proves `ExamTypeCorrect`, `AuditTellsLock` and `ImplementsStatusFlow`. What makes
a write that was decided some steps ago legal is that its version is still that
of the row: the invariant relates the version, the stage and what a request has
seen with the same version.

`CaptureProofs` proves `TypeCorrect`, `LinksFollowResolutions` and
`MappedRegionsAreAnswered` about `Capture`. The last is the one a reader would
argue about, and it is not inductive: while requests run there are regions
without answers. The invariant says who owes them: every mapped region of a
linked document has its answer, or some request that is past its write will
still give it one (`Covered`, with `Owes`). A request that has listed the regions
owes only what it listed and only to the student it read; that this is enough is
because every write of a region or a link is followed by a list of its own. At
rest nobody owes anything.

About `PdfSplit` it proves `SplitTypeCorrect`, which says that the pages are there
once, whatever runs overlap.

`EnrolmentProofs`: `TypeCorrect`, `OverbookingBound`, `HistoryCorrect` and
`ArchiveHolds`. The bound is not inductive: the invariant is that those enrolled
and the requests that have counted and not inserted yet are together fewer than
the largest limit and the number of requests.

`SessionsProofs`: `TypeCorrect` and `SessionsNeverFork` rest on `IInv`: a family
goes back to a token of its own, what a rotation has claimed is live until it
commits, since whoever revokes waits for the lock of the row, and two rotations
never hold a claim on the same token. `CookieStaysCurrent` and
`HonestTabsAreSafe` rest on a second one, `HonestInv`, of what a browser whose
answers all arrive may hold: the cookie is the newest token of its session or
the answer that replaces it is on its way; a token whose successor has not
arrived has not been used; and a request that presents a replaced token left
before the successor arrived, so that the token's age is at most one transit and
the time that request has taken. Both assume
that no answer is lost (`"lost"` not among the faults; with lost answers the
cookie stays old and the next refresh looks like a replay, which is what the
server's check is for), and `HonestTabsAreSafe` that the grace window is as long
as two transits, as 30 s are to a request. Both assumptions are needed: with
`"lost"` in `Faults`, or `Grace = 1`, TLC refutes the property.

`OcrProofs`: `TypeCorrect`, `GradesTheRightBox` and `PausesCostNothing`. The
invariant: a run that has located its answer files its reading under the box it
located, so that every stored reading is one of its block's box, whatever the
region has become; and the errors are as many as the attempts made, stalls and
pauses notwithstanding.

`ReportsProofs`: `TypeCorrect`, `ReportsSettle` and `OriginalsAreKept`. No
transaction spans the row of a report, its job and its run, and none of the
writes has a condition. The invariant says what each of the three tells of the
others, as long as no lock was lost: a run holds the job of its report, where it
is determines the status, a job that waits belongs to a report that is not
complete, and a report without a job is queued by exactly one request or has its
outcome.

Every strengthening was checked by TLC as an invariant of the run of its module
before it was proved. Assumptions are the named `ASSUME`s of the modules: the
types of the constants, that null values are no members, in `Mastery` that there
is a topic set, and in `Enrolment` that people and requests are finite; nothing
about their size otherwise. `Desk = {}`, `"lost"` not in `Faults` and
`2 * Transit <= Grace` are assumptions of the theorems that name them, and
hold in the runs that check the same property.

Every safety property of the runs is proved. Model-checked only are the liveness
properties `WaitingJobCounts`, `WaitingSplitSettles`, `RetryIsQueued`,
`WaitingAnswerIsRead` and `QueuedMarksCount`, since fairness and ENABLED are out of the prover's reach.

## Not modelled, and what is left

* The web application: about 39,000 of the 57,000 implementation lines are React
  screens and data hooks (`useApi.ts` alone has 2,900) that render what the API
  answers. Of the client only the session code keeps state that several parties
  change, and it is in `Sessions`. Lines of screens are therefore not mapped.
* CRUD over single rows: batches, teachers, timetable, attendance, assignments,
  doubts, tickets, permissions, feature flags, evaluation policies, capture
  providers, audit. A model would restate single assignments.
* `Notices`: rows inserted once and one idempotent conditional update. Its one
  hazard, an enqueue that fails after the rows are committed, is listed with
  that of the AI evaluation.
* Papers, blueprint generation, rubrics and questions: approvals of single rows;
  the next candidates, with the earlier statuses of an `AssessmentDelivery`,
  whose table and guard `Exams` shows.
* The Redis key that makes an upload idempotent, the cached allow-list entry,
  the HTTP throttler's counters, the removal of expired tokens.
* Storage, providers, configuration and infrastructure: a call that is slow,
  refused or fails is a fault of whoever makes it.
