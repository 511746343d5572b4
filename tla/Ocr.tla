-------------------------------- MODULE Ocr --------------------------------
(***************************************************************************)
(* Reading one handwritten answer.  enqueueForDocument() queues the answer *)
(* region for extraction; a run of the job has the Python service crop the *)
(* box the region has by then, read it, and file the reading under a block *)
(* for that box; the AI evaluator grades on the reading of the box it      *)
(* finds.  A teacher may move the box at any time, and move it back.       *)
(***************************************************************************)
EXTENDS JobQueue, FiniteSets

CONSTANTS
  Box,       \* boxes the region may have, equal to no more than BOX_TOLERANCE
  Request,   \* concurrent enqueueForDocument() requests
  Faults     \* "redis" enqueues, "service" an extraction, "slow" ones,
             \* "worker" the lock on a job

ASSUME OcrAssumption ==
  /\ "nowhere" \notin Box
  /\ Faults \subseteq {"redis", "service", "slow", "worker"}

VARIABLES
  region,    \* PageRegion.boundingBox
  job,       \* the job ocr-<regionId>-HANDWRITTEN_TEXT
  errors,    \* history: attempts of this job that ended in an error
  request,   \* where each request is
  blocks,    \* the boxes for which there are OCRBlock rows
  results,   \* OCRResult rows: the box of their block, the box they were read from
  run,       \* each execution of the extract route
  grader     \* one execution of evaluate_response()

vars == <<region, job, errors, request, blocks, results, run, grader>>

Result == [block : Box, from : Box]

TypeOK ==
  /\ region \in Box
  /\ job \in Job /\ errors \in 0 .. Attempts
  /\ request \in [Request -> {"idle"} \cup Enqueuing]
  /\ blocks \subseteq Box
  /\ results \subseteq Result /\ \A x \in results : x.block \in blocks
  /\ run \in [Run -> [at : {"idle", "started", "located", "filing", "reading", "read", "done"},
                      box : Box \cup {"nowhere"}, block : Box \cup {"nowhere"}]]
  /\ grader \in [at : {"idle", "located", "filed", "graded"},
                 box : Box \cup {"nowhere"}, from : Box \cup {"nowhere"}]

NoRun == [at |-> "idle", box |-> "nowhere", block |-> "nowhere"]
NoGrade == [at |-> "idle", box |-> "nowhere", from |-> "nowhere"]

Init ==
  /\ region \in Box
  /\ job = NoJob /\ errors = 0
  /\ request = [q \in Request |-> "idle"]
  /\ blocks = {} /\ results = {}
  /\ run = [r \in Run |-> NoRun]
  /\ grader = NoGrade

\* hasCurrentOcr()
isRead(b) == \E x \in results : x.block = b

-----------------------------------------------------------------------------
(* Requests                                                                *)

\* updateRegion(): the readings stay.
MoveBox ==
  /\ \E b \in Box \ {region} : region' = b
  /\ UNCHANGED <<job, errors, request, blocks, results, run, grader>>

\* enqueueForDocument() looks at the regions, ...
FindUnread(q) ==
  /\ request[q] = "idle" /\ ~isRead(region)
  /\ request' = [request EXCEPT ![q] = "checking"]
  /\ UNCHANGED <<region, job, errors, blocks, results, run, grader>>

\* ... and queues each of them.
EnqueueExtraction(q) ==
  /\ request[q] \in Enqueuing
  /\ request' = [request EXCEPT ![q] = EnqueueMoves(@, job)]
  /\ job' = EnqueueSends(request[q], job)
  /\ errors' = IF job = NoJob THEN 0 ELSE errors
  /\ UNCHANGED <<region, blocks, results, run, grader>>

\* QueueUnavailableError, or the process dies; somebody may ask again.
GiveUp(q) ==
  /\ "redis" \in Faults
  /\ request[q] \in Enqueuing
  /\ request' = [request EXCEPT ![q] = "idle"]
  /\ UNCHANGED <<region, job, errors, blocks, results, run, grader>>

-----------------------------------------------------------------------------
(* OcrProcessor, requestOcrExtraction() and the extract route              *)

StartRun(r) ==
  /\ run[r].at = "idle" /\ job.state = "waiting"
  /\ job' = Taken(job, r)
  /\ run' = [run EXCEPT ![r].at = "started"]
  /\ UNCHANGED <<region, errors, request, blocks, results, grader>>

\* The box is that of the region now, not of the request.
FindRegion(r) ==
  /\ run[r].at = "started"
  /\ run' = [run EXCEPT ![r].at = "located", ![r].box = region]
  /\ UNCHANGED <<region, job, errors, request, blocks, results, grader>>

\* Mutant: the region's block, whatever box it was read from.
FindAnyBlock(r) ==
  LET b == run[r].box IN
  /\ run[r].at = "located"
  /\ run' = [run EXCEPT ![r] = IF blocks = {} THEN [@ EXCEPT !.at = "filing", !.block = b]
               ELSE [@ EXCEPT !.at = "reading", !.block = CHOOSE c \in blocks : TRUE]]
  /\ UNCHANGED <<region, job, errors, request, blocks, results, grader>>

\* find_many() and same_box()
FindBlock(r) ==
  LET b == run[r].box IN
  /\ run[r].at = "located"
  /\ run' = [run EXCEPT ![r].at = IF b \in blocks THEN "reading" ELSE "filing",
                        ![r].block = b]
  /\ UNCHANGED <<region, job, errors, request, blocks, results, grader>>

CreateBlock(r) ==
  /\ run[r].at = "filing"
  /\ blocks' = blocks \cup {run[r].block}
  /\ run' = [run EXCEPT ![r].at = "reading"]
  /\ UNCHANGED <<region, job, errors, request, results, grader>>

\* extract_text(): the crop, and the provider's answer to it.
ExtractText(r) ==
  /\ run[r].at = "reading"
  /\ run' = [run EXCEPT ![r].at = "read"]
  /\ UNCHANGED <<region, job, errors, request, blocks, results, grader>>

\* A new OCRResult, never an overwrite.
CreateResult(r) ==
  /\ run[r].at = "read"
  /\ results' = results \cup {[block |-> run[r].block, from |-> run[r].box]}
  /\ run' = [run EXCEPT ![r] = [NoRun EXCEPT !.at = "done"]]
  /\ UNCHANGED <<region, job, errors, request, blocks, grader>>

CompleteRun(r) ==
  /\ run[r].at = "done"
  /\ job' = Completed(job, r)
  /\ run' = [run EXCEPT ![r] = NoRun]
  /\ UNCHANGED <<region, errors, request, blocks, results, grader>>

\* Mutant: the processor rethrows the rate limit as any other error.
RetryRateLimited(r) ==
  /\ run[r].at = "reading"
  /\ job' = Thrown(job, r)
  /\ run' = [run EXCEPT ![r] = NoRun]
  /\ UNCHANGED <<region, errors, request, blocks, results, grader>>

\* The provider's 429: deferIfRateLimited().
RateLimited(r) ==
  /\ run[r].at = "reading"
  /\ job' = Deferred(job, r)
  /\ run' = [run EXCEPT ![r] = NoRun]
  /\ UNCHANGED <<region, errors, request, blocks, results, grader>>

Throw(r) ==
  /\ job' = Thrown(job, r)
  /\ errors' = IF job.holder = r THEN errors + 1 ELSE errors
  /\ UNCHANGED <<region, request, blocks, results, grader>>

\* Mutant: a failed HTTP call is logged and the job completes.
CompleteFailed(r) ==
  /\ "service" \in Faults /\ run[r].at # "idle"
  /\ run' = [run EXCEPT ![r] = NoRun]
  /\ job' = Completed(job, r)
  /\ UNCHANGED <<region, errors, request, blocks, results, grader>>

\* No active model, a failed extraction or statement, or the service dies.
FailRun(r) ==
  /\ "service" \in Faults /\ run[r].at # "idle"
  /\ run' = [run EXCEPT ![r] = NoRun]
  /\ Throw(r)

\* The API stops waiting after 60 s; the extraction goes on.
TimeOut(r) ==
  /\ "slow" \in Faults /\ job.holder = r
  /\ UNCHANGED run
  /\ Throw(r)

StallRun(r) ==
  /\ "worker" \in Faults /\ job.holder = r
  /\ job' = Stalled(job)
  /\ UNCHANGED <<region, errors, request, blocks, results, run, grader>>

PromoteJob ==
  /\ job.state = "delayed"
  /\ job' = Promoted(job)
  /\ UNCHANGED <<region, errors, request, blocks, results, run, grader>>

-----------------------------------------------------------------------------
(* evaluate_response(): _current_ocr_result()                              *)

LocateAnswer ==
  /\ grader.at = "idle"
  /\ grader' = [NoGrade EXCEPT !.at = "located", !.box = region]
  /\ UNCHANGED <<region, job, errors, request, blocks, results, run>>

\* No block for this box: the answer goes to the human queue.
FindEvidence ==
  /\ grader.at = "located"
  /\ grader' = IF grader.box \in blocks THEN [grader EXCEPT !.at = "filed"] ELSE NoGrade
  /\ UNCHANGED <<region, job, errors, request, blocks, results, run>>

\* The blocks of this box may be empty.  Of several readings the latest is
\* taken; which of them that is, the model leaves open.
GradeEvidence ==
  LET current == {x \in results : x.block = grader.box} IN
  /\ grader.at = "filed"
  /\ \/ \E x \in current : grader' = [grader EXCEPT !.at = "graded", !.from = x.from]
     \/ current = {} /\ grader' = NoGrade
  /\ UNCHANGED <<region, job, errors, request, blocks, results, run>>

\* The suggestion is recorded, or replaced by the next one.
EndGrading ==
  /\ grader.at = "graded"
  /\ grader' = NoGrade
  /\ UNCHANGED <<region, job, errors, request, blocks, results, run>>

GraderNext == LocateAnswer \/ FindEvidence \/ GradeEvidence \/ EndGrading

-----------------------------------------------------------------------------

RunStep(r) ==
  \/ FindRegion(r) \/ FindBlock(r) \/ CreateBlock(r) \/ CreateResult(r) \/ CompleteRun(r)
  \/ ExtractText(r) \/ RateLimited(r)

Next ==
  \/ MoveBox \/ PromoteJob
  \/ \E q \in Request : FindUnread(q) \/ EnqueueExtraction(q) \/ GiveUp(q)
  \/ \E r \in Run : StartRun(r) \/ RunStep(r) \/ FailRun(r) \/ TimeOut(r) \/ StallRun(r)
  \/ GraderNext

Spec == Init /\ [][Next]_vars

\* The queue and its workers do not stop as long as a job or a run can go on,
\* and the provider does not answer 429 for ever.  Nobody has to ask again.
Fairness ==
  /\ WF_vars(PromoteJob \/ \E r \in Run : StartRun(r) \/ RunStep(r))
  /\ SF_vars(\E r \in Run : ExtractText(r))

FairSpec == Spec /\ Fairness
-----------------------------------------------------------------------------
(* Properties *)

\* region_box.py:3: a transcript is evidence only for the box it was read
\* from.  Whatever the evaluator grades on was read from the box the region
\* had when it looked, however often the box was moved, and back, while
\* extractions overlapped.
GradedOnItsBox == grader.at = "graded" => grader.from = grader.box

\* provider-rate-limit.ts:9: a provider that asks for pauses costs a job no
\* attempts: every attempt a dead-lettered job has made ended in an error, and
\* it has made all of them unless its worker stalled, which is fatal twice.
OnlyErrorsDeadLetter ==
  job.state = "failed" => errors = job.made /\ (job.made = Attempts \/ job.stalled)

\* An answer whose extraction waits in the queue is read, unless its box is
\* moved or the job dead-letters: pauses, retries, overlapping extractions,
\* and a teacher asking for it again notwithstanding, one request at a time
\* (of two, one may remove the job of the other, and fail).
WaitingAnswerIsRead ==
  \A b \in Box :
    job.state = "waiting" /\ region = b ~>
      isRead(b) \/ region # b \/ job.state = "failed"

-----------------------------------------------------------------------------
(* Stated by the repository, and refuted by TLC: see README.md *)

\* documents.service.ts:588: a box that was moved and asked for again is read.
MovedBoxIsRead ==
  \A b \in Box :
    region = b /\ (\E q \in Request : request[q] = "checking") ~>
      isRead(b) \/ region # b \/ job.state = "failed"
=============================================================================
