------------------------------ MODULE PdfSplit ------------------------------
(***************************************************************************)
(* One uploaded booklet: its status, its pages and the job that renders    *)
(* them.  uploadPdfDocument() stores the file and queues the split; a run  *)
(* of splitPdfDocument() has the pages rendered by the Python service and  *)
(* writes them, or fails the document if the file is refused; reprocess()  *)
(* starts over.  Runs overlap when a worker loses the lock on its job.     *)
(***************************************************************************)
EXTENDS JobQueue

CONSTANTS
  Caller,    \* concurrent uploadDocument() and reprocess() requests
  Faults     \* what may fail: "redis" a request's enqueue, "service" a run,
             \* "worker" its lock, "storage" the renderer's download

ASSUME PdfSplitAssumption == Faults \subseteq {"redis", "service", "worker", "storage"}

VARIABLES
  file,      \* what was uploaded, and whether the renderer can read it
  status,    \* Document.status
  pages,     \* complete sets of Page rows of the document
  validate,  \* ProcessingJob.status of the stage VALIDATE
  job,       \* the job pdf-split-<documentId>
  run,       \* where each run of splitPdfDocument() is
  request    \* where each request is

splitVars == <<file, status, pages, validate, job, run, request>>

File == {"none", "images", "readable", "unreadable"}
isPdf == file \in {"readable", "unreadable"}

\* "A concurrent run won": however runs overlap, a booklet has its pages once.
SplitTypeOK ==
  /\ file \in File
  /\ status \in {"none", "UPLOADED", "PAGE_PROCESSING", "IDENTITY_PENDING", "FAILED"}
  /\ pages \in 0 .. 1
  /\ validate \in {"none", "QUEUED", "SUCCEEDED", "FAILED"}
  /\ job \in Job
  /\ run \in [Run -> {"idle", "started", "rendering", "rejected", "failing",
                      "rendered", "storing", "done"}]
  /\ request \in [Caller -> {"idle", "resetting", "counting", "gone"} \cup Enqueuing]

SplitInit ==
  /\ file = "none" /\ status = "none" /\ validate = "none"
  /\ pages = 0
  /\ job = NoJob
  /\ run = [r \in Run |-> "idle"]
  /\ request = [q \in Caller |-> "idle"]

-----------------------------------------------------------------------------
(* Requests                                                                *)

\* uploadDocument() with page images: document and pages in one transaction.
UploadImages(q) ==
  /\ request[q] = "idle" /\ file = "none"
  /\ file' = "images" /\ status' = "UPLOADED" /\ validate' = "QUEUED"
  /\ pages' = 1
  /\ UNCHANGED <<job, run, request>>

\* uploadPdfDocument(): the transaction; the split is queued after it.
UploadPdf(q) ==
  /\ request[q] = "idle" /\ file = "none"
  /\ file' \in {"readable", "unreadable"}
  /\ status' = "PAGE_PROCESSING" /\ validate' = "QUEUED"
  /\ request' = [request EXCEPT ![q] = "checking"]
  /\ UNCHANGED <<pages, job, run>>

\* reprocess(): the transaction that resets the stages, VALIDATE or only later
\* ones, ...
ResetStages(q) ==
  /\ request[q] = "idle" /\ file # "none"
  /\ validate' \in {validate, "QUEUED"}
  /\ request' = [request EXCEPT ![q] = "resetting"]
  /\ UNCHANGED <<file, status, pages, job, run>>

\* ... the status, whatever it is now, ...
ResetStatus(q) ==
  /\ request[q] = "resetting"
  /\ status' = "PAGE_PROCESSING"
  /\ request' = [request EXCEPT ![q] = "counting"]
  /\ UNCHANGED <<file, pages, validate, job, run>>

\* ... and the split, if there is something to split.
CountPages(q) ==
  /\ request[q] = "counting"
  /\ request' = [request EXCEPT ![q] = IF isPdf /\ pages = 0 THEN "checking" ELSE "idle"]
  /\ UNCHANGED <<file, status, pages, validate, job, run>>

EnqueuePdfSplit(q) ==
  /\ request[q] \in Enqueuing
  /\ request' = [request EXCEPT ![q] = EnqueueMoves(@, job)]
  /\ job' = EnqueueSends(request[q], job)
  /\ UNCHANGED <<file, status, pages, validate, run>>

\* QueueUnavailableError, a database error, or the process dies: the caller
\* sees an error, and asking again is another request.
GiveUp(q) ==
  /\ "redis" \in Faults
  /\ request[q] \notin {"idle", "gone"}
  /\ request' = [request EXCEPT ![q] = "gone"]
  /\ UNCHANGED <<file, status, pages, validate, job, run>>

RequestNext(q) ==
  \/ UploadImages(q) \/ UploadPdf(q)
  \/ ResetStages(q) \/ ResetStatus(q) \/ CountPages(q)
  \/ EnqueuePdfSplit(q) \/ GiveUp(q)

-----------------------------------------------------------------------------
(* splitPdfDocument()                                                      *)

StartRun(r) ==
  /\ run[r] = "idle" /\ job.state = "waiting"
  /\ job' = Taken(job, r)
  /\ run' = [run EXCEPT ![r] = "started"]
  /\ UNCHANGED <<file, status, pages, validate, request>>

\* A document that has its pages is left alone, its status included.
ReadDocument(r) ==
  /\ run[r] = "started"
  /\ run' = [run EXCEPT ![r] = IF pages > 0 THEN "done" ELSE "rendering"]
  /\ UNCHANGED <<file, status, pages, validate, job, request>>

\* POST /documents/render-pdf.  The service answers 422 to a file it cannot
\* read and to one it could not download.
Rejections == {file = "unreadable"} \cup {TRUE : f \in Faults \cap {"storage"}}

Render(r) ==
  /\ run[r] = "rendering"
  /\ \E rejected \in Rejections :
       run' = [run EXCEPT ![r] = IF rejected THEN "rejected" ELSE "rendered"]
  /\ UNCHANGED <<file, status, pages, validate, job, request>>

\* failDocument(): two writes, without a condition.
FailStatus(r) ==
  /\ run[r] = "rejected"
  /\ status' = "FAILED"
  /\ run' = [run EXCEPT ![r] = "failing"]
  /\ UNCHANGED <<file, pages, validate, job, request>>

FailValidate(r) ==
  /\ run[r] = "failing"
  /\ validate' = "FAILED"
  /\ run' = [run EXCEPT ![r] = "done"]
  /\ UNCHANGED <<file, status, pages, job, request>>

\* The images are stored; the transaction looks for pages again.
OpenTransaction(r) ==
  /\ run[r] = "rendered"
  /\ run' = [run EXCEPT ![r] = IF pages > 0 THEN "done" ELSE "storing"]
  /\ UNCHANGED <<file, status, pages, validate, job, request>>

StorePages(r) ==
  /\ run[r] = "storing"
  /\ pages' = pages + 1
  /\ status' = "IDENTITY_PENDING" /\ validate' = "SUCCEEDED"
  /\ run' = [run EXCEPT ![r] = "done"]
  /\ UNCHANGED <<file, job, request>>

\* @@unique([documentId, pageNumber]): one of two transactions commits.
CommitPages(r) == pages = 0 /\ StorePages(r)

CompleteRun(r) ==
  /\ run[r] = "done"
  /\ run' = [run EXCEPT ![r] = "idle"]
  /\ job' = Completed(job, r)
  /\ UNCHANGED <<file, status, pages, validate, request>>

Throw(r) ==
  /\ run' = [run EXCEPT ![r] = "idle"]
  /\ job' = Thrown(job, r)
  /\ UNCHANGED <<file, status, pages, validate, request>>

\* Mutant: the error is logged and the job completes.
Swallow(r) ==
  /\ "service" \in Faults /\ run[r] # "idle"
  /\ run' = [run EXCEPT ![r] = "idle"]
  /\ job' = Completed(job, r)
  /\ UNCHANGED <<file, status, pages, validate, request>>

\* The render service, the store or the database fails, or the process dies.
FailRun(r) == "service" \in Faults /\ run[r] # "idle" /\ Throw(r)

\* The other transaction's pages violate the unique key.
LosePages(r) == run[r] = "storing" /\ pages > 0 /\ Throw(r)

\* The lock is not renewed in time: the job goes to another run.
StallRun(r) ==
  /\ "worker" \in Faults
  /\ job.holder = r
  /\ job' = Stalled(job)
  /\ UNCHANGED <<file, status, pages, validate, run, request>>

PromoteJob ==
  /\ job.state = "delayed"
  /\ job' = Promoted(job)
  /\ UNCHANGED <<file, status, pages, validate, run, request>>

SplitStep(r) ==
  \/ ReadDocument(r) \/ Render(r) \/ FailStatus(r) \/ FailValidate(r)
  \/ OpenTransaction(r) \/ CommitPages(r) \/ LosePages(r) \/ CompleteRun(r)

RunNext(r) == StartRun(r) \/ SplitStep(r) \/ FailRun(r) \/ StallRun(r)

-----------------------------------------------------------------------------

SplitNext ==
  \/ \E q \in Caller : RequestNext(q)
  \/ \E r \in Run : RunNext(r)
  \/ PromoteJob

SplitSpec == SplitInit /\ [][SplitNext]_splitVars

\* The queue and its workers do not stop as long as a job or a run can go on,
\* and a request on its way to the queue goes on or gives up.
Fairness ==
  /\ \A q \in Caller : WF_splitVars(CountPages(q) \/ EnqueuePdfSplit(q))
  /\ WF_splitVars(PromoteJob \/ \E r \in Run : StartRun(r) \/ SplitStep(r))

FairSpec == SplitSpec /\ Fairness
-----------------------------------------------------------------------------
(* Properties *)

\* A split that is waiting for a worker ends with pages, with a document
\* marked FAILED, or dead-lettered: lost locks, retries, overlapping runs and
\* a teacher asking for it again in the middle notwithstanding.  Only a
\* request that failed on its caller half-way may have removed it.
WaitingSplitSettles ==
  job.state = "waiting" ~>
    \/ pages > 0 \/ status = "FAILED" \/ job.state = "failed"
    \/ \E q \in Caller : request[q] = "gone"

\* A teacher who asks again, while no run is under way, for a PDF without
\* pages gets its split into the queue: a dead-lettered one too, and although a
\* second teacher looks up, removes and adds the same job meanwhile.
RetryIsQueued ==
  \A q \in Caller :
    request[q] = "counting" /\ isPdf /\ (\A r \in Run : run[r] = "idle") ~>
      \/ job.state = "waiting" \/ pages > 0 \/ status = "FAILED"
      \/ \E p \in Caller : request[p] = "gone"

-----------------------------------------------------------------------------
(* Stated by the repository, and refuted by TLC: see README.md *)

\* documents.service.ts:525: a teacher who retries does not "wait for a worker
\* that has nothing queued".
SplitAtRest ==
  /\ \A q \in Caller : request[q] \in {"idle", "gone"}
  /\ \A r \in Run : run[r] = "idle"
RetryHasWork ==
  SplitAtRest /\ isPdf /\ pages = 0 /\ status = "PAGE_PROCESSING" => job.state # "none"

\* documents.service.ts:365: a document is FAILED because "the file itself is
\* the problem".  It may be that the renderer could not download it.
FailedIsUnreadable == status = "FAILED" => file = "unreadable"

\* Likewise, that a booklet which has its pages is not FAILED: a run that could
\* not download the file writes over what an overlapping one has committed.
FailedHasNoPages == status = "FAILED" => pages = 0
=============================================================================
