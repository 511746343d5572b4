--------------------------- MODULE JobQueueProofs ---------------------------
(***************************************************************************)
(* What the operations of JobQueue make of a job, for any number of runs   *)
(* and attempts: a sound job stays one, and each operation has the state,  *)
(* the attempts and the holder its users go by.  The proofs about the      *)
(* queues rest on these facts.                                             *)
(***************************************************************************)
EXTENDS JobQueue, TLAPS

\* A job that is not there has no history, one that may still run has an
\* attempt left, and only a running one is held.
JobSound(j) ==
  /\ j.state = "none" => j = NoJob
  /\ j.state \in {"waiting", "active", "delayed"} => j.made < Attempts
  /\ j.holder # "nobody" => j.state = "active"

-----------------------------------------------------------------------------

\* The null job and a new one are jobs.
LEMMA NewJobs ==
  /\ NoJob \in Job /\ JobSound(NoJob)
  /\ NoJob.state = "none" /\ NoJob.holder = "nobody"
  /\ NewJob \in Job /\ JobSound(NewJob)
  /\ NewJob.state = "waiting" /\ NewJob.made = 0 /\ NewJob.holder = "nobody"
  /\ NewJob # NoJob
<1>1. 0 \in 0 .. Attempts /\ 0 < Attempts
  BY JobQueueAssumption DEF JobQueueAssumption
<1>2. NoJob \in Job /\ JobSound(NoJob) /\ NoJob.state = "none" /\ NoJob.holder = "nobody"
  BY <1>1 DEF NoJob, Job, JobSound
<1>3. NewJob \in Job
  BY <1>2 DEF NewJob, Job
<1>4. NewJob.state = "waiting" /\ NewJob.made = 0 /\ NewJob.holder = "nobody"
  BY <1>2 DEF NewJob, NoJob
<1>5. JobSound(NewJob) /\ NewJob # NoJob
  BY <1>1, <1>2, <1>4 DEF JobSound
<1> QED BY <1>2, <1>3, <1>4, <1>5

\* An add is ignored, or leaves a new job.
LEMMA Adding ==
  ASSUME NEW j \in Job, JobSound(j)
  PROVE  /\ Added(j) \in Job /\ JobSound(Added(j))
         /\ j.state # "none" => Added(j) = j
         /\ j.state = "none" => Added(j) = NewJob
  BY NewJobs DEF Added

\* A sound job stays sound in the enqueue, which adds one without attempts or
\* leaves its attempts as they are; a running job is left alone.
LEMMA Enqueueing ==
  ASSUME NEW j \in Job, JobSound(j), NEW at \in Enqueuing
  PROVE  /\ EnqueueSends(at, j) \in Job /\ JobSound(EnqueueSends(at, j))
         /\ \/ EnqueueSends(at, j) = NoJob /\ j.state # "active"
            \/ EnqueueSends(at, j) = j
            \/ j = NoJob /\ EnqueueSends(at, j) = NewJob
<1>1. CASE at = "checking"
  BY <1>1 DEF EnqueueSends
<1>2. CASE at = "clearing"
  BY <1>2, NewJobs DEF EnqueueSends, Cleared
<1>3. CASE at = "adding"
  BY <1>3, NewJobs DEF EnqueueSends, Added, JobSound
<1> QED BY <1>1, <1>2, <1>3 DEF Enqueuing

\* Where a request goes on inside the enqueue, until it has returned.
LEMMA EnqueueReturns ==
  ASSUME NEW j, NEW at \in Enqueuing
  PROVE  /\ EnqueueMoves(at, j) \in {"idle"} \cup Enqueuing
         /\ at # "adding" => EnqueueMoves(at, j) \in Enqueuing
<1>1. CASE at = "checking"
  BY <1>1 DEF EnqueueMoves, Enqueuing
<1>2. CASE at = "clearing"
  BY <1>2 DEF EnqueueMoves, Enqueuing
<1>3. CASE at = "adding"
  BY <1>3 DEF EnqueueMoves, Enqueuing
<1> QED BY <1>1, <1>2, <1>3 DEF Enqueuing

\* A job a worker takes.
LEMMA Taking ==
  ASSUME NEW j \in Job, JobSound(j), j.state = "waiting", NEW r \in Run
  PROVE  /\ Taken(j, r) \in Job /\ JobSound(Taken(j, r))
         /\ Taken(j, r).state = "active" /\ Taken(j, r).holder = r
         /\ Taken(j, r).made = j.made
         /\ j # NoJob
  BY NewJobs, JobQueueAssumption DEF JobQueueAssumption, Taken, Job, JobSound, NoJob

\* A job whose delay expires.
LEMMA Promoting ==
  ASSUME NEW j \in Job, JobSound(j), j.state = "delayed"
  PROVE  /\ Promoted(j) \in Job /\ JobSound(Promoted(j))
         /\ Promoted(j).state = "waiting" /\ Promoted(j).holder = "nobody"
         /\ Promoted(j).made = j.made
         /\ j # NoJob
  BY NewJobs DEF Promoted, Job, JobSound, NoJob

\* What holds a job is a run, and the job has an attempt left.
LEMMA Holding ==
  ASSUME NEW j \in Job, JobSound(j), NEW r \in Run, j.holder = r
  PROVE  /\ r # "nobody" /\ j.state = "active" /\ j # NoJob
         /\ j.made < Attempts /\ j.made \in 0 .. Attempts
  BY NewJobs, JobQueueAssumption DEF JobQueueAssumption, JobSound, Job

\* A run that reports an error uses an attempt up, if it holds the job.
LEMMA Throwing ==
  ASSUME NEW j \in Job, JobSound(j), NEW r \in Run, j.holder = r
  PROVE  /\ Thrown(j, r) \in Job /\ JobSound(Thrown(j, r))
         /\ Thrown(j, r).state \in {"delayed", "failed"} /\ Thrown(j, r).holder = "nobody"
         /\ Thrown(j, r).made = j.made + 1 /\ Thrown(j, r).made \in 0 .. Attempts
         /\ Thrown(j, r).state = "failed" => Thrown(j, r).made = Attempts
<1>0. j.made < Attempts /\ j.made \in 0 .. Attempts /\ j.made + 1 \in 0 .. Attempts
  BY Holding, JobQueueAssumption DEF JobQueueAssumption
<1>1. Thrown(j, r) = Refused(j)
  BY DEF Thrown, IfHolder
<1>2. /\ Refused(j) \in Job
      /\ Refused(j).state = IF j.made + 1 < Attempts THEN "delayed" ELSE "failed"
      /\ Refused(j).made = j.made + 1 /\ Refused(j).holder = "nobody"
  BY <1>0 DEF Refused, Job
<1> QED BY <1>0, <1>1, <1>2, JobQueueAssumption DEF JobQueueAssumption, JobSound

\* A run that does not hold the job reports to nobody.
LEMMA NotHolding ==
  ASSUME NEW j, NEW r, j.holder # r
  PROVE  Thrown(j, r) = j /\ Deferred(j, r) = j /\ Completed(j, r) = j
  BY DEF Thrown, Deferred, Completed, IfHolder

\* A run that reports an error or its end, holding the job or not.
LEMMA Reporting ==
  ASSUME NEW j \in Job, JobSound(j), NEW r \in Run
  PROVE  /\ Thrown(j, r) \in Job /\ JobSound(Thrown(j, r))
         /\ Completed(j, r) \in Job /\ JobSound(Completed(j, r))
<1>1. CASE j.holder = r
  BY <1>1, Throwing, NewJobs DEF Completed, IfHolder
<1>2. CASE j.holder # r
  BY <1>2, NotHolding
<1> QED BY <1>1, <1>2

\* A job that is paused keeps its attempts.
LEMMA Pausing ==
  ASSUME NEW j \in Job, JobSound(j), NEW r \in Run, j.holder = r
  PROVE  /\ Deferred(j, r) \in Job /\ JobSound(Deferred(j, r))
         /\ Deferred(j, r).state = "delayed" /\ Deferred(j, r).holder = "nobody"
         /\ Deferred(j, r).made = j.made
  BY Holding DEF Deferred, IfHolder, Job, JobSound

\* A job whose worker lost the lock, or died.
LEMMA Stalling ==
  ASSUME NEW j \in Job, JobSound(j), NEW r \in Run, j.holder = r
  PROVE  /\ Stalled(j) \in Job /\ JobSound(Stalled(j))
         /\ Stalled(j).state \in {"waiting", "failed"} /\ Stalled(j).holder = "nobody"
         /\ Stalled(j).made = j.made /\ Stalled(j).stalled
  BY Holding DEF Stalled, Job, JobSound
=============================================================================
