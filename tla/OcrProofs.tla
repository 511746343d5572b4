----------------------------- MODULE OcrProofs -----------------------------
(***************************************************************************)
(* The evaluator grades on a reading of the box it looked at, and only     *)
(* errors and stalls dead-letter an extraction, for any number of boxes,   *)
(* overlapping runs and attempts, whatever fails, times out or is paused.  *)
(***************************************************************************)
EXTENDS Ocr, JobQueueProofs

\* Each attempt that was made ended in an error: a pause makes none.
ErrorsCount == job # NoJob => errors = job.made

\* A run files under the box it looked at, once it has looked at one.
RunsKeepBox ==
  \A r \in Run :
    /\ run[r].at = "located" => run[r].box \in Box
    /\ run[r].at \in {"filing", "reading", "read"} =>
         run[r].box \in Box /\ run[r].block = run[r].box
    /\ run[r].at \in {"reading", "read"} => run[r].block \in blocks

\* Every reading is one of the box of its block.
ReadingsAreTrue == \A x \in results : x.block = x.from

\* The evaluator looks at a box before it looks for evidence.
GraderLooks == grader.at \in {"located", "filed", "graded"} => grader.box \in Box

-----------------------------------------------------------------------------
(* The invariant                                                           *)

\* The part of the invariant that is about the job.
QueueSound ==
  /\ job \in Job /\ errors \in 0 .. Attempts
  /\ JobSound(job) /\ ErrorsCount /\ OnlyErrorsDeadLetter

\* Nothing happens to the job.
LEMMA QueueAlone ==
  ASSUME QueueSound, job' = job, errors' = errors
  PROVE  QueueSound'
  BY DEF QueueSound, ErrorsCount, OnlyErrorsDeadLetter, JobSound

\* The job goes on with the attempts it has made.
LEMMA QueueGoesOn ==
  ASSUME QueueSound, errors' = errors, job # NoJob,
         job' \in Job, JobSound(job'), job'.made = job.made,
         job'.state = "failed" => job'.stalled
  PROVE  QueueSound'
  BY DEF QueueSound, ErrorsCount, OnlyErrorsDeadLetter

\* The job is over.
LEMMA QueueEnds ==
  ASSUME QueueSound, job' = NoJob, errors' = errors
  PROVE  QueueSound'
<1>1. JobSound(job') /\ job' \in Job /\ job'.state = "none"
  BY NewJobs
<1> QED BY <1>1 DEF QueueSound, ErrorsCount, OnlyErrorsDeadLetter

\* An attempt ends in an error, or in one that nobody hears of.
LEMMA QueueThrows ==
  ASSUME QueueSound, NEW r \in Run, Throw(r)
  PROVE  QueueSound'
<1>1. CASE job.holder = r
  <2>1. /\ job' \in Job /\ JobSound(job') /\ job'.made = job.made + 1
        /\ job'.made \in 0 .. Attempts
        /\ job'.state = "failed" => job'.made = Attempts
        /\ job # NoJob
    BY <1>1, Throwing, Holding DEF Throw, QueueSound
  <2>2. errors' = job'.made
    BY <1>1, <2>1 DEF Throw, QueueSound, ErrorsCount
  <2> QED BY <2>1, <2>2 DEF QueueSound, ErrorsCount, OnlyErrorsDeadLetter
<1>2. CASE job.holder # r
  BY <1>2, NotHolding, QueueAlone DEF Throw
<1> QED BY <1>1, <1>2

\* A run reports that it has finished.
LEMMA QueueCompletes ==
  ASSUME QueueSound, NEW r \in Run, job' = Completed(job, r), errors' = errors
  PROVE  QueueSound'
<1>1. CASE job.holder = r
  BY <1>1, QueueEnds DEF Completed, IfHolder
<1>2. CASE job.holder # r
  BY <1>2, NotHolding, QueueAlone
<1> QED BY <1>1, <1>2

\* Every step leaves the job sound.
LEMMA StepQueue ==
  ASSUME QueueSound, TypeOK, [Next]_vars
  PROVE  QueueSound'
<1>1. ASSUME NEW q \in Request, EnqueueExtraction(q) PROVE QueueSound'
  <2> DEFINE k == EnqueueSends(request[q], job)
  <2>1. /\ k \in Job /\ JobSound(k)
        /\ \/ k = NoJob \/ k = job
           \/ job = NoJob /\ k = NewJob
    BY <1>1, Enqueueing DEF EnqueueExtraction, QueueSound
  <2>2. job' = k /\ errors' = IF job = NoJob THEN 0 ELSE errors
    BY <1>1 DEF EnqueueExtraction
  <2>3. errors' \in 0 .. Attempts
    BY <2>2, JobQueueAssumption DEF JobQueueAssumption, QueueSound
  <2>4. CASE k = NoJob
    BY <2>2, <2>3, <2>4, NewJobs DEF QueueSound, ErrorsCount, OnlyErrorsDeadLetter
  <2>5. CASE k = job /\ k # NoJob
    BY <2>2, <2>5, QueueAlone
  <2>6. CASE job = NoJob /\ k = NewJob
    BY <2>2, <2>3, <2>6, NewJobs DEF QueueSound, ErrorsCount, OnlyErrorsDeadLetter
  <2> QED BY <2>1, <2>4, <2>5, <2>6
<1>2. ASSUME NEW r \in Run, StartRun(r) PROVE QueueSound'
  <2>1. /\ job' \in Job /\ JobSound(job') /\ job'.made = job.made
        /\ job'.state = "active" /\ job # NoJob
    BY <1>2, Taking DEF StartRun, QueueSound
  <2> QED BY <1>2, <2>1, QueueGoesOn DEF StartRun
<1>3. ASSUME NEW r \in Run, CompleteRun(r) PROVE QueueSound'
  BY <1>3, QueueCompletes DEF CompleteRun
<1>4. ASSUME NEW r \in Run, RateLimited(r) PROVE QueueSound'
  <2>1. CASE job.holder = r
    <3>1. /\ job' \in Job /\ JobSound(job') /\ job'.made = job.made
          /\ job'.state = "delayed" /\ job # NoJob
      BY <1>4, <2>1, Pausing, Holding DEF RateLimited, QueueSound
    <3> QED BY <1>4, <3>1, QueueGoesOn DEF RateLimited
  <2>2. CASE job.holder # r
    BY <1>4, <2>2, NotHolding, QueueAlone DEF RateLimited
  <2> QED BY <2>1, <2>2
<1>5. ASSUME NEW r \in Run, FailRun(r) \/ TimeOut(r) PROVE QueueSound'
  BY <1>5, QueueThrows DEF FailRun, TimeOut
<1>6. ASSUME NEW r \in Run, StallRun(r) PROVE QueueSound'
  <2>1. /\ job' \in Job /\ JobSound(job') /\ job'.made = job.made
        /\ job'.stalled /\ job # NoJob
    BY <1>6, Stalling, Holding DEF StallRun, QueueSound
  <2> QED BY <1>6, <2>1, QueueGoesOn DEF StallRun
<1>7. CASE PromoteJob
  <2>1. /\ job' \in Job /\ JobSound(job') /\ job'.made = job.made
        /\ job'.state = "waiting" /\ job # NoJob
    BY <1>7, Promoting DEF PromoteJob, QueueSound
  <2> QED BY <1>7, <2>1, QueueGoesOn DEF PromoteJob
<1>8. ASSUME NEW r \in Run,
             FindRegion(r) \/ FindBlock(r) \/ CreateBlock(r) \/ CreateResult(r) \/ ExtractText(r)
      PROVE  QueueSound'
  BY <1>8, QueueAlone DEF FindRegion, FindBlock, CreateBlock, CreateResult, ExtractText
<1>9. ASSUME NEW q \in Request, FindUnread(q) \/ GiveUp(q) PROVE QueueSound'
  BY <1>9, QueueAlone DEF FindUnread, GiveUp
<1>10. CASE MoveBox \/ GraderNext
  BY <1>10, QueueAlone
     DEF MoveBox, GraderNext, LocateAnswer, FindEvidence, GradeEvidence, EndGrading
<1>11. CASE UNCHANGED vars
  BY <1>11, QueueAlone DEF vars
<1> QED BY <1>1, <1>2, <1>3, <1>4, <1>5, <1>6, <1>7, <1>8, <1>9, <1>10, <1>11
        DEF Next, RunStep

\* The part that is about the runs and the evaluator.
ReadingSound ==
  /\ TypeOK /\ RunsKeepBox /\ ReadingsAreTrue /\ GraderLooks /\ GradedOnItsBox

\* A step of somebody else leaves the readings and who works on them alone.
LEMMA ReadingAlone ==
  ASSUME ReadingSound, QueueSound', UNCHANGED <<blocks, results, run, grader>>,
         region' \in Box, request' \in [Request -> {"idle"} \cup Enqueuing]
  PROVE  ReadingSound'
  BY DEF ReadingSound, TypeOK, RunsKeepBox, ReadingsAreTrue, GraderLooks, GradedOnItsBox,
         QueueSound

\* Every step leaves the readings true to their boxes.
LEMMA StepReading ==
  ASSUME ReadingSound, QueueSound', [Next]_vars
  PROVE  ReadingSound'
<1> USE DEF ReadingSound, TypeOK, RunsKeepBox, ReadingsAreTrue, GraderLooks, GradedOnItsBox,
            QueueSound
<1>1. CASE MoveBox
  BY <1>1, ReadingAlone DEF MoveBox
<1>2. ASSUME NEW q \in Request, FindUnread(q) \/ EnqueueExtraction(q) \/ GiveUp(q)
      PROVE  ReadingSound'
  <2>1. request' \in [Request -> {"idle"} \cup Enqueuing]
    BY <1>2 DEF FindUnread, EnqueueExtraction, GiveUp, EnqueueMoves, Enqueuing
  <2>2. region' \in Box /\ UNCHANGED <<blocks, results, run, grader>>
    BY <1>2 DEF FindUnread, EnqueueExtraction, GiveUp
  <2> QED BY <2>1, <2>2, ReadingAlone
<1>3. ASSUME NEW r \in Run, StartRun(r) PROVE ReadingSound'
  BY <1>3 DEF StartRun
<1>4. ASSUME NEW r \in Run, FindRegion(r) PROVE ReadingSound'
  BY <1>4 DEF FindRegion
<1>5. ASSUME NEW r \in Run, FindBlock(r) PROVE ReadingSound'
  <2> DEFINE b == run[r].box
  <2>1. PICK to \in {"reading", "filing"} :
          /\ to = "reading" => b \in blocks
          /\ run' = [run EXCEPT ![r].at = to, ![r].block = b]
    BY <1>5 DEF FindBlock
  <2>2. b \in Box /\ UNCHANGED <<region, job, errors, request, blocks, results, grader>>
    BY <1>5 DEF FindBlock
  <2> DEFINE Extraction ==
        [at : {"idle", "started", "located", "filing", "reading", "read", "done"},
         box : Box \cup {"nowhere"}, block : Box \cup {"nowhere"}]
  <2>3. run[r] \in Extraction
    OBVIOUS
  <2>4. [run[r] EXCEPT !.at = to, !.block = b] \in Extraction
    BY <2>2, <2>3
  <2>5. TypeOK'
    BY <2>1, <2>2, <2>4
  <2>6. RunsKeepBox'
    BY <2>1, <2>2
  <2> QED BY <2>2, <2>5, <2>6
<1>6. ASSUME NEW r \in Run, CreateBlock(r) PROVE ReadingSound'
  BY <1>6 DEF CreateBlock
<1>7. ASSUME NEW r \in Run, ExtractText(r) PROVE ReadingSound'
  BY <1>7 DEF ExtractText
<1>8. ASSUME NEW r \in Run, CreateResult(r) PROVE ReadingSound'
  BY <1>8 DEF CreateResult, Result, NoRun
<1>9. ASSUME NEW r \in Run, CompleteRun(r) \/ RateLimited(r) \/ FailRun(r)
      PROVE  ReadingSound'
  <2>1. run' = [run EXCEPT ![r] = NoRun] /\ UNCHANGED <<region, request, blocks, results, grader>>
    BY <1>9 DEF CompleteRun, RateLimited, FailRun, Throw
  <2> QED BY <2>1 DEF NoRun
<1>10. ASSUME NEW r \in Run, TimeOut(r) \/ StallRun(r) PROVE ReadingSound'
  BY <1>10, ReadingAlone DEF TimeOut, StallRun, Throw
<1>11. CASE PromoteJob
  BY <1>11, ReadingAlone DEF PromoteJob
<1>12. CASE LocateAnswer
  BY <1>12 DEF LocateAnswer, NoGrade
<1>13. CASE FindEvidence
  BY <1>13 DEF FindEvidence, NoGrade
<1>14. CASE GradeEvidence
  <2>1. UNCHANGED <<region, job, errors, request, blocks, results, run>> /\ grader.box \in Box
    BY <1>14 DEF GradeEvidence
  <2>2. CASE grader' = NoGrade
    BY <2>1, <2>2 DEF NoGrade
  <2>3. ASSUME NEW x \in results, x.block = grader.box,
               grader' = [grader EXCEPT !.at = "graded", !.from = x.from]
        PROVE  ReadingSound'
    <3>1. x.from = grader.box
      BY <2>3
    <3>2. grader'.at = "graded" /\ grader'.box = grader.box /\ grader'.from = grader.box
      BY <2>3, <3>1
    <3>3. grader' \in [at : {"idle", "located", "filed", "graded"},
                      box : Box \cup {"nowhere"}, from : Box \cup {"nowhere"}]
      BY <2>1, <2>3, <3>1
    <3> QED BY <2>1, <3>2, <3>3
  <2> QED BY <1>14, <2>2, <2>3 DEF GradeEvidence
<1>15. CASE EndGrading
  BY <1>15 DEF EndGrading, NoGrade
<1>16. CASE UNCHANGED vars
  BY <1>16, ReadingAlone DEF vars
<1> QED BY <1>1, <1>2, <1>3, <1>4, <1>5, <1>6, <1>7, <1>8, <1>9, <1>10, <1>11, <1>12,
           <1>13, <1>14, <1>15, <1>16 DEF Next, RunStep, GraderNext

\* The invariant holds at first.
LEMMA InitIInv == Init => ReadingSound /\ QueueSound
<1> SUFFICES ASSUME Init PROVE ReadingSound /\ QueueSound
  OBVIOUS
<1>1. QueueSound
  BY NewJobs, JobQueueAssumption
     DEF JobQueueAssumption, Init, QueueSound, ErrorsCount, OnlyErrorsDeadLetter
<1>2. ReadingSound
  BY <1>1 DEF Init, QueueSound, ReadingSound, TypeOK, RunsKeepBox, ReadingsAreTrue, GraderLooks,
              GradedOnItsBox, NoRun, NoGrade
<1> QED BY <1>1, <1>2

\* The invariant holds always.
LEMMA Invariance == Spec => [](ReadingSound /\ QueueSound)
<1>1. ReadingSound /\ QueueSound /\ [Next]_vars => (ReadingSound /\ QueueSound)'
  BY StepQueue, StepReading DEF ReadingSound
<1> QED BY <1>1, InitIInv, PTL DEF Spec

\* What is stored about an answer, its extractions and its job has its type.
THEOREM TypeCorrect == Spec => []TypeOK
<1>1. ReadingSound => TypeOK
  BY DEF ReadingSound
<1> QED BY <1>1, Invariance, PTL

\* _current_ocr_result(): whatever the evaluator grades on was read from the
\* box the region had when it looked.
THEOREM GradesTheRightBox == Spec => []GradedOnItsBox
<1>1. ReadingSound => GradedOnItsBox
  BY DEF ReadingSound
<1> QED BY <1>1, Invariance, PTL

\* deferIfRateLimited(): the attempts of a dead-lettered job all ended in
\* errors, and it made all it has unless its worker stalled: the provider's
\* pauses cost none.
THEOREM PausesCostNothing == Spec => []OnlyErrorsDeadLetter
<1>1. QueueSound => OnlyErrorsDeadLetter
  BY DEF QueueSound
<1> QED BY <1>1, Invariance, PTL
=============================================================================
