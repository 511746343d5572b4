------------------------------- MODULE Exams -------------------------------
(***************************************************************************)
(* One exam of the first generation: the requests that move its status,    *)
(* unlock it, delete it, link its paper, open answer sheets and grade      *)
(* them.  Each handler reads the exam, decides, and writes; two of them    *)
(* may have read the same exam.  A status is written only if the version   *)
(* is still the one that was read; a deletion and a grade go by the id.    *)
(***************************************************************************)
EXTENDS Naturals

CONSTANTS
  Request,     \* requests under way at a time
  Student,
  MaxVersion   \* bound: Exam.version

ASSUME ExamsAssumption == MaxVersion \in Nat

VARIABLES
  exam,      \* Exam.status and Exam.version
  audit,     \* audit log entries that are written with the change they record
  linked,    \* a paper has this examId
  sheet,     \* AnswerSheet of each student; a verified one has a ScoreRecord
  request    \* where each request is, and what it has read

examVars == <<exam, audit, linked, sheet, request>>

Flow == INSTANCE StatusFlow WITH
  status <- exam.status, version <- exam.version,
  locks <- audit.locks, unlocks <- audit.unlocks

Stage == Flow!Stage
NextStage == Flow!NextStage
Exam == [status : Stage \cup {"deleted"}, version : Nat]

\* "to" is the status to be written; "student" is of a grading.
Idle == [at |-> "idle", seen |-> [status |-> "DRAFT", version |-> 0], to |-> "DRAFT"]

Requests ==
  [at : {"idle", "gate", "moving", "counting", "deleting"}, seen : Exam, to : Stage]
  \cup [at : {"grading"}, student : Student]

ExamTypeOK ==
  /\ exam \in Exam
  /\ audit \in [locks : Nat, unlocks : Nat]
  /\ linked \in BOOLEAN
  /\ sheet \in [Student -> {"none", "created", "verified"}]
  /\ request \in [Request -> Requests]
  /\ exam.status = "deleted" => ~linked /\ \A s \in Student : sheet[s] = "none"

ExamInit ==
  /\ exam = [status |-> "DRAFT", version |-> 0]
  /\ audit = [locks |-> 0, unlocks |-> 0]
  /\ linked = FALSE
  /\ sheet = [s \in Student |-> "none"]
  /\ request = [r \in Request |-> Idle]

exists == exam.status # "deleted"
Reading(r) == request[r].at = "idle" /\ exists
Ends(r) == request' = [request EXCEPT ![r] = Idle]

-----------------------------------------------------------------------------
(* updateStatus() and unlock()                                             *)

\* The request names the version its client saw and the status after that; a
\* request with any other pair is refused here, without an effect.
ReadForMove(r) ==
  /\ Reading(r) /\ exam.status # "LOCKED"
  /\ exam.version < MaxVersion
  /\ LET to == NextStage[exam.status] IN
     request' = [request EXCEPT ![r] =
       [at |-> IF to = "LOCKED" THEN "gate" ELSE "moving", seen |-> exam, to |-> to]]
  /\ UNCHANGED <<exam, audit, linked, sheet>>

ReadForUnlock(r) ==
  /\ Reading(r) /\ exam.status = "LOCKED"
  /\ exam.version < MaxVersion
  /\ request' = [request EXCEPT ![r] = [at |-> "moving", seen |-> exam, to |-> "EVALUATING"]]
  /\ UNCHANGED <<exam, audit, linked, sheet>>

\* assertAllAnswerSheetsVerified(), outside the transaction.
PassGate(r) ==
  /\ request[r].at = "gate"
  /\ \A s \in Student : sheet[s] # "created"
  /\ request' = [request EXCEPT ![r].at = "moving"]
  /\ UNCHANGED <<exam, audit, linked, sheet>>

MoveAs(r, from) ==
  /\ request[r].at = "moving"
  /\ exam.status # "deleted"
  /\ exam.version = from
  /\ exam' = [status |-> request[r].to, version |-> exam.version + 1]
  /\ audit' = [locks |-> audit.locks + (IF request[r].to = "LOCKED" THEN 1 ELSE 0),
               unlocks |-> audit.unlocks + (IF request[r].seen.status = "LOCKED" THEN 1 ELSE 0)]
  /\ Ends(r)
  /\ UNCHANGED <<linked, sheet>>

\* Mutant: the write goes by the id alone.
WriteAnyway(r) == MoveAs(r, exam.version)

\* withVersionGuard(): the row is updated if it has the version that was read.
\* LOCK and UNLOCK are in one transaction with their audit entry.
WriteStatus(r) == MoveAs(r, request[r].seen.version)

\* STALE_VERSION, the gate's refusal, an error of the database, or a crash.
GiveUp(r) ==
  /\ request[r].at # "idle"
  /\ Ends(r)
  /\ UNCHANGED <<exam, audit, linked, sheet>>

-----------------------------------------------------------------------------
(* deleteExam(), linkPaper()                                               *)

ReadForDelete(r) ==
  /\ Reading(r) /\ exam.status \in {"DRAFT", "REVIEW", "APPROVED"}
  /\ request' = [request EXCEPT ![r] = [at |-> "counting", seen |-> exam, to |-> exam.status]]
  /\ UNCHANGED <<exam, audit, linked, sheet>>

CountSheets(r) ==
  /\ request[r].at = "counting"
  /\ \A s \in Student : sheet[s] = "none"
  /\ request' = [request EXCEPT ![r].at = "deleting"]
  /\ UNCHANGED <<exam, audit, linked, sheet>>

\* Mutant: the paper is not detached.
DeleteRows(r) ==
  /\ request[r].at = "deleting" /\ exists
  /\ exam' = [exam EXCEPT !.status = "deleted"]
  /\ sheet' = [s \in Student |-> "none"]
  /\ Ends(r)
  /\ UNCHANGED <<audit, linked>>

\* By the id; sheets and score records go with the exam (onDelete: Cascade).
DeleteExam(r) ==
  /\ request[r].at = "deleting" /\ exists
  /\ exam' = [exam EXCEPT !.status = "deleted"]
  /\ linked' = FALSE
  /\ sheet' = [s \in Student |-> "none"]
  /\ Ends(r)
  /\ UNCHANGED audit

LinkPaper ==
  /\ exists /\ ~linked
  /\ linked' = TRUE
  /\ UNCHANGED <<exam, audit, sheet, request>>

-----------------------------------------------------------------------------
(* createAnswerSheet(), gradeAnswerSheet()                                 *)

\* Whatever the status is: opening a student in the grading panel is enough.
CreateAnswerSheet(s) ==
  /\ exists /\ sheet[s] = "none"
  /\ sheet' = [sheet EXCEPT ![s] = "created"]
  /\ UNCHANGED <<exam, audit, linked, request>>

\* The sheet with its exam, then the paper.
ReadForGrade(r) ==
  /\ Reading(r) /\ exam.status # "LOCKED" /\ linked
  /\ \E s \in Student :
       /\ sheet[s] # "none"
       /\ request' = [request EXCEPT ![r] = [at |-> "grading", student |-> s]]
  /\ UNCHANGED <<exam, audit, linked, sheet>>

\* One transaction: every response of the sheet, its score, isVerified.  The
\* panel sends all questions in the paper's order, so the first row's lock
\* makes two of them follow each other.
CommitGrades(r) ==
  /\ request[r].at = "grading"
  /\ LET s == request[r].student IN
     /\ sheet[s] # "none"
     /\ sheet' = [sheet EXCEPT ![s] = "verified"]
  /\ Ends(r)
  /\ UNCHANGED <<exam, audit, linked>>

-----------------------------------------------------------------------------

RequestNext(r) ==
  \/ ReadForMove(r) \/ ReadForUnlock(r) \/ PassGate(r) \/ WriteStatus(r)
  \/ ReadForDelete(r) \/ CountSheets(r) \/ DeleteExam(r)
  \/ ReadForGrade(r) \/ CommitGrades(r) \/ GiveUp(r)

ExamNext ==
  \/ \E r \in Request : RequestNext(r)
  \/ \E s \in Student : CreateAnswerSheet(s)
  \/ LinkPaper

ExamSpec == ExamInit /\ [][ExamNext]_examVars
-----------------------------------------------------------------------------
(* Properties *)

\* version-guard.ts, exam-status-transitions.ts: however requests interleave,
\* no stage is skipped, none is left twice from one version, only an unlock
\* goes back, and none of the lock moves lacks its audit entry.
FlowsInStages == Flow!FlowSpec

\* 03-FEATURE-SPECIFICATIONS.md, Audit & Governance: the audit log tells from
\* its LOCK and UNLOCK entries alone whether the exam is locked.
LogTellsLock ==
  exists => audit.locks - audit.unlocks = IF exam.status = "LOCKED" THEN 1 ELSE 0

-----------------------------------------------------------------------------
(* Stated by the repository, and refuted by TLC: see README.md *)

\* exams.service.ts:287: once an exam is PUBLISHED, deleting it "would destroy
\* real student work, so those stages are refused".
PublishedIsKept ==
  [][exam.status \in {"PUBLISHED", "ONGOING", "EVALUATING", "LOCKED"}
       => exam'.status # "deleted"]_examVars
=============================================================================
