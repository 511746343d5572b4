-------------------------- MODULE ScoreAggregation --------------------------
(***************************************************************************)
(* Keeping the ScoreRecord of one attempt in step with its answers.        *)
(*                                                                         *)
(* The marks are those of MarkLedger, which module Evaluation implements.  *)
(* A decide() or override() that has moved an answer's current version     *)
(* queues a recalculation under a job id of the attempt, and BullMQ        *)
(* ignores an add whose id exists in any state; a checked-copy submit      *)
(* recalculates in the request itself, beside the queue.  A recalculation  *)
(* lists the answers, reads their current versions and upserts the record, *)
(* with an await before each, in no transaction.                           *)
(***************************************************************************)
EXTENDS Naturals

CONSTANTS
  Answer,       \* the answers of the attempt that need a human's mark
  Collected,    \* those already there at first
  Desk,         \* concurrent decide() and override() requests
  Sheet,        \* concurrent checked-copy submissions
  Faults,       \* what may fail: "redis" the requests, "database" the
                \* recalculations, "retention" lets failed jobs be evicted
  Attempts,     \* JobsOptions.attempts, 3 in the code
  MaxRevision   \* bound: marks a human gives to one answer, in a row

ASSUME AggregationAssumption ==
  /\ Collected \subseteq Answer
  /\ Faults \subseteq {"redis", "database", "retention"}
  /\ Attempts \in Nat \ {0}
  /\ MaxRevision \in Nat
  /\ "queue" \notin Sheet

VARIABLES
  standing,     \* of MarkLedger
  revision,     \* which of its human marks counts for an answer, 0 for none
  record,       \* the ScoreRecord row
  job,          \* the job of this attempt's key, in Redis
  stray,        \* an add given up on after ENQUEUE_TIMEOUT_MS is still buffered
  calc,         \* recalculate(): one for the queue's run, one per submission
  desk          \* where each request is in enqueueDeduped()

vars == <<standing, revision, record, job, stray, calc, desk>>

Marks == INSTANCE MarkLedger WITH Response <- Answer, Graded <- FALSE, sealed <- FALSE

Calculator == Sheet \cup {"queue"}

present == {a \in Answer : Marks!exists(a)}

\* Mutant: any current version counts, the AI's included.
hasCurrentVersion(a) == standing[a] \in {"suggested", "approved"}

\* evaluation-status.util.ts: only a current version by a human counts.
isAuthoritativeResponse(a) == standing[a] = "approved"

\* Marks are represented by the revisions they come from: the row's totals
\* are sums of them, over the answers that were listed.
NoMarks == [a \in Answer |-> 0]
Record == [answers : SUBSET Answer, marks : [Answer -> 0 .. MaxRevision], isFinalized : BOOLEAN]
Unread(answers) == [answers |-> answers, marks |-> NoMarks, isFinalized |-> FALSE]
NoRecord == Unread({})

Job == [state : {"none", "waiting", "active", "delayed", "failed"}, made : 0 .. Attempts]
NoJob == [state |-> "none", made |-> 0]
NewJob == [state |-> "waiting", made |-> 0]

\* Queue.add() under a custom id: ignored if the id exists, in any state.
Added(j) == IF j.state = "none" THEN NewJob ELSE j

TypeOK ==
  /\ standing \in [Answer -> Marks!Standing]
  /\ revision \in [Answer -> 0 .. MaxRevision]
  /\ record \in Record
  /\ job \in Job
  /\ stray \in BOOLEAN
  /\ calc \in [Calculator -> [pc : {"idle", "started", "listed", "read", "written"}, result : Record]]
  /\ desk \in [Desk -> {"idle", "checking", "clearing", "adding"}]

Init ==
  /\ Marks!Init
  /\ revision = [a \in Answer |-> 0]
  /\ record = NoRecord
  /\ job = NoJob
  /\ stray = FALSE
  /\ calc = [c \in Calculator |-> [pc |-> "idle", result |-> NoRecord]]
  /\ desk = [d \in Desk |-> "idle"]

-----------------------------------------------------------------------------
(* What changes the marks.  An arriving answer, an AI suggestion and the   *)
(* deletion of an answer with its marks queue nothing.                     *)

Arrive(a) ==
  /\ Marks!Arrive(a)
  /\ UNCHANGED <<revision, record, job, stray, calc, desk>>

Suggest(a) ==
  /\ Marks!Suggest(a)
  /\ UNCHANGED <<revision, record, job, stray, calc, desk>>

Discard(a) ==
  /\ Marks!Discard(a)
  /\ UNCHANGED <<revision, record, job, stray, calc, desk>>

Approve(S) ==
  /\ Marks!Approve(S)
  /\ \A a \in S : revision[a] < MaxRevision
  /\ revision' = [a \in Answer |-> IF a \in S THEN revision[a] + 1 ELSE revision[a]]

-----------------------------------------------------------------------------
(* decide() and override(): the mark, then enqueueDeduped().               *)

DeskMark(d, a) ==
  /\ desk[d] = "idle"
  /\ Approve({a})
  /\ desk' = [desk EXCEPT ![d] = "checking"]
  /\ UNCHANGED <<record, job, stray, calc>>

\* getJob() and isFailed()
DeskCheck(d) ==
  /\ desk[d] = "checking"
  /\ desk' = [desk EXCEPT ![d] = IF job.state = "failed" THEN "clearing" ELSE "adding"]
  /\ UNCHANGED <<standing, revision, record, job, stray, calc>>

\* remove() goes by the id, whatever job has it now, and throws on one that
\* is running, which is caught.
DeskClear(d) ==
  /\ desk[d] = "clearing"
  /\ job' = IF job.state = "active" THEN job ELSE NoJob
  /\ desk' = [desk EXCEPT ![d] = "adding"]
  /\ UNCHANGED <<standing, revision, record, stray, calc>>

DeskAdd(d) ==
  /\ desk[d] = "adding"
  /\ job' = Added(job)
  /\ desk' = [desk EXCEPT ![d] = "idle"]
  /\ UNCHANGED <<standing, revision, record, stray, calc>>

\* Redis does not answer in time (QueueUnavailableError, a 500 after the mark
\* was saved) or the process dies.  Without the latter ioredis keeps the add.
DeskGiveUp(d) ==
  /\ "redis" \in Faults
  /\ desk[d] # "idle"
  /\ desk' = [desk EXCEPT ![d] = "idle"]
  /\ stray' \in {stray, TRUE}
  /\ UNCHANGED <<standing, revision, record, job, calc>>

StrayAdd ==
  /\ stray
  /\ stray' = FALSE
  /\ job' = Added(job)
  /\ UNCHANGED <<standing, revision, record, calc, desk>>

DeskNext(d) ==
  \/ \E a \in Answer : DeskMark(d, a)
  \/ DeskCheck(d) \/ DeskClear(d) \/ DeskAdd(d) \/ DeskGiveUp(d)

-----------------------------------------------------------------------------
(* CheckedCopyService.submit(): every answer listed then ends up approved, *)
(* unchanged ones are not written, and the total is recalculated inline.   *)

SheetSubmit(s, S) ==
  /\ calc[s].pc = "idle"
  /\ \A a \in present \ S : standing[a] = "approved"
  /\ \/ Approve(S)
     \/ S = {} /\ present # {} /\ UNCHANGED <<standing, revision>>
  /\ calc' = [calc EXCEPT ![s].pc = "started"]
  /\ UNCHANGED <<record, job, stray, desk>>

\* The marks are committed; an error before the upsert is not retried.
SheetFail(s) ==
  /\ "database" \in Faults
  /\ calc[s].pc # "idle"
  /\ calc' = [calc EXCEPT ![s] = [pc |-> "idle", result |-> NoRecord]]
  /\ UNCHANGED <<standing, revision, record, job, stray, desk>>

SheetNext(s) == (\E S \in SUBSET Answer : SheetSubmit(s, S)) \/ SheetFail(s)

-----------------------------------------------------------------------------
(* ScoreAggregationService.recalculate()                                   *)

\* response.findMany(), then the evaluations and versions it includes.
ListResponses(c) ==
  /\ calc[c].pc = "started"
  /\ calc' = [calc EXCEPT ![c] = [pc |-> "listed", result |-> Unread(present)]]
  /\ UNCHANGED <<standing, revision, record, job, stray, desk>>

ReadVersions(c) ==
  LET answers == calc[c].result.answers
      approved == {a \in answers : isAuthoritativeResponse(a)} IN
  /\ calc[c].pc = "listed"
  /\ calc' = [calc EXCEPT ![c] =
       [pc |-> "read",
        result |-> [answers |-> answers,
                    marks |-> [a \in Answer |-> IF a \in approved THEN revision[a] ELSE 0],
                    isFinalized |-> approved = answers]]]
  /\ UNCHANGED <<standing, revision, record, job, stray, desk>>

\* scoreRecord.upsert(): unconditional.
UpsertRecord(c) ==
  /\ calc[c].pc = "read"
  /\ record' = calc[c].result
  /\ calc' = [calc EXCEPT ![c] =
       [pc |-> IF c = "queue" THEN "written" ELSE "idle", result |-> NoRecord]]
  /\ UNCHANGED <<standing, revision, job, stray, desk>>

RecalculateNext(c) == ListResponses(c) \/ ReadVersions(c) \/ UpsertRecord(c)

-----------------------------------------------------------------------------
(* The worker side of the queue.                                           *)

RunJob ==
  /\ job.state = "waiting"
  /\ job' = [job EXCEPT !.state = "active"]
  /\ calc' = [calc EXCEPT !["queue"].pc = "started"]
  /\ UNCHANGED <<standing, revision, record, stray, desk>>

\* removeOnComplete frees the id, after the run has upserted.
CompleteJob ==
  /\ calc["queue"].pc = "written"
  /\ job' = NoJob
  /\ calc' = [calc EXCEPT !["queue"].pc = "idle"]
  /\ UNCHANGED <<standing, revision, record, stray, desk>>

\* A database error, or a worker that died and whose job was found stalled.
FailRunTo(next) ==
  /\ "database" \in Faults
  /\ calc["queue"].pc # "idle"
  /\ job' = next
  /\ calc' = [calc EXCEPT !["queue"] = [pc |-> "idle", result |-> NoRecord]]
  /\ UNCHANGED <<standing, revision, record, stray, desk>>

\* Mutants: removeOnFail set to true; attempts never checked.
DropRun == FailRunTo(NoJob)
RetryRun == FailRunTo([state |-> "delayed", made |-> job.made + 1])

\* Another attempt after a delay, or dead-lettered and kept.
FailRun ==
  FailRunTo([state |-> IF job.made + 1 < Attempts THEN "delayed" ELSE "failed",
             made |-> job.made + 1])

PromoteJob ==
  /\ job.state = "delayed"
  /\ job' = [job EXCEPT !.state = "waiting"]
  /\ UNCHANGED <<standing, revision, record, stray, calc, desk>>

\* removeOnFail: failed jobs are kept for a week, and no more than 1000.
ForgetFailed ==
  /\ "retention" \in Faults
  /\ job.state = "failed"
  /\ job' = NoJob
  /\ UNCHANGED <<standing, revision, record, stray, calc, desk>>

WorkerNext == RunJob \/ CompleteJob \/ FailRun \/ PromoteJob \/ ForgetFailed

-----------------------------------------------------------------------------

Next ==
  \/ \E a \in Answer : Arrive(a) \/ Suggest(a) \/ Discard(a)
  \/ \E d \in Desk : DeskNext(d)
  \/ StrayAdd
  \/ \E s \in Sheet : SheetNext(s)
  \/ \E c \in Calculator : RecalculateNext(c)
  \/ WorkerNext

Spec == Init /\ [][Next]_vars

\* The queue and its worker do not stop as long as a job or its recalculation
\* can go on, nor do the requests that have begun to queue one, unless they
\* give up.  Nobody has to mark anything.
Fairness ==
  /\ WF_vars(\E d \in Desk : DeskCheck(d) \/ DeskClear(d) \/ DeskAdd(d))
  /\ WF_vars(RunJob \/ PromoteJob \/ RecalculateNext("queue") \/ CompleteJob)

FairSpec == Spec /\ Fairness
-----------------------------------------------------------------------------
(* Properties *)

\* docs/32-AI-GOVERNANCE-POLICY.md 2: an unapproved answer contributes
\* nothing, and a finalized record rests on answers that had been approved,
\* however stale the recalculation that wrote it.  They may have been
\* discarded since: the record is not told.
wasApproved(a) ==
  standing[a] \in {"approved", "discarded"} /\ revision[a] # 0
RecordIsHumanWork ==
  /\ \A a \in Answer :
       /\ record.marks[a] <= revision[a]
       /\ record.marks[a] # 0 => wasApproved(a) /\ a \in record.answers
  /\ record.isFinalized => \A a \in record.answers : wasApproved(a) /\ record.marks[a] # 0

\* Marks approved by the time a job is waiting are eventually counted, unless
\* the answer is discarded or its job dead-lettered: retries, delays, inline
\* recalculations that overtake it and requests that give up notwithstanding.
WaitingJobCounts ==
  \A a \in Answer, n \in 1 .. MaxRevision :
    job.state = "waiting" /\ revision[a] >= n
      ~> record.marks[a] >= n \/ job.state = "failed" \/ standing[a] = "discarded"

-----------------------------------------------------------------------------
(* Stated by the repository, and refuted by TLC: see README.md *)

\* docs/25-EVALUATION-ENGINE.md:95: the record always reflects each answer's
\* current evaluation, at the latest when nothing is left to run.
AtRest ==
  /\ job.state = "none" /\ ~stray
  /\ \A d \in Desk : desk[d] = "idle"
  /\ \A c \in Calculator : calc[c].pc = "idle"
RecordIsCurrentAtRest ==
  AtRest => \A a \in Answer : standing[a] = "approved" => record.marks[a] = revision[a]

\* enqueue.ts:75: a retained failed job must not block its key, so a request
\* whose enqueue returns success leaves a job that will run or is running.
EnqueueSchedules ==
  [][\A d \in Desk : desk[d] = "adding" /\ desk'[d] = "idle" /\ stray' = stray
        => job'.state \in {"waiting", "active", "delayed"}]_vars
=============================================================================
