------------------------------ MODULE Mastery ------------------------------
(***************************************************************************)
(* What a committed mark does to one topic of one student: a job is queued *)
(* for the set of topics that were marked together, the Python service     *)
(* computes the mastery from all responses, and a topic that is weak gets  *)
(* one intervention, claimed on the MasteryScore row, until it recovers.   *)
(*                                                                         *)
(* Two executions of the calculation overlap when they were queued for     *)
(* different topic sets, or when the API stops waiting for one (15 s) and  *)
(* its job is tried again.                                                 *)
(***************************************************************************)
EXTENDS JobQueue, FiniteSets

CONSTANTS
  Key,       \* topic sets with this topic that are marked together
  Request,   \* requests that commit marks
  MaxMarks,  \* bound: marks committed
  Faults     \* "redis" enqueues, "slow" calculations, "service" the process
             \* that runs one, "database" a statement in it

ASSUME MasteryAssumption ==
  /\ Key # {} /\ MaxMarks \in Nat
  /\ Faults \subseteq {"redis", "slow", "service", "database"}

VARIABLES
  evidence,  \* authoritative marks so far, and whether they make it weak
  job,       \* the job mastery-<student>-<digest of the set>, per set
  request,   \* where each request is in enqueueDeduped()
  run,       \* each execution of recalculate_mastery()
  mastery,   \* the MasteryScore row: what it was computed from, and the claim
  rows,      \* rows each kind of intervention record has
  cleared,   \* claims that were cleared by a recovery
  lost       \* what an error that was logged and passed over did away with

masteryVars == <<evidence, job, request, run, mastery, rows, cleared, lost>>

\* _generate_one_intervention() creates one row of each, in this order.
After == [assignment |-> "intervention", intervention |-> "notice",
          notice |-> "delivery", delivery |-> "done"]
Kind == DOMAIN After

Evidence == [marks : 0 .. MaxMarks, weak : BOOLEAN]
Execution == [at : {"idle", "reading", "writing", "choosing", "claiming", "done"} \cup Kind,
              key : Key, read : Evidence]

MasteryTypeOK ==
  /\ evidence \in Evidence
  /\ job \in [Key -> Job]
  /\ request \in [Request -> [at : {"idle"} \cup Enqueuing, key : Key]]
  /\ run \in [Run -> Execution]
  /\ mastery \in [read : Evidence, claimed : BOOLEAN]
  /\ rows \in [Kind -> Nat]
  /\ cleared \in Nat
  /\ lost \subseteq {"recalculation", "intervention"}

NoMarks == [marks |-> 0, weak |-> FALSE]
NoRequest == [at |-> "idle", key |-> CHOOSE k \in Key : TRUE]
NoRun == [at |-> "idle", key |-> CHOOSE k \in Key : TRUE, read |-> NoMarks]

\* Where a run goes on; what it has read is used until the score is written.
Goes(r, to) == run' = [run EXCEPT ![r].at = to, ![r].read = NoMarks]
Ends(r) == run' = [run EXCEPT ![r] = NoRun]

MasteryInit ==
  /\ evidence = NoMarks
  /\ job = [k \in Key |-> NoJob]
  /\ request = [q \in Request |-> NoRequest]
  /\ run = [r \in Run |-> NoRun]
  /\ mastery = [read |-> NoMarks, claimed |-> FALSE]
  /\ rows = [w \in Kind |-> 0]
  /\ cleared = 0
  /\ lost = {}

-----------------------------------------------------------------------------
(* enqueueMasteryRecalc()                                                  *)

\* A decision, an override, a checked copy or a graded sheet is committed.
CommitMarks(q) ==
  /\ request[q].at = "idle" /\ evidence.marks < MaxMarks
  /\ \E weak \in BOOLEAN : evidence' = [marks |-> evidence.marks + 1, weak |-> weak]
  /\ \E k \in Key : request' = [request EXCEPT ![q] = [at |-> "checking", key |-> k]]
  /\ UNCHANGED <<job, run, mastery, rows, cleared, lost>>

EnqueueMasteryRecalc(q) ==
  LET k == request[q].key
      at == request[q].at IN
  /\ at \in Enqueuing
  /\ request' = [request EXCEPT ![q] =
       IF at = "adding" THEN NoRequest ELSE [@ EXCEPT !.at = EnqueueMoves(at, job[k])]]
  /\ job' = [job EXCEPT ![k] = EnqueueSends(at, @)]
  /\ UNCHANGED <<evidence, run, mastery, rows, cleared, lost>>

\* The enqueue fails on the caller, or one before it in the same handler.
GiveUp(q) ==
  /\ "redis" \in Faults
  /\ request[q].at \in Enqueuing
  /\ request' = [request EXCEPT ![q] = NoRequest]
  /\ UNCHANGED <<evidence, job, run, mastery, rows, cleared, lost>>

-----------------------------------------------------------------------------
(* recalculate_mastery()                                                   *)

StartRun(r) ==
  /\ run[r].at = "idle"
  /\ \E k \in Key :
       /\ job[k].state = "waiting"
       /\ job' = [job EXCEPT ![k] = Taken(@, r)]
       /\ run' = [run EXCEPT ![r] = [@ EXCEPT !.at = "reading", !.key = k]]
  /\ UNCHANGED <<evidence, request, mastery, rows, cleared, lost>>

\* find_many() over every response of the student to the topic.
ReadResponses(r) ==
  /\ run[r].at = "reading"
  /\ run' = [run EXCEPT ![r].at = "writing", ![r].read = evidence]
  /\ UNCHANGED <<evidence, job, request, mastery, rows, cleared, lost>>

\* The upsert; a recovery clears the claim in the same statement.
WriteMastery(r) ==
  LET read == run[r].read IN
  /\ run[r].at = "writing"
  /\ mastery' = [read |-> read, claimed |-> mastery.claimed /\ read.weak]
  /\ cleared' = IF mastery.claimed /\ ~read.weak THEN cleared + 1 ELSE cleared
  /\ Goes(r, IF read.weak THEN "choosing" ELSE "done")
  /\ UNCHANGED <<evidence, job, request, rows, lost>>

\* Mutant: claimed before a teacher is looked for.
ClaimAndChoose(r) ==
  /\ run[r].at = "choosing"
  /\ mastery' = [mastery EXCEPT !.claimed = TRUE]
  /\ \E to \in {"assignment", "done"} : Goes(r, IF mastery.claimed THEN "done" ELSE to)
  /\ UNCHANGED <<evidence, job, request, rows, cleared, lost>>

\* evaluate_interventions(): another topic of the set is weaker, the student
\* has no batch, or nobody teaches the subject there, and nothing follows.
Choose(r) ==
  /\ run[r].at = "choosing"
  /\ \E to \in {"claiming", "done"} : Goes(r, to)
  /\ UNCHANGED <<evidence, job, request, mastery, rows, cleared, lost>>

\* Mutant: whether there is a claim was seen when the score was written.
ClaimAnyway(r) ==
  /\ run[r].at = "claiming"
  /\ mastery' = [mastery EXCEPT !.claimed = TRUE]
  /\ Goes(r, "assignment")
  /\ UNCHANGED <<evidence, job, request, rows, cleared, lost>>

\* The conditional update_many().
Claim(r) ==
  /\ run[r].at = "claiming"
  /\ mastery' = [mastery EXCEPT !.claimed = TRUE]
  /\ Goes(r, IF mastery.claimed THEN "done" ELSE "assignment")
  /\ UNCHANGED <<evidence, job, request, rows, cleared, lost>>

Create(r) ==
  LET w == run[r].at IN
  /\ w \in Kind
  /\ rows' = [rows EXCEPT ![w] = @ + 1]
  /\ Goes(r, After[w])
  /\ UNCHANGED <<evidence, job, request, mastery, cleared, lost>>

Return(r) ==
  /\ run[r].at = "done"
  /\ job' = [job EXCEPT ![run[r].key] = Completed(@, r)]
  /\ Ends(r)
  /\ UNCHANGED <<evidence, request, mastery, rows, cleared, lost>>

Losing(r) ==
  CASE run[r].at \in {"reading", "writing"} -> {"recalculation"}
    [] run[r].at \in Kind -> {"intervention"}
    [] OTHER -> {}

\* An error of one topic, or of one intervention, is logged; the call succeeds.
PassOver(r) ==
  /\ "database" \in Faults
  /\ run[r].at \in {"reading", "writing", "claiming"} \cup Kind
  /\ lost' = lost \cup Losing(r)
  /\ Goes(r, "done")
  /\ UNCHANGED <<evidence, job, request, mastery, rows, cleared>>

\* Mutant: the processor logs the error.
Swallow(r) ==
  /\ "service" \in Faults
  /\ run[r].at # "idle"
  /\ job' = [job EXCEPT ![run[r].key] = Completed(@, r)]
  /\ Ends(r)
  /\ UNCHANGED <<evidence, request, mastery, rows, cleared, lost>>

\* Any other error, or the end of the process: the call fails, and is retried.
\* The retry finds the claim of an intervention that was not finished.
FailRun(r) ==
  /\ "service" \in Faults
  /\ run[r].at # "idle"
  /\ job' = [job EXCEPT ![run[r].key] = Thrown(@, r)]
  /\ lost' = lost \cup (Losing(r) \cap {"intervention"})
  /\ Ends(r)
  /\ UNCHANGED <<evidence, request, mastery, rows, cleared>>

\* requestMasteryRecalc() stops waiting; the calculation goes on.
TimeOut(r) ==
  /\ "slow" \in Faults
  /\ \E k \in Key : job[k].holder = r /\ job' = [job EXCEPT ![k] = Thrown(@, r)]
  /\ UNCHANGED <<evidence, request, run, mastery, rows, cleared, lost>>

PromoteJob(k) ==
  /\ job[k].state = "delayed"
  /\ job' = [job EXCEPT ![k] = Promoted(@)]
  /\ UNCHANGED <<evidence, request, run, mastery, rows, cleared, lost>>

-----------------------------------------------------------------------------

RunStep(r) ==
  \/ ReadResponses(r) \/ WriteMastery(r) \/ Choose(r) \/ Claim(r) \/ Create(r) \/ Return(r)

MasteryNext ==
  \/ \E q \in Request : CommitMarks(q) \/ EnqueueMasteryRecalc(q) \/ GiveUp(q)
  \/ \E r \in Run : StartRun(r) \/ RunStep(r) \/ PassOver(r) \/ FailRun(r) \/ TimeOut(r)
  \/ \E k \in Key : PromoteJob(k)

MasterySpec == MasteryInit /\ [][MasteryNext]_masteryVars

\* The queue and its workers do not stop as long as a job or a run can go on.
Fairness ==
  WF_masteryVars((\E k \in Key : PromoteJob(k)) \/ \E r \in Run : StartRun(r) \/ RunStep(r))

FairSpec == MasterySpec /\ Fairness
-----------------------------------------------------------------------------
(* Properties *)

\* intervention_engine.py:123: between two recoveries a weak topic gets one
\* assignment, one intervention, one notice and one delivery, whatever number
\* of calculations find it weak, and whatever they had read.
OneInterventionPerEpisode == \A w \in Kind : rows[w] <= cleared + 1

\* intervention_engine.py:111: a claim is spent only on an intervention: each
\* one was announced to the teacher or is on its way, unless an error or a
\* crash came between the claim and the announcement.
ClaimsAreAnswered ==
  "intervention" \notin lost =>
    cleared + (IF mastery.claimed THEN 1 ELSE 0) =
      rows["delivery"] + Cardinality({r \in Run : run[r].at \in Kind})

\* analytics.service.ts:25: marks whose recalculation waits in the queue reach
\* the mastery row, timeouts, retries and overlapping calculations
\* notwithstanding, unless the job is dead-lettered or an error was passed over;
\* for marks queued by one request at a time.
QueuedMarksCount ==
  \A k \in Key, n \in 1 .. MaxMarks :
    job[k].state = "waiting" /\ evidence.marks = n ~>
      mastery.read.marks >= n \/ job[k].state = "failed" \/ "recalculation" \in lost

-----------------------------------------------------------------------------
(* Stated by the repository, and refuted by TLC: see README.md *)

\* analytics.service.ts:25: a recalculation that throws is not silently lost.
NothingIsPassedOver ==
  \A k \in Key, n \in 1 .. MaxMarks :
    job[k].state = "waiting" /\ evidence.marks = n ~>
      mastery.read.marks >= n \/ job[k].state = "failed"

\* mastery_engine.py:135: a topic that has recovered has no claim, so that a
\* later drop is a fresh episode.
RecoveredIsUnclaimed ==
  (\A r \in Run : run[r].at = "idle") /\ ~mastery.read.weak => ~mastery.claimed
=============================================================================
