------------------------------ MODULE Reports ------------------------------
(***************************************************************************)
(* The reports of one student.  A teacher asks for one, an override of a   *)
(* mark reissues those that are complete, and a worker generates each from *)
(* a job of its own.  A report is a row with a status, and its file and    *)
(* its job have keys derived from its id: the three are written apart.     *)
(***************************************************************************)
EXTENDS JobQueue

CONSTANTS
  Report,    \* rows that may be created, 1 to their number
  Request,   \* requestReport() and override() calls under way
  Faults     \* what may fail: "redis" an enqueue, "storage" a query or an
             \* upload, "worker" the process of a generation, or its lock

ASSUME ReportsAssumption ==
  /\ Report \subseteq Nat \ {0}
  /\ Faults \subseteq {"redis", "storage", "worker"}

VARIABLES
  report,    \* Report.status and Report.supersedesReportId, 0 for null
  job,       \* the job report-<id> of each
  stray,     \* adds that were given up on and are still buffered
  run,       \* where each run of the processor is
  request,   \* where each request is
  troubled   \* history: reports queued late, not written, or with a run that broke off

vars == <<report, job, stray, run, request, troubled>>

Row == [status : {"none", "QUEUED", "PROCESSING", "COMPLETE", "FAILED"},
        supersedes : Report \cup {0}]

TypeOK ==
  /\ report \in [Report -> Row]
  /\ job \in [Report -> Job]
  /\ stray \subseteq Report /\ troubled \subseteq Report
  /\ run \in [Run -> [at : {"idle", "started", "generating", "done", "failing", "thrown"},
                      id : Report \cup {0}]]
  /\ request \in [Request -> [at : {"idle", "gone", "reissuing", "adding", "failing"},
                              id : Report \cup {0}, affected : SUBSET Report]]

NoRun == [at |-> "idle", id |-> 0]
NoRequest == [at |-> "idle", id |-> 0, affected |-> {}]

Init ==
  /\ report = [i \in Report |-> [status |-> "none", supersedes |-> 0]]
  /\ job = [i \in Report |-> NoJob]
  /\ stray = {} /\ troubled = {}
  /\ run = [r \in Run |-> NoRun]
  /\ request = [q \in Request |-> NoRequest]

exists(i) == report[i].status # "none"
fresh(i) == ~exists(i) /\ \A j \in Report : j < i => exists(j)
isSuperseded(i) == \E j \in Report : exists(j) /\ report[j].supersedes = i

\* A row is inserted, and its job is to be queued.
Queue(q, i, original, rest) ==
  /\ fresh(i)
  /\ report' = [report EXCEPT ![i] = [status |-> "QUEUED", supersedes |-> original]]
  /\ request' = [request EXCEPT ![q] = [at |-> "adding", id |-> i, affected |-> rest]]

-----------------------------------------------------------------------------
(* requestReport(), reissueForStudent()                                    *)

RequestReport(q) ==
  /\ request[q].at = "idle"
  /\ \E i \in Report : Queue(q, i, 0, {})
  /\ UNCHANGED <<job, stray, run, troubled>>

\* override() has committed a correction, and looks for what it touches.
Override(q) ==
  /\ request[q].at = "idle"
  /\ request' = [request EXCEPT ![q] = [@ EXCEPT !.at = "reissuing",
       !.affected = {i \in Report : report[i].status = "COMPLETE" /\ ~isSuperseded(i)}]]
  /\ UNCHANGED <<report, job, stray, run, troubled>>

\* Mutant: the report itself is generated once more.
RegenerateOne(q) ==
  /\ request[q].at = "reissuing"
  /\ \E i \in request[q].affected :
       /\ report' = [report EXCEPT ![i].status = "QUEUED"]
       /\ request' = [request EXCEPT ![q] =
            [at |-> "adding", id |-> i, affected |-> @.affected \ {i}]]
  /\ UNCHANGED <<job, stray, run, troubled>>

\* supersedesReportId is unique: a second reissue of the same report is refused,
\* and with it the rest of the override.
ReissueOne(q) ==
  /\ request[q].at = "reissuing"
  /\ \E i \in request[q].affected :
       IF isSuperseded(i)
       THEN request' = [request EXCEPT ![q].at = "gone"] /\ UNCHANGED report
       ELSE \E j \in Report : Queue(q, j, i, request[q].affected \ {i})
  /\ UNCHANGED <<job, stray, run, troubled>>

EndReissue(q) ==
  /\ request[q].at = "reissuing" /\ request[q].affected = {}
  /\ request' = [request EXCEPT ![q] = NoRequest]
  /\ UNCHANGED <<report, job, stray, run, troubled>>

isReissue(i) == report[i].supersedes # 0

\* The key is new, so enqueueDeduped() finds no failed job to clear.
Enqueue(q) ==
  LET i == request[q].id IN
  /\ request[q].at = "adding"
  /\ job' = [job EXCEPT ![i] = Added(@)]
  /\ request' = [request EXCEPT ![q] =
       IF isReissue(i) THEN [@ EXCEPT !.at = "reissuing", !.id = 0] ELSE NoRequest]
  /\ UNCHANGED <<report, stray, run, troubled>>

\* QueueUnavailableError.  The add may be buffered, and land later.
GiveUp(q) ==
  LET i == request[q].id IN
  /\ "redis" \in Faults
  /\ request[q].at = "adding"
  /\ request' = [request EXCEPT ![q].at = IF isReissue(i) THEN "gone" ELSE "failing"]
  /\ \/ UNCHANGED <<stray, troubled>>
     \/ stray' = stray \cup {i} /\ troubled' = troubled \cup {i}
  /\ UNCHANGED <<report, job, run>>

LateAdd(i) ==
  /\ i \in stray
  /\ job' = [job EXCEPT ![i] = Added(@)]
  /\ stray' = stray \ {i}
  /\ UNCHANGED <<report, run, request, troubled>>

\* Mutant: the row is left as it is.
TellCaller(q) ==
  /\ request[q].at = "failing"
  /\ request' = [request EXCEPT ![q] = NoRequest]
  /\ UNCHANGED <<report, job, stray, run, troubled>>

\* Only requestReport() takes the row back, whatever its status is by then; that
\* this write fails too is passed over.
MarkUnqueued(q) ==
  /\ request[q].at = "failing"
  /\ LET i == request[q].id IN
     \/ report' = [report EXCEPT ![i].status = "FAILED"] /\ UNCHANGED troubled
     \/ "storage" \in Faults /\ troubled' = troubled \cup {i} /\ UNCHANGED report
  /\ request' = [request EXCEPT ![q] = NoRequest]
  /\ UNCHANGED <<job, stray, run>>

RequestNext(q) ==
  \/ RequestReport(q) \/ Override(q) \/ ReissueOne(q) \/ EndReissue(q)
  \/ Enqueue(q) \/ GiveUp(q) \/ MarkUnqueued(q)

-----------------------------------------------------------------------------
(* ReportGenerationProcessor                                               *)

Goes(r, to) == run' = [run EXCEPT ![r].at = to]

StartRun(r) ==
  /\ run[r].at = "idle"
  /\ \E i \in Report :
       /\ job[i].state = "waiting"
       /\ job' = [job EXCEPT ![i] = Taken(@, r)]
       /\ run' = [run EXCEPT ![r] = [at |-> "started", id |-> i]]
  /\ UNCHANGED <<report, stray, request, troubled>>

\* The row of a run is written without a condition on its status.
Writes(r, from, status, to) ==
  /\ run[r].at = from
  /\ report' = [report EXCEPT ![run[r].id].status = status]
  /\ Goes(r, to)
  /\ UNCHANGED <<job, stray, request, troubled>>

Begin(r) == Writes(r, "started", "PROCESSING", "generating")

\* The payload is read, rendered and uploaded under a key made of the row's id,
\* and the row completed.
Finish(r) == Writes(r, "generating", "COMPLETE", "done")

\* A query, the store or the signing of its URL fails; or the database does not
\* take a write either, and the row stays as it is.
Fail(r) ==
  /\ "storage" \in Faults
  /\ \/ run[r].at = "generating" /\ Goes(r, "failing") /\ UNCHANGED troubled
     \/ /\ run[r].at \in {"started", "failing"}
        /\ Goes(r, "thrown")
        /\ troubled' = troubled \cup {run[r].id}
  /\ UNCHANGED <<report, job, stray, request>>

MarkFailed(r) == Writes(r, "failing", "FAILED", "thrown")

Ends(r, outcome) ==
  /\ job' = [job EXCEPT ![run[r].id] = outcome]
  /\ run' = [run EXCEPT ![r] = NoRun]
  /\ UNCHANGED <<report, stray, request>>

\* "rethrow so BullMQ's own retry/backoff still applies"
Rethrow(r) ==
  /\ run[r].at = "thrown"
  /\ Ends(r, Thrown(job[run[r].id], r)) /\ UNCHANGED troubled

CompleteRun(r) ==
  /\ run[r].at = "done"
  /\ Ends(r, Completed(job[run[r].id], r)) /\ UNCHANGED troubled

\* The process dies.
BreakOff(r) ==
  /\ "worker" \in Faults
  /\ run[r].at # "idle"
  /\ LET j == job[run[r].id] IN Ends(r, IfHolder(j, r, Stalled(j)))
  /\ troubled' = troubled \cup {run[r].id}

\* The lock is lost while the run goes on.
StallRun(r) ==
  LET i == run[r].id IN
  /\ "worker" \in Faults
  /\ run[r].at # "idle" /\ job[i].holder = r
  /\ job' = [job EXCEPT ![i] = Stalled(@)]
  /\ troubled' = troubled \cup {i}
  /\ UNCHANGED <<report, stray, run, request>>

PromoteJob(i) ==
  /\ job[i].state = "delayed"
  /\ job' = [job EXCEPT ![i] = Promoted(@)]
  /\ UNCHANGED <<report, stray, run, request, troubled>>

RunNext(r) ==
  \/ StartRun(r) \/ Begin(r) \/ Finish(r) \/ Fail(r) \/ MarkFailed(r)
  \/ CompleteRun(r) \/ Rethrow(r) \/ BreakOff(r) \/ StallRun(r)

-----------------------------------------------------------------------------

Next ==
  \/ \E q \in Request : RequestNext(q)
  \/ \E r \in Run : RunNext(r)
  \/ \E i \in Report : LateAdd(i) \/ PromoteJob(i)

Spec == Init /\ [][Next]_vars
-----------------------------------------------------------------------------
(* Properties *)

\* docs/31-EVALUATION-AUDIT-VERSIONING.md:39: an original is never silently
\* replaced and stays retrievable: a report that is COMPLETE stays so, and is not
\* generated again, whatever is corrected and reissued afterwards.  Only one
\* whose job was taken for dead, or landed after it was given up, may be.
OriginalIsKept ==
  [][\A i \in Report \ troubled :
       report[i].status = "COMPLETE" => report'[i] = report[i]]_vars

\* reports.service.ts:81: nobody waits for a report that no worker will pick
\* up.  When nothing is left to run, a report has its outcome, except for one
\* that a run broke off on or whose status could not be written, and a reissue
\* whose override failed before it was queued.
AtRest ==
  /\ stray = {}
  /\ \A i \in Report : job[i].state \in {"none", "failed"}
  /\ \A r \in Run : run[r].at = "idle"
  /\ \A q \in Request : request[q].at \in {"idle", "gone"}
EveryReportSettles ==
  AtRest =>
    \A i \in Report :
      report[i].status \in {"QUEUED", "PROCESSING"} =>
        \/ i \in troubled
        \/ /\ report[i].status = "QUEUED" /\ isReissue(i)
           /\ \E q \in Request : request[q].at = "gone" /\ request[q].id = i
=============================================================================
